------------------------- MODULE GaleraBackupProofs -------------------------
(***************************************************************************)
(* The status Complete of a GaleraBackup is never wrong about where the    *)
(* artifact is: proof for any number of backups, workers, attempts, faults *)
(* and restarts.                                                           *)
(***************************************************************************)
EXTENDS GaleraBackup, FiniteSetTheorems, TLAPS

(* What has reached the bucket: the parts of the inductive invariant.      *)

(* A key has been through the pipe once TarGzip has started on it.         *)
PipeFilled ==
    \A k \in Jobs : tar[k] \in {"reading", "closed", "failed"} => pipe[k] # "none"

(* StateMap says completed only of keys that are in the bucket.            *)
CompletedStored == \A k \in Jobs : stateMap[k] = "completed" => bucket[k] # "none"

(* A goroutine reports only what is in the bucket.                         *)
ReportedStored == \A j \in Jobs : job[j].pc = "report" => bucket[j] # "none"

(* A goroutine that has not been started belongs to no backup.             *)
FreshJobs == \A j \in Jobs : job[j].pc = "none" => job[j].of = {}

(* The artifact a version of a status names is in the bucket.              *)
Stored(b, s) ==
    Complete(s) => s.outcome \in Jobs /\ job[s.outcome].of = {b} /\ bucket[s.outcome] # "none"

(* All versions of a status are right, not only the last one.              *)
VersionsStored ==
    \A b \in Backups : \A v \in 1 .. Len(history[b]) : Stored(b, history[b][v])

BackupInv ==
    /\ PipeFilled
    /\ CompletedStored
    /\ ReportedStored
    /\ FreshJobs
    /\ VersionsStored

(* The bounds of the model are what BackupAssumption says.                 *)
LEMMA Sizes ==
    /\ Threads \in Nat \ {0} /\ RetrySteps \in Nat \ {0} /\ MaxJobs \in Nat \ {0}
    /\ MaxFaults \in Nat /\ MaxRestarts \in Nat
BY BackupAssumption

(* The initial state has the types of TypeOK.                              *)
LEMMA TypeInit == Init => TypeOK
<1> SUFFICES ASSUME Init PROVE TypeOK
  OBVIOUS
<1>1. NewStatus \in Statuses
  BY DEF NewStatus, Statuses
<1>2. \A b \in Backups : Len(history[b]) = 1
  BY DEF Init
<1>3. history \in [Backups -> Seq(Statuses)]
  BY <1>1 DEF Init
<1> QED
  BY <1>1, <1>2, <1>3, Sizes DEF Init, TypeOK, Idle, NotStarted, Contents, Stages, Execs

(* What a write of a status does to the versions of all backups.           *)
LEMMA WriteType ==
    ASSUME TypeOK, NEW b \in Backups, NEW s \in Statuses,
           history' = [history EXCEPT ![b] = Append(@, s)]
    PROVE  /\ history' \in [Backups -> Seq(Statuses)]
           /\ \A c \in Backups : Len(history[c]) <= Len(history'[c])
           /\ \A c \in Backups : \A v \in 1 .. Len(history'[c]) :
                \/ v \in 1 .. Len(history[c]) /\ history'[c][v] = history[c][v]
                \/ c = b /\ history'[c][v] = s
<1>1. history \in [Backups -> Seq(Statuses)]
  BY DEF TypeOK
<1>2. history[b] \in Seq(Statuses) /\ Append(history[b], s) \in Seq(Statuses)
  BY <1>1
<1>3. history' \in [Backups -> Seq(Statuses)]
  BY <1>1, <1>2
<1>4. ASSUME NEW c \in Backups
      PROVE  /\ Len(history[c]) <= Len(history'[c])
             /\ \A v \in 1 .. Len(history'[c]) :
                 \/ v \in 1 .. Len(history[c]) /\ history'[c][v] = history[c][v]
                 \/ c = b /\ history'[c][v] = s
  <2>1. CASE c = b
    <3>1. history'[c] = Append(history[b], s)
      BY <1>1, <2>1
    <3> QED
      BY <1>2, <2>1, <3>1
  <2>2. CASE c # b
    <3>1. history'[c] = history[c] /\ Len(history[c]) \in Nat
      BY <1>1, <2>2
    <3> QED
      BY <3>1
  <2> QED
    BY <2>1, <2>2
<1> QED
  BY <1>3, <1>4

(* The status written at the start of a backup and the one at its end.     *)
LEMMA StatusesWritten ==
    ASSUME TypeOK
    PROVE  /\ RunningStatus \in Statuses
           /\ \A j \in Jobs : \A b \in job[j].of : CompleteStatus(j, b) \in Statuses
<1>1. RunningStatus \in Statuses
  BY DEF RunningStatus, Statuses
<1>2. ASSUME NEW j \in Jobs, NEW b \in job[j].of
      PROVE  CompleteStatus(j, b) \in Statuses
  <2>1. b \in Backups /\ job[j].base \in 1 .. Len(history[b])
    BY DEF TypeOK
  <2>2. history[b] \in Seq(Statuses)
    BY <2>1 DEF TypeOK
  <2>3. history[b][job[j].base] \in Statuses
    BY <2>1, <2>2
  <2> QED
    BY <2>3 DEF CompleteStatus, Statuses
<1> QED
  BY <1>1, <1>2

(* The state that the controller, the goroutines and the server have in    *)
(* TypeOK, apart from one another.                                         *)
JobRecords == [pc : Stages, of : SUBSET Backups, base : Nat, rv : Nat, tries : Nat]

VersionType ==
    /\ history \in [Backups -> Seq(Statuses)]
    /\ cache \in [Backups -> Nat]
    /\ \A b \in Backups : cache[b] \in 1 .. Len(history[b])
    /\ handler \in [Backups -> [on : BOOLEAN, base : Nat, rv : Nat, tries : Nat]]
    /\ \A b \in Backups : handler[b].on =>
        {handler[b].base, handler[b].rv} \subseteq 1 .. Len(history[b])
    /\ job \in [Jobs -> JobRecords]
    /\ \A j \in Jobs, b \in Backups : b \in job[j].of =>
        job[j].of = {b} /\ {job[j].base, job[j].rv} \subseteq 1 .. Len(history[b])

ServerType ==
    /\ queue \subseteq Backups
    /\ dir \in {"absent", "empty", "raw", "ready"}
    /\ stateMap \in [Jobs -> {"none", "running", "completed", "failed"}]
    /\ tar \in [Jobs -> {"none", "start", "reading", "closed", "failed"}]
    /\ pipe \in [Jobs -> Contents]
    /\ store \in [Jobs -> {"none", "running", "ended"}]
    /\ bucket \in [Jobs -> Contents]
    /\ faults \in 0 .. MaxFaults
    /\ restarts \in 0 .. MaxRestarts

(* TypeOK is the two of them.                                              *)
LEMMA TypeSplit == TypeOK <=> VersionType /\ ServerType
BY DEF TypeOK, VersionType, ServerType, JobRecords

(* No step spoils the types of what is not counted in versions.            *)
LEMMA ServerTypeNext == ServerType /\ [Next]_vars => ServerType'
<1> SUFFICES ASSUME ServerType, [Next]_vars PROVE ServerType'
  OBVIOUS
<1> USE Sizes DEF ServerType, Contents, controllerVars, serverVars
<1>1. ASSUME NEW b \in Backups, ControllerStep(b) PROVE ServerType'
  BY <1>1 DEF ControllerStep, SyncSkips, SyncGivesUp, SyncHandles, WorkerTakes,
    HandlerWrites, HandlerConflicts, HandlerFails, InformerCatchesUp, Resync, Fault
<1>2. ASSUME NEW j \in Jobs, JobStep(j) PROVE ServerType'
  <2>1. CASE ExecRm(j)
    BY <2>1 DEF ExecRm
  <2>2. CASE ExecMkdir(j) \/ ExecBackup(j) \/ ExecPrepare(j) \/ JobFails(j)
    BY <2>2 DEF ExecMkdir, ExecBackup, ExecPrepare, Exec, JobFails, Fault
  <2>3. CASE PostBackup(j)
    BY <2>3 DEF PostBackup, S3Backup
  <2>4. CASE PostUnanswered(j)
    BY <2>4 DEF PostUnanswered, S3Backup, Fault
  <2>5. CASE PostRefused(j) \/ PollState(j)
    BY <2>5 DEF PostRefused, PollState, Fault
  <2>6. CASE ReportWrites(j) \/ ReportConflicts(j) \/ ReportFails(j)
    BY <2>6 DEF ReportWrites, ReportConflicts, ReportFails, Fault
  <2> QED
    BY <1>2, <2>1, <2>2, <2>3, <2>4, <2>5, <2>6 DEF JobStep
<1>3. ASSUME NEW k \in Jobs, ServerStep(k) PROVE ServerType'
  <2>1. CASE TarOpens(k) \/ TarEnds(k)
    BY <2>1 DEF TarOpens, TarEnds
  <2>2. CASE TarGivesUp(k)
    BY <2>2 DEF TarGivesUp, Failed
  <2>3. CASE TarFails(k)
    BY <2>3 DEF TarFails, Failed, Fault
  <2>4. CASE StoreEnds(k)
    BY <2>4 DEF StoreEnds
  <2>5. CASE StoreFails(k)
    BY <2>5 DEF StoreFails, Failed, Fault
  <2> QED
    BY <1>3, <2>1, <2>2, <2>3, <2>4, <2>5 DEF ServerStep
<1>4. CASE OperatorRestarts
  BY <1>4 DEF OperatorRestarts
<1>5. CASE BackupPodReplaced
  BY <1>5 DEF BackupPodReplaced, Fault
<1>6. CASE UNCHANGED vars
  BY <1>6 DEF vars
<1> QED
  BY <1>1, <1>2, <1>3, <1>4, <1>5, <1>6 DEF Next

(* A goroutine that only moves to another stage holds what it held.        *)
LEMMA GoesType ==
    ASSUME VersionType, NEW j \in Jobs, NEW pc \in Stages, Goes(j, pc)
    PROVE  /\ job' \in [Jobs -> JobRecords]
           /\ \A i \in Jobs : /\ job'[i].of = job[i].of
                              /\ job'[i].base = job[i].base
                              /\ job'[i].rv = job[i].rv
           /\ job'[j].pc = pc
           /\ \A i \in Jobs \ {j} : job'[i] = job[i]
<1>1. job \in [Jobs -> JobRecords]
  BY DEF VersionType
<1>2. job' = [job EXCEPT ![j] = [job[j] EXCEPT !.pc = pc]]
  BY <1>1 DEF Goes
<1>3. job[j] \in JobRecords
  BY <1>1
<1>4. /\ [job[j] EXCEPT !.pc = pc] \in JobRecords
      /\ [job[j] EXCEPT !.pc = pc].of = job[j].of
      /\ [job[j] EXCEPT !.pc = pc].base = job[j].base
      /\ [job[j] EXCEPT !.pc = pc].rv = job[j].rv
      /\ [job[j] EXCEPT !.pc = pc].pc = pc
  BY <1>3 DEF JobRecords
<1>5. /\ job'[j] = [job[j] EXCEPT !.pc = pc]
      /\ \A i \in Jobs \ {j} : job'[i] = job[i]
      /\ job' \in [Jobs -> JobRecords]
  BY <1>1, <1>2, <1>4
<1> QED
  BY <1>4, <1>5

(* Steps of a goroutine that leave the controller alone.                   *)
LEMMA GoesVersions ==
    ASSUME VersionType, NEW j \in Jobs, NEW pc \in Stages, Goes(j, pc), UNCHANGED controllerVars
    PROVE  VersionType'
<1>1. UNCHANGED <<history, cache, handler>>
  BY DEF controllerVars
<1>2. job' \in [Jobs -> JobRecords]
  BY GoesType
<1>3. \A i \in Jobs : job'[i].of = job[i].of /\ job'[i].base = job[i].base /\ job'[i].rv = job[i].rv
  BY GoesType
<1>4. ASSUME NEW i \in Jobs, NEW b \in Backups, b \in job'[i].of
      PROVE  job'[i].of = {b} /\ {job'[i].base, job'[i].rv} \subseteq 1 .. Len(history'[b])
  <2>1. b \in job[i].of
    BY <1>3, <1>4
  <2>2. job[i].of = {b} /\ {job[i].base, job[i].rv} \subseteq 1 .. Len(history[b])
    BY <2>1 DEF VersionType
  <2> QED
    BY <1>1, <1>3, <2>2
<1> QED
  BY <1>1, <1>2, <1>4 DEF VersionType

(* Steps that leave the goroutines alone, or start one that holds a        *)
(* version of its backup: history may have grown.                          *)
LEMMA VersionsGrow ==
    ASSUME VersionType,
           history' \in [Backups -> Seq(Statuses)],
           \A b \in Backups : Len(history[b]) <= Len(history'[b])
    PROVE  /\ \A b \in Backups : Len(history[b]) \in Nat /\ Len(history'[b]) \in Nat
           /\ \A b \in Backups : cache[b] \in 1 .. Len(history'[b])
           /\ \A b \in Backups : handler[b].on =>
                {handler[b].base, handler[b].rv} \subseteq 1 .. Len(history'[b])
           /\ \A j \in Jobs, b \in Backups : b \in job[j].of =>
                job[j].of = {b} /\ {job[j].base, job[j].rv} \subseteq 1 .. Len(history'[b])
<1>1. \A b \in Backups : Len(history[b]) \in Nat /\ Len(history'[b]) \in Nat
  BY DEF VersionType
<1>2. \A b \in Backups, v \in Nat : v \in 1 .. Len(history[b]) => v \in 1 .. Len(history'[b])
  BY <1>1
<1>3. \A b \in Backups : cache[b] \in 1 .. Len(history'[b])
  BY <1>2 DEF VersionType
<1>4. ASSUME NEW b \in Backups, handler[b].on
      PROVE  {handler[b].base, handler[b].rv} \subseteq 1 .. Len(history'[b])
  BY <1>2, <1>4 DEF VersionType
<1>5. ASSUME NEW j \in Jobs, NEW b \in Backups, b \in job[j].of
      PROVE  job[j].of = {b} /\ {job[j].base, job[j].rv} \subseteq 1 .. Len(history'[b])
  <2>1. job[j].of = {b} /\ {job[j].base, job[j].rv} \subseteq 1 .. Len(history[b])
    BY <1>5 DEF VersionType
  <2>2. job[j].base \in 1 .. Len(history[b]) /\ job[j].rv \in 1 .. Len(history[b])
    BY <2>1
  <2> QED
    BY <1>2, <2>1, <2>2
<1> QED
  BY <1>1, <1>3, <1>4, <1>5

(* Steps of a goroutine that write the final status.                       *)
LEMMA ReportVersions ==
    ASSUME TypeOK, NEW j \in Jobs, Goes(j, "ended"), UNCHANGED <<cache, handler>>,
           NEW b \in job[j].of, history' = [history EXCEPT ![b] = Append(@, CompleteStatus(j, b))]
    PROVE  VersionType'
<1>1. VersionType /\ b \in Backups
  BY TypeSplit DEF TypeOK
<1>2. CompleteStatus(j, b) \in Statuses
  BY StatusesWritten
<1>3. /\ history' \in [Backups -> Seq(Statuses)]
      /\ \A c \in Backups : Len(history[c]) <= Len(history'[c])
  BY <1>1, <1>2, WriteType
<1>4. /\ job' \in [Jobs -> JobRecords]
      /\ \A i \in Jobs : job'[i].of = job[i].of /\ job'[i].base = job[i].base /\ job'[i].rv = job[i].rv
  BY <1>1, GoesType DEF Stages
<1>5. \A i \in Jobs, c \in Backups : c \in job'[i].of =>
        job'[i].of = {c} /\ {job'[i].base, job'[i].rv} \subseteq 1 .. Len(history'[c])
  BY <1>1, <1>3, <1>4, VersionsGrow
<1>6. /\ \A c \in Backups : cache'[c] \in 1 .. Len(history'[c])
      /\ \A c \in Backups : handler'[c].on =>
            {handler'[c].base, handler'[c].rv} \subseteq 1 .. Len(history'[c])
  BY <1>1, <1>3, VersionsGrow
<1>7. cache' \in [Backups -> Nat]
      /\ handler' \in [Backups -> [on : BOOLEAN, base : Nat, rv : Nat, tries : Nat]]
  BY <1>1 DEF VersionType
<1> QED
  BY <1>3, <1>4, <1>5, <1>6, <1>7 DEF VersionType

(* No step of a goroutine spoils the versions.                             *)
LEMMA JobVersions ==
    ASSUME TypeOK, NEW j \in Jobs, JobStep(j)
    PROVE  VersionType'
<1>1. VersionType
  BY TypeSplit
<1>2. CASE ExecRm(j) \/ ExecMkdir(j) \/ ExecBackup(j) \/ ExecPrepare(j) \/ JobFails(j)
  <2>1. UNCHANGED controllerVars /\ \E pc \in Stages : Goes(j, pc)
    BY <1>2 DEF ExecRm, ExecMkdir, ExecBackup, ExecPrepare, Exec, JobFails, Stages, Execs
  <2> QED
    BY <1>1, <2>1, GoesVersions
<1>3. CASE PostBackup(j) \/ PostUnanswered(j) \/ PostRefused(j) \/ PollState(j)
  <2>1. UNCHANGED controllerVars /\ \E pc \in Stages : Goes(j, pc)
    BY <1>3 DEF PostBackup, PostUnanswered, PostRefused, PollState, Stages
  <2> QED
    BY <1>1, <2>1, GoesVersions
<1>4. CASE ReportWrites(j)
  BY <1>4, ReportVersions DEF ReportWrites
<1>5. CASE ReportFails(j)
  <2>1. CASE UNCHANGED history
    <3>1. UNCHANGED controllerVars /\ Goes(j, "ended") /\ "ended" \in Stages
      BY <1>5, <2>1 DEF ReportFails, controllerVars, Stages
    <3> QED
      BY <1>1, <3>1, GoesVersions
  <2>2. CASE \E b \in job[j].of : history' = [history EXCEPT ![b] = Append(@, CompleteStatus(j, b))]
    BY <1>5, <2>2, ReportVersions DEF ReportFails
  <2> QED
    BY <1>5, <2>1, <2>2 DEF ReportFails
<1>6. CASE ReportConflicts(j)
  <2>1. CASE Goes(j, "ended")
    <3>1. UNCHANGED controllerVars /\ "ended" \in Stages
      BY <1>6 DEF ReportConflicts, Stages
    <3> QED
      BY <1>1, <2>1, <3>1, GoesVersions
  <2>2. ASSUME NEW b \in job[j].of,
               job' = [job EXCEPT ![j].rv = cache[b], ![j].tries = @ + 1]
        PROVE  VersionType'
    <3>1. UNCHANGED <<history, cache, handler>>
      BY <1>6 DEF ReportConflicts, controllerVars
    <3>2. b \in Backups /\ cache[b] \in Nat /\ cache[b] \in 1 .. Len(history[b])
      BY <1>1 DEF TypeOK
    <3>3. job \in [Jobs -> JobRecords] /\ job[j] \in JobRecords
      BY <1>1 DEF VersionType
    <3>4. job[j].tries + 1 \in Nat
      BY <3>3 DEF JobRecords
    <3> DEFINE r == [[job[j] EXCEPT !.rv = cache[b]] EXCEPT !.tries = @ + 1]
    <3>5. /\ r \in JobRecords /\ r.of = job[j].of /\ r.base = job[j].base /\ r.rv = cache[b]
      BY <3>2, <3>3, <3>4 DEF JobRecords
    <3>6. job' = [job EXCEPT ![j] = r]
      BY <2>2, <3>3
    <3> HIDE DEF r
    <3>7. job' \in [Jobs -> JobRecords] /\ job'[j] = r /\ \A i \in Jobs \ {j} : job'[i] = job[i]
      BY <3>3, <3>5, <3>6
    <3>8. ASSUME NEW i \in Jobs, NEW c \in Backups, c \in job'[i].of
          PROVE  job'[i].of = {c} /\ {job'[i].base, job'[i].rv} \subseteq 1 .. Len(history'[c])
      <4>1. c \in job[i].of
        BY <3>5, <3>7, <3>8
      <4>2. job[i].of = {c} /\ {job[i].base, job[i].rv} \subseteq 1 .. Len(history[c])
        BY <1>1, <4>1 DEF VersionType
      <4>3. CASE i = j
        <5>1. c = b
          BY <4>2, <4>3
        <5> QED
          BY <3>1, <3>2, <3>5, <3>7, <4>2, <4>3, <5>1
      <4>4. CASE i # j
        BY <3>1, <3>7, <4>2, <4>4
      <4> QED
        BY <4>3, <4>4
    <3> QED
      BY <1>1, <3>1, <3>7, <3>8 DEF VersionType
  <2> QED
    BY <1>6, <2>1, <2>2 DEF ReportConflicts
<1> QED
  BY <1>2, <1>3, <1>4, <1>5, <1>6 DEF JobStep

(* A handler that stops holds nothing.                                     *)
LEMMA IdleHandler ==
    ASSUME VersionType, NEW b \in Backups, handler' = [handler EXCEPT ![b] = Idle]
    PROVE  /\ handler' \in [Backups -> [on : BOOLEAN, base : Nat, rv : Nat, tries : Nat]]
           /\ ~ handler'[b].on
           /\ \A c \in Backups \ {b} : handler'[c] = handler[c]
BY DEF VersionType, Idle

(* A handler writes the status Running, and may start a goroutine.         *)
LEMMA HandlerVersions ==
    ASSUME TypeOK, NEW b \in Backups, handler' = [handler EXCEPT ![b] = Idle],
           history' = [history EXCEPT ![b] = Append(@, RunningStatus)],
           UNCHANGED cache
    PROVE  /\ UNCHANGED job => VersionType'
           /\ \A j \in Jobs : handler[b].on /\ job' = [job EXCEPT ![j] = NewJob(b)] => VersionType'
<1>1. VersionType
  BY TypeSplit
<1>2. /\ history' \in [Backups -> Seq(Statuses)]
      /\ \A c \in Backups : Len(history[c]) <= Len(history'[c])
  BY StatusesWritten, WriteType
<1>3. /\ \A c \in Backups : cache'[c] \in 1 .. Len(history'[c])
      /\ \A c \in Backups : handler'[c].on =>
            {handler'[c].base, handler'[c].rv} \subseteq 1 .. Len(history'[c])
      /\ \A j \in Jobs, c \in Backups : c \in job[j].of =>
            job[j].of = {c} /\ {job[j].base, job[j].rv} \subseteq 1 .. Len(history'[c])
  BY <1>1, <1>2, VersionsGrow, IdleHandler
<1>4. /\ cache' \in [Backups -> Nat]
      /\ handler' \in [Backups -> [on : BOOLEAN, base : Nat, rv : Nat, tries : Nat]]
      /\ job \in [Jobs -> JobRecords]
  BY <1>1, IdleHandler DEF VersionType
<1>5. ASSUME UNCHANGED job PROVE VersionType'
  BY <1>2, <1>3, <1>4, <1>5 DEF VersionType
<1>6. ASSUME NEW j \in Jobs, handler[b].on, job' = [job EXCEPT ![j] = NewJob(b)]
      PROVE  VersionType'
  <2>1. handler[b].base \in Nat /\ handler[b].base \in 1 .. Len(history'[b])
    <3>1. {handler[b].base, handler[b].rv} \subseteq 1 .. Len(history'[b])
      BY <1>1, <1>2, <1>6, VersionsGrow
    <3> QED
      BY <1>1, <3>1 DEF VersionType
  <2>2. /\ NewJob(b) \in JobRecords /\ NewJob(b).of = {b}
        /\ NewJob(b).base = handler[b].base /\ NewJob(b).rv = handler[b].base
    BY <2>1 DEF NewJob, JobRecords, Stages, Execs
  <2>3. /\ job' \in [Jobs -> JobRecords]
        /\ job'[j] = NewJob(b)
        /\ \A i \in Jobs \ {j} : job'[i] = job[i]
    BY <1>4, <1>6, <2>2
  <2>4. ASSUME NEW i \in Jobs, NEW c \in Backups, c \in job'[i].of
        PROVE  job'[i].of = {c} /\ {job'[i].base, job'[i].rv} \subseteq 1 .. Len(history'[c])
    <3>1. CASE i = j
      BY <2>1, <2>2, <2>3, <2>4, <3>1
    <3>2. CASE i # j
      BY <1>3, <2>3, <2>4, <3>2
    <3> QED
      BY <3>1, <3>2
  <2> QED
    BY <1>2, <1>3, <1>4, <2>3, <2>4 DEF VersionType
<1> QED
  BY <1>5, <1>6

(* No step of the controller spoils the versions.                          *)
LEMMA ControllerVersions ==
    ASSUME TypeOK, NEW b \in Backups, ControllerStep(b)
    PROVE  VersionType'
<1>1. VersionType
  BY TypeSplit
<1>2. CASE SyncSkips(b) \/ SyncGivesUp(b) \/ Resync(b)
  BY <1>1, <1>2 DEF SyncSkips, SyncGivesUp, Resync, VersionType
<1>3. CASE SyncHandles(b)
  <2>1. UNCHANGED <<history, cache, job>>
    BY <1>3 DEF SyncHandles
  <2>2. cache[b] \in Nat /\ cache[b] \in 1 .. Len(history[b])
    BY <1>1 DEF VersionType
  <2>3. /\ handler' \in [Backups -> [on : BOOLEAN, base : Nat, rv : Nat, tries : Nat]]
        /\ handler'[b].base = cache[b] /\ handler'[b].rv = cache[b]
        /\ \A c \in Backups \ {b} : handler'[c] = handler[c]
    BY <1>1, <1>3, <2>2 DEF SyncHandles, VersionType
  <2>4. ASSUME NEW c \in Backups, handler'[c].on
        PROVE  {handler'[c].base, handler'[c].rv} \subseteq 1 .. Len(history'[c])
    <3>1. CASE c = b
      BY <2>1, <2>2, <2>3, <3>1
    <3>2. CASE c # b
      BY <1>1, <2>1, <2>3, <2>4, <3>2 DEF VersionType
    <3> QED
      BY <3>1, <3>2
  <2> QED
    BY <1>1, <2>1, <2>3, <2>4 DEF VersionType
<1>4. CASE HandlerWrites(b)
  <2>1. PICK j \in Jobs : job' = [job EXCEPT ![j] = NewJob(b)]
    BY <1>4 DEF HandlerWrites
  <2> QED
    BY <1>4, <2>1, HandlerVersions DEF HandlerWrites
<1>5. CASE HandlerConflicts(b)
  <2>1. UNCHANGED <<history, cache, job>>
    BY <1>5 DEF HandlerConflicts
  <2>2. CASE handler' = [handler EXCEPT ![b] = Idle]
    <3>1. /\ handler' \in [Backups -> [on : BOOLEAN, base : Nat, rv : Nat, tries : Nat]]
          /\ \A c \in Backups : handler'[c].on => handler'[c] = handler[c]
      BY <1>1, <2>2, IdleHandler
    <3>2. \A c \in Backups : handler'[c].on =>
            {handler'[c].base, handler'[c].rv} \subseteq 1 .. Len(history'[c])
      BY <1>1, <2>1, <3>1 DEF VersionType
    <3> QED
      BY <1>1, <2>1, <3>1, <3>2 DEF VersionType
  <2>3. CASE handler' = [handler EXCEPT ![b].rv = cache[b], ![b].tries = @ + 1]
    <3> DEFINE H == [on : BOOLEAN, base : Nat, rv : Nat, tries : Nat]
               r == [[handler[b] EXCEPT !.rv = cache[b]] EXCEPT !.tries = @ + 1]
    <3>1. cache[b] \in Nat /\ cache[b] \in 1 .. Len(history[b])
      BY <1>1 DEF VersionType
    <3>2. handler \in [Backups -> H] /\ handler[b] \in H
      BY <1>1 DEF VersionType
    <3>3. handler[b].tries + 1 \in Nat
      BY <3>2
    <3>4. r \in H /\ r.base = handler[b].base /\ r.rv = cache[b] /\ handler[b].on
      BY <1>5, <3>1, <3>2, <3>3 DEF HandlerConflicts
    <3>5. handler' = [handler EXCEPT ![b] = r]
      BY <2>3, <3>2
    <3>6. handler[b].base \in 1 .. Len(history[b])
      BY <1>1, <3>4 DEF VersionType
    <3> HIDE DEF r, H
    <3>7. handler' \in [Backups -> H] /\ handler'[b] = r /\ \A c \in Backups \ {b} : handler'[c] = handler[c]
      BY <3>2, <3>4, <3>5
    <3>8. ASSUME NEW c \in Backups, handler'[c].on
          PROVE  {handler'[c].base, handler'[c].rv} \subseteq 1 .. Len(history'[c])
      <4>1. CASE c = b
        BY <2>1, <3>1, <3>4, <3>6, <3>7, <4>1
      <4>2. CASE c # b
        BY <1>1, <2>1, <3>7, <3>8, <4>2 DEF VersionType
      <4> QED
        BY <4>1, <4>2
    <3> QED
      BY <1>1, <2>1, <3>7, <3>8 DEF VersionType, H
  <2> QED
    BY <1>5, <2>2, <2>3 DEF HandlerConflicts
<1>6. CASE HandlerFails(b)
  <2>1. handler' = [handler EXCEPT ![b] = Idle] /\ UNCHANGED <<cache, job>>
    BY <1>6 DEF HandlerFails
  <2>2. CASE UNCHANGED history
    <3>1. /\ handler' \in [Backups -> [on : BOOLEAN, base : Nat, rv : Nat, tries : Nat]]
          /\ \A c \in Backups : handler'[c].on => handler'[c] = handler[c]
      BY <1>1, <2>1, IdleHandler
    <3>2. ASSUME NEW c \in Backups, handler'[c].on
          PROVE  {handler'[c].base, handler'[c].rv} \subseteq 1 .. Len(history'[c])
      <4>1. handler'[c] = handler[c] /\ history'[c] = history[c]
        BY <2>2, <3>1, <3>2
      <4> QED
        BY <1>1, <3>2, <4>1 DEF VersionType
    <3> QED
      BY <1>1, <2>1, <2>2, <3>1, <3>2 DEF VersionType
  <2>3. CASE history' = [history EXCEPT ![b] = Append(@, RunningStatus)]
    BY <2>1, <2>3, HandlerVersions
  <2> QED
    BY <1>6, <2>2, <2>3 DEF HandlerFails
<1>7. CASE InformerCatchesUp(b)
  <2>1. UNCHANGED <<history, handler, job>>
    BY <1>7 DEF InformerCatchesUp
  <2>2. cache[b] \in Nat /\ cache[b] + 1 \in 1 .. Len(history[b])
    <3>1. cache[b] \in 1 .. Len(history[b]) /\ cache[b] < Len(history[b]) /\ Len(history[b]) \in Nat
      BY <1>1, <1>7 DEF VersionType, InformerCatchesUp
    <3> QED
      BY <3>1
  <2>3. cache' \in [Backups -> Nat] /\ \A c \in Backups : cache'[c] \in 1 .. Len(history[c])
    BY <1>1, <1>7, <2>2 DEF VersionType, InformerCatchesUp
  <2> QED
    BY <1>1, <2>1, <2>3 DEF VersionType
<1> QED
  BY <1>2, <1>3, <1>4, <1>5, <1>6, <1>7 DEF ControllerStep

(* Goroutines that are cut off hold what they held.                        *)
LEMMA EndedJobs ==
    ASSUME VersionType, job' = [i \in Jobs |-> job'[i]],
           \A i \in Jobs : job'[i] = job[i] \/ job'[i] = [job[i] EXCEPT !.pc = "ended"]
    PROVE  /\ job' \in [Jobs -> JobRecords]
           /\ \A i \in Jobs : job'[i].of = job[i].of /\ job'[i].base = job[i].base /\ job'[i].rv = job[i].rv
<1>1. ASSUME NEW i \in Jobs
      PROVE  /\ job'[i] \in JobRecords
             /\ job'[i].of = job[i].of /\ job'[i].base = job[i].base /\ job'[i].rv = job[i].rv
  <2>1. job[i] \in JobRecords
    BY DEF VersionType
  <2>2. /\ [job[i] EXCEPT !.pc = "ended"] \in JobRecords
        /\ [job[i] EXCEPT !.pc = "ended"].of = job[i].of
        /\ [job[i] EXCEPT !.pc = "ended"].base = job[i].base
        /\ [job[i] EXCEPT !.pc = "ended"].rv = job[i].rv
    BY <2>1 DEF JobRecords, Stages
  <2> QED
    BY <2>1, <2>2
<1> QED
  BY <1>1

(* No step spoils the versions.                                            *)
LEMMA VersionTypeNext == TypeOK /\ [Next]_vars => VersionType'
<1> SUFFICES ASSUME TypeOK, [Next]_vars PROVE VersionType'
  OBVIOUS
<1>1. VersionType
  BY TypeSplit
<1>2. ASSUME NEW k \in Jobs, ServerStep(k) PROVE VersionType'
  BY <1>1, <1>2 DEF ServerStep, TarOpens, TarEnds, TarGivesUp, TarFails, StoreEnds,
    StoreFails, VersionType, controllerVars
<1>3. CASE OperatorRestarts
  <2>1. /\ UNCHANGED history
        /\ cache' = [b \in Backups |-> Len(history[b])]
        /\ handler' = [b \in Backups |-> Idle]
    BY <1>3 DEF OperatorRestarts
  <2>2. /\ job' \in [Jobs -> JobRecords]
        /\ \A i \in Jobs : job'[i].of = job[i].of /\ job'[i].base = job[i].base /\ job'[i].rv = job[i].rv
    <3>1. /\ job' = [i \in Jobs |-> job'[i]]
          /\ \A i \in Jobs : job'[i] = job[i] \/ job'[i] = [job[i] EXCEPT !.pc = "ended"]
      BY <1>3 DEF OperatorRestarts
    <3> QED
      BY <1>1, <3>1, EndedJobs
  <2>3. ASSUME NEW b \in Backups PROVE cache'[b] \in Nat /\ cache'[b] \in 1 .. Len(history'[b])
    <3>1. cache[b] \in 1 .. Len(history[b]) /\ Len(history[b]) \in Nat
      BY <1>1 DEF VersionType
    <3> QED
      BY <2>1, <3>1
  <2>4. ASSUME NEW i \in Jobs, NEW b \in Backups, b \in job'[i].of
        PROVE  job'[i].of = {b} /\ {job'[i].base, job'[i].rv} \subseteq 1 .. Len(history'[b])
    <3>1. job[i].of = {b} /\ {job[i].base, job[i].rv} \subseteq 1 .. Len(history[b])
      BY <1>1, <2>2, <2>4 DEF VersionType
    <3> QED
      BY <2>1, <2>2, <3>1
  <2>5. /\ handler' \in [Backups -> [on : BOOLEAN, base : Nat, rv : Nat, tries : Nat]]
        /\ \A b \in Backups : ~ handler'[b].on
    BY <2>1 DEF Idle
  <2>6. cache' \in [Backups -> Nat]
    BY <2>1, <2>3
  <2> QED
    BY <1>1, <2>1, <2>2, <2>3, <2>4, <2>5, <2>6 DEF VersionType
<1>4. CASE BackupPodReplaced
  <2>1. UNCHANGED <<history, cache, handler>>
    BY <1>4 DEF BackupPodReplaced, controllerVars
  <2>2. /\ job' \in [Jobs -> JobRecords]
        /\ \A i \in Jobs : job'[i].of = job[i].of /\ job'[i].base = job[i].base /\ job'[i].rv = job[i].rv
    <3>1. /\ job' = [i \in Jobs |-> job'[i]]
          /\ \A i \in Jobs : job'[i] = job[i] \/ job'[i] = [job[i] EXCEPT !.pc = "ended"]
      BY <1>4 DEF BackupPodReplaced
    <3> QED
      BY <1>1, <3>1, EndedJobs
  <2>3. ASSUME NEW i \in Jobs, NEW b \in Backups, b \in job'[i].of
        PROVE  job'[i].of = {b} /\ {job'[i].base, job'[i].rv} \subseteq 1 .. Len(history'[b])
    <3>1. job[i].of = {b} /\ {job[i].base, job[i].rv} \subseteq 1 .. Len(history[b])
      BY <1>1, <2>2, <2>3 DEF VersionType
    <3> QED
      BY <2>1, <2>2, <3>1
  <2> QED
    BY <1>1, <2>1, <2>2, <2>3 DEF VersionType
<1>5. CASE UNCHANGED vars
  BY <1>1, <1>5 DEF vars, controllerVars, VersionType
<1> QED
  BY <1>2, <1>3, <1>4, <1>5, ControllerVersions, JobVersions DEF Next

(* TypeOK holds in every state: the status versions, the lister, the       *)
(* handlers and the goroutines refer only to versions that exist.          *)
THEOREM BackupTypeCorrect == Spec => []TypeOK
<1>1. TypeOK /\ [Next]_vars => TypeOK'
  <2> SUFFICES ASSUME TypeOK, [Next]_vars PROVE TypeOK'
    OBVIOUS
  <2>1. VersionType' /\ ServerType'
    BY TypeSplit, VersionTypeNext, ServerTypeNext
  <2> QED
    BY <2>1 DEF TypeOK, VersionType, ServerType, JobRecords
<1> QED
  BY <1>1, TypeInit, PTL DEF Spec

(* All versions stay right in a step that writes no status.                *)
LEMMA VersionsKept ==
    ASSUME VersionsStored, UNCHANGED history,
           \A k \in Jobs : job'[k].of = job[k].of,
           \A k \in Jobs : bucket[k] # "none" => bucket'[k] # "none"
    PROVE  VersionsStored'
BY DEF VersionsStored, Stored

(* All versions stay right when the one that is added is right.            *)
LEMMA VersionsAdded ==
    ASSUME TypeOK, VersionsStored, NEW b \in Backups, NEW s \in Statuses,
           history' = [history EXCEPT ![b] = Append(@, s)],
           \A k \in Jobs, c \in Backups : job[k].of = {c} => job'[k].of = {c},
           UNCHANGED bucket,
           Stored(b, s)'
    PROVE  VersionsStored'
<1> SUFFICES ASSUME NEW c \in Backups, NEW v \in 1 .. Len(history'[c])
             PROVE  Stored(c, history[c][v])'
  BY DEF VersionsStored
<1>1. \/ v \in 1 .. Len(history[c]) /\ history'[c][v] = history[c][v]
      \/ c = b /\ history'[c][v] = s
  BY WriteType
<1>2. CASE v \in 1 .. Len(history[c]) /\ history'[c][v] = history[c][v]
  <2>1. Stored(c, history[c][v])
    BY <1>2 DEF VersionsStored
  <2> QED
    BY <1>2, <2>1 DEF Stored
<1>3. CASE c = b /\ history'[c][v] = s
  BY <1>3 DEF Stored
<1> QED
  BY <1>1, <1>2, <1>3

(* The parts of BackupInv that do not look at the versions.                *)
UploadInv == PipeFilled /\ CompletedStored /\ ReportedStored /\ FreshJobs

(* A goroutine that moves on, and reports only once its artifact is there. *)
LEMMA GoesUpload ==
    ASSUME VersionType, UploadInv, NEW j \in Jobs, NEW pc \in Stages, Goes(j, pc),
           job[j].pc # "none", pc # "none", pc = "report" => bucket[j] # "none",
           UNCHANGED bucket
    PROVE  ReportedStored' /\ FreshJobs'
<1>1. /\ job'[j].pc = pc
      /\ \A i \in Jobs \ {j} : job'[i] = job[i]
  BY GoesType
<1> QED
  BY <1>1 DEF UploadInv, ReportedStored, FreshJobs

(* Steps of a goroutine keep the invariant on uploads.                     *)
LEMMA JobUpload ==
    ASSUME TypeOK, UploadInv, NEW j \in Jobs, JobStep(j)
    PROVE  UploadInv'
<1>1. VersionType /\ ServerType
  BY TypeSplit
<1> USE DEF controllerVars, serverVars
<1>2. CASE ExecRm(j)
  <2>1. ReportedStored' /\ FreshJobs'
    BY <1>1, <1>2, GoesUpload DEF ExecRm, Stages, Execs
  <2>2. PipeFilled' /\ CompletedStored'
    BY <1>1, <1>2 DEF ExecRm, UploadInv, PipeFilled, CompletedStored, ServerType
  <2> QED
    BY <2>1, <2>2 DEF UploadInv
<1>3. CASE ExecMkdir(j) \/ ExecBackup(j) \/ ExecPrepare(j) \/ JobFails(j)
  <2>1. /\ UNCHANGED serverVars /\ job[j].pc # "none"
        /\ \E pc \in Stages \ {"none", "report"} : Goes(j, pc)
    BY <1>3 DEF ExecMkdir, ExecBackup, ExecPrepare, Exec, JobFails, Stages, Execs
  <2>2. ReportedStored' /\ FreshJobs'
    BY <1>1, <2>1, GoesUpload
  <2> QED
    BY <2>1, <2>2 DEF UploadInv, PipeFilled, CompletedStored
<1>4. CASE PostBackup(j) \/ PostUnanswered(j)
  <2>1. /\ UNCHANGED <<pipe, bucket>> /\ S3Backup(j) /\ job[j].pc # "none"
        /\ \E pc \in Stages \ {"none", "report"} : Goes(j, pc)
    BY <1>4 DEF PostBackup, PostUnanswered, Stages
  <2>2. ReportedStored' /\ FreshJobs'
    BY <1>1, <2>1, GoesUpload
  <2>3. PipeFilled' /\ CompletedStored'
    BY <1>1, <2>1 DEF S3Backup, UploadInv, PipeFilled, CompletedStored, ServerType
  <2> QED
    BY <2>2, <2>3 DEF UploadInv
<1>5. CASE PostRefused(j)
  <2>1. ReportedStored' /\ FreshJobs'
    BY <1>1, <1>5, GoesUpload DEF PostRefused, Stages
  <2>2. PipeFilled' /\ CompletedStored'
    BY <1>1, <1>5 DEF PostRefused, UploadInv, PipeFilled, CompletedStored, ServerType
  <2> QED
    BY <2>1, <2>2 DEF UploadInv
<1>6. CASE PollState(j)
  <2>1. bucket[j] # "none"
    BY <1>6 DEF PollState, Finished, UploadInv, CompletedStored
  <2>2. ReportedStored' /\ FreshJobs'
    BY <1>1, <1>6, <2>1, GoesUpload DEF PollState, Stages
  <2> QED
    BY <1>6, <2>2 DEF PollState, UploadInv, PipeFilled, CompletedStored
<1>7. CASE ReportWrites(j) \/ ReportFails(j)
  <2>1. UNCHANGED serverVars /\ Goes(j, "ended") /\ job[j].pc # "none"
    BY <1>7 DEF ReportWrites, ReportFails
  <2>2. ReportedStored' /\ FreshJobs'
    BY <1>1, <2>1, GoesUpload DEF Stages
  <2> QED
    BY <2>1, <2>2 DEF UploadInv, PipeFilled, CompletedStored
<1>8. CASE ReportConflicts(j)
  <2>1. UNCHANGED serverVars /\ job[j].pc = "report"
    BY <1>8 DEF ReportConflicts
  <2>2. CASE Goes(j, "ended")
    <3>1. ReportedStored' /\ FreshJobs'
      BY <1>1, <2>1, <2>2, GoesUpload DEF Stages
    <3> QED
      BY <2>1, <3>1 DEF UploadInv, PipeFilled, CompletedStored
  <2>3. ASSUME NEW b \in Backups, job' = [job EXCEPT ![j].rv = cache[b], ![j].tries = @ + 1]
        PROVE  UploadInv'
    <3>1. job[j] \in JobRecords /\ job \in [Jobs -> JobRecords]
      BY <1>1 DEF VersionType
    <3>2. \A i \in Jobs : job'[i].pc = job[i].pc /\ job'[i].of = job[i].of
      BY <2>3, <3>1 DEF JobRecords
    <3> QED
      BY <2>1, <3>2 DEF UploadInv, PipeFilled, CompletedStored, ReportedStored, FreshJobs
  <2>4. job[j].of \subseteq Backups
    BY <1>1 DEF VersionType, JobRecords
  <2> QED
    BY <1>8, <2>2, <2>3, <2>4 DEF ReportConflicts
<1> QED
  BY <1>2, <1>3, <1>4, <1>5, <1>6, <1>7, <1>8 DEF JobStep

(* Steps of the server keep the invariant on uploads: an object goes into  *)
(* the bucket before its key is noted as completed.                        *)
LEMMA ServerUpload ==
    ASSUME TypeOK, UploadInv, NEW k \in Jobs, ServerStep(k)
    PROVE  UploadInv'
<1>1. ServerType
  BY TypeSplit
<1> USE DEF UploadInv, PipeFilled, CompletedStored, ReportedStored, FreshJobs
<1>2. CASE TarOpens(k)
  BY <1>1, <1>2 DEF TarOpens, ServerType
<1>3. CASE TarEnds(k)
  BY <1>1, <1>3 DEF TarEnds, ServerType
<1>4. CASE TarGivesUp(k)
  BY <1>1, <1>4 DEF TarGivesUp, Failed, ServerType
<1>5. CASE TarFails(k)
  BY <1>1, <1>5 DEF TarFails, Failed, ServerType
<1>6. CASE StoreEnds(k)
  BY <1>1, <1>6 DEF StoreEnds, PipeClosed, ServerType
<1>7. CASE StoreFails(k)
  BY <1>1, <1>7 DEF StoreFails, Failed, ServerType
<1> QED
  BY <1>2, <1>3, <1>4, <1>5, <1>6, <1>7 DEF ServerStep

(* Steps of the controller keep the invariant on uploads.                  *)
LEMMA ControllerUpload ==
    ASSUME TypeOK, UploadInv, NEW b \in Backups, ControllerStep(b)
    PROVE  UploadInv'
<1>1. UNCHANGED serverVars
  BY DEF ControllerStep, SyncSkips, SyncGivesUp, SyncHandles, HandlerWrites,
    HandlerConflicts, HandlerFails, InformerCatchesUp, Resync
<1>2. UNCHANGED job \/ \E j \in Jobs : job' = [job EXCEPT ![j] = NewJob(b)]
  BY DEF ControllerStep, SyncSkips, SyncGivesUp, SyncHandles, HandlerWrites,
    HandlerConflicts, HandlerFails, InformerCatchesUp, Resync
<1>3. job \in [Jobs -> JobRecords]
  BY DEF TypeOK, JobRecords
<1>4. ReportedStored' /\ FreshJobs'
  BY <1>1, <1>2, <1>3 DEF UploadInv, ReportedStored, FreshJobs, serverVars, NewJob
<1> QED
  BY <1>1, <1>4 DEF UploadInv, PipeFilled, CompletedStored, serverVars

(* A restart of the operator and the loss of the backup pod keep it.       *)
LEMMA RestartUpload ==
    ASSUME TypeOK, UploadInv, OperatorRestarts \/ BackupPodReplaced
    PROVE  UploadInv'
<1>1. \A i \in Jobs :
        job'[i] = job[i] \/ (job[i].pc # "none" /\ job'[i] = [job[i] EXCEPT !.pc = "ended"])
  <2>1. CASE OperatorRestarts
    BY <2>1 DEF OperatorRestarts, Started
  <2>2. CASE BackupPodReplaced
    BY <2>2 DEF BackupPodReplaced, Execs
  <2> QED
    BY <2>1, <2>2
<1>2. \A i \in Jobs : job[i] \in JobRecords
  BY DEF TypeOK, JobRecords
<1>3. \A i \in Jobs : job'[i] = job[i] \/ job'[i].pc = "ended"
  BY <1>1, <1>2 DEF JobRecords
<1>4. UNCHANGED bucket
  BY DEF OperatorRestarts, BackupPodReplaced, serverVars
<1>5. ReportedStored' /\ FreshJobs'
  BY <1>3, <1>4 DEF UploadInv, ReportedStored, FreshJobs
<1>6. PipeFilled' /\ CompletedStored'
  BY DEF OperatorRestarts, BackupPodReplaced, serverVars, UploadInv, PipeFilled, CompletedStored
<1> QED
  BY <1>5, <1>6 DEF UploadInv

(* Every version of every status stays right.                              *)
LEMMA VersionsStoredNext ==
    ASSUME TypeOK, UploadInv, VersionsStored, Next
    PROVE  VersionsStored'
<1>1. VersionType /\ ServerType
  BY TypeSplit
<1>2. ASSUME NEW b \in Backups, ControllerStep(b) PROVE VersionsStored'
  <2>1. UNCHANGED bucket
    BY <1>2 DEF ControllerStep, SyncSkips, SyncGivesUp, SyncHandles, HandlerWrites,
      HandlerConflicts, HandlerFails, InformerCatchesUp, Resync, serverVars
  <2>2. \/ UNCHANGED job
        \/ \E j \in Jobs \ Started : job' = [job EXCEPT ![j] = NewJob(b)]
    BY <1>2 DEF ControllerStep, SyncSkips, SyncGivesUp, SyncHandles, HandlerWrites,
      HandlerConflicts, HandlerFails, InformerCatchesUp, Resync
  <2>3. \A k \in Jobs, c \in Backups : job[k].of = {c} => job'[k].of = {c}
    <3>1. \A j \in Jobs \ Started : job[j].of = {}
      BY DEF Started, UploadInv, FreshJobs
    <3>2. job \in [Jobs -> JobRecords]
      BY <1>1 DEF VersionType
    <3> QED
      BY <2>2, <3>1, <3>2
  <2>4. CASE UNCHANGED history
    BY <2>1, <2>3, <2>4 DEF VersionsStored, Stored
  <2>5. CASE history' = [history EXCEPT ![b] = Append(@, RunningStatus)]
    <3>1. PICK s \in Statuses : s = RunningStatus
      BY StatusesWritten
    <3>2. Stored(b, s)'
      BY <3>1 DEF Stored, Complete, RunningStatus
    <3> QED
      BY <2>1, <2>3, <2>5, <3>1, <3>2, VersionsAdded
  <2> QED
    BY <1>2, <2>4, <2>5 DEF ControllerStep, SyncSkips, SyncGivesUp, SyncHandles, HandlerWrites,
      HandlerConflicts, HandlerFails, InformerCatchesUp, Resync
<1>3. ASSUME NEW j \in Jobs, JobStep(j) PROVE VersionsStored'
  <2>1. UNCHANGED bucket
    BY <1>3 DEF JobStep, ExecRm, ExecMkdir, ExecBackup, ExecPrepare, Exec, JobFails, PostBackup,
      PostUnanswered, PostRefused, PollState, ReportWrites, ReportConflicts, ReportFails, serverVars
  <2>2. \A k \in Jobs : job'[k].of = job[k].of
    <3>1. CASE \E pc \in Stages : Goes(j, pc)
      BY <1>1, <3>1, GoesType
    <3>2. CASE \E b \in job[j].of : job' = [job EXCEPT ![j].rv = cache[b], ![j].tries = @ + 1]
      <4>1. job[j] \in JobRecords /\ job \in [Jobs -> JobRecords]
        BY <1>1 DEF VersionType
      <4> QED
        BY <3>2, <4>1 DEF JobRecords
    <3> QED
      BY <1>3, <3>1, <3>2 DEF JobStep, ExecRm, ExecMkdir, ExecBackup, ExecPrepare, Exec, JobFails,
        PostBackup, PostUnanswered, PostRefused, PollState, ReportWrites, ReportConflicts,
        ReportFails, Stages, Execs
  <2>3. CASE UNCHANGED history
    BY <2>1, <2>2, <2>3, VersionsKept
  <2>4. ASSUME NEW b \in job[j].of, job[j].pc = "report",
               history' = [history EXCEPT ![b] = Append(@, CompleteStatus(j, b))]
        PROVE  VersionsStored'
    <3>1. b \in Backups /\ job[j].of = {b}
      BY DEF TypeOK
    <3>2. PICK s \in Statuses : s = CompleteStatus(j, b)
      BY StatusesWritten
    <3>3. bucket[j] # "none" /\ s.outcome = j
      BY <2>4, <3>2 DEF UploadInv, ReportedStored, CompleteStatus
    <3>4. Stored(b, s)'
      BY <2>1, <2>2, <3>1, <3>3 DEF Stored
    <3> QED
      BY <2>1, <2>2, <2>4, <3>1, <3>2, <3>4, VersionsAdded
  <2> QED
    BY <1>3, <2>3, <2>4 DEF JobStep, ExecRm, ExecMkdir, ExecBackup, ExecPrepare, Exec, JobFails,
      PostBackup, PostUnanswered, PostRefused, PollState, ReportWrites, ReportConflicts,
      ReportFails, controllerVars
<1>4. ASSUME NEW k \in Jobs, ServerStep(k) PROVE VersionsStored'
  <2>1. UNCHANGED <<history, job>>
    BY <1>4 DEF ServerStep, TarOpens, TarEnds, TarGivesUp, TarFails, StoreEnds, StoreFails,
      controllerVars
  <2>2. \A i \in Jobs : bucket[i] # "none" => bucket'[i] # "none"
    BY <1>1, <1>4 DEF ServerStep, TarOpens, TarEnds, TarGivesUp, TarFails, StoreEnds, StoreFails,
      PipeClosed, UploadInv, PipeFilled, ServerType
  <2> QED
    BY <2>1, <2>2, VersionsKept
<1>5. CASE OperatorRestarts \/ BackupPodReplaced
  <2>1. UNCHANGED <<history, bucket>>
    BY <1>5 DEF OperatorRestarts, BackupPodReplaced, controllerVars, serverVars
  <2>2. /\ job' = [i \in Jobs |-> job'[i]]
        /\ \A i \in Jobs : job'[i] = job[i] \/ job'[i] = [job[i] EXCEPT !.pc = "ended"]
    BY <1>5 DEF OperatorRestarts, BackupPodReplaced
  <2>3. \A i \in Jobs : job'[i].of = job[i].of
    BY <1>1, <2>2, EndedJobs
  <2> QED
    BY <2>1, <2>3, VersionsKept
<1> QED
  BY <1>2, <1>3, <1>4, <1>5 DEF Next

(* Every version of every status is right in every reachable state.        *)
LEMMA BackupInvariance == Spec => []BackupInv
<1>1. Init => BackupInv
  BY DEF Init, BackupInv, PipeFilled, CompletedStored, ReportedStored, FreshJobs,
    VersionsStored, Stored, Complete, NewStatus, NotStarted
<1>2. TypeOK /\ BackupInv /\ [Next]_vars => BackupInv'
  <2> SUFFICES ASSUME TypeOK, BackupInv, [Next]_vars PROVE BackupInv'
    OBVIOUS
  <2>1. UploadInv /\ VersionsStored
    BY DEF BackupInv, UploadInv
  <2>2. CASE Next
    <3>1. UploadInv'
      BY <2>1, <2>2, ControllerUpload, JobUpload, ServerUpload, RestartUpload DEF Next
    <3>2. VersionsStored'
      BY <2>1, <2>2, VersionsStoredNext
    <3> QED
      BY <3>1, <3>2 DEF BackupInv, UploadInv
  <2>3. CASE UNCHANGED vars
    BY <2>3 DEF vars, controllerVars, serverVars, BackupInv, PipeFilled, CompletedStored,
      ReportedStored, FreshJobs, VersionsStored, Stored
  <2> QED
    BY <2>2, <2>3
<1> QED
  BY <1>1, <1>2, BackupTypeCorrect, PTL DEF Spec

(* The invariant says so of the last version too.                          *)
LEMMA LastStored == TypeOK /\ BackupInv => CompleteIsStored
<1> SUFFICES ASSUME TypeOK, BackupInv, NEW b \in Backups, Complete(Current(b))
             PROVE  LET k == Current(b).outcome
                    IN  k \in Jobs /\ job[k].of = {b} /\ bucket[k] # "none"
  BY DEF CompleteIsStored
<1>1. Len(history[b]) \in 1 .. Len(history[b])
  <2>1. cache[b] \in 1 .. Len(history[b]) /\ Len(history[b]) \in Nat
    BY DEF TypeOK
  <2> QED
    BY <2>1
<1> QED
  BY <1>1 DEF BackupInv, VersionsStored, Stored, Current

(* A GaleraBackup whose status is Complete names an artifact made for it   *)
(* that is in the bucket, for any number of backups, workers, attempts,    *)
(* faults and restarts (HandleBackup, Store, S3Backup).                    *)
THEOREM CompleteStored == Spec => []CompleteIsStored
BY BackupInvariance, LastStored, BackupTypeCorrect, PTL

-----------------------------------------------------------------------------
(* When is the artifact the whole copy?                                    *)

(* No other goroutine was ever started: the directory is that of k.        *)
Alone(k) == \A i \in Started : i = k

(* A key is unknown to the server until its goroutine asks for the upload. *)
NotSent ==
    \A k \in Jobs : job[k].pc \in Execs \cup {"none", "post"} =>
        tar[k] = "none" /\ store[k] = "none" /\ bucket[k] = "none"

(* The upload starts from a prepared copy, reads all of it and sends what  *)
(* it has read, as long as nobody else uses the directory.                 *)
OwnCopy ==
    \A k \in Jobs : Alone(k) =>
        /\ job[k].pc = "post" \/ tar[k] = "start" => dir = "ready"
        /\ tar[k] \in {"reading", "closed"} => pipe[k] = "whole"
        /\ bucket[k] \in {"none", "whole"} \/ tar[k] = "failed"

(* A step of a goroutine: what it does to the stages of all of them.       *)
LEMMA JobStages ==
    ASSUME TypeOK, NEW j \in Jobs, JobStep(j)
    PROVE  /\ job[j].pc # "none" /\ job'[j].pc # "none"
           /\ \A i \in Jobs \ {j} : job'[i].pc = job[i].pc
<1>1. VersionType
  BY TypeSplit
<1>2. CASE \E pc \in Stages \ {"none"} : Goes(j, pc) /\ job[j].pc # "none"
  BY <1>1, <1>2, GoesType
<1>3. CASE \E b \in job[j].of : job' = [job EXCEPT ![j].rv = cache[b], ![j].tries = @ + 1]
                                /\ job[j].pc # "none"
  <2>1. job[j] \in JobRecords /\ job \in [Jobs -> JobRecords]
    BY <1>1 DEF VersionType
  <2> QED
    BY <1>3, <2>1 DEF JobRecords
<1> QED
  BY <1>2, <1>3 DEF JobStep, ExecRm, ExecMkdir, ExecBackup, ExecPrepare, Exec, JobFails,
    PostBackup, PostUnanswered, PostRefused, PollState, ReportWrites, ReportConflicts,
    ReportFails, Stages, Execs

(* Who is alone while another goroutine takes a step is not alone.         *)
LEMMA OnlyStep ==
    ASSUME TypeOK, NEW j \in Jobs, JobStep(j), NEW k \in Jobs, Alone(k)'
    PROVE  k = j /\ Alone(k)
<1>1. /\ job[j].pc # "none" /\ job'[j].pc # "none"
      /\ \A i \in Jobs \ {j} : job'[i].pc = job[i].pc
  BY JobStages
<1> QED
  BY <1>1 DEF Alone, Started

(* Steps of a goroutine.                                                   *)
LEMMA JobCopy ==
    ASSUME TypeOK, NotSent, OwnCopy, NEW j \in Jobs, JobStep(j)
    PROVE  NotSent' /\ OwnCopy'
<1>1. VersionType /\ ServerType
  BY TypeSplit
<1>2. /\ job[j].pc # "none" /\ job'[j].pc # "none"
      /\ \A i \in Jobs \ {j} : job'[i].pc = job[i].pc
  BY JobStages
<1>3. \A i \in Jobs \ {j} : tar'[i] = tar[i] /\ store'[i] = store[i] /\ bucket'[i] = bucket[i]
  BY <1>1 DEF JobStep, ExecRm, ExecMkdir, ExecBackup, ExecPrepare, Exec, JobFails, PostBackup,
    PostUnanswered, PostRefused, PollState, ReportWrites, ReportConflicts, ReportFails, S3Backup,
    serverVars, ServerType
<1> DEFINE Own == /\ job'[j].pc \in Execs \cup {"none", "post"} =>
                        tar'[j] = "none" /\ store'[j] = "none" /\ bucket'[j] = "none"
                  /\ Alone(j) =>
                        /\ job'[j].pc = "post" \/ tar'[j] = "start" => dir' = "ready"
                        /\ tar'[j] \in {"reading", "closed"} => pipe'[j] = "whole"
                        /\ bucket'[j] \in {"none", "whole"} \/ tar'[j] = "failed"
<1>4. Own
  <2>1. ASSUME NEW pc \in Stages, Goes(j, pc) PROVE job'[j].pc = pc
    BY <1>1, <2>1, GoesType
  <2>2. /\ job[j].pc \in Execs \cup {"none", "post"} =>
              tar[j] = "none" /\ store[j] = "none" /\ bucket[j] = "none"
        /\ Alone(j) =>
              /\ job[j].pc = "post" \/ tar[j] = "start" => dir = "ready"
              /\ tar[j] \in {"reading", "closed"} => pipe[j] = "whole"
              /\ bucket[j] \in {"none", "whole"} \/ tar[j] = "failed"
    BY DEF NotSent, OwnCopy
  <2> HIDE DEF Own
  <2>3. CASE ExecRm(j)
    <3>1. job'[j].pc = "mkdir" /\ job[j].pc = "rm" /\ UNCHANGED <<tar, store, bucket>>
      BY <2>1, <2>3 DEF ExecRm, Stages, Execs
    <3> QED
      BY <2>2, <3>1 DEF Own, Execs
  <2>4. CASE ExecMkdir(j) \/ ExecBackup(j) \/ ExecPrepare(j)
    <3>1. /\ job[j].pc \in Execs /\ UNCHANGED <<tar, store, bucket>>
          /\ job'[j].pc = "post" => dir' = "ready"
      BY <2>1, <2>4 DEF ExecMkdir, ExecBackup, ExecPrepare, Exec, Stages, Execs, serverVars
    <3> QED
      BY <2>2, <3>1 DEF Own
  <2>5. CASE JobFails(j)
    <3>1. job'[j].pc = "ended" /\ UNCHANGED <<dir, tar, pipe, store, bucket>>
      BY <2>1, <2>5 DEF JobFails, Stages, serverVars
    <3> QED
      BY <2>2, <3>1 DEF Own, Execs
  <2>6. CASE PostBackup(j) \/ PostUnanswered(j)
    <3>1. /\ job[j].pc = "post" /\ job'[j].pc \in {"poll", "ended"} /\ UNCHANGED <<dir, pipe, bucket>>
          /\ tar'[j] = "start"
      BY <1>1, <2>1, <2>6 DEF PostBackup, PostUnanswered, S3Backup, Stages, ServerType
    <3> QED
      BY <2>2, <3>1 DEF Own, Execs
  <2>7. CASE PostRefused(j)
    <3>1. job[j].pc = "post" /\ job'[j].pc = "poll" /\ UNCHANGED <<dir, tar, pipe, store, bucket>>
      BY <2>1, <2>7 DEF PostRefused, Stages
    <3> QED
      BY <2>2, <3>1 DEF Own, Execs
  <2>8. CASE PollState(j)
    <3>1. job'[j].pc = "report" /\ UNCHANGED <<dir, tar, pipe, store, bucket>>
      BY <2>1, <2>8 DEF PollState, Stages, serverVars
    <3> QED
      BY <2>2, <3>1 DEF Own, Execs
  <2>9. CASE ReportWrites(j) \/ ReportFails(j)
    <3>1. job'[j].pc = "ended" /\ UNCHANGED <<dir, tar, pipe, store, bucket>>
      BY <2>1, <2>9 DEF ReportWrites, ReportFails, Stages, serverVars
    <3> QED
      BY <2>2, <3>1 DEF Own, Execs
  <2>10. CASE ReportConflicts(j)
    <3>1. job'[j].pc \in {"report", "ended"}
      <4>1. job[j] \in JobRecords /\ job \in [Jobs -> JobRecords]
        BY <1>1 DEF VersionType
      <4>2. CASE Goes(j, "ended")
        BY <2>1, <4>2 DEF Stages
      <4>3. CASE \E b \in job[j].of : job' = [job EXCEPT ![j].rv = cache[b], ![j].tries = @ + 1]
        BY <2>10, <4>1, <4>3 DEF ReportConflicts, JobRecords
      <4> QED
        BY <2>10, <4>2, <4>3 DEF ReportConflicts
    <3>2. UNCHANGED <<dir, tar, pipe, store, bucket>>
      BY <2>10 DEF ReportConflicts, serverVars
    <3> QED
      BY <2>2, <3>1, <3>2 DEF Own, Execs
  <2> QED
    BY <2>3, <2>4, <2>5, <2>6, <2>7, <2>8, <2>9, <2>10 DEF JobStep
<1>5. NotSent'
  BY <1>2, <1>3, <1>4 DEF NotSent
<1>6. ASSUME NEW k \in Jobs, Alone(k)'
      PROVE  (/\ job[k].pc = "post" \/ tar[k] = "start" => dir = "ready"
              /\ tar[k] \in {"reading", "closed"} => pipe[k] = "whole"
              /\ bucket[k] \in {"none", "whole"} \/ tar[k] = "failed")'
  BY <1>4, <1>6, OnlyStep
<1> QED
  BY <1>5, <1>6 DEF OwnCopy

(* Steps of the server.                                                    *)
LEMMA ServerCopy ==
    ASSUME TypeOK, NotSent, OwnCopy, NEW j \in Jobs, ServerStep(j)
    PROVE  NotSent' /\ OwnCopy'
<1>1. ServerType
  BY TypeSplit
<1>2. UNCHANGED <<job, dir>> /\ (\A k \in Jobs : Alone(k)' = Alone(k))
  BY DEF ServerStep, TarOpens, TarEnds, TarGivesUp, TarFails, StoreEnds, StoreFails, Alone, Started
<1>3. CASE TarOpens(j)
  BY <1>1, <1>2, <1>3 DEF TarOpens, NotSent, OwnCopy, ServerType
<1>4. CASE TarEnds(j)
  BY <1>1, <1>2, <1>4 DEF TarEnds, NotSent, OwnCopy, ServerType
<1>5. CASE TarGivesUp(j)
  BY <1>1, <1>2, <1>5 DEF TarGivesUp, NotSent, OwnCopy, ServerType
<1>6. CASE TarFails(j)
  BY <1>1, <1>2, <1>6 DEF TarFails, NotSent, OwnCopy, ServerType
<1>7. CASE StoreEnds(j)
  BY <1>1, <1>2, <1>7 DEF StoreEnds, PipeClosed, NotSent, OwnCopy, ServerType
<1>8. CASE StoreFails(j)
  BY <1>1, <1>2, <1>8 DEF StoreFails, NotSent, OwnCopy, ServerType
<1> QED
  BY <1>3, <1>4, <1>5, <1>6, <1>7, <1>8 DEF ServerStep

(* The controller starts a goroutine, or leaves all of this alone.         *)
LEMMA ControllerCopy ==
    ASSUME TypeOK, NotSent, OwnCopy, NEW b \in Backups, ControllerStep(b)
    PROVE  NotSent' /\ OwnCopy'
<1>1. UNCHANGED <<dir, tar, pipe, store, bucket>>
  BY DEF ControllerStep, SyncSkips, SyncGivesUp, SyncHandles, HandlerWrites,
    HandlerConflicts, HandlerFails, InformerCatchesUp, Resync, serverVars
<1>2. UNCHANGED job \/ \E j \in Jobs \ Started : job' = [job EXCEPT ![j] = NewJob(b)]
  BY DEF ControllerStep, SyncSkips, SyncGivesUp, SyncHandles, HandlerWrites,
    HandlerConflicts, HandlerFails, InformerCatchesUp, Resync
<1>3. job \in [Jobs -> JobRecords] /\ NewJob(b).pc = "rm"
  BY DEF TypeOK, JobRecords, NewJob
<1>4. \A k \in Jobs : \/ job'[k].pc = job[k].pc
                      \/ job[k].pc = "none" /\ job'[k].pc = "rm"
  BY <1>2, <1>3 DEF Started
<1>5. \A k \in Jobs : Alone(k)' => Alone(k)
  BY <1>4 DEF Alone, Started
<1> QED
  BY <1>1, <1>4, <1>5 DEF NotSent, OwnCopy

(* Goroutines, and what the backup pod was doing, are cut off.             *)
LEMMA RestartCopy ==
    ASSUME TypeOK, NotSent, OwnCopy, OperatorRestarts \/ BackupPodReplaced
    PROVE  NotSent' /\ OwnCopy'
<1>1. \A i \in Jobs :
        job'[i] = job[i] \/ (job[i].pc # "none" /\ job'[i] = [job[i] EXCEPT !.pc = "ended"])
  <2>1. CASE OperatorRestarts
    BY <2>1 DEF OperatorRestarts, Started
  <2>2. CASE BackupPodReplaced
    BY <2>2 DEF BackupPodReplaced, Execs
  <2> QED
    BY <2>1, <2>2
<1>2. \A i \in Jobs : job[i] \in JobRecords
  BY DEF TypeOK, JobRecords
<1>3. \A i \in Jobs : \/ job'[i].pc = job[i].pc
                      \/ job[i].pc # "none" /\ job'[i].pc = "ended"
  BY <1>1, <1>2 DEF JobRecords
<1>4. \A k \in Jobs : Alone(k)' => Alone(k)
  BY <1>3 DEF Alone, Started
<1>5. CASE OperatorRestarts
  <2>1. UNCHANGED <<dir, tar, pipe, store, bucket>>
    BY <1>5 DEF OperatorRestarts, serverVars
  <2> QED
    BY <1>3, <1>4, <2>1 DEF NotSent, OwnCopy, Execs
<1>6. CASE BackupPodReplaced
  <2>1. /\ UNCHANGED <<pipe, bucket>>
        /\ \A k \in Jobs : /\ tar'[k] = IF tar[k] \in {"start", "reading"} THEN "none" ELSE tar[k]
                           /\ store'[k] = IF store[k] = "running" THEN "ended" ELSE store[k]
    BY <1>6 DEF BackupPodReplaced
  <2>2. \A k \in Jobs : job'[k].pc # "post"
    <3>1. \A k \in Jobs : job'[k] = IF job[k].pc \in Execs \cup {"post"}
                                    THEN [job[k] EXCEPT !.pc = "ended"] ELSE job[k]
      BY <1>6 DEF BackupPodReplaced
    <3> QED
      BY <1>2, <3>1 DEF JobRecords
  <2>3. NotSent'
    BY <1>3, <2>1 DEF NotSent, Execs
  <2>4. OwnCopy'
    BY <1>4, <2>1, <2>2 DEF OwnCopy
  <2> QED
    BY <2>3, <2>4
<1> QED
  BY <1>5, <1>6

(* The artifact of a Complete backup is the whole prepared copy, unless    *)
(* TarGzip failed on it (its error does not reach the state of the key) or *)
(* another backup job used the same directory (S3Backup, mariabackup).     *)
THEOREM WholeAlone == Spec => []WholeWhenAlone
<1>1. Init => NotSent /\ OwnCopy
  BY DEF Init, NotSent, OwnCopy, NotStarted
<1>2. TypeOK /\ NotSent /\ OwnCopy /\ [Next]_vars => NotSent' /\ OwnCopy'
  <2> SUFFICES ASSUME TypeOK, NotSent, OwnCopy, [Next]_vars PROVE NotSent' /\ OwnCopy'
    OBVIOUS
  <2>1. CASE UNCHANGED vars
    BY <2>1 DEF vars, serverVars, NotSent, OwnCopy, Alone, Started
  <2> QED
    BY <2>1, JobCopy, ServerCopy, ControllerCopy, RestartCopy DEF Next
<1>3. TypeOK /\ BackupInv /\ CompleteIsStored /\ OwnCopy => WholeWhenAlone
  <2> SUFFICES ASSUME TypeOK, BackupInv, CompleteIsStored, OwnCopy,
                      NEW b \in Backups, Complete(Current(b))
               PROVE  LET k == Current(b).outcome
                      IN  bucket[k] = "whole" \/ tar[k] = "failed" \/ Cardinality(Started) > 1
    BY DEF WholeWhenAlone
  <2> DEFINE k == Current(b).outcome
  <2>1. k \in Jobs /\ job[k].of = {b} /\ bucket[k] # "none"
    BY DEF CompleteIsStored
  <2> HIDE DEF k
  <2>2. k \in Started
    BY <2>1 DEF BackupInv, FreshJobs, Started
  <2>3. CASE Alone(k)
    <3>1. bucket[k] = "whole" \/ tar[k] = "failed"
      BY <2>1, <2>3 DEF OwnCopy
    <3> QED
      BY <3>1 DEF k
  <2>4. CASE ~Alone(k)
    <3>1. PICK i \in Started : i # k
      BY <2>4 DEF Alone
    <3>2. IsFiniteSet(Started)
      <4>1. IsFiniteSet(1 .. MaxJobs)
        BY Sizes, FS_Interval
      <4> QED
        BY <4>1, FS_Subset DEF Started, Jobs
    <3>3. Cardinality({i, k}) = 2 /\ {i, k} \subseteq Started
      <4>1. IsFiniteSet({k}) /\ Cardinality({k}) = 1
        BY FS_Singleton
      <4>2. Cardinality({k} \cup {i}) = Cardinality({k}) + 1
        BY <3>1, <4>1, FS_AddElement
      <4>3. {k} \cup {i} = {i, k}
        OBVIOUS
      <4> QED
        BY <2>2, <4>1, <4>2, <4>3
    <3>4. Cardinality({i, k}) <= Cardinality(Started) /\ Cardinality(Started) \in Nat
      BY <3>2, <3>3, FS_Subset, FS_CardinalityType
    <3>5. Cardinality(Started) > 1
      BY <3>3, <3>4
    <3> QED
      BY <3>5
  <2> QED
    BY <2>3, <2>4
<1> QED
  BY <1>1, <1>2, <1>3, BackupInvariance, CompleteStored, BackupTypeCorrect, PTL DEF Spec
=============================================================================
