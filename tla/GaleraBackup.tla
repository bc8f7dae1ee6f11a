---------------------------- MODULE GaleraBackup ----------------------------
(***************************************************************************)
(* Backups of one Galera cluster: the backup controller (syncHandler,      *)
(* HandleBackup), the goroutine it starts for every backup (mariabackup by *)
(* exec, then an upload it asks for and polls) and the API server in the   *)
(* backup container of the backup pod, with its two goroutines per upload. *)
(*                                                                         *)
(* GaleraBackup resources carry no state but their status.  Every write of *)
(* the status makes a new resourceVersion; the lister shows an earlier one *)
(* until the informer has caught up.  A job is a goroutine, and stands for *)
(* the key of its artifact too (the name of the backup and a time stamp).  *)
(***************************************************************************)
EXTENDS Naturals, Sequences, FiniteSets

CONSTANTS
    Backups,      \* the GaleraBackup resources of the cluster
    Threads,      \* workers of the controller (flag backup-thread)
    RetrySteps,   \* attempts RetryOnConflict makes
    MaxJobs,      \* bound: jobs ever started
    MaxFaults,    \* bound: calls and commands that fail, pods that die
    MaxRestarts   \* bound: restarts of the operator

ASSUME BackupAssumption ==
    /\ Backups # {}
    /\ {Threads, RetrySteps, MaxJobs} \subseteq Nat \ {0}
    /\ {MaxFaults, MaxRestarts} \subseteq Nat

VARIABLES
    history,  \* per backup, its status at each resourceVersion
    cache,    \* per backup, the resourceVersion the lister shows
    queue,    \* keys in the work queue
    handler,  \* per backup, the call of HandleBackup in progress
    job,      \* the goroutines started by HandleBackup
    dir,      \* the directory of the copy on the volume of the backup pod
    stateMap, \* the server's StateMap
    tar,      \* per key, the server's goroutine that packs the directory
    pipe,     \* what has gone through the pipe between the two goroutines
    store,    \* per key, the server's goroutine that uploads
    bucket,   \* the objects in S3
    faults, restarts

controllerVars == <<history, cache, queue, handler>>
serverVars     == <<stateMap, tar, pipe, store, bucket>>
vars == <<controllerVars, job, dir, serverVars, faults, restarts>>

Jobs      == 1 .. MaxJobs
NoJob     == 0
Contents  == {"none", "partial", "whole"}
Statuses  == [conds : SUBSET {"Running", "Complete"}, outcome : Jobs \cup {NoJob}]
NewStatus == [conds |-> {}, outcome |-> NoJob]
Idle      == [on |-> FALSE, base |-> 0, rv |-> 0, tries |-> 0]
NotStarted == [pc |-> "none", of |-> {}, base |-> 0, rv |-> 0, tries |-> 0]

Execs    == {"rm", "mkdir", "backup", "prepare"}  \* commands of the method, in order
Stages   == Execs \cup {"none", "post", "poll", "report", "ended"}
Started  == {j \in Jobs : job[j].pc # "none"}
Handling == {b \in Backups : handler[b].on}
Current(b) == history[b][Len(history[b])]
Cached(b)  == history[b][cache[b]]

TypeOK ==
    /\ history \in [Backups -> Seq(Statuses)]
    /\ cache \in [Backups -> Nat]
    /\ \A b \in Backups : cache[b] \in 1 .. Len(history[b])
    /\ queue \subseteq Backups
    /\ handler \in [Backups -> [on : BOOLEAN, base : Nat, rv : Nat, tries : Nat]]
    /\ \A b \in Backups : handler[b].on =>
        {handler[b].base, handler[b].rv} \subseteq 1 .. Len(history[b])
    /\ job \in [Jobs -> [pc : Stages, of : SUBSET Backups, base : Nat, rv : Nat, tries : Nat]]
    /\ \A j \in Jobs, b \in Backups : b \in job[j].of =>
        job[j].of = {b} /\ {job[j].base, job[j].rv} \subseteq 1 .. Len(history[b])
    /\ dir \in {"absent", "empty", "raw", "ready"}
    /\ stateMap \in [Jobs -> {"none", "running", "completed", "failed"}]
    /\ tar \in [Jobs -> {"none", "start", "reading", "closed", "failed"}]
    /\ pipe \in [Jobs -> Contents]
    /\ store \in [Jobs -> {"none", "running", "ended"}]
    /\ bucket \in [Jobs -> Contents]
    /\ faults \in 0 .. MaxFaults
    /\ restarts \in 0 .. MaxRestarts

(* Every GaleraBackup has just been created: its Add event is in the queue. *)
Init ==
    /\ history = [b \in Backups |-> <<NewStatus>>]
    /\ cache = [b \in Backups |-> 1]
    /\ queue = Backups
    /\ handler = [b \in Backups |-> Idle]
    /\ job = [j \in Jobs |-> NotStarted]
    /\ dir = "absent"
    /\ stateMap = [j \in Jobs |-> "none"]
    /\ tar = [j \in Jobs |-> "none"]
    /\ pipe = [j \in Jobs |-> "none"]
    /\ store = [j \in Jobs |-> "none"]
    /\ bucket = [j \in Jobs |-> "none"]
    /\ faults = 0
    /\ restarts = 0

Fault == faults < MaxFaults /\ faults' = faults + 1

-----------------------------------------------------------------------------
(* The controller.                                                         *)

(* syncHandler leaves a backup alone that is Failed, Complete, Running or  *)
(* Scheduled; nothing sets the first or the last of the four.              *)
Skipped(s) == s.conds \cap {"Running", "Complete"} # {}

(* A worker takes a key that no other worker holds.                        *)
WorkerTakes(b) ==
    /\ b \in queue
    /\ ~ handler[b].on
    /\ Cardinality(Handling) < Threads
    /\ queue' = queue \ {b}

SyncSkips(b) ==
    /\ WorkerTakes(b)
    /\ Skipped(Cached(b))
    /\ UNCHANGED <<history, cache, handler, job, dir, serverVars, faults, restarts>>

(* The Galera resource is not found, or not managed by this controller: no *)
(* error, so the key is not queued again.                                  *)
SyncGivesUp(b) ==
    /\ WorkerTakes(b)
    /\ ~ Skipped(Cached(b))
    /\ Fault
    /\ UNCHANGED <<history, cache, handler, job, dir, serverVars, restarts>>

(* HandleBackup, up to the write of the status.  (A secret or a backup pod *)
(* that is not found puts the key back: nothing changes.)                  *)
SyncHandles(b) ==
    /\ WorkerTakes(b)
    /\ ~ Skipped(Cached(b))
    /\ Cardinality(Started) + Cardinality(Handling) < MaxJobs
    /\ handler' = [handler EXCEPT ![b] =
            [on |-> TRUE, base |-> cache[b], rv |-> cache[b], tries |-> 0]]
    /\ UNCHANGED <<history, cache, job, dir, serverVars, faults, restarts>>

(* Mutant of NewJob: the goroutine does not keep what syncHandler read.    *)
NewJobWithoutBase(b) == [pc |-> "rm", of |-> {b}, base |-> 0,
                         rv |-> handler[b].base, tries |-> 0]

(* The goroutine keeps the resource as syncHandler read it.                *)
NewJob(b) == [pc |-> "rm", of |-> {b}, base |-> handler[b].base,
              rv |-> handler[b].base, tries |-> 0]

RunningStatus == [conds |-> {"Running"}, outcome |-> NoJob]

(* The write of status Running succeeds and the goroutine is started.      *)
HandlerWrites(b) ==
    /\ handler[b].on
    /\ handler[b].rv = Len(history[b])
    /\ \E j \in Jobs \ Started :
        /\ \A i \in Jobs \ Started : j <= i
        /\ job' = [job EXCEPT ![j] = NewJob(b)]
    /\ history' = [history EXCEPT ![b] = Append(@, RunningStatus)]
    /\ handler' = [handler EXCEPT ![b] = Idle]
    /\ UNCHANGED <<cache, queue, dir, serverVars, faults, restarts>>

(* RetryOnConflict: the next attempt writes the same status on the resource *)
(* the lister shows; after the last one the key is queued again.           *)
HandlerConflicts(b) ==
    /\ handler[b].on
    /\ handler[b].rv # Len(history[b])
    /\ \/ /\ handler[b].tries + 1 < RetrySteps
          /\ handler' = [handler EXCEPT ![b].rv = cache[b], ![b].tries = @ + 1]
          /\ UNCHANGED queue
       \/ /\ handler[b].tries + 1 >= RetrySteps
          /\ handler' = [handler EXCEPT ![b] = Idle]
          /\ queue' = queue \cup {b}
    /\ UNCHANGED <<history, cache, job, dir, serverVars, faults, restarts>>

(* Another error of the write, which may have been applied all the same.   *)
HandlerFails(b) ==
    /\ handler[b].on
    /\ Fault
    /\ handler' = [handler EXCEPT ![b] = Idle]
    /\ queue' = queue \cup {b}
    /\ \/ UNCHANGED history
       \/ /\ handler[b].rv = Len(history[b])
          /\ history' = [history EXCEPT ![b] = Append(@, RunningStatus)]
    /\ UNCHANGED <<cache, job, dir, serverVars, restarts>>

(* An Update event: the lister shows the next version and the key is queued. *)
InformerCatchesUp(b) ==
    /\ cache[b] < Len(history[b])
    /\ cache' = [cache EXCEPT ![b] = @ + 1]
    /\ queue' = queue \cup {b}
    /\ UNCHANGED <<history, handler, job, dir, serverVars, faults, restarts>>

(* The periodic resynchronisation queues what the lister shows.            *)
Resync(b) ==
    /\ queue' = queue \cup {b}
    /\ UNCHANGED <<history, cache, handler, job, dir, serverVars, faults, restarts>>

(* The operator restarts: workers and goroutines are gone, the informer    *)
(* lists all resources afresh.                                             *)
OperatorRestarts ==
    /\ restarts < MaxRestarts
    /\ restarts' = restarts + 1
    /\ handler' = [b \in Backups |-> Idle]
    /\ job' = [j \in Jobs |->
            IF j \in Started THEN [job[j] EXCEPT !.pc = "ended"] ELSE job[j]]
    /\ cache' = [b \in Backups |-> Len(history[b])]
    /\ queue' = Backups
    /\ UNCHANGED <<history, dir, serverVars, faults>>

-----------------------------------------------------------------------------
(* The goroutine of a backup.                                              *)

Goes(j, pc) == job' = [job EXCEPT ![j].pc = pc]

(* rm -rf; whoever is reading the directory does not read all of it.       *)
ExecRm(j) ==
    /\ job[j].pc = "rm"
    /\ Goes(j, "mkdir")
    /\ dir' = "absent"
    /\ pipe' = [k \in Jobs |-> IF tar[k] = "reading" THEN "partial" ELSE pipe[k]]
    /\ UNCHANGED <<controllerVars, stateMap, tar, store, bucket, faults, restarts>>

(* A command that needs the directory in one of the states from leaves it  *)
(* in state to; otherwise it fails and the goroutine ends.                 *)
Exec(j, pc, from, to, next) ==
    /\ job[j].pc = pc
    /\ \/ dir \in from /\ dir' = to /\ Goes(j, next)
       \/ dir \notin from /\ UNCHANGED dir /\ Goes(j, "ended")
    /\ UNCHANGED <<controllerVars, serverVars, faults, restarts>>

(* Mutant of ExecBackup: the copy is not prepared before it is sent.       *)
BackupUnprepared(j) == Exec(j, "backup", {"absent", "empty"}, "raw", "post")

ExecMkdir(j)   == Exec(j, "mkdir", {"absent"}, "empty", "backup")
ExecBackup(j)  == Exec(j, "backup", {"absent", "empty"}, "raw", "prepare")
ExecPrepare(j) == Exec(j, "prepare", {"raw", "ready"}, "ready", "post")

(* A command or the request fails: an event is recorded, the status is not *)
(* touched, the goroutine ends.                                            *)
JobFails(j) ==
    /\ job[j].pc \in Execs \cup {"post"}
    /\ Fault
    /\ Goes(j, "ended")
    /\ UNCHANGED <<controllerVars, dir, serverVars, restarts>>

(* The POST: the server notes the key as running and starts its goroutines. *)
S3Backup(j) ==
    /\ stateMap' = [stateMap EXCEPT ![j] = "running"]
    /\ tar' = [tar EXCEPT ![j] = "start"]
    /\ store' = [store EXCEPT ![j] = "running"]

PostBackup(j) ==
    /\ job[j].pc = "post"
    /\ S3Backup(j)
    /\ Goes(j, "poll")
    /\ UNCHANGED <<controllerVars, dir, pipe, bucket, faults, restarts>>

(* The server starts the upload and its answer does not arrive.            *)
PostUnanswered(j) ==
    /\ job[j].pc = "post"
    /\ Fault
    /\ S3Backup(j)
    /\ Goes(j, "ended")
    /\ UNCHANGED <<controllerVars, dir, pipe, bucket, restarts>>

(* The server cannot make an S3 provider; the client reads the answer and  *)
(* starts polling all the same.                                            *)
PostRefused(j) ==
    /\ job[j].pc = "post"
    /\ Fault
    /\ stateMap' = [stateMap EXCEPT ![j] = "failed"]
    /\ Goes(j, "poll")
    /\ UNCHANGED <<controllerVars, dir, tar, pipe, store, bucket, restarts>>

(* Mutant of Finished: an upload that failed is finished too.              *)
FinishedOrFailed(state) == state \in {"completed", "failed"}

(* Store polls the state of the key until it is completed, without limit.  *)
Finished(state) == state = "completed"

PollState(j) ==
    /\ job[j].pc = "poll"
    /\ Finished(stateMap[j])
    /\ Goes(j, "report")
    /\ UNCHANGED <<controllerVars, dir, serverVars, faults, restarts>>

(* The final status is built from the status syncHandler read.             *)
CompleteStatus(j, b) ==
    [conds |-> (history[b][job[j].base].conds \ {"Running"}) \cup {"Complete"},
     outcome |-> j]

ReportWrites(j) ==
    /\ job[j].pc = "report"
    /\ \E b \in job[j].of :
        /\ job[j].rv = Len(history[b])
        /\ history' = [history EXCEPT ![b] = Append(@, CompleteStatus(j, b))]
    /\ Goes(j, "ended")
    /\ UNCHANGED <<cache, queue, handler, dir, serverVars, faults, restarts>>

ReportConflicts(j) ==
    /\ job[j].pc = "report"
    /\ \E b \in job[j].of :
        /\ job[j].rv # Len(history[b])
        /\ \/ /\ job[j].tries + 1 < RetrySteps
              /\ job' = [job EXCEPT ![j].rv = cache[b], ![j].tries = @ + 1]
           \/ job[j].tries + 1 >= RetrySteps /\ Goes(j, "ended")
    /\ UNCHANGED <<controllerVars, dir, serverVars, faults, restarts>>

ReportFails(j) ==
    /\ job[j].pc = "report"
    /\ Fault
    /\ Goes(j, "ended")
    /\ \/ UNCHANGED history
       \/ \E b \in job[j].of :
            /\ job[j].rv = Len(history[b])
            /\ history' = [history EXCEPT ![b] = Append(@, CompleteStatus(j, b))]
    /\ UNCHANGED <<cache, queue, handler, dir, serverVars, restarts>>

-----------------------------------------------------------------------------
(* The API server of the backup container.                                 *)

Failed(k) == stateMap' = [stateMap EXCEPT ![k] = "failed"]

(* TarGzip finds the directory and starts walking it.                      *)
TarOpens(k) ==
    /\ tar[k] = "start"
    /\ dir # "absent"
    /\ tar' = [tar EXCEPT ![k] = "reading"]
    /\ pipe' = [pipe EXCEPT ![k] = IF dir = "ready" THEN "whole" ELSE "partial"]
    /\ UNCHANGED <<controllerVars, job, dir, stateMap, store, bucket, faults, restarts>>

(* TarGzip ends without an error and the pipe is closed.                   *)
TarEnds(k) ==
    /\ tar[k] = "reading"
    /\ tar' = [tar EXCEPT ![k] = "closed"]
    /\ UNCHANGED <<controllerVars, job, dir, stateMap, pipe, store, bucket, faults, restarts>>

(* TarGzip has no directory to walk, loses its files, or cannot write to   *)
(* the pipe since the upload is over: the key is noted as failed and the   *)
(* pipe is closed, as after a walk without an error.                       *)
TarGivesUp(k) ==
    /\ \/ tar[k] = "start" /\ dir = "absent"
       \/ tar[k] = "reading" /\ (pipe[k] = "partial" \/ store[k] = "ended")
    /\ tar' = [tar EXCEPT ![k] = "failed"]
    /\ pipe' = [pipe EXCEPT ![k] = "partial"]
    /\ Failed(k)
    /\ UNCHANGED <<controllerVars, job, dir, store, bucket, faults, restarts>>

(* TarGzip fails on a file it cannot read.                                 *)
TarFails(k) ==
    /\ tar[k] = "reading"
    /\ Fault
    /\ tar' = [tar EXCEPT ![k] = "failed"]
    /\ pipe' = [pipe EXCEPT ![k] = "partial"]
    /\ Failed(k)
    /\ UNCHANGED <<controllerVars, job, dir, store, bucket, restarts>>

(* The uploader has read the pipe to its end.                              *)
PipeClosed(k) == tar[k] \in {"closed", "failed"}

StoreEnds(k) ==
    /\ store[k] = "running"
    /\ PipeClosed(k)
    /\ store' = [store EXCEPT ![k] = "ended"]
    /\ bucket' = [bucket EXCEPT ![k] = pipe[k]]
    /\ stateMap' = [stateMap EXCEPT ![k] = "completed"]
    /\ UNCHANGED <<controllerVars, job, dir, tar, pipe, faults, restarts>>

StoreFails(k) ==
    /\ store[k] = "running"
    /\ Fault
    /\ store' = [store EXCEPT ![k] = "ended"]
    /\ Failed(k)
    /\ UNCHANGED <<controllerVars, job, dir, tar, pipe, bucket, restarts>>

(* The backup pod dies and another one, with another volume, takes over.   *)
(* Commands and requests to the old one fail; a goroutine that polls it    *)
(* goes on polling.                                                        *)
BackupPodReplaced ==
    /\ Fault
    /\ dir' = "absent"
    /\ stateMap' = [k \in Jobs |-> "none"]
    /\ tar' = [k \in Jobs |-> IF tar[k] \in {"start", "reading"} THEN "none" ELSE tar[k]]
    /\ store' = [k \in Jobs |-> IF store[k] = "running" THEN "ended" ELSE store[k]]
    /\ job' = [j \in Jobs |-> IF job[j].pc \in Execs \cup {"post"}
                              THEN [job[j] EXCEPT !.pc = "ended"] ELSE job[j]]
    /\ UNCHANGED <<controllerVars, pipe, bucket, restarts>>

-----------------------------------------------------------------------------
ControllerStep(b) ==
    \/ SyncSkips(b) \/ SyncGivesUp(b) \/ SyncHandles(b)
    \/ HandlerWrites(b) \/ HandlerConflicts(b) \/ HandlerFails(b)
    \/ InformerCatchesUp(b) \/ Resync(b)

JobStep(j) ==
    \/ ExecRm(j) \/ ExecMkdir(j) \/ ExecBackup(j) \/ ExecPrepare(j) \/ JobFails(j)
    \/ PostBackup(j) \/ PostUnanswered(j) \/ PostRefused(j) \/ PollState(j)
    \/ ReportWrites(j) \/ ReportConflicts(j) \/ ReportFails(j)

ServerStep(k) ==
    \/ TarOpens(k) \/ TarEnds(k) \/ TarGivesUp(k) \/ TarFails(k)
    \/ StoreEnds(k) \/ StoreFails(k)

Next ==
    \/ \E b \in Backups : ControllerStep(b)
    \/ \E j \in Jobs : JobStep(j) \/ ServerStep(j)
    \/ OperatorRestarts
    \/ BackupPodReplaced

Spec == Init /\ [][Next]_vars

-----------------------------------------------------------------------------
(* Properties.                                                             *)

Complete(s) == "Complete" \in s.conds

(* A backup whose status is Complete names an artifact that one of its own *)
(* goroutines made and that is in the bucket, whatever fails, restarts,    *)
(* conflicts or runs twice (HandleBackup, Store, S3Backup).                *)
CompleteIsStored ==
    \A b \in Backups : Complete(Current(b)) =>
        LET k == Current(b).outcome
        IN  k \in Jobs /\ job[k].of = {b} /\ bucket[k] # "none"

(* The artifact of a Complete backup is the whole prepared copy, unless    *)
(* TarGzip failed on it or another backup job used the same directory      *)
(* (mariabackup method, S3Backup).                                         *)
WholeWhenAlone ==
    \A b \in Backups : Complete(Current(b)) =>
        LET k == Current(b).outcome
        IN  bucket[k] = "whole" \/ tar[k] = "failed" \/ Cardinality(Started) > 1

(* What the type of the conditions says: Complete means that the backup    *)
(* was executed successfully and its artifact stored.                      *)
CompleteIsWhole ==
    \A b \in Backups : Complete(Current(b)) => bucket[Current(b).outcome] = "whole"
=============================================================================
