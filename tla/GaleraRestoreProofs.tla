------------------------- MODULE GaleraRestoreProofs -------------------------
(***************************************************************************)
(* What a restore promises, for any number of names, goroutines and faults,*)
(* at least two replicas, and whichever of the two informers lag: the      *)
(* cluster is founded on whole copies, except for those that were reported *)
(* failed or whose pod was lost, and no pod of the cluster is deleted when *)
(* a single goroutine was started, no pod was lost and the restore was not *)
(* begun again on an old status.                                           *)
(***************************************************************************)
EXTENDS GaleraRestore, FiniteSetTheorems, TLAPS

(* The parts of the inductive invariant.                                   *)

(* A handler whose copy to n is past the request has asked once at most.   *)
Asked(n) == {h \in Handlers : stage[h] # "free" /\ copy[h][n] \notin {"check", "request"}}
UntarBound == \A n \in Names : untar[n] \in Nat /\ untar[n] <= Cardinality(Asked(n))

(* A name whose copy is not missing, or is known to be.                    *)
Safe(n) == volume[n] = "whole" \/ n \in failed \cup lost

(* The phases from the copies on, and those after them.                    *)
Past == {"CopyRestore", "Restoring", "Running", "Failed"}
Rest == {"Restoring", "Running"}
Begun == Started # {} \/ todo.copy # {}
Creates == todo.restore \cup todo.found

(* There are never more claims than replicas, and every pod has one.       *)
ClaimsFit ==
    /\ IsFiniteSet(claims) /\ Cardinality(claims) <= Replicas
    /\ \A n \in Names : pods[n] # "none" \/ seen.pods[n] # "none" => n \in claims

(* What a pass has still to call: a pod is created on a claim there is or  *)
(* that is missing, nothing is deleted but what was copied or lost.        *)
CallsFit ==
    /\ Idle => todo = NoCalls
    /\ todo.restore = {} \/ todo.found = {}
    /\ Creates # {} => todo.unclaim = {} /\ todo.delete = {} /\ todo.copy = {}
    /\ \A m, n \in Creates : m = n
    /\ \A n \in todo.restore : n \in claims \/ Cardinality(claims) < Replicas
    /\ todo.found \subseteq claims
    /\ todo.found # {} => result \in Rest
    /\ todo.copy # {} => todo.copy = claims
    /\ \A n \in todo.delete : Safe(n)

(* As long as no pod of the cluster was deleted, a claim that is to be     *)
(* deleted is still used by one.                                           *)
FoundersKept ==
    /\ \A n \in Names :
          /\ pods[n] # "leaving" /\ seen.pods[n] # "leaving"
          /\ seen.pods[n] = "cluster" => pods[n] = "cluster"
    /\ \A n \in unclaimed \cup todo.unclaim : pods[n] = "cluster"

(* What the API servers and the goroutines say of a copy is true.          *)
CopiesTell ==
    /\ \A n \in Names : stateMap[n] = "completed" => volume[n] = "whole"
    /\ \A h \in Handlers, n \in Names :
          /\ copy[h][n] \in {"ok", "failed"} => Safe(n)
          /\ stage[h] = "deleting" => copy[h][n] \in {"none", "ok", "failed"}

(* Pods fail or go away only when they were lost or copied.                *)
GoneIsSafe ==
    \A n \in Names :
        /\ pods[n] = "failed" \/ seen.pods[n] = "failed" => n \in lost
        /\ pods[n] \in {"stopping", "terminating"} => Safe(n)
        /\ seen.pods[n] \in {"stopping", "terminating"} => Safe(n)
        /\ seen.pods[n] # "none" /\ pods[n] = "none" => Safe(n)

(* Nothing is past the copies before a goroutine was started.              *)
StartedFirst ==
    /\ phase \in Past \/ seen.phase \in Past => Started # {}
    /\ result \in Past => Begun
    /\ phase = "None" => seen.phase = "None"
    /\ result # "None"
    /\ CachedPhase = "None" => ~Begun

(* From then on all claims are there, and a pod that is not there, or that *)
(* the pass does not see, has been copied or lost.                         *)
AllListed ==
    Begun =>
        /\ Cardinality(claims) = Replicas
        /\ \A n \in claims : CachedPods[n] = "none" \/ pods[n] = "none" => Safe(n)

(* After the copies all of them have been copied or lost.                  *)
AllSafe ==
    phase \in Rest \/ seen.phase \in Rest \/ result \in Rest \/ Founder # {} =>
        Started # {} /\ \A n \in claims : Safe(n)

Parts ==
    /\ ClaimsFit /\ CallsFit /\ FoundersKept /\ CopiesTell /\ GoneIsSafe
    /\ StartedFirst /\ AllListed /\ AllSafe
RestoreInv == ~unmade => Parts

-----------------------------------------------------------------------------
(* Types                                                                   *)

(* TypeOK in parts.                                                        *)
KubeType ==
    /\ phase \in Phases
    /\ pods \in [Names -> PodStates] /\ unclaimed \subseteq claims /\ claims \subseteq Names
    /\ volume \in [Names -> {"empty", "partial", "whole"}]
    /\ seen \in [phase : Phases, pods : [Names -> PodStates]]
    /\ faults \in 0..MaxFaults
    /\ failed \subseteq Names /\ lost \subseteq Names
    /\ undone \in BOOLEAN /\ again \in BOOLEAN /\ unmade \in BOOLEAN
PassType == result \in Phases \cup {NoResult} /\ todo \in Calls
CopyType ==
    /\ copy \in [Handlers -> [Names -> Copies]]
    /\ stage \in [Handlers -> {"free", "copying", "deleting", "ended"}]
ServerType ==
    /\ stateMap \in [Names -> {"unknown", "running", "completed", "failed"}]
    /\ untar \in [Names -> Nat]

(* The bounds are numbers.                                                 *)
LEMMA Bounds == MaxHandlers \in Nat /\ MaxFaults \in Nat /\ Replicas \in Nat
BY RestoreAssumption

(* Goroutines are few.                                                     *)
LEMMA AskedFinite ==
    ASSUME NEW n
    PROVE  /\ IsFiniteSet(Asked(n)) /\ Cardinality(Asked(n)) \in Nat
           /\ Cardinality(Asked(n)) <= MaxHandlers
<1>1. Asked(n) \subseteq 1..MaxHandlers
  BY DEF Asked, Handlers
<1>2. IsFiniteSet(1..MaxHandlers) /\ Cardinality(1..MaxHandlers) = MaxHandlers
  BY Bounds, FS_Interval
<1> QED
  BY <1>1, <1>2, FS_Subset, FS_CardinalityType

(* The parts make up TypeOK: no more goroutines unpack than were asked to. *)
LEMMA TypeParts ==
    KubeType /\ PassType /\ CopyType /\ ServerType /\ UntarBound => TypeOK
<1>1. ASSUME UntarBound, NEW n \in Names PROVE untar[n] \in 0..MaxHandlers
  BY <1>1, Bounds, AskedFinite DEF UntarBound
<1> QED
  BY <1>1 DEF TypeOK, KubeType, PassType, CopyType, ServerType

(* The initial state has these types.                                      *)
LEMMA TypeInit == Init => KubeType /\ PassType /\ CopyType /\ ServerType /\ UntarBound
<1> SUFFICES ASSUME Init PROVE KubeType /\ PassType /\ CopyType /\ ServerType /\ UntarBound
  OBVIOUS
<1>1. CopyType /\ ServerType
  <2>1. [n \in Names |-> "none"] \in [Names -> Copies]
    BY DEF Copies
  <2>2. copy \in [Handlers -> [Names -> Copies]]
    BY <2>1 DEF Init
  <2>3. stage \in [Handlers -> {"free", "copying", "deleting", "ended"}]
    BY DEF Init
  <2>4. ServerType
    BY DEF Init, ServerType
  <2> QED
    BY <2>2, <2>3, <2>4 DEF CopyType
<1>2. pods \in [Names -> PodStates] /\ phase \in Phases
  BY DEF Init, PodStates, Phases
<1>3. KubeType
  <2>1. seen \in [phase : Phases, pods : [Names -> PodStates]]
    BY <1>2 DEF Init
  <2>2. volume \in [Names -> {"empty", "partial", "whole"}]
    BY DEF Init
  <2>3. /\ unclaimed \subseteq claims /\ claims \subseteq Names
        /\ failed \subseteq Names /\ lost \subseteq Names
        /\ undone \in BOOLEAN /\ again \in BOOLEAN /\ unmade \in BOOLEAN
    BY DEF Init
  <2>4. faults \in 0..MaxFaults
    BY Bounds DEF Init
  <2> QED
    BY <1>2, <2>1, <2>2, <2>3, <2>4 DEF KubeType
<1>4. UntarBound
  BY AskedFinite DEF Init, UntarBound
<1>5. PassType
  BY DEF Init, PassType, NoCalls, Calls
<1> QED
  BY <1>1, <1>3, <1>4, <1>5

(* What a pass reads are names.                                            *)
LEMMA NamesRead ==
    ASSUME KubeType
    PROVE  /\ Listed \subseteq Names /\ Founders \subseteq Names /\ Unready \subseteq Names
           /\ UnusedClaims \subseteq Names /\ FreeNames \subseteq Names
BY DEF KubeType, Listed, Founders, Unready, UnusedClaims, FreeNames

(* A pass decides on calls and on a phase, and does nothing else.          *)
LEMMA PassDecides ==
    ASSUME KubeType, Pass
    PROVE  Idle /\ \E calls \in Calls, p \in Phases \ {"None"} : Decides(calls, p)
<1>1. /\ \A n \in Names : /\ [NoCalls EXCEPT !.unclaim = {n}] \in Calls
                          /\ [NoCalls EXCEPT !.delete = {n}] \in Calls
                          /\ [NoCalls EXCEPT !.unclaim = {n}, !.delete = {n}] \in Calls
                          /\ [NoCalls EXCEPT !.restore = {n}] \in Calls
                          /\ [NoCalls EXCEPT !.found = {n}] \in Calls
      /\ \A S \in SUBSET Names : [NoCalls EXCEPT !.delete = S] \in Calls
      /\ NoCalls \in Calls
  BY DEF NoCalls, Calls
<1>2. ASSUME NEW calls \in Calls PROVE [calls EXCEPT !.copy = Listed] \in Calls
  BY NamesRead DEF Calls
<1>3. Terminations \subseteq Calls
  BY <1>1, NamesRead DEF Terminations
<1>4. CASE SyncNew \/ ScheduleWaits \/ SyncCopying \/ RestoringWaits
  BY <1>1, <1>4 DEF SyncNew, ScheduleWaits, TooFew, Scheduling, SyncCopying, RestoringWaits,
    Restoring, Runs, RunPhase, Phases
<1>5. CASE ScheduleDeletesFounder \/ ScheduleDeletesFailed \/ ScheduleCreates
  BY <1>1, <1>5, NamesRead DEF ScheduleDeletesFounder, ScheduleDeletesFailed, ScheduleCreates,
    TooFew, Scheduling, Phases
<1>6. CASE ScheduleEnds
  BY <1>1, <1>2, <1>3, <1>6 DEF ScheduleEnds, Scheduling, Phases
<1>7. CASE RestoringDeletes
  <2>1. PICK n \in Names : Decides([NoCalls EXCEPT !.delete = {n}],
                                  IF WithoutClaim # {} THEN "Restoring" ELSE RunPhase)
    BY <1>7, NamesRead DEF RestoringDeletes, WithoutClaim
  <2> QED
    BY <1>1, <1>7, <2>1 DEF RestoringDeletes, Restoring, RunPhase, Phases
<1>8. CASE RestoringFounds
  BY <1>1, <1>8, NamesRead DEF RestoringFounds, Runs, Restoring, RunPhase, Phases
<1> QED
  BY <1>4, <1>5, <1>6, <1>7, <1>8 DEF Pass

(* A deleted pod has a state.                                              *)
LEMMA DeletedState ==
    ASSUME NEW s \in PodStates
    PROVE  /\ Deleted(s) \in PodStates
           /\ Deleted(s) = s \/ Deleted(s) \in {"stopping", "terminating", "leaving"}
           /\ s = "none" => Deleted(s) = "none"
           /\ Deleted(s) = "leaving" => s \in {"cluster", "leaving"}
           /\ s # "cluster" => Deleted(s) # "leaving" \/ s = "leaving"
BY DEF Deleted, PodStates

(* The name of a claim is not the name of a pod.                           *)
LEMMA NoneOfFailed == \A h : ClaimsOfFailed(h) = {}
BY DEF ClaimsOfFailed, PodName, ClaimName

(* What a pass does keeps the types.                                       *)
LEMMA TypeCall ==
    ASSUME KubeType, PassType, CopyType, ServerType, Pass \/ Call \/ CallFails
    PROVE  KubeType' /\ PassType' /\ CopyType' /\ ServerType'
<1>1. CASE Pass
  BY <1>1, PassDecides DEF Decides, KubeType, PassType, CopyType, ServerType, kube, goroutines,
    server, history
<1>2. NoCalls \in Calls
  BY DEF NoCalls, Calls
<1>3. CASE UpdateStatus
  BY <1>3 DEF UpdateStatus, Idle, KubeType, PassType, CopyType, ServerType, kube, goroutines,
    server, history
<1>4. CASE CallRefused
  BY <1>2, <1>4 DEF CallRefused, Abandons, KubeType, PassType, CopyType, ServerType, kube,
    goroutines, server, history
<1>5. CASE CallFails
  BY <1>2, <1>5, Bounds DEF CallFails, Fault, Abandons, KubeType, PassType, CopyType, ServerType,
    kube, goroutines, server, history
<1>6. ASSUME NEW n \in Names, DeleteClaim(n)
      PROVE  KubeType' /\ PassType' /\ CopyType' /\ ServerType'
  BY <1>6 DEF DeleteClaim, KubeType, PassType, CopyType, ServerType, Calls, goroutines, server,
    history
<1>7. ASSUME NEW n \in Names, ForceDeletePod(n)
      PROVE  KubeType' /\ PassType' /\ CopyType' /\ ServerType'
  <2>1. Deleted(pods[n]) \in PodStates
    BY DeletedState DEF KubeType
  <2>2. pods' \in [Names -> PodStates] /\ unmade' \in BOOLEAN
    BY <1>7, <2>1 DEF ForceDeletePod, DeletePod, KubeType
  <2>3. todo' \in Calls
    BY <1>7 DEF ForceDeletePod, PassType, Calls
  <2> QED
    BY <1>7, <2>2, <2>3 DEF ForceDeletePod, KubeType, PassType, CopyType, ServerType, goroutines,
      server
<1>8. ASSUME NEW n \in Names, CreateClaim(n)
      PROVE  KubeType' /\ PassType' /\ CopyType' /\ ServerType'
  BY <1>8 DEF CreateClaim, KubeType, PassType, CopyType, ServerType, goroutines, server, history,
    pass
<1>9. ASSUME NEW n \in Names, CreatePod(n)
      PROVE  KubeType' /\ PassType' /\ CopyType' /\ ServerType'
  <2>1. pods' \in [Names -> PodStates] /\ again' \in BOOLEAN
    BY <1>9 DEF CreatePod, KubeType, PodStates
  <2>2. ASSUME NEW h \in Handlers PROVE copy'[h] \in [Names -> Copies]
    <3>1. copy'[h] = [copy[h] EXCEPT ![n] =
                         IF copy[h][n] \in {"check", "request", "poll"} THEN "cut" ELSE copy[h][n]]
      BY <1>9 DEF CreatePod
    <3> QED
      BY <3>1 DEF CopyType, Copies
  <2>3. copy' \in [Handlers -> [Names -> Copies]]
    BY <1>9, <2>2 DEF CreatePod
  <2>4. todo' \in Calls
    BY <1>9 DEF CreatePod, PassType, Calls
  <2> QED
    BY <1>9, <2>1, <2>3, <2>4 DEF CreatePod, KubeType, PassType, CopyType, ServerType, server
<1>10. ASSUME NEW h \in Handlers, HandleGaleraRestore(h)
       PROVE  KubeType' /\ PassType' /\ CopyType' /\ ServerType'
  <2>1. CopyType'
    BY <1>10 DEF HandleGaleraRestore, CopyType, Copies
  <2> QED
    BY <1>2, <1>10, <2>1 DEF HandleGaleraRestore, KubeType, PassType, ServerType, kube, server,
      history
<1> QED
  BY <1>1, <1>3, <1>4, <1>5, <1>6, <1>7, <1>8, <1>9, <1>10 DEF Call

(* What a goroutine does keeps the types.                                  *)
LEMMA TypeCopier ==
    ASSUME KubeType, PassType, CopyType, ServerType, NEW h \in Handlers, NEW n \in Names,
           Copier(h, n) \/ RetrieveRefused(h, n) \/ HandlerDeleteFails(h, n)
    PROVE  KubeType' /\ PassType' /\ CopyType' /\ ServerType'
<1>1. ASSUME NEW c \in Copies, copy' = [copy EXCEPT ![h][n] = c]
      PROVE  copy' \in [Handlers -> [Names -> Copies]]
  BY <1>1 DEF CopyType
<1>2. ASSUME NEW c \in Copies, Becomes(h, n, c), UNCHANGED server
      PROVE  KubeType' /\ PassType' /\ CopyType' /\ ServerType'
  BY <1>1, <1>2 DEF Becomes, KubeType, PassType, CopyType, ServerType, kube, server, pass
<1>3. CASE RetrieveChecks(h, n) \/ RetrieveUnanswered(h, n) \/ RetrievePolls(h, n)
  <2>1. PICK c \in {"failed", "poll", "request", "ok"} : Becomes(h, n, c) /\ UNCHANGED server
    BY <1>3 DEF RetrieveChecks, RetrieveUnanswered, RetrievePolls
  <2> QED
    BY <1>2, <2>1 DEF Copies
<1>4. CASE RetrieveRequests(h, n)
  BY <1>1, <1>4 DEF RetrieveRequests, KubeType, PassType, CopyType, ServerType, Copies, history,
    pass
<1>5. CASE HandlerDeletes(h, n)
  <2>1. Deleted(pods[n]) \in PodStates
    BY DeletedState DEF KubeType
  <2>2. pods' \in [Names -> PodStates] /\ unmade' \in BOOLEAN
    BY <1>5, <2>1 DEF HandlerDeletes, DeletePod, KubeType
  <2> QED
    BY <1>1, <1>5, <2>2 DEF HandlerDeletes, KubeType, PassType, CopyType, ServerType, Copies,
      server, pass
<1>6. CASE RetrieveRefused(h, n)
  BY <1>1, <1>6, Bounds DEF RetrieveRefused, Fault, KubeType, PassType, CopyType, ServerType,
    Copies, kube, pass, history
<1>7. CASE HandlerDeleteFails(h, n)
  BY <1>1, <1>7, Bounds DEF HandlerDeleteFails, Fault, KubeType, PassType, CopyType, ServerType,
    Copies, kube, server, pass
<1> QED
  BY <1>3, <1>4, <1>5, <1>6, <1>7 DEF Copier

(* What happens to pods and claims keeps the types.                        *)
LEMMA TypeKubelet ==
    ASSUME KubeType, PassType, CopyType, ServerType, NEW n \in Names,
           Kubelet(n) \/ UnTarEnds(n) \/ UnTarFails(n) \/ PodIsLost(n)
    PROVE  KubeType' /\ PassType' /\ CopyType' /\ ServerType'
<1>1. CASE UnTarEnds(n) \/ UnTarFails(n)
  <2>1. untar[n] - 1 \in Nat
    BY <1>1 DEF UnTarEnds, UnTarFails, ServerType
  <2>2. ServerType'
    BY <1>1, <2>1 DEF UnTarEnds, UnTarFails, ServerType
  <2> QED
    BY <1>1, <2>2, Bounds DEF UnTarEnds, UnTarFails, Fault, KubeType, PassType, CopyType,
      goroutines, history, kube, pass
<1>2. CASE PodStarts(n)
  BY <1>2 DEF PodStarts, KubeType, PassType, CopyType, ServerType, PodStates, goroutines, server,
    history, pass
<1>3. ASSUME NEW s \in PodStates, ServerStops(n, s)
      PROVE  /\ pods' \in [Names -> PodStates] /\ PassType' /\ CopyType' /\ ServerType'
             /\ UNCHANGED <<phase, claims, unclaimed, volume, seen>>
  BY <1>3 DEF ServerStops, KubeType, PassType, CopyType, ServerType, goroutines, pass
<1>4. CASE PodStops(n) \/ PodIsGone(n)
  <2>1. PICK s \in PodStates : ServerStops(n, s)
    BY <1>4 DEF PodStops, PodIsGone, PodStates
  <2> QED
    BY <1>3, <1>4, <2>1 DEF PodStops, PodIsGone, KubeType, history
<1>5. CASE PodIsLost(n)
  <2>1. /\ pods' \in [Names -> PodStates] /\ PassType' /\ CopyType' /\ ServerType'
        /\ UNCHANGED <<phase, claims, unclaimed, volume, seen>>
    <3>1. "failed" \in PodStates /\ Deleted(pods[n]) \in PodStates
      BY DeletedState DEF PodStates, KubeType
    <3>2. CASE ServerStops(n, "failed")
      BY <1>3, <3>1, <3>2
    <3>3. CASE /\ pods' = [pods EXCEPT ![n] = Deleted(@)]
               /\ UNCHANGED <<phase, claims, unclaimed, volume, seen, pass, goroutines, server>>
      BY <3>1, <3>3 DEF KubeType, PassType, CopyType, ServerType, pass, goroutines, server
    <3> QED
      BY <1>5, <3>2, <3>3 DEF PodIsLost
  <2> QED
    BY <1>5, <2>1, Bounds DEF PodIsLost, Fault, KubeType
<1>6. CASE ClaimIsGone(n)
  BY <1>6 DEF ClaimIsGone, KubeType, PassType, CopyType, ServerType, goroutines, server, history,
    pass
<1> QED
  BY <1>1, <1>2, <1>4, <1>5, <1>6 DEF Kubelet

(* Every step keeps the types.                                             *)
LEMMA TypeNext ==
    ASSUME KubeType, PassType, CopyType, ServerType, [Next]_vars
    PROVE  KubeType' /\ PassType' /\ CopyType' /\ ServerType'
<1>1. ASSUME NEW i \in Lagging, InformerCatchesUp(i)
      PROVE  KubeType' /\ PassType' /\ CopyType' /\ ServerType'
  BY <1>1 DEF InformerCatchesUp, KubeType, PassType, CopyType, ServerType, kube, goroutines,
    server, history, pass
<1>2. CASE OperatorRestarts
  <2>1. CopyType' /\ PassType'
    BY <1>2 DEF OperatorRestarts, CopyType, PassType, Copies, NoCalls, Calls
  <2> QED
    BY <1>2, <2>1, Bounds DEF OperatorRestarts, Fault, KubeType, ServerType, kube, server
<1>3. ASSUME NEW h \in Handlers, AllCopied(h)
      PROVE  KubeType' /\ PassType' /\ CopyType' /\ ServerType'
  <2>1. unclaimed' = unclaimed
    BY <1>3, NoneOfFailed DEF AllCopied
  <2> QED
    BY <1>3, <2>1 DEF AllCopied, KubeType, PassType, CopyType, ServerType, Copies, server, history,
      pass
<1>4. CASE UNCHANGED vars
  BY <1>4 DEF vars, KubeType, PassType, CopyType, ServerType, kube, goroutines, server, history,
    pass
<1> QED
  BY <1>1, <1>2, <1>3, <1>4, TypeCall, TypeCopier, TypeKubelet DEF Next

-----------------------------------------------------------------------------
(* What may happen to one goroutine in a step                              *)

(* A copy in progress; a retrieved one is reported as the server has it.   *)
Retrieves(h, n) ==
    /\ stage[h] = "copying" /\ stage'[h] = "copying"
    /\ copy[h][n] \in {"check", "request", "poll", "cut"}
    /\ copy'[h][n] \in {"request", "poll", "ok", "failed"}
    /\ copy'[h][n] = "request" => copy[h][n] = "check"
    /\ copy'[h][n] = "ok" => stateMap[n] = "completed"
    /\ copy'[h][n] = "failed" => n \in failed'

CopyStep(h, n) ==
    \/ copy'[h][n] = copy[h][n]
    \/ copy[h][n] \in {"check", "request", "poll"} /\ copy'[h][n] = "cut" /\ CreatePod(n)
    \/ /\ stage[h] = "free" /\ HandleGaleraRestore(h)
       /\ copy'[h][n] = IF n \in todo.copy THEN "check" ELSE "none"
    \/ Retrieves(h, n)
    \/ /\ copy'[h][n] = "none" /\ stage'[h] # "copying"
       /\ stage[h] = "free" => stage'[h] = "free"

StageStep(h) ==
    \/ stage'[h] = stage[h]
    \/ HandleGaleraRestore(h)
    \/ AllCopied(h)
    \/ stage[h] # "free" /\ stage'[h] = "ended"

(* The steps of a pass, of the informers and of Kubernetes that leave the  *)
(* goroutines alone.                                                       *)
LEMMA GoroutinesKept ==
    ASSUME KubeType, [Next]_vars,
           ~OperatorRestarts,
           \A h \in Handlers : ~AllCopied(h) /\ ~HandleGaleraRestore(h),
           \A h \in Handlers, n \in Names :
              ~(Copier(h, n) \/ RetrieveRefused(h, n) \/ HandlerDeleteFails(h, n)),
           \A n \in Names : ~CreatePod(n)
    PROVE  UNCHANGED goroutines
<1>1. CASE Pass
  BY <1>1, PassDecides DEF Decides
<1>2. CASE UpdateStatus \/ CallRefused \/ CallFails \/ UNCHANGED vars
  BY <1>2 DEF UpdateStatus, CallRefused, CallFails, Abandons, vars
<1>3. ASSUME NEW n \in Names, DeleteClaim(n) \/ ForceDeletePod(n) \/ CreateClaim(n)
      PROVE  UNCHANGED goroutines
  BY <1>3 DEF DeleteClaim, ForceDeletePod, CreateClaim
<1>4. ASSUME NEW i \in Lagging, InformerCatchesUp(i) PROVE UNCHANGED goroutines
  BY <1>4 DEF InformerCatchesUp
<1>5. ASSUME NEW n \in Names, Kubelet(n) \/ UnTarEnds(n) \/ UnTarFails(n) \/ PodIsLost(n)
      PROVE  UNCHANGED goroutines
  BY <1>5 DEF Kubelet, UnTarEnds, UnTarFails, PodStarts, PodStops, PodIsGone, PodIsLost,
    ClaimIsGone, ServerStops
<1> QED
  BY <1>1, <1>2, <1>3, <1>4, <1>5 DEF Next, Call

(* Every step, by the stage of a goroutine.                                *)
LEMMA StageSteps ==
    ASSUME KubeType, CopyType, [Next]_vars, NEW h \in Handlers
    PROVE  StageStep(h)
<1>1. CASE UNCHANGED stage
  BY <1>1 DEF StageStep
<1>2. CASE OperatorRestarts
  BY <1>2 DEF OperatorRestarts, CopyType, StageStep
<1>3. ASSUME NEW g \in Handlers, AllCopied(g) PROVE StageStep(h)
  BY <1>3 DEF AllCopied, CopyType, StageStep
<1>4. ASSUME NEW g \in Handlers, HandleGaleraRestore(g) PROVE StageStep(h)
  BY <1>4 DEF HandleGaleraRestore, CopyType, StageStep
<1>5. ASSUME NEW n \in Names, CreatePod(n) PROVE UNCHANGED stage
  BY <1>5 DEF CreatePod
<1>6. ASSUME NEW g \in Handlers, NEW m \in Names,
             Copier(g, m) \/ RetrieveRefused(g, m) \/ HandlerDeleteFails(g, m)
      PROVE  UNCHANGED stage
  BY <1>6 DEF Copier, RetrieveChecks, RetrieveRequests, RetrieveUnanswered, RetrievePolls,
    HandlerDeletes, RetrieveRefused, HandlerDeleteFails, Becomes
<1>7. CASE UNCHANGED goroutines
  BY <1>1, <1>7 DEF goroutines
<1> QED
  BY <1>1, <1>2, <1>3, <1>4, <1>5, <1>6, <1>7, GoroutinesKept

(* Every step, by what it does to a copy.                                  *)
LEMMA CopySteps ==
    ASSUME KubeType, CopyType, [Next]_vars, NEW h \in Handlers, NEW n \in Names
    PROVE  CopyStep(h, n)
<1>1. CASE UNCHANGED goroutines
  BY <1>1 DEF goroutines, CopyStep
<1>2. CASE OperatorRestarts
  BY <1>2 DEF OperatorRestarts, CopyType, CopyStep
<1>3. ASSUME NEW g \in Handlers, AllCopied(g) PROVE CopyStep(h, n)
  <2>1. /\ stage' = [stage EXCEPT ![g] = "deleting"] /\ stage[g] = "copying"
        /\ copy' = [copy EXCEPT ![g] =
                       [m \in Names |-> IF m \in Listed THEN copy[g][m] ELSE "none"]]
    BY <1>3 DEF AllCopied
  <2>2. CASE g = h
    BY <1>3, <2>1, <2>2 DEF CopyType, CopyStep
  <2>3. CASE g # h
    BY <2>1, <2>3 DEF CopyType, CopyStep
  <2> QED
    BY <2>2, <2>3
<1>4. ASSUME NEW g \in Handlers, NEW m \in Names,
             Copier(g, m) \/ RetrieveRefused(g, m) \/ HandlerDeleteFails(g, m)
      PROVE  CopyStep(h, n)
  <2>1. PICK c : copy' = [copy EXCEPT ![g][m] = c] /\ stage' = stage
    BY <1>4 DEF Copier, RetrieveChecks, RetrieveRequests, RetrieveUnanswered, RetrievePolls,
      HandlerDeletes, RetrieveRefused, HandlerDeleteFails, Becomes
  <2>2. /\ g # h \/ m # n => copy'[h][n] = copy[h][n]
        /\ copy'[g][m] = c
    BY <2>1 DEF CopyType
  <2>3. CASE HandlerDeletes(g, m) \/ HandlerDeleteFails(g, m)
    <3>1. stage[g] = "deleting" /\ copy'[g][m] = "none"
      BY <2>3 DEF HandlerDeletes, HandlerDeleteFails, CopyType
    <3> QED
      BY <2>1, <2>2, <3>1 DEF CopyStep
  <2>4. CASE RetrieveRequests(g, m) \/ RetrieveRefused(g, m)
    <3>1. stage[g] = "copying" /\ copy[g][m] = "request" /\ copy'[g][m] = "poll"
      BY <2>4 DEF RetrieveRequests, RetrieveRefused, Copying, CopyType
    <3> QED
      BY <2>1, <2>2, <3>1 DEF CopyStep, Retrieves
  <2>5. CASE RetrieveChecks(g, m) \/ RetrieveUnanswered(g, m) \/ RetrievePolls(g, m)
    <3>1. ASSUME NEW d, Becomes(g, m, d)
          PROVE  copy'[g][m] = d /\ (d = "failed" => m \in failed')
      BY <3>1 DEF Becomes, CopyType
    <3>2. Retrieves(g, m)
      <4>1. CASE RetrieveChecks(g, m)
        BY <2>1, <3>1, <4>1 DEF RetrieveChecks, Copying, Retrieves
      <4>2. CASE RetrieveUnanswered(g, m)
        BY <2>1, <3>1, <4>2 DEF RetrieveUnanswered, Copying, Retrieves
      <4>3. CASE RetrievePolls(g, m)
        BY <2>1, <3>1, <4>3 DEF RetrievePolls, Copying, Retrieves
      <4> QED
        BY <2>5, <4>1, <4>2, <4>3
    <3> QED
      BY <2>1, <2>2, <3>2 DEF CopyStep
  <2> QED
    BY <1>4, <2>3, <2>4, <2>5 DEF Copier
<1>5. ASSUME NEW m \in Names, CreatePod(m) PROVE CopyStep(h, n)
  <2>1. copy'[h] = [copy[h] EXCEPT ![m] =
                       IF copy[h][m] \in {"check", "request", "poll"} THEN "cut" ELSE copy[h][m]]
    BY <1>5 DEF CreatePod
  <2>2. CASE m = n
    BY <1>5, <2>1, <2>2 DEF CopyType, CopyStep
  <2>3. CASE m # n
    BY <2>1, <2>3 DEF CopyType, CopyStep
  <2> QED
    BY <2>2, <2>3
<1>6. ASSUME NEW g \in Handlers, HandleGaleraRestore(g) PROVE CopyStep(h, n)
  <2>1. CASE g = h
    BY <1>6, <2>1 DEF HandleGaleraRestore, CopyType, CopyStep
  <2>2. CASE g # h
    BY <1>6, <2>2 DEF HandleGaleraRestore, CopyType, CopyStep
  <2> QED
    BY <2>1, <2>2
<1> QED
  BY <1>1, <1>2, <1>3, <1>4, <1>5, <1>6, GoroutinesKept

(* No goroutine is forgotten, and none asks again.                         *)
LEMMA AskedGrows ==
    ASSUME KubeType, CopyType, CopyType', [Next]_vars
    PROVE  /\ Started \subseteq Started'
           /\ \A n \in Names : Asked(n) \subseteq Asked(n)'
<1>1. ASSUME NEW h \in Handlers, stage[h] # "free" PROVE stage'[h] # "free"
  BY <1>1, StageSteps DEF StageStep, HandleGaleraRestore, AllCopied, CopyType
<1>2. ASSUME NEW n \in Names, NEW h \in Asked(n) PROVE h \in Asked(n)'
  <2>1. /\ h \in Handlers /\ stage[h] # "free" /\ stage'[h] # "free"
        /\ copy[h][n] \notin {"check", "request"}
    BY <1>1, <1>2 DEF Asked
  <2>2. copy'[h][n] \notin {"check", "request"}
    BY <2>1, CopySteps DEF CopyStep, Retrieves
  <2> QED
    BY <2>1, <2>2 DEF Asked
<1> QED
  BY <1>1, <1>2 DEF Started

(* Only a request makes the server of a pod unpack once more.              *)
LEMMA UntarSteps ==
    ASSUME KubeType, ServerType, [Next]_vars, NEW n \in Names
    PROVE  untar'[n] <= untar[n] \/ \E h \in Handlers : RetrieveRequests(h, n)
<1>1. untar[n] \in Nat
  BY DEF ServerType
<1>2. CASE UNCHANGED untar
  BY <1>1, <1>2
<1>3. CASE Pass
  BY <1>2, <1>3, PassDecides DEF Decides, server
<1>4. CASE Call \/ CallFails \/ OperatorRestarts
  BY <1>2, <1>4 DEF Call, UpdateStatus, CallRefused, Abandons, DeleteClaim, ForceDeletePod,
    CreateClaim, CreatePod, HandleGaleraRestore, CallFails, OperatorRestarts, server
<1>5. ASSUME NEW h \in Handlers, NEW m \in Names,
             Copier(h, m) \/ RetrieveRefused(h, m) \/ HandlerDeleteFails(h, m)
      PROVE  untar'[n] <= untar[n] \/ \E g \in Handlers : RetrieveRequests(g, n)
  <2>1. CASE RetrieveRequests(h, m)
    <3>1. m # n => untar'[n] = untar[n]
      BY <2>1 DEF RetrieveRequests, ServerType
    <3> QED
      BY <1>1, <2>1, <3>1
  <2>2. CASE \/ RetrieveChecks(h, m) \/ RetrieveUnanswered(h, m) \/ RetrievePolls(h, m)
             \/ RetrieveRefused(h, m) \/ HandlerDeletes(h, m) \/ HandlerDeleteFails(h, m)
    BY <1>2, <2>2 DEF RetrieveChecks, RetrieveUnanswered, RetrievePolls, RetrieveRefused,
      HandlerDeletes, HandlerDeleteFails, server
  <2> QED
    BY <1>5, <2>1, <2>2 DEF Copier
<1>6. ASSUME NEW m \in Names, Kubelet(m) \/ UnTarEnds(m) \/ UnTarFails(m) \/ PodIsLost(m)
      PROVE  untar'[n] <= untar[n]
  <2>1. CASE PodStarts(m) \/ ClaimIsGone(m)
    BY <1>1, <2>1 DEF PodStarts, ClaimIsGone, server
  <2>2. CASE PodStops(m) \/ PodIsGone(m) \/ PodIsLost(m)
    BY <1>1, <2>2 DEF PodStops, PodIsGone, PodIsLost, ServerStops, ServerType, server
  <2>3. CASE UnTarEnds(m) \/ UnTarFails(m)
    BY <1>1, <2>3 DEF UnTarEnds, UnTarFails, ServerType
  <2> QED
    BY <1>6, <2>1, <2>2, <2>3 DEF Kubelet
<1>7. CASE \/ UNCHANGED vars \/ \E h \in Handlers : AllCopied(h)
           \/ \E i \in Lagging : InformerCatchesUp(i)
  BY <1>2, <1>7 DEF AllCopied, InformerCatchesUp, vars, server
<1> QED
  BY <1>3, <1>4, <1>5, <1>6, <1>7 DEF Next

(* A step asks the server of a pod to unpack at most once more, for a      *)
(* goroutine that had not asked it.                                        *)
LEMMA UntarNext ==
    ASSUME KubeType, PassType, CopyType, ServerType, UntarBound, [Next]_vars
    PROVE  UntarBound'
<1>1. CopyType' /\ ServerType'
  BY TypeNext
<1> SUFFICES ASSUME NEW n \in Names PROVE untar'[n] <= Cardinality(Asked(n)')
  BY <1>1 DEF UntarBound, ServerType
<1>2. /\ IsFiniteSet(Asked(n)) /\ Cardinality(Asked(n)) \in Nat
      /\ IsFiniteSet(Asked(n)') /\ Cardinality(Asked(n)') \in Nat
      /\ Asked(n) \subseteq Asked(n)'
      /\ untar[n] \in Nat /\ untar[n] <= Cardinality(Asked(n)) /\ untar'[n] \in Nat
  <2>1. IsFiniteSet(Asked(n)) /\ Cardinality(Asked(n)) \in Nat
    BY AskedFinite
  <2>2. (IsFiniteSet(Asked(n)) /\ Cardinality(Asked(n)) \in Nat)'
    BY AskedFinite, PTL
  <2> QED
    BY <1>1, <2>1, <2>2, AskedGrows DEF UntarBound, ServerType
<1>3. Cardinality(Asked(n)) <= Cardinality(Asked(n)')
  BY <1>2, FS_Subset
<1>4. CASE untar'[n] <= untar[n]
  BY <1>2, <1>3, <1>4
<1>5. ASSUME NEW h \in Handlers, RetrieveRequests(h, n)
      PROVE  untar'[n] <= Cardinality(Asked(n)')
  <2>1. h \notin Asked(n) /\ h \in Asked(n)'
    BY <1>5 DEF RetrieveRequests, Copying, Asked, CopyType
  <2>2. /\ IsFiniteSet(Asked(n) \cup {h}) /\ Asked(n) \cup {h} \subseteq Asked(n)'
        /\ Cardinality(Asked(n) \cup {h}) = Cardinality(Asked(n)) + 1
    BY <1>2, <2>1, FS_AddElement
  <2>3. Cardinality(Asked(n)) + 1 <= Cardinality(Asked(n)')
    BY <1>2, <2>2, FS_Subset
  <2>4. untar'[n] = untar[n] + 1
    BY <1>5 DEF RetrieveRequests, ServerType
  <2> QED
    BY <1>2, <2>3, <2>4
<1> QED
  BY <1>4, <1>5, UntarSteps

(* Types and the bound on the unpacking goroutines hold all the time.      *)
LEMMA WellTyped == Spec => [](KubeType /\ PassType /\ CopyType /\ ServerType /\ UntarBound)
<1>1. /\ KubeType /\ PassType /\ CopyType /\ ServerType /\ UntarBound
      /\ [Next]_vars
      => (KubeType /\ PassType /\ CopyType /\ ServerType /\ UntarBound)'
  BY TypeNext, UntarNext
<1> QED
  BY <1>1, TypeInit, PTL DEF Spec

(* All state of a restore is well-typed, and however often the restore is  *)
(* begun again no pod unpacks more copies than there are goroutines that   *)
(* asked it to (HandleGaleraRestore, Retrieve, S3Restore).                 *)
THEOREM RestoreTypeCorrect == Spec => []TypeOK
<1>1. KubeType /\ PassType /\ CopyType /\ ServerType /\ UntarBound => TypeOK
  BY TypeParts
<1> QED
  BY <1>1, WellTyped, PTL

-----------------------------------------------------------------------------
(* What a pass sees                                                        *)

(* What a pass sees of pods is typed, and all of it has claims.            *)
LEMMA CacheFits ==
    ASSUME KubeType, ClaimsFit
    PROVE  /\ CachedPods \in [Names -> PodStates] /\ CachedPods \in {pods, seen.pods}
           /\ Ready \subseteq Listed /\ Listed \subseteq claims /\ claims \subseteq Names
           /\ IsFiniteSet(Ready) /\ Cardinality(Ready) \in Nat /\ Cardinality(claims) \in Nat
<1>1. CachedPods \in [Names -> PodStates] /\ CachedPods \in {pods, seen.pods}
  BY DEF CachedPods, KubeType
<1>2. Ready \subseteq Listed /\ Listed \subseteq claims /\ claims \subseteq Names
  BY <1>1 DEF Ready, Listed, ClaimsFit, KubeType
<1>3. IsFiniteSet(claims) /\ Ready \subseteq claims
  BY <1>2 DEF ClaimsFit
<1> QED
  BY <1>1, <1>2, <1>3, FS_Subset, FS_CardinalityType

(* When enough pods are ready there is nothing else: no claim without a    *)
(* pod, and no pod that is not ready.                                      *)
LEMMA EnoughIsAll ==
    ASSUME KubeType, ClaimsFit, Cardinality(Ready) >= Replicas
    PROVE  /\ Ready = claims /\ Listed = claims /\ Cardinality(claims) = Replicas
           /\ Unready = {} /\ UnusedClaims = {}
<1>1. /\ Ready \subseteq Listed /\ Listed \subseteq claims
      /\ Cardinality(Ready) \in Nat /\ Cardinality(claims) \in Nat
      /\ IsFiniteSet(claims) /\ Cardinality(claims) <= Replicas
  BY CacheFits DEF ClaimsFit
<1>2. Ready \subseteq claims
  BY <1>1
<1>3. Cardinality(Ready) <= Cardinality(claims)
  BY <1>1, <1>2, FS_Subset
<1>4. Cardinality(Ready) = Cardinality(claims) /\ Cardinality(claims) = Replicas
  BY <1>1, <1>3, Bounds
<1>5. Ready = claims
  BY <1>1, <1>2, <1>4, FS_Subset
<1> QED
  BY <1>1, <1>4, <1>5 DEF Unready, UnusedClaims

(* A pod is created on a claim that has none, or there are fewer claims    *)
(* than replicas.                                                          *)
LEMMA ClaimWhenFew ==
    ASSUME KubeType, ClaimsFit, Cardinality(Ready) < Replicas, Unready = {}, NEW n \in FreeNames
    PROVE  n \in Names /\ (n \in claims \/ Cardinality(claims) < Replicas)
<1>1. Ready \subseteq Listed /\ Listed \subseteq claims /\ claims \subseteq Names
  BY CacheFits
<1>2. CASE UnusedClaims # {}
  BY <1>1, <1>2 DEF FreeNames, UnusedClaims
<1>3. CASE UnusedClaims = {}
  <2>1. n \in Names /\ Ready = claims
    BY <1>1, <1>3 DEF FreeNames, UnusedClaims, Unready
  <2> QED
    BY <2>1
<1> QED
  BY <1>2, <1>3

(* In phase Restoring all copies are whole, failed or lost, and the name   *)
(* of the first pod of the cluster is the name of a claim.                 *)
LEMMA FoundsOnClaim ==
    ASSUME KubeType, Parts, Replicas > 1, CachedPhase = "Restoring"
    PROVE  /\ Started # {} /\ \A n \in claims : Safe(n)
           /\ Cardinality(Listed) <= 1 => FreeNames \subseteq claims
<1>1. phase = "Restoring" \/ seen.phase = "Restoring"
  BY DEF CachedPhase
<1>2. Started # {} /\ \A n \in claims : Safe(n)
  BY <1>1 DEF Parts, AllSafe, Rest
<1>3. Cardinality(claims) = Replicas
  BY <1>2 DEF Parts, AllListed, Begun
<1>4. ASSUME Cardinality(Listed) <= 1 PROVE UnusedClaims # {}
  <2>1. Listed # claims /\ Listed \subseteq claims
    BY <1>3, <1>4, CacheFits, Bounds DEF Parts
  <2> QED
    BY <2>1 DEF UnusedClaims
<1> QED
  BY <1>2, <1>4 DEF FreeNames, UnusedClaims

-----------------------------------------------------------------------------
(* The invariant, step by step                                             *)

(* The parts that are not about what is said of copies are kept when only  *)
(* more copies are safe.                                                   *)
Others ==
    /\ ClaimsFit /\ CallsFit /\ FoundersKept /\ GoneIsSafe
    /\ StartedFirst /\ AllListed /\ AllSafe
SafeGrows == (\A n \in Names : Safe(n) => Safe(n)') /\ lost \subseteq lost'
LEMMA OthersKept ==
    ASSUME KubeType, PassType, Parts, SafeGrows, Started' = Started,
           UNCHANGED <<phase, pods, claims, unclaimed, seen, todo, result>>
    PROVE  Others'
<1>1. ClaimsFit' /\ FoundersKept' /\ StartedFirst'
  BY DEF Parts, ClaimsFit, FoundersKept, StartedFirst, Begun, CachedPhase
<1>2. claims \subseteq Names /\ todo.delete \subseteq Names
  BY DEF KubeType, PassType, Calls
<1>3. CallsFit'
  BY <1>2 DEF Parts, CallsFit, Creates, SafeGrows, Idle
<1>4. GoneIsSafe'
  BY DEF Parts, GoneIsSafe, SafeGrows
<1>5. AllListed' /\ AllSafe'
  BY <1>2 DEF Parts, AllListed, AllSafe, Begun, CachedPods, Founder, SafeGrows
<1> QED
  BY <1>1, <1>3, <1>4, <1>5 DEF Others

(* They are kept when a pod of the restore goes on, or ends when its copy  *)
(* is safe.                                                                *)
LEMMA PodChanged ==
    ASSUME KubeType, PassType, Parts, SafeGrows, Started' = Started,
           UNCHANGED <<phase, claims, unclaimed, seen, result>>,
           todo' = [todo EXCEPT !.delete = todo'.delete], todo'.delete \subseteq todo.delete,
           todo' # todo => ~Idle,
           NEW n \in Names, pods[n] \notin {"none", "cluster"},
           NEW s \in {"ready", "failed", "stopping", "terminating", "none"},
           pods' = [pods EXCEPT ![n] = s],
           s # "ready" => Safe(n)', s = "failed" => n \in lost'
    PROVE  Others'
<1>1. /\ claims \subseteq Names /\ todo.delete \subseteq Names
      /\ todo'.unclaim = todo.unclaim /\ todo'.copy = todo.copy
      /\ todo'.restore = todo.restore /\ todo'.found = todo.found
      /\ pods'[n] = s /\ \A m \in Names : m # n => pods'[m] = pods[m]
  BY DEF KubeType, PassType, Calls
<1>2. ClaimsFit'
  BY <1>1 DEF Parts, ClaimsFit
<1>3. CallsFit'
  BY <1>1 DEF Parts, CallsFit, Creates, SafeGrows, Idle
<1>4. FoundersKept'
  BY <1>1 DEF Parts, FoundersKept, KubeType, PassType, Calls
<1>5. StartedFirst'
  BY <1>1 DEF Parts, StartedFirst, Begun, CachedPhase
<1>6. GoneIsSafe'
  BY <1>1 DEF Parts, GoneIsSafe, SafeGrows
<1>7. AllListed'
  BY <1>1 DEF Parts, AllListed, Begun, CachedPods, SafeGrows
<1>8. AllSafe'
  BY <1>1 DEF Parts, AllSafe, Founder, SafeGrows
<1> QED
  BY <1>2, <1>3, <1>4, <1>5, <1>6, <1>7, <1>8 DEF Others

(* Nothing untrue is said of a copy.                                       *)
LEMMA CopiesTellNext ==
    ASSUME KubeType, CopyType, CopiesTell, SafeGrows, [Next]_vars,
           \A n \in Names : stateMap'[n] = "completed" => volume'[n] = "whole"
    PROVE  CopiesTell'
<1>1. ASSUME NEW h \in Handlers, NEW n \in Names, copy'[h][n] \in {"ok", "failed"}
      PROVE  Safe(n)'
  <2>1. CopyStep(h, n)
    BY CopySteps
  <2>2. CASE copy'[h][n] = copy[h][n]
    BY <1>1, <2>2 DEF CopiesTell, SafeGrows
  <2>3. CASE Retrieves(h, n)
    <3>1. stateMap[n] = "completed" => Safe(n)
      BY DEF CopiesTell, Safe
    <3> QED
      BY <1>1, <2>3, <3>1 DEF Retrieves, SafeGrows, Safe
  <2> QED
    BY <1>1, <2>1, <2>2, <2>3 DEF CopyStep
<1>2. ASSUME NEW h \in Handlers, NEW n \in Names, stage'[h] = "deleting"
      PROVE  copy'[h][n] \in {"none", "ok", "failed"}
  <2>1. stage[h] # "free" /\ copy[h][n] \in {"none", "ok", "failed"}
    BY <1>2, StageSteps DEF StageStep, HandleGaleraRestore, AllCopied, CopyType, CopiesTell
  <2> QED
    BY <1>2, <2>1, CopySteps DEF CopyStep, Retrieves
<1> QED
  BY <1>1, <1>2 DEF CopiesTell

(* What a pass decides is fit to be called.                                *)
LEMMA PassFits ==
    ASSUME KubeType, PassType, Parts, Replicas > 1, Pass
    PROVE  /\ CallsFit' /\ \A n \in todo'.unclaim : pods[n] = "cluster"
           /\ todo'.copy # {} => Listed = claims /\ Cardinality(claims) = Replicas
           /\ result' \in Past => Started # {} \/ todo'.copy # {}
           /\ result' \in Rest => Started # {} /\ \A n \in claims : Safe(n)
           /\ CachedPhase = "None" => todo'.copy = {}
<1> DEFINE Fits ==
             /\ CallsFit' /\ \A n \in todo'.unclaim : pods[n] = "cluster"
             /\ todo'.copy # {} => Listed = claims /\ Cardinality(claims) = Replicas
             /\ result' \in Past => Started # {} \/ todo'.copy # {}
             /\ result' \in Rest => Started # {} /\ \A n \in claims : Safe(n)
             /\ CachedPhase = "None" => todo'.copy = {}
<1>1. /\ ClaimsFit /\ CallsFit /\ FoundersKept /\ GoneIsSafe /\ StartedFirst /\ AllListed /\ AllSafe
  BY DEF Parts
<1>2. /\ CachedPods \in {pods, seen.pods} /\ Listed \subseteq claims /\ claims \subseteq Names
  BY <1>1, CacheFits
<1>3. ASSUME NEW n, Safe(n), UNCHANGED kube, UNCHANGED history PROVE Safe(n)'
  BY <1>3 DEF Safe, kube, history
<1>4. ASSUME NEW p \in Phases \ {"None"}, Decides(NoCalls, p),
             p \in Past => Started # {}, p \in Rest => \A n \in claims : Safe(n)
      PROVE  Fits
  BY <1>4 DEF Decides, NoCalls, CallsFit, Creates, Idle, NoResult, Phases, Past, Rest
<1>5. ASSUME NEW p \in Phases \ {"None"}, NEW n \in claims, Safe(n),
             Decides([NoCalls EXCEPT !.delete = {n}], p),
             p \in Past => Started # {}, p \in Rest => \A m \in claims : Safe(m)
      PROVE  Fits
  <2>1. Safe(n)'
    BY <1>3, <1>5 DEF Decides
  <2> QED
    BY <1>5, <2>1 DEF Decides, NoCalls, CallsFit, Creates, Idle, NoResult, Phases, Past, Rest
<1>6. CASE SyncNew
  BY <1>4, <1>6 DEF SyncNew, Phases, Past, Rest
<1>7. CASE ScheduleDeletesFounder
  <2>1. PICK n \in Founders :
             Decides([NoCalls EXCEPT !.unclaim = {n}, !.delete = {n}], "ScheduleRestore")
    BY <1>7 DEF ScheduleDeletesFounder
  <2>2. n \in Names /\ n \in claims /\ pods[n] = "cluster"
    BY <1>1, <1>2 DEF Founders, Listed, FoundersKept
  <2>3. Safe(n)
    BY <1>1, <2>2 DEF AllSafe, Founder
  <2>4. Safe(n)'
    BY <1>3, <2>1, <2>3 DEF Decides
  <2> QED
    BY <2>1, <2>2, <2>4 DEF Decides, NoCalls, CallsFit, Creates, Idle, NoResult, Past, Rest
<1>8. CASE ScheduleDeletesFailed
  <2>1. PICK n \in Unready : /\ CachedPods[n] \in {"failed", "terminating"}
                             /\ Decides([NoCalls EXCEPT !.delete = {n}], "ScheduleRestore")
    BY <1>8 DEF ScheduleDeletesFailed
  <2>2. n \in claims /\ Safe(n)
    BY <1>1, <1>2, <2>1 DEF Unready, GoneIsSafe, Safe
  <2> QED
    BY <1>5, <2>1, <2>2 DEF Phases, Past, Rest
<1>9. CASE ScheduleWaits
  BY <1>4, <1>9 DEF ScheduleWaits, Phases, Past, Rest
<1>10. CASE ScheduleCreates
  <2>1. PICK n \in FreeNames : Decides([NoCalls EXCEPT !.restore = {n}], "ScheduleRestore")
    BY <1>10 DEF ScheduleCreates
  <2>2. n \in claims \/ Cardinality(claims) < Replicas
    BY <1>1, <1>10, ClaimWhenFew DEF ScheduleCreates, TooFew
  <2> QED
    BY <2>1, <2>2 DEF Decides, NoCalls, CallsFit, Creates, Idle, NoResult, Past, Rest, kube
<1>11. CASE ScheduleEnds
  <2>1. PICK calls \in IF unclaimed # {} THEN {NoCalls} ELSE Terminations :
             IF Cardinality(Ready) = Replicas
             THEN Decides([calls EXCEPT !.copy = Listed], "CopyRestore")
             ELSE Decides(calls, "ScheduleRestore")
    BY <1>11 DEF ScheduleEnds
  <2>2. unclaimed = {} => Cardinality(Ready) >= Replicas
    BY <1>11 DEF ScheduleEnds
  <2>3. calls = NoCalls
    <3>1. CASE unclaimed = {}
      <4>1. Unready = {} /\ UnusedClaims = {}
        BY <1>1, <2>2, <3>1, EnoughIsAll
      <4>2. calls = [NoCalls EXCEPT !.delete = {}]
        BY <2>1, <3>1, <4>1 DEF Terminations
      <4> QED
        BY <4>2 DEF NoCalls
    <3> QED
      BY <2>1, <3>1
  <2>4. CASE Cardinality(Ready) = Replicas
    <3>1. Listed = claims /\ Cardinality(claims) = Replicas /\ Decides([NoCalls EXCEPT !.copy = Listed], "CopyRestore")
      BY <1>1, <2>1, <2>3, <2>4, EnoughIsAll, Bounds
    <3>2. claims # {}
      BY <3>1, FS_EmptySet, Bounds
    <3> QED
      BY <1>11, <3>1, <3>2 DEF Decides, NoCalls, CallsFit, Creates, Idle, NoResult, Past, Rest,
        kube, ScheduleEnds, Scheduling
  <2>5. CASE Cardinality(Ready) # Replicas
    BY <1>4, <2>1, <2>3, <2>5 DEF Phases, Past, Rest
  <2> QED
    BY <2>4, <2>5
<1>12. CASE SyncCopying
  <2>1. CachedPhase = "CopyRestore" /\ Started # {}
    BY <1>1, <1>12 DEF SyncCopying, CachedPhase, StartedFirst, Past
  <2>2. Listed = {} => \A n \in claims : Safe(n)
    BY <1>1, <1>2, <2>1 DEF AllListed, Begun, Listed
  <2> QED
    BY <1>4, <1>12, <2>1, <2>2 DEF SyncCopying, Phases, Past, Rest
<1>13. CASE RestoringWaits \/ RestoringDeletes \/ RestoringFounds
  <2>1. CachedPhase = "Restoring" /\ RunPhase \in Rest
    BY <1>13 DEF RestoringWaits, RestoringDeletes, RestoringFounds, Restoring, Runs, RunPhase, Rest
  <2>2. /\ Started # {} /\ \A n \in claims : Safe(n)
        /\ Cardinality(Listed) <= 1 => FreeNames \subseteq claims
    BY <2>1, FoundsOnClaim
  <2>3. CASE RestoringWaits
    BY <1>4, <2>1, <2>2, <2>3 DEF RestoringWaits, Phases, Past, Rest
  <2>4. CASE RestoringDeletes
    <3>1. PICK n \in Listed : Decides([NoCalls EXCEPT !.delete = {n}],
                                     IF WithoutClaim # {} THEN "Restoring" ELSE RunPhase)
      BY <2>4 DEF RestoringDeletes, WithoutClaim
    <3> QED
      BY <1>2, <1>5, <2>1, <2>2, <3>1 DEF Phases, Past, Rest
  <2>5. CASE RestoringFounds
    <3>1. PICK n \in FreeNames : Decides([NoCalls EXCEPT !.found = {n}], RunPhase)
      BY <2>5 DEF RestoringFounds
    <3>2. n \in claims
      BY <2>2, <2>5, <3>1 DEF RestoringFounds, Runs
    <3> QED
      BY <2>1, <2>2, <3>1, <3>2 DEF Decides, NoCalls, CallsFit, Creates, Idle, NoResult, Past, Rest,
        kube
  <2> QED
    BY <1>13, <2>3, <2>4, <2>5
<1> QED
  BY <1>6, <1>7, <1>8, <1>9, <1>10, <1>11, <1>12, <1>13 DEF Pass

(* A pass that decides.                                                    *)
LEMMA PassKeeps ==
    ASSUME KubeType, PassType, CopyType, Parts, Replicas > 1, [Next]_vars, Pass
    PROVE  Parts'
<1>1. /\ UNCHANGED <<phase, kube, seen, goroutines, server, history>>
      /\ Idle /\ result' # "None" /\ result' # NoResult /\ todo.copy = {}
  <2>1. PICK calls \in Calls, p \in Phases \ {"None"} : Decides(calls, p)
    BY PassDecides
  <2>2. Idle /\ todo = NoCalls
    BY PassDecides DEF Parts, CallsFit
  <2> QED
    BY <2>1, <2>2 DEF Decides, Phases, NoResult, NoCalls
<1>2. UNCHANGED <<pods, claims, unclaimed, volume, copy, stage, stateMap, untar, failed, lost>>
  BY <1>1 DEF kube, goroutines, server, history
<1>3. SafeGrows /\ Started' = Started
  BY <1>2 DEF SafeGrows, Safe, Started
<1>4. CopiesTell'
  BY <1>2, <1>3, CopiesTellNext DEF Parts, CopiesTell
<1>5. ClaimsFit' /\ GoneIsSafe'
  BY <1>1, <1>2, <1>3 DEF Parts, ClaimsFit, GoneIsSafe, SafeGrows
<1>6. CallsFit' /\ FoundersKept'
  BY <1>1, <1>2, PassFits DEF Parts, FoundersKept
<1>7. StartedFirst'
  BY <1>1, <1>2, <1>3, PassFits DEF Parts, StartedFirst, Begun, CachedPhase
<1>8. AllListed'
  <2>1. CASE Started # {}
    BY <1>1, <1>2, <1>3, <2>1 DEF Parts, AllListed, Begun, CachedPods, SafeGrows, KubeType
  <2>2. CASE todo'.copy # {}
    <3>1. Listed = claims /\ Cardinality(claims) = Replicas
      BY <2>2, PassFits
    <3>2. ASSUME NEW n \in claims, CachedPods[n] = "none" \/ pods[n] = "none" PROVE Safe(n)
      BY <3>1, <3>2 DEF Listed, CachedPods, Parts, GoneIsSafe
    <3> QED
      BY <1>1, <1>2, <1>3, <3>1, <3>2 DEF AllListed, CachedPods, SafeGrows, KubeType
  <2> QED
    BY <1>3, <2>1, <2>2 DEF AllListed, Begun
<1>9. AllSafe'
  BY <1>1, <1>2, <1>3, PassFits DEF Parts, AllSafe, Founder, SafeGrows, KubeType
<1> QED
  BY <1>4, <1>5, <1>6, <1>7, <1>8, <1>9 DEF Parts

(* The end of a pass, with its status or without.                          *)
LEMMA EndKeeps ==
    ASSUME KubeType, PassType, CopyType, Parts, [Next]_vars,
           UpdateStatus \/ CallRefused \/ CallFails
    PROVE  Parts'
<1>1. /\ UNCHANGED <<kube, seen, goroutines, server, history>>
      /\ todo' = NoCalls /\ result' = NoResult
      /\ phase' = phase \/ (phase' = result /\ todo = NoCalls /\ result # NoResult)
  BY DEF UpdateStatus, CallRefused, CallFails, Abandons, Idle
<1>2. UNCHANGED <<pods, claims, unclaimed, volume, copy, stage, stateMap, failed, lost>>
  BY <1>1 DEF kube, goroutines, server, history
<1>3. SafeGrows /\ Started' = Started
  BY <1>2 DEF SafeGrows, Safe, Started
<1>4. CopiesTell'
  BY <1>2, <1>3, CopiesTellNext DEF Parts, CopiesTell
<1>5. ClaimsFit' /\ GoneIsSafe'
  BY <1>1, <1>2, <1>3 DEF Parts, ClaimsFit, GoneIsSafe, SafeGrows
<1>6. CallsFit' /\ FoundersKept'
  BY <1>1, <1>2 DEF Parts, CallsFit, FoundersKept, NoCalls, Creates, KubeType
<1>7. Begun' => Begun
  BY <1>1, <1>3 DEF Begun, NoCalls
<1>8. StartedFirst'
  <2>1. phase' \in Past \/ seen'.phase \in Past => Started' # {}
    BY <1>1, <1>3 DEF Parts, StartedFirst, Begun, NoCalls
  <2>2. phase' # "None" \/ phase' = phase
    BY <1>1 DEF Parts, StartedFirst
  <2>3. CachedPhase' = "None" => CachedPhase = "None"
    BY <1>1, <2>2 DEF CachedPhase
  <2> QED
    BY <1>1, <1>7, <2>1, <2>2, <2>3 DEF Parts, StartedFirst, NoResult, Past
<1>9. AllListed'
  BY <1>1, <1>2, <1>3, <1>7 DEF Parts, AllListed, CachedPods, SafeGrows, KubeType
<1>10. AllSafe'
  BY <1>1, <1>2, <1>3 DEF Parts, AllSafe, Founder, SafeGrows, KubeType, NoResult, Rest
<1> QED
  BY <1>4, <1>5, <1>6, <1>8, <1>9, <1>10 DEF Parts

(* The deletion of a claim: it is one that a pod of the cluster uses.      *)
LEMMA DeleteClaimKeeps ==
    ASSUME KubeType, PassType, CopyType, Parts, [Next]_vars, NEW n \in Names, DeleteClaim(n)
    PROVE  Parts'
<1>1. /\ UNCHANGED <<phase, pods, claims, volume, seen, result, copy, stage, stateMap, failed, lost>>
      /\ unclaimed' = unclaimed \cup {n} /\ n \in todo.unclaim
      /\ todo' = [todo EXCEPT !.unclaim = @ \ {n}]
  BY DEF DeleteClaim, goroutines, server, history
<1>2. SafeGrows /\ Started' = Started
  BY <1>1 DEF SafeGrows, Safe, Started
<1>3. /\ todo'.unclaim \subseteq todo.unclaim /\ todo'.delete = todo.delete
      /\ todo'.restore = todo.restore /\ todo'.found = todo.found /\ todo'.copy = todo.copy
      /\ todo # NoCalls
  BY <1>1 DEF PassType, Calls, NoCalls
<1>4. CopiesTell'
  BY <1>1, <1>2, CopiesTellNext DEF Parts, CopiesTell
<1>5. ClaimsFit' /\ GoneIsSafe'
  BY <1>1, <1>2 DEF Parts, ClaimsFit, GoneIsSafe, SafeGrows
<1>6. CallsFit'
  BY <1>1, <1>2, <1>3 DEF Parts, CallsFit, Idle, Creates, SafeGrows, Safe
<1>7. FoundersKept'
  BY <1>1, <1>3 DEF Parts, FoundersKept
<1>8. StartedFirst'
  BY <1>1, <1>2, <1>3 DEF Parts, StartedFirst, Begun, CachedPhase
<1>9. AllListed' /\ AllSafe'
  BY <1>1, <1>2, <1>3 DEF Parts, AllListed, AllSafe, Begun, CachedPods, Founder, SafeGrows, KubeType
<1> QED
  BY <1>4, <1>5, <1>6, <1>7, <1>8, <1>9 DEF Parts

(* The deletion of a pod, when it is none of the cluster.                  *)
LEMMA DeletePodKeeps ==
    ASSUME KubeType, PassType, CopyType, Parts, [Next]_vars, NEW n \in Names, DeletePod(n), ~unmade',
           UNCHANGED <<phase, claims, unclaimed, volume, seen, result, stage, server, failed, lost>>,
           todo' = [todo EXCEPT !.delete = todo'.delete], todo'.delete \subseteq todo.delete,
           todo' # todo => ~Idle, Safe(n)
    PROVE  Parts'
<1>1. /\ pods' = [pods EXCEPT ![n] = Deleted(pods[n])] /\ pods[n] \notin {"cluster", "leaving"}
  BY DEF DeletePod, Parts, FoundersKept
<1>2. SafeGrows /\ Started' = Started /\ Safe(n)'
  BY DEF SafeGrows, Safe, Started
<1>3. CopiesTell'
  BY <1>2, CopiesTellNext DEF Parts, CopiesTell, server
<1>4. CASE pods[n] # "none"
  <2>1. Deleted(pods[n]) \in {"stopping", "terminating"}
    BY <1>1, <1>4 DEF Deleted, KubeType, PodStates
  <2>2. Others'
    BY <1>1, <1>2, <1>4, <2>1, PodChanged
  <2> QED
    BY <1>3, <2>2 DEF Others, Parts
<1>5. CASE pods[n] = "none"
  <2>1. pods' = pods
    BY <1>1, <1>5 DEF Deleted, KubeType
  <2>2. /\ todo'.unclaim = todo.unclaim /\ todo'.copy = todo.copy
        /\ todo'.restore = todo.restore /\ todo'.found = todo.found
        /\ todo.delete \subseteq Names
    BY DEF PassType, Calls
  <2>3. ClaimsFit' /\ FoundersKept' /\ GoneIsSafe'
    BY <1>2, <2>1, <2>2 DEF Parts, ClaimsFit, FoundersKept, GoneIsSafe, SafeGrows
  <2>4. CallsFit'
    BY <1>2, <2>2 DEF Parts, CallsFit, Creates, Idle, SafeGrows
  <2>5. StartedFirst'
    BY <1>2, <2>2 DEF Parts, StartedFirst, Begun, CachedPhase
  <2>6. AllListed' /\ AllSafe'
    BY <1>2, <2>1, <2>2 DEF Parts, AllListed, AllSafe, Begun, CachedPods, Founder, SafeGrows, KubeType
  <2> QED
    BY <1>3, <2>3, <2>4, <2>5, <2>6 DEF Parts
<1> QED
  BY <1>4, <1>5

(* The creation of a claim: there were too few.                            *)
LEMMA CreateClaimKeeps ==
    ASSUME KubeType, PassType, CopyType, Parts, [Next]_vars, NEW n \in Names, CreateClaim(n)
    PROVE  Parts'
<1>1. /\ UNCHANGED <<phase, pods, unclaimed, volume, seen, todo, result, copy, stage, stateMap,
                     failed, lost>>
      /\ claims' = claims \cup {n} /\ n \in Creates /\ n \notin claims
  BY DEF CreateClaim, goroutines, server, history, pass, Creates
<1>2. SafeGrows /\ Started' = Started
  BY <1>1 DEF SafeGrows, Safe, Started
<1>3. /\ n \in todo.restore /\ todo.found = {} /\ todo.copy = {}
      /\ Cardinality(claims) < Replicas /\ todo.delete = {} /\ \A m \in todo.restore : m = n
  BY <1>1 DEF Parts, CallsFit, Creates
<1>4. IsFiniteSet(claims') /\ Cardinality(claims') = Cardinality(claims) + 1
  BY <1>1, FS_AddElement DEF Parts, ClaimsFit
<1>5. Cardinality(claims) \in Nat
  BY FS_CardinalityType DEF Parts, ClaimsFit
<1>6. Started = {} /\ ~Begun
  BY <1>3, <1>5, Bounds DEF Parts, AllListed, Begun
<1>7. CopiesTell'
  BY <1>1, <1>2, CopiesTellNext DEF Parts, CopiesTell
<1>8. ClaimsFit'
  BY <1>1, <1>3, <1>4, <1>5, Bounds DEF Parts, ClaimsFit
<1>9. CallsFit'
  BY <1>1, <1>3 DEF Parts, CallsFit, Creates, Idle
<1>10. FoundersKept' /\ GoneIsSafe' /\ StartedFirst'
  BY <1>1, <1>2 DEF Parts, FoundersKept, GoneIsSafe, StartedFirst, Begun, CachedPhase, SafeGrows
<1>11. AllListed' /\ AllSafe'
  BY <1>1, <1>2, <1>6 DEF Parts, AllListed, AllSafe, Begun, Founder
<1> QED
  BY <1>7, <1>8, <1>9, <1>10, <1>11 DEF Parts

(* The creation of a pod: when it is the first of the cluster all copies   *)
(* are whole, failed or lost.                                              *)
LEMMA CreatePodKeeps ==
    ASSUME KubeType, PassType, CopyType, Parts, [Next]_vars, NEW n \in Names, CreatePod(n)
    PROVE  Parts'
<1>1. /\ UNCHANGED <<phase, claims, unclaimed, volume, seen, result, stage, stateMap, failed, lost>>
      /\ n \in Creates /\ n \in claims /\ pods[n] = "none"
      /\ todo' = [todo EXCEPT !.restore = {}, !.found = {}]
      /\ pods' = [pods EXCEPT ![n] = IF n \in todo.restore THEN "starting" ELSE "cluster"]
  BY DEF CreatePod, server, Creates
<1>2. SafeGrows /\ Started' = Started
  BY <1>1 DEF SafeGrows, Safe, Started
<1>3. /\ todo'.unclaim = todo.unclaim /\ todo'.delete = todo.delete /\ todo'.copy = todo.copy
      /\ todo'.restore = {} /\ todo'.found = {}
      /\ todo # NoCalls /\ claims \subseteq Names
      /\ pods'[n] \in {"starting", "cluster"} /\ \A m \in Names : m # n => pods'[m] = pods[m]
      /\ pods'[n] = "cluster" => n \in todo.found
  BY <1>1 DEF PassType, Calls, NoCalls, KubeType, Creates
<1>4. CopiesTell'
  BY <1>1, <1>2, CopiesTellNext DEF Parts, CopiesTell
<1>5. ClaimsFit'
  BY <1>1, <1>3 DEF Parts, ClaimsFit
<1>6. CallsFit'
  BY <1>1, <1>2, <1>3 DEF Parts, CallsFit, Idle, Creates, Safe
<1>7. FoundersKept'
  BY <1>1, <1>3 DEF Parts, FoundersKept, PassType, Calls, KubeType
<1>8. GoneIsSafe'
  BY <1>1, <1>2, <1>3 DEF Parts, GoneIsSafe, SafeGrows
<1>9. StartedFirst'
  BY <1>1, <1>2, <1>3 DEF Parts, StartedFirst, Begun, CachedPhase
<1>10. AllListed'
  BY <1>1, <1>2, <1>3 DEF Parts, AllListed, Begun, CachedPods, SafeGrows
<1>11. AllSafe'
  <2>1. pods'[n] = "cluster" => result \in Rest
    BY <1>3 DEF Parts, CallsFit
  <2>2. Founder' # {} => Founder # {} \/ result \in Rest
    BY <1>3, <2>1 DEF Founder
  <2> QED
    BY <1>1, <1>2, <1>3, <2>2 DEF Parts, AllSafe, SafeGrows
<1> QED
  BY <1>4, <1>5, <1>6, <1>7, <1>8, <1>9, <1>10, <1>11 DEF Parts

(* The start of the goroutine.                                             *)
LEMMA HandleKeeps ==
    ASSUME KubeType, PassType, CopyType, Parts, [Next]_vars, NEW h \in Handlers,
           HandleGaleraRestore(h)
    PROVE  Parts'
<1>1. /\ UNCHANGED <<phase, pods, claims, unclaimed, volume, seen, result, stateMap, failed, lost>>
      /\ todo = [NoCalls EXCEPT !.copy = todo.copy] /\ todo # NoCalls /\ todo' = NoCalls
      /\ stage' = [stage EXCEPT ![h] = "copying"]
  BY DEF HandleGaleraRestore, kube, server, history
<1>2. SafeGrows /\ Started' # {}
  BY <1>1 DEF SafeGrows, Safe, Started, CopyType
<1>3. /\ Begun /\ todo.unclaim = {} /\ todo'.unclaim = {} /\ todo'.copy = {}
      /\ todo'.restore = {} /\ todo'.found = {} /\ todo'.delete = {}
  <2>1. todo.copy # {}
    <3> SUFFICES ASSUME todo.copy = {} PROVE FALSE
      OBVIOUS
    <3>1. todo = [NoCalls EXCEPT !.copy = {}]
      BY <1>1
    <3>2. todo = NoCalls
      BY <3>1 DEF NoCalls
    <3> QED
      BY <1>1, <3>2
  <2>2. todo.unclaim = NoCalls.unclaim
    BY <1>1 DEF NoCalls
  <2> QED
    BY <1>1, <2>1, <2>2 DEF Begun, NoCalls
<1>4. CopiesTell'
  BY <1>1, <1>2, CopiesTellNext DEF Parts, CopiesTell
<1>5. ClaimsFit' /\ GoneIsSafe'
  BY <1>1, <1>2 DEF Parts, ClaimsFit, GoneIsSafe, SafeGrows
<1>6. CallsFit' /\ FoundersKept'
  BY <1>1, <1>3 DEF Parts, CallsFit, FoundersKept, Idle, Creates
<1>7. StartedFirst'
  BY <1>1, <1>2, <1>3 DEF Parts, StartedFirst, Begun, CachedPhase
<1>8. AllListed' /\ AllSafe'
  BY <1>1, <1>2, <1>3 DEF Parts, AllListed, AllSafe, CachedPods, Founder, SafeGrows, KubeType
<1> QED
  BY <1>4, <1>5, <1>6, <1>7, <1>8 DEF Parts

(* Fresh caches, after a while or after a restart of the operator.         *)
LEMMA CatchUpKeeps ==
    ASSUME KubeType, PassType, CopyType, Parts, [Next]_vars,
           OperatorRestarts \/ \E i \in Lagging : InformerCatchesUp(i)
    PROVE  Parts'
<1>1. /\ UNCHANGED <<phase, pods, claims, unclaimed, volume, stateMap, failed, lost>>
      /\ Started' = Started
      /\ todo' \in {todo, NoCalls} /\ result' \in {result, NoResult}
      /\ result' = NoResult => todo' = NoCalls
  <2>1. CASE OperatorRestarts
    BY <2>1 DEF OperatorRestarts, kube, server, Started, CopyType
  <2>2. CASE \E i \in Lagging : InformerCatchesUp(i)
    BY <2>2 DEF InformerCatchesUp, kube, server, goroutines, pass, history, Started, Parts, CallsFit,
      Idle
  <2> QED
    BY <2>1, <2>2
<1>2. /\ seen'.pods = seen.pods \/ ("pods" \in Lagging /\ seen'.pods = pods)
      /\ seen'.phase = seen.phase \/ ("galera" \in Lagging /\ seen'.phase = phase)
  BY RestoreAssumption DEF OperatorRestarts, InformerCatchesUp, KubeType
<1>3. SafeGrows
  BY <1>1 DEF SafeGrows, Safe
<1>4. /\ Begun' => Begun
      /\ todo'.unclaim \subseteq todo.unclaim
  BY <1>1 DEF Begun, NoCalls
<1>5. CopiesTell'
  BY <1>1, <1>3, CopiesTellNext DEF Parts, CopiesTell
<1>6. ClaimsFit' /\ FoundersKept'
  BY <1>1, <1>2, <1>4 DEF Parts, ClaimsFit, FoundersKept
<1>7. GoneIsSafe'
  BY <1>1, <1>2, <1>3 DEF Parts, GoneIsSafe, SafeGrows
<1>8. CallsFit'
  <2>1. CASE todo' = NoCalls
    BY <1>1, <2>1 DEF CallsFit, NoCalls, Creates
  <2>2. CASE todo' = todo /\ result' = result
    BY <1>1, <1>3, <2>2 DEF Parts, CallsFit, Creates, Idle, SafeGrows, Safe
  <2> QED
    BY <1>1, <2>1, <2>2
<1>9. StartedFirst'
  <2>1. CachedPhase' = "None" => CachedPhase = "None"
    BY <1>1, <1>2 DEF CachedPhase, Parts, StartedFirst
  <2>2. result' \in Past => Begun'
    BY <1>1 DEF Parts, StartedFirst, Begun, NoResult, Past, OperatorRestarts, InformerCatchesUp, pass
  <2> QED
    BY <1>1, <1>2, <1>4, <2>1, <2>2 DEF Parts, StartedFirst, NoResult
<1>10. AllListed'
  BY <1>1, <1>2, <1>3, <1>4 DEF Parts, AllListed, CachedPods, SafeGrows, KubeType
<1>11. AllSafe'
  BY <1>1, <1>2, <1>3 DEF Parts, AllSafe, Founder, SafeGrows, KubeType, NoResult, Rest
<1> QED
  BY <1>5, <1>6, <1>7, <1>8, <1>9, <1>10, <1>11 DEF Parts

(* The goroutines, and the API servers they talk to.                       *)
LEMMA CopierKeeps ==
    ASSUME KubeType, PassType, CopyType, ServerType, Parts, [Next]_vars, ~unmade',
           NEW h \in Handlers, NEW n \in Names,
           \/ AllCopied(h) \/ Copier(h, n) \/ RetrieveRefused(h, n) \/ HandlerDeleteFails(h, n)
           \/ UnTarEnds(n) \/ UnTarFails(n)
    PROVE  Parts'
<1>1. CASE HandlerDeletes(h, n)
  <2>1. Safe(n)
    BY <1>1 DEF HandlerDeletes, Parts, CopiesTell
  <2>2. todo' = todo /\ todo = [todo EXCEPT !.delete = todo.delete]
    BY <1>1 DEF HandlerDeletes, pass, PassType, Calls
  <2>3. UNCHANGED <<phase, claims, unclaimed, volume, seen, result, stage, server, failed, lost>>
    BY <1>1 DEF HandlerDeletes, pass
  <2>4. CASE DeletePod(n)
    BY <2>1, <2>2, <2>3, <2>4, DeletePodKeeps
  <2>5. CASE UNCHANGED pods
    <3>1. SafeGrows /\ Started' = Started
      BY <2>3 DEF SafeGrows, Safe, Started
    <3> QED
      BY <2>2, <2>3, <2>5, <3>1, OthersKept, CopiesTellNext DEF Others, Parts, CopiesTell, server
  <2> QED
    BY <1>1, <2>4, <2>5 DEF HandlerDeletes
<1>2. CASE ~HandlerDeletes(h, n)
  <2>1. /\ UNCHANGED <<phase, pods, claims, unclaimed, seen, todo, result>> /\ Started' = Started
        /\ SafeGrows /\ \A m \in Names : stateMap'[m] = "completed" => volume'[m] = "whole"
    <3>1. CASE AllCopied(h)
      <4>1. unclaimed' = unclaimed
        BY <3>1, NoneOfFailed DEF AllCopied
      <4> QED
        BY <3>1, <4>1 DEF AllCopied, pass, server, history, Started, CopyType, SafeGrows, Safe, Parts,
          CopiesTell
    <3>2. CASE RetrieveChecks(h, n) \/ RetrieveUnanswered(h, n) \/ RetrievePolls(h, n)
      BY <3>2 DEF RetrieveChecks, RetrieveUnanswered, RetrievePolls, Becomes, kube, pass, server,
        Started, SafeGrows, Safe, Parts, CopiesTell
    <3>3. CASE RetrieveRequests(h, n)
      BY <3>3 DEF RetrieveRequests, pass, history, Started, SafeGrows, Safe, Parts, CopiesTell,
        KubeType, ServerType
    <3>4. CASE RetrieveRefused(h, n) \/ HandlerDeleteFails(h, n)
      BY <3>4 DEF RetrieveRefused, HandlerDeleteFails, kube, pass, server, history, Started,
        SafeGrows, Safe, Parts, CopiesTell, ServerType
    <3>5. CASE UnTarEnds(n) \/ UnTarFails(n)
      BY <3>5 DEF UnTarEnds, UnTarFails, goroutines, kube, pass, history, Started, SafeGrows, Safe,
        Parts, CopiesTell, KubeType, ServerType
    <3> QED
      BY <1>2, <3>1, <3>2, <3>3, <3>4, <3>5 DEF Copier
  <2> QED
    BY <2>1, OthersKept, CopiesTellNext DEF Others, Parts
<1> QED
  BY <1>1, <1>2

(* Kubernetes.  No claim is removed, as the pod that uses it stays.        *)
LEMMA KubeletKeeps ==
    ASSUME KubeType, PassType, CopyType, ServerType, Parts, [Next]_vars, NEW n \in Names,
           Kubelet(n) \/ PodIsLost(n)
    PROVE  Parts'
<1>1. ~ClaimIsGone(n)
  BY DEF ClaimIsGone, Parts, FoundersKept
<1>2. PICK s \in {"ready", "failed", "stopping", "terminating", "none"} :
         /\ pods' = [pods EXCEPT ![n] = s]
         /\ s = "ready" \/ Safe(n) \/ n \in lost'
         /\ s = "failed" => n \in lost'
  <2>1. CASE PodStarts(n)
    BY <2>1 DEF PodStarts
  <2>2. CASE PodStops(n) \/ PodIsGone(n)
    BY <2>2 DEF PodStops, PodIsGone, ServerStops, Parts, FoundersKept, GoneIsSafe
  <2>3. CASE PodIsLost(n)
    <3>1. Deleted(pods[n]) \in {"stopping", "terminating"} /\ n \in lost'
      BY <2>3 DEF PodIsLost, Deleted
    <3> QED
      BY <2>3, <3>1 DEF PodIsLost, ServerStops
  <2> QED
    BY <1>1, <2>1, <2>2, <2>3 DEF Kubelet
<1>3. /\ UNCHANGED <<phase, claims, unclaimed, volume, seen, todo, result, stage, failed>>
      /\ lost \subseteq lost' /\ pods[n] \notin {"none", "cluster"}
      /\ \A m \in Names : stateMap'[m] = "completed" => stateMap[m] = "completed"
  <2>1. CASE PodStarts(n)
    BY <2>1 DEF PodStarts, goroutines, pass, history, server
  <2>2. CASE PodStops(n) \/ PodIsGone(n)
    BY <2>2 DEF PodStops, PodIsGone, ServerStops, goroutines, pass, history, ServerType
  <2>3. CASE PodIsLost(n)
    BY <2>3 DEF PodIsLost, ServerStops, goroutines, pass, server, ServerType
  <2> QED
    BY <1>1, <2>1, <2>2, <2>3 DEF Kubelet
<1>4. SafeGrows /\ Started' = Started /\ (n \in lost' => Safe(n)')
  BY <1>3 DEF SafeGrows, Safe, Started
<1>5. CopiesTell'
  BY <1>3, <1>4, CopiesTellNext DEF Parts, CopiesTell
<1>6. todo' = [todo EXCEPT !.delete = todo'.delete] /\ todo'.delete \subseteq todo.delete
  BY <1>3 DEF PassType, Calls
<1>7. s # "ready" => Safe(n)'
  BY <1>2, <1>4 DEF SafeGrows
<1>8. Others'
  BY <1>2, <1>3, <1>4, <1>6, <1>7, PodChanged
<1> QED
  BY <1>5, <1>8 DEF Others, Parts

(* Every step keeps the invariant.                                         *)
LEMMA PartsNext ==
    ASSUME KubeType, PassType, CopyType, ServerType, RestoreInv, Replicas > 1, [Next]_vars
    PROVE  RestoreInv'
<1> SUFFICES ASSUME ~unmade' PROVE Parts'
  BY DEF RestoreInv
<1>1. Parts
  <2>1. ~unmade
    <3>1. CASE \E n \in Names : DeletePod(n)
      BY <3>1 DEF DeletePod
    <3>2. CASE UNCHANGED unmade
      BY <3>2
    <3>3. CASE Pass
      BY <3>2, <3>3, PassDecides DEF Decides, history
    <3>4. CASE Call \/ CallFails \/ OperatorRestarts \/ \E i \in Lagging : InformerCatchesUp(i)
      BY <3>1, <3>2, <3>4 DEF Call, UpdateStatus, CallRefused, Abandons, DeleteClaim, ForceDeletePod,
        CreateClaim, CreatePod, HandleGaleraRestore, CallFails, OperatorRestarts, InformerCatchesUp,
        history
    <3>5. ASSUME NEW h \in Handlers, NEW n \in Names,
                 Copier(h, n) \/ RetrieveRefused(h, n) \/ HandlerDeleteFails(h, n)
          PROVE  ~unmade
      BY <3>1, <3>2, <3>5 DEF Copier, RetrieveChecks, RetrieveRequests, RetrieveUnanswered,
        RetrievePolls, HandlerDeletes, RetrieveRefused, HandlerDeleteFails, Becomes, history
    <3>6. ASSUME NEW n \in Names, Kubelet(n) \/ UnTarEnds(n) \/ UnTarFails(n) \/ PodIsLost(n)
          PROVE  UNCHANGED unmade
      BY <3>6 DEF Kubelet, PodStarts, PodStops, PodIsGone, ClaimIsGone, UnTarEnds, UnTarFails,
        PodIsLost, history
    <3>7. CASE UNCHANGED vars \/ \E h \in Handlers : AllCopied(h)
      BY <3>2, <3>7 DEF vars, history, AllCopied
    <3> QED
      BY <3>2, <3>3, <3>4, <3>5, <3>6, <3>7 DEF Next
  <2> QED
    BY <2>1 DEF RestoreInv
<1>2. CASE Pass
  BY <1>1, <1>2, PassKeeps
<1>3. CASE UpdateStatus \/ CallRefused \/ CallFails
  BY <1>1, <1>3, EndKeeps
<1>4. ASSUME NEW n \in Names, ForceDeletePod(n) PROVE Parts'
  <2>1. /\ n \in todo.delete /\ DeletePod(n) /\ todo' = [todo EXCEPT !.delete = @ \ {n}]
        /\ UNCHANGED <<phase, claims, unclaimed, volume, seen, result, stage, server, failed, lost>>
    BY <1>4 DEF ForceDeletePod, goroutines
  <2>2. Safe(n) /\ ~Idle
    BY <1>1, <2>1 DEF Parts, CallsFit, NoCalls
  <2>3. todo' = [todo EXCEPT !.delete = todo'.delete] /\ todo'.delete \subseteq todo.delete
    BY <2>1 DEF PassType, Calls
  <2> QED
    BY <1>1, <2>1, <2>2, <2>3, DeletePodKeeps
<1>5. ASSUME NEW n \in Names, DeleteClaim(n) \/ CreateClaim(n) \/ CreatePod(n) PROVE Parts'
  BY <1>1, <1>5, DeleteClaimKeeps, CreateClaimKeeps, CreatePodKeeps
<1>6. ASSUME NEW h \in Handlers, HandleGaleraRestore(h) PROVE Parts'
  BY <1>1, <1>6, HandleKeeps
<1>7. CASE OperatorRestarts \/ \E i \in Lagging : InformerCatchesUp(i)
  BY <1>1, <1>7, CatchUpKeeps
<1>8. ASSUME NEW h \in Handlers, AllCopied(h) PROVE Parts'
  <2>1. CASE Names # {}
    BY <1>1, <1>8, <2>1, CopierKeeps
  <2>2. CASE Names = {}
    <3>1. /\ UNCHANGED <<phase, pods, claims, seen, todo, result>> /\ unclaimed' = unclaimed
          /\ Started' = Started /\ SafeGrows
      BY <1>8, NoneOfFailed DEF AllCopied, pass, history, Started, CopyType, SafeGrows, Safe
    <3> QED
      BY <1>1, <2>2, <3>1, OthersKept DEF Others, Parts, CopiesTell
  <2> QED
    BY <2>1, <2>2
<1>9. ASSUME NEW h \in Handlers, NEW n \in Names,
             Copier(h, n) \/ RetrieveRefused(h, n) \/ HandlerDeleteFails(h, n)
      PROVE  Parts'
  BY <1>1, <1>9, CopierKeeps
<1>10. ASSUME NEW n \in Names, UnTarEnds(n) \/ UnTarFails(n) PROVE Parts'
  <2>1. /\ UNCHANGED <<phase, pods, claims, unclaimed, seen, todo, result>> /\ Started' = Started
        /\ SafeGrows /\ \A m \in Names : stateMap'[m] = "completed" => volume'[m] = "whole"
    BY <1>1, <1>10 DEF UnTarEnds, UnTarFails, goroutines, kube, pass, history, Started, SafeGrows,
      Safe, Parts, CopiesTell, KubeType, ServerType
  <2> QED
    BY <1>1, <2>1, OthersKept, CopiesTellNext DEF Others, Parts
<1>11. ASSUME NEW n \in Names, Kubelet(n) \/ PodIsLost(n) PROVE Parts'
  BY <1>1, <1>11, KubeletKeeps
<1>12. CASE UNCHANGED vars
  <2>1. /\ UNCHANGED <<phase, pods, claims, unclaimed, seen, todo, result>> /\ Started' = Started
        /\ SafeGrows /\ CopiesTell'
    BY <1>1, <1>12 DEF vars, kube, pass, goroutines, server, history, Started, SafeGrows, Safe, Parts,
      CopiesTell
  <2> QED
    BY <1>1, <2>1, OthersKept DEF Others, Parts
<1> QED
  BY <1>2, <1>3, <1>4, <1>5, <1>6, <1>7, <1>8, <1>9, <1>10, <1>11, <1>12 DEF Next, Call

(* The invariant holds all the time.                                       *)
LEMMA Restored == ASSUME Replicas > 1 PROVE Spec => []RestoreInv
<1>1. Init => RestoreInv
  <2> SUFFICES ASSUME Init PROVE Parts
    BY DEF RestoreInv
  <2>1. /\ claims = {} /\ unclaimed = {} /\ Started = {} /\ Founder = {} /\ todo = NoCalls
        /\ phase = "None" /\ result = NoResult /\ seen.phase = "None"
        /\ \A n \in Names : pods[n] = "none" /\ seen.pods[n] = "none" /\ stateMap[n] = "unknown"
        /\ \A h \in Handlers, n \in Names : copy[h][n] = "none"
    BY DEF Init, Started, Founder
  <2>2. ClaimsFit
    <3>1. IsFiniteSet(claims) /\ Cardinality(claims) = 0
      BY <2>1, FS_EmptySet
    <3> QED
      BY <2>1, <3>1, Bounds DEF ClaimsFit
  <2>3. CallsFit /\ FoundersKept
    BY <2>1 DEF CallsFit, FoundersKept, NoCalls, Creates
  <2>4. CopiesTell /\ GoneIsSafe
    BY <2>1 DEF CopiesTell, GoneIsSafe
  <2>5. ~Begun
    BY <2>1 DEF Begun, NoCalls
  <2>6. StartedFirst /\ AllListed /\ AllSafe
    BY <2>1, <2>5 DEF StartedFirst, AllListed, AllSafe, NoResult, Past, Rest
  <2> QED
    BY <2>2, <2>3, <2>4, <2>6 DEF Parts
<1>2. KubeType /\ PassType /\ CopyType /\ ServerType /\ RestoreInv /\ [Next]_vars => RestoreInv'
  BY PartsNext
<1> QED
  BY <1>1, <1>2, WellTyped, PTL DEF Spec

(* A cluster that is restored to two nodes or more is founded on whole     *)
(* copies, except for those reported failed and those whose pod was lost:  *)
(* neither a second goroutine, nor a crash, nor old caches of the phase or *)
(* of the pods lead to a cluster on volumes that are still being filled    *)
(* (SyncCopying, HandleGaleraRestore), until a pod of the cluster itself   *)
(* is deleted.  With a single replica the first pod may get a fresh claim, *)
(* when a restore pod was created again on the only one.                   *)
THEOREM FoundedOnCopies == ASSUME Replicas > 1 PROVE Spec => []OnlyLostCopiesAreMissing
<1>1. RestoreInv => OnlyLostCopiesAreMissing
  BY DEF RestoreInv, Parts, AllSafe, OnlyLostCopiesAreMissing, Safe
<1> QED
  BY <1>1, Restored, PTL

-----------------------------------------------------------------------------
(* The pods of the cluster are spared                                      *)

(* One goroutine, no lost pod, and no restore begun again.                 *)
Alone == Cardinality(Started) <= 1 /\ lost = {} /\ ~again

(* No claim is to be deleted.                                              *)
Claimed == ~unmade /\ unclaimed = {} /\ todo.unclaim = {}

(* What the goroutine still has to copy or to delete is a restore pod, and *)
(* every cache shows it.                                                   *)
Held ==
    \A h \in Handlers, n \in Names :
        stage[h] \in {"copying", "deleting"} /\ copy[h][n] # "none" =>
            pods[n] = "ready" /\ CachedPods[n] = "ready" /\ n \notin todo.delete

(* Before there is a goroutine no pod is deleted.                          *)
Undisturbed ==
    Started = {} =>
        /\ todo.delete = {}
        /\ \A n \in Names :
              /\ pods[n] \in {"none", "starting", "ready"}
              /\ seen.pods[n] \in {"none", "starting", "ready"}
              /\ seen.pods[n] = "ready" => pods[n] = "ready"
        /\ \A n \in todo.copy : pods[n] = "ready" /\ CachedPods[n] = "ready"

Unfounded == \A n \in todo.delete : pods[n] # "cluster"

(* The phases go forward: in and after Restoring there is no restore pod,  *)
(* and a pass on an old phase creates one first, as the founded cluster    *)
(* is seen by no pass on an old phase.                                     *)
Forward ==
    /\ seen.phase \in Rest => phase \in Rest
    /\ phase \in Rest \/ result \in Rest =>
          \A n \in Names : pods[n] \in {"none", "cluster"} /\ CachedPods[n] \in {"none", "cluster"}
    /\ phase \in Rest /\ result \notin Rest \cup {NoResult} => todo.restore # {}
    /\ Founder # {} \/ todo.found # {} => CachedPhase \in Rest /\ result \in Rest \cup {NoResult}
    /\ Begun => \A n \in Names : CachedPods[n] = "none" => pods[n] \in {"none", "cluster"}

Spared == Claimed /\ Held /\ Undisturbed /\ Unfounded /\ Forward

(* The goroutines can be counted.                                          *)
LEMMA StartedFinite == IsFiniteSet(Started)
<1>1. Started \subseteq 1..MaxHandlers
  BY DEF Started, Handlers
<1>2. IsFiniteSet(1..MaxHandlers)
  BY Bounds, FS_Interval
<1> QED
  BY <1>1, <1>2, FS_Subset

(* While there is one goroutine at most, one that starts is the first.     *)
LEMMA FirstStarted ==
    ASSUME KubeType, CopyType, CopyType', [Next]_vars, Cardinality(Started') <= 1
    PROVE  /\ Cardinality(Started) <= 1
           /\ \A h \in Handlers : stage[h] = "free" /\ stage'[h] # "free" => Started = {}
<1>1. Started \subseteq Started'
  BY AskedGrows
<1>2. IsFiniteSet(Started) /\ IsFiniteSet(Started)'
  BY StartedFinite, PTL
<1>3. /\ Cardinality(Started) \in Nat /\ Cardinality(Started') \in Nat
      /\ Cardinality(Started) <= Cardinality(Started')
  BY <1>1, <1>2, FS_Subset, FS_CardinalityType
<1>4. ASSUME NEW h \in Handlers, stage[h] = "free", stage'[h] # "free" PROVE Started = {}
  <2>1. h \in Started' /\ h \notin Started
    BY <1>4 DEF Started
  <2>2. Cardinality(Started') = 1
    BY <1>2, <1>3, <2>1, FS_EmptySet
  <2>3. Started' = {h}
    BY <1>2, <2>1, <2>2, FS_Singleton
  <2> QED
    BY <1>1, <2>1, <2>3
<1> QED
  BY <1>3, <1>4

(* There are no two of them.                                               *)
LEMMA OneStarted ==
    ASSUME Cardinality(Started) <= 1, NEW g \in Started, NEW h \in Started
    PROVE  g = h
<1>1. IsFiniteSet(Started) /\ Cardinality(Started) \in Nat
  BY StartedFinite, FS_CardinalityType
<1>2. Cardinality(Started) = 1
  BY <1>1, FS_EmptySet
<1> QED
  BY <1>1, <1>2, FS_Singleton

(* A lost pod stays lost, and a restore begun again stays so.              *)
LEMMA AloneBefore ==
    ASSUME KubeType, CopyType, CopyType', [Next]_vars, Alone'
    PROVE  Alone
<1>1. lost \subseteq lost' /\ (again => again')
  <2>1. CASE UNCHANGED <<lost, again>>
    BY <2>1
  <2>2. CASE Pass
    BY <2>2, PassDecides DEF Decides, history
  <2>3. ASSUME NEW n \in Names, CreatePod(n) PROVE lost' = lost /\ (again => again')
    BY <2>3 DEF CreatePod
  <2>4. CASE Call \/ CallFails \/ OperatorRestarts \/ \E i \in Lagging : InformerCatchesUp(i)
    BY <2>1, <2>3, <2>4 DEF Call, UpdateStatus, CallRefused, Abandons, DeleteClaim, ForceDeletePod,
      CreateClaim, HandleGaleraRestore, CallFails, OperatorRestarts, InformerCatchesUp, history
  <2>5. ASSUME NEW h \in Handlers, NEW n \in Names,
               Copier(h, n) \/ RetrieveRefused(h, n) \/ HandlerDeleteFails(h, n)
        PROVE  UNCHANGED <<lost, again>>
    BY <2>5 DEF Copier, RetrieveChecks, RetrieveRequests, RetrieveUnanswered, RetrievePolls,
      HandlerDeletes, RetrieveRefused, HandlerDeleteFails, Becomes, history
  <2>6. ASSUME NEW n \in Names, Kubelet(n) \/ UnTarEnds(n) \/ UnTarFails(n) \/ PodIsLost(n)
        PROVE  lost \subseteq lost' /\ again' = again
    BY <2>6 DEF Kubelet, PodStarts, PodStops, PodIsGone, ClaimIsGone, UnTarEnds, UnTarFails,
      PodIsLost, history
  <2>7. CASE UNCHANGED vars \/ \E h \in Handlers : AllCopied(h)
    BY <2>1, <2>7 DEF vars, history, AllCopied
  <2> QED
    BY <2>2, <2>4, <2>5, <2>6, <2>7 DEF Next
<1> QED
  BY <1>1, FirstStarted DEF Alone

(* Who deletes a pod of the cluster.                                       *)
LEMMA ClusterSteps ==
    ASSUME KubeType, [Next]_vars, NEW n \in Names, pods[n] = "cluster", pods'[n] # "cluster"
    PROVE  ForceDeletePod(n) \/ \E h \in Handlers : HandlerDeletes(h, n)
<1>1. pods' # pods
  OBVIOUS
<1>2. ~Pass
  BY <1>1, PassDecides DEF Decides, kube
<1>3. ASSUME Call, \A m \in Names : ~ForceDeletePod(m) PROVE FALSE
  <2>1. PICK m \in Names : CreatePod(m)
    BY <1>1, <1>3 DEF Call, UpdateStatus, CallRefused, Abandons, DeleteClaim, CreateClaim,
      HandleGaleraRestore, kube
  <2> QED
    BY <2>1 DEF CreatePod, KubeType
<1>4. ASSUME NEW m \in Names, ForceDeletePod(m) PROVE m = n
  BY <1>4 DEF ForceDeletePod, DeletePod, KubeType
<1>5. ASSUME NEW h \in Handlers, NEW m \in Names,
             Copier(h, m) \/ RetrieveRefused(h, m) \/ HandlerDeleteFails(h, m)
      PROVE  m = n /\ HandlerDeletes(h, m)
  <2>1. HandlerDeletes(h, m)
    BY <1>1, <1>5 DEF Copier, RetrieveChecks, RetrieveRequests, RetrieveUnanswered, RetrievePolls,
      RetrieveRefused, HandlerDeleteFails, Becomes, kube
  <2> QED
    BY <1>1, <2>1 DEF HandlerDeletes, DeletePod, KubeType
<1>6. ASSUME NEW m \in Names, Kubelet(m) \/ UnTarEnds(m) \/ UnTarFails(m) \/ PodIsLost(m)
      PROVE  FALSE
  BY <1>1, <1>6 DEF Kubelet, PodStarts, PodStops, PodIsGone, ClaimIsGone, UnTarEnds, UnTarFails,
    PodIsLost, ServerStops, KubeType, kube
<1>7. /\ ~CallFails /\ ~OperatorRestarts /\ ~UNCHANGED vars
      /\ \A i \in Lagging : ~InformerCatchesUp(i)
      /\ \A h \in Handlers : ~AllCopied(h)
  BY <1>1 DEF CallFails, Abandons, OperatorRestarts, InformerCatchesUp, AllCopied, vars, kube
<1> QED
  BY <1>2, <1>3, <1>4, <1>5, <1>6, <1>7 DEF Next

(* A pass that decides: on an old phase it does not see the cluster.       *)
LEMMA PassSpares ==
    ASSUME KubeType, PassType, Parts, Spared, Replicas > 1, Pass
    PROVE  Spared'
<1>1. /\ UNCHANGED <<phase, kube, seen, goroutines, history>> /\ Idle /\ result' \in Phases
  <2>1. PICK calls \in Calls, p \in Phases \ {"None"} : Decides(calls, p)
    BY PassDecides
  <2> QED
    BY <2>1, PassDecides DEF Decides
<1>2. /\ UNCHANGED <<pods, claims, unclaimed, copy, stage, unmade>>
      /\ Started' = Started /\ CachedPods' = CachedPods /\ CachedPhase' = CachedPhase
      /\ todo = NoCalls /\ unclaimed = {}
  BY <1>1 DEF kube, goroutines, history, Started, CachedPods, CachedPhase, Parts, CallsFit, Spared,
    Claimed
<1>3. CachedPods \in {pods, seen.pods} /\ Listed \subseteq claims /\ claims \subseteq Names
  BY CacheFits DEF Parts
<1>4. Founder # {} => CachedPhase \in Rest
  BY DEF Spared, Forward
<1>5. Founders # {} => Founder # {}
  BY <1>3 DEF Founders, Founder, Listed, Parts, FoundersKept
<1>6. CachedPhase \in Rest => phase \in Rest
  BY DEF CachedPhase, Spared, Forward
<1>7. phase \in Rest /\ Founders = {} => Listed = {}
  BY DEF Spared, Forward, Founders, Listed
<1>8. /\ Claimed' /\ Unfounded' /\ (Started = {} => todo'.delete = {})
      /\ \A n \in todo'.delete : CachedPods[n] # "ready"
      /\ todo'.copy # {} => Ready = claims
      /\ result' \in Rest => CachedPhase \in Rest \/ (CachedPhase = "CopyRestore" /\ Listed = {})
      /\ phase \in Rest /\ result' \notin Rest => todo'.restore # {}
      /\ todo'.found # {} => CachedPhase \in Rest
      /\ CachedPhase \in Rest => result' \in Rest
  <2> DEFINE Fine ==
             /\ todo'.unclaim = {} /\ (\A n \in todo'.delete : pods[n] # "cluster")
             /\ (Started = {} => todo'.delete = {})
             /\ \A n \in todo'.delete : CachedPods[n] # "ready"
             /\ todo'.copy # {} => Ready = claims
             /\ result' \in Rest => CachedPhase \in Rest \/ (CachedPhase = "CopyRestore" /\ Listed = {})
             /\ phase \in Rest /\ result' \notin Rest => todo'.restore # {}
             /\ todo'.found # {} => CachedPhase \in Rest
             /\ CachedPhase \in Rest => result' \in Rest
  <2> SUFFICES Fine
    BY <1>2 DEF Claimed, Unfounded, Spared
  <2>1. CASE SyncNew
    <3>1. CachedPhase = "None" /\ phase \notin Past
      BY <2>1 DEF SyncNew, Parts, StartedFirst, Begun
    <3> QED
      BY <2>1, <3>1 DEF SyncNew, Decides, NoCalls, Past, Rest
  <2>2. CASE Scheduling
    <3>1. CachedPhase = "ScheduleRestore" /\ Founder = {} /\ Founders = {}
      BY <1>4, <1>5, <2>2 DEF Scheduling, Rest
    <3>2. phase \in Rest => Listed = {}
      BY <1>7, <3>1
    <3>3. CASE ScheduleDeletesFailed
      <4>1. PICK n \in Unready : /\ CachedPods[n] \in {"failed", "terminating"}
                                 /\ Decides([NoCalls EXCEPT !.delete = {n}], "ScheduleRestore")
        BY <3>3 DEF ScheduleDeletesFailed
      <4>2. n \in Names /\ n \in Listed /\ pods[n] # "cluster"
        BY <3>1 DEF Unready, Listed, Founder
      <4>3. Started # {}
        BY <1>3, <4>1, <4>2 DEF Spared, Undisturbed
      <4> QED
        BY <3>1, <3>2, <4>1, <4>2, <4>3 DEF Decides, NoCalls, Rest
    <3>4. CASE ScheduleWaits
      BY <3>1, <3>2, <3>4 DEF ScheduleWaits, Unready, Decides, NoCalls, Rest
    <3>5. CASE ScheduleCreates
      BY <3>1, <3>5 DEF ScheduleCreates, Decides, NoCalls, Rest
    <3>6. CASE ScheduleEnds
      <4>1. Cardinality(Ready) >= Replicas
        BY <1>2, <3>6 DEF ScheduleEnds
      <4>2. Unready = {} /\ UnusedClaims = {} /\ Ready = claims /\ Listed = claims
            /\ Cardinality(claims) = Replicas
        BY <4>1, EnoughIsAll DEF Parts
      <4>3. Terminations = {[NoCalls EXCEPT !.delete = {}]}
        BY <4>2 DEF Terminations
      <4>4. \/ Decides([[NoCalls EXCEPT !.delete = {}] EXCEPT !.copy = Listed], "CopyRestore")
            \/ Decides([NoCalls EXCEPT !.delete = {}], "ScheduleRestore")
        BY <1>2, <3>6, <4>3 DEF ScheduleEnds
      <4>5. Listed # {}
        BY <4>2, FS_EmptySet, Bounds
      <4> QED
        BY <3>1, <3>2, <4>2, <4>4, <4>5 DEF Decides, NoCalls, Rest
    <3> QED
      BY <1>1, <2>2, <3>1, <3>3, <3>4, <3>5, <3>6 DEF Pass, Scheduling, ScheduleDeletesFounder,
        SyncNew, SyncCopying, RestoringWaits, RestoringDeletes, RestoringFounds, Restoring, Runs
  <2>3. CASE SyncCopying
    <3>1. CachedPhase = "CopyRestore" /\ Founders = {}
      BY <1>4, <1>5, <2>3 DEF SyncCopying, Rest
    <3> QED
      BY <1>7, <2>3, <3>1 DEF SyncCopying, Decides, NoCalls, Rest
  <2>4. CASE RestoringWaits \/ RestoringDeletes \/ RestoringFounds
    <3>1. CachedPhase = "Restoring" /\ Founders = {} /\ RunPhase \in Rest
      BY <2>4 DEF RestoringWaits, RestoringDeletes, RestoringFounds, Restoring, Runs, RunPhase, Rest
    <3>2. Listed = {}
      BY <1>6, <1>7, <3>1 DEF Rest
    <3>3. ~RestoringDeletes
      BY <3>2 DEF RestoringDeletes, WithoutClaim
    <3>4. CASE RestoringWaits
      BY <3>1, <3>4 DEF RestoringWaits, Decides, NoCalls, Rest
    <3>5. CASE RestoringFounds
      BY <3>1, <3>5 DEF RestoringFounds, Decides, NoCalls, Rest
    <3> QED
      BY <2>4, <3>3, <3>4, <3>5
  <2> QED
    BY <2>1, <2>2, <2>3, <2>4 DEF Pass, ScheduleDeletesFounder, ScheduleDeletesFailed, ScheduleWaits,
      ScheduleCreates, ScheduleEnds, TooFew
<1>9. Held'
  BY <1>2, <1>8 DEF Spared, Held
<1>10. ASSUME todo'.copy # {}
       PROVE  /\ todo'.copy = claims /\ Listed = claims
              /\ Started = {} => \A n \in todo'.copy : pods[n] = "ready" /\ CachedPods[n] = "ready"
  <2>1. todo'.copy = claims /\ Listed = claims
    BY <1>2, <1>10, PassFits DEF CallsFit
  <2>2. ASSUME Started = {}, NEW n \in claims PROVE pods[n] = "ready" /\ CachedPods[n] = "ready"
    <3>1. n \in Names /\ CachedPods[n] \in {"ready", "stopping"}
      BY <1>3, <1>8, <1>10, <2>2 DEF Ready
    <3> QED
      BY <1>3, <2>2, <3>1 DEF Spared, Undisturbed
  <2> QED
    BY <2>1, <2>2
<1>11. Undisturbed'
  BY <1>1, <1>2, <1>8, <1>10 DEF Spared, Undisturbed
<1>12. Forward'
  <2>1. result' \in Rest => \A n \in Names : /\ pods[n] \in {"none", "cluster"}
                                             /\ CachedPods[n] \in {"none", "cluster"}
    <3>1. CASE CachedPhase \in Rest
      BY <1>6, <3>1 DEF Spared, Forward
    <3>2. CASE CachedPhase = "CopyRestore" /\ Listed = {}
      <4>1. Begun
        BY <3>2 DEF CachedPhase, Parts, StartedFirst, Past, Begun
      <4> QED
        BY <3>2, <4>1 DEF Spared, Forward, Listed
    <3> QED
      BY <1>8, <3>1, <3>2
  <2>2. Begun' => \A n \in Names : CachedPods[n] = "none" => pods[n] \in {"none", "cluster"}
    <3>1. CASE Begun
      BY <3>1 DEF Spared, Forward
    <3>2. CASE todo'.copy # {}
      BY <1>10, <3>2 DEF Listed, Parts, ClaimsFit
    <3> QED
      BY <1>2, <3>1, <3>2 DEF Begun
  <2> QED
    BY <1>1, <1>2, <1>4, <1>8, <2>1, <2>2 DEF Spared, Forward, Founder
<1> QED
  BY <1>8, <1>9, <1>11, <1>12 DEF Spared

(* The end of a pass, with its status or without.                          *)
LEMMA EndSpares ==
    ASSUME KubeType, PassType, Parts, Spared, UpdateStatus \/ CallRefused \/ CallFails
    PROVE  Spared'
<1>1. /\ UNCHANGED <<kube, seen, goroutines, history>>
      /\ todo' = NoCalls /\ result' = NoResult
      /\ phase' = phase \/ (phase' = result /\ todo = NoCalls /\ result # NoResult)
  BY DEF UpdateStatus, CallRefused, CallFails, Abandons, Idle
<1>2. /\ UNCHANGED <<pods, unclaimed, copy, stage, unmade>>
      /\ Started' = Started /\ CachedPods' = CachedPods /\ Founder' = Founder
      /\ todo'.unclaim = {} /\ todo'.delete = {} /\ todo'.found = {} /\ todo'.copy = {}
  BY <1>1 DEF kube, goroutines, history, Started, CachedPods, Founder, NoCalls
<1>3. Claimed' /\ Held' /\ Undisturbed' /\ Unfounded'
  BY <1>1, <1>2 DEF Spared, Claimed, Held, Undisturbed, Unfounded
<1>4. Begun' => Begun
  BY <1>2 DEF Begun
<1>5. phase \in Rest => phase' \in Rest
  BY <1>1 DEF Spared, Forward, NoCalls
<1>6. Founder # {} => CachedPhase' \in Rest
  BY <1>1, <1>5 DEF Spared, Forward, CachedPhase
<1>7. Forward'
  BY <1>1, <1>2, <1>4, <1>5, <1>6 DEF Spared, Forward, NoResult, Rest
<1> QED
  BY <1>3, <1>7 DEF Spared

(* A restore pod goes on, or is deleted: it is not of the cluster.         *)
LEMMA ChangeSpares ==
    ASSUME KubeType, PassType, Parts, Spared, Started' = Started,
           UNCHANGED <<phase, unclaimed, seen, result, unmade>>,
           todo' = [todo EXCEPT !.delete = todo'.delete], todo'.delete \subseteq todo.delete,
           NEW n \in Names, pods[n] \notin {"none", "cluster"},
           NEW s \in {"ready", "stopping", "terminating", "none"},
           s # "ready" => Started # {},
           pods' = [pods EXCEPT ![n] = s], Held'
    PROVE  Spared'
<1>1. /\ todo'.unclaim = todo.unclaim /\ todo'.copy = todo.copy
      /\ todo'.restore = todo.restore /\ todo'.found = todo.found
      /\ pods'[n] = s /\ \A m \in Names : m # n => pods'[m] = pods[m]
      /\ CachedPods' = IF "pods" \in Lagging THEN CachedPods ELSE pods'
      /\ todo.delete \subseteq Names /\ todo.copy \subseteq Names
  BY DEF KubeType, PassType, Calls, CachedPods
<1>2. Claimed' /\ Unfounded'
  BY <1>1 DEF Spared, Claimed, Unfounded
<1>3. Undisturbed'
  BY <1>1 DEF Spared, Undisturbed, CachedPods
<1>4. phase \notin Rest /\ result \notin Rest
  BY DEF Spared, Forward
<1>5. Founder' = Founder /\ CachedPhase' = CachedPhase /\ Begun' = Begun
  BY <1>1 DEF Founder, CachedPhase, Begun
<1>6. ASSUME NEW m \in Names, Begun, CachedPods'[m] = "none" PROVE pods'[m] \in {"none", "cluster"}
  BY <1>1, <1>6 DEF Spared, Forward, CachedPods
<1>7. Forward'
  BY <1>1, <1>4, <1>5, <1>6 DEF Spared, Forward
<1> QED
  BY <1>2, <1>3, <1>7 DEF Spared

(* The calls of a pass.                                                    *)
LEMMA CallSpares ==
    ASSUME KubeType, PassType, CopyType, Parts, Spared, Alone', CopyType', [Next]_vars,
           NEW n \in Names,
           DeleteClaim(n) \/ ForceDeletePod(n) \/ CreateClaim(n) \/ CreatePod(n)
    PROVE  Spared'
<1>1. ~DeleteClaim(n)
  BY DEF DeleteClaim, Spared, Claimed
<1>2. CASE CreateClaim(n)
  <2>1. UNCHANGED <<phase, pods, unclaimed, seen, todo, result, copy, stage, unmade>>
    BY <1>2 DEF CreateClaim, pass, goroutines, history
  <2>2. Started' = Started /\ CachedPods' = CachedPods /\ CachedPhase' = CachedPhase
    BY <2>1 DEF Started, CachedPods, CachedPhase
  <2> QED
    BY <2>1, <2>2 DEF Spared, Claimed, Held, Undisturbed, Unfounded, Forward, Founder, Begun
<1>3. CASE ForceDeletePod(n)
  <2>1. /\ UNCHANGED <<phase, unclaimed, seen, result, copy, stage>>
        /\ n \in todo.delete /\ pods[n] # "none" /\ DeletePod(n)
        /\ todo' = [todo EXCEPT !.delete = @ \ {n}]
    BY <1>3 DEF ForceDeletePod, goroutines
  <2>2. pods[n] \notin {"cluster", "leaving", "failed"} /\ Started # {}
    BY <2>1, AloneBefore DEF Spared, Unfounded, Undisturbed, Parts, FoundersKept, GoneIsSafe, Alone
  <2>3. /\ Started' = Started /\ unmade' = unmade
        /\ todo' = [todo EXCEPT !.delete = todo'.delete] /\ todo'.delete \subseteq todo.delete
    BY <2>1, <2>2 DEF Started, DeletePod, PassType, Calls, KubeType
  <2>4. PICK s \in {"stopping", "terminating"} : pods' = [pods EXCEPT ![n] = s]
    BY <2>1, <2>2 DEF DeletePod, Deleted, KubeType, PodStates
  <2>5. Held'
    BY <2>1, <2>3, <2>4 DEF Spared, Held, CachedPods, KubeType
  <2> QED
    BY <2>1, <2>2, <2>3, <2>4, <2>5, ChangeSpares
<1>4. CASE CreatePod(n)
  <2>1. /\ UNCHANGED <<phase, unclaimed, seen, result, stage, unmade>>
        /\ n \in Creates /\ pods[n] = "none"
        /\ todo' = [todo EXCEPT !.restore = {}, !.found = {}]
        /\ pods' = [pods EXCEPT ![n] = IF n \in todo.restore THEN "starting" ELSE "cluster"]
        /\ n \in todo.restore /\ Started # {} => again'
    BY <1>4 DEF CreatePod, Creates
  <2>2. /\ todo.unclaim = {} /\ todo.delete = {} /\ todo.copy = {}
        /\ n \in todo.restore => todo.found = {}
    BY <2>1 DEF Parts, CallsFit
  <2>3. /\ todo'.unclaim = {} /\ todo'.delete = {} /\ todo'.copy = {}
        /\ todo'.restore = {} /\ todo'.found = {}
        /\ pods'[n] = (IF n \in todo.restore THEN "starting" ELSE "cluster")
        /\ \A m \in Names : m # n => pods'[m] = pods[m]
        /\ Started' = Started /\ CachedPhase' = CachedPhase
        /\ CachedPods' = IF "pods" \in Lagging THEN CachedPods ELSE pods'
        /\ n \in todo.restore => Started = {}
        /\ n \notin todo.restore => n \in todo.found
    BY <2>1, <2>2 DEF PassType, Calls, KubeType, Started, CachedPhase, CachedPods, Alone, Creates
  <2>4. Claimed' /\ Unfounded'
    BY <2>1, <2>3 DEF Spared, Claimed, Unfounded
  <2>5. ASSUME NEW h \in Handlers, NEW m \in Names, copy'[h][m] # "none" PROVE copy[h][m] # "none"
    BY <1>4, <2>1, <2>5, CopySteps DEF CopyStep, Retrieves, HandleGaleraRestore, CopyType
  <2>6. Held'
    BY <2>1, <2>3, <2>5 DEF Spared, Held, CachedPods
  <2>7. n \notin todo.restore => result \in Rest /\ Started # {} /\ CachedPhase \in Rest
    BY <2>3 DEF Parts, CallsFit, AllSafe, Spared, Forward
  <2>8. Undisturbed'
    BY <2>1, <2>3, <2>7 DEF Spared, Undisturbed, CachedPods
  <2>9. CASE n \in todo.restore
    <3>1. phase \notin Rest /\ result \notin Rest /\ Founder = {} /\ ~Begun'
      BY <2>3, <2>9 DEF Parts, AllSafe, Begun
    <3>2. Founder' = {}
      BY <2>3, <2>9, <3>1 DEF Founder
    <3> QED
      BY <2>1, <2>3, <2>4, <2>6, <2>8, <3>1, <3>2 DEF Spared, Forward
  <2>10. CASE n \notin todo.restore
    <3>1. \A m \in Names : pods'[m] \in {"none", "cluster"} /\ CachedPods'[m] \in {"none", "cluster"}
      BY <2>3, <2>7, <2>10 DEF Spared, Forward, CachedPods
    <3>2. seen.phase \in Rest => phase \in Rest
      BY DEF Spared, Forward
    <3>3. Forward'
      BY <2>1, <2>3, <2>7, <2>10, <3>1, <3>2 DEF Forward
    <3> QED
      BY <2>4, <2>6, <2>8, <3>3 DEF Spared
  <2> QED
    BY <2>9, <2>10
<1> QED
  BY <1>1, <1>2, <1>3, <1>4

(* The start of the goroutine: it is the first.                            *)
LEMMA HandleSpares ==
    ASSUME KubeType, PassType, CopyType, CopyType', Parts, Spared, Alone', [Next]_vars,
           NEW h \in Handlers, HandleGaleraRestore(h)
    PROVE  Spared'
<1>1. /\ UNCHANGED <<phase, pods, unclaimed, seen, result, unmade>>
      /\ todo = [NoCalls EXCEPT !.copy = todo.copy] /\ todo' = NoCalls /\ todo # NoCalls
      /\ stage[h] = "free" /\ stage' = [stage EXCEPT ![h] = "copying"]
      /\ copy' = [copy EXCEPT ![h] = [n \in Names |-> IF n \in todo.copy THEN "check" ELSE "none"]]
  BY DEF HandleGaleraRestore, kube, history
<1>2. Started = {} /\ Started' # {}
  BY <1>1, FirstStarted DEF Started, CopyType, Alone
<1>3. /\ todo.restore = {} /\ todo.found = {} /\ todo'.unclaim = {} /\ todo'.delete = {}
      /\ todo'.restore = {} /\ todo'.found = {}
  BY <1>1 DEF NoCalls
<1>4. todo.copy # {}
  <2>1. todo.copy = {} => todo = [NoCalls EXCEPT !.copy = {}]
    BY <1>1
  <2>2. NoCalls = [NoCalls EXCEPT !.copy = {}]
    BY DEF NoCalls
  <2> QED
    BY <1>1, <2>1, <2>2
<1>5. CachedPods' = CachedPods /\ CachedPhase' = CachedPhase /\ Founder' = Founder /\ Begun
  BY <1>1, <1>4 DEF CachedPods, CachedPhase, Founder, Begun
<1>6. Held'
  <2>1. ASSUME NEW g \in Handlers, NEW n \in Names,
               stage'[g] \in {"copying", "deleting"}, copy'[g][n] # "none"
        PROVE  n \in todo.copy
    <3>1. g = h
      BY <1>1, <1>2, <2>1 DEF Started, CopyType
    <3> QED
      BY <1>1, <2>1, <3>1 DEF CopyType
  <2> QED
    BY <1>1, <1>2, <1>3, <1>5, <2>1 DEF Spared, Undisturbed, Held
<1>7. Claimed' /\ Unfounded' /\ Undisturbed'
  BY <1>1, <1>2, <1>3 DEF Spared, Claimed, Unfounded, Undisturbed
<1>8. Forward'
  BY <1>1, <1>3, <1>5 DEF Spared, Forward
<1> QED
  BY <1>6, <1>7, <1>8 DEF Spared

(* Fresh caches.                                                           *)
LEMMA CatchUpSpares ==
    ASSUME KubeType, PassType, CopyType, Parts, Spared,
           OperatorRestarts \/ \E i \in Lagging : InformerCatchesUp(i)
    PROVE  Spared'
<1>1. /\ UNCHANGED <<phase, pods, unclaimed, unmade>> /\ Started' = Started
      /\ (todo' = todo /\ result' = result) \/ (todo' = NoCalls /\ result' = NoResult)
      /\ \A h \in Handlers, n \in Names :
            stage'[h] \in {"copying", "deleting"} => stage[h] = stage'[h] /\ copy'[h] = copy[h]
  <2>1. CASE OperatorRestarts
    BY <2>1 DEF OperatorRestarts, kube, Started, CopyType
  <2>2. CASE \E i \in Lagging : InformerCatchesUp(i)
    BY <2>2 DEF InformerCatchesUp, kube, goroutines, pass, history, Started
  <2> QED
    BY <2>1, <2>2
<1>2. /\ seen'.pods = seen.pods \/ ("pods" \in Lagging /\ seen'.pods = pods)
      /\ seen'.phase = seen.phase \/ ("galera" \in Lagging /\ seen'.phase = phase)
  BY RestoreAssumption DEF OperatorRestarts, InformerCatchesUp, KubeType
<1>3. CachedPods' \in {CachedPods, pods} /\ CachedPhase' \in {CachedPhase, phase}
  BY <1>1, <1>2 DEF CachedPods, CachedPhase
<1>4. todo' = todo \/ (/\ todo'.unclaim = {} /\ todo'.delete = {} /\ todo'.found = {}
                       /\ todo'.copy = {} /\ result' = NoResult)
  BY <1>1 DEF NoCalls
<1>5. Claimed' /\ Unfounded'
  BY <1>1, <1>4 DEF Spared, Claimed, Unfounded
<1>6. Held'
  BY <1>1, <1>3, <1>4 DEF Spared, Held
<1>7. Undisturbed'
  BY <1>1, <1>2, <1>3, <1>4 DEF Spared, Undisturbed
<1>8. Founder # {} \/ todo.found # {} => CachedPhase' \in Rest
  BY <1>3 DEF Spared, Forward, CachedPhase
<1>9. (Begun' => Begun) /\ Founder' = Founder
  BY <1>1, <1>4 DEF Begun, Founder
<1>10. Forward'
  <2>1. seen'.phase \in Rest => phase' \in Rest
    BY <1>1, <1>2 DEF Spared, Forward
  <2>2. phase' \in Rest \/ result' \in Rest =>
           \A n \in Names : pods'[n] \in {"none", "cluster"} /\ CachedPods'[n] \in {"none", "cluster"}
    BY <1>1, <1>3 DEF Spared, Forward, NoResult, Rest
  <2>3. phase' \in Rest /\ result' \notin Rest \cup {NoResult} => todo'.restore # {}
    BY <1>1 DEF Spared, Forward
  <2>4. Founder' # {} \/ todo'.found # {} => CachedPhase' \in Rest /\ result' \in Rest \cup {NoResult}
    BY <1>1, <1>4, <1>8, <1>9 DEF Spared, Forward
  <2>5. Begun' => \A n \in Names : CachedPods'[n] = "none" => pods'[n] \in {"none", "cluster"}
    BY <1>1, <1>3, <1>9 DEF Spared, Forward
  <2> QED
    BY <2>1, <2>2, <2>3, <2>4, <2>5 DEF Forward
<1> QED
  BY <1>5, <1>6, <1>7, <1>10 DEF Spared

(* The goroutine deletes a restore pod once.                               *)
LEMMA CopierSpares ==
    ASSUME KubeType, PassType, CopyType, CopyType', Parts, Spared, Alone, [Next]_vars,
           NEW h \in Handlers, NEW n \in Names, HandlerDeletes(h, n)
    PROVE  Spared'
<1>1. /\ UNCHANGED <<phase, unclaimed, seen, todo, result, stage>>
      /\ stage[h] = "deleting" /\ copy[h][n] # "none"
      /\ copy' = [copy EXCEPT ![h][n] = "none"]
  BY DEF HandlerDeletes, pass
<1>2. pods[n] = "ready" /\ CachedPods[n] = "ready" /\ n \notin todo.delete
  BY <1>1 DEF Spared, Held
<1>3. pods' = [pods EXCEPT ![n] = "stopping"] /\ unmade' = unmade
  BY <1>2 DEF HandlerDeletes, DeletePod, Deleted, KubeType
<1>4. /\ Started' = Started /\ h \in Started
      /\ todo' = [todo EXCEPT !.delete = todo'.delete] /\ todo'.delete \subseteq todo.delete
  BY <1>1 DEF Started, PassType, Calls
<1>5. Held'
  <2> SUFFICES ASSUME NEW g \in Handlers, NEW m \in Names,
                      stage'[g] \in {"copying", "deleting"}, copy'[g][m] # "none"
               PROVE  pods'[m] = "ready" /\ CachedPods'[m] = "ready" /\ m \notin todo'.delete
    BY DEF Held
  <2>1. g = h
    BY <1>1, <1>4, OneStarted DEF Started, Alone
  <2>2. m # n /\ copy[g][m] # "none"
    BY <1>1, <2>1 DEF CopyType
  <2> QED
    BY <1>1, <1>3, <2>2 DEF Spared, Held, CachedPods, KubeType
<1> QED
  BY <1>1, <1>2, <1>3, <1>4, <1>5, ChangeSpares

(* What else goroutines and their servers do leaves pods alone.            *)
LEMMA RetrieveSpares ==
    ASSUME KubeType, CopyType, Parts, Spared, Started' = Started, [Next]_vars,
           UNCHANGED <<phase, pods, unclaimed, seen, todo, result, unmade>>,
           \A h \in Handlers, n \in Names : copy'[h][n] # "none" => copy[h][n] # "none",
           \A h \in Handlers : stage'[h] \in {"copying", "deleting"}
                                  => stage[h] \in {"copying", "deleting"}
    PROVE  Spared'
<1>1. CachedPods' = CachedPods /\ CachedPhase' = CachedPhase
  BY DEF CachedPods, CachedPhase
<1> QED
  BY <1>1 DEF Spared, Claimed, Held, Undisturbed, Unfounded, Forward, Founder, Begun

(* Kubernetes: there is no claim to remove and no pod that is lost.        *)
LEMMA KubeletSpares ==
    ASSUME KubeType, PassType, Parts, Spared, Alone', NEW n \in Names, Kubelet(n) \/ PodIsLost(n)
    PROVE  Spared'
<1>1. ~ClaimIsGone(n) /\ ~PodIsLost(n)
  BY DEF ClaimIsGone, PodIsLost, Spared, Claimed, Alone
<1>2. /\ UNCHANGED <<phase, unclaimed, seen, todo, result, copy, stage, unmade>>
      /\ pods[n] \in {"starting", "stopping", "terminating"}
      /\ \E s \in {"ready", "terminating", "none"} :
            pods' = [pods EXCEPT ![n] = s] /\ (s = "ready" => pods[n] = "starting")
                                           /\ (s # "ready" => pods[n] # "starting")
  BY <1>1 DEF Kubelet, PodStarts, PodStops, PodIsGone, ServerStops, goroutines, pass, history, Parts,
    FoundersKept
<1>3. Started' = Started /\ (pods[n] # "starting" => Started # {})
  BY <1>2 DEF Started, Spared, Undisturbed
<1>4. todo' = [todo EXCEPT !.delete = todo'.delete] /\ todo'.delete \subseteq todo.delete
  BY <1>2 DEF PassType, Calls
<1>5. Held'
  BY <1>2 DEF Spared, Held, CachedPods, KubeType
<1> QED
  BY <1>2, <1>3, <1>4, <1>5, ChangeSpares

(* Every step, as long as there is one goroutine and no pod is lost.       *)
LEMMA SparedNext ==
    ASSUME KubeType, PassType, CopyType, ServerType, RestoreInv, Alone => Spared, Replicas > 1,
           [Next]_vars
    PROVE  (Alone => Spared)'
<1> SUFFICES ASSUME Alone' PROVE Spared'
  OBVIOUS
<1>1. CopyType' /\ Alone
  BY TypeNext, AloneBefore
<1>2. Spared /\ Parts
  BY <1>1 DEF Spared, Claimed, RestoreInv
<1>3. CASE Pass
  BY <1>2, <1>3, PassSpares
<1>4. CASE UpdateStatus \/ CallRefused \/ CallFails
  BY <1>2, <1>4, EndSpares
<1>5. ASSUME NEW n \in Names,
             DeleteClaim(n) \/ ForceDeletePod(n) \/ CreateClaim(n) \/ CreatePod(n)
      PROVE  Spared'
  BY <1>1, <1>2, <1>5, CallSpares
<1>6. ASSUME NEW h \in Handlers, HandleGaleraRestore(h) PROVE Spared'
  BY <1>1, <1>2, <1>6, HandleSpares
<1>7. CASE OperatorRestarts \/ \E i \in Lagging : InformerCatchesUp(i)
  BY <1>2, <1>7, CatchUpSpares
<1>8. ASSUME NEW h \in Handlers, NEW n \in Names, HandlerDeletes(h, n) PROVE Spared'
  BY <1>1, <1>2, <1>8, CopierSpares
<1>9. ASSUME NEW h \in Handlers, NEW n \in Names,
             \/ RetrieveChecks(h, n) \/ RetrieveRequests(h, n) \/ RetrieveUnanswered(h, n)
             \/ RetrievePolls(h, n) \/ RetrieveRefused(h, n) \/ HandlerDeleteFails(h, n)
      PROVE  Spared'
  <2>1. /\ UNCHANGED <<phase, pods, unclaimed, seen, todo, result, stage, unmade>>
        /\ \E c : copy' = [copy EXCEPT ![h][n] = c] /\ (c # "none" => copy[h][n] # "none")
    BY <1>9 DEF RetrieveChecks, RetrieveRequests, RetrieveUnanswered, RetrievePolls,
      RetrieveRefused, HandlerDeleteFails, Becomes, Copying, kube, pass, history
  <2>2. Started' = Started
    BY <2>1 DEF Started
  <2>3. \A g \in Handlers, m \in Names : copy'[g][m] # "none" => copy[g][m] # "none"
    BY <2>1 DEF CopyType
  <2> QED
    BY <1>2, <2>1, <2>2, <2>3, RetrieveSpares
<1>10. ASSUME NEW h \in Handlers, AllCopied(h) PROVE Spared'
  <2>1. /\ UNCHANGED <<phase, pods, seen, todo, result, unmade>> /\ unclaimed' = unclaimed
        /\ stage[h] = "copying" /\ stage' = [stage EXCEPT ![h] = "deleting"]
        /\ copy' = [copy EXCEPT ![h] =
                       [n \in Names |-> IF n \in Listed THEN copy[h][n] ELSE "none"]]
    BY <1>10, NoneOfFailed DEF AllCopied, pass, history
  <2>2. /\ Started' = Started
        /\ \A g \in Handlers : stage'[g] \in {"copying", "deleting"}
                                  => stage[g] \in {"copying", "deleting"}
    BY <2>1 DEF Started, CopyType
  <2>3. \A g \in Handlers, m \in Names : copy'[g][m] # "none" => copy[g][m] # "none"
    BY <2>1 DEF CopyType
  <2> QED
    BY <1>2, <2>1, <2>2, <2>3, RetrieveSpares
<1>11. ASSUME NEW n \in Names, UnTarEnds(n) \/ UnTarFails(n) PROVE Spared'
  <2>1. UNCHANGED <<phase, pods, unclaimed, seen, todo, result, copy, stage, unmade>>
    BY <1>11 DEF UnTarEnds, UnTarFails, kube, pass, goroutines, history
  <2> QED
    BY <1>2, <2>1, RetrieveSpares DEF Started
<1>12. ASSUME NEW n \in Names, Kubelet(n) \/ PodIsLost(n) PROVE Spared'
  BY <1>2, <1>12, KubeletSpares
<1>13. CASE UNCHANGED vars
  <2>1. UNCHANGED <<phase, pods, unclaimed, seen, todo, result, copy, stage, unmade>>
    BY <1>13 DEF vars, kube, pass, goroutines, history
  <2> QED
    BY <1>2, <2>1, RetrieveSpares DEF Started
<1> QED
  BY <1>3, <1>4, <1>5, <1>6, <1>7, <1>8, <1>9, <1>10, <1>11, <1>12, <1>13 DEF Next, Call, Copier

(* When a single goroutine was started, no restore pod was lost and none   *)
(* was created again on an old status, no pod of the cluster is ever       *)
(* deleted, though the goroutine deletes pods by names that the cluster    *)
(* uses again and scheduleGaleraRestore deletes any pod that is none of    *)
(* its own: whichever copies or calls failed, wherever the operator        *)
(* crashed, and whichever of the two caches are old (len(pods) == 0 in     *)
(* syncGalera).                                                            *)
THEOREM FoundedIsSpared == ASSUME Replicas > 1 PROVE Spec => ClusterIsSpared
<1>1. Init => (Alone => Spared)
  <2> SUFFICES ASSUME Init PROVE Spared
    OBVIOUS
  <2>1. /\ unclaimed = {} /\ Started = {} /\ Founder = {} /\ todo = NoCalls /\ ~unmade
        /\ phase = "None" /\ result = NoResult /\ seen.phase = "None"
        /\ \A n \in Names : pods[n] = "none" /\ seen.pods[n] = "none"
        /\ \A h \in Handlers, n \in Names : copy[h][n] = "none"
    BY DEF Init, Started, Founder
  <2> QED
    BY <2>1 DEF Spared, Claimed, Held, Undisturbed, Unfounded, Forward, Begun, NoCalls, NoResult, Rest
<1>2. /\ KubeType /\ PassType /\ CopyType /\ ServerType /\ RestoreInv
      /\ (Alone => Spared) /\ [Next]_vars
      => (Alone => Spared)'
  BY SparedNext
<1>3. ASSUME KubeType, Alone => Spared, [Next]_vars
      PROVE  [\A n \in Founder :
                 Cardinality(Started) <= 1 /\ lost = {} /\ ~again => pods'[n] = "cluster"]_vars
  <2> SUFFICES ASSUME NEW n \in Names, pods[n] = "cluster", Alone
               PROVE  pods'[n] = "cluster"
    BY DEF Founder, Alone
  <2>1. ~ForceDeletePod(n)
    BY <1>3 DEF ForceDeletePod, Spared, Unfounded
  <2>2. \A h \in Handlers : ~HandlerDeletes(h, n)
    BY <1>3 DEF HandlerDeletes, Spared, Held
  <2> QED
    BY <1>3, <2>1, <2>2, ClusterSteps
<1> QED
  BY <1>1, <1>2, <1>3, WellTyped, Restored, PTL DEF Spec, ClusterIsSpared
=============================================================================
