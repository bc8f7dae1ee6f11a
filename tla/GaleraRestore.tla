---------------------------- MODULE GaleraRestore ----------------------------
(***************************************************************************)
(* A cluster created from a backup: the phases ScheduleRestore, CopyRestore*)
(* and Restoring of syncGalera (galera_control.go), the goroutine          *)
(* HandleGaleraRestore that fills the volumes in parallel                  *)
(* (galera_restore_control.go, pkg/backup), and the API server of every    *)
(* restore pod that downloads and unpacks the backup (galera-backup).      *)
(*                                                                         *)
(* A pod and its data claim share a suffix, which is their name here.  A   *)
(* pass reads the caches once, decides, makes its calls one by one and     *)
(* then writes the status; a call that fails or is refused ends it without *)
(* a status.  A pass that finds the cluster founded in phase Restoring is  *)
(* described by GaleraControl, not here.                                   *)
(***************************************************************************)
EXTENDS Naturals, FiniteSets

CONSTANTS
    Names,          \* suffixes of pods and claims
    Replicas,       \* spec.replicas
    Lagging,        \* informers that may lag: a subset of {"galera", "pods"}
    MaxHandlers,    \* bound on the goroutines HandleGaleraRestore
    MaxFaults       \* bound on failing copies, calls and writes, lost pods and
                    \* crashes of the operator

ASSUME RestoreAssumption ==
    /\ Replicas \in Nat \ {0} /\ Lagging \subseteq {"galera", "pods"}
    /\ {MaxHandlers, MaxFaults} \subseteq Nat

VARIABLES
    phase,      \* status.Phase
    pods,       \* state of the pod of every name
    claims,     \* names that have a data claim
    unclaimed,  \* names whose claim is to be deleted, once no pod uses it
    volume,     \* what is on the volume of a claim
    seen,       \* informer caches: the phase and the pods
    todo,       \* calls the running pass has still to make
    result,     \* the phase the running pass writes at its end
    copy,       \* for every handler and name, where its copy stands
    stage,      \* stage of every handler
    stateMap,   \* what the API server of a pod says of the backup
    untar,      \* number of goroutines unpacking in a pod
    faults,
    failed,     \* history: names whose copy was reported failed
    lost,       \* history: names whose pod was lost
    undone,     \* history: a crash or a failed deletion left a restore pod
                \* that no goroutine will delete
    again,      \* history: a pass on an old status created a restore pod
                \* after the copies had begun
    unmade      \* history: a pod of the cluster was deleted

kube == <<pods, claims, unclaimed, volume>>
pass == <<todo, result>>
goroutines == <<copy, stage>>
server == <<stateMap, untar>>
history == <<failed, lost, undone, again, unmade>>
vars == <<phase, kube, seen, pass, goroutines, server, faults, history>>

Phases == {"None", "ScheduleRestore", "CopyRestore", "Restoring", "Running", "Failed"}
(* A pod that is to be deleted stays Running and Ready for a while when it *)
(* was so (stopping); one of the cluster is leaving.                       *)
PodStates ==
    {"none", "starting", "ready", "failed", "stopping", "terminating", "cluster", "leaving"}
Calls == [unclaim : SUBSET Names, delete : SUBSET Names, restore : SUBSET Names,
          found : SUBSET Names, copy : SUBSET Names]
NoCalls == [unclaim |-> {}, delete |-> {}, restore |-> {}, found |-> {}, copy |-> {}]
Handlers == 1..MaxHandlers
Copies == {"none", "check", "request", "poll", "cut", "ok", "failed"}
NoResult == "no pass"
Started == {h \in Handlers : stage[h] # "free"}

TypeOK ==
    /\ phase \in Phases /\ result \in Phases \cup {NoResult} /\ todo \in Calls
    /\ pods \in [Names -> PodStates] /\ unclaimed \subseteq claims /\ claims \subseteq Names
    /\ volume \in [Names -> {"empty", "partial", "whole"}]
    /\ seen \in [phase : Phases, pods : [Names -> PodStates]]
    /\ copy \in [Handlers -> [Names -> Copies]]
    /\ stage \in [Handlers -> {"free", "copying", "deleting", "ended"}]
    /\ stateMap \in [Names -> {"unknown", "running", "completed", "failed"}]
    /\ untar \in [Names -> 0..MaxHandlers]
    /\ faults \in 0..MaxFaults
    /\ failed \subseteq Names /\ lost \subseteq Names
    /\ {undone, again, unmade} \subseteq BOOLEAN

Init ==
    /\ phase = "None" /\ result = NoResult /\ todo = NoCalls
    /\ pods = [n \in Names |-> "none"] /\ claims = {} /\ unclaimed = {}
    /\ volume = [n \in Names |-> "empty"]
    /\ seen = [phase |-> phase, pods |-> pods]
    /\ copy = [h \in Handlers |-> [n \in Names |-> "none"]]
    /\ stage = [h \in Handlers |-> "free"]
    /\ stateMap = [n \in Names |-> "unknown"]
    /\ untar = [n \in Names |-> 0]
    /\ faults = 0 /\ failed = {} /\ lost = {}
    /\ undone = FALSE /\ again = FALSE /\ unmade = FALSE

-----------------------------------------------------------------------------
(* What a pass reads                                                       *)

Fault == faults < MaxFaults /\ faults' = faults + 1

CachedPhase == IF "galera" \in Lagging THEN seen.phase ELSE phase
CachedPods == IF "pods" \in Lagging THEN seen.pods ELSE pods

Listed == {n \in Names : CachedPods[n] # "none"}
Founders == {n \in Listed : CachedPods[n] \in {"cluster", "leaving"}}
(* isRunningAndReady does not look at the deletion timestamp.              *)
Ready == {n \in Listed : CachedPods[n] \in {"ready", "stopping"}}
Unready == Listed \ Ready
UnusedClaims == claims \ Listed

(* The names createUniquePodName may return.                               *)
FreeNames == IF UnusedClaims # {} THEN UnusedClaims ELSE Names \ (Listed \cup claims)

-----------------------------------------------------------------------------
(* What a pass decides, by phase of the cached resource                    *)

Idle == result = NoResult

(* The calls it will make, and the phase of the status it will write.      *)
Decides(calls, p) ==
    /\ todo' = calls /\ result' = p
    /\ UNCHANGED <<phase, kube, seen, goroutines, server, faults, history>>

SyncNew == Idle /\ CachedPhase = "None" /\ Decides(NoCalls, "ScheduleRestore")

Scheduling == Idle /\ CachedPhase = "ScheduleRestore"

(* scheduleGaleraRestore ends at the first pod that is none of its own:    *)
(* the pod is deleted with its claim.                                      *)
ScheduleDeletesFounder ==
    /\ Scheduling
    /\ \E n \in Founders : Decides([NoCalls EXCEPT !.unclaim = {n}, !.delete = {n}], "ScheduleRestore")

TooFew == Scheduling /\ Founders = {} /\ unclaimed = {} /\ Cardinality(Ready) < Replicas

(* With too few ready pods a failed one is deleted, another unready one is *)
(* waited for, and otherwise one pod is created.  A container of a pod     *)
(* that terminates may have ended, which is taken for a failure.           *)
ScheduleDeletesFailed ==
    /\ TooFew
    /\ \E n \in Unready :
          /\ CachedPods[n] \in {"failed", "terminating"}
          /\ Decides([NoCalls EXCEPT !.delete = {n}], "ScheduleRestore")

ScheduleWaits ==
    /\ TooFew
    /\ \E n \in Unready : CachedPods[n] # "failed"
    /\ Decides(NoCalls, "ScheduleRestore")

ScheduleCreates ==
    /\ TooFew /\ Unready = {}
    /\ \E n \in FreeNames : Decides([NoCalls EXCEPT !.restore = {n}], "ScheduleRestore")

(* With enough of them considerPodAndClaimTermination deletes a claim      *)
(* without a pod, or else the unready pods; superfluous pods are spared,   *)
(* as they have a role.                                                    *)
Terminations ==
    IF UnusedClaims # {}
    THEN {[NoCalls EXCEPT !.unclaim = {n}] : n \in UnusedClaims}
    ELSE {[NoCalls EXCEPT !.delete = Unready]}

(* A claim that is being deleted ends scheduleGaleraRestore before that,   *)
(* without an error: the ready pods are counted all the same.              *)
ScheduleEnds ==
    /\ Scheduling /\ Founders = {}
    /\ unclaimed # {} \/ Cardinality(Ready) >= Replicas
    /\ \E calls \in IF unclaimed # {} THEN {NoCalls} ELSE Terminations :
          IF Cardinality(Ready) = Replicas
          THEN (\E h \in Handlers : stage[h] = "free")
               /\ Decides([calls EXCEPT !.copy = Listed], "CopyRestore")
          ELSE Decides(calls, "ScheduleRestore")

(* While volumes are filled a pass only looks at what there is.            *)
SyncCopying ==
    /\ Idle /\ CachedPhase = "CopyRestore"
    /\ Decides(NoCalls, IF Listed = {} THEN "Restoring"
                        ELSE IF claims = {} THEN "Failed" ELSE "CopyRestore")

(* runGalera with restore pods, or none: a restore pod answers, but is not *)
(* a primary, and with two of them that answer or fail the pass ends in an *)
(* error.                                                                  *)
Restoring == Idle /\ CachedPhase = "Restoring" /\ Founders = {}
WithoutClaim == {n \in Listed : CachedPods[n] = "ready" /\ n \notin claims}
Leaves == {n \in Listed : CachedPods[n] \in {"stopping", "terminating"}}
Runs == Restoring /\ WithoutClaim = {} /\ Leaves = {} /\ Cardinality(Listed) <= 1
RunPhase == IF Cardinality(Listed) = Replicas THEN "Running" ELSE "Restoring"

RestoringWaits ==
    \/ /\ Restoring /\ WithoutClaim = {} /\ Leaves # {}
       /\ Decides(NoCalls, "Restoring")
    \/ /\ Runs
       /\ unclaimed # {} \/ \E n \in Listed : CachedPods[n] = "starting"
       /\ Decides(NoCalls, RunPhase)

(* A pod that runs without its claim is deleted, or else a failed one.     *)
RestoringDeletes ==
    /\ Restoring
    /\ \E n \in IF WithoutClaim # {} THEN WithoutClaim
               ELSE {m \in Listed : CachedPods[m] = "failed" /\ Runs /\ unclaimed = {}} :
          Decides([NoCalls EXCEPT !.delete = {n}],
                  IF WithoutClaim # {} THEN "Restoring" ELSE RunPhase)

(* The first pod of the cluster is created on any claim that has no pod.   *)
RestoringFounds ==
    /\ Runs /\ unclaimed = {} /\ Unready = {}
    /\ \E n \in FreeNames : Decides([NoCalls EXCEPT !.found = {n}], RunPhase)

-----------------------------------------------------------------------------
(* The calls of a pass                                                     *)

DeleteClaim(n) ==
    /\ n \in todo.unclaim /\ n \in claims
    /\ todo' = [todo EXCEPT !.unclaim = @ \ {n}]
    /\ unclaimed' = unclaimed \cup {n}
    /\ UNCHANGED <<phase, pods, claims, volume, seen, result, goroutines, server, faults, history>>

(* The pod of that name is to be deleted, whichever it is by now.          *)
Deleted(state) ==
    IF state = "ready" THEN "stopping"
    ELSE IF state \in {"starting", "failed"} THEN "terminating"
    ELSE IF state = "cluster" THEN "leaving" ELSE state
DeletePod(n) ==
    /\ pods' = [pods EXCEPT ![n] = Deleted(@)]
    /\ unmade' = (unmade \/ pods[n] = "cluster")

ForceDeletePod(n) ==
    /\ todo.unclaim = {} /\ n \in todo.delete /\ pods[n] # "none"
    /\ todo' = [todo EXCEPT !.delete = @ \ {n}]
    /\ DeletePod(n)
    /\ UNCHANGED <<phase, claims, unclaimed, volume, seen, result, goroutines, server, faults,
                   failed, lost, undone, again>>

CreateClaim(n) ==
    /\ n \in todo.restore \cup todo.found /\ n \notin claims
    /\ claims' = claims \cup {n}
    /\ UNCHANGED <<phase, pods, unclaimed, volume, seen, pass, goroutines, server, faults, history>>

(* A copy that still waits for an earlier pod of the name has the address  *)
(* of that one.                                                            *)
CreatePod(n) ==
    /\ n \in todo.restore \cup todo.found /\ n \in claims /\ pods[n] = "none"
    /\ todo' = [todo EXCEPT !.restore = {}, !.found = {}]
    /\ pods' = [pods EXCEPT ![n] = IF n \in todo.restore THEN "starting" ELSE "cluster"]
    /\ copy' = [h \in Handlers |-> [copy[h] EXCEPT ![n] =
                   IF @ \in {"check", "request", "poll"} THEN "cut" ELSE @]]
    /\ again' = (again \/ (n \in todo.restore /\ Started # {}))
    /\ UNCHANGED <<phase, claims, unclaimed, volume, seen, result, stage, server, faults,
                   failed, lost, undone, unmade>>

(* The goroutine is started when the other calls were made, before the     *)
(* status is written.                                                      *)
HandleGaleraRestore(h) ==
    /\ todo = [NoCalls EXCEPT !.copy = todo.copy] /\ todo # NoCalls
    /\ stage[h] = "free" /\ \A i \in 1..(h - 1) : stage[i] # "free"
    /\ stage' = [stage EXCEPT ![h] = "copying"]
    /\ copy' = [copy EXCEPT ![h] = [n \in Names |-> IF n \in todo.copy THEN "check" ELSE "none"]]
    /\ todo' = NoCalls
    /\ UNCHANGED <<phase, kube, seen, result, server, faults, history>>

UpdateStatus ==
    /\ ~Idle /\ todo = NoCalls
    /\ result' = NoResult /\ phase' = result
    /\ UNCHANGED <<kube, seen, todo, goroutines, server, faults, history>>

(* The pass ends without a status, and will be repeated.                   *)
Abandons ==
    /\ todo' = NoCalls /\ result' = NoResult
    /\ UNCHANGED <<phase, kube, seen, goroutines, server, history>>

(* There is nothing of that name to delete, or there is something already. *)
CallRefused ==
    /\ \/ todo.unclaim \ claims # {}
       \/ todo.unclaim = {} /\ \E n \in todo.delete : pods[n] = "none"
       \/ \E n \in (todo.restore \cup todo.found) \cap claims : pods[n] # "none"
    /\ Abandons /\ UNCHANGED faults

(* A call or the write of the status fails.                                *)
CallFails == ~Idle /\ Fault /\ Abandons

InformerCatchesUp(i) ==
    /\ i \in Lagging
    /\ seen' = IF i = "galera" THEN [seen EXCEPT !.phase = phase] ELSE [seen EXCEPT !.pods = pods]
    /\ seen' # seen
    /\ UNCHANGED <<phase, kube, pass, goroutines, server, faults, history>>

(* The operator stops, of itself or because HandleGaleraRestore finds no   *)
(* credentials (Fatalf): its goroutines are gone.                          *)
OperatorRestarts ==
    /\ Fault
    /\ todo' = NoCalls /\ result' = NoResult
    /\ stage' = [h \in Handlers |-> IF stage[h] = "free" THEN "free" ELSE "ended"]
    /\ copy' = [h \in Handlers |-> [n \in Names |-> "none"]]
    /\ undone' = (undone \/ \E h \in Handlers : stage[h] \in {"copying", "deleting"})
    /\ seen' = [phase |-> IF "galera" \in Lagging THEN phase ELSE seen.phase,
                pods |-> IF "pods" \in Lagging THEN pods ELSE seen.pods]
    /\ UNCHANGED <<phase, kube, server, failed, lost, again, unmade>>

-----------------------------------------------------------------------------
(* HandleGaleraRestore: Retrieve for every pod, in parallel                *)

Becomes(h, n, c) ==
    /\ copy' = [copy EXCEPT ![h][n] = c]
    /\ failed' = IF c = "failed" THEN failed \cup {n} ELSE failed
    /\ UNCHANGED <<phase, kube, seen, pass, stage, faults, lost, undone, again, unmade>>

Copying(h, n, c) == stage[h] = "copying" /\ copy[h][n] = c
Answers(n) == pods[n] \in {"ready", "stopping"}

(* A copy that is running already is not asked for again.                  *)
RetrieveChecks(h, n) ==
    /\ Copying(h, n, "check")
    /\ Becomes(h, n, IF ~Answers(n) THEN "failed"
                     ELSE IF stateMap[n] = "running" THEN "poll" ELSE "request")
    /\ UNCHANGED server

(* Mutant: the request is sent again and again. *)
RetrieveRequestsAgain(h, n) ==
    /\ Copying(h, n, "request") /\ Answers(n)
    /\ stateMap' = [stateMap EXCEPT ![n] = "running"]
    /\ untar' = [untar EXCEPT ![n] = @ + 1]
    /\ volume' = [volume EXCEPT ![n] = IF @ = "whole" THEN "whole" ELSE "partial"]
    /\ UNCHANGED <<phase, pods, claims, unclaimed, seen, pass, goroutines, faults, history>>

(* S3Restore: the volume is written from now on.                           *)
RetrieveRequests(h, n) ==
    /\ Copying(h, n, "request") /\ Answers(n)
    /\ copy' = [copy EXCEPT ![h][n] = "poll"]
    /\ stateMap' = [stateMap EXCEPT ![n] = "running"]
    /\ untar' = [untar EXCEPT ![n] = @ + 1]
    /\ volume' = [volume EXCEPT ![n] = IF @ = "whole" THEN "whole" ELSE "partial"]
    /\ UNCHANGED <<phase, pods, claims, unclaimed, seen, pass, stage, faults, history>>

(* The bucket cannot be read; the operator learns it when it polls.        *)
RetrieveRefused(h, n) ==
    /\ Copying(h, n, "request") /\ Answers(n)
    /\ Fault
    /\ copy' = [copy EXCEPT ![h][n] = "poll"]
    /\ stateMap' = [stateMap EXCEPT ![n] = "failed"]
    /\ UNCHANGED <<phase, kube, seen, pass, stage, untar, history>>

(* Mutant: an unanswered poll is taken for a copy that goes on. *)
RetrieveUnansweredPolls(h, n) ==
    /\ Copying(h, n, "request") /\ ~Answers(n)
    /\ Becomes(h, n, "failed")
    /\ UNCHANGED server

RetrieveUnanswered(h, n) ==
    /\ \/ Copying(h, n, "cut")
       \/ (Copying(h, n, "request") \/ Copying(h, n, "poll")) /\ ~Answers(n)
    /\ Becomes(h, n, "failed")
    /\ UNCHANGED server

(* Mutant: what has not failed has completed. *)
RetrievePollsOnce(h, n) ==
    /\ Copying(h, n, "poll") /\ Answers(n)
    /\ Becomes(h, n, IF stateMap[n] = "failed" THEN "failed" ELSE "ok")
    /\ UNCHANGED server

RetrievePolls(h, n) ==
    /\ Copying(h, n, "poll") /\ Answers(n)
    /\ \/ stateMap[n] = "completed" /\ Becomes(h, n, "ok")
       \/ stateMap[n] = "failed" /\ Becomes(h, n, "failed")
    /\ UNCHANGED server

(* Files that are there are overwritten in place, with the same content.   *)
UnTarEnds(n) ==
    /\ untar[n] > 0
    /\ untar' = [untar EXCEPT ![n] = @ - 1]
    /\ volume' = [volume EXCEPT ![n] = "whole"]
    /\ stateMap' = [stateMap EXCEPT ![n] = "completed"]
    /\ UNCHANGED <<phase, pods, claims, unclaimed, seen, pass, goroutines, faults, history>>

UnTarFails(n) ==
    /\ untar[n] > 0
    /\ Fault
    /\ untar' = [untar EXCEPT ![n] = @ - 1]
    /\ stateMap' = [stateMap EXCEPT ![n] = "failed"]
    /\ UNCHANGED <<phase, kube, seen, pass, goroutines, history>>

(* The name of a claim has a prefix, that of a pod has none.               *)
ClaimName(n) == <<"data", n>>
PodName(n) == <<n>>

(* wg.Wait: when every copy has ended, the claims of failed ones are       *)
(* looked up among the pods, by the name of the claim.                     *)
ClaimsOfFailed(h) ==
    {n \in Names : copy[h][n] = "failed" /\ \E m \in Listed : PodName(m) = ClaimName(n)}

AllCopied(h) ==
    /\ stage[h] = "copying"
    /\ \A n \in Names : copy[h][n] \in {"none", "ok", "failed"}
    /\ stage' = [stage EXCEPT ![h] = "deleting"]
    /\ copy' = [copy EXCEPT ![h] = [n \in Names |-> IF n \in Listed THEN @[n] ELSE "none"]]
    /\ unclaimed' = unclaimed \cup ClaimsOfFailed(h)
    /\ UNCHANGED <<phase, pods, claims, volume, seen, pass, server, faults, history>>

(* Mutant: a pod is deleted until none of its name is left. *)
HandlerDeletesAgain(h, n) ==
    /\ stage[h] = "deleting" /\ copy[h][n] # "none"
    /\ IF CachedPods[n] # "none" THEN DeletePod(n) ELSE UNCHANGED <<pods, unmade>>
    /\ UNCHANGED <<phase, claims, unclaimed, volume, seen, pass, goroutines, server, faults,
                   failed, lost, undone, again>>

(* Every pod is deleted, by its name.                                      *)
HandlerDeletes(h, n) ==
    /\ stage[h] = "deleting" /\ copy[h][n] # "none"
    /\ copy' = [copy EXCEPT ![h][n] = "none"]
    /\ IF CachedPods[n] # "none" THEN DeletePod(n) ELSE UNCHANGED <<pods, unmade>>
    /\ UNCHANGED <<phase, claims, unclaimed, volume, seen, pass, stage, server, faults,
                   failed, lost, undone, again>>

(* Only a conflict would be retried.                                       *)
HandlerDeleteFails(h, n) ==
    /\ stage[h] = "deleting" /\ copy[h][n] # "none"
    /\ Fault
    /\ copy' = [copy EXCEPT ![h][n] = "none"]
    /\ undone' = TRUE
    /\ UNCHANGED <<phase, kube, seen, pass, stage, server, failed, lost, again, unmade>>

-----------------------------------------------------------------------------
(* Kubernetes                                                              *)

PodStarts(n) ==
    /\ pods[n] = "starting"
    /\ pods' = [pods EXCEPT ![n] = "ready"]
    /\ UNCHANGED <<phase, claims, unclaimed, volume, seen, pass, goroutines, server, faults, history>>

(* The server in a pod that stops, stops too; the volume stays.            *)
ServerStops(n, state) ==
    /\ pods' = [pods EXCEPT ![n] = state]
    /\ untar' = [untar EXCEPT ![n] = 0]
    /\ stateMap' = [stateMap EXCEPT ![n] = "unknown"]
    /\ UNCHANGED <<phase, claims, unclaimed, volume, seen, pass, goroutines>>

PodStops(n) ==
    /\ pods[n] = "stopping"
    /\ ServerStops(n, "terminating")
    /\ UNCHANGED <<faults, history>>

PodIsGone(n) ==
    /\ pods[n] \in {"terminating", "leaving"}
    /\ ServerStops(n, "none")
    /\ UNCHANGED <<faults, history>>

(* A restore pod fails (it is never restarted) or is evicted.              *)
PodIsLost(n) ==
    /\ pods[n] \in {"starting", "ready"}
    /\ Fault
    /\ \/ ServerStops(n, "failed")
       \/ /\ pods' = [pods EXCEPT ![n] = Deleted(@)]
          /\ UNCHANGED <<phase, claims, unclaimed, volume, seen, pass, goroutines, server>>
    /\ lost' = lost \cup {n}
    /\ UNCHANGED <<failed, undone, again, unmade>>

ClaimIsGone(n) ==
    /\ n \in unclaimed /\ pods[n] = "none"
    /\ claims' = claims \ {n} /\ unclaimed' = unclaimed \ {n}
    /\ volume' = [volume EXCEPT ![n] = "empty"]
    /\ UNCHANGED <<phase, pods, seen, pass, goroutines, server, faults, history>>

Pass ==
    \/ SyncNew \/ ScheduleDeletesFounder \/ ScheduleDeletesFailed \/ ScheduleWaits
    \/ ScheduleCreates \/ ScheduleEnds \/ SyncCopying
    \/ RestoringWaits \/ RestoringDeletes \/ RestoringFounds

Call ==
    \/ UpdateStatus \/ CallRefused
    \/ \E n \in Names : DeleteClaim(n) \/ ForceDeletePod(n) \/ CreateClaim(n) \/ CreatePod(n)
    \/ \E h \in Handlers : HandleGaleraRestore(h)

Copier(h, n) ==
    \/ RetrieveChecks(h, n) \/ RetrieveRequests(h, n)
    \/ RetrieveUnanswered(h, n) \/ RetrievePolls(h, n) \/ HandlerDeletes(h, n)

Kubelet(n) == PodStarts(n) \/ PodStops(n) \/ PodIsGone(n) \/ ClaimIsGone(n)

Next ==
    \/ Pass \/ Call \/ CallFails \/ OperatorRestarts \/ \E i \in Lagging : InformerCatchesUp(i)
    \/ \E h \in Handlers : AllCopied(h)
    \/ \E h \in Handlers, n \in Names :
          Copier(h, n) \/ RetrieveRefused(h, n) \/ HandlerDeleteFails(h, n)
    \/ \E n \in Names : Kubelet(n) \/ UnTarEnds(n) \/ UnTarFails(n) \/ PodIsLost(n)

(* Passes are repeated, goroutines run, informers and the kubelet go on.   *)
Fairness ==
    /\ WF_vars(Pass) /\ WF_vars(Call) /\ \A i \in Lagging : WF_vars(InformerCatchesUp(i))
    /\ WF_vars(\E h \in Handlers : AllCopied(h))
    /\ WF_vars(\E h \in Handlers, n \in Names : Copier(h, n))
    /\ WF_vars(\E n \in Names : UnTarEnds(n)) /\ WF_vars(\E n \in Names : Kubelet(n))

Spec == Init /\ [][Next]_vars /\ Fairness

-----------------------------------------------------------------------------
(* Properties                                                              *)

Founder == {n \in Names : pods[n] = "cluster"}

(* A volume that is not a whole copy when the cluster is founded is one    *)
(* whose copy was reported failed or whose pod was lost: neither the       *)
(* phases, nor a second goroutine, nor a crash of the operator ever lead   *)
(* to a cluster on volumes that are still being filled (SyncCopying,       *)
(* HandleGaleraRestore).  Once a pod of the cluster was deleted by a pass  *)
(* or a goroutine that came too late, nothing is promised.                 *)
OnlyLostCopiesAreMissing ==
    Founder # {} /\ ~unmade => \A n \in claims : volume[n] = "whole" \/ n \in failed \cup lost

(* The goroutine deletes pods by name, and the pods of the cluster have    *)
(* the names of the restore pods; scheduleGaleraRestore deletes any pod    *)
(* that is not its own.  When the goroutine was started once, no restore   *)
(* pod was lost and none was created again on an old status, the last of   *)
(* its pods was deleted before the first one of the cluster is created,    *)
(* whichever copies failed (len(pods) == 0 in syncGalera), and no pass     *)
(* goes back to ScheduleRestore.                                           *)
ClusterIsSpared ==
    [][\A n \in Founder :
          Cardinality(Started) <= 1 /\ lost = {} /\ ~again => pods'[n] = "cluster"]_vars

(* Failing copies and lost pods or not, the restore comes to an end,       *)
(* unless the operator crashes while it copies (the TODO in syncGalera     *)
(* admits it), a pod is not deleted, or an old status makes a pass start   *)
(* the restore again (scheduleGaleraRestore, HandleGaleraRestore).         *)
RestoreEnds ==
    <>(undone \/ again \/ Cardinality(Started) > 1 \/ Founder # {} \/ phase = "Failed")
=============================================================================
