----------------------------- MODULE GaleraSync -----------------------------
(***************************************************************************)
(* What SyncGalera (galera_control.go) does around the decision about the  *)
(* pods: the controller revisions that store the template of the cluster   *)
(* and their history, the services and the disruption budget, and the      *)
(* status, written at the end of a pass only when it differs.              *)
(*                                                                         *)
(* The decision itself is in GaleraControl; here a pass creates a missing  *)
(* pod, or deletes one that is outdated.  A revision is named by a hash of *)
(* its data, so the name of a revision is its template here (collisions    *)
(* are left out).  Labels are sets, and a selector matches what includes   *)
(* it.  The history package of Kubernetes is external.                     *)
(***************************************************************************)
EXTENDS Integers, Sequences, SequencesExt

CONSTANTS
    Templates,      \* spec.pod and spec.persistentVolumeClaimSpec
    FirstTemplate,
    LabelSets,      \* labels the resource may carry
    FirstLabels,
    Services,       \* those of AllServices that are modelled
    Pods,           \* names of pods, as many as spec.replicas
    HistoryLimit,   \* spec.revisionHistoryLimit
    Lagging,        \* informers that may lag beside that of the services:
                    \* a subset of {"galera", "revisions"}
    MaxEdits,       \* bound on the edits of the resource
    MaxFaults       \* bound on failing calls, crashes, lost pods and services

NoName == "none"

(* In the order of createOrUpdateServices and of SyncGalera.  All of them  *)
(* but "special" are treated alike.                                        *)
AllServices == [writer |-> 1, writerBackup |-> 2, reader |-> 3, special |-> 4, monitor |-> 5,
                internal |-> 6, pdb |-> 7]

ASSUME SyncAssumption ==
    /\ FirstTemplate \in Templates /\ FirstLabels \in LabelSets
    /\ NoName \notin Templates /\ IsFiniteSet(Templates) /\ IsFiniteSet(Pods)
    /\ Services \subseteq DOMAIN AllServices
    /\ Lagging \subseteq {"galera", "revisions"}
    /\ {HistoryLimit, MaxEdits, MaxFaults} \subseteq Nat

VARIABLES
    galera,     \* the resource in the API server: its spec, labels and status
    revs,       \* the controller revisions
    pods,       \* revision label and readiness of the pods
    svcs,       \* services and disruption budget in the API server
    cache,      \* what the informers show
    pending,    \* services with an event that the informer has not delivered
    pass,       \* the running pass
    edits, faults,
    relabelled  \* history: the labels of the resource were edited

counters == <<edits, faults, relabelled>>
vars == <<galera, revs, pods, svcs, cache, pending, pass, counters>>

Names == Templates \cup {NoName}
NoPod == [rev |-> NoName, ready |-> FALSE]
PodStates == [rev : Names, ready : BOOLEAN]
NoRev == [number |-> 0, labels |-> {}]
Revisions == [number : Nat, labels : LabelSets \cup {{}}]
NoService == [live |-> FALSE, labels |-> {}]
ServiceStates == [live : BOOLEAN, labels : LabelSets \cup {{}}]

(* counts: replicas, ready ones, those of the current and of the next      *)
(* revision, of which the third may be one too low (see RunGalera);        *)
(* running: the phase is Running and the condition Ready is set; named:    *)
(* the services whose names it holds.                                      *)
Statuses == [current : Names, next : Names, gen : Nat, running : BOOLEAN,
             counts : Nat \X Nat \X Int \X Nat, named : SUBSET Services]
NoStatus == [current |-> NoName, next |-> NoName, gen |-> 0, running |-> FALSE,
             counts |-> <<0, 0, 0, 0>>, named |-> {}]
Galeras == [data : Templates, labels : LabelSets, special : BOOLEAN, gen : Nat, status : Statuses]

Stages == {"idle", "revisions", "pods", "services", "truncate"}
Passes == [at : Stages, galera : Galeras, list : [Templates -> Revisions],
           pods : [Pods -> PodStates], current : Names, next : Names,
           result : Statuses, todo : Seq(Services \cup Templates)]

TypeOK ==
    /\ galera \in Galeras
    /\ revs \in [Templates -> Revisions]
    /\ pods \in [Pods -> PodStates]
    /\ svcs \in [Services -> ServiceStates]
    /\ cache \in [galera : Galeras, revs : [Templates -> Revisions], svcs : [Services -> ServiceStates]]
    /\ pending \subseteq Services
    /\ pass \in Passes
    /\ edits \in 0..MaxEdits /\ faults \in 0..MaxFaults /\ relabelled \in BOOLEAN

IdlePass ==
    [at |-> "idle",
     galera |-> [data |-> FirstTemplate, labels |-> FirstLabels, special |-> FALSE, gen |-> 1,
                 status |-> NoStatus],
     list |-> [t \in Templates |-> NoRev], pods |-> [p \in Pods |-> NoPod],
     current |-> NoName, next |-> NoName, result |-> NoStatus, todo |-> << >>]

Init ==
    /\ galera = IdlePass.galera
    /\ revs = IdlePass.list /\ pods = IdlePass.pods
    /\ svcs = [s \in Services |-> NoService] /\ pending = {}
    /\ cache = [galera |-> galera, revs |-> revs, svcs |-> svcs]
    /\ pass = IdlePass
    /\ edits = 0 /\ faults = 0 /\ relabelled = FALSE

(* The elements of S by their numbers, the smallest first.                 *)
Sorted(S, number) ==
    CHOOSE q \in SetToSeqs(S) : \A i, j \in 1..Len(q) : i < j => number[q[i]] <= number[q[j]]

Fault == faults < MaxFaults /\ faults' = faults + 1
Ends == pass' = IdlePass

-----------------------------------------------------------------------------
(* Revisions                                                               *)

Existing(r) == {t \in Templates : r[t] # NoRev}

(* ListRevisions selects by the labels of the resource.                    *)
ListRevisions(g, r) ==
    [t \in Templates |-> IF r[t] # NoRev /\ g.labels \subseteq r[t].labels THEN r[t] ELSE NoRev]

StartPass ==
    /\ pass.at = "idle"
    /\ LET g == IF "galera" \in Lagging THEN cache.galera ELSE galera
           r == IF "revisions" \in Lagging THEN cache.revs ELSE revs
       IN  pass' = [IdlePass EXCEPT !.at = "revisions", !.galera = g,
                                    !.list = ListRevisions(g, r), !.pods = pods]
    /\ UNCHANGED <<galera, revs, pods, svcs, cache, pending, counters>>

Listed == Existing(pass.list)

(* Mutant: the revisions are numbered downwards. *)
NumberedDown == IF Listed = {} THEN 1 ELSE Min({pass.list[t].number : t \in Listed}) - 1

NewNextRevision == IF Listed = {} THEN 1 ELSE Max({pass.list[t].number : t \in Listed}) + 1

(* Newest in the sorted list; among equals the sort looks at the time of   *)
(* creation, which is left open.                                           *)
MayBeLast(t) == t \in Listed /\ \A u \in Listed : pass.list[u].number <= pass.list[t].number

(* getGaleraRevisions; the current revision is the one the status names,   *)
(* if it is listed.                                                        *)
Found(next) ==
    pass' = [pass EXCEPT !.at = "pods", !.next = next,
                         !.current = IF pass.galera.status.current \in Listed
                                     THEN pass.galera.status.current ELSE next]

GetGaleraRevisions ==
    /\ pass.at = "revisions"
    /\ LET t == pass.galera.data
       IN  \/ MayBeLast(t) /\ Found(t) /\ UNCHANGED revs
           \/ /\ t \in Listed /\ \E u \in Listed \ {t} : MayBeLast(u)
              /\ IF revs[t] = pass.list[t]
                 THEN Found(t) /\ revs' = [revs EXCEPT ![t].number = NewNextRevision]
                 ELSE Ends /\ UNCHANGED revs
           \/ /\ t \notin Listed /\ Found(t)
              /\ IF revs[t] = NoRev
                 THEN revs' = [revs EXCEPT ![t] =
                                  [number |-> NewNextRevision, labels |-> pass.galera.labels]]
                 ELSE UNCHANGED revs
    /\ UNCHANGED <<galera, pods, svcs, cache, pending, counters>>

-----------------------------------------------------------------------------
(* Pods, as far as the rest of a pass depends on them (runGalera)          *)

Present(P) == {p \in Pods : P[p] # NoPod}
Unready(P) == {p \in Present(P) : ~P[p].ready}
Outdated == {p \in Pods : pass.pods[p].rev # pass.next}

(* What runGalera counts in the list of the pass.                          *)
Tally ==
    LET here == Present(pass.pods)
        of(r) == Cardinality({p \in here : pass.pods[p].rev = r})
    IN  <<Cardinality(here), Cardinality(here \ Unready(pass.pods)), of(pass.current), of(pass.next)>>

(* The pod just created is counted under one of the two revisions only.    *)
Created ==
    IF pass.next = pass.current THEN [Tally EXCEPT ![1] = @ + 1, ![3] = @ + 1]
    ELSE [Tally EXCEPT ![1] = @ + 1, ![4] = @ + 1]

(* The pod just deleted still is a replica, and it is taken off the        *)
(* current revision whatever its own is.                                   *)
Deleted == [Tally EXCEPT ![3] = @ - 1]

(* The phase becomes Running when as many pods are listed as wanted.       *)
StatusOf(counts) ==
    [current |-> pass.current, next |-> pass.next, gen |-> pass.galera.gen, named |-> {},
     running |-> pass.galera.status.running \/ Present(pass.pods) = Pods,
     counts |-> counts]

(* createOrUpdateServices asks the status the pass has read.               *)
ServicesDue ==
    Sorted({s \in Services : pass.galera.status.running \/ s = "pdb"}, AllServices)

Ran(counts) ==
    pass' = [pass EXCEPT !.at = "services", !.result = StatusOf(counts), !.todo = ServicesDue]

(* A pod that is gone meanwhile cannot be deleted: the pass fails.         *)
RunGalera ==
    /\ pass.at = "pods"
    /\ \/ /\ Present(pass.pods) # Pods /\ Unready(pass.pods) = {}
          /\ \E p \in Pods \ Present(pods) :
                pods' = [pods EXCEPT ![p] = [rev |-> pass.next, ready |-> FALSE]]
          /\ Ran(Created)
       \/ /\ Present(pass.pods) = Pods /\ Unready(pass.pods) = {}
          /\ pass.current # pass.next
          /\ \E p \in Outdated :
                /\ pods' = [pods EXCEPT ![p] = NoPod]
                /\ IF pods[p] = NoPod THEN Ends ELSE Ran(Deleted)
       \/ /\ \/ Unready(pass.pods) # {}
             \/ Present(pass.pods) = Pods /\ (pass.current = pass.next \/ Outdated = {})
          /\ Ran(Tally) /\ UNCHANGED pods
    /\ UNCHANGED <<galera, revs, svcs, cache, pending, counters>>

-----------------------------------------------------------------------------
(* Services and disruption budget: CreateOrUpdateGaleraService..., one     *)
(* step each                                                               *)

Wanted(s) == s # "special" \/ pass.galera.special

Done(s) ==
    pass' = [pass EXCEPT !.todo = Tail(@),
                         !.result.named = IF Wanted(s) THEN @ \cup {s} ELSE @]

(* The API server has changed the service, and the informer will tell.     *)
Put(s, v) == svcs' = [svcs EXCEPT ![s] = v] /\ pending' = pending \cup {s}

(* Mutant: the error of the lookup is returned when nothing is to be done. *)
LookupErrorReturned(s) ==
    /\ ~cache.svcs[s].live
    /\ Ends /\ UNCHANGED <<svcs, cache, pending>>

(* A service nobody wants is not there.                                    *)
NothingToDelete(s) ==
    /\ ~cache.svcs[s].live
    /\ Done(s) /\ UNCHANGED <<svcs, cache, pending>>

DeleteService(s) ==
    /\ cache.svcs[s].live
    /\ IF svcs[s].live THEN Done(s) /\ Put(s, NoService) ELSE Ends /\ UNCHANGED <<svcs, pending>>
    /\ UNCHANGED cache

CreateService(s) ==
    /\ ~cache.svcs[s].live
    /\ IF svcs[s].live THEN Ends /\ UNCHANGED <<svcs, pending>>
       ELSE Done(s) /\ Put(s, [live |-> TRUE, labels |-> pass.galera.labels])
    /\ UNCHANGED cache

(* The labels are changed in the object of the cache, then it is sent; a   *)
(* version that is not the last one is refused.                            *)
UpdateService(s) ==
    /\ cache.svcs[s].live
    /\ cache' = [cache EXCEPT !.svcs[s].labels = pass.galera.labels]
    /\ IF cache.svcs[s].labels = pass.galera.labels THEN Done(s) /\ UNCHANGED <<svcs, pending>>
       ELSE IF s \in pending THEN Ends /\ UNCHANGED <<svcs, pending>>
       ELSE Done(s) /\ Put(s, [live |-> TRUE, labels |-> pass.galera.labels])

CreateOrUpdateService ==
    /\ pass.at = "services" /\ pass.todo # << >>
    /\ LET s == Head(pass.todo)
       IN  \/ Wanted(s) /\ (CreateService(s) \/ UpdateService(s))
           \/ ~Wanted(s) /\ (DeleteService(s) \/ NothingToDelete(s))
    /\ UNCHANGED <<galera, revs, pods, counters>>

(* A call fails; one that would have changed labels has changed the cache. *)
ServiceCallFails ==
    /\ pass.at = "services" /\ pass.todo # << >>
    /\ Fault /\ Ends
    /\ LET s == Head(pass.todo)
       IN  cache' = IF Wanted(s) /\ cache.svcs[s].live
                    THEN [cache EXCEPT !.svcs[s].labels = pass.galera.labels] ELSE cache
    /\ UNCHANGED <<galera, revs, pods, svcs, pending, edits, relabelled>>

-----------------------------------------------------------------------------
(* Status and history                                                      *)

CompleteRollingUpdate(st) ==
    IF st.counts[1] = Cardinality(Pods) /\ st.counts[2] = st.counts[1] /\ st.counts[4] = st.counts[1]
    THEN [st EXCEPT !.current = st.next, !.next = NoName,
                    !.counts = <<st.counts[1], st.counts[2], st.counts[4], 0>>]
    ELSE st

(* Services and phase are not compared.                                    *)
InconsistentStatus(old, new) ==
    new.gen > old.gen \/ new.counts # old.counts \/ new.current # old.current \/ new.next # old.next

(* Oldest first.                                                           *)
Oldest(S) == Sorted(S, [t \in Templates |-> pass.list[t].number])

(* Mutant: the revisions of the pods do not count. *)
LiveWithoutPods == {pass.current, pass.next}
LiveRevisions == {pass.current, pass.next} \cup {pass.pods[p].rev : p \in Pods}

(* Mutant: one revision too many is kept. *)
TruncateLess ==
    LET history == Oldest(Listed \ LiveRevisions)
    IN  SubSeq(history, 1, Len(history) - HistoryLimit - 1)

TruncateHistory ==
    LET history == Oldest(Listed \ LiveRevisions)
    IN  SubSeq(history, 1, Len(history) - HistoryLimit)

(* A conflict is answered with the version of the cache, in vain when that *)
(* one is old as well.                                                     *)
StatusRefused == "galera" \in Lagging /\ cache.galera # galera

UpdateGaleraStatus ==
    /\ pass.at = "services" /\ pass.todo = << >>
    /\ LET st == CompleteRollingUpdate(pass.result)
           write == InconsistentStatus(pass.galera.status, st)
       IN  /\ galera' = IF write /\ ~StatusRefused THEN [galera EXCEPT !.status = st] ELSE galera
           /\ IF TruncateHistory = << >> \/ (write /\ StatusRefused) THEN Ends
              ELSE pass' = [pass EXCEPT !.at = "truncate", !.todo = TruncateHistory]
    /\ UNCHANGED <<revs, pods, svcs, cache, pending, counters>>

DeleteControllerRevision ==
    /\ pass.at = "truncate"
    /\ LET t == Head(pass.todo)
       IN  /\ revs' = [revs EXCEPT ![t] = NoRev]
           /\ IF revs[t] = NoRev \/ Len(pass.todo) = 1 THEN Ends
              ELSE pass' = [pass EXCEPT !.todo = Tail(@)]
    /\ UNCHANGED <<galera, pods, svcs, cache, pending, counters>>

(* Any other call fails, or the whole operator does: its caches are read   *)
(* anew when it is back.                                                   *)
PassFails ==
    /\ pass.at # "idle" /\ Fault /\ Ends
    /\ UNCHANGED <<galera, revs, pods, svcs, cache, pending, edits, relabelled>>

OperatorRestarts ==
    /\ Fault /\ Ends
    /\ cache' = [galera |-> galera, revs |-> revs, svcs |-> svcs]
    /\ pending' = {}
    /\ UNCHANGED <<galera, revs, pods, svcs, edits, relabelled>>

-----------------------------------------------------------------------------
(* Informers, users and Kubernetes                                         *)

InformerCatchesUp ==
    /\ \/ /\ pending # {} /\ pending' = {}
          /\ cache' = [cache EXCEPT !.svcs =
                           [s \in Services |-> IF s \in pending THEN svcs[s] ELSE @[s]]]
       \/ /\ "galera" \in Lagging /\ cache.galera # galera
          /\ cache' = [cache EXCEPT !.galera = galera] /\ UNCHANGED pending
       \/ /\ "revisions" \in Lagging /\ cache.revs # revs
          /\ cache' = [cache EXCEPT !.revs = revs] /\ UNCHANGED pending
    /\ UNCHANGED <<galera, revs, pods, svcs, pass, counters>>

UserEdits ==
    /\ edits < MaxEdits /\ edits' = edits + 1
    /\ \/ \E t \in Templates \ {galera.data} :
             galera' = [galera EXCEPT !.data = t, !.gen = @ + 1] /\ UNCHANGED relabelled
       \/ galera' = [galera EXCEPT !.special = ~@, !.gen = @ + 1] /\ UNCHANGED relabelled
       \/ \E l \in LabelSets \ {galera.labels} :
             galera' = [galera EXCEPT !.labels = l] /\ relabelled' = TRUE
    /\ UNCHANGED <<revs, pods, svcs, cache, pending, pass, faults>>

PodBecomesReady(p) ==
    /\ pods[p] # NoPod /\ ~pods[p].ready
    /\ pods' = [pods EXCEPT ![p].ready = TRUE]
    /\ UNCHANGED <<galera, revs, svcs, cache, pending, pass, counters>>

PodIsLost(p) ==
    /\ pods[p] # NoPod /\ Fault
    /\ pods' = [pods EXCEPT ![p] = NoPod]
    /\ UNCHANGED <<galera, revs, svcs, cache, pending, pass, edits, relabelled>>

ServiceIsRemoved(s) ==
    /\ svcs[s].live /\ Fault
    /\ Put(s, NoService)
    /\ UNCHANGED <<galera, revs, pods, cache, pass, edits, relabelled>>

Pass ==
    \/ StartPass \/ GetGaleraRevisions \/ RunGalera \/ CreateOrUpdateService
    \/ UpdateGaleraStatus \/ DeleteControllerRevision

Next ==
    \/ Pass \/ ServiceCallFails \/ PassFails \/ OperatorRestarts
    \/ InformerCatchesUp \/ UserEdits
    \/ \E p \in Pods : PodBecomesReady(p) \/ PodIsLost(p)
    \/ \E s \in Services : ServiceIsRemoved(s)

(* Passes are repeated by the resync of the informers, informers deliver   *)
(* what happened and pods start.                                           *)
Fairness ==
    /\ WF_vars(Pass) /\ WF_vars(InformerCatchesUp)
    /\ \A p \in Pods : WF_vars(PodBecomesReady(p))

Spec == Init /\ [][Next]_vars /\ Fairness

-----------------------------------------------------------------------------
(* Properties                                                              *)

(* The history is only truncated behind what is in use: the current        *)
(* revision of the status and the revision of every pod stay stored, at    *)
(* whichever of its calls a pass fails (truncateHistory).                  *)
NamedRevisionsExist ==
    \A t \in {galera.status.current} \cup {pods[p].rev : p \in Pods} :
        t # NoName => revs[t] # NoRev

(* Failing calls and crashes or not, the history settles: the stored       *)
(* revisions nobody uses are not more than the limit, and the newest one   *)
(* is that of the resource, after a return to an old template too.  (Under *)
(* other labels old revisions are not found any more.)                     *)
HistorySettles ==
    <>[](\/ relabelled
         \/ /\ Cardinality({t \in Existing(revs) : t # galera.data /\ t # galera.status.current
                               /\ \A p \in Pods : pods[p].rev # t}) <= HistoryLimit
            /\ \A t \in Existing(revs) \ {galera.data} : revs[t].number < revs[galera.data].number)

(* Every service comes up and is brought back when somebody removes it,    *)
(* and that of the special node follows the resource, also when single     *)
(* calls fail (createOrUpdateServices, CreateOrUpdateGaleraPDB).           *)
ServicesComeUp ==
    <>[](\A s \in Services : svcs[s].live <=> (s # "special" \/ galera.special))
=============================================================================
