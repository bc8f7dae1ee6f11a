--------------------------- MODULE GaleraControl ---------------------------
(***************************************************************************)
(* The reconcile loop of the Galera controller for one Galera resource     *)
(* (phases "", Creating and Running; no Special node, no restore), the     *)
(* Kubernetes objects it works on and the world around it.                 *)
(*                                                                         *)
(* A pass (syncHandler -> SyncGalera -> syncGalera -> runGalera) reads the *)
(* informer caches, asks MariaDB which ready pods are Primary, and from    *)
(* that decides which API calls it will make, in which order, and which    *)
(* status it will write at the end.  The decision is one step; every API   *)
(* call that follows is a step of its own, so that the world, the caches   *)
(* and a crash of the operator may come between any two of them.  The      *)
(* workqueue never runs two passes of one resource at the same time.       *)
(***************************************************************************)
EXTENDS GaleraPods, FiniteSets

CONSTANTS
    Names,        \* the suffixes a pod and its claims can have
    Revs,         \* revisions: one for each (pod template, claim spec) pair
    FirstRev,     \* the revision of the resource when it is created
    Edits,        \* <<r, s>>: the user may edit the resource from r to s
    Image,        \* the MariaDB image of a revision
    ClaimSpec,    \* the volume requirements of a revision
    CanUpgrade,   \* verdict on <<current, next>>: "yes", "no" or "error"
    InitReplicas, \* spec.replicas at creation
    Scales,       \* <<n, m>>: the user may change spec.replicas from n to m
    Lagging,      \* informers that may lag: subset of {"pods", "claims", "galera"}
    MaxGen,       \* bound: generations of the resource (user edits and scalings)
    MaxErrors,    \* bound: passes cut short by an API error or an operator crash
    MaxFailures,  \* bound: pods whose container dies
    MaxPartitions, \* bound: pods that lose the Primary component
    MaxEvents     \* bound: all of these together

NoRev == 0

ASSUME NamesAssumption == IsFiniteSet(Names) /\ NoMember \notin Names
ASSUME RevsAssumption ==
    /\ Revs \subseteq Nat \ {NoRev}
    /\ FirstRev \in Revs
    /\ Edits \subseteq Revs \X Revs
ASSUME VerdictAssumption ==
    /\ CanUpgrade \in [Revs \X Revs -> {"yes", "no", "error"}]
    /\ \A r \in Revs : CanUpgrade[<<r, r>>] = "yes"
ASSUME SizeAssumption ==
    /\ InitReplicas \in Nat \ {0}
    /\ Scales \subseteq (Nat \ {0}) \X (Nat \ {0})
    /\ {MaxGen, MaxErrors, MaxFailures, MaxPartitions, MaxEvents} \subseteq Nat

VARIABLES
    spec,        \* the resource: rev, replicas, gen (metadata.generation)
    status,      \* its status, as stored by the API server
    pods,        \* pods as stored by the API server
    claims,      \* data claims
    bkps,        \* backup claims
    data,        \* content of the volume behind each data claim
    bootstrapped,\* a database has been initialised for this cluster
    seen,        \* the three informer caches
    patches,     \* label patches the running pass sends first
    todo,        \* the other API calls it has still to make
    result,      \* status the running pass will write at its end
    errors, failures, partitions \* how many of each have happened

world   == <<spec, status, pods, claims, bkps, data, bootstrapped>>
pass    == <<patches, todo, result>>
counts  == <<errors, failures, partitions>>
vars    == <<spec, status, pods, claims, bkps, data, bootstrapped, seen, patches, todo, result,
             errors, failures, partitions>>

-----------------------------------------------------------------------------
(* Values. *)
NoClaim  == [rev |-> NoRev]
NoStatus == [phase |-> "unset"]
NoData   == [ver |-> NoRev, db |-> FALSE]
BkpStates == {"none", "bound", "terminating"}

Phases == {"", "Creating", "Running"}
Labels == [rev : Revs, role : RoleLabels, reader : BOOLEAN, backup : BOOLEAN]
Pods   == [rev : Revs, role : RoleLabels, reader : BOOLEAN, backup : BOOLEAN,
           tmpl : Revs, state : {"cluster", "standalone"}, init : BOOLEAN,
           phase : {"Pending", "Ready", "Failed"}, term : BOOLEAN, wsrep : WsrepStates]
Claims == [rev : Revs, claimSpec : {ClaimSpec[r] : r \in Revs}, term : BOOLEAN]
Statuses == [phase : Phases, upgrading : BOOLEAN, gen : Nat,
             current : Revs \cup {NoRev}, next : Revs \cup {NoRev},
             replicas : Int, currentReplicas : Int, nextReplicas : Int,
             ready : Nat, unready : Nat]

Spec0   == [rev |-> FirstRev, replicas |-> InitReplicas, gen |-> 1]
Status0 == [phase |-> "", upgrading |-> FALSE, gen |-> 0, current |-> NoRev, next |-> NoRev,
            replicas |-> 0, currentReplicas |-> 0, nextReplicas |-> 0, ready |-> 0, unready |-> 0]

(* What the informers hold; an informer that does not lag holds the truth. *)
CachedPods   == IF "pods" \in Lagging THEN seen.pods ELSE pods
CachedClaims == IF "claims" \in Lagging THEN seen.claims ELSE claims
CachedBkps   == IF "claims" \in Lagging THEN seen.bkps ELSE bkps
CachedSpec   == IF "galera" \in Lagging THEN seen.spec ELSE spec
CachedStatus == IF "galera" \in Lagging THEN seen.status ELSE status

Init ==
    /\ spec = Spec0
    /\ status = Status0
    /\ pods = [n \in Names |-> NoPod]
    /\ claims = [n \in Names |-> NoClaim]
    /\ bkps = [n \in Names |-> "none"]
    /\ data = [n \in Names |-> NoData]
    /\ bootstrapped = FALSE
    /\ seen = [pods |-> pods, claims |-> claims, bkps |-> bkps, spec |-> spec, status |-> status]
    /\ patches = << >>
    /\ todo = << >>
    /\ result = NoStatus
    /\ errors = 0 /\ failures = 0 /\ partitions = 0

-----------------------------------------------------------------------------
(* What a pass sees. *)
CurrentRevision == IF CachedStatus.current = NoRev THEN CachedSpec.rev ELSE CachedStatus.current
NextRevision == CachedSpec.rev

(* nextGalera: the template used for new pods.  When the upgrade is        *)
(* refused it is the current one, although nextRevision keeps its name.    *)
Verdict == IF CachedStatus.upgrading THEN "yes" ELSE CanUpgrade[<<CurrentRevision, NextRevision>>]
Template == IF Verdict = "no" THEN CurrentRevision ELSE NextRevision

Listed == {n \in Names : CachedPods[n] # NoPod}
Live   == {n \in Listed : ~IsTerminating(CachedPods[n])}

(* IsPrimary is asked of the running pod itself, not of the cache: a pod   *)
(* the cache shows as ready may have gone or failed, and not answer.       *)
Asked  == {n \in Live : IsRunningAndReady(CachedPods[n])}
Silent == {n \in Asked : pods[n] = NoPod \/ ~IsRunningAndReady(pods[n])}
PrimaryPods == {n \in Asked \ Silent : IsPrimary(pods[n])}

(* Healthy pods without their claims (a backup pod needs two). *)
HasClaims(n) ==
    IF CachedPods[n].backup
    THEN CachedClaims[n] # NoClaim /\ CachedBkps[n] # "none"
    ELSE CachedClaims[n] # NoClaim \/ CachedBkps[n] # "none"
PodsWithoutClaims == {n \in Listed : IsHealthy(CachedPods[n]) /\ ~HasClaims(n)}

WithRole(role) == {n \in PrimaryPods : CachedPods[n].role = role}
Backups == {n \in PrimaryPods : CachedPods[n].backup}

(* The loop over the pods, in the order ord, stops at the second ready     *)
(* Backup pod or at a pod that does not answer.  A second Writer or        *)
(* BackupWriter is demoted to reader.                                      *)
View(ord) ==
    LET bkp    == FirstIn(ord, Backups)
        stop   == FirstIn(ord, (Backups \ {bkp}) \cup Silent)
        last   == IF stop = NoMember THEN Len(ord) ELSE CHOOSE i \in DOMAIN ord : ord[i] = stop
        scan   == {ord[i] : i \in 1..last}
        w      == FirstIn(ord, scan \cap WithRole("writer"))
        b      == FirstIn(ord, scan \cap WithRole("backup-writer"))
        Counted(r) == {n \in scan \cap Live : n # stop /\ CachedPods[n].rev = r}
    IN  [ord     |-> ord,
         ready   |-> {n \in scan \cap PrimaryPods : Useful(CachedPods[n])},
         unready |-> (scan \cap Live) \ PrimaryPods,
         members |-> [writer |-> w, bkpWriter |-> b, backup |-> bkp],
         stop    |-> stop,
         dups    |-> scan \cap ((WithRole("writer") \ {w}) \cup (WithRole("backup-writer") \ {b})),
         status  |-> [phase |-> CachedStatus.phase, upgrading |-> CachedStatus.upgrading,
                      gen |-> CachedSpec.gen, current |-> CurrentRevision, next |-> NextRevision,
                      replicas |-> last,
                      currentReplicas |-> Cardinality(Counted(CurrentRevision)),
                      nextReplicas |-> Cardinality(Counted(NextRevision)),
                      ready |-> 0, unready |-> 0]]

(* The patches sent while the pods are sorted, for the sequence d of       *)
(* demoted pods.                                                           *)
Demotions(d) ==
    [i \in 1..Len(d) |-> Patch(d[i], AddReader(RemoveRole(LabelsOf(CachedPods[d[i]]))))]

(* All label patches of the pass: the demotions, then those of setLabels. *)
Labelling(v, d) ==
    LET l == SetLabels(CachedPods, v.ord, v.ready, v.members)
    IN  [l EXCEPT !.patches = Demotions(d) \o @]

-----------------------------------------------------------------------------
(* The status a pass ends with. *)

(* Mutant: the pods of the next revision are not counted. *)
CompleteWithoutCounting(st) ==
    IF st.ready = st.replicas /\ st.replicas = CachedSpec.replicas
    THEN [st EXCEPT !.currentReplicas = st.nextReplicas, !.current = st.next,
                    !.nextReplicas = 0, !.next = NoRev]
    ELSE st

(* completeRollingUpdate *)
CompleteRollingUpdate(st) ==
    IF /\ st.nextReplicas = st.replicas
       /\ st.ready = st.replicas
       /\ st.replicas = CachedSpec.replicas
    THEN [st EXCEPT !.currentReplicas = st.nextReplicas, !.current = st.next,
                    !.nextReplicas = 0, !.next = NoRev]
    ELSE st

(* inconsistentStatus: neither the phase nor the conditions are compared. *)
InconsistentStatus(st) ==
    \/ st.gen > CachedStatus.gen
    \/ \E f \in {"replicas", "currentReplicas", "nextReplicas", "ready", "unready",
                 "current", "next"} : st[f] # CachedStatus[f]

(* updateGaleraStatus, up to the API call. *)
StatusToWrite(st) ==
    LET done == CompleteRollingUpdate(st)
    IN  IF InconsistentStatus(done) THEN done ELSE NoStatus

WithMembers(v) == [v.status EXCEPT !.ready = Cardinality(v.ready), !.unready = Cardinality(v.unready)]

(* setStatusPhaseAndConditions, when the cluster is not lost. *)
SetStatusPhaseAndConditions(v) ==
    LET st == WithMembers(v)
    IN  CASE st.phase = "Creating" /\ st.replicas = CachedSpec.replicas -> [st EXCEPT !.phase = "Running"]
          [] st.phase = "Running" -> [st EXCEPT !.upgrading = Image[CurrentRevision] # Image[Template]]
          [] OTHER -> st

-----------------------------------------------------------------------------
(***************************************************************************)
(* The decisions of a pass, in the order of the early returns of           *)
(* runGalera.  Each one fixes the label patches, the other API calls and   *)
(* the status to write.                                                    *)
(***************************************************************************)
DeletePod(n)        == [op |-> "deletePod", pod |-> n]
CheckSynced(n)      == [op |-> "checkSynced", pod |-> n]
MysqlUpgrade(n)     == [op |-> "mysqlUpgrade", pod |-> n]
PatchClaim(n, r)    == [op |-> "patchClaim", pod |-> n, rev |-> r]
CreateClaim(n, r, c) == [op |-> "createClaim", pod |-> n, rev |-> r, claimSpec |-> c]
CreateBkp(n)        == [op |-> "createBkp", pod |-> n]
CreatePod(n, p)     == [op |-> "createPod", pod |-> n, new |-> p]
DeleteClaim(n)      == [op |-> "deleteClaim", pod |-> n]
DeleteBkp(n)        == [op |-> "deleteBkp", pod |-> n]

Idle == patches = << >> /\ todo = << >> /\ result = NoStatus

Decide(ps, ops, st) ==
    /\ patches' = ps
    /\ todo' = ops
    /\ result' = st

(* First pass on a new resource: phase "" becomes Creating. *)
SyncNew ==
    /\ CachedStatus.phase = ""
    /\ Decide(<< >>, << >>,
              StatusToWrite([Status0 EXCEPT !.phase = "Creating", !.gen = CachedSpec.gen,
                                            !.current = CurrentRevision, !.next = NextRevision]))

(* A healthy pod without its claims is deleted; nothing has been counted.  *)
SyncDeletePodWithoutClaims ==
    \E n \in PodsWithoutClaims :
        Decide(<< >>, <<DeletePod(n)>>,
               StatusToWrite([Status0 EXCEPT !.phase = CachedStatus.phase,
                                  !.upgrading = CachedStatus.upgrading, !.gen = CachedSpec.gen,
                                  !.current = CurrentRevision, !.next = NextRevision]))

(* A pod does not answer: the pass returns an error. *)
SyncUnanswered(v, d) ==
    /\ v.stop \in Silent
    /\ Decide(Demotions(d), << >>, NoStatus)

(* A second ready Backup pod is deleted with its data claim. *)
SyncDeleteSecondBackup(v, d) ==
    /\ v.stop \in Backups
    /\ Decide(Demotions(d),
              IF CachedClaims[v.stop] = NoClaim THEN << >>
              ELSE <<DeleteClaim(v.stop), DeletePod(v.stop)>>,
              IF CachedClaims[v.stop] = NoClaim THEN NoStatus ELSE StatusToWrite(v.status))

(* The pods are labelled.  The pass ends here when no candidate was found  *)
(* (an error) or when a pod is still terminating.                          *)
LabelsEndPass(l) == ~l.ok \/ Live # Listed

SyncLabelOnly(v, l) ==
    /\ v.stop = NoMember
    /\ LabelsEndPass(l)
    /\ Decide(l.patches, << >>,
              IF l.ok THEN StatusToWrite(WithMembers(v)) ELSE NoStatus)

(* setStatusPhaseAndConditions: no pod is Primary and two or more are not  *)
(* ready.  The phase is set to Failed, but the error it returns makes      *)
(* SyncGalera drop the status.                                             *)
AllLost(v) == Cardinality(v.ready) = 0 /\ Cardinality(v.unready) > 1

SyncLost(v, l) ==
    /\ v.stop = NoMember
    /\ ~LabelsEndPass(l)
    /\ AllLost(v)
    /\ Decide(l.patches, << >>, NoStatus)

(* Beyond this point the labels are set and no pod is terminating. *)
Settled(v, l) == v.stop = NoMember /\ ~LabelsEndPass(l) /\ ~AllLost(v)

(* deleteNoMatchingClaimsAndListUnusedClaims: the first terminating or     *)
(* superfluous claim ends the pass; the claims come in no particular order.*)
UnusedClaims == {n \in Names : CachedClaims[n] # NoClaim} \ Live
Matching(n)  == CachedClaims[n].claimSpec = ClaimSpec[Template]
BkpSuffixes  == {n \in Live : CachedPods[n].backup}
TerminatingClaims == {n \in Names : CachedClaims[n] # NoClaim /\ CachedClaims[n].term}
TerminatingBkps   == {n \in Names : CachedBkps[n] = "terminating"}
UnusedBkps   == {n \in Names : CachedBkps[n] = "bound"} \ BkpSuffixes
(* Mutant: claims that a pod uses are deleted too. *)
NoMatchClaimsInUse == {n \in Names : CachedClaims[n] # NoClaim /\ ~Matching(n)}

NoMatchClaims == {n \in UnusedClaims \ TerminatingClaims : ~Matching(n)}
ClaimsClean  == TerminatingClaims \cup TerminatingBkps \cup UnusedBkps \cup NoMatchClaims = {}

SyncCleanClaims(v, l) ==
    /\ Settled(v, l)
    /\ \/ /\ TerminatingClaims \cup TerminatingBkps # {}
          /\ Decide(l.patches, << >>, StatusToWrite(SetStatusPhaseAndConditions(v)))
       \/ \E n \in UnusedBkps :
            Decide(l.patches, <<DeleteBkp(n)>>, StatusToWrite(SetStatusPhaseAndConditions(v)))
       \/ \E n \in NoMatchClaims :
            Decide(l.patches, <<DeleteClaim(n)>>, StatusToWrite(SetStatusPhaseAndConditions(v)))

(* checkMysqlUpgrade: the first unready pod that runs, and whose claim is  *)
(* of another revision, has its data upgraded.  The pod is deleted before  *)
(* the claim gets its new label.                                           *)
UpgradeDue(v) == {n \in v.unready : /\ IsRunningAndReady(CachedPods[n])
                                    /\ CachedPods[n].rev # CachedClaims[n].rev}

(* Mutant: the claim is relabelled before its data is upgraded. *)
MysqlUpgradeLast(v, l) ==
    /\ Settled(v, l) /\ ClaimsClean
    /\ \E n \in UpgradeDue(v) :
        /\ n = FirstIn(v.ord, UpgradeDue(v))
        /\ Decide(l.patches,
                  <<PatchClaim(n, CachedPods[n].rev), MysqlUpgrade(n), DeletePod(n)>>,
                  StatusToWrite(SetStatusPhaseAndConditions(v)))

SyncMysqlUpgrade(v, l) ==
    /\ Settled(v, l) /\ ClaimsClean
    /\ \E n \in UpgradeDue(v) :
        /\ n = FirstIn(v.ord, UpgradeDue(v))
        /\ Decide(l.patches,
                  <<MysqlUpgrade(n), DeletePod(n), PatchClaim(n, CachedPods[n].rev)>>,
                  StatusToWrite(SetStatusPhaseAndConditions(v)))

Deployable(v, l) == Settled(v, l) /\ ClaimsClean /\ UpgradeDue(v) = {}
(* Mutant: a pod that is not ready counts as well. *)
TooFewPods(v) == Cardinality(v.ready) + Cardinality(v.unready) < CachedSpec.replicas
TooFew(v) == Cardinality(v.ready) < CachedSpec.replicas

(* checkUnreadyPodBeforeCreatingPod: the first unready pod that does not   *)
(* run is deleted when it has failed, otherwise waited for.                *)
(* Mutant: a pod that is still starting is not waited for. *)
OnlyFailed(v) == {n \in v.unready : IsFailed(CachedPods[n])}
NotRunning(v) == {n \in v.unready : ~IsRunningAndReady(CachedPods[n])}

Less(st, r) == [st EXCEPT !.currentReplicas = IF r = CurrentRevision THEN @ - 1 ELSE @,
                          !.nextReplicas = IF r = NextRevision THEN @ - 1 ELSE @]

SyncCheckUnready(v, l) ==
    /\ Deployable(v, l) /\ TooFew(v)
    /\ \E n \in NotRunning(v) :
        /\ n = FirstIn(v.ord, NotRunning(v))
        /\ LET st == SetStatusPhaseAndConditions(v)
           IN  \/ /\ IsFailed(CachedPods[n])
                  /\ Decide(l.patches, <<DeletePod(n)>>,
                            StatusToWrite(Less(st, CachedPods[n].rev)))
               \/ /\ ~IsFailed(CachedPods[n])
                  /\ Decide(l.patches, << >>, StatusToWrite(st))

(* createUniquePodName: the suffix of an unused claim, else a random one,  *)
(* which is taken not to collide with an object the caches do not show.    *)
(* Mutant: the claims of lost pods are not taken up again. *)
FreshNames == {n \in Names \ Listed : pods[n] = NoPod /\ claims[n] = NoClaim /\ bkps[n] = "none"}

PodNames == IF UnusedClaims # {} THEN UnusedClaims
            ELSE {n \in Names \ Listed : pods[n] = NoPod /\ claims[n] = NoClaim /\ bkps[n] = "none"}

(* Mutant: the pod joins the cluster whatever the revision of its claim. *)
NewPodInCluster(n, role, init) ==
    LET lab == PodLabelsForGalera(role, NextRevision)
    IN  [rev |-> lab.rev, role |-> lab.role, reader |-> lab.reader, backup |-> lab.backup,
         tmpl |-> Template, state |-> "cluster", init |-> init,
         phase |-> "Pending", term |-> FALSE, wsrep |-> "Disconnected"]

(* newGaleraPod *)
NewPod(n, role, init) ==
    LET exist == CachedClaims[n] # NoClaim
        state == IF exist /\ CachedClaims[n].rev # NextRevision THEN "standalone" ELSE "cluster"
        lab   == PodLabelsForGalera(role, NextRevision)
    IN  [rev |-> lab.rev, role |-> lab.role, reader |-> lab.reader, backup |-> lab.backup,
         tmpl |-> Template, state |-> state, init |-> init,
         phase |-> "Pending", term |-> FALSE, wsrep |-> "Disconnected"]

(* CreatePodAndClaim *)
CreatePodAndClaim(n, p) ==
    (IF CachedClaims[n] = NoClaim THEN <<CreateClaim(n, p.rev, ClaimSpec[Template])>> ELSE << >>)
    \o (IF p.backup /\ CachedBkps[n] = "none" THEN <<CreateBkp(n)>> ELSE << >>)
    \o <<CreatePod(n, p)>>

SyncCreatePod(v, l) ==
    /\ Deployable(v, l) /\ TooFew(v) /\ NotRunning(v) = {}
    /\ \E n \in PodNames :
        LET st == SetStatusPhaseAndConditions(v)
        IN  Decide(l.patches,
                   CreatePodAndClaim(n, NewPod(n, ChoseRole(l.members), v.ready = {})),
                   StatusToWrite([st EXCEPT !.replicas = @ + 1,
                       !.currentReplicas = IF NextRevision = CurrentRevision THEN @ + 1 ELSE @,
                       !.nextReplicas = IF NextRevision = CurrentRevision THEN @ ELSE @ + 1]))

(* considerPodAndClaimTermination: one orphan claim, or all unready pods   *)
(* and, when there are too many ready pods, one plain reader.              *)
(* Mutant: any ready pod may go. *)
VictimWithRole(v) ==
    IF Cardinality(v.ready) > CachedSpec.replicas THEN FirstIn(v.ord, v.ready) ELSE NoMember

Victim(v) ==
    IF Cardinality(v.ready) > CachedSpec.replicas
    THEN FirstIn(v.ord, {n \in v.ready : CachedPods[n].role = "none" /\ ~CachedPods[n].backup})
    ELSE NoMember

DeletePods(u) == [i \in 1..Len(u) |-> DeletePod(u[i])]
DeleteSyncedPod(n) == IF n = NoMember THEN << >> ELSE <<CheckSynced(n), DeletePod(n)>>

(* deletePodForUpgrade: the first ready pod of another revision, with its  *)
(* data claim when the volume requirements have changed.  (The backup      *)
(* claim is never deleted here: the code compares the label's value with   *)
(* "backup", which it never is.)                                           *)
(* Mutant: the Writer is never replaced. *)
OutdatedButWriter(v) ==
    IF CurrentRevision = NextRevision THEN NoMember
    ELSE FirstIn(v.ord, {n \in v.ready : /\ CachedPods[n].rev # NextRevision
                                         /\ CachedPods[n].role # "writer"})

Outdated(v) ==
    IF CurrentRevision = NextRevision THEN NoMember
    ELSE FirstIn(v.ord, {n \in v.ready : CachedPods[n].rev # NextRevision})

DeleteSyncedPodForUpgrade(n) ==
    IF n = NoMember THEN << >>
    ELSE <<CheckSynced(n)>> \o (IF Matching(n) THEN << >> ELSE <<DeleteClaim(n)>>) \o <<DeletePod(n)>>

SyncTerminate(v, l) ==
    /\ Deployable(v, l) /\ ~TooFew(v)
    /\ LET st == SetStatusPhaseAndConditions(v)
           up(s) == IF Outdated(v) = NoMember THEN s ELSE [s EXCEPT !.currentReplicas = @ - 1]
       IN  \/ \E c \in UnusedClaims :
                Decide(l.patches, <<DeleteClaim(c)>> \o DeleteSyncedPodForUpgrade(Outdated(v)),
                       StatusToWrite(up(st)))
           \/ /\ UnusedClaims = {}
              /\ \E u \in InOrder(v.ord, v.unready) :
                   Decide(l.patches,
                          DeletePods(u) \o DeleteSyncedPod(Victim(v))
                                        \o DeleteSyncedPodForUpgrade(Outdated(v)),
                          StatusToWrite(up(IF Victim(v) = NoMember THEN st
                                           ELSE Less(st, CachedPods[Victim(v)].rev))))

(* One pass up to its first API call: runGalera. *)
SyncRun ==
    /\ CachedStatus.phase \in {"Creating", "Running"}
    /\ \/ SyncDeletePodWithoutClaims
       \/ /\ PodsWithoutClaims = {}
          /\ \E v \in {View(ord) : ord \in SetToSeqs(Listed)} :
             \E d \in InOrder(v.ord, v.dups) : \E l \in {Labelling(v, d)} :
                \/ SyncUnanswered(v, d)
                \/ SyncDeleteSecondBackup(v, d)
                \/ SyncLabelOnly(v, l)
                \/ SyncLost(v, l)
                \/ SyncCleanClaims(v, l)
                \/ SyncMysqlUpgrade(v, l)
                \/ SyncCheckUnready(v, l)
                \/ SyncCreatePod(v, l)
                \/ SyncTerminate(v, l)

Sync ==
    /\ Idle
    /\ Verdict # "error"
    /\ SyncNew \/ SyncRun
    /\ UNCHANGED <<world, seen, counts>>

-----------------------------------------------------------------------------
(* The API calls of a pass, one step each. *)
EndPass == patches' = << >> /\ todo' = << >> /\ result' = NoStatus

(* deleteSynced deletes only a pod whose node answers Synced. *)
Answers(n) == pods[n] # NoPod /\ pods[n].phase = "Ready"
Synced(n)  == Answers(n) /\ pods[n].wsrep = "Primary"

(* The API server, the pod or the cached claim lets the call through. *)
Accepted(o) ==
    CASE o.op \in {"patchPod", "deletePod"} -> pods[o.pod] # NoPod
      [] o.op = "createPod"    -> pods[o.pod] = NoPod
      [] o.op = "checkSynced"  -> Synced(o.pod)
      [] o.op = "mysqlUpgrade" -> Answers(o.pod)
      [] o.op = "patchClaim"   -> CachedClaims[o.pod] # NoClaim /\ claims[o.pod] # NoClaim
      [] o.op = "createClaim"  -> claims[o.pod] = NoClaim
      [] o.op = "deleteClaim"  -> claims[o.pod] # NoClaim
      [] o.op = "createBkp"    -> bkps[o.pod] = "none"
      [] o.op = "deleteBkp"    -> bkps[o.pod] # "none"

(* The next call is of this kind and goes through; the pass goes on. *)
Calls(kind) ==
    /\ patches = << >> /\ todo # << >>
    /\ Head(todo).op = kind /\ Accepted(Head(todo))
    /\ todo' = Tail(todo)
    /\ UNCHANGED <<patches, result>>

PatchPodLabels ==
    /\ patches # << >> /\ Accepted(Head(patches))
    /\ pods' = [pods EXCEPT ![Head(patches).pod] =
                   LET l == Head(patches).labels
                   IN  [@ EXCEPT !.rev = l.rev, !.role = l.role,
                                 !.reader = l.reader, !.backup = l.backup]]
    /\ patches' = Tail(patches)
    /\ UNCHANGED <<spec, status, claims, bkps, data, bootstrapped, seen, todo, result, counts>>

CallDeletePod ==
    /\ Calls("deletePod")
    /\ pods' = [pods EXCEPT ![Head(todo).pod].term = TRUE]
    /\ UNCHANGED <<spec, status, claims, bkps, data, bootstrapped, seen, counts>>

CallCreatePod ==
    /\ Calls("createPod")
    /\ pods' = [pods EXCEPT ![Head(todo).pod] = Head(todo).new]
    /\ UNCHANGED <<spec, status, claims, bkps, data, bootstrapped, seen, counts>>

CallCheckSynced ==
    /\ Calls("checkSynced")
    /\ UNCHANGED <<world, seen, counts>>

(* RunUpgradeGalera: mysql_upgrade, run by the binaries of the pod. *)
CallMysqlUpgrade ==
    /\ Calls("mysqlUpgrade")
    /\ LET n == Head(todo).pod IN data' = [data EXCEPT ![n].ver = pods[n].tmpl]
    /\ UNCHANGED <<spec, status, pods, claims, bkps, bootstrapped, seen, counts>>

(* PatchClaimLabels: the claim is looked up in the cache, then patched. *)
CallPatchClaim ==
    /\ Calls("patchClaim")
    /\ claims' = [claims EXCEPT ![Head(todo).pod].rev = Head(todo).rev]
    /\ UNCHANGED <<spec, status, pods, bkps, data, bootstrapped, seen, counts>>

CallCreateClaim ==
    /\ Calls("createClaim")
    /\ claims' = [claims EXCEPT ![Head(todo).pod] =
                     [rev |-> Head(todo).rev, claimSpec |-> Head(todo).claimSpec, term |-> FALSE]]
    /\ UNCHANGED <<spec, status, pods, bkps, data, bootstrapped, seen, counts>>

CallDeleteClaim ==
    /\ Calls("deleteClaim")
    /\ claims' = [claims EXCEPT ![Head(todo).pod].term = TRUE]
    /\ UNCHANGED <<spec, status, pods, bkps, data, bootstrapped, seen, counts>>

CallCreateBkp ==
    /\ Calls("createBkp")
    /\ bkps' = [bkps EXCEPT ![Head(todo).pod] = "bound"]
    /\ UNCHANGED <<spec, status, pods, claims, data, bootstrapped, seen, counts>>

CallDeleteBkp ==
    /\ Calls("deleteBkp")
    /\ bkps' = [bkps EXCEPT ![Head(todo).pod] = "terminating"]
    /\ UNCHANGED <<spec, status, pods, claims, data, bootstrapped, seen, counts>>

(* The call is refused (object not found, already exists, pod does not     *)
(* answer or is not synced): the pass returns an error, without a status.  *)
CallRefused ==
    /\ patches \o todo # << >>
    /\ ~Accepted(Head(patches \o todo))
    /\ EndPass
    /\ UNCHANGED <<world, seen, counts>>

(* UpdateGaleraStatus, at the end of the pass.  A conflict is retried with *)
(* the cached resource and the same status, so the write goes through      *)
(* exactly when the cache has caught up, however old the pass's own view.  *)
UpdateStatus ==
    /\ patches = << >> /\ todo = << >> /\ result # NoStatus
    /\ IF CachedSpec = spec /\ CachedStatus = status THEN status' = result ELSE status' = status
    /\ EndPass
    /\ UNCHANGED <<spec, pods, claims, bkps, data, bootstrapped, seen, counts>>

EventLeft == spec.gen + errors + failures + partitions < MaxEvents

(* An API call, a service or the disruption budget fails, or the operator  *)
(* crashes: the rest of the pass is lost.                                  *)
SyncFails ==
    /\ ~Idle /\ errors < MaxErrors /\ EventLeft
    /\ errors' = errors + 1
    /\ EndPass
    /\ UNCHANGED <<world, seen, failures, partitions>>

-----------------------------------------------------------------------------
(* Kubernetes, MariaDB and the user. *)

Primaries == {n \in Names : pods[n] # NoPod /\ pods[n].wsrep = "Primary"}

(* The volume of a starting pod: initialised when empty, and filled from a *)
(* donor when the pod joins.  A state transfer into an empty volume leaves *)
(* data of the joiner's version.                                           *)
Started(n, db) == [ver |-> IF data[n].ver = NoRev THEN pods[n].tmpl ELSE data[n].ver, db |-> db]

Startable(n) ==
    /\ pods[n] # NoPod /\ pods[n].phase = "Pending" /\ ~pods[n].term
    /\ claims[n] # NoClaim /\ ~claims[n].term
    /\ pods[n].backup => bkps[n] = "bound"

Becomes(n, db, wsrep) ==
    /\ data' = [data EXCEPT ![n] = Started(n, db)]
    /\ pods' = [pods EXCEPT ![n].phase = "Ready", ![n].wsrep = wsrep]

PodStarts(n) ==
    /\ Startable(n)
    /\ \/ /\ pods[n].state = "standalone"
          /\ Becomes(n, data[n].db, "Disconnected")
          /\ UNCHANGED bootstrapped
       \/ /\ pods[n].state = "cluster" /\ pods[n].init
          /\ Becomes(n, data[n].db \/ ~bootstrapped, "Primary")
          /\ bootstrapped' = TRUE
       \/ /\ pods[n].state = "cluster" /\ ~pods[n].init
          /\ \E m \in Primaries : Becomes(n, data[m].db, "Primary")
          /\ UNCHANGED bootstrapped
    /\ UNCHANGED <<spec, status, claims, bkps, seen, pass, counts>>

PodFails(n) ==
    /\ pods[n] # NoPod /\ pods[n].phase = "Ready" /\ failures < MaxFailures /\ EventLeft
    /\ pods' = [pods EXCEPT ![n].phase = "Failed", ![n].wsrep = "Disconnected"]
    /\ failures' = failures + 1
    /\ UNCHANGED <<spec, status, claims, bkps, data, bootstrapped, seen, pass, errors, partitions>>

PodIsGone(n) ==
    /\ pods[n] # NoPod /\ pods[n].term
    /\ pods' = [pods EXCEPT ![n] = NoPod]
    /\ UNCHANGED <<spec, status, claims, bkps, data, bootstrapped, seen, pass, counts>>

(* A claim in use is protected: it goes when its pod has gone. *)
ClaimIsGone(n) ==
    /\ pods[n] = NoPod
    /\ \/ /\ claims[n] # NoClaim /\ claims[n].term
          /\ claims' = [claims EXCEPT ![n] = NoClaim]
          /\ data' = [data EXCEPT ![n] = NoData]
          /\ UNCHANGED bkps
       \/ /\ bkps[n] = "terminating"
          /\ bkps' = [bkps EXCEPT ![n] = "none"]
          /\ UNCHANGED <<claims, data>>
    /\ UNCHANGED <<spec, status, pods, bootstrapped, seen, pass, counts>>

(* A node loses sight of the other nodes, and finds them again. *)
LosesPrimary(n) ==
    /\ n \in Primaries /\ Primaries # {n} /\ partitions < MaxPartitions /\ EventLeft
    /\ \E w \in {"non-Primary", "Disconnected"} : pods' = [pods EXCEPT ![n].wsrep = w]
    /\ partitions' = partitions + 1
    /\ UNCHANGED <<spec, status, claims, bkps, data, bootstrapped, seen, pass, errors, failures>>

RegainsPrimary(n) ==
    /\ pods[n] # NoPod /\ pods[n].phase = "Ready" /\ pods[n].wsrep = "non-Primary"
    /\ pods' = [pods EXCEPT ![n].wsrep = "Primary"]
    /\ UNCHANGED <<spec, status, claims, bkps, data, bootstrapped, seen, pass, counts>>

UserEdits ==
    /\ spec.gen < MaxGen /\ EventLeft
    /\ \E e \in Edits : e[1] = spec.rev /\ spec' = [spec EXCEPT !.rev = e[2], !.gen = @ + 1]
    /\ UNCHANGED <<status, pods, claims, bkps, data, bootstrapped, seen, pass, counts>>

UserScales ==
    /\ spec.gen < MaxGen /\ EventLeft
    /\ \E e \in Scales : e[1] = spec.replicas /\ spec' = [spec EXCEPT !.replicas = e[2], !.gen = @ + 1]
    /\ UNCHANGED <<status, pods, claims, bkps, data, bootstrapped, seen, pass, counts>>

(* A watch event reaches an informer: each cache is some earlier state of  *)
(* its kind of object, and never goes back.                                *)
InformerCatchesUp ==
    /\ \/ "pods" \in Lagging /\ seen' = [seen EXCEPT !.pods = pods]
       \/ "claims" \in Lagging /\ seen' = [seen EXCEPT !.claims = claims, !.bkps = bkps]
       \/ "galera" \in Lagging /\ seen' = [seen EXCEPT !.spec = spec, !.status = status]
    /\ UNCHANGED <<world, pass, counts>>

Call ==
    \/ PatchPodLabels \/ CallDeletePod \/ CallCreatePod \/ CallCheckSynced \/ CallMysqlUpgrade
    \/ CallPatchClaim \/ CallCreateClaim \/ CallDeleteClaim \/ CallCreateBkp \/ CallDeleteBkp
    \/ CallRefused \/ UpdateStatus

Environment ==
    \/ \E n \in Names : \/ PodStarts(n) \/ PodIsGone(n) \/ ClaimIsGone(n)
                        \/ PodFails(n) \/ LosesPrimary(n) \/ RegainsPrimary(n)
    \/ UserEdits \/ UserScales \/ InformerCatchesUp

Next == Sync \/ Call \/ SyncFails \/ Environment

Spec == Init /\ [][Next]_vars

-----------------------------------------------------------------------------
(* Properties. *)

Ops == [op : {"deletePod", "checkSynced", "mysqlUpgrade", "createBkp", "deleteClaim", "deleteBkp"},
        pod : Names]
       \cup [op : {"patchClaim"}, pod : Names, rev : Revs]
       \cup [op : {"createClaim"}, pod : Names, rev : Revs, claimSpec : {ClaimSpec[r] : r \in Revs}]
       \cup [op : {"createPod"}, pod : Names, new : Pods]

(* Type invariant: every object the operator and Kubernetes keep has the   *)
(* shape the code gives it.                                                *)
TypeOK ==
    /\ spec \in [rev : Revs, replicas : Nat \ {0}, gen : Nat]
    /\ status \in Statuses
    /\ pods \in [Names -> Pods \cup {NoPod}]
    /\ claims \in [Names -> Claims \cup {NoClaim}]
    /\ bkps \in [Names -> BkpStates]
    /\ data \in [Names -> [ver : Revs \cup {NoRev}, db : BOOLEAN]]
    /\ bootstrapped \in BOOLEAN
    /\ seen \in [pods : [Names -> Pods \cup {NoPod}], claims : [Names -> Claims \cup {NoClaim}],
                 bkps : [Names -> BkpStates],
                 spec : [rev : Revs, replicas : Nat \ {0}, gen : Nat], status : Statuses]
    /\ patches \in Seq([op : {"patchPod"}, pod : Names, labels : Labels])
    /\ todo \in Seq(Ops)
    /\ result \in Statuses \cup {NoStatus}
    /\ errors \in Nat /\ failures \in Nat /\ partitions \in Nat

(* A node that takes part in the cluster runs on data that its own         *)
(* template has initialised or upgraded: the standalone detour of          *)
(* checkMysqlUpgrade (run mysql_upgrade, delete the pod, relabel the       *)
(* claim) is never short-circuited, wherever the operator crashes in it    *)
(* and however stale its caches are.                                       *)
UpgradedBeforeJoin ==
    \A n \in Names :
        (pods[n] # NoPod /\ pods[n].phase = "Ready" /\ pods[n].state = "cluster")
            => data[n].ver = pods[n].tmpl

(* Once the database exists, some claim that is not being deleted holds    *)
(* it: the operator never throws the last copy away.                       *)
LastCopyKept ==
    bootstrapped => \E n \in Names : claims[n] # NoClaim /\ ~claims[n].term /\ data[n].db

(* Every node of a Primary component serves the database of the cluster:   *)
(* a node told to bootstrap (no ready pod, hence no bootstrap address)     *)
(* never founds a second, empty cluster.                                   *)
OneDatabase == \A n \in Primaries : data[n].db

(* Pods that serve clients. *)
Serving == {n \in Primaries : ~pods[n].term}

(* Availability: in phase Running the operator takes at most one node away *)
(* at a time (deletePodForUpgrade, considerPodAndClaimTermination), on top *)
(* of the nodes that failed or left the Primary component by themselves.   *)
OneNodeAtATime ==
    status.phase = "Running" => Cardinality(Serving) + 1 + failures + partitions >= InitReplicas

(* A revision becomes the current one (completeRollingUpdate) only when    *)
(* every pod has been built from its template.                             *)
AdoptedWhenDeployed ==
    [][(status'.current # status.current /\ status.current # NoRev)
           => \A n \in Names : pods[n] # NoPod => pods[n].tmpl = status'.current]_vars

(* checkUnreadyPodBeforeCreatingPod: no pod is created while another one   *)
(* has not started yet.                                                    *)
NoPodBesideUnready ==
    [][\A n \in Names : (pods[n] = NoPod /\ pods'[n] # NoPod)
           => \A m \in Names : pods[m] # NoPod => pods[m].phase # "Pending"]_vars

(* setLabels: a node that serves has a role, is the Backup node or reads:  *)
(* otherwise no service selects it and no pass counts it any more.         *)
NoIdleNode ==
    \A n \in Serving : Useful(pods[n])

(* considerPodAndClaimTermination: a serving node of the wanted revision   *)
(* is never stopped while it is the Writer, the BackupWriter or the Backup *)
(* node; scaling down takes plain readers.                                 *)
RolesSpared ==
    [][\A n \in Serving : (pods[n].rev = spec.rev /\ pods'[n] # NoPod /\ pods'[n].term)
           => pods[n].role = "none" /\ ~pods[n].backup]_vars

Fairness ==
    /\ WF_vars(Sync) /\ WF_vars(Call) /\ WF_vars(InformerCatchesUp)
    /\ \A n \in Names : WF_vars(PodStarts(n)) /\ WF_vars(PodIsGone(n)) /\ WF_vars(ClaimIsGone(n))

FairSpec == Spec /\ Fairness

(* The cluster is what the user asked for: the replicas, all Primary, all  *)
(* built from the wanted revision, no claim left over, and the status says *)
(* so.                                                                     *)
AsWanted ==
    /\ Cardinality(Serving) = spec.replicas
    /\ \A n \in Names : pods[n] # NoPod => n \in Serving /\ pods[n].tmpl = spec.rev
    /\ \A n \in Names : claims[n] # NoClaim <=> pods[n] # NoPod
    /\ status.current = spec.rev /\ status.phase = "Running"

(* What setStatusPhaseAndConditions calls a failed cluster. *)
Lost == Primaries = {} /\ Cardinality({n \in Names : pods[n] # NoPod}) > 1

(* Liveness: once the user, the nodes and the API server have calmed down, *)
(* the passes bring the cluster to what is wanted and keep it there.  When *)
(* nodes died, the operator rebuilds the cluster from the surviving        *)
(* claims; only a cluster without any Primary node and with two or more    *)
(* pods left may then stay as it is.                                       *)
Converges == <>[]AsWanted \/ <>[](Lost /\ failures > 0)
=============================================================================
