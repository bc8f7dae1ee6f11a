------------------------- MODULE GaleraDeployProofs -------------------------
(***************************************************************************)
(* What a deployment may rely on, for every set of pod names, any          *)
(* revisions and any bounds: pods are created one at a time (OneCreation), *)
(* a revision is adopted only when it is deployed (AdoptsDeployed), the    *)
(* operator takes one node away at a time (OneNodeAway), the database      *)
(* survives interrupted passes (SurvivesCrashes) and failing nodes         *)
(* (SurvivesFailures), and no node that serves is left without a service   *)
(* (NobodyIdle). All rest on what a pass has read when it decides, and on  *)
(* what may happen between that decision and the calls, or the status,     *)
(* that rely on it.                                                        *)
(***************************************************************************)
EXTENDS GaleraControlProofs, GaleraDeployInv

(* What every step but the creation of a pod does to the pods: no new one, *)
(* none with another template, and none that goes back to starting.        *)
PodsAge ==
    \A n \in Names : pods'[n] # NoPod =>
        /\ pods[n] # NoPod
        /\ pods'[n].tmpl = pods[n].tmpl
        /\ pods'[n].phase = "Pending" => pods[n].phase = "Pending"

(* One pod changes, and does not become another one. *)
LEMMA OnePodAges ==
    ASSUME TypeOK, NEW n \in Names, pods[n] # NoPod, NEW q, pods' = [pods EXCEPT ![n] = q],
           q = NoPod \/ (/\ q.tmpl = pods[n].tmpl
                         /\ q.phase = "Pending" => pods[n].phase = "Pending")
    PROVE  PodsAge
<1>1. pods \in [Names -> Pods \cup {NoPod}]
    BY DEF TypeOK
<1> QED BY <1>1 DEF PodsAge

(* Only CreatePodAndClaim makes a pod. *)
LEMMA PodsOnlyAge ==
    ASSUME TypeOK, [Next]_vars, ~CallCreatePod PROVE PodsAge
<1>1. pods \in [Names -> Pods \cup {NoPod}]
    BY DEF TypeOK
<1>2. \A n \in Names : pods[n] # NoPod => pods[n] \in Pods
    BY <1>1
<1>3. CASE PatchPodLabels
    <2> DEFINE n == Head(patches).pod
               l == Head(patches).labels
    <2>1. n \in Names /\ Head(patches).op = "patchPod"
        <3> DEFINE Q == [op : {"patchPod"}, pod : Names, labels : Labels]
        <3>1. patches \in Seq(Q) /\ patches # << >>
            BY <1>3 DEF TypeOK, PatchPodLabels
        <3> HIDE DEF Q
        <3>2. Head(patches) \in Q
            BY <3>1
        <3> QED BY <3>2 DEF Q
    <2>2. pods[n] # NoPod
        BY <1>3, <2>1 DEF PatchPodLabels, Accepted
    <2> DEFINE q == [pods[n] EXCEPT !.rev = l.rev, !.role = l.role,
                                    !.reader = l.reader, !.backup = l.backup]
    <2>3. pods' = [pods EXCEPT ![n] = q]
        BY <1>3 DEF PatchPodLabels
    <2>4. q.tmpl = pods[n].tmpl /\ q.phase = pods[n].phase
        BY <1>2, <2>1, <2>2 DEF Pods
    <2> HIDE DEF n, q
    <2> QED BY <2>1, <2>2, <2>3, <2>4, OnePodAges
<1>4. CASE CallDeletePod
    <2> DEFINE n == Head(todo).pod
               q == [pods[n] EXCEPT !.term = TRUE]
    <2>1. Head(todo) \in Ops
        BY <1>4 DEF TypeOK, CallDeletePod, Calls
    <2>2. n \in Names
        BY <2>1, OpType
    <2>3. pods[n] # NoPod
        BY <1>4 DEF CallDeletePod, Calls, Accepted
    <2>4. pods' = [pods EXCEPT ![n] = q]
        BY <1>4 DEF CallDeletePod
    <2>5. q.tmpl = pods[n].tmpl /\ q.phase = pods[n].phase
        BY <1>2, <2>2, <2>3 DEF Pods
    <2> HIDE DEF n, q
    <2> QED BY <2>2, <2>3, <2>4, <2>5, OnePodAges
<1>5. ASSUME NEW n \in Names, PodStarts(n) PROVE PodsAge
    <2>1. PICK w : pods' = [pods EXCEPT ![n].phase = "Ready", ![n].wsrep = w]
        BY <1>5 DEF PodStarts, Becomes
    <2> DEFINE q == [pods[n] EXCEPT !.phase = "Ready", !.wsrep = w]
    <2>2. pods[n] # NoPod
        BY <1>5 DEF PodStarts, Startable
    <2>3. pods' = [pods EXCEPT ![n] = q]
        BY <1>1, <2>1
    <2>4. q.tmpl = pods[n].tmpl /\ q.phase = "Ready"
        BY <1>2, <2>2 DEF Pods
    <2> HIDE DEF q
    <2> QED BY <2>2, <2>3, <2>4, OnePodAges
<1>6. ASSUME NEW n \in Names, PodFails(n) PROVE PodsAge
    <2> DEFINE q == [pods[n] EXCEPT !.phase = "Failed", !.wsrep = "Disconnected"]
    <2>1. pods[n] # NoPod
        BY <1>6 DEF PodFails
    <2>2. pods' = [pods EXCEPT ![n] = q]
        BY <1>1, <1>6 DEF PodFails
    <2>3. q.tmpl = pods[n].tmpl /\ q.phase = "Failed"
        BY <1>2, <2>1 DEF Pods
    <2> HIDE DEF q
    <2> QED BY <2>1, <2>2, <2>3, OnePodAges
<1>7. ASSUME NEW n \in Names, PodIsGone(n) PROVE PodsAge
    BY <1>7, OnePodAges DEF PodIsGone
<1>8. ASSUME NEW n \in Names, LosesPrimary(n) \/ RegainsPrimary(n) PROVE PodsAge
    <2>1. PICK w : pods' = [pods EXCEPT ![n].wsrep = w]
        BY <1>8 DEF LosesPrimary, RegainsPrimary
    <2> DEFINE q == [pods[n] EXCEPT !.wsrep = w]
    <2>2. pods[n] # NoPod
        BY <1>8 DEF LosesPrimary, RegainsPrimary, Primaries
    <2>3. pods' = [pods EXCEPT ![n] = q]
        BY <2>1
    <2>4. q.tmpl = pods[n].tmpl /\ q.phase = pods[n].phase
        BY <1>2, <2>2 DEF Pods
    <2> HIDE DEF q
    <2> QED BY <2>2, <2>3, <2>4, OnePodAges
<1>9. CASE pods' = pods
    BY <1>9 DEF PodsAge
<1>10. CASE Sync \/ SyncFails \/ UNCHANGED vars
    BY <1>9, <1>10 DEF Sync, SyncFails, vars, world
<1>11. CASE Call
    <2>1. \/ PatchPodLabels \/ CallDeletePod \/ pods' = pods
        BY <1>11 DEF Call, CallCheckSynced, CallMysqlUpgrade, CallPatchClaim, CallCreateClaim,
            CallDeleteClaim, CallCreateBkp, CallDeleteBkp, CallRefused, UpdateStatus, world
    <2> QED BY <1>3, <1>4, <1>9, <2>1
<1>12. CASE Environment
    <2>1. \/ \E n \in Names : \/ PodStarts(n) \/ PodIsGone(n) \/ PodFails(n)
                              \/ LosesPrimary(n) \/ RegainsPrimary(n)
          \/ pods' = pods
        BY <1>12 DEF Environment, ClaimIsGone, UserEdits, UserScales, InformerCatchesUp, world
    <2> QED BY <1>5, <1>6, <1>7, <1>8, <1>9, <2>1
<1> QED BY <1>10, <1>11, <1>12 DEF Next

(* Between two decisions the calls of a pass only get fewer, and the       *)
(* status it will write stays, until it is written or dropped.             *)
LEMMA PassGoesOn ==
    ASSUME TypeOK, [Next]_vars, ~Sync
    PROVE  /\ \E k \in Nat : TodoLeft(k)
           /\ result' \in {result, NoStatus}
           /\ status' # status => UpdateStatus
<1>1. Len(todo) \in Nat
    BY DEF TypeOK
<1>2. todo' = todo \/ (todo # << >> /\ todo' = Tail(todo)) \/ todo' = << >>
      => \E k \in Nat : TodoLeft(k)
    BY <1>1, PassStep
<1>3. CASE SyncFails \/ UNCHANGED vars
    BY <1>2, <1>3 DEF SyncFails, EndPass, vars, world
<1>4. CASE Call
    <2>1. \/ todo' = todo /\ result' = result
          \/ todo # << >> /\ todo' = Tail(todo) /\ result' = result
          \/ todo' = << >> /\ result' = NoStatus
        BY <1>4 DEF Call, Calls, EndPass, PatchPodLabels, CallDeletePod, CallCreatePod,
            CallCheckSynced, CallMysqlUpgrade, CallPatchClaim, CallCreateClaim,
            CallDeleteClaim, CallCreateBkp, CallDeleteBkp, CallRefused, UpdateStatus
    <2>2. status' # status => UpdateStatus
        BY <1>4 DEF Call, PatchPodLabels, CallDeletePod, CallCreatePod,
            CallCheckSynced, CallMysqlUpgrade, CallPatchClaim, CallCreateClaim,
            CallDeleteClaim, CallCreateBkp, CallDeleteBkp, CallRefused, world
    <2> QED BY <1>2, <2>1, <2>2
<1>5. CASE Environment
    <2>1. UNCHANGED <<todo, result, status>>
        BY <1>5 DEF Environment, PodStarts, PodIsGone, ClaimIsGone, PodFails, LosesPrimary,
            RegainsPrimary, UserEdits, UserScales, InformerCatchesUp, pass, world
    <2> QED BY <1>2, <2>1
<1> QED BY <1>3, <1>4, <1>5 DEF Next

(***************************************************************************)
(* What a decision says of the call that creates a pod: it is the last of  *)
(* its pass, no pod is starting in what the pass has read, and the status  *)
(* to write keeps the current revision.                                    *)
(***************************************************************************)
LEMMA DecidesToCreate ==
    ASSUME TypeOK, Sync, NEW i \in 1..Len(todo'), todo'[i].op = "createPod"
    PROVE  /\ i = Len(todo')
           /\ \A n \in Listed : CachedPods[n].phase # "Pending"
           /\ result' # NoStatus => result'.current = CurrentRevision
<1>1. Planned
    BY Plan
<1>2. CASE PlansDeletion
    <2>1. todo'[i] \in Quiet
        BY <1>2 DEF PlansDeletion
    <2> QED BY <2>1 DEF Quiet
<1>3. CASE PlansUpgrade
    <2>1. PICK n \in Live :
             todo' = <<MysqlUpgrade(n), DeletePod(n), PatchClaim(n, CachedPods[n].rev)>>
        BY <1>3 DEF PlansUpgrade
    <2>2. Len(todo') = 3 /\ i \in {1, 2, 3}
        BY <2>1
    <2> QED BY <2>1, <2>2 DEF MysqlUpgrade, DeletePod, PatchClaim
<1>4. CASE PlansPod
    <2>1. PICK n \in PodNames, role \in Roles, init \in BOOLEAN :
             todo' = CreatePodAndClaim(n, NewPod(n, role, init))
        BY <1>4 DEF PlansPod
    <2>2. n \in Names
        BY DEF PodNames, UnusedClaims
    <2>3. i = Len(todo')
        BY <2>1, <2>2, PodCalls
    <2> QED BY <1>4, <2>3 DEF PlansPod
<1> QED BY <1>1, <1>2, <1>3, <1>4 DEF Planned

-----------------------------------------------------------------------------
(* Pods are created one at a time. *)

(* Until a pod is created, no other pod is starting. *)
CreatedAlone ==
    \A i \in 1..Len(todo) : todo[i].op = "createPod" =>
        /\ i = Len(todo)
        /\ \A m \in Names : pods[m] # NoPod => pods[m].phase # "Pending"

(* A pass that reads the pods as they are decides to create one only when  *)
(* none is starting, and until the call is made no step brings one back to *)
(* that: the creation is the last call of the pass.                        *)
LEMMA CreatedAloneNext ==
    ASSUME "pods" \notin Lagging, TypeOK, CreatedAlone, [Next]_vars
    PROVE  CreatedAlone'
<1>1. SUFFICES ASSUME NEW i \in 1..Len(todo'), todo'[i].op = "createPod"
               PROVE  /\ i = Len(todo')
                      /\ \A m \in Names : pods'[m] # NoPod => pods'[m].phase # "Pending"
    BY DEF CreatedAlone
<1>2. CASE Sync
    <2>1. pods' = pods /\ Listed = {n \in Names : pods[n] # NoPod} /\ CachedPods = pods
        BY <1>2 DEF Sync, world, Listed, CachedPods
    <2> QED BY <1>1, <1>2, <2>1, DecidesToCreate
<1>3. CASE ~Sync
    <2>1. Len(todo) \in Nat
        BY DEF TypeOK
    <2>2. PICK k \in Nat : TodoLeft(k)
        BY <1>3, PassGoesOn
    <2>3. i + k \in 1..Len(todo) /\ todo[i + k].op = "createPod" /\ Len(todo') = Len(todo) - k
        BY <1>1, <2>1, <2>2 DEF TodoLeft
    <2>4. i + k = Len(todo) /\ \A m \in Names : pods[m] # NoPod => pods[m].phase # "Pending"
        BY <2>3 DEF CreatedAlone
    <2>5. i = Len(todo')
        BY <2>1, <2>3, <2>4
    <2>6. ~CallCreatePod
        <3>1. SUFFICES ASSUME CallCreatePod PROVE FALSE
            OBVIOUS
        <3>2. todo # << >> /\ todo' = Tail(todo) /\ Head(todo).op = "createPod"
            BY <3>1 DEF CallCreatePod, Calls
        <3>3. todo \in Seq(Ops) /\ Head(todo) = todo[1]
            BY <3>2 DEF TypeOK
        <3>4. 1 \in 1..Len(todo) /\ todo[1].op = "createPod"
            BY <3>2, <3>3
        <3>5. Len(todo) = 1
            BY <3>4 DEF CreatedAlone
        <3>6. Len(todo') = Len(todo) - 1
            BY <3>2, <3>3, HeadTailProperties
        <3> QED BY <3>5, <3>6
    <2>7. PodsAge
        BY <2>6, PodsOnlyAge
    <2> QED BY <2>4, <2>5, <2>7 DEF PodsAge
<1> QED BY <1>2, <1>3

(* When the informer of the pods does not lag, no pod is created while     *)
(* another one has not started yet, whatever fails or is edited between    *)
(* the decision and the call (checkUnreadyPodBeforeCreatingPod).           *)
THEOREM OneCreation == ASSUME "pods" \notin Lagging PROVE Spec => NoPodBesideUnready
<1>1. Init => CreatedAlone
    BY DEF Init, CreatedAlone
<1>2. TypeOK /\ CreatedAlone /\ [Next]_vars => CreatedAlone'
    BY CreatedAloneNext
<1>3. ASSUME TypeOK, CreatedAlone, [Next]_vars
      PROVE  [\A n \in Names : (pods[n] = NoPod /\ pods'[n] # NoPod)
                  => \A m \in Names : pods[m] # NoPod => pods[m].phase # "Pending"]_vars
    <2>1. CASE CallCreatePod
        <3>1. todo # << >> /\ Head(todo).op = "createPod"
            BY <2>1 DEF CallCreatePod, Calls
        <3>2. 1 \in 1..Len(todo) /\ todo[1].op = "createPod"
            BY <1>3, <3>1 DEF TypeOK
        <3> QED BY <1>3, <3>2 DEF CreatedAlone
    <2>2. CASE ~CallCreatePod
        BY <1>3, <2>2, PodsOnlyAge DEF PodsAge
    <2> QED BY <2>1, <2>2
<1> QED BY <1>1, <1>2, <1>3, TypeCorrect, PTL DEF Spec, NoPodBesideUnready

-----------------------------------------------------------------------------
(* A revision is adopted when it is deployed. *)

(* A status that adopts another revision is written when every pod has     *)
(* been built from it, and its pass creates no pod.                        *)
RightlyAdopts ==
    result # NoStatus =>
        \/ status.current = NoRev
        \/ result.current = status.current
        \/ /\ \A n \in Names : pods[n] # NoPod => pods[n].tmpl = result.current
           /\ \A i \in 1..Len(todo) : todo[i].op # "createPod"

(* The labels the pass has counted are those of the templates (UpgradeInv),*)
(* and no pod comes between the counting and the writing.                  *)
LEMMA RightlyAdoptsNext ==
    ASSUME "pods" \notin Lagging, "galera" \notin Lagging,
           TypeOK, UpgradeInv, RightlyAdopts, [Next]_vars
    PROVE  RightlyAdopts'
<1>1. Numbers
    BY TypeNumbers
<1>2. CASE Sync
    <2>1. SUFFICES ASSUME result' # NoStatus, status.current # NoRev,
                          result'.current # status.current
                   PROVE  /\ \A n \in Names : pods[n] # NoPod => pods[n].tmpl = result'.current
                          /\ \A i \in 1..Len(todo') : todo'[i].op # "createPod"
        BY <1>2 DEF Sync, world, RightlyAdopts
    <2>2. CurrentRevision = status.current
        BY <2>1 DEF CurrentRevision, CachedStatus
    <2>3. \A i \in 1..Len(todo') : todo'[i].op # "createPod"
        BY <1>2, <2>1, <2>2, DecidesToCreate
    <2>4. result'.current = NextRevision /\ DeployedSeen
        BY <1>2, <2>1, <2>2, Plan DEF Planned, Adopts
    <2>5. ASSUME NEW n \in Names, pods[n] # NoPod PROVE pods[n].tmpl = NextRevision
        <3>1. CachedPods = pods /\ CachedPods[n].rev = NextRevision
            BY <2>4, <2>5 DEF DeployedSeen, Listed, CachedPods
        <3>2. pods[n].rev <= pods[n].tmpl /\ pods[n].tmpl <= CachedSpec.rev
            BY <2>5 DEF UpgradeInv, DetourInv, PodInv, SpecInv, UpTo
        <3>3. pods[n].tmpl \in Nat /\ CachedSpec.rev \in Nat
            BY <1>1, <2>5 DEF Numbers
        <3> QED BY <3>1, <3>2, <3>3 DEF NextRevision
    <2> QED BY <2>3, <2>4, <2>5
<1>3. CASE ~Sync
    <2>1. SUFFICES ASSUME result' # NoStatus, status'.current # NoRev,
                          result'.current # status'.current
                   PROVE  /\ \A n \in Names : pods'[n] # NoPod => pods'[n].tmpl = result'.current
                          /\ \A i \in 1..Len(todo') : todo'[i].op # "createPod"
        BY DEF RightlyAdopts
    <2>2. ~UpdateStatus
        BY <2>1 DEF UpdateStatus, EndPass
    <2>3. result' = result /\ status' = status
        BY <1>3, <2>1, <2>2, PassGoesOn
    <2>4. /\ \A n \in Names : pods[n] # NoPod => pods[n].tmpl = result.current
          /\ \A i \in 1..Len(todo) : todo[i].op # "createPod"
        BY <2>1, <2>3 DEF RightlyAdopts
    <2>5. PICK k \in Nat : TodoLeft(k)
        BY <1>3, PassGoesOn
    <2>6. \A i \in 1..Len(todo') : i + k \in 1..Len(todo) /\ todo'[i] = todo[i + k]
        BY <1>1, <2>5 DEF TodoLeft, Numbers
    <2>7. ~CallCreatePod
        <3>1. todo # << >> => 1 \in 1..Len(todo) /\ Head(todo) = todo[1]
            BY DEF TypeOK
        <3> QED BY <2>4, <3>1 DEF CallCreatePod, Calls
    <2>8. PodsAge
        BY <2>7, PodsOnlyAge
    <2> QED BY <2>3, <2>4, <2>6, <2>8 DEF PodsAge
<1> QED BY <1>2, <1>3

(* When the informers of the pods and of the resource do not lag, the user *)
(* only moves forward and no upgrade is refused, a revision becomes the    *)
(* current one only when every pod has been built from its template,       *)
(* wherever the passes of its roll-out were cut short                      *)
(* (completeRollingUpdate).                                                *)
THEOREM AdoptsDeployed ==
    ASSUME "pods" \notin Lagging, "galera" \notin Lagging, ForwardEdits, NeverRefused
    PROVE  Spec => AdoptedWhenDeployed
<1>1. Init => RightlyAdopts
    BY DEF Init, RightlyAdopts
<1>2. TypeOK /\ UpgradeInv /\ RightlyAdopts /\ [Next]_vars => RightlyAdopts'
    BY RightlyAdoptsNext
<1>3. ASSUME TypeOK, RightlyAdopts, [Next]_vars
      PROVE  [(status'.current # status.current /\ status.current # NoRev)
                  => \A n \in Names : pods[n] # NoPod => pods[n].tmpl = status'.current]_vars
    <2>1. SUFFICES ASSUME status'.current # status.current, status.current # NoRev
                   PROVE  \A n \in Names : pods[n] # NoPod => pods[n].tmpl = status'.current
        OBVIOUS
    <2>2. ~Sync
        BY <2>1 DEF Sync, world
    <2>3. UpdateStatus
        BY <1>3, <2>1, <2>2, PassGoesOn
    <2>4. result # NoStatus /\ status' = result
        BY <2>1, <2>3 DEF UpdateStatus
    <2> QED BY <1>3, <2>1, <2>4 DEF RightlyAdopts
<1> QED BY <1>1, <1>2, <1>3, TypeCorrect, LabelsFollowData, PTL DEF Spec, AdoptedWhenDeployed

-----------------------------------------------------------------------------
(***************************************************************************)
(* What a step other than a decision may do to a pod, to its claims and to *)
(* the calls of the running pass.                                          *)
(***************************************************************************)

(* A pod that is there after a step that creates none. *)
Moves(n) ==
    LET p == pods[n]
        q == pods'[n]
    IN  /\ p # NoPod
        /\ q.state = p.state /\ q.init = p.init
        /\ p.term => q.term
        /\ q.term => p.term \/ (CallDeletePod /\ Head(todo).pod = n)
        /\ q.phase = "Pending" => p.phase = "Pending"
        /\ q.phase = "Ready" => p.phase = "Ready" \/ PodStarts(n)
        /\ q.phase = "Failed" => p.phase = "Failed" \/ PodFails(n)
        /\ q.wsrep # "Disconnected" =>
              \/ p.wsrep # "Disconnected" /\ q.phase = p.phase
              \/ PodStarts(n) /\ q.phase = "Ready" /\ p.state = "cluster"
        /\ q.wsrep # "Primary" /\ q.phase = "Ready" /\ p.state = "cluster" =>
              \/ p.wsrep # "Primary" /\ p.phase = "Ready"
              \/ LosesPrimary(n)
        /\ p.wsrep = "Primary" /\ p.phase = "Ready" =>
              q.wsrep = "Primary" \/ PodFails(n) \/ LosesPrimary(n)
        /\ LabelsOf(q) # LabelsOf(p) =>
              PatchPodLabels /\ Head(patches).pod = n /\ LabelsOf(q) = Head(patches).labels

PodMoves(n) ==
    /\ pods'[n] # NoPod => Moves(n)
    /\ pods'[n] = NoPod => pods[n] = NoPod \/ pods[n].term

(* One pod changes, the others stay. *)
LEMMA OnePodMoves ==
    ASSUME TypeOK, NEW x \in Names, NEW q, pods' = [pods EXCEPT ![x] = q], PodMoves(x)
    PROVE  \A n \in Names : PodMoves(n)
<1>1. pods \in [Names -> Pods \cup {NoPod}]
    BY DEF TypeOK
<1>2. ASSUME NEW n \in Names, n # x PROVE PodMoves(n)
    <2>1. pods'[n] = pods[n]
        BY <1>1, <1>2
    <2>2. pods[n] # NoPod => pods[n] \in Pods
        BY <1>1
    <2>3. pods[n] \in Pods => pods[n].phase \in {"Pending", "Ready", "Failed"}
        BY DEF Pods
    <2> QED BY <2>1, <2>2, <2>3 DEF PodMoves, Moves
<1> QED BY <1>2

(* The labels of a pod are told by its fields. *)
LEMMA LabelsTold ==
    ASSUME NEW p, NEW q, q.rev = p.rev, q.role = p.role, q.reader = p.reader, q.backup = p.backup
    PROVE  LabelsOf(q) = LabelsOf(p)
BY DEF LabelsOf

LEMMA PodsMove ==
    ASSUME TypeOK, [Next]_vars, ~Sync, ~CallCreatePod
    PROVE  \A n \in Names : PodMoves(n)
<1>1. pods \in [Names -> Pods \cup {NoPod}]
    BY DEF TypeOK
<1>2. \A n \in Names : pods[n] # NoPod => pods[n] \in Pods
    BY <1>1
<1>3. CASE PatchPodLabels
    <2> DEFINE n == Head(patches).pod
               l == Head(patches).labels
    <2>1. n \in Names /\ Head(patches).op = "patchPod" /\ l \in Labels
        <3> DEFINE Q == [op : {"patchPod"}, pod : Names, labels : Labels]
        <3>1. patches \in Seq(Q) /\ patches # << >>
            BY <1>3 DEF TypeOK, PatchPodLabels
        <3> HIDE DEF Q
        <3>2. Head(patches) \in Q
            BY <3>1
        <3> QED BY <3>2 DEF Q
    <2>2. pods[n] # NoPod
        BY <1>3, <2>1 DEF PatchPodLabels, Accepted
    <2> DEFINE p == pods[n]
               q == [p EXCEPT !.rev = l.rev, !.role = l.role, !.reader = l.reader, !.backup = l.backup]
    <2>3. pods' = [pods EXCEPT ![n] = q]
        BY <1>3 DEF PatchPodLabels
    <2>4. p \in Pods
        BY <1>2, <2>1, <2>2
    <2>5. q \in Pods
        BY <2>1, <2>4, PodUpdateType
    <2>6. /\ q.state = p.state /\ q.init = p.init /\ q.term = p.term
          /\ q.phase = p.phase /\ q.wsrep = p.wsrep
        BY <2>4 DEF Pods
    <2>7. LabelsOf(q) = l
        <3>1. q.rev = l.rev /\ q.role = l.role /\ q.reader = l.reader /\ q.backup = l.backup
            BY <2>4 DEF Pods
        <3>2. l = [rev |-> l.rev, role |-> l.role, reader |-> l.reader, backup |-> l.backup]
            BY <2>1 DEF Labels
        <3> HIDE DEF q
        <3> QED BY <3>1, <3>2 DEF LabelsOf
    <2>8. pods'[n] = q
        BY <1>1, <2>1, <2>3
    <2>9. p.phase \in {"Pending", "Ready", "Failed"}
        BY <2>4 DEF Pods
    <2> HIDE DEF q
    <2>10. PodMoves(n)
        BY <1>3, <2>2, <2>5, <2>6, <2>7, <2>8, <2>9, PodFields DEF PodMoves, Moves
    <2> HIDE DEF n
    <2> QED BY <2>1, <2>3, <2>10, OnePodMoves
<1>4. CASE CallDeletePod
    <2> DEFINE n == Head(todo).pod
               p == pods[n]
               q == [p EXCEPT !.term = TRUE]
    <2>1. Head(todo) \in Ops
        BY <1>4 DEF TypeOK, CallDeletePod, Calls
    <2>2. n \in Names
        BY <2>1, OpType
    <2>3. p # NoPod
        BY <1>4 DEF CallDeletePod, Calls, Accepted
    <2>4. pods' = [pods EXCEPT ![n] = q]
        BY <1>4 DEF CallDeletePod
    <2>5. p \in Pods /\ q \in Pods
        BY <1>2, <2>2, <2>3, PodUpdateType
    <2>6. /\ q.state = p.state /\ q.init = p.init /\ q.term
          /\ q.phase = p.phase /\ q.wsrep = p.wsrep
          /\ q.rev = p.rev /\ q.role = p.role /\ q.reader = p.reader /\ q.backup = p.backup
        BY <2>5 DEF Pods
    <2>7. pods'[n] = q
        BY <1>1, <2>2, <2>4
    <2>8. p.phase \in {"Pending", "Ready", "Failed"}
        BY <2>5 DEF Pods
    <2> HIDE DEF q
    <2>9. PodMoves(n)
        BY <1>4, <2>3, <2>5, <2>6, <2>7, <2>8, PodFields, LabelsTold DEF PodMoves, Moves
    <2> HIDE DEF n
    <2> QED BY <2>2, <2>4, <2>9, OnePodMoves
<1>5. ASSUME NEW n \in Names, PodStarts(n) PROVE \A m \in Names : PodMoves(m)
    <2> DEFINE p == pods[n]
    <2>1. p # NoPod /\ p.phase = "Pending" /\ ~p.term
        BY <1>5 DEF PodStarts, Startable
    <2>2. PICK w \in WsrepStates :
             /\ pods' = [pods EXCEPT ![n].phase = "Ready", ![n].wsrep = w]
             /\ p.state = "standalone" => w = "Disconnected"
             /\ p.state = "cluster" => w = "Primary"
        BY <1>5 DEF PodStarts, Becomes, WsrepStates
    <2> DEFINE q == [p EXCEPT !.phase = "Ready", !.wsrep = w]
    <2>3. pods' = [pods EXCEPT ![n] = q]
        BY <1>1, <2>2
    <2>4. p \in Pods /\ q \in Pods
        BY <1>2, <2>1, PodUpdateType
    <2>5. /\ q.state = p.state /\ q.init = p.init /\ q.term = p.term
          /\ q.phase = "Ready" /\ q.wsrep = w
          /\ q.rev = p.rev /\ q.role = p.role /\ q.reader = p.reader /\ q.backup = p.backup
          /\ p.state \in {"cluster", "standalone"}
        BY <2>4 DEF Pods
    <2>6. pods'[n] = q
        BY <1>1, <2>3
    <2> HIDE DEF q
    <2>7. PodMoves(n)
        BY <1>5, <2>1, <2>2, <2>4, <2>5, <2>6, PodFields, LabelsTold DEF PodMoves, Moves
    <2> QED BY <2>3, <2>7, OnePodMoves
<1>6. ASSUME NEW n \in Names, PodFails(n) PROVE \A m \in Names : PodMoves(m)
    <2> DEFINE p == pods[n]
               q == [p EXCEPT !.phase = "Failed", !.wsrep = "Disconnected"]
    <2>1. p # NoPod
        BY <1>6 DEF PodFails
    <2>2. pods' = [pods EXCEPT ![n] = q]
        BY <1>1, <1>6 DEF PodFails
    <2>3. p \in Pods /\ q \in Pods
        BY <1>2, <2>1, PodUpdateType
    <2>4. /\ q.state = p.state /\ q.init = p.init /\ q.term = p.term
          /\ q.phase = "Failed" /\ q.wsrep = "Disconnected"
          /\ q.rev = p.rev /\ q.role = p.role /\ q.reader = p.reader /\ q.backup = p.backup
        BY <2>3 DEF Pods
    <2>5. pods'[n] = q
        BY <1>1, <2>2
    <2> HIDE DEF q
    <2>6. PodMoves(n)
        BY <1>6, <2>1, <2>3, <2>4, <2>5, PodFields, LabelsTold DEF PodMoves, Moves
    <2> QED BY <2>2, <2>6, OnePodMoves
<1>7. ASSUME NEW n \in Names, PodIsGone(n) PROVE \A m \in Names : PodMoves(m)
    <2>1. pods' = [pods EXCEPT ![n] = NoPod] /\ pods[n].term
        BY <1>7 DEF PodIsGone
    <2>2. pods'[n] = NoPod
        BY <1>1, <2>1
    <2> QED BY <2>1, <2>2, OnePodMoves DEF PodMoves
<1>8. ASSUME NEW n \in Names, LosesPrimary(n) \/ RegainsPrimary(n)
      PROVE  \A m \in Names : PodMoves(m)
    <2> DEFINE p == pods[n]
    <2>1. PICK w \in WsrepStates :
             /\ pods' = [pods EXCEPT ![n].wsrep = w]
             /\ p.wsrep # "Disconnected"
             /\ LosesPrimary(n) \/ w = "Primary"
        BY <1>8 DEF LosesPrimary, RegainsPrimary, WsrepStates, Primaries
    <2> DEFINE q == [p EXCEPT !.wsrep = w]
    <2>2. p # NoPod
        BY <1>8 DEF LosesPrimary, RegainsPrimary, Primaries
    <2>3. pods' = [pods EXCEPT ![n] = q]
        BY <2>1
    <2>4. p \in Pods /\ q \in Pods
        BY <1>2, <2>1, <2>2, PodUpdateType
    <2>5. /\ q.state = p.state /\ q.init = p.init /\ q.term = p.term
          /\ q.phase = p.phase /\ q.wsrep = w
          /\ q.rev = p.rev /\ q.role = p.role /\ q.reader = p.reader /\ q.backup = p.backup
        BY <2>4 DEF Pods
    <2>6. pods'[n] = q
        BY <1>1, <2>3
    <2> HIDE DEF q
    <2>7. PodMoves(n)
        BY <1>8, <2>1, <2>2, <2>4, <2>5, <2>6, PodFields, LabelsTold DEF PodMoves, Moves
    <2> QED BY <2>3, <2>7, OnePodMoves
<1>9. CASE pods' = pods
    <2>1. \A n \in Names : pods[n] # NoPod => pods[n].phase \in {"Pending", "Ready", "Failed"}
        BY <1>2 DEF Pods
    <2> QED BY <1>9, <2>1 DEF PodMoves, Moves
<1>10. CASE SyncFails \/ UNCHANGED vars
    BY <1>9, <1>10 DEF SyncFails, vars, world
<1>11. CASE Call
    <2>1. \/ PatchPodLabels \/ CallDeletePod \/ pods' = pods
        BY <1>11 DEF Call, CallCheckSynced, CallMysqlUpgrade, CallPatchClaim, CallCreateClaim,
            CallDeleteClaim, CallCreateBkp, CallDeleteBkp, CallRefused, UpdateStatus, world
    <2> QED BY <1>3, <1>4, <1>9, <2>1
<1>12. CASE Environment
    <2>1. \/ \E n \in Names : \/ PodStarts(n) \/ PodIsGone(n) \/ PodFails(n)
                              \/ LosesPrimary(n) \/ RegainsPrimary(n)
          \/ pods' = pods
        BY <1>12 DEF Environment, ClaimIsGone, UserEdits, UserScales, InformerCatchesUp, world
    <2> QED BY <1>5, <1>6, <1>7, <1>8, <1>9, <2>1
<1> QED BY <1>10, <1>11, <1>12 DEF Next

(* The claims and the volume that go by a name, in any step but a decision.*)
ClaimMoves(n) ==
    /\ (claims[n] # NoClaim /\ claims'[n] = NoClaim) => pods[n] = NoPod /\ claims[n].term
    /\ (claims[n] = NoClaim /\ claims'[n] # NoClaim) =>
          /\ CallCreateClaim /\ Head(todo).pod = n
          /\ claims'[n].claimSpec = Head(todo).claimSpec /\ ~claims'[n].term
    /\ (claims[n] # NoClaim /\ claims'[n] # NoClaim) =>
          /\ claims'[n].claimSpec = claims[n].claimSpec
          /\ claims'[n].rev # claims[n].rev => CallPatchClaim /\ Head(todo).pod = n
          /\ claims'[n].term => claims[n].term \/ (CallDeleteClaim /\ Head(todo).pod = n)
    /\ (pods[n] # NoPod /\ bkps[n] # "none") => bkps'[n] # "none"
    /\ data'[n].db # data[n].db =>
          \/ PodStarts(n)
          \/ claims[n] # NoClaim /\ claims'[n] = NoClaim /\ pods[n] = NoPod /\ ~data'[n].db

LEMMA ClaimsMove ==
    ASSUME TypeOK, [Next]_vars, ~Sync
    PROVE  \A n \in Names : ClaimMoves(n)
<1>1. /\ claims \in [Names -> Claims \cup {NoClaim}]
      /\ bkps \in [Names -> BkpStates]
      /\ data \in [Names -> [ver : Revs \cup {NoRev}, db : BOOLEAN]]
    BY DEF TypeOK
<1>2. \A c \in Claims : c # NoClaim
    BY TypeNumbers, RevsAssumption DEF Claims, NoClaim
<1>3. CASE UNCHANGED <<claims, bkps, data>>
    BY <1>3 DEF ClaimMoves
<1>4. CASE CallMysqlUpgrade
    <2>1. /\ data' = [data EXCEPT ![Head(todo).pod].ver = pods[Head(todo).pod].tmpl]
          /\ UNCHANGED <<claims, bkps>>
        BY <1>4 DEF CallMysqlUpgrade
    <2>2. \A n \in Names : data'[n].db = data[n].db
        BY <1>1, <2>1
    <2> QED BY <2>1, <2>2 DEF ClaimMoves
<1>5. CASE CallPatchClaim
    <2> DEFINE x == Head(todo).pod
               c == [claims[x] EXCEPT !.rev = Head(todo).rev]
    <2>1. claims' = [claims EXCEPT ![x] = c] /\ UNCHANGED <<data, bkps>>
        BY <1>5 DEF CallPatchClaim
    <2>2. x \in Names /\ claims[x] \in Claims
        BY <1>5, CallType, AcceptedType DEF CallPatchClaim
    <2>3. c.claimSpec = claims[x].claimSpec /\ c.term = claims[x].term
        BY <2>2 DEF Claims
    <2>4. claims'[x] = c /\ \A n \in Names : n # x => claims'[n] = claims[n]
        BY <1>1, <2>1, <2>2
    <2>5. c # NoClaim
        <3>1. Head(todo).rev \in Revs
            BY <1>5, CallType, OpType DEF CallPatchClaim
        <3> QED BY <1>2, <2>2, <3>1, ClaimUpdateType
    <2> HIDE DEF c
    <2>6. ClaimMoves(x)
        BY <1>2, <1>5, <2>1, <2>2, <2>3, <2>4, <2>5 DEF ClaimMoves
    <2> HIDE DEF x
    <2>7. \A n \in Names : n # x => ClaimMoves(n)
        BY <2>1, <2>4 DEF ClaimMoves
    <2> QED BY <2>6, <2>7
<1>6. CASE CallCreateClaim
    <2> DEFINE x == Head(todo).pod
               c == [rev |-> Head(todo).rev, claimSpec |-> Head(todo).claimSpec, term |-> FALSE]
    <2>1. claims' = [claims EXCEPT ![x] = c] /\ UNCHANGED <<data, bkps>>
        BY <1>6 DEF CallCreateClaim
    <2>2. x \in Names /\ claims[x] = NoClaim
        BY <1>6, CallType, AcceptedType DEF CallCreateClaim
    <2>3. c.claimSpec = Head(todo).claimSpec /\ ~c.term
        OBVIOUS
    <2>4. claims'[x] = c /\ \A n \in Names : n # x => claims'[n] = claims[n]
        BY <1>1, <2>1, <2>2
    <2> HIDE DEF c
    <2>5. ClaimMoves(x)
        BY <1>6, <2>1, <2>2, <2>3, <2>4 DEF ClaimMoves
    <2> HIDE DEF x
    <2>6. \A n \in Names : n # x => ClaimMoves(n)
        BY <2>1, <2>4 DEF ClaimMoves
    <2> QED BY <2>5, <2>6
<1>7. CASE CallDeleteClaim
    <2> DEFINE x == Head(todo).pod
               c == [claims[x] EXCEPT !.term = TRUE]
    <2>1. claims' = [claims EXCEPT ![x] = c] /\ UNCHANGED <<data, bkps>>
        BY <1>7 DEF CallDeleteClaim
    <2>2. x \in Names /\ claims[x] \in Claims
        BY <1>7, CallType, AcceptedType DEF CallDeleteClaim
    <2>3. c.claimSpec = claims[x].claimSpec /\ c.rev = claims[x].rev
        BY <2>2 DEF Claims
    <2>4. claims'[x] = c /\ \A n \in Names : n # x => claims'[n] = claims[n]
        BY <1>1, <2>1, <2>2
    <2>5. c # NoClaim
        BY <1>2, <2>2, ClaimUpdateType
    <2> HIDE DEF c
    <2>6. ClaimMoves(x)
        BY <1>2, <1>7, <2>1, <2>2, <2>3, <2>4, <2>5 DEF ClaimMoves
    <2> HIDE DEF x
    <2>7. \A n \in Names : n # x => ClaimMoves(n)
        BY <2>1, <2>4 DEF ClaimMoves
    <2> QED BY <2>6, <2>7
<1>8. CASE CallCreateBkp \/ CallDeleteBkp
    <2>1. UNCHANGED <<claims, data>> /\ \A n \in Names : bkps[n] # "none" => bkps'[n] # "none"
        BY <1>1, <1>8 DEF CallCreateBkp, CallDeleteBkp
    <2> QED BY <2>1 DEF ClaimMoves
<1>9. ASSUME NEW x \in Names, PodStarts(x) PROVE \A n \in Names : ClaimMoves(n)
    <2>1. UNCHANGED <<claims, bkps>> /\ \E s : data' = [data EXCEPT ![x] = s]
        BY <1>9 DEF PodStarts, Becomes
    <2>2. \A n \in Names : n # x => data'[n] = data[n]
        BY <1>1, <2>1
    <2> QED BY <1>9, <2>1, <2>2 DEF ClaimMoves
<1>10. ASSUME NEW x \in Names, ClaimIsGone(x) PROVE \A n \in Names : ClaimMoves(n)
    <2>1. pods[x] = NoPod
        BY <1>10 DEF ClaimIsGone
    <2>2. CASE /\ claims[x] # NoClaim /\ claims[x].term
               /\ claims' = [claims EXCEPT ![x] = NoClaim]
               /\ data' = [data EXCEPT ![x] = NoData]
               /\ bkps' = bkps
        <3>1. claims'[x] = NoClaim /\ ~data'[x].db
              /\ \A n \in Names : n # x => claims'[n] = claims[n] /\ data'[n] = data[n]
            BY <1>1, <2>2 DEF NoData
        <3> QED BY <2>1, <2>2, <3>1 DEF ClaimMoves
    <2>3. CASE UNCHANGED <<claims, data>> /\ bkps' = [bkps EXCEPT ![x] = "none"]
        <3>1. \A n \in Names : n # x => bkps'[n] = bkps[n]
            BY <1>1, <2>3
        <3> QED BY <2>1, <2>3, <3>1 DEF ClaimMoves
    <2> QED BY <1>10, <2>2, <2>3 DEF ClaimIsGone
<1>11. CASE SyncFails \/ UNCHANGED vars
    BY <1>3, <1>11 DEF SyncFails, vars, world
<1>12. CASE Call
    <2>1. \/ CallMysqlUpgrade \/ CallPatchClaim \/ CallCreateClaim \/ CallDeleteClaim
          \/ CallCreateBkp \/ CallDeleteBkp \/ UNCHANGED <<claims, bkps, data>>
        BY <1>12 DEF Call, PatchPodLabels, CallDeletePod, CallCreatePod, CallCheckSynced,
            CallRefused, UpdateStatus, world
    <2> QED BY <1>3, <1>4, <1>5, <1>6, <1>7, <1>8, <2>1
<1>13. CASE Environment
    <2>1. \/ \E n \in Names : PodStarts(n) \/ ClaimIsGone(n)
          \/ UNCHANGED <<claims, bkps, data>>
        BY <1>13 DEF Environment, PodIsGone, PodFails, LosesPrimary, RegainsPrimary,
            UserEdits, UserScales, InformerCatchesUp, world
    <2> QED BY <1>3, <1>9, <1>10, <2>1
<1> QED BY <1>11, <1>12, <1>13 DEF Next

(* The calls that are left after a step: the same, or all but the first    *)
(* one, which has been made, or none.                                      *)
TodoMoves(k) ==
    /\ k \in Nat /\ TodoLeft(k)
    /\ Len(todo') > 0 =>
          \/ k = 0
          \/ /\ k = 1 /\ Len(todo) > 1 /\ todo[1] = Head(todo)
             /\ todo[1].op = "deletePod" => CallDeletePod
             /\ todo[1].op = "deleteClaim" => CallDeleteClaim

LEMMA PassMoves ==
    ASSUME TypeOK, [Next]_vars, ~Sync
    PROVE  /\ \E k \in Nat : TodoMoves(k)
           /\ PatchesLeft
<1>1. Len(todo) \in Nat
    BY DEF TypeOK
<1>2. CASE SyncFails \/ CallRefused \/ UpdateStatus
    <2>1. todo' = << >> /\ patches' = << >>
        BY <1>2 DEF SyncFails, CallRefused, UpdateStatus, EndPass
    <2> QED BY <1>1, <2>1, PassStep DEF TodoMoves
<1>3. CASE UNCHANGED <<todo, patches>>
    BY <1>3, PassStep DEF TodoMoves
<1>4. CASE PatchPodLabels
    <2>1. todo' = todo /\ patches # << >> /\ patches' = Tail(patches)
        BY <1>4 DEF PatchPodLabels
    <2> QED BY <2>1, PassStep DEF TodoMoves
<1>5. ASSUME NEW kind, Calls(kind), kind = "deletePod" => CallDeletePod,
             kind = "deleteClaim" => CallDeleteClaim
      PROVE  (\E k \in Nat : TodoMoves(k)) /\ PatchesLeft
    <2>1. todo # << >> /\ todo' = Tail(todo) /\ patches' = patches /\ Head(todo).op = kind
        BY <1>5 DEF Calls
    <2>2. TodoLeft(1) /\ todo[1] = Head(todo) /\ PatchesLeft
        BY <2>1, PassStep
    <2>3. Len(todo') = Len(todo) - 1
        BY <2>2 DEF TodoLeft
    <2> QED BY <1>1, <1>5, <2>1, <2>2, <2>3 DEF TodoMoves
<1>6. CASE Call
    <2>1. CASE CallDeletePod
        BY <1>5, <2>1 DEF CallDeletePod
    <2>2. CASE CallCreatePod
        BY <1>5, <2>2 DEF CallCreatePod
    <2>3. CASE CallCheckSynced
        BY <1>5, <2>3 DEF CallCheckSynced
    <2>4. CASE CallMysqlUpgrade
        BY <1>5, <2>4 DEF CallMysqlUpgrade
    <2>5. CASE CallPatchClaim
        BY <1>5, <2>5 DEF CallPatchClaim
    <2>6. CASE CallCreateClaim
        BY <1>5, <2>6 DEF CallCreateClaim
    <2>7. CASE CallDeleteClaim
        BY <1>5, <2>7 DEF CallDeleteClaim
    <2>8. CASE CallCreateBkp
        BY <1>5, <2>8 DEF CallCreateBkp
    <2>9. CASE CallDeleteBkp
        BY <1>5, <2>9 DEF CallDeleteBkp
    <2> QED BY <1>2, <1>4, <1>6, <2>1, <2>2, <2>3, <2>4, <2>5, <2>6, <2>7, <2>8, <2>9 DEF Call
<1>7. CASE Environment \/ UNCHANGED vars
    <2>1. UNCHANGED <<todo, patches>>
        BY <1>7 DEF Environment, PodStarts, PodIsGone, ClaimIsGone, PodFails, LosesPrimary,
            RegainsPrimary, UserEdits, UserScales, InformerCatchesUp, pass, vars
    <2> QED BY <1>3, <2>1
<1> QED BY <1>2, <1>6, <1>7 DEF Next

-----------------------------------------------------------------------------
(* StartInv is inductive: pods start one at a time. *)

LEMMA LabelsKept ==
    ASSUME TypeOK, RelabelInv, NEW n \in Names, Moves(n)
    PROVE  pods'[n].rev = pods[n].rev /\ pods'[n].backup = pods[n].backup
<1> DEFINE p == pods[n]
           q == pods'[n]
<1>1. \A x : LabelsOf(x).rev = x.rev /\ LabelsOf(x).backup = x.backup
    BY DEF LabelsOf
<1>2. CASE LabelsOf(q) = LabelsOf(p)
    BY <1>1, <1>2
<1>3. CASE LabelsOf(q) # LabelsOf(p)
    <2>1. PatchPodLabels /\ Head(patches).pod = n /\ LabelsOf(q) = Head(patches).labels /\ p # NoPod
        BY <1>3 DEF Moves
    <2>2. patches # << >>
        BY <2>1 DEF PatchPodLabels
    <2>3. 1 \in 1..Len(patches) /\ Head(patches) = patches[1]
        BY <2>2 DEF TypeOK
    <2>4. Head(patches).labels.rev = p.rev /\ Head(patches).labels.backup = p.backup
        BY <2>1, <2>3 DEF RelabelInv
    <2> QED BY <1>1, <2>1, <2>4
<1> QED BY <1>2, <1>3

(* A step that creates no pod lets no pod join, and brings no Backup pod. *)
LEMMA JoiningShrinks ==
    ASSUME TypeOK, RunningInv, RelabelInv, \A n \in Names : PodMoves(n)
    PROVE  /\ \A n \in Names : Up(n)' => Up(n)
           /\ Joining' \subseteq Joining
           /\ BackupsUp' \subseteq BackupsUp
<1>1. \A n \in Names : Up(n)' => Up(n) /\ Moves(n)
    BY DEF PodMoves, Moves, Up
<1>2. ASSUME NEW n \in Joining' PROVE n \in Joining
    <2>1. n \in Names /\ Up(n)' /\ (pods'[n].phase = "Pending" \/
                                     (pods'[n].phase = "Ready" /\ pods'[n].state = "standalone"))
        BY <1>2 DEF Joining
    <2>2. Up(n) /\ Moves(n)
        BY <1>1, <2>1
    <2>3. PodStarts(n) => pods[n].phase = "Pending"
        BY DEF PodStarts, Startable
    <2> QED BY <2>1, <2>2, <2>3 DEF Joining, Moves
<1>3. ASSUME NEW n \in BackupsUp' PROVE n \in BackupsUp
    <2>1. n \in Names /\ Up(n)' /\ pods'[n].backup
          /\ (pods'[n].phase = "Pending" \/ pods'[n].wsrep # "Disconnected")
        BY <1>3 DEF BackupsUp
    <2>2. Up(n) /\ Moves(n)
        BY <1>1, <2>1
    <2>3. pods[n].backup
        BY <2>1, <2>2, LabelsKept
    <2>4. PodStarts(n) => pods[n].phase = "Pending"
        BY DEF PodStarts, Startable
    <2> QED BY <2>1, <2>2, <2>3, <2>4 DEF BackupsUp, Moves
<1> QED BY <1>1, <1>2, <1>3

LEMMA StartMoves ==
    ASSUME TypeOK, StartInv, [Next]_vars, ~Sync, ~CallCreatePod
    PROVE  StartInv'
<1>1. \A n \in Names : PodMoves(n) /\ ClaimMoves(n)
    BY PodsMove, ClaimsMove
<1>2. PICK k \in Nat : TodoMoves(k)
    BY PassMoves
<1>3. PatchesLeft /\ Numbers
    BY PassMoves, TypeNumbers
<1>4. RunningInv /\ RelabelInv /\ StandaloneInv /\ DetourOrder /\ CreationInv
      /\ (\A m, n \in Joining : m = n) /\ (\A m, n \in BackupsUp : m = n)
    BY DEF StartInv
<1>5. /\ \A n \in Names : Up(n)' => Up(n)
      /\ Joining' \subseteq Joining
      /\ BackupsUp' \subseteq BackupsUp
    BY <1>1, <1>4, JoiningShrinks
<1>6. \A n \in Names : pods'[n] # NoPod =>
         /\ pods[n] # NoPod /\ Moves(n)
         /\ pods'[n].rev = pods[n].rev /\ pods'[n].backup = pods[n].backup
    BY <1>1, <1>4, LabelsKept DEF PodMoves, Moves
<1>7. \A i \in 1..Len(todo') : i + k \in 1..Len(todo) /\ todo'[i] = todo[i + k] /\ k \in {0, 1}
    BY <1>2, <1>3 DEF TodoMoves, TodoLeft, Numbers
<1>8. Len(todo') = Len(todo) - k
    BY <1>2 DEF TodoMoves, TodoLeft
<1>9. RunningInv'
    <2>1. SUFFICES ASSUME NEW n \in Names, pods'[n] # NoPod
                   PROVE  /\ pods'[n].wsrep # "Disconnected"
                                => pods'[n].phase = "Ready" /\ pods'[n].state = "cluster"
                          /\ pods'[n].phase = "Ready" =>
                                claims'[n] # NoClaim /\ (pods'[n].backup => bkps'[n] # "none")
        BY DEF RunningInv
    <2>2. /\ pods[n] # NoPod /\ Moves(n) /\ ClaimMoves(n) /\ pods'[n].backup = pods[n].backup
        BY <1>1, <1>6, <2>1
    <2>3. pods'[n].wsrep # "Disconnected" => pods'[n].phase = "Ready" /\ pods'[n].state = "cluster"
        BY <1>4, <2>1, <2>2 DEF Moves, RunningInv
    <2>4. ASSUME pods'[n].phase = "Ready"
          PROVE  claims[n] # NoClaim /\ (pods[n].backup => bkps[n] # "none")
        <3>1. pods[n].phase = "Ready" \/ PodStarts(n)
            BY <2>2, <2>4 DEF Moves
        <3>2. PodStarts(n) => claims[n] # NoClaim /\ (pods[n].backup => bkps[n] # "none")
            BY DEF PodStarts, Startable
        <3> QED BY <1>4, <2>2, <3>1, <3>2 DEF RunningInv
    <2> QED BY <2>2, <2>3, <2>4 DEF ClaimMoves
<1>10. RelabelInv'
    <2>1. SUFFICES ASSUME NEW i \in 1..Len(patches'), pods'[patches'[i].pod] # NoPod
                   PROVE  /\ patches'[i].labels.rev = pods'[patches'[i].pod].rev
                          /\ patches'[i].labels.backup = pods'[patches'[i].pod].backup
        BY DEF RelabelInv
    <2>2. PICK j \in 1..Len(patches) : patches'[i] = patches[j]
        BY <1>3 DEF PatchesLeft
    <2>3. patches[j].pod \in Names
        BY <1>3 DEF Numbers
    <2> QED BY <1>4, <1>6, <2>1, <2>2, <2>3 DEF RelabelInv
<1>11. StandaloneInv'
    <2>1. SUFFICES ASSUME NEW n \in Names, Up(n)', pods'[n].state = "standalone"
                   PROVE  claims'[n] # NoClaim /\ claims'[n].rev # pods'[n].rev
        BY DEF StandaloneInv
    <2>2. Up(n) /\ pods'[n] # NoPod
        BY <1>5, <2>1 DEF Up
    <2>3. pods[n] # NoPod /\ pods[n].state = "standalone" /\ pods'[n].rev = pods[n].rev
        BY <1>6, <2>1, <2>2 DEF Moves
    <2>4. claims[n] # NoClaim /\ claims[n].rev # pods[n].rev
        BY <1>4, <2>2, <2>3 DEF StandaloneInv
    <2>5. ~(CallPatchClaim /\ Head(todo).pod = n)
        <3>1. SUFFICES ASSUME CallPatchClaim, Head(todo).pod = n PROVE FALSE
            OBVIOUS
        <3>2. Calls("patchClaim")
            BY <3>1 DEF CallPatchClaim
        <3>3. 1 \in 1..Len(todo) /\ todo[1].op = "patchClaim" /\ todo[1].pod = n
            BY <1>3, <3>1, <3>2, FirstCall
        <3> QED BY <1>4, <2>2, <3>3 DEF DetourOrder
    <2> QED BY <1>1, <2>3, <2>4, <2>5 DEF ClaimMoves
<1>12. DetourOrder'
    <2>1. SUFFICES ASSUME NEW i \in 1..Len(todo'), todo'[i].op = "patchClaim",
                          pods'[todo'[i].pod] # NoPod, ~pods'[todo'[i].pod].term
                   PROVE  \E j \in 1..(i - 1) : /\ todo'[j].op = "deletePod"
                                                /\ todo'[j].pod = todo'[i].pod
        BY DEF DetourOrder, Up
    <2> DEFINE n == todo'[i].pod
    <2>2. i + k \in 1..Len(todo) /\ todo'[i] = todo[i + k] /\ k \in {0, 1} /\ n \in Names
        BY <1>3, <1>7 DEF Numbers
    <2>3. Up(n)
        BY <1>5, <2>1, <2>2 DEF Up
    <2>4. PICK j \in 1..(i + k - 1) : todo[j].op = "deletePod" /\ todo[j].pod = n
        BY <1>4, <2>1, <2>2, <2>3 DEF DetourOrder
    <2>5. j > k
        <3>1. SUFFICES ASSUME k = 1, j = 1 PROVE FALSE
            BY <2>2
        <3>2. Len(todo') > 0 /\ Len(todo) \in Nat
            BY <1>3, <2>2, <1>8 DEF Numbers
        <3>3. CallDeletePod /\ Head(todo).pod = n
            BY <1>2, <2>4, <3>1, <3>2 DEF TodoMoves
        <3>4. pods' = [pods EXCEPT ![n].term = TRUE] /\ pods[n] # NoPod
            BY <2>3, <3>3 DEF CallDeletePod, Up
        <3>5. pods'[n].term
            BY <2>2, <3>4 DEF TypeOK, Pods
        <3> QED BY <2>1, <3>5 DEF Up
    <2>6. j - k \in 1..(i - 1) /\ j - k \in 1..Len(todo') /\ (j - k) + k = j
        BY <1>3, <1>8, <2>2, <2>4, <2>5 DEF Numbers
    <2>7. todo'[j - k] = todo[j]
        BY <1>7, <2>6
    <2> QED BY <2>4, <2>6, <2>7
<1>13. CreationInv'
    <2>1. SUFFICES ASSUME NEW i \in 1..Len(todo'), todo'[i].op = "createPod"
                   PROVE  LET n == todo'[i].pod
                              p == todo'[i].new
                          IN  /\ i = Len(todo')
                              /\ \A j \in 1..Len(todo') :
                                    todo'[j].op \in {"createClaim", "createBkp", "createPod"}
                              /\ p.phase = "Pending" /\ p.wsrep = "Disconnected"
                              /\ p.state = "standalone" => /\ claims'[n] # NoClaim
                                                           /\ claims'[n].rev # p.rev
                                                           /\ ~claims'[n].term
                              /\ Joining' = {}
                              /\ p.backup => BackupsUp' = {}
        BY DEF CreationInv
    <2> DEFINE n == todo'[i].pod
               p == todo'[i].new
    <2>2. i + k \in 1..Len(todo) /\ todo'[i] = todo[i + k] /\ n \in Names
        BY <1>3, <1>7 DEF Numbers
    <2>3. /\ i + k = Len(todo)
          /\ \A j \in 1..Len(todo) : todo[j].op \in {"createClaim", "createBkp", "createPod"}
          /\ p.phase = "Pending" /\ p.wsrep = "Disconnected"
          /\ p.state = "standalone" => claims[n] # NoClaim /\ claims[n].rev # p.rev /\ ~claims[n].term
          /\ Joining = {}
          /\ p.backup => BackupsUp = {}
        <3> DEFINE m == i + k
        <3>1. m \in 1..Len(todo) /\ todo[m].op = "createPod" /\ todo[m].pod = n /\ todo[m].new = p
            BY <2>1, <2>2
        <3> HIDE DEF m, n, p
        <3>2. m = Len(todo) /\ CreationInv
            BY <1>4, <3>1 DEF CreationInv
        <3>3. /\ \A j \in 1..Len(todo) : todo[j].op \in {"createClaim", "createBkp", "createPod"}
              /\ Joining = {}
            BY <3>1, <3>2 DEF CreationInv
        <3>4. /\ p.phase = "Pending" /\ p.wsrep = "Disconnected"
              /\ p.state = "standalone" => claims[n] # NoClaim /\ claims[n].rev # p.rev /\ ~claims[n].term
              /\ p.backup => BackupsUp = {}
            BY <3>1, <3>2 DEF CreationInv
        <3> QED BY <3>2, <3>3, <3>4 DEF m
    <2>4. i = Len(todo')
        <3>1. Len(todo) \in Nat
            BY DEF TypeOK
        <3> QED BY <1>8, <2>3, <3>1
    <2>5. \A j \in 1..Len(todo') : todo'[j].op \in {"createClaim", "createBkp", "createPod"}
        BY <1>7, <2>3
    <2>6. ~CallPatchClaim /\ ~CallDeleteClaim
        <3>1. SUFFICES ASSUME CallPatchClaim \/ CallDeleteClaim PROVE FALSE
            OBVIOUS
        <3>2. Calls("patchClaim") \/ Calls("deleteClaim")
            BY <3>1 DEF CallPatchClaim, CallDeleteClaim
        <3>3. 1 \in 1..Len(todo) /\ todo[1].op \in {"patchClaim", "deleteClaim"}
            BY <1>3, <3>2, FirstCall
        <3> QED BY <2>3, <3>3
    <2>7. p.state = "standalone" => claims'[n] # NoClaim /\ claims'[n].rev # p.rev /\ ~claims'[n].term
        BY <1>1, <2>2, <2>3, <2>6 DEF ClaimMoves
    <2> QED BY <1>5, <2>3, <2>4, <2>5, <2>7
<1>14. (\A m, n \in Joining : m = n)' /\ (\A m, n \in BackupsUp : m = n)'
    BY <1>4, <1>5
<1> QED BY <1>9, <1>10, <1>11, <1>12, <1>13, <1>14 DEF StartInv

LEMMA StartCreate ==
    ASSUME TypeOK, StartInv, CallCreatePod
    PROVE  StartInv' /\ todo' = << >> /\ patches' = << >>
<1> DEFINE x == Head(todo).pod
           p == Head(todo).new
<1>1. Calls("createPod")
    BY DEF CallCreatePod
<1>2. /\ pods' = [pods EXCEPT ![x] = p]
      /\ UNCHANGED <<claims, bkps>> /\ patches' = << >> /\ patches = << >> /\ todo' = Tail(todo)
    BY <1>1 DEF CallCreatePod, Calls
<1>3. /\ 1 \in 1..Len(todo) /\ todo[1] = Head(todo) /\ todo[1].op = "createPod" /\ Len(todo) \in Nat
      /\ x \in Names
    BY <1>1, FirstCall, CallType DEF TypeOK, Calls
<1>4. RunningInv /\ StandaloneInv /\ CreationInv
      /\ (\A m, n \in Joining : m = n) /\ (\A m, n \in BackupsUp : m = n)
    BY DEF StartInv
<1>5. 1 = Len(todo) /\ Joining = {}
    BY <1>3, <1>4 DEF CreationInv
<1>6. todo' = << >>
    BY <1>1, <1>2, <1>5 DEF TypeOK, Calls
<1>7. /\ p.phase = "Pending" /\ p.wsrep = "Disconnected"
      /\ p.state = "standalone" => claims[x] # NoClaim /\ claims[x].rev # p.rev
      /\ p.backup => BackupsUp = {}
    <2> HIDE DEF x, p
    <2>1. todo[1].pod = x /\ todo[1].new = p
        BY <1>3 DEF x, p
    <2> QED BY <1>3, <1>4, <2>1 DEF CreationInv
<1> HIDE DEF x, p
<1>8. pods'[x] = p /\ \A n \in Names : n # x => pods'[n] = pods[n]
    BY <1>2, <1>3 DEF TypeOK
<1>9. RunningInv'
    BY <1>2, <1>4, <1>7, <1>8 DEF RunningInv
<1>10. RelabelInv' /\ DetourOrder' /\ CreationInv'
    <2>1. 1..Len(patches') = {} /\ 1..Len(todo') = {}
        BY <1>2, <1>6
    <2> QED BY <2>1 DEF RelabelInv, DetourOrder, CreationInv
<1>11. StandaloneInv'
    BY <1>2, <1>4, <1>7, <1>8 DEF StandaloneInv, Up
<1>12. \A n \in Names : n # x => (Up(n)' <=> Up(n))
    BY <1>8 DEF Up
<1>13. Joining' \subseteq {x}
    BY <1>5, <1>8, <1>12 DEF Joining
<1>14. \A n \in BackupsUp' : n \in BackupsUp \/ (n = x /\ p.backup)
    BY <1>8, <1>12 DEF BackupsUp
<1>15. \A m, n \in BackupsUp' : m = n
    <2>1. x \notin BackupsUp
        <3>1. pods[x] = NoPod
            BY <1>1 DEF Calls, Accepted, x
        <3> QED BY <3>1 DEF BackupsUp, Up
    <2> QED BY <1>4, <1>7, <1>14
<1> QED BY <1>2, <1>6, <1>9, <1>10, <1>11, <1>13, <1>15 DEF StartInv

-----------------------------------------------------------------------------
(***************************************************************************)
(* What a pass decides when the informers of the pods and of the claims do *)
(* not lag.                                                                *)
(***************************************************************************)

(* The pods a pass counts as ready, and the others. *)
ReadySeen   == {n \in PrimaryPods : Useful(pods[n])}
UnreadySeen == Live \ PrimaryPods

LEMMA PodsTrue ==
    ASSUME "pods" \notin Lagging
    PROVE  /\ CachedPods = pods
           /\ Listed = {n \in Names : pods[n] # NoPod}
           /\ Live = {n \in Names : Up(n)}
           /\ Silent = {}
           /\ PrimaryPods = {n \in Names : /\ Up(n) /\ pods[n].phase = "Ready"
                                           /\ pods[n].wsrep \in {"Primary", "non-Primary"}}
<1>1. CachedPods = pods
    BY DEF CachedPods
<1>2. Listed = {n \in Names : pods[n] # NoPod} /\ Live = {n \in Names : Up(n)}
    BY <1>1 DEF Listed, Live, Up, IsTerminating
<1>3. Silent = {}
    BY <1>1, <1>2 DEF Silent, Asked, Up
<1> QED BY <1>1, <1>2, <1>3 DEF PrimaryPods, Asked, IsRunningAndReady, IsPrimary

(* The loop over the pods goes to its end and counts each of them; the     *)
(* members it finds are what they are called.                              *)
LEMMA ViewTrue ==
    ASSUME "pods" \notin Lagging, TypeOK, StartInv, NEW ord \in SetToSeqs(Listed)
    PROVE  /\ View(ord).stop = NoMember
           /\ View(ord).ready = ReadySeen
           /\ View(ord).unready = UnreadySeen
           /\ View(ord).members.backup = NoMember => Backups = {}
           /\ View(ord).members.writer # NoMember => pods[View(ord).members.writer].role = "writer"
           /\ View(ord).dups \subseteq ReadySeen
           /\ View(ord).status.replicas = Cardinality(Listed)
           /\ View(ord).status.phase = CachedStatus.phase
<1> DEFINE bkp  == FirstIn(ord, Backups)
           stop == FirstIn(ord, (Backups \ {bkp}) \cup Silent)
           last == IF stop = NoMember THEN Len(ord) ELSE CHOOSE i \in DOMAIN ord : ord[i] = stop
           scan == {ord[i] : i \in 1..last}
           w    == FirstIn(ord, scan \cap WithRole("writer"))
           b    == FirstIn(ord, scan \cap WithRole("backup-writer"))
<1>1. /\ View(ord).stop = stop
      /\ View(ord).ready = {n \in scan \cap PrimaryPods : Useful(CachedPods[n])}
      /\ View(ord).members.backup = bkp /\ View(ord).members.writer = w
      /\ View(ord).dups = scan \cap ((WithRole("writer") \ {w}) \cup (WithRole("backup-writer") \ {b}))
      /\ View(ord).status.phase = CachedStatus.phase
    BY DEF View
<1>2. IsFiniteSet(Listed) /\ NoMember \notin Listed
    BY Countable, NamesAssumption DEF Listed
<1>3. ord \in Seq(Listed) /\ \A n \in Listed : \E i \in 1..Len(ord) : ord[i] = n
    BY <1>2, ListingType, ListingCovers
<1>4. Backups \subseteq PrimaryPods /\ PrimaryPods \subseteq Listed /\ Silent = {}
      /\ CachedPods = pods
    BY PodsTrue DEF Backups, PrimaryPods, Asked, Live
<1>5. Backups # {} => bkp \in Backups
    BY <1>2, <1>3, <1>4, FirstInType
<1>6. \A m, n \in Backups : m = n
    <2>1. Backups \subseteq BackupsUp
        BY <1>4, PodsTrue DEF Backups, BackupsUp
    <2> QED BY <2>1 DEF StartInv
<1>7. (Backups \ {bkp}) \cup Silent = {}
    BY <1>4, <1>5, <1>6
<1>8. stop = NoMember
    <2>1. FirstIn(ord, {}) \in {} \cup {NoMember}
        BY <1>3, FirstInType
    <2> QED BY <1>7, <2>1
<1>9. scan = Listed
    BY <1>3, <1>8, LenProperties
<1>10. w \in (scan \cap WithRole("writer")) \cup {NoMember}
    BY <1>3, FirstInType
<1> HIDE DEF w, b, bkp, stop, last, scan
<1>11. View(ord).ready = ReadySeen
    BY <1>1, <1>4, <1>9 DEF ReadySeen
<1>12. w # NoMember => pods[w].role = "writer"
    BY <1>4, <1>10 DEF WithRole
<1>13. bkp = NoMember => Backups = {}
    BY <1>2, <1>4, <1>5
<1>14. View(ord).dups \subseteq ReadySeen
    BY <1>1, <1>4 DEF WithRole, ReadySeen, Useful
<1> QED BY <1>1, <1>8, <1>11, <1>12, <1>13, <1>14, ViewWhole DEF UnreadySeen

(* The patches are for ready pods and leave them useful, but for one when  *)
(* there are three or more.                                                *)
Spares(q, x) ==
    /\ q.pod \in ReadySeen
    /\ Useful(q.labels) \/ (Cardinality(ReadySeen) > 2 /\ q.pod = x)
SparesReady(ps) == \E x : \A i \in 1..Len(ps) : Spares(ps[i], x)

LEMMA LabellingTrue ==
    ASSUME "pods" \notin Lagging, TypeOK, StartInv, NEW ord \in SetToSeqs(Listed),
           NEW d \in InOrder(ord, View(ord).dups)
    PROVE  /\ SparesReady(Labelling(View(ord), d).patches)
           /\ Labelling(View(ord), d).members.backup = NoMember => Backups = {}
<1> DEFINE v == View(ord)
           l == SetLabels(CachedPods, v.ord, v.ready, v.members)
           x == StopsReading(CachedPods, v.ord, v.ready, v.members)
<1>1. v \in Views /\ v.ord = ord /\ \A n \in v.ready : \E i \in 1..Len(ord) : ord[i] = n
    BY ViewType
<1>2. /\ v.ready = ReadySeen
      /\ v.members.backup = NoMember => Backups = {}
      /\ v.members.writer # NoMember => pods[v.members.writer].role = "writer"
      /\ v.dups \subseteq ReadySeen
    BY ViewTrue
<1>3. d \in InOrder(ord, v.dups)
    OBVIOUS
<1>4. Labelling(v, d) = [l EXCEPT !.patches = Demotions(d) \o l.patches]
    BY DEF Labelling
<1> HIDE DEF v
<1>5. CachedPods = pods /\ IsFiniteSet(Listed) /\ NoMember \notin Listed
    BY PodsTrue, Countable, NamesAssumption DEF Listed
<1>6. /\ v.ord \in Seq(Listed) /\ v.ready \in SUBSET Listed /\ v.members \in Members(Listed)
      /\ v.dups \in SUBSET Listed
    BY <1>1 DEF Views
<1>7. \A n \in Listed : LabelsOf(CachedPods[n]) \in LabelSets(Revs)
    BY ListedType
<1>8. \A n \in v.ready : \E i \in 1..Len(v.ord) : v.ord[i] = n
    BY <1>1
<1> DEFINE P == CachedPods
           rd == v.ready
           m == v.members
           o == v.ord
<1>0. /\ IsFiniteSet(Listed) /\ NoMember \notin Listed
      /\ \A n \in Listed : LabelsOf(P[n]) \in LabelSets(Revs)
      /\ o \in Seq(Listed) /\ rd \in SUBSET Listed /\ m \in Members(Listed)
      /\ \A n \in rd : \E i \in 1..Len(o) : o[i] = n
      /\ m.writer # NoMember => P[m.writer].role = "writer"
    BY <1>2, <1>5, <1>6, <1>7, <1>8
<1> DEFINE Q == SparingPatches(P, o, rd, m, Revs)
<1>9. /\ l \in [patches : Seq(Q), members : {k \in Members(Listed) : k.backup = m.backup},
                ok : BOOLEAN]
      /\ l \in [patches : Seq(CachedPatches), members : Members(Listed), ok : BOOLEAN]
    <2> HIDE DEF P, rd, m, o
    <2>1. SetLabels(P, o, rd, m) \in
             [patches : Seq(SparingPatches(P, o, rd, m, Revs)),
              members : {k \in Members(Listed) : k.backup = m.backup}, ok : BOOLEAN]
        BY <1>0, SetLabelsSpares
    <2>2. SetLabels(P, o, rd, m) \in
             [patches : Seq(PatchesOf(P, Listed, Revs)), members : Members(Listed), ok : BOOLEAN]
        BY <1>0, SetLabelsType
    <2> QED BY <2>1, <2>2 DEF CachedPatches, P, rd, m, o
<1> HIDE DEF l, Q
<1>10. \A i \in 1..Len(l.patches) : Spares(l.patches[i], x)
    <2>1. l.patches \in Seq(Q)
        BY <1>9
    <2>2. \A i \in 1..Len(l.patches) : l.patches[i] \in Q
        BY <2>1
    <2>3. \A q \in Q : q.pod \in rd /\ (Useful(q.labels) \/ (Cardinality(rd) > 2 /\ q.pod = x))
        BY DEF Q, SparingPatches
    <2> HIDE DEF x
    <2> QED BY <1>2, <2>2, <2>3 DEF Spares
<1> HIDE DEF x
<1>11. d \in Seq(v.dups)
    <2>1. IsFiniteSet(v.dups)
        BY <1>5, <1>6, FS_Subset
    <2> QED BY <1>3, <2>1, InOrderType
<1>12. Len(Demotions(d)) = Len(d) /\ Demotions(d) \in Seq(CachedPatches)
       /\ \A i \in 1..Len(d) : Spares(Demotions(d)[i], x)
    <2>1. Len(d) \in Nat /\ \A i \in 1..Len(d) : d[i] \in v.dups
        BY <1>11, LenProperties
    <2>2. Demotions(d) \in Seq(CachedPatches)
        BY LabellingType
    <2>3. \A k : Useful(AddReader(RemoveRole(LabelsOf(k))))
        BY DEF Useful, AddReader, RemoveRole, LabelsOf
    <2>4. ASSUME NEW i \in 1..Len(d) PROVE Spares(Demotions(d)[i], x)
        <3>1. Demotions(d)[i] = Patch(d[i], AddReader(RemoveRole(LabelsOf(CachedPods[d[i]]))))
            BY <2>4 DEF Demotions
        <3>2. d[i] \in ReadySeen
            BY <1>2, <2>1, <2>4
        <3> QED BY <2>3, <3>1, <3>2 DEF Spares, Patch
    <2>5. Len(Demotions(d)) = Len(d)
        BY <2>1 DEF Demotions
    <2> QED BY <2>2, <2>4, <2>5
<1> DEFINE ps == Demotions(d) \o l.patches
<1>13. \A i \in 1..Len(ps) : Spares(ps[i], x)
    <2>1. l.patches \in Seq(CachedPatches)
        BY <1>9
    <2> DEFINE a == Demotions(d)
               c == l.patches
    <2>2. /\ a \in Seq(CachedPatches) /\ c \in Seq(CachedPatches)
          /\ (\A i \in 1..Len(a) : Spares(a[i], x)) /\ (\A i \in 1..Len(c) : Spares(c[i], x))
        BY <1>10, <1>12, <2>1
    <2> HIDE DEF a, c
    <2>3. \A i \in 1..Len(a \o c) : Spares((a \o c)[i], x)
        <3>1. TAKE i \in 1..Len(a \o c)
        <3>2. Len(a) \in Nat /\ Len(c) \in Nat /\ Len(a \o c) = Len(a) + Len(c)
            BY <2>2
        <3>3. CASE i <= Len(a)
            <4>1. i \in 1..Len(a) /\ (a \o c)[i] = a[i]
                BY <2>2, <3>1, <3>2, <3>3
            <4> QED BY <2>2, <4>1
        <3>4. CASE i > Len(a)
            <4>1. i - Len(a) \in 1..Len(c) /\ (a \o c)[i] = c[i - Len(a)]
                BY <2>2, <3>1, <3>2, <3>4
            <4> QED BY <2>2, <4>1
        <3> QED BY <3>1, <3>2, <3>3, <3>4
    <2> QED BY <2>3 DEF a, c
<1>14. Labelling(v, d).patches = ps /\ Labelling(v, d).members = l.members
    BY <1>4, <1>9
<1> HIDE DEF ps
<1>15. SparesReady(Labelling(v, d).patches)
    BY <1>13, <1>14 DEF SparesReady
<1>16. Labelling(v, d).members.backup = NoMember => Backups = {}
    BY <1>2, <1>9, <1>14
<1> QED BY <1>15, <1>16 DEF v

(* The phase of the status a pass writes is the one it has set. *)
LEMMA PhaseWritten ==
    ASSUME TypeOK, NEW st \in PassStatuses
    PROVE  /\ StatusToWrite(st) # NoStatus => StatusToWrite(st).phase = st.phase
           /\ \A r : Less(st, r).phase = st.phase
<1>1. CompleteRollingUpdate(st).phase = st.phase
    BY DEF CompleteRollingUpdate, PassStatuses
<1>2. \A r : Less(st, r).phase = st.phase
    BY DEF Less, PassStatuses
<1> QED BY <1>1, <1>2 DEF StatusToWrite

(* A status says Running when the cached one does, or when as many pods    *)
(* are listed as are wanted and none of them is terminating.               *)
SaysRunningRightly(s) ==
    (s # NoStatus /\ s.phase = "Running") =>
        \/ CachedStatus.phase = "Running"
        \/ Cardinality(Listed) = CachedSpec.replicas /\ Live = Listed

LEMMA PhaseSet ==
    ASSUME "pods" \notin Lagging, TypeOK, StartInv, NEW ord \in SetToSeqs(Listed)
    PROVE  /\ WithMembers(View(ord)).phase = CachedStatus.phase
           /\ SetStatusPhaseAndConditions(View(ord)).phase = "Running" =>
                 \/ CachedStatus.phase = "Running"
                 \/ Cardinality(Listed) = CachedSpec.replicas
<1> DEFINE v == View(ord)
           st == WithMembers(v)
<1>1. v \in Views /\ v.status.replicas = Cardinality(Listed) /\ v.status.phase = CachedStatus.phase
    BY ViewType, ViewTrue
<1> HIDE DEF v
<1>2. st.phase = CachedStatus.phase /\ st.replicas = Cardinality(Listed) /\ st \in PassStatuses
    <2>1. v.status \in PassStatuses
        BY <1>1 DEF Views
    <2>2. st \in PassStatuses
        BY <1>1, ViewStatusType
    <2> QED BY <1>1, <2>1, <2>2 DEF WithMembers, PassStatuses
<1>3. SetStatusPhaseAndConditions(v).phase = "Running" =>
         st.phase = "Running" \/ st.replicas = CachedSpec.replicas
    <2>1. SetStatusPhaseAndConditions(v) =
             CASE st.phase = "Creating" /\ st.replicas = CachedSpec.replicas -> [st EXCEPT !.phase = "Running"]
               [] st.phase = "Running" -> [st EXCEPT !.upgrading = Image[CurrentRevision] # Image[Template]]
               [] OTHER -> st
        BY DEF SetStatusPhaseAndConditions
    <2> HIDE DEF st
    <2> QED BY <2>1
<1> QED BY <1>2, <1>3 DEF v

(* The calls of considerPodAndClaimTermination and deletePodForUpgrade,    *)
(* for a reader too many and an outdated pod.                              *)
Terminations(victim, old) ==
    {DeletePod(n) : n \in (UnreadySeen \cup {victim, old}) \ {NoMember}}
    \cup {CheckSynced(n) : n \in Names}
    \cup {DeleteClaim(n) : n \in UnusedClaims \cup ({old} \ {NoMember})}

DropsFailed ==
    \E n \in Live : pods[n].phase = "Failed" /\ todo' = <<DeletePod(n)>>
DropsClaim ==
    \/ \E n \in Names : todo' = <<DeleteBkp(n)>>
    \/ \E n \in NoMatchClaims : todo' = <<DeleteClaim(n)>>
Upgrades ==
    \E n \in UnreadySeen :
        /\ pods[n].phase = "Ready" /\ pods[n].rev # claims[n].rev
        /\ todo' = <<MysqlUpgrade(n), DeletePod(n), PatchClaim(n, pods[n].rev)>>
Creates ==
    /\ Cardinality(ReadySeen) < CachedSpec.replicas
    /\ Live = Listed /\ ClaimsClean
    /\ \A n \in UnreadySeen : pods[n].phase = "Ready" /\ pods[n].rev = claims[n].rev
    /\ \E n \in PodNames, role \in Roles :
          /\ role = "backup" => Backups = {}
          /\ todo' = CreatePodAndClaim(n, NewPod(n, role, ReadySeen = {}))
Terminates ==
    /\ Cardinality(ReadySeen) >= CachedSpec.replicas
    /\ ClaimsClean
    /\ \E victim, old \in ReadySeen \cup {NoMember} :
          /\ victim # NoMember => Cardinality(ReadySeen) > CachedSpec.replicas
          /\ old # NoMember => CurrentRevision # NextRevision
          /\ todo' \in Seq(Terminations(victim, old))
          /\ \A i \in 1..Len(todo') :
                todo'[i].op = "deleteClaim" => todo'[i].pod \in UnusedClaims \/ ~Matching(todo'[i].pod)

Decided ==
    /\ SparesReady(patches')
    /\ SaysRunningRightly(result')
    /\ todo' = << >> \/ DropsFailed \/ DropsClaim \/ Upgrades \/ Creates \/ Terminates

LEMMA NothingSpared == SparesReady(<< >>)
BY DEF SparesReady

(* The calls that stop the two pods. *)
LEMMA TerminationCalls ==
    ASSUME NoMember \notin Names, ReadySeen \subseteq Names,
           NEW victim \in ReadySeen \cup {NoMember}, NEW old \in ReadySeen \cup {NoMember}
    PROVE  LET T == {o \in Terminations(victim, old) :
                        o.op = "deleteClaim" => o.pod \in UnusedClaims \/ ~Matching(o.pod)}
           IN  /\ DeleteSyncedPod(victim) \in Seq(T)
               /\ DeleteSyncedPodForUpgrade(old) \in Seq(T)
               /\ \A c \in UnusedClaims : <<DeleteClaim(c)>> \in Seq(T)
               /\ \A u \in Seq(UnreadySeen) : NoMember \notin UnreadySeen => DeletePods(u) \in Seq(T)
<1> DEFINE T == {o \in Terminations(victim, old) :
                    o.op = "deleteClaim" => o.pod \in UnusedClaims \/ ~Matching(o.pod)}
<1>1. /\ \A n \in (UnreadySeen \cup {victim, old}) \ {NoMember} : DeletePod(n) \in T
      /\ \A n \in Names : CheckSynced(n) \in T
      /\ \A n \in UnusedClaims : DeleteClaim(n) \in T
      /\ old # NoMember /\ ~Matching(old) => DeleteClaim(old) \in T
    BY DEF Terminations, DeletePod, CheckSynced, DeleteClaim
<1> HIDE DEF T
<1>2. << >> \in Seq(T) /\ \A a, b \in T : <<a>> \in Seq(T) /\ <<a, b>> \in Seq(T)
    OBVIOUS
<1>3. DeleteSyncedPod(victim) \in Seq(T)
    BY <1>1, <1>2 DEF DeleteSyncedPod
<1>4. DeleteSyncedPodForUpgrade(old) \in Seq(T)
    <2>1. CASE old = NoMember
        BY <1>2, <2>1 DEF DeleteSyncedPodForUpgrade
    <2>2. CASE old # NoMember
        <3> DEFINE c == IF Matching(old) THEN << >> ELSE <<DeleteClaim(old)>>
        <3>1. <<CheckSynced(old)>> \in Seq(T) /\ <<DeletePod(old)>> \in Seq(T) /\ c \in Seq(T)
            BY <1>1, <1>2, <2>2
        <3>2. DeleteSyncedPodForUpgrade(old) = <<CheckSynced(old)>> \o c \o <<DeletePod(old)>>
            BY <2>2 DEF DeleteSyncedPodForUpgrade
        <3> HIDE DEF c
        <3>3. <<CheckSynced(old)>> \o c \in Seq(T)
            BY <3>1, ConcatProperties
        <3> QED BY <3>1, <3>2, <3>3, ConcatProperties
    <2> QED BY <2>1, <2>2
<1>5. ASSUME NEW u \in Seq(UnreadySeen), NoMember \notin UnreadySeen PROVE DeletePods(u) \in Seq(T)
    <2>1. Len(u) \in Nat /\ \A i \in 1..Len(u) : u[i] \in UnreadySeen
        BY LenProperties
    <2>2. DeletePods(u) \in [1..Len(u) -> T]
        BY <1>1, <1>5, <2>1 DEF DeletePods
    <2> QED BY <2>1, <2>2, SeqDef
<1> QED BY <1>1, <1>2, <1>3, <1>4, <1>5 DEF T

LEMMA Decides ==
    ASSUME "pods" \notin Lagging, "claims" \notin Lagging, TypeOK, StartInv, Sync
    PROVE  Decided
<1>1. CachedPods = pods /\ CachedClaims = claims /\ CachedBkps = bkps
    BY DEF CachedPods, CachedClaims, CachedBkps
<1>2. Listed \subseteq Names /\ Live \subseteq Listed /\ ReadySeen \subseteq Live /\ NoMember \notin Names
      /\ UnreadySeen \subseteq Live
    BY NamesAssumption DEF Listed, Live, ReadySeen, PrimaryPods, Asked, UnreadySeen
<1>3. PodsWithoutClaims = {}
    BY <1>1 DEF PodsWithoutClaims, Listed, IsHealthy, IsRunningAndReady, HasClaims, StartInv, RunningInv
<1>4. CASE SyncNew
    <2> DEFINE st == [Status0 EXCEPT !.phase = "Creating", !.gen = CachedSpec.gen,
                                     !.current = CurrentRevision, !.next = NextRevision]
    <2>1. st \in PassStatuses
        <3>1. "Creating" \in Phases /\ CachedSpec.gen \in Nat
              /\ CurrentRevision \in {CurrentRevision} /\ NextRevision \in {NextRevision}
            BY CachedType DEF Phases
        <3> QED BY <3>1, FreshStatusType
    <2>2. st.phase = "Creating"
        BY DEF Status0
    <2> HIDE DEF st
    <2>3. patches' = << >> /\ todo' = << >> /\ result' = StatusToWrite(st)
        BY <1>4 DEF SyncNew, Decide, st
    <2> QED BY <2>1, <2>2, <2>3, PhaseWritten, NothingSpared DEF Decided, SaysRunningRightly
<1>5. ASSUME NEW ord \in SetToSeqs(Listed), NEW v, v = View(ord),
             NEW d \in InOrder(v.ord, v.dups), NEW l, l = Labelling(v, d)
      PROVE  (\/ SyncUnanswered(v, d) \/ SyncDeleteSecondBackup(v, d) \/ SyncLabelOnly(v, l)
              \/ SyncLost(v, l) \/ SyncCleanClaims(v, l) \/ SyncMysqlUpgrade(v, l)
              \/ SyncCheckUnready(v, l) \/ SyncCreatePod(v, l) \/ SyncTerminate(v, l)) => Decided
    <2>1. v \in Views /\ v.ord = ord /\ v.ord \in Seq(Listed)
        BY <1>5, ViewType DEF Views
    <2>2. v.stop = NoMember /\ v.ready = ReadySeen /\ v.unready = UnreadySeen
        BY <1>5, ViewTrue
    <2>3. SparesReady(l.patches) /\ (l.members.backup = NoMember => Backups = {})
        BY <1>5, <2>1, LabellingTrue
    <2> DEFINE st == SetStatusPhaseAndConditions(v)
    <2>4. st \in PassStatuses /\ WithMembers(v) \in PassStatuses
        BY <2>1, ViewStatusType
    <2>5. /\ WithMembers(v).phase = CachedStatus.phase
          /\ st.phase = "Running" =>
                CachedStatus.phase = "Running" \/ Cardinality(Listed) = CachedSpec.replicas
        BY <1>5, PhaseSet
    <2> HIDE DEF st
    <2>6. ASSUME Live = Listed, NEW s \in PassStatuses, s.phase = st.phase
          PROVE  SaysRunningRightly(StatusToWrite(s))
        BY <2>5, <2>6, PhaseWritten DEF SaysRunningRightly
    <2>7. ASSUME Settled(v, l) PROVE Live = Listed
        BY <2>7 DEF Settled, LabelsEndPass
    <2>8. ASSUME SyncUnanswered(v, d) \/ SyncDeleteSecondBackup(v, d) PROVE Decided
        <3>1. v.stop \in Listed
            BY <1>2, <2>8 DEF SyncUnanswered, SyncDeleteSecondBackup, Silent, Asked, Backups, PrimaryPods
        <3> QED BY <1>2, <2>2, <3>1
    <2>9. ASSUME SyncLabelOnly(v, l) PROVE Decided
        <3>1. todo' = << >> /\ patches' = l.patches
              /\ result' \in {NoStatus, StatusToWrite(WithMembers(v))}
            BY <2>9 DEF SyncLabelOnly, Decide
        <3>2. SaysRunningRightly(result')
            BY <2>4, <2>5, <3>1, PhaseWritten DEF SaysRunningRightly
        <3> QED BY <2>3, <3>1, <3>2 DEF Decided
    <2>10. ASSUME SyncLost(v, l) PROVE Decided
        BY <2>3, <2>10 DEF SyncLost, Decide, Decided, SaysRunningRightly
    <2>11. ASSUME SyncCleanClaims(v, l) PROVE Decided
        <3>1. /\ patches' = l.patches /\ result' = StatusToWrite(st)
              /\ todo' = << >> \/ DropsClaim
            BY <2>11 DEF SyncCleanClaims, Decide, st, DropsClaim, UnusedBkps
        <3>2. Live = Listed
            BY <2>7, <2>11 DEF SyncCleanClaims
        <3> QED BY <2>3, <2>4, <2>6, <3>1, <3>2 DEF Decided
    <2>12. ASSUME SyncMysqlUpgrade(v, l) PROVE Decided
        <3>1. patches' = l.patches /\ result' = StatusToWrite(st) /\ Upgrades
            BY <1>1, <2>2, <2>12 DEF SyncMysqlUpgrade, Decide, st, UpgradeDue, Upgrades,
                IsRunningAndReady
        <3>2. Live = Listed
            BY <2>7, <2>12 DEF SyncMysqlUpgrade
        <3> QED BY <2>3, <2>4, <2>6, <3>1, <3>2 DEF Decided
    <2>13. ASSUME SyncCheckUnready(v, l) PROVE Decided
        <3>1. PICK n \in UnreadySeen :
                 /\ patches' = l.patches
                 /\ \/ /\ pods[n].phase = "Failed" /\ todo' = <<DeletePod(n)>>
                       /\ result' = StatusToWrite(Less(st, CachedPods[n].rev))
                    \/ todo' = << >> /\ result' = StatusToWrite(st)
            BY <1>1, <2>2, <2>13 DEF SyncCheckUnready, Decide, st, NotRunning, IsFailed
        <3>2. Live = Listed
            BY <2>7, <2>13 DEF SyncCheckUnready, Deployable
        <3>3. Less(st, CachedPods[n].rev) \in PassStatuses
              /\ Less(st, CachedPods[n].rev).phase = st.phase
            BY <2>4, StatusType, PhaseWritten
        <3>4. SaysRunningRightly(result')
            BY <2>4, <2>6, <3>1, <3>2, <3>3
        <3>5. todo' = << >> \/ DropsFailed
            BY <1>2, <3>1 DEF DropsFailed
        <3> QED BY <2>3, <3>1, <3>4, <3>5 DEF Decided
    <2>14. ASSUME SyncCreatePod(v, l) PROVE Decided
        <3> DEFINE more == [st EXCEPT !.replicas = @ + 1,
                       !.currentReplicas = IF NextRevision = CurrentRevision THEN @ + 1 ELSE @,
                       !.nextReplicas = IF NextRevision = CurrentRevision THEN @ ELSE @ + 1]
                   role == ChoseRole(l.members)
        <3>1. /\ patches' = l.patches /\ result' = StatusToWrite(more)
              /\ \E n \in PodNames : todo' = CreatePodAndClaim(n, NewPod(n, role, ReadySeen = {}))
              /\ Deployable(v, l) /\ TooFew(v) /\ NotRunning(v) = {}
            BY <2>2, <2>14 DEF SyncCreatePod, Decide, st
        <3>2. more \in PassStatuses /\ more.phase = st.phase
            <4>1. ASSUME NEW a \in Int, NEW b \in Int, NEW c \in Int
                  PROVE  /\ [st EXCEPT !.replicas = a, !.currentReplicas = b, !.nextReplicas = c]
                               \in PassStatuses
                         /\ [st EXCEPT !.replicas = a, !.currentReplicas = b,
                                       !.nextReplicas = c].phase = st.phase
                BY <2>4 DEF PassStatuses
            <4> DEFINE a == st.replicas + 1
                       b == IF NextRevision = CurrentRevision THEN st.currentReplicas + 1
                            ELSE st.currentReplicas
                       c == IF NextRevision = CurrentRevision THEN st.nextReplicas
                            ELSE st.nextReplicas + 1
            <4>2. a \in Int /\ b \in Int /\ c \in Int
                BY <2>4 DEF PassStatuses
            <4>3. more = [st EXCEPT !.replicas = a, !.currentReplicas = b, !.nextReplicas = c]
                OBVIOUS
            <4> HIDE DEF a, b, c, more
            <4> QED BY <4>1, <4>2, <4>3
        <3>3. role \in Roles /\ (role = "backup" => l.members.backup = NoMember)
            BY ChoseRoleType DEF ChoseRole
        <3> HIDE DEF more, role
        <3>4. Live = Listed /\ ClaimsClean /\ UpgradeDue(v) = {}
            BY <2>7, <3>1 DEF Deployable
        <3>5. SaysRunningRightly(result')
            BY <2>6, <3>1, <3>2, <3>4
        <3>6. \A n \in UnreadySeen : pods[n].phase = "Ready" /\ pods[n].rev = claims[n].rev
            BY <1>1, <2>2, <3>1, <3>4 DEF NotRunning, UpgradeDue, IsRunningAndReady
        <3>7. Cardinality(ReadySeen) < CachedSpec.replicas
            BY <2>2, <3>1 DEF TooFew
        <3>8. Creates
            BY <2>3, <3>1, <3>3, <3>4, <3>6, <3>7 DEF Creates
        <3> QED BY <2>3, <3>1, <3>5, <3>8 DEF Decided
    <2>15. ASSUME SyncTerminate(v, l) PROVE Decided
        <3> DEFINE V == Victim(v)
                   O == Outdated(v)
                   T == {o \in Terminations(V, O) :
                            o.op = "deleteClaim" => o.pod \in UnusedClaims \/ ~Matching(o.pod)}
                   up(s) == IF Outdated(v) = NoMember THEN s ELSE [s EXCEPT !.currentReplicas = @ - 1]
                   low == IF V = NoMember THEN st ELSE Less(st, CachedPods[V].rev)
        <3>1. /\ V \in ReadySeen \cup {NoMember} /\ O \in ReadySeen \cup {NoMember}
              /\ V # NoMember => Cardinality(ReadySeen) > CachedSpec.replicas
              /\ O # NoMember => CurrentRevision # NextRevision
            <4>1. \A S \in SUBSET v.ready : FirstIn(v.ord, S) \in ReadySeen \cup {NoMember}
                BY <2>1, <2>2, FirstInType
            <4> QED BY <2>2, <4>1 DEF Victim, Outdated
        <3>2. Live = Listed /\ ~TooFew(v) /\ ClaimsClean
            BY <2>7, <2>15 DEF SyncTerminate, Deployable
        <3>3. Cardinality(ReadySeen) >= CachedSpec.replicas
            <4>1. Cardinality(ReadySeen) \in Nat /\ CachedSpec.replicas \in Nat
                BY <1>2, Countable, CachedType
            <4> QED BY <2>2, <3>2, <4>1 DEF TooFew
        <3>4. ASSUME NEW s \in PassStatuses PROVE up(s) \in PassStatuses /\ up(s).phase = s.phase
            BY DEF PassStatuses
        <3>5. low \in PassStatuses /\ low.phase = st.phase
            BY <2>4, StatusType, PhaseWritten
        <3>6. UnreadySeen \subseteq Names /\ NoMember \notin UnreadySeen /\ ReadySeen \subseteq Names
            BY <1>2
        <3>7. /\ DeleteSyncedPod(V) \in Seq(T) /\ DeleteSyncedPodForUpgrade(O) \in Seq(T)
              /\ \A c \in UnusedClaims : <<DeleteClaim(c)>> \in Seq(T)
              /\ \A u \in Seq(UnreadySeen) : DeletePods(u) \in Seq(T)
            <4> HIDE DEF V, O
            <4> QED BY <1>2, <3>1, <3>6, TerminationCalls
        <3> HIDE DEF T
        <3>8. ASSUME todo' \in Seq(T) PROVE Terminates
            <4>1. T \subseteq Terminations(V, O)
                BY DEF T
            <4>2. todo' \in Seq(Terminations(V, O))
                BY <3>8, <4>1, SeqMonotonic
            <4>3. \A i \in 1..Len(todo') : todo'[i] \in T
                BY <3>8
            <4>4. \A i \in 1..Len(todo') :
                     todo'[i].op = "deleteClaim" => todo'[i].pod \in UnusedClaims \/ ~Matching(todo'[i].pod)
                BY <4>3 DEF T
            <4> HIDE DEF V, O
            <4> QED BY <3>1, <3>2, <3>3, <4>2, <4>4 DEF Terminates
        <3>9. CASE \E c \in UnusedClaims :
                 Decide(l.patches, <<DeleteClaim(c)>> \o DeleteSyncedPodForUpgrade(O),
                        StatusToWrite(up(st)))
            <4>1. PICK c \in UnusedClaims :
                     /\ patches' = l.patches /\ result' = StatusToWrite(up(st))
                     /\ todo' = <<DeleteClaim(c)>> \o DeleteSyncedPodForUpgrade(O)
                BY <3>9 DEF Decide
            <4> HIDE DEF up, O
            <4>2. todo' \in Seq(T)
                BY <3>7, <4>1, ConcatProperties
            <4> QED BY <2>3, <2>4, <2>6, <3>2, <3>4, <3>8, <4>1, <4>2 DEF Decided
        <3>10. CASE \E u \in InOrder(v.ord, v.unready) :
                 Decide(l.patches, DeletePods(u) \o DeleteSyncedPod(V)
                                       \o DeleteSyncedPodForUpgrade(O),
                        StatusToWrite(up(low)))
            <4>1. PICK u \in InOrder(v.ord, v.unready) :
                     /\ patches' = l.patches /\ result' = StatusToWrite(up(low))
                     /\ todo' = DeletePods(u) \o DeleteSyncedPod(V) \o DeleteSyncedPodForUpgrade(O)
                BY <3>10 DEF Decide
            <4> HIDE DEF up, low, V, O
            <4>2. u \in Seq(UnreadySeen)
                BY <2>2, <3>6, Countable, InOrderType
            <4>3. DeletePods(u) \o DeleteSyncedPod(V) \in Seq(T)
                BY <3>7, <4>2, ConcatProperties
            <4>4. todo' \in Seq(T)
                BY <3>7, <4>1, <4>3, ConcatProperties
            <4> QED BY <2>3, <2>6, <3>2, <3>4, <3>5, <3>8, <4>1, <4>4 DEF Decided
        <3> QED BY <2>15, <3>9, <3>10 DEF SyncTerminate, st
    <2> QED BY <2>8, <2>9, <2>10, <2>11, <2>12, <2>13, <2>14, <2>15
<1> QED BY <1>3, <1>4, <1>5 DEF Sync, SyncRun, SyncDeletePodWithoutClaims

(* What a decision takes away: pods that are not ready, a reader too many  *)
(* and one outdated pod, but these two only when there are enough ready    *)
(* pods; claims that no pod uses, and that of the outdated pod.            *)
Takes(victim, old) ==
    /\ victim \in ReadySeen \cup {NoMember} /\ old \in ReadySeen \cup {NoMember}
    /\ victim # NoMember => Cardinality(ReadySeen) > CachedSpec.replicas
    /\ old # NoMember => Cardinality(ReadySeen) >= CachedSpec.replicas
    /\ {victim, old} # {NoMember} => TerminatingClaims = {}
    /\ Doomed' \subseteq UnreadySeen \cup {victim, old}
    /\ \A n \in Doomed' : pods[n].phase = "Pending" => Cardinality(ReadySeen) >= CachedSpec.replicas
    /\ \A n \in Discarded' :
          \/ n \in NoMatchClaims
          \/ Cardinality(ReadySeen) >= CachedSpec.replicas /\ n \in UnusedClaims
          \/ n = old /\ ~Matching(n)

LEMMA DecidedTakes ==
    ASSUME "pods" \notin Lagging, TypeOK, Decided
    PROVE  /\ \E victim, old : Takes(victim, old)
           /\ \A i \in 1..Len(todo') : todo'[i].op = "patchClaim" =>
                 \E j \in 1..(i - 1) : todo'[j].op = "deletePod" /\ todo'[j].pod = todo'[i].pod
           /\ Creates \/ \A i \in 1..Len(todo') : todo'[i].op \notin {"createPod", "createClaim"}
<1>1. \A n : /\ DeletePod(n).op = "deletePod" /\ DeletePod(n).pod = n
             /\ DeleteClaim(n).op = "deleteClaim" /\ DeleteClaim(n).pod = n
             /\ DeleteBkp(n).op = "deleteBkp" /\ CheckSynced(n).op = "checkSynced"
             /\ MysqlUpgrade(n).op = "mysqlUpgrade"
    BY DEF DeletePod, DeleteClaim, DeleteBkp, CheckSynced, MysqlUpgrade
<1>2. \A n, p, r, c : /\ CreateClaim(n, r, c).op = "createClaim" /\ CreateBkp(n).op = "createBkp"
                      /\ CreatePod(n, p).op = "createPod"
                      /\ PatchClaim(n, r).op = "patchClaim" /\ PatchClaim(n, r).pod = n
    BY DEF CreateClaim, CreateBkp, CreatePod, PatchClaim
<1>3. Doomed' = {n \in Names : \E i \in 1..Len(todo') : todo'[i].op = "deletePod" /\ todo'[i].pod = n}
      /\ Discarded' = {n \in Names : \E i \in 1..Len(todo') : todo'[i].op = "deleteClaim" /\ todo'[i].pod = n}
    BY DEF Doomed, Discarded
<1>4. ASSUME Doomed' \subseteq {n \in UnreadySeen : pods[n].phase # "Pending"},
             Discarded' \subseteq NoMatchClaims
      PROVE  \E victim, old : Takes(victim, old)
    <2>1. Takes(NoMember, NoMember)
        BY <1>4 DEF Takes
    <2> QED BY <2>1
<1>5. CASE todo' = << >>
    <2>1. \A i \in 1..Len(todo') : FALSE
        BY <1>5
    <2>2. Doomed' = {} /\ Discarded' = {}
        BY <1>3, <2>1
    <2> QED BY <1>4, <2>1, <2>2
<1>6. CASE DropsFailed
    <2>1. PICK n \in Live : pods[n].phase = "Failed" /\ todo' = <<DeletePod(n)>>
        BY <1>6 DEF DropsFailed
    <2>2. \A i \in 1..Len(todo') : todo'[i] = DeletePod(n)
        BY <2>1
    <2>3. Doomed' \subseteq {n} /\ Discarded' = {}
        BY <1>1, <1>3, <2>2
    <2>4. n \in UnreadySeen /\ pods[n].phase # "Pending"
        BY <2>1, PodsTrue DEF UnreadySeen
    <2> QED BY <1>1, <1>4, <2>2, <2>3, <2>4
<1>7. CASE DropsClaim
    <2>1. CASE \E n \in Names : todo' = <<DeleteBkp(n)>>
        <3>1. \A i \in 1..Len(todo') : todo'[i].op = "deleteBkp"
            BY <1>1, <2>1
        <3>2. Doomed' = {} /\ Discarded' = {}
            BY <1>3, <3>1
        <3> QED BY <1>4, <3>1, <3>2
    <2>2. CASE \E n \in NoMatchClaims : todo' = <<DeleteClaim(n)>>
        <3>1. PICK n \in NoMatchClaims : todo' = <<DeleteClaim(n)>>
            BY <2>2
        <3>2. \A i \in 1..Len(todo') : todo'[i] = DeleteClaim(n)
            BY <3>1
        <3>3. Doomed' = {} /\ Discarded' \subseteq {n}
            BY <1>1, <1>3, <3>2
        <3> QED BY <1>1, <1>4, <3>2, <3>3
    <2> QED BY <1>7, <2>1, <2>2 DEF DropsClaim
<1>8. CASE Upgrades
    <2>1. PICK n \in UnreadySeen :
             /\ pods[n].phase = "Ready"
             /\ todo' = <<MysqlUpgrade(n), DeletePod(n), PatchClaim(n, pods[n].rev)>>
        BY <1>8 DEF Upgrades
    <2>2. /\ todo'[1] = MysqlUpgrade(n) /\ todo'[2] = DeletePod(n)
          /\ todo'[3] = PatchClaim(n, pods[n].rev)
          /\ \A i \in 1..Len(todo') : i \in {1, 2, 3}
        BY <2>1
    <2>3. Doomed' \subseteq {n} /\ Discarded' = {}
        BY <1>1, <1>2, <1>3, <2>2
    <2>4. \A i \in 1..Len(todo') : todo'[i].op \notin {"createPod", "createClaim"}
        BY <1>1, <1>2, <2>2
    <2>5. ASSUME NEW i \in 1..Len(todo'), todo'[i].op = "patchClaim"
          PROVE  \E j \in 1..(i - 1) : todo'[j].op = "deletePod" /\ todo'[j].pod = todo'[i].pod
        <3>1. i = 3 /\ todo'[i].pod = n
            BY <1>1, <1>2, <2>2, <2>5
        <3>2. 2 \in 1..(i - 1) /\ todo'[2].op = "deletePod" /\ todo'[2].pod = n
            BY <1>1, <2>2, <3>1
        <3> QED BY <3>1, <3>2
    <2> QED BY <1>4, <2>1, <2>3, <2>4, <2>5
<1>9. CASE Creates
    <2>1. PICK n \in PodNames, role \in Roles :
             todo' = CreatePodAndClaim(n, NewPod(n, role, ReadySeen = {}))
        BY <1>9 DEF Creates
    <2>2. n \in Names
        BY DEF PodNames, UnusedClaims
    <2>3. \A i \in 1..Len(todo') : todo'[i].op \in {"createClaim", "createBkp", "createPod"}
        <3> DEFINE p == NewPod(n, role, ReadySeen = {})
        <3> HIDE DEF p
        <3>1. todo' = CreatePodAndClaim(n, p)
            BY <2>1 DEF p
        <3>2. \A i \in 1..Len(todo') : todo'[i] \in
                 {CreateClaim(n, p.rev, ClaimSpec[Template]), CreateBkp(n), CreatePod(n, p)}
            BY <2>2, <3>1, PodCalls
        <3> QED BY <1>2, <3>2
    <2>4. Doomed' = {} /\ Discarded' = {}
        BY <1>3, <2>3
    <2> QED BY <1>4, <1>9, <2>3, <2>4
<1>10. CASE Terminates
    <2>1. PICK victim \in ReadySeen \cup {NoMember}, old \in ReadySeen \cup {NoMember} :
             /\ victim # NoMember => Cardinality(ReadySeen) > CachedSpec.replicas
             /\ todo' \in Seq(Terminations(victim, old))
             /\ \A i \in 1..Len(todo') :
                   todo'[i].op = "deleteClaim" => todo'[i].pod \in UnusedClaims \/ ~Matching(todo'[i].pod)
        BY <1>10 DEF Terminates
    <2>2. Cardinality(ReadySeen) >= CachedSpec.replicas /\ TerminatingClaims = {}
        BY <1>10 DEF Terminates, ClaimsClean
    <2>3. \A i \in 1..Len(todo') : todo'[i] \in Terminations(victim, old)
        BY <2>1
    <2>4. \A o \in Terminations(victim, old) :
             /\ o.op \in {"deletePod", "checkSynced", "deleteClaim"}
             /\ o.op = "deletePod" => o.pod \in UnreadySeen \cup {victim, old}
             /\ o.op = "deleteClaim" => o.pod \in UnusedClaims \/ o.pod = old
        BY <1>1 DEF Terminations
    <2>5. Doomed' \subseteq UnreadySeen \cup {victim, old}
        BY <1>3, <2>3, <2>4
    <2>6. ASSUME NEW n \in Discarded' PROVE n \in UnusedClaims \/ (n = old /\ ~Matching(n))
        <3>1. PICK i \in 1..Len(todo') : todo'[i].op = "deleteClaim" /\ todo'[i].pod = n
            BY <1>3, <2>6
        <3> QED BY <2>1, <2>3, <2>4, <3>1
    <2>7. Takes(victim, old)
        BY <2>1, <2>2, <2>5, <2>6 DEF Takes
    <2> QED BY <2>3, <2>4, <2>7
<1> QED BY <1>5, <1>6, <1>7, <1>8, <1>9, <1>10 DEF Decided

(* The call that creates a pod, as it is decided. *)
LEMMA CreatesPod ==
    ASSUME "pods" \notin Lagging, "claims" \notin Lagging, TypeOK, Creates
    PROVE  \E n \in PodNames, role \in Roles :
              LET p == NewPod(n, role, ReadySeen = {})
              IN  /\ role = "backup" => Backups = {}
                  /\ p \in Pods
                  /\ todo'[Len(todo')].op = "createPod"
                  /\ \A i \in 1..Len(todo') :
                        /\ todo'[i].op \in {"createClaim", "createBkp", "createPod"}
                        /\ todo'[i].pod = n
                        /\ todo'[i].op = "createPod" => i = Len(todo') /\ todo'[i].new = p
                        /\ todo'[i].op = "createClaim" =>
                              /\ i = 1 /\ claims[n] = NoClaim
                              /\ todo'[i].claimSpec = ClaimSpec[Template]
                        /\ todo'[i].op = "createBkp" => i = Len(todo') - 1 /\ bkps[n] = "none"
<1>1. PICK n \in PodNames, role \in Roles :
         /\ role = "backup" => Backups = {}
         /\ todo' = CreatePodAndClaim(n, NewPod(n, role, ReadySeen = {}))
    BY DEF Creates
<1> DEFINE p == NewPod(n, role, ReadySeen = {})
<1>2. n \in Names
    BY DEF PodNames, UnusedClaims
<1>3. p \in Pods
    BY <1>2, NewPodType
<1>4. todo' = CreatePodAndClaim(n, p)
    BY <1>1
<1> HIDE DEF p
<1>5. /\ \A i \in 1..Len(todo') : todo'[i] \in
            {CreateClaim(n, p.rev, ClaimSpec[Template]), CreateBkp(n), CreatePod(n, p)}
      /\ \A i \in 1..Len(todo') : todo'[i].op = "createPod" => i = Len(todo')
      /\ \A i \in 1..Len(todo') : todo'[i].op = "createClaim" => i = 1 /\ CachedClaims[n] = NoClaim
      /\ \A i \in 1..Len(todo') : todo'[i].op = "createBkp" =>
            i = Len(todo') - 1 /\ CachedBkps[n] = "none"
      /\ todo'[Len(todo')].op = "createPod"
    BY <1>2, <1>4, PodCalls
<1>6. \A r, c : /\ CreateClaim(n, r, c).op = "createClaim" /\ CreateClaim(n, r, c).pod = n
                /\ CreateClaim(n, r, c).claimSpec = c
                /\ CreateBkp(n).op = "createBkp" /\ CreateBkp(n).pod = n
                /\ CreatePod(n, p).op = "createPod" /\ CreatePod(n, p).pod = n
                /\ CreatePod(n, p).new = p
    BY DEF CreateClaim, CreateBkp, CreatePod
<1>7. CachedClaims = claims /\ CachedBkps = bkps
    BY DEF CachedClaims, CachedBkps
<1>8. \A i \in 1..Len(todo') :
         /\ todo'[i].op \in {"createClaim", "createBkp", "createPod"}
         /\ todo'[i].pod = n
         /\ todo'[i].op = "createPod" => i = Len(todo') /\ todo'[i].new = p
         /\ todo'[i].op = "createClaim" =>
               i = 1 /\ claims[n] = NoClaim /\ todo'[i].claimSpec = ClaimSpec[Template]
         /\ todo'[i].op = "createBkp" => i = Len(todo') - 1 /\ bkps[n] = "none"
    BY <1>5, <1>6, <1>7
<1> QED BY <1>1, <1>3, <1>5, <1>8 DEF p

LEMMA StartSync ==
    ASSUME "pods" \notin Lagging, "claims" \notin Lagging, TypeOK, StartInv, Sync
    PROVE  StartInv'
<1>1. UNCHANGED <<pods, claims, bkps, data>>
    BY DEF Sync, world
<1>2. Decided /\ patches' \in Seq(CachedPatches)
    BY Decides, Plan DEF Planned
<1>3. RunningInv /\ StandaloneInv /\ (\A m, n \in Joining : m = n) /\ (\A m, n \in BackupsUp : m = n)
    BY DEF StartInv
<1>4. Joining' = Joining /\ BackupsUp' = BackupsUp
    BY <1>1 DEF Joining, BackupsUp, Up
<1>5. RunningInv' /\ StandaloneInv'
    BY <1>1, <1>3 DEF RunningInv, StandaloneInv, Up
<1>6. RelabelInv'
    <2>1. \A i \in 1..Len(patches') : patches'[i] \in CachedPatches
        BY <1>2
    <2>2. \A q \in CachedPatches : q.labels.rev = pods[q.pod].rev /\ q.labels.backup = pods[q.pod].backup
        BY PodsTrue DEF CachedPatches, PatchesOf
    <2> QED BY <1>1, <2>1, <2>2 DEF RelabelInv
<1>7. DetourOrder'
    BY <1>2, DecidedTakes DEF DetourOrder
<1>8. CreationInv'
    <2>1. SUFFICES ASSUME NEW i \in 1..Len(todo'), todo'[i].op = "createPod"
                   PROVE  LET n == todo'[i].pod
                              p == todo'[i].new
                          IN  /\ i = Len(todo')
                              /\ \A j \in 1..Len(todo') :
                                    todo'[j].op \in {"createClaim", "createBkp", "createPod"}
                              /\ p.phase = "Pending" /\ p.wsrep = "Disconnected"
                              /\ p.state = "standalone" => /\ claims[n] # NoClaim
                                                           /\ claims[n].rev # p.rev
                                                           /\ ~claims[n].term
                              /\ Joining = {}
                              /\ p.backup => BackupsUp = {}
        BY <1>1, <1>4 DEF CreationInv
    <2>2. Creates
        BY <1>2, <2>1, DecidedTakes
    <2>3. PICK n \in PodNames, role \in Roles :
             /\ role = "backup" => Backups = {}
             /\ \A j \in 1..Len(todo') :
                   /\ todo'[j].op \in {"createClaim", "createBkp", "createPod"}
                   /\ todo'[j].pod = n
                   /\ todo'[j].op = "createPod" =>
                         j = Len(todo') /\ todo'[j].new = NewPod(n, role, ReadySeen = {})
        BY <2>2, CreatesPod
    <2> DEFINE p == NewPod(n, role, ReadySeen = {})
    <2>4. n \in Names /\ CachedClaims = claims
        BY DEF PodNames, UnusedClaims, CachedClaims
    <2>5. /\ p.phase = "Pending" /\ p.wsrep = "Disconnected" /\ p.rev = NextRevision
          /\ p.state = "standalone" => claims[n] # NoClaim /\ claims[n].rev # NextRevision
          /\ p.backup <=> role = "backup"
        BY <2>4 DEF NewPod, PodLabelsForGalera
    <2> HIDE DEF p
    <2>6. p.state = "standalone" => claims[n] # NoClaim /\ claims[n].rev # p.rev /\ ~claims[n].term
        <3>1. ~(claims[n] # NoClaim /\ claims[n].term)
            BY <2>2, <2>4 DEF Creates, ClaimsClean, TerminatingClaims
        <3> QED BY <2>5, <3>1
    <2>7. \A m \in UnreadySeen : pods[m].phase = "Ready" /\ pods[m].rev = claims[m].rev
        BY <2>2 DEF Creates
    <2>8. ASSUME NEW m \in Joining PROVE FALSE
        <3>1. /\ m \in Names /\ Up(m)
              /\ pods[m].phase = "Pending" \/ (pods[m].phase = "Ready" /\ pods[m].state = "standalone")
            BY DEF Joining
        <3>2. pods[m] # NoPod
            BY <3>1 DEF Up
        <3>3. pods[m].wsrep = "Disconnected"
            <4>1. pods[m].state = "cluster" \/ pods[m].state = "standalone"
                BY <3>1, <3>2 DEF TypeOK, Pods
            <4> QED BY <1>3, <3>1, <3>2 DEF RunningInv
        <3>4. m \in UnreadySeen
            BY <3>1, <3>3, PodsTrue DEF UnreadySeen
        <3> QED BY <1>3, <2>7, <3>1, <3>4 DEF StandaloneInv
    <2>9. ASSUME role = "backup", NEW m \in BackupsUp PROVE FALSE
        <3>1. m \in Names /\ Up(m) /\ pods[m].backup
              /\ (pods[m].phase = "Pending" \/ pods[m].wsrep # "Disconnected")
            BY DEF BackupsUp
        <3>2. pods[m].phase # "Pending"
            BY <2>8, <3>1 DEF Joining
        <3>3. pods[m].wsrep # "Disconnected" /\ pods[m] # NoPod
            BY <3>1, <3>2 DEF Up
        <3>4. pods[m].wsrep \in {"Primary", "non-Primary"}
            BY <3>1, <3>3 DEF TypeOK, Pods, WsrepStates
        <3>5. pods[m].phase = "Ready"
            BY <1>3, <3>1, <3>3 DEF RunningInv
        <3>6. m \in Backups
            BY <3>1, <3>4, <3>5, PodsTrue DEF Backups
        <3> QED BY <2>3, <2>9, <3>6
    <2>10. todo'[i].pod = n /\ todo'[i].new = p /\ i = Len(todo')
        BY <2>1, <2>3 DEF p
    <2>11. \A j \in 1..Len(todo') : todo'[j].op \in {"createClaim", "createBkp", "createPod"}
        BY <2>3
    <2>12. p.backup => BackupsUp = {}
        BY <2>5, <2>9
    <2> QED BY <2>5, <2>6, <2>8, <2>10, <2>11, <2>12
<1> QED BY <1>3, <1>4, <1>5, <1>6, <1>7, <1>8 DEF StartInv

(* Pods start one at a time, in every step. *)
LEMMA StartNext ==
    ASSUME "pods" \notin Lagging, "claims" \notin Lagging, TypeOK, StartInv, [Next]_vars
    PROVE  StartInv'
BY StartSync, StartCreate, StartMoves

LEMMA StartInit ==
    ASSUME Init PROVE StartInv
<1>1. pods = [n \in Names |-> NoPod] /\ patches = << >> /\ todo = << >>
    BY DEF Init
<1>2. \A n \in Names : pods[n] = NoPod
    BY <1>1
<1>3. 1..Len(patches) = {} /\ 1..Len(todo) = {}
    BY <1>1
<1>4. Joining = {} /\ BackupsUp = {}
    BY <1>2 DEF Joining, BackupsUp, Up
<1> QED BY <1>2, <1>3, <1>4
    DEF StartInv, RunningInv, RelabelInv, StandaloneInv, DetourOrder, CreationInv, Up

-----------------------------------------------------------------------------
(* One node at a time. *)

(* Counting pods. *)
LEMMA Counting ==
    ASSUME NEW S \in SUBSET Names, NEW T \in SUBSET Names
    PROVE  /\ S \subseteq T => Cardinality(S) <= Cardinality(T)
           /\ \A x : S \subseteq T \cup {x} => Cardinality(S) <= Cardinality(T) + 1
           /\ \A U \in SUBSET Names :
                 S \subseteq T \cup U => Cardinality(S) <= Cardinality(T) + Cardinality(U)
           /\ \A x : Cardinality(S \ {x}) >= Cardinality(S) - 1
           /\ \A x : x \notin S => Cardinality(S \ {x}) = Cardinality(S)
<1>1. \A A \in SUBSET Names : IsFiniteSet(A) /\ Cardinality(A) \in Nat
    BY Countable
<1>2. S \subseteq T => Cardinality(S) <= Cardinality(T)
    BY <1>1, FS_Subset
<1>3. ASSUME NEW x, S \subseteq T \cup {x} PROVE Cardinality(S) <= Cardinality(T) + 1
    <2>1. IsFiniteSet(T \cup {x}) /\ Cardinality(T \cup {x}) <= Cardinality(T) + 1
        BY <1>1, FS_AddElement
    <2>2. Cardinality(S) <= Cardinality(T \cup {x}) /\ Cardinality(T \cup {x}) \in Nat
        BY <1>3, <2>1, FS_Subset, FS_CardinalityType
    <2> QED BY <1>1, <2>1, <2>2
<1>4. ASSUME NEW U \in SUBSET Names, S \subseteq T \cup U
      PROVE  Cardinality(S) <= Cardinality(T) + Cardinality(U)
    <2>1. /\ IsFiniteSet(T \cup U) /\ Cardinality(T \cup U) \in Nat
          /\ Cardinality(T \cup U) = Cardinality(T) + Cardinality(U) - Cardinality(T \cap U)
          /\ Cardinality(T \cap U) \in Nat
        BY <1>1, FS_Union
    <2>2. Cardinality(S) <= Cardinality(T \cup U)
        BY <1>4, <2>1, FS_Subset
    <2> QED BY <1>1, <2>1, <2>2
<1>5. \A x : Cardinality(S \ {x}) >= Cardinality(S) - 1
    BY <1>1, FS_RemoveElement
<1>6. \A x : x \notin S => Cardinality(S \ {x}) = Cardinality(S)
    BY <1>1, FS_RemoveElement
<1> QED BY <1>2, <1>3, <1>4, <1>5, <1>6

(* The steps of a node that fails or leaves the Primary component. *)
Harm(x) == PodFails(x) \/ LosesPrimary(x)

LEMMA HarmsCounted ==
    ASSUME TypeOK, [Next]_vars
    PROVE  /\ (\A x \in Names : ~Harm(x)) => UNCHANGED <<failures, partitions>>
           /\ \A x \in Names : Harm(x) =>
                 /\ failures' + partitions' = failures + partitions + 1
                 /\ UNCHANGED <<spec, status, seen, patches, todo, result>>
                 /\ \A n \in Names : n # x => pods'[n] = pods[n]
<1>1. failures \in Nat /\ partitions \in Nat /\ pods \in [Names -> Pods \cup {NoPod}]
    BY DEF TypeOK
<1>2. ASSUME NEW x \in Names, PodFails(x)
      PROVE  /\ failures' + partitions' = failures + partitions + 1
             /\ UNCHANGED <<spec, status, seen, patches, todo, result>>
             /\ \A n \in Names : n # x => pods'[n] = pods[n]
    BY <1>1, <1>2 DEF PodFails, pass
<1>3. ASSUME NEW x \in Names, LosesPrimary(x)
      PROVE  /\ failures' + partitions' = failures + partitions + 1
             /\ UNCHANGED <<spec, status, seen, patches, todo, result>>
             /\ \A n \in Names : n # x => pods'[n] = pods[n]
    <2>1. PICK w : pods' = [pods EXCEPT ![x].wsrep = w]
        BY <1>3 DEF LosesPrimary
    <2> QED BY <1>1, <1>3, <2>1 DEF LosesPrimary, pass
<1>4. (\A x \in Names : ~Harm(x)) => UNCHANGED <<failures, partitions>>
    BY DEF Harm, Next, Sync, Call, SyncFails, Environment, PatchPodLabels, CallDeletePod,
        CallCreatePod, CallCheckSynced, CallMysqlUpgrade, CallPatchClaim, CallCreateClaim,
        CallDeleteClaim, CallCreateBkp, CallDeleteBkp, CallRefused, UpdateStatus, PodStarts,
        PodIsGone, ClaimIsGone, RegainsPrimary, UserEdits, UserScales, InformerCatchesUp,
        counts, vars
<1> QED BY <1>2, <1>3, <1>4 DEF Harm

(* The user does not ask for fewer nodes, and the cached resource is one   *)
(* that was.                                                               *)
LEMMA ReplicasKept ==
    ASSUME NEW k \in Nat, NeverBelow(k), TypeOK, [Next]_vars,
           spec.replicas >= k, CachedSpec.replicas >= k
    PROVE  spec'.replicas >= k /\ CachedSpec'.replicas >= k
<1>1. spec \in [rev : Revs, replicas : Nat \ {0}, gen : Nat]
    BY DEF TypeOK
<1>2. spec' # spec => UserEdits \/ UserScales
    BY DEF Next, Sync, Call, SyncFails, Environment, PatchPodLabels, CallDeletePod,
        CallCreatePod, CallCheckSynced, CallMysqlUpgrade, CallPatchClaim, CallCreateClaim,
        CallDeleteClaim, CallCreateBkp, CallDeleteBkp, CallRefused, UpdateStatus, PodStarts,
        PodIsGone, ClaimIsGone, PodFails, LosesPrimary, RegainsPrimary, InformerCatchesUp,
        world, vars
<1>3. ASSUME UserEdits PROVE spec'.replicas = spec.replicas
    BY <1>1, <1>3 DEF UserEdits
<1>4. ASSUME UserScales PROVE spec'.replicas >= k
    BY <1>1, <1>4 DEF UserScales, NeverBelow
<1>5. spec'.replicas >= k
    BY <1>2, <1>3, <1>4
<1> QED BY <1>5, CacheSteps DEF CacheStep

(* A step other than a decision does not say Running by itself. *)
LEMMA SaysNoMore ==
    ASSUME TypeOK, [Next]_vars, ~Sync, SaysRunning'
    PROVE  SaysRunning
<1>1. status' = status \/ (UpdateStatus /\ status' = result /\ result # NoStatus)
    BY PassGoesOn DEF UpdateStatus
<1>2. seen' = seen \/ InformerCatchesUp
    BY DEF Next, Sync, Call, SyncFails, Environment, PatchPodLabels, CallDeletePod, CallCreatePod,
           CallCheckSynced, CallMysqlUpgrade, CallPatchClaim, CallCreateClaim, CallDeleteClaim,
           CallCreateBkp, CallDeleteBkp, CallRefused, UpdateStatus, PodStarts, PodIsGone,
           ClaimIsGone, PodFails, LosesPrimary, RegainsPrimary, UserEdits, UserScales, vars
<1>3. CachedStatus' \in {CachedStatus, status, status'}
    <2>1. CASE seen' = seen
        BY <2>1 DEF CachedStatus
    <2>2. CASE InformerCatchesUp
        <3>1. status' = status /\ seen'.status \in {seen.status, status}
            BY <2>2 DEF InformerCatchesUp, TypeOK, world
        <3> QED BY <3>1 DEF CachedStatus
    <2> QED BY <1>2, <2>1, <2>2
<1>4. result' \in {result, NoStatus}
    BY PassGoesOn
<1> QED BY <1>1, <1>3, <1>4 DEF SaysRunning

LEMMA ServingType ==
    /\ Serving \subseteq Names /\ Doomed \subseteq Names /\ Hurt \subseteq Names
    /\ Serving' \subseteq Names /\ Doomed' \subseteq Names /\ Hurt' \subseteq Names
BY DEF Serving, Primaries, Doomed, Hurt

(* The calls that are left are some of those of before. *)
LEMMA DoomedShrinks ==
    ASSUME TypeOK, [Next]_vars, ~Sync
    PROVE  Doomed' \subseteq Doomed /\ Discarded' \subseteq Discarded
<1>1. PICK k \in Nat : TodoLeft(k)
    BY PassGoesOn
<1>2. Len(todo) \in Nat
    BY DEF TypeOK
<1>3. \A i \in 1..Len(todo') : i + k \in 1..Len(todo) /\ todo'[i] = todo[i + k]
    BY <1>1, <1>2 DEF TodoLeft
<1> QED BY <1>3 DEF Doomed, Discarded

(* No step but the harm done to a node, and no call that is not announced, *)
(* takes a node away.                                                      *)
LEMMA ServingKept ==
    ASSUME TypeOK, RunningInv, [Next]_vars, ~Sync, NEW n \in Serving \ Doomed, ~Harm(n)
    PROVE  n \in Serving' \ Doomed'
<1>1. n \in Names /\ pods[n] # NoPod /\ pods[n].wsrep = "Primary" /\ ~pods[n].term /\ n \notin Doomed
    BY DEF Serving, Primaries
<1>2. n \notin Doomed'
    BY <1>1, DoomedShrinks
<1>3. CASE CallCreatePod
    <2>1. Head(todo).pod \in Names /\ pods[Head(todo).pod] = NoPod
        BY <1>3, CallType, AcceptedType DEF CallCreatePod
    <2>2. pods'[n] = pods[n]
        BY <1>1, <1>3, <2>1 DEF CallCreatePod, TypeOK
    <2> QED BY <1>1, <1>2, <2>2 DEF Serving, Primaries
<1>4. CASE ~CallCreatePod
    <2>1. PodMoves(n)
        BY <1>1, <1>4, PodsMove
    <2>2. pods'[n] # NoPod /\ Moves(n)
        BY <1>1, <2>1 DEF PodMoves
    <2>3. pods[n].phase = "Ready"
        BY <1>1 DEF RunningInv
    <2>4. pods'[n].wsrep = "Primary"
        BY <1>1, <2>2, <2>3 DEF Moves, Harm
    <2>5. ~pods'[n].term
        <3>1. SUFFICES ASSUME CallDeletePod, Head(todo).pod = n PROVE FALSE
            BY <1>1, <2>2 DEF Moves
        <3>2. 1 \in 1..Len(todo) /\ todo[1].op = "deletePod" /\ todo[1].pod = n
            BY <3>1, FirstCall, TypeNumbers DEF CallDeletePod
        <3> QED BY <1>1, <3>2 DEF Doomed
    <2> QED BY <1>1, <1>2, <2>2, <2>4, <2>5 DEF Serving, Primaries
<1> QED BY <1>3, <1>4

LEMMA HurtCounted ==
    ASSUME TypeOK, [Next]_vars, ~Sync, CreationInv, NEW n \in Hurt', ~Harm(n)
    PROVE  n \in Hurt
<1>1. /\ n \in Names /\ pods'[n] # NoPod
      /\ \/ pods'[n].phase = "Failed"
         \/ pods'[n].phase = "Ready" /\ pods'[n].state = "cluster" /\ pods'[n].wsrep # "Primary"
    BY DEF Hurt
<1>2. CASE CallCreatePod
    <2> DEFINE x == Head(todo).pod
    <2>1. /\ x \in Names /\ 1 \in 1..Len(todo) /\ todo[1] = Head(todo) /\ todo[1].op = "createPod"
          /\ pods' = [pods EXCEPT ![x] = Head(todo).new]
        BY <1>2, FirstCall, TypeNumbers DEF CallCreatePod
    <2>2. todo[1].new.phase = "Pending"
        BY <2>1 DEF CreationInv
    <2>3. n # x
        BY <1>1, <2>1, <2>2 DEF TypeOK
    <2>4. pods'[n] = pods[n]
        BY <1>1, <2>1, <2>3 DEF TypeOK
    <2> QED BY <1>1, <2>4 DEF Hurt
<1>3. CASE ~CallCreatePod
    <2>1. Moves(n)
        BY <1>1, <1>3, PodsMove DEF PodMoves
    <2> QED BY <1>1, <2>1 DEF Moves, Harm, Hurt
<1> QED BY <1>2, <1>3

(* A decision leaves enough nodes: what it takes away beyond the pods that *)
(* do not serve it takes from more ready pods than are wanted, but for one.*)
LEMMA EnoughSync ==
    ASSUME "pods" \notin Lagging, "claims" \notin Lagging, TypeOK, AvailabilityInv, Sync, SaysRunning'
    PROVE  Enough'
<1>1. UNCHANGED <<pods, status, seen, spec, failures, partitions>> /\ Idle
    BY DEF Sync, world, counts
<1>2. StartInv /\ RunningInv /\ CachedSpec.replicas >= InitReplicas
      /\ Cardinality(Hurt) <= failures + partitions /\ (SaysRunning => Enough)
    BY DEF AvailabilityInv, StartInv
<1>3. Decided
    BY <1>2, Decides
<1>4. PICK victim, old : Takes(victim, old)
    BY <1>3, DecidedTakes
<1>5. Serving' = Serving /\ Doomed = {}
    <2>1. 1..Len(todo) = {}
        BY <1>1 DEF Idle
    <2> QED BY <1>1, <2>1 DEF Serving, Primaries, Doomed
<1>6. Serving \subseteq PrimaryPods
    <2>1. ASSUME NEW n \in Serving PROVE n \in PrimaryPods
        <3>1. n \in Names /\ pods[n] # NoPod /\ pods[n].wsrep = "Primary" /\ ~pods[n].term
            BY DEF Serving, Primaries
        <3>2. pods[n].phase = "Ready"
            BY <1>2, <3>1 DEF RunningInv
        <3> QED BY <3>1, <3>2, PodsTrue DEF Up
    <2> QED BY <2>1
<1>7. /\ InitReplicas \in Nat /\ failures \in Nat /\ partitions \in Nat /\ CachedSpec.replicas \in Nat
      /\ \A S \in SUBSET Names : Cardinality(S) \in Nat
    BY SizeAssumption, CachedType, Countable DEF TypeOK
<1>8. ReadySeen \subseteq Names /\ ReadySeen \subseteq Serving \cup Hurt /\ NoMember \notin Names
    <2>1. ASSUME NEW n \in PrimaryPods PROVE n \in Serving \cup Hurt
        <3>1. /\ n \in Names /\ Up(n) /\ pods[n].phase = "Ready"
              /\ pods[n].wsrep \in {"Primary", "non-Primary"}
            BY PodsTrue
        <3>2. pods[n] # NoPod /\ pods[n].state = "cluster"
            BY <1>2, <3>1 DEF Up, RunningInv
        <3> QED BY <3>1, <3>2 DEF Serving, Primaries, Hurt, Up
    <2> QED BY <2>1, PodsTrue, NamesAssumption DEF ReadySeen
<1>9. CASE victim = NoMember /\ old = NoMember
    <2>1. Serving \ Doomed' = Serving
        BY <1>4, <1>6, <1>8, <1>9, ServingType DEF Takes, UnreadySeen
    <2>2. CASE SaysRunning
        BY <1>1, <1>2, <1>5, <2>1, <2>2 DEF Enough
    <2>3. CASE ~SaysRunning
        <3>1. result' # NoStatus /\ result'.phase = "Running" /\ CachedStatus.phase # "Running"
            BY <1>1, <2>3 DEF SaysRunning, CachedStatus
        <3>2. Cardinality(Listed) = CachedSpec.replicas /\ Live = Listed
            BY <1>3, <3>1 DEF Decided, SaysRunningRightly
        <3>3. ASSUME NEW n \in Listed PROVE n \in (Serving \cup Hurt) \cup Joining
            <4>1. n \in Names /\ Up(n)
                BY <3>2, PodsTrue
            <4>2. /\ pods[n].phase \in {"Pending", "Ready", "Failed"}
                  /\ pods[n].state \in {"cluster", "standalone"} /\ pods[n] # NoPod
                BY <4>1 DEF Up, TypeOK, Pods
            <4> QED BY <4>1, <4>2 DEF Serving, Primaries, Hurt, Joining, Up
        <3>4. PICK x : Joining \subseteq {x}
            BY <1>2 DEF StartInv
        <3>5. Listed \subseteq (Serving \cup Hurt) \cup {x}
            BY <3>3, <3>4
        <3>6. Listed \in SUBSET Names /\ Serving \in SUBSET Names /\ Hurt \in SUBSET Names
              /\ Serving \cup Hurt \in SUBSET Names
            BY ServingType DEF Listed
        <3>7. Cardinality(Listed) <= Cardinality(Serving \cup Hurt) + 1
            BY <3>5, <3>6, Counting
        <3>8. Cardinality(Serving \cup Hurt) <= Cardinality(Serving) + Cardinality(Hurt)
            BY <3>6, Counting
        <3>9. Cardinality(Serving) + 1 + failures + partitions >= InitReplicas
            BY <1>2, <1>7, <3>2, <3>6, <3>7, <3>8
        <3> QED BY <1>1, <1>5, <2>1, <3>9 DEF Enough
    <2> QED BY <2>2, <2>3
<1>10. CASE victim # NoMember \/ old # NoMember
    <2> DEFINE A == ReadySeen \ {victim}
               B == A \ {old}
    <2>1. /\ Cardinality(A) >= CachedSpec.replicas
        <3>1. CASE victim = NoMember
            <4>1. victim \notin ReadySeen
                BY <1>8, <3>1
            <4>2. Cardinality(A) = Cardinality(ReadySeen)
                BY <1>8, <4>1, Counting
            <4> QED BY <1>4, <1>10, <3>1, <4>2 DEF Takes
        <3>2. CASE victim # NoMember
            <4>1. Cardinality(ReadySeen) > CachedSpec.replicas
                BY <1>4, <3>2 DEF Takes
            <4>2. Cardinality(A) >= Cardinality(ReadySeen) - 1
                BY <1>8, Counting
            <4>3. Cardinality(A) \in Nat /\ Cardinality(ReadySeen) \in Nat
                BY <1>7, <1>8
            <4> HIDE DEF A
            <4> QED BY <1>7, <4>1, <4>2, <4>3
        <3> QED BY <3>1, <3>2
    <2>2. A \in SUBSET Names /\ B \in SUBSET Names
        BY <1>8
    <2>3. Cardinality(B) >= Cardinality(A) - 1
        <3> HIDE DEF A
        <3> QED BY <2>2, Counting
    <2>4. B \subseteq (Serving \ Doomed') \cup Hurt
        BY <1>4, <1>8 DEF Takes, UnreadySeen, ReadySeen
    <2>5. Serving \ Doomed' \in SUBSET Names /\ Hurt \in SUBSET Names
        BY ServingType
    <2> HIDE DEF A, B
    <2>6. Cardinality(B) <= Cardinality(Serving \ Doomed') + Cardinality(Hurt)
        BY <2>2, <2>4, <2>5, Counting
    <2>7. Cardinality(Serving \ Doomed') + 1 + failures + partitions >= InitReplicas
        BY <1>2, <1>7, <2>1, <2>2, <2>3, <2>5, <2>6
    <2> QED BY <1>1, <1>5, <2>7 DEF Enough
<1> QED BY <1>9, <1>10

LEMMA AvailabilityNext ==
    ASSUME "pods" \notin Lagging, "claims" \notin Lagging, NeverBelow(InitReplicas),
           TypeOK, AvailabilityInv, [Next]_vars
    PROVE  AvailabilityInv'
<1>1. StartInv /\ RunningInv /\ CreationInv
      /\ Cardinality(Hurt) <= failures + partitions /\ (SaysRunning => Enough)
    BY DEF AvailabilityInv, StartInv
<1>2. StartInv'
    BY <1>1, StartNext
<1>3. spec'.replicas >= InitReplicas /\ CachedSpec'.replicas >= InitReplicas
    BY ReplicasKept, SizeAssumption DEF AvailabilityInv
<1>4. /\ failures \in Nat /\ partitions \in Nat /\ InitReplicas \in Nat
      /\ \A S \in SUBSET Names : Cardinality(S) \in Nat
    BY SizeAssumption, Countable DEF TypeOK
<1>5. /\ Hurt \in SUBSET Names /\ Hurt' \in SUBSET Names
      /\ Serving \ Doomed \in SUBSET Names /\ Serving' \ Doomed' \in SUBSET Names
    BY ServingType
<1>9. /\ Cardinality(Hurt) \in Nat /\ Cardinality(Hurt') \in Nat
      /\ Cardinality(Serving \ Doomed) \in Nat /\ Cardinality(Serving' \ Doomed') \in Nat
    BY <1>4, <1>5
<1>6. CASE Sync
    <2>1. UNCHANGED <<pods, failures, partitions>>
        BY <1>6 DEF Sync, world, counts
    <2>2. Hurt' = Hurt
        BY <2>1 DEF Hurt
    <2> QED BY <1>1, <1>2, <1>3, <1>6, <2>1, <2>2, EnoughSync DEF AvailabilityInv
<1>7. CASE ~Sync /\ \E x \in Names : Harm(x)
    <2>1. PICK x \in Names : Harm(x)
        BY <1>7
    <2>2. /\ failures' + partitions' = failures + partitions + 1
          /\ UNCHANGED <<spec, status, seen, patches, todo, result>>
          /\ \A n \in Names : n # x => pods'[n] = pods[n]
        BY <2>1, HarmsCounted
    <2>3. Hurt' \subseteq Hurt \cup {x}
        BY <2>2 DEF Hurt
    <2>4. Cardinality(Hurt') <= Cardinality(Hurt) + 1
        <3> DEFINE S == Hurt'
                   T == Hurt
        <3>1. S \in SUBSET Names /\ T \in SUBSET Names /\ S \subseteq T \cup {x}
            BY <1>5, <2>3
        <3> HIDE DEF S, T
        <3>2. Cardinality(S) <= Cardinality(T) + 1
            BY <3>1, Counting
        <3> QED BY <3>2 DEF S, T
    <2>5. Serving \ Doomed \subseteq (Serving' \ Doomed') \cup {x}
        BY <2>2 DEF Serving, Primaries, Doomed
    <2>6. Cardinality(Serving \ Doomed) <= Cardinality(Serving' \ Doomed') + 1
        <3> DEFINE S == Serving \ Doomed
                   T == Serving' \ Doomed'
        <3>1. S \in SUBSET Names /\ T \in SUBSET Names /\ S \subseteq T \cup {x}
            BY <1>5, <2>5
        <3> HIDE DEF S, T
        <3>2. Cardinality(S) <= Cardinality(T) + 1
            BY <3>1, Counting
        <3> QED BY <3>2 DEF S, T
    <2>7. failures' \in Nat /\ partitions' \in Nat
        BY <2>1, <1>4 DEF Harm, PodFails, LosesPrimary
    <2> DEFINE h == Cardinality(Hurt)
               g == Cardinality(Hurt')
               s == Cardinality(Serving \ Doomed)
               r == Cardinality(Serving' \ Doomed')
               c == failures + partitions
               d == failures' + partitions'
    <2>11. /\ h \in Nat /\ g \in Nat /\ s \in Nat /\ r \in Nat
           /\ h <= c /\ g <= h + 1 /\ s <= r + 1
        BY <1>1, <1>9, <2>4, <2>6
    <2>12. c \in Nat /\ d \in Nat /\ d = c + 1 /\ InitReplicas \in Nat
        <3>1. failures \in Nat /\ partitions \in Nat /\ InitReplicas \in Nat
            BY <1>4
        <3>2. d = c + 1
            BY <2>2
        <3>3. c \in Nat
            BY <3>1
        <3>4. d \in Nat
            <4> HIDE DEF c, d
            <4> QED BY <3>2, <3>3
        <3> QED BY <3>1, <3>2, <3>3, <3>4
    <2>13. /\ Enough => s + 1 + c >= InitReplicas
           /\ r + 1 + d >= InitReplicas => Enough'
        <3>1. /\ s + 1 + failures + partitions = s + 1 + c
              /\ r + 1 + failures' + partitions' = r + 1 + d
            <4>1. s \in Nat /\ r \in Nat
                BY <2>11
            <4> HIDE DEF s, r
            <4> QED BY <4>1, <1>4, <2>7
        <3>2. /\ Enough => s + 1 + failures + partitions >= InitReplicas
              /\ r + 1 + failures' + partitions' >= InitReplicas => Enough'
            BY DEF Enough
        <3> HIDE DEF s, r, c, d
        <3> QED BY <3>1, <3>2
    <2> HIDE DEF h, g, s, r, c, d
    <2>14. g <= d
        BY <2>11, <2>12
    <2>15. s + 1 + c >= InitReplicas => r + 1 + d >= InitReplicas
        BY <2>11, <2>12
    <2>8. Cardinality(Hurt') <= failures' + partitions'
        BY <2>14 DEF g, d
    <2>9. SaysRunning' => SaysRunning
        BY <1>7, SaysNoMore
    <2>10. Enough => Enough'
        BY <2>13, <2>15
    <2> QED BY <1>1, <1>2, <1>3, <2>8, <2>9, <2>10 DEF AvailabilityInv
<1>8. CASE ~Sync /\ \A x \in Names : ~Harm(x)
    <2>1. UNCHANGED <<failures, partitions>>
        BY <1>8, HarmsCounted
    <2>2. Hurt' \subseteq Hurt
        BY <1>1, <1>5, <1>8, HurtCounted
    <2>3. Serving \ Doomed \subseteq Serving' \ Doomed'
        BY <1>1, <1>5, <1>8, ServingKept
    <2>4. /\ Cardinality(Hurt') <= Cardinality(Hurt)
          /\ Cardinality(Serving \ Doomed) <= Cardinality(Serving' \ Doomed')
        BY <1>5, <2>2, <2>3, Counting
    <2>5. SaysRunning' => SaysRunning
        BY <1>8, SaysNoMore
    <2>6. Enough => Enough'
        BY <1>4, <1>5, <2>1, <2>4 DEF Enough
    <2>7. Cardinality(Hurt') <= failures' + partitions'
        BY <1>1, <1>4, <1>5, <2>1, <2>4
    <2> QED BY <1>1, <1>2, <1>3, <2>5, <2>6, <2>7 DEF AvailabilityInv
<1> QED BY <1>6, <1>7, <1>8

(* When the informers of the pods and of the claims do not lag and the     *)
(* user never asks for fewer nodes than at creation, the operator takes at *)
(* most one node of a Running cluster away at a time, on top of those that *)
(* fail or leave the Primary component: wherever its passes are cut short, *)
(* whatever is edited, and however old its view of the resource is.        *)
THEOREM OneNodeAway ==
    ASSUME "pods" \notin Lagging, "claims" \notin Lagging, NeverBelow(InitReplicas)
    PROVE  Spec => [](AvailabilityInv /\ OneNodeAtATime)
<1>1. ASSUME Init PROVE AvailabilityInv
    <2>1. StartInv
        BY <1>1, StartInit
    <2>2. spec.replicas = InitReplicas /\ CachedSpec.replicas = InitReplicas
        BY <1>1 DEF Init, Spec0, CachedSpec
    <2>3. \A n \in Names : pods[n] = NoPod
        BY <1>1 DEF Init
    <2>4. Hurt = {}
        BY <2>3 DEF Hurt
    <2>5. ~SaysRunning
        BY <1>1 DEF Init, SaysRunning, CachedStatus, Status0
    <2> QED BY <1>1, <2>1, <2>2, <2>4, <2>5, SizeAssumption, FS_EmptySet DEF AvailabilityInv, Init
<1>2. TypeOK /\ AvailabilityInv /\ [Next]_vars => AvailabilityInv'
    BY AvailabilityNext
<1>3. ASSUME TypeOK, AvailabilityInv PROVE OneNodeAtATime
    <2>1. SUFFICES ASSUME status.phase = "Running"
                   PROVE  Cardinality(Serving) + 1 + failures + partitions >= InitReplicas
        BY DEF OneNodeAtATime
    <2>2. Cardinality(Serving \ Doomed) + 1 + failures + partitions >= InitReplicas
        BY <1>3, <2>1 DEF AvailabilityInv, SaysRunning, Enough
    <2>3. /\ Cardinality(Serving \ Doomed) \in Nat /\ Cardinality(Serving) \in Nat
          /\ Cardinality(Serving \ Doomed) <= Cardinality(Serving)
        <3> DEFINE S == Serving \ Doomed
                   T == Serving
        <3>1. S \in SUBSET Names /\ T \in SUBSET Names /\ S \subseteq T
            BY ServingType
        <3> HIDE DEF S, T
        <3>2. Cardinality(S) <= Cardinality(T) /\ Cardinality(S) \in Nat /\ Cardinality(T) \in Nat
            BY <3>1, Countable, Counting
        <3> QED BY <3>2 DEF S, T
    <2>4. InitReplicas \in Nat /\ failures \in Nat /\ partitions \in Nat
        BY <1>3, SizeAssumption DEF TypeOK
    <2> QED BY <2>2, <2>3, <2>4
<1> QED BY <1>1, <1>2, <1>3, TypeCorrect, PTL DEF Spec

-----------------------------------------------------------------------------
(***************************************************************************)
(* The database and its copies.                                            *)
(***************************************************************************)

(* Without partitions a node that runs stays in the Primary component. *)
LEMMA SplitNext ==
    ASSUME MaxPartitions = 0, TypeOK, CreationInv, NoSplit, [Next]_vars
    PROVE  NoSplit'
<1>1. SUFFICES ASSUME NEW n \in Names, pods'[n] # NoPod, pods'[n].phase = "Ready",
                      pods'[n].state = "cluster"
               PROVE  pods'[n].wsrep = "Primary"
    BY DEF NoSplit
<1>2. ~LosesPrimary(n)
    BY DEF LosesPrimary, TypeOK
<1>3. CASE Sync
    BY <1>1, <1>3 DEF Sync, world, NoSplit
<1>4. CASE CallCreatePod
    <2> DEFINE x == Head(todo).pod
    <2>1. /\ x \in Names /\ 1 \in 1..Len(todo) /\ todo[1] = Head(todo) /\ todo[1].op = "createPod"
          /\ pods' = [pods EXCEPT ![x] = Head(todo).new]
        BY <1>4, FirstCall, TypeNumbers DEF CallCreatePod
    <2>2. todo[1].new.phase = "Pending"
        BY <2>1 DEF CreationInv
    <2>3. n # x
        BY <1>1, <2>1, <2>2 DEF TypeOK
    <2>4. pods'[n] = pods[n]
        BY <1>1, <2>1, <2>3 DEF TypeOK
    <2> QED BY <1>1, <2>4 DEF NoSplit
<1>5. CASE ~Sync /\ ~CallCreatePod
    <2>1. Moves(n)
        BY <1>1, <1>5, PodsMove DEF PodMoves
    <2>2. pods[n] # NoPod /\ pods[n].state = "cluster"
        BY <1>1, <2>1 DEF Moves
    <2> QED BY <1>1, <1>2, <2>1, <2>2 DEF Moves, NoSplit
<1> QED BY <1>3, <1>4, <1>5

(* The pods that a pass counts as ready serve. *)
LEMMA ReadyServes ==
    ASSUME "pods" \notin Lagging, TypeOK, RunningInv, NoSplit
    PROVE  ReadySeen = ReadyPods
<1>1. ASSUME NEW n \in ReadySeen PROVE n \in ReadyPods
    <2>1. n \in Names /\ Up(n) /\ pods[n].phase = "Ready" /\ pods[n].wsrep # "Disconnected"
          /\ Useful(pods[n])
        BY PodsTrue DEF ReadySeen
    <2>2. pods[n] # NoPod /\ ~pods[n].term
        BY <2>1 DEF Up
    <2>3. pods[n].wsrep = "Primary"
        BY <2>1, <2>2 DEF RunningInv, NoSplit
    <2> QED BY <2>1, <2>2, <2>3 DEF ReadyPods, Serving, Primaries
<1>2. ASSUME NEW n \in ReadyPods PROVE n \in ReadySeen
    <2>1. n \in Names /\ pods[n] # NoPod /\ ~pods[n].term /\ pods[n].wsrep = "Primary"
          /\ Useful(pods[n])
        BY DEF ReadyPods, Serving, Primaries
    <2>2. pods[n].phase = "Ready"
        BY <2>1 DEF RunningInv
    <2> QED BY <2>1, <2>2, PodsTrue DEF ReadySeen, Up
<1> QED BY <1>1, <1>2

(* A node becomes Primary when it starts. *)
LEMMA NewPrimary ==
    ASSUME TypeOK, RunningInv, CreationInv, NoSplit, [Next]_vars, ~Sync, NEW n \in Primaries',
           n \notin Primaries
    PROVE  PodStarts(n) /\ pods[n].state = "cluster"
<1>1. n \in Names /\ pods'[n] # NoPod /\ pods'[n].wsrep = "Primary"
    BY DEF Primaries
<1>2. CASE CallCreatePod
    <2> DEFINE x == Head(todo).pod
    <2>1. /\ x \in Names /\ 1 \in 1..Len(todo) /\ todo[1] = Head(todo) /\ todo[1].op = "createPod"
          /\ pods' = [pods EXCEPT ![x] = Head(todo).new]
        BY <1>2, FirstCall, TypeNumbers DEF CallCreatePod
    <2>2. todo[1].new.wsrep = "Disconnected"
        BY <2>1 DEF CreationInv
    <2>3. n # x
        BY <1>1, <2>1, <2>2 DEF TypeOK
    <2>4. pods'[n] = pods[n]
        BY <1>1, <2>1, <2>3 DEF TypeOK
    <2> QED BY <1>1, <2>4 DEF Primaries
<1>3. CASE ~CallCreatePod
    <2>1. Moves(n)
        BY <1>1, <1>3, PodsMove DEF PodMoves
    <2>2. pods[n] # NoPod /\ pods[n].wsrep # "Primary"
        BY <1>1, <2>1 DEF Moves, Primaries
    <2>3. pods[n].wsrep = "Disconnected"
        BY <1>1, <2>2 DEF RunningInv, NoSplit
    <2> QED BY <1>1, <2>1, <2>3 DEF Moves
<1> QED BY <1>2, <1>3

(* The database comes with the first node that starts on its own. *)
LEMMA FirstStart ==
    ASSUME TypeOK, [Next]_vars
    PROVE  /\ bootstrapped => bootstrapped'
           /\ (bootstrapped' /\ ~bootstrapped) =>
                 \E n \in Names : PodStarts(n) /\ pods[n].state = "cluster" /\ pods[n].init
<1>1. ASSUME NEW n \in Names, PodStarts(n)
      PROVE  UNCHANGED bootstrapped \/ (pods[n].state = "cluster" /\ pods[n].init /\ bootstrapped')
    BY <1>1 DEF PodStarts
<1>2. UNCHANGED bootstrapped \/ \E n \in Names : PodStarts(n)
    BY DEF Next, Sync, Call, SyncFails, Environment, PatchPodLabels, CallDeletePod,
        CallCreatePod, CallCheckSynced, CallMysqlUpgrade, CallPatchClaim, CallCreateClaim,
        CallDeleteClaim, CallCreateBkp, CallDeleteBkp, CallRefused, UpdateStatus, PodFails,
        PodIsGone, ClaimIsGone, LosesPrimary, RegainsPrimary, UserEdits, UserScales,
        InformerCatchesUp, world, vars
<1> QED BY <1>1, <1>2

(* A node that starts in the cluster has the database, when the node that  *)
(* founds it is not mistaken and the others have it.                       *)
FoundsRightly(n) == (Up(n) /\ pods[n].phase = "Pending" /\ pods[n].init) => ~bootstrapped \/ data[n].db

LEMMA StartsWithDatabase ==
    ASSUME TypeOK, OneDatabase, NEW n \in Names, FoundsRightly(n), PodStarts(n)
    PROVE  /\ pods[n].state = "cluster" => data'[n].db
           /\ data[n].db => data'[n].db
<1>1. Up(n) /\ pods[n].phase = "Pending"
    BY DEF PodStarts, Startable, Up
<1>2. \A d, w : Becomes(n, d, w) => data'[n].db = d
    BY DEF Becomes, Started, TypeOK
<1>3. CASE pods[n].state = "standalone"
    <2>1. Becomes(n, data[n].db, "Disconnected")
        BY <1>3 DEF PodStarts
    <2> QED BY <1>2, <1>3, <2>1
<1>4. CASE pods[n].state = "cluster" /\ pods[n].init
    <2>1. Becomes(n, data[n].db \/ ~bootstrapped, "Primary")
        BY <1>4 DEF PodStarts
    <2>2. data[n].db \/ ~bootstrapped
        BY <1>1, <1>4 DEF FoundsRightly
    <2>3. data'[n].db = (data[n].db \/ ~bootstrapped)
        BY <1>2, <2>1
    <2> QED BY <2>2, <2>3
<1>5. CASE pods[n].state = "cluster" /\ ~pods[n].init
    <2>1. PICK m \in Primaries : Becomes(n, data[m].db, "Primary")
        BY <1>5 DEF PodStarts
    <2>2. data'[n].db = data[m].db /\ data[m].db
        BY <1>2, <2>1 DEF OneDatabase
    <2> QED BY <2>2
<1> QED BY <1>3, <1>4, <1>5 DEF PodStarts

LEMMA DatabaseNext ==
    ASSUME TypeOK, RunningInv, CreationInv, NoSplit, OneDatabase, [Next]_vars,
           \A n \in Names : FoundsRightly(n)
    PROVE  OneDatabase'
<1>1. CASE Sync
    BY <1>1 DEF Sync, world, OneDatabase, Primaries
<1>2. CASE ~Sync
    <2>1. SUFFICES ASSUME NEW n \in Primaries' PROVE data'[n].db
        BY DEF OneDatabase
    <2>2. n \in Names
        BY DEF Primaries
    <2>3. CASE n \notin Primaries
        BY <1>2, <2>2, <2>3, NewPrimary, StartsWithDatabase
    <2>4. CASE n \in Primaries
        <3>1. data[n].db /\ pods[n] # NoPod /\ pods[n].wsrep = "Primary"
            BY <2>4 DEF OneDatabase, Primaries
        <3>2. ~PodStarts(n)
            BY <2>2, <3>1 DEF PodStarts, Startable, RunningInv
        <3>3. ClaimMoves(n)
            BY <1>2, <2>2, ClaimsMove
        <3>4. data'[n].db = data[n].db
            BY <3>1, <3>2, <3>3 DEF ClaimMoves
        <3> QED BY <3>1, <3>4
    <2> QED BY <2>3, <2>4
<1> QED BY <1>1, <1>2

(* A label patch is announced; a new pod takes a free name. *)
LEMMA UsefulKept ==
    ASSUME TypeOK, [Next]_vars, ~Sync, NEW n \in Names, StaysUseful(n)
    PROVE  /\ StaysUseful(n)'
           /\ (pods[n] # NoPod /\ pods'[n] # NoPod /\ Useful(pods[n])) => Useful(pods'[n])
<1>1. StaysUseful(n)'
    <2>1. PatchesLeft
        BY PassMoves
    <2> QED BY <2>1 DEF PatchesLeft, StaysUseful
<1>2. ASSUME pods[n] # NoPod, pods'[n] # NoPod, Useful(pods[n]) PROVE Useful(pods'[n])
    <2>1. CASE CallCreatePod
        <3>1. Head(todo).pod \in Names /\ pods[Head(todo).pod] = NoPod
            BY <2>1, CallType, AcceptedType DEF CallCreatePod
        <3>2. pods'[n] = pods[n]
            BY <1>2, <2>1, <3>1 DEF CallCreatePod, TypeOK
        <3> QED BY <1>2, <3>2
    <2>2. CASE ~CallCreatePod
        <3>1. Moves(n)
            BY <1>2, <2>2, PodsMove DEF PodMoves
        <3>2. CASE LabelsOf(pods'[n]) = LabelsOf(pods[n])
            BY <1>2, <3>2 DEF LabelsOf, Useful
        <3>3. CASE LabelsOf(pods'[n]) # LabelsOf(pods[n])
            <4>1. /\ patches # << >> /\ Head(patches).pod = n
                  /\ LabelsOf(pods'[n]) = Head(patches).labels
                BY <3>1, <3>3 DEF Moves, PatchPodLabels
            <4>2. 1 \in 1..Len(patches) /\ patches[1] = Head(patches)
                BY <4>1 DEF TypeOK
            <4>3. Useful(LabelsOf(pods'[n]))
                BY <4>1, <4>2 DEF StaysUseful
            <4> QED BY <4>3 DEF LabelsOf, Useful
        <3> QED BY <3>2, <3>3
    <2> QED BY <2>1, <2>2
<1> QED BY <1>1, <1>2

(* A node loses its volume only when the pass has announced it. *)
LEMMA EndingKept ==
    ASSUME TypeOK, RunningInv, [Next]_vars, ~Sync, NEW n \in Names, pods[n] # NoPod,
           pods[n].phase = "Ready", n \notin Discarded, ~claims[n].term
    PROVE  n \notin Discarded' /\ claims'[n] # NoClaim /\ ~claims'[n].term
<1>1. n \notin Discarded'
    BY DoomedShrinks
<1>2. ClaimMoves(n) /\ claims[n] # NoClaim
    BY ClaimsMove DEF RunningInv
<1>3. claims'[n] # NoClaim
    BY <1>2 DEF ClaimMoves
<1>4. ~claims'[n].term
    <2>1. SUFFICES ASSUME CallDeleteClaim, Head(todo).pod = n PROVE FALSE
        BY <1>2, <1>3 DEF ClaimMoves
    <2>2. 1 \in 1..Len(todo) /\ todo[1].op = "deleteClaim" /\ todo[1].pod = n
        BY <2>1, FirstCall, TypeNumbers DEF CallDeleteClaim
    <2> QED BY <2>2 DEF Discarded
<1> QED BY <1>1, <1>3, <1>4

LEMMA SafeKept ==
    ASSUME TypeOK, RunningInv, [Next]_vars, ~Sync, NEW n \in Safe, ~Harm(n)
    PROVE  n \in Safe'
<1>1. /\ n \in Names /\ n \in Serving \ Doomed /\ Useful(pods[n]) /\ StaysUseful(n)
      /\ n \notin Discarded /\ ~claims[n].term
      /\ pods[n] # NoPod /\ pods[n].wsrep = "Primary"
    BY DEF Safe, ReadyPods, Ending, Serving, Primaries
<1>2. pods[n].phase = "Ready"
    BY <1>1 DEF RunningInv
<1>3. n \in Serving' \ Doomed'
    BY <1>1, ServingKept
<1>4. pods'[n] # NoPod
    BY <1>3 DEF Serving, Primaries
<1>5. Useful(pods'[n]) /\ StaysUseful(n)'
    BY <1>1, <1>4, UsefulKept
<1>6. n \notin Discarded' /\ ~claims'[n].term
    BY <1>1, <1>2, EndingKept
<1>7. n \in ReadyPods' /\ n \notin Ending'
    BY <1>3, <1>5, <1>6 DEF ReadyPods, Ending
<1> QED BY <1>3, <1>5, <1>7 DEF Safe

(* The pods that start, and what is announced of them, after a step that   *)
(* creates none.                                                           *)
LEMMA StartingKept ==
    ASSUME TypeOK, [Next]_vars, ~Sync, ~CallCreatePod, NEW n \in Names, Up(n)',
           pods'[n].phase = "Pending"
    PROVE  Up(n) /\ pods[n].phase = "Pending" /\ pods'[n].init = pods[n].init
<1>1. pods'[n] # NoPod /\ ~pods'[n].term
    BY DEF Up
<1>2. Moves(n)
    BY <1>1, PodsMove DEF PodMoves
<1> QED BY <1>1, <1>2 DEF Moves, Up

(* What is known of the pod that a call creates. *)
LEMMA CreatedPod ==
    ASSUME TypeOK, CallCreatePod
    PROVE  \E x \in Names :
              /\ 1 \in 1..Len(todo) /\ todo[1].op = "createPod" /\ todo[1].pod = x
              /\ pods[x] = NoPod /\ pods'[x] = todo[1].new
              /\ \A n \in Names : n # x => pods'[n] = pods[n]
<1>1. Head(todo).pod \in Names /\ pods[Head(todo).pod] = NoPod
    BY CallType, AcceptedType DEF CallCreatePod
<1>2. /\ 1 \in 1..Len(todo) /\ todo[1] = Head(todo) /\ todo[1].op = "createPod"
      /\ pods' = [pods EXCEPT ![Head(todo).pod] = Head(todo).new]
    BY FirstCall, TypeNumbers DEF CallCreatePod
<1> QED BY <1>1, <1>2 DEF TypeOK

(* Of three or more nodes one is left when two others are set apart, and   *)
(* of four or more when three are.                                         *)
LEMMA OneIsLeft ==
    ASSUME NEW S \in SUBSET Names, NEW a, NEW b, NEW c, Cardinality(S) > 2,
           c \in S => Cardinality(S) > 3
    PROVE  \E y \in S : y # a /\ y # b /\ y # c
<1> DEFINE A == S \ {a}
           B == A \ {b}
           C == B \ {c}
<1>1. /\ A \in SUBSET Names /\ B \in SUBSET Names /\ C \in SUBSET Names
      /\ Cardinality(A) >= Cardinality(S) - 1
    BY Counting
<1> HIDE DEF A
<1>2. Cardinality(B) >= Cardinality(A) - 1
    BY <1>1, Counting
<1> HIDE DEF B
<1>3. Cardinality(C) >= Cardinality(B) - 1 /\ (c \notin B => Cardinality(C) = Cardinality(B))
    BY <1>1, Counting
<1> HIDE DEF C
<1>4. /\ Cardinality(S) \in Nat /\ Cardinality(A) \in Nat /\ Cardinality(B) \in Nat
      /\ Cardinality(C) \in Nat
    BY <1>1, Countable
<1>5. c \in B => c \in S
    BY DEF B, A
<1>6. Cardinality(C) > 0
    BY <1>1, <1>2, <1>3, <1>4, <1>5
<1>7. C # {}
    BY <1>6, FS_EmptySet
<1> QED BY <1>7 DEF C, B, A

LEMMA SafeSync ==
    ASSUME "pods" \notin Lagging, "claims" \notin Lagging, TypeOK, CrashInv, Sync, bootstrapped
    PROVE  Safe' # {}
<1>1. UNCHANGED <<pods, claims>> /\ todo = << >>
    BY DEF Sync, world, Idle
<1>2. StartInv /\ RunningInv /\ NoSplit /\ CachedSpec.replicas >= 3 /\ Safe # {}
      /\ (\A m, n \in Ending : m = n)
    BY DEF CrashInv, StartInv
<1>3. Decided
    BY <1>2, Decides
<1>4. PICK victim, old : Takes(victim, old)
    BY <1>3, DecidedTakes
<1>5. PICK x : \A i \in 1..Len(patches') : Spares(patches'[i], x)
    BY <1>3 DEF Decided, SparesReady
<1>6. ReadySeen = ReadyPods /\ CachedClaims = claims
    BY <1>2, ReadyServes DEF CachedClaims
<1>7. ASSUME NEW n \in ReadySeen
      PROVE  /\ n \in Names /\ n # NoMember /\ n \in Serving /\ Useful(pods[n]) /\ n \in Live
             /\ n \in PrimaryPods /\ claims[n] # NoClaim
    <2>1. n \in Serving /\ Useful(pods[n])
        BY <1>6, <1>7 DEF ReadyPods
    <2>2. n \in PrimaryPods /\ n \in Live
        BY <1>7 DEF ReadySeen, PrimaryPods, Asked
    <2>3. n \in Names /\ pods[n] # NoPod /\ pods[n].phase = "Ready"
        BY <2>2, PodsTrue DEF Up
    <2> QED BY <1>2, <2>1, <2>2, <2>3, NamesAssumption DEF RunningInv
<1>8. ASSUME NEW n \in ReadySeen, n # victim, n # old, ~claims[n].term,
             Cardinality(ReadySeen) > 2 => n # x
      PROVE  n \in Safe'
    <2>1. n \in ReadyPods'
        BY <1>1, <1>6, <1>8 DEF ReadyPods, Serving, Primaries
    <2>2. n \notin Doomed'
        BY <1>4, <1>7, <1>8 DEF Takes, UnreadySeen
    <2>3. n \notin Discarded'
        BY <1>4, <1>7, <1>8 DEF Takes, NoMatchClaims, UnusedClaims
    <2>4. n \notin Ending'
        BY <1>1, <1>8, <2>3 DEF Ending
    <2>5. StaysUseful(n)'
        BY <1>5, <1>8 DEF Spares, StaysUseful
    <2> QED BY <2>1, <2>2, <2>4, <2>5 DEF Safe
<1>9. ReadySeen \in SUBSET Names /\ Cardinality(ReadySeen) \in Nat /\ CachedSpec.replicas \in Nat
    BY <1>7, Countable, CachedType
<1>10. CASE victim = NoMember /\ old = NoMember /\ Cardinality(ReadySeen) <= 2
    <2>1. PICK n \in Safe : TRUE
        BY <1>2
    <2>2. n \in ReadySeen /\ ~claims[n].term
        BY <1>6, <2>1 DEF Safe, Ending, ReadyPods
    <2>3. n \in Safe'
        BY <1>7, <1>8, <1>9, <1>10, <2>2
    <2> QED BY <2>3
<1>11. CASE victim = NoMember /\ old = NoMember /\ Cardinality(ReadySeen) > 2
    <2>1. PICK e : \A n \in ReadySeen : claims[n].term => n = e
        <3>1. \A n \in ReadySeen : claims[n].term => n \in Ending
            BY <1>7 DEF Ending
        <3>2. PICK e : Ending # {} => e \in Ending
            OBVIOUS
        <3>3. \A n \in Ending : n = e
            BY <1>2, <3>2
        <3> QED BY <3>1, <3>3
    <2>2. NoMember \notin ReadySeen
        BY <1>7
    <2>3. PICK n \in ReadySeen : n # x /\ n # e /\ n # NoMember
        BY <1>9, <1>11, <2>2, OneIsLeft
    <2>4. n \in Safe'
        BY <1>7, <1>8, <1>11, <2>1, <2>3
    <2> QED BY <2>4
<1>12. CASE ~(victim = NoMember /\ old = NoMember)
    <2>1. /\ TerminatingClaims = {} /\ Cardinality(ReadySeen) > 2
          /\ victim \in ReadySeen => Cardinality(ReadySeen) > 3
        BY <1>2, <1>4, <1>7, <1>9, <1>12 DEF Takes
    <2>2. \A n \in ReadySeen : ~claims[n].term
        BY <1>6, <1>7, <2>1 DEF TerminatingClaims
    <2>3. PICK n \in ReadySeen : n # x /\ n # old /\ n # victim
        BY <1>9, <2>1, OneIsLeft
    <2>4. n \in Safe'
        BY <1>8, <2>2, <2>3
    <2> QED BY <2>4
<1> QED BY <1>9, <1>10, <1>11, <1>12

(* The new pod, as a pass that sees the truth decides it. *)
LEMMA NewPodDecided ==
    ASSUME "pods" \notin Lagging, "claims" \notin Lagging, TypeOK, Decided,
           NEW i \in 1..Len(todo'), todo'[i].op = "createPod"
    PROVE  /\ Creates
           /\ todo'[i].pod \in PodNames
           /\ Useful(todo'[i].new)
           /\ todo'[i].new.init = (ReadySeen = {})
           /\ ~todo'[i].new.term
           /\ todo'[i].new.state = "standalone" <=>
                 claims[todo'[i].pod] # NoClaim /\ claims[todo'[i].pod].rev # NextRevision
<1>1. Creates
    BY DecidedTakes
<1>2. PICK n \in PodNames, role \in Roles :
         todo'[i].pod = n /\ todo'[i].new = NewPod(n, role, ReadySeen = {})
    BY <1>1, CreatesPod
<1>3. CachedClaims = claims
    BY DEF CachedClaims
<1> DEFINE p == NewPod(n, role, ReadySeen = {})
<1>4. /\ p.init = (ReadySeen = {}) /\ ~p.term
      /\ p.role = PodLabelsForGalera(role, NextRevision).role
      /\ p.reader = PodLabelsForGalera(role, NextRevision).reader
    BY DEF NewPod
<1>5. p.state = "standalone" <=> claims[n] # NoClaim /\ claims[n].rev # NextRevision
    BY <1>3 DEF NewPod
<1> HIDE DEF p
<1>6. Useful(p)
    BY <1>4 DEF Useful, PodLabelsForGalera
<1> QED BY <1>1, <1>2, <1>4, <1>5, <1>6 DEF p

(* Two pods do not start at the same time, and none is about to be created *)
(* when one does.                                                          *)
LEMMA FounderAlone ==
    ASSUME TypeOK, StartInv, [Next]_vars, NEW x \in Names, PodStarts(x)
    PROVE  /\ \A n \in Names : ~(Up(n)' /\ pods'[n].phase = "Pending")
           /\ \A i \in 1..Len(todo') : todo'[i].op # "createPod"
<1>1. UNCHANGED todo /\ x \in Joining
    BY DEF PodStarts, pass, Joining, Startable, Up
<1>2. /\ pods'[x].phase = "Ready" /\ \A n \in Names : n # x => pods'[n] = pods[n]
    <2>1. PICK w : pods' = [pods EXCEPT ![x].phase = "Ready", ![x].wsrep = w]
        BY DEF PodStarts, Becomes
    <2>2. pods[x] \in Pods
        BY DEF PodStarts, Startable, TypeOK
    <2> QED BY <2>1, <2>2 DEF TypeOK, Pods
<1>3. ASSUME NEW n \in Names, Up(n)', pods'[n].phase = "Pending" PROVE FALSE
    <2>1. n # x
        BY <1>2, <1>3
    <2>2. Up(n) /\ pods[n].phase = "Pending"
        BY <1>2, <1>3, <2>1 DEF Up
    <2>3. n \in Joining
        BY <2>2 DEF Joining
    <2> QED BY <1>1, <2>1, <2>3 DEF StartInv
<1>4. \A i \in 1..Len(todo) : todo[i].op # "createPod"
    BY <1>1 DEF StartInv, CreationInv
<1> QED BY <1>1, <1>3, <1>4

LEMMA FounderNext ==
    ASSUME "pods" \notin Lagging, "claims" \notin Lagging, TypeOK, CrashInv, [Next]_vars
    PROVE  FounderInv'
<1>1. StartInv /\ RunningInv /\ NoSplit /\ FounderInv /\ (bootstrapped => Safe # {})
    BY DEF CrashInv, StartInv
<1>2. CASE Sync
    <2>1. UNCHANGED <<pods, bootstrapped>> /\ Decided
        BY <1>1, <1>2, Decides DEF Sync, world
    <2>2. bootstrapped => ReadySeen # {}
        BY <1>1, ReadyServes DEF Safe
    <2>3. \A i \in 1..Len(todo') : (todo'[i].op = "createPod" /\ todo'[i].new.init) => ~bootstrapped
        BY <2>1, <2>2, NewPodDecided
    <2> QED BY <1>1, <2>1, <2>3 DEF FounderInv, Up
<1>3. CASE CallCreatePod
    <2>1. PICK x \in Names :
             /\ 1 \in 1..Len(todo) /\ todo[1].op = "createPod"
             /\ pods'[x] = todo[1].new /\ \A n \in Names : n # x => pods'[n] = pods[n]
        BY <1>3, CreatedPod
    <2>2. UNCHANGED bootstrapped /\ todo' = << >>
        BY <1>1, <1>3, StartCreate DEF CallCreatePod
    <2>3. \A i \in 1..Len(todo') : FALSE
        BY <2>2
    <2>4. ASSUME NEW n \in Names, Up(n)', pods'[n].phase = "Pending", pods'[n].init
          PROVE  ~bootstrapped
        <3>1. CASE n = x
            BY <1>1, <2>1, <2>4, <3>1 DEF FounderInv
        <3>2. CASE n # x
            BY <1>1, <2>1, <2>4, <3>2 DEF FounderInv, Up
        <3> QED BY <3>1, <3>2
    <2> QED BY <2>2, <2>3, <2>4 DEF FounderInv
<1>4. CASE ~Sync /\ ~CallCreatePod /\ \E x \in Names : PodStarts(x)
    <2>1. PICK x \in Names : PodStarts(x)
        BY <1>4
    <2> QED BY <1>1, <2>1, FounderAlone DEF FounderInv
<1>5. CASE ~Sync /\ ~CallCreatePod /\ ~\E x \in Names : PodStarts(x)
    <2>1. bootstrapped' => bootstrapped
        BY <1>5, FirstStart
    <2>2. PICK k \in Nat : TodoLeft(k)
        BY <1>5, PassGoesOn
    <2>3. Len(todo) \in Nat
        BY DEF TypeOK
    <2>4. \A i \in 1..Len(todo') : i + k \in 1..Len(todo) /\ todo'[i] = todo[i + k]
        BY <2>2, <2>3 DEF TodoLeft
    <2>5. \A n \in Names : (Up(n)' /\ pods'[n].phase = "Pending" /\ pods'[n].init) => ~bootstrapped
        BY <1>1, <1>5, StartingKept DEF FounderInv
    <2>6. \A i \in 1..Len(todo') : (todo'[i].op = "createPod" /\ todo'[i].new.init) => ~bootstrapped
        BY <1>1, <2>4 DEF FounderInv
    <2> QED BY <2>1, <2>5, <2>6 DEF FounderInv
<1> QED BY <1>2, <1>3, <1>4, <1>5

(* Before the database exists no node is ready. *)
LEMMA NothingReady ==
    ASSUME "pods" \notin Lagging, TypeOK, RunningInv, NoSplit, Primaries = {}
    PROVE  ReadySeen = {} /\ Cardinality(ReadySeen) = 0
<1>1. ReadySeen = {}
    BY ReadyServes DEF ReadyPods, Serving
<1> QED BY <1>1, FS_EmptySet

LEMMA StartingNext ==
    ASSUME "pods" \notin Lagging, "claims" \notin Lagging, TypeOK, StartInv, NoSplit, StartingInv,
           ~bootstrapped => Primaries = {}, [Next]_vars
    PROVE  StartingInv'
<1>1. RunningInv /\ CachedSpec.replicas \in Nat \ {0}
    BY CachedType DEF StartInv
<1>2. CASE Sync
    <2>1. UNCHANGED <<pods, bootstrapped>> /\ Decided
        BY <1>1, <1>2, Decides DEF Sync, world
    <2>2. \A i \in 1..Len(todo') : todo'[i].op = "createPod" => Useful(todo'[i].new)
        BY <2>1, NewPodDecided
    <2>3. \A n \in ReadySeen : n \in Live /\ pods[n].phase # "Pending"
        BY PodsTrue DEF ReadySeen
    <2>4. \A i \in 1..Len(patches') : patches'[i].pod \in ReadySeen
        BY <2>1 DEF Decided, SparesReady, Spares
    <2>5. ASSUME NEW n \in Names, Up(n), pods[n].phase = "Pending"
          PROVE  n \notin Discarded' /\ (~bootstrapped => n \notin Doomed')
        <3>1. PICK victim, old : Takes(victim, old)
            BY <2>1, DecidedTakes
        <3>2. n \in Live /\ n \notin ReadySeen /\ n # NoMember
            BY <2>3, <2>5, PodsTrue, NamesAssumption
        <3>3. n \notin Discarded'
            BY <3>1, <3>2 DEF Takes, NoMatchClaims, UnusedClaims
        <3>4. ASSUME ~bootstrapped, n \in Doomed' PROVE FALSE
            <4>1. Cardinality(ReadySeen) = 0
                BY <1>1, <3>4, NothingReady
            <4>2. Cardinality(ReadySeen) >= CachedSpec.replicas
                BY <2>5, <3>1, <3>4 DEF Takes
            <4> QED BY <1>1, <4>1, <4>2
        <3> QED BY <3>3, <3>4
    <2> QED BY <1>1, <2>1, <2>2, <2>3, <2>4, <2>5 DEF StartingInv, Up
<1>3. CASE CallCreatePod
    <2>1. PICK x \in Names :
             /\ 1 \in 1..Len(todo) /\ todo[1].op = "createPod"
             /\ pods'[x] = todo[1].new /\ \A n \in Names : n # x => pods'[n] = pods[n]
        BY <1>3, CreatedPod
    <2>2. todo' = << >> /\ patches' = << >>
        BY <1>1, <1>3, StartCreate
    <2>3. (\A i \in 1..Len(todo') : FALSE) /\ (\A i \in 1..Len(patches') : FALSE)
        BY <2>2
    <2>4. Doomed' = {} /\ Discarded' = {}
        BY <2>3 DEF Doomed, Discarded
    <2>5. ASSUME NEW n \in Names, Up(n)', pods'[n].phase = "Pending" PROVE Useful(pods'[n])
        <3>1. CASE n = x
            BY <1>1, <2>1, <3>1 DEF StartingInv
        <3>2. CASE n # x
            BY <1>1, <2>1, <2>5, <3>2 DEF StartingInv, Up
        <3> QED BY <3>1, <3>2
    <2> QED BY <2>3, <2>4, <2>5 DEF StartingInv
<1>4. CASE ~Sync /\ ~CallCreatePod
    <2>1. PICK k \in Nat : TodoLeft(k)
        BY <1>4, PassGoesOn
    <2>2. Len(todo) \in Nat
        BY DEF TypeOK
    <2>3. \A i \in 1..Len(todo') : i + k \in 1..Len(todo) /\ todo'[i] = todo[i + k]
        BY <2>1, <2>2 DEF TodoLeft
    <2>4. \A i \in 1..Len(todo') : todo'[i].op = "createPod" => Useful(todo'[i].new)
        BY <1>1, <2>3 DEF StartingInv
    <2>5. ASSUME NEW i \in 1..Len(patches'), pods'[patches'[i].pod] # NoPod,
                 pods'[patches'[i].pod].phase = "Pending"
          PROVE  FALSE
        <3>1. PICK j \in 1..Len(patches) : patches'[i] = patches[j]
            BY <1>4, <2>5, PassMoves DEF PatchesLeft
        <3>2. patches[j].pod \in Names
            <4> DEFINE Q == [op : {"patchPod"}, pod : Names, labels : Labels]
            <4>1. patches \in Seq(Q)
                BY DEF TypeOK
            <4>2. \A q \in Q : q.pod \in Names
                OBVIOUS
            <4> HIDE DEF Q
            <4> QED BY <3>1, <4>1, <4>2
        <3>5. pods'[patches[j].pod] # NoPod /\ pods'[patches[j].pod].phase = "Pending"
            BY <2>5, <3>1
        <3>3. Moves(patches[j].pod)
            BY <1>4, <3>2, <3>5, PodsMove DEF PodMoves
        <3>4. pods[patches[j].pod] # NoPod /\ pods[patches[j].pod].phase = "Pending"
            BY <3>3, <3>5 DEF Moves
        <3> QED BY <1>1, <3>1, <3>4 DEF StartingInv
    <2>6. ASSUME NEW n \in Names, Up(n)', pods'[n].phase = "Pending"
          PROVE  Useful(pods'[n]) /\ n \notin Discarded' /\ (~bootstrapped' => n \notin Doomed')
        <3>1. Up(n) /\ pods[n].phase = "Pending" /\ pods[n] # NoPod /\ pods'[n] # NoPod
            BY <1>4, <2>6, StartingKept DEF Up
        <3>2. StaysUseful(n)
            BY <1>1, <3>1 DEF StartingInv, StaysUseful
        <3>3. Useful(pods[n]) /\ n \notin Discarded /\ (~bootstrapped => n \notin Doomed)
            BY <1>1, <3>1 DEF StartingInv
        <3>4. Useful(pods'[n])
            BY <1>4, <3>1, <3>2, <3>3, UsefulKept
        <3> QED BY <1>4, <3>3, <3>4, DoomedShrinks, FirstStart
    <2> QED BY <2>4, <2>5, <2>6 DEF StartingInv
<1> QED BY <1>2, <1>3, <1>4

LEMMA EndingNext ==
    ASSUME "pods" \notin Lagging, "claims" \notin Lagging, TypeOK, CrashInv, [Next]_vars
    PROVE  \A m, n \in Ending' : m = n
<1>1. StartInv /\ RunningInv /\ CreationInv /\ NoSplit /\ StartingInv /\ \A m, n \in Ending : m = n
    BY DEF CrashInv, StartInv
<1>2. CASE Sync
    <2>1. UNCHANGED <<pods, claims>> /\ Decided
        BY <1>1, <1>2, Decides DEF Sync, world
    <2>2. PICK victim, old : Takes(victim, old)
        BY <2>1, DecidedTakes
    <2>3. Serving' = Serving
        BY <2>1 DEF Serving, Primaries
    <2>4. ASSUME NEW n \in Serving, n \in Discarded' PROVE n = old /\ n # NoMember
        <3>1. n \in Live /\ n \in Names
            BY <2>4, PodsTrue DEF Serving, Primaries, Up
        <3> QED BY <2>2, <2>4, <3>1, NamesAssumption DEF Takes, NoMatchClaims, UnusedClaims
    <2>5. ASSUME NEW n \in Serving, claims[n].term PROVE n \in Ending /\ n \in TerminatingClaims
        <3>1. n \in Ending /\ n \in Names /\ pods[n] # NoPod /\ pods[n].wsrep = "Primary"
            BY <2>5 DEF Ending, Serving, Primaries
        <3>2. claims[n] # NoClaim
            BY <1>1, <3>1 DEF RunningInv
        <3> QED BY <2>5, <3>1, <3>2 DEF TerminatingClaims, CachedClaims
    <2>6. CASE old = NoMember
        <3>1. Ending' \subseteq Ending
            BY <2>1, <2>3, <2>4, <2>5, <2>6 DEF Ending
        <3> QED BY <1>1, <3>1
    <2>7. CASE old # NoMember
        <3>1. TerminatingClaims = {}
            BY <2>2, <2>7 DEF Takes
        <3>2. Ending' \subseteq {old}
            BY <2>1, <2>3, <2>4, <2>5, <3>1 DEF Ending
        <3> QED BY <3>2
    <2> QED BY <2>6, <2>7
<1>3. CASE ~Sync
    <2>1. SUFFICES ASSUME NEW n \in Ending' PROVE n \in Ending
        BY <1>1
    <2>2. n \in Serving' /\ n \in Primaries' /\ n \in Names /\ pods'[n] # NoPod /\ ~pods'[n].term
        BY <2>1 DEF Ending, Serving, Primaries
    <2>3. n \in Primaries
        <3>1. SUFFICES ASSUME n \notin Primaries PROVE FALSE
            OBVIOUS
        <3>2. PodStarts(n)
            BY <1>1, <1>3, <2>2, <3>1, NewPrimary
        <3>3. Up(n) /\ pods[n].phase = "Pending" /\ ~claims[n].term /\ UNCHANGED claims
            BY <3>2 DEF PodStarts, Startable, Up
        <3>4. n \notin Discarded'
            BY <1>1, <1>3, <2>2, <3>3, DoomedShrinks DEF StartingInv
        <3> QED BY <2>1, <3>3, <3>4 DEF Ending
    <2>4. pods[n] # NoPod /\ pods[n].wsrep = "Primary"
        BY <2>3 DEF Primaries
    <2>5. ~pods[n].term
        <3>1. CASE CallCreatePod
            <4>1. PICK x \in Names : pods[x] = NoPod /\ \A z \in Names : z # x => pods'[z] = pods[z]
                BY <3>1, CreatedPod
            <4> QED BY <2>2, <2>4, <4>1
        <3>2. CASE ~CallCreatePod
            BY <1>3, <2>2, <3>2, PodsMove DEF PodMoves, Moves
        <3> QED BY <3>1, <3>2
    <2>6. n \in Serving /\ pods[n].phase = "Ready"
        BY <1>1, <2>2, <2>3, <2>4, <2>5 DEF Serving, RunningInv
    <2>7. SUFFICES ASSUME n \notin Discarded, ~claims[n].term PROVE FALSE
        BY <2>6 DEF Ending
    <2>8. n \notin Discarded' /\ ~claims'[n].term
        BY <1>1, <1>3, <2>2, <2>4, <2>6, <2>7, EndingKept
    <2> QED BY <2>1, <2>8 DEF Ending
<1> QED BY <1>2, <1>3

LEMMA NothingYetNext ==
    ASSUME "pods" \notin Lagging, "claims" \notin Lagging, TypeOK, CrashInv, [Next]_vars,
           ~bootstrapped'
    PROVE  Primaries' = {} /\ patches' = << >>
<1>1. StartInv /\ RunningInv /\ CreationInv /\ NoSplit
    BY DEF CrashInv, StartInv
<1>2. ~bootstrapped /\ Primaries = {} /\ patches = << >>
    BY FirstStart DEF CrashInv
<1>3. SUFFICES Primaries' = {} /\ \A i \in 1..Len(patches') : FALSE
    <2>1. TypeOK'
        BY TypeNext
    <2>2. Len(patches') \in Nat /\ (Len(patches') = 0 => patches' = << >>)
        BY <2>1 DEF TypeOK
    <2> QED BY <1>3, <2>2
<1>4. CASE Sync
    <2>1. Primaries' = Primaries
        BY <1>4 DEF Sync, world, Primaries
    <2>2. Decided
        BY <1>1, <1>4, Decides
    <2>3. \A i \in 1..Len(patches') : patches'[i].pod \in ReadySeen
        BY <2>2 DEF Decided, SparesReady, Spares
    <2> QED BY <1>1, <1>2, <2>1, <2>3, NothingReady
<1>5. CASE ~Sync
    <2>1. ASSUME NEW n \in Primaries' PROVE FALSE
        <3>1. PodStarts(n) /\ pods[n].state = "cluster"
            BY <1>1, <1>2, <1>5, <2>1, NewPrimary
        <3> QED BY <1>2, <3>1 DEF PodStarts
    <2>2. \A i \in 1..Len(patches') : FALSE
        BY <1>2, <1>5, PassMoves DEF PatchesLeft
    <2> QED BY <2>1, <2>2
<1> QED BY <1>4, <1>5

LEMMA SafeNext ==
    ASSUME "pods" \notin Lagging, "claims" \notin Lagging, MaxFailures = 0, MaxPartitions = 0,
           TypeOK, CrashInv, [Next]_vars, bootstrapped'
    PROVE  Safe' # {}
<1>1. StartInv /\ RunningInv /\ StartingInv
    BY DEF CrashInv, StartInv
<1>2. CASE Sync
    <2>1. bootstrapped
        BY <1>2 DEF Sync, world
    <2> QED BY <1>2, <2>1, SafeSync
<1>3. CASE ~Sync /\ bootstrapped
    <2>1. PICK n \in Safe : TRUE
        BY <1>3 DEF CrashInv
    <2>2. ~Harm(n)
        <3>1. ~(failures < MaxFailures) /\ ~(partitions < MaxPartitions)
            <4>1. failures \in Nat /\ partitions \in Nat
                BY DEF TypeOK
            <4> QED BY <4>1
        <3> QED BY <3>1 DEF Harm, PodFails, LosesPrimary
    <2>3. n \in Safe'
        BY <1>1, <1>3, <2>1, <2>2, SafeKept
    <2> QED BY <2>3
<1>4. CASE ~Sync /\ ~bootstrapped
    <2>1. PICK n \in Names : PodStarts(n) /\ pods[n].state = "cluster" /\ pods[n].init
        BY <1>4, FirstStart
    <2>2. /\ Up(n) /\ pods[n].phase = "Pending" /\ ~claims[n].term /\ UNCHANGED <<claims, todo, patches>>
          /\ patches = << >>
        BY <1>4, <2>1 DEF PodStarts, Startable, Up, pass, CrashInv
    <2>3. Useful(pods[n]) /\ n \notin Discarded /\ n \notin Doomed
        BY <1>1, <1>4, <2>2 DEF StartingInv
    <2>4. pods' = [pods EXCEPT ![n].phase = "Ready", ![n].wsrep = "Primary"] /\ pods[n] \in Pods
        BY <2>1 DEF PodStarts, Becomes, Startable, TypeOK
    <2>5. /\ pods'[n] # NoPod /\ pods'[n].wsrep = "Primary" /\ ~pods'[n].term
          /\ pods'[n].role = pods[n].role /\ pods'[n].reader = pods[n].reader
          /\ pods'[n].backup = pods[n].backup
        <3>1. pods'[n] = [pods[n] EXCEPT !.phase = "Ready", !.wsrep = "Primary"]
            BY <2>4 DEF TypeOK
        <3>2. \A p \in Pods :
                 LET q == [p EXCEPT !.phase = "Ready", !.wsrep = "Primary"]
                 IN  /\ q.phase = "Ready" /\ q.wsrep = "Primary" /\ q.term = p.term
                     /\ q.role = p.role /\ q.reader = p.reader /\ q.backup = p.backup
            BY DEF Pods
        <3>3. NoPod.phase # "Ready"
            BY DEF NoPod
        <3>4. /\ pods'[n].phase = "Ready" /\ pods'[n].wsrep = "Primary"
              /\ pods'[n].term = pods[n].term /\ pods'[n].role = pods[n].role
              /\ pods'[n].reader = pods[n].reader /\ pods'[n].backup = pods[n].backup
            BY <2>4, <3>1, <3>2
        <3> QED BY <2>2, <3>3, <3>4 DEF Up
    <2>6. n \in Serving' /\ Useful(pods'[n])
        BY <2>3, <2>5 DEF Serving, Primaries, Useful
    <2>7. n \notin Discarded' /\ n \notin Doomed'
        BY <2>2, <2>3 DEF Discarded, Doomed
    <2>8. StaysUseful(n)'
        BY <2>2 DEF StaysUseful
    <2>9. n \in ReadyPods' /\ n \notin Ending'
        BY <2>2, <2>6, <2>7 DEF ReadyPods, Ending
    <2> QED BY <2>7, <2>8, <2>9 DEF Safe
<1> QED BY <1>2, <1>3, <1>4

(* Without failures of nodes, wherever the passes of the operator are cut  *)
(* short and whatever is edited, a cluster of three nodes or more keeps    *)
(* its database: some volume that is not being deleted holds it, and no    *)
(* node founds another one.                                                *)
THEOREM SurvivesCrashes ==
    ASSUME "pods" \notin Lagging, "claims" \notin Lagging, MaxFailures = 0, MaxPartitions = 0,
           InitReplicas >= 3, NeverBelow(3)
    PROVE  Spec => [](CrashInv /\ OneDatabase /\ LastCopyKept)
<1>1. ASSUME Init PROVE CrashInv
    <2>1. StartInv
        BY <1>1, StartInit
    <2>2. spec.replicas = InitReplicas /\ CachedSpec.replicas = InitReplicas
        BY <1>1 DEF Init, Spec0, CachedSpec
    <2>3. /\ \A n \in Names : pods[n] = NoPod
          /\ \A i \in 1..Len(todo) : FALSE
          /\ \A i \in 1..Len(patches) : FALSE
          /\ ~bootstrapped /\ patches = << >>
        BY <1>1 DEF Init
    <2>4. Primaries = {} /\ NoSplit
        BY <2>3 DEF Primaries, NoSplit
    <2>5. FounderInv /\ StartingInv
        BY <2>3 DEF FounderInv, StartingInv, Up
    <2>6. OneDatabase /\ Ending = {}
        BY <2>4 DEF OneDatabase, Ending, Serving
    <2> QED BY <2>1, <2>2, <2>3, <2>4, <2>5, <2>6 DEF CrashInv
<1>2. ASSUME TypeOK, CrashInv, [Next]_vars PROVE CrashInv'
    <2>1. StartInv /\ RunningInv /\ CreationInv /\ NoSplit /\ FounderInv /\ OneDatabase
        BY <1>2 DEF CrashInv, StartInv
    <2>2. StartInv'
        BY <1>2, <2>1, StartNext
    <2>3. spec'.replicas >= 3 /\ CachedSpec'.replicas >= 3
        BY <1>2, ReplicasKept DEF CrashInv
    <2>4. NoSplit'
        BY <1>2, <2>1, SplitNext
    <2>5. FounderInv' /\ StartingInv' /\ \A m, n \in Ending' : m = n
        BY <1>2, FounderNext, StartingNext, EndingNext DEF CrashInv
    <2>6. (bootstrapped' => Safe' # {}) /\ (~bootstrapped' => Primaries' = {} /\ patches' = << >>)
        BY <1>2, SafeNext, NothingYetNext
    <2>7. OneDatabase'
        BY <1>2, <2>1, DatabaseNext DEF FounderInv, FoundsRightly
    <2> QED BY <2>2, <2>3, <2>4, <2>5, <2>6, <2>7 DEF CrashInv
<1>3. ASSUME TypeOK, CrashInv PROVE OneDatabase /\ LastCopyKept
    <2>1. OneDatabase /\ RunningInv
        BY <1>3 DEF CrashInv, StartInv
    <2>2. ASSUME bootstrapped
          PROVE  \E n \in Names : claims[n] # NoClaim /\ ~claims[n].term /\ data[n].db
        <3>1. PICK n \in Safe : TRUE
            BY <1>3, <2>2 DEF CrashInv
        <3>2. n \in Names /\ n \in Primaries /\ pods[n] # NoPod /\ pods[n].wsrep = "Primary"
              /\ ~claims[n].term
            BY <3>1 DEF Safe, ReadyPods, Ending, Serving, Primaries
        <3>3. claims[n] # NoClaim /\ data[n].db
            BY <2>1, <3>2 DEF RunningInv, OneDatabase
        <3> QED BY <3>2, <3>3
    <2> QED BY <2>1, <2>2 DEF LastCopyKept
<1> QED BY <1>1, <1>2, <1>3, TypeCorrect, PTL DEF Spec

-----------------------------------------------------------------------------
(***************************************************************************)
(* The database survives failures of its nodes.                            *)
(***************************************************************************)

(* When the volume requirements never change, a pass discards only claims  *)
(* that no pod uses, and those only when there are enough ready pods.      *)
LEMMA DiscardsUnused ==
    ASSUME "pods" \notin Lagging, "claims" \notin Lagging, SameVolumes, TypeOK, StartInv, Sync
    PROVE  /\ \A n \in Discarded' : n \in UnusedClaims /\ ~Up(n)
           /\ Discarded' # {} => Cardinality(ReadySeen) >= CachedSpec.replicas
<1>1. CachedClaims = claims /\ Template \in Revs
    BY CachedType DEF CachedClaims
<1>2. ASSUME NEW n \in Names, claims[n] # NoClaim PROVE Matching(n)
    <2>1. claims[n] \in Claims
        BY <1>2 DEF TypeOK
    <2>2. PICK r \in Revs : claims[n].claimSpec = ClaimSpec[r]
        BY <2>1 DEF Claims
    <2> QED BY <1>1, <2>2 DEF Matching, SameVolumes
<1>3. NoMatchClaims = {}
    BY <1>1, <1>2 DEF NoMatchClaims, UnusedClaims
<1>4. PICK victim, old : Takes(victim, old)
    BY Decides, DecidedTakes
<1>5. ASSUME NEW n \in Discarded'
      PROVE  n \in UnusedClaims /\ Cardinality(ReadySeen) >= CachedSpec.replicas
    <2>1. n \in Names
        BY DEF Discarded
    <2>2. SUFFICES ASSUME n = old, ~Matching(n) PROVE FALSE
        BY <1>3, <1>4 DEF Takes
    <2>3. n \in ReadySeen
        BY <1>4, <2>1, <2>2, NamesAssumption DEF Takes
    <2>4. Up(n) /\ pods[n].phase = "Ready"
        BY <2>3, PodsTrue DEF ReadySeen
    <2>5. claims[n] # NoClaim
        BY <2>1, <2>4 DEF StartInv, RunningInv, Up
    <2> QED BY <1>2, <2>1, <2>2, <2>5
<1>6. \A n \in UnusedClaims : ~Up(n)
    BY PodsTrue DEF UnusedClaims
<1> QED BY <1>5, <1>6

(* Without errors a pass that creates a pod goes on to the end. *)
LEMMA CreationLasts ==
    ASSUME MaxErrors = 0, TypeOK, StartInv, UnhinderedInv, [Next]_vars, ~Sync,
           NEW i \in 1..Len(todo), todo[i].op = "createPod"
    PROVE  /\ i = Len(todo)
           /\ ~CallDeletePod /\ ~CallDeleteClaim /\ ~CallDeleteBkp
           /\ \/ todo' = todo /\ ~CallCreateClaim /\ ~CallCreateBkp /\ ~CallCreatePod
              \/ /\ todo # << >> /\ todo' = Tail(todo) /\ patches = << >> /\ patches' = << >>
                 /\ CallCreateClaim \/ CallCreateBkp \/ CallCreatePod
<1>1. /\ i = Len(todo) /\ Len(todo) \in Nat /\ todo # << >>
      /\ \A j \in 1..Len(todo) : todo[j].op \in {"createClaim", "createBkp", "createPod"}
    BY DEF StartInv, CreationInv, TypeOK
<1>2. ASSUME NEW kind, Calls(kind)
      PROVE  /\ kind \in {"createClaim", "createBkp", "createPod"}
             /\ todo' # todo /\ todo' = Tail(todo) /\ patches = << >> /\ patches' = << >>
    <2>1. 1 \in 1..Len(todo) /\ todo[1].op = kind /\ TodoLeft(1)
        BY <1>2, FirstCall, TypeNumbers
    <2>2. Len(todo') = Len(todo) - 1
        BY <2>1 DEF TodoLeft
    <2>3. todo' # todo
        BY <1>1, <2>2
    <2> QED BY <1>1, <1>2, <2>1, <2>3 DEF Calls
<1>3. ~SyncFails
    BY DEF SyncFails, TypeOK
<1>4. ~CallRefused
    <2>1. CASE patches # << >>
        <3> DEFINE Q == [op : {"patchPod"}, pod : Names, labels : Labels]
        <3>1. patches \in Seq(Q)
            BY DEF TypeOK
        <3>2. todo \in Seq(Ops)
            BY DEF TypeOK
        <3>3. \A q \in Q : q.op = "patchPod"
            OBVIOUS
        <3> HIDE DEF Q
        <3>4. 1 \in 1..Len(patches) /\ Len(patches) \in Nat
            BY <2>1, <3>1
        <3>5. patches[1].op = "patchPod"
            BY <3>1, <3>3, <3>4
        <3>6. Head(patches \o todo) = patches[1]
            BY <2>1, <3>1, <3>2, <3>4
        <3>7. Up(patches[1].pod)
            BY <3>4 DEF UnhinderedInv
        <3>8. Accepted(patches[1])
            BY <3>5, <3>7 DEF Accepted, Up
        <3> QED BY <3>6, <3>8 DEF CallRefused
    <2>2. CASE patches = << >>
        <3>1. patches \o todo = todo /\ Head(todo) = todo[1] /\ 1 \in 1..Len(todo)
            BY <1>1, <2>2 DEF TypeOK
        <3>2. /\ todo[1].op = "createClaim" => claims[todo[1].pod] = NoClaim
              /\ todo[1].op = "createBkp" => bkps[todo[1].pod] = "none"
              /\ todo[1].op = "createPod" => pods[todo[1].pod] = NoPod
            BY <3>1 DEF UnhinderedInv
        <3>3. Accepted(todo[1])
            BY <1>1, <3>1, <3>2 DEF Accepted
        <3> QED BY <3>1, <3>3 DEF CallRefused
    <2> QED BY <2>1, <2>2
<1>5. ~UpdateStatus
    BY <1>1 DEF UpdateStatus
<1>6. /\ ~CallDeletePod /\ ~CallDeleteClaim /\ ~CallDeleteBkp /\ ~CallPatchClaim
      /\ ~CallCheckSynced /\ ~CallMysqlUpgrade
    <2>1. ~Calls("deletePod") /\ ~Calls("deleteClaim") /\ ~Calls("deleteBkp")
        BY <1>2
    <2>2. ~Calls("patchClaim") /\ ~Calls("checkSynced") /\ ~Calls("mysqlUpgrade")
        BY <1>2
    <2> QED BY <2>1, <2>2 DEF CallDeletePod, CallDeleteClaim, CallDeleteBkp, CallPatchClaim,
                CallCheckSynced, CallMysqlUpgrade
<1>7. CASE CallCreateClaim \/ CallCreateBkp \/ CallCreatePod
    <2>1. PICK kind : Calls(kind)
        BY <1>7 DEF CallCreateClaim, CallCreateBkp, CallCreatePod
    <2>2. todo' = Tail(todo) /\ patches = << >> /\ patches' = << >>
        BY <1>2, <2>1
    <2> QED BY <1>1, <1>6, <1>7, <2>2
<1>8. CASE ~(CallCreateClaim \/ CallCreateBkp \/ CallCreatePod)
    <2>1. PatchPodLabels \/ Environment \/ UNCHANGED vars
        BY <1>3, <1>4, <1>5, <1>6, <1>8 DEF Next, Call
    <2>2. todo' = todo
        BY <2>1 DEF PatchPodLabels, Environment, PodStarts, PodIsGone, ClaimIsGone, PodFails,
            LosesPrimary, RegainsPrimary, UserEdits, UserScales, InformerCatchesUp, pass, vars
    <2> QED BY <1>1, <1>6, <1>8, <2>2
<1> QED BY <1>7, <1>8

LEMMA NoBkpStays ==
    ASSUME TypeOK, [Next]_vars, ~CallCreateBkp, ~CallDeleteBkp, NEW n \in Names, bkps[n] = "none"
    PROVE  bkps'[n] = "none"
<1>1. bkps' = bkps \/ \E m \in Names : ClaimIsGone(m)
    BY DEF Next, Sync, Call, SyncFails, Environment, PatchPodLabels, CallDeletePod,
        CallCreatePod, CallCheckSynced, CallMysqlUpgrade, CallPatchClaim, CallCreateClaim,
        CallDeleteClaim, CallRefused, UpdateStatus, PodStarts,
        PodIsGone, PodFails, LosesPrimary, RegainsPrimary, UserEdits, UserScales,
        InformerCatchesUp, world, vars
<1>2. \A m \in Names : ClaimIsGone(m) => bkps' = bkps \/ bkps' = [bkps EXCEPT ![m] = "none"]
    BY DEF ClaimIsGone
<1>3. bkps \in [Names -> BkpStates]
    BY DEF TypeOK
<1> QED BY <1>1, <1>2, <1>3

(* The pods that the patches are for are there. *)
LEMMA PatchedPods ==
    ASSUME TypeOK PROVE \A j \in 1..Len(patches) : patches[j].pod \in Names
<1> DEFINE Q == [op : {"patchPod"}, pod : Names, labels : Labels]
<1>1. patches \in Seq(Q)
    BY DEF TypeOK
<1>2. \A q \in Q : q.pod \in Names
    OBVIOUS
<1> HIDE DEF Q
<1> QED BY <1>1, <1>2

(* A pod that nobody deletes stays. *)
LEMMA StaysUp ==
    ASSUME TypeOK, [Next]_vars, ~Sync, ~CallDeletePod, NEW n \in Names, Up(n)
    PROVE  Up(n)'
<1>1. pods[n] # NoPod /\ ~pods[n].term
    BY DEF Up
<1>2. CASE CallCreatePod
    <2>1. PICK x \in Names : pods[x] = NoPod /\ \A m \in Names : m # x => pods'[m] = pods[m]
        BY <1>2, CreatedPod
    <2> QED BY <1>1, <2>1 DEF Up
<1>3. CASE ~CallCreatePod
    BY <1>1, <1>3, PodsMove DEF PodMoves, Moves, Up
<1> QED BY <1>2, <1>3

LEMMA UnhinderedSync ==
    ASSUME "pods" \notin Lagging, "claims" \notin Lagging, TypeOK, StartInv, Sync
    PROVE  UnhinderedInv'
<1>1. UNCHANGED <<pods, claims, bkps>> /\ Decided
    BY Decides DEF Sync, world
<1>2. \A j \in 1..Len(patches') : patches'[j].pod \in ReadySeen
    BY <1>1 DEF Decided, SparesReady, Spares
<1>3. \A j \in 1..Len(patches') : Up(patches'[j].pod)
    BY <1>2, PodsTrue DEF ReadySeen
<1>4. CASE ~Creates
    <2>1. \A i \in 1..Len(todo') : todo'[i].op \notin {"createPod", "createClaim"}
        BY <1>1, <1>4, DecidedTakes
    <2> QED BY <2>1 DEF UnhinderedInv
<1>5. CASE Creates
    <2>1. PICK n \in PodNames, role \in Roles :
             /\ todo'[Len(todo')].op = "createPod"
             /\ \A i \in 1..Len(todo') :
                  /\ todo'[i].pod = n
                  /\ todo'[i].op = "createPod" => i = Len(todo')
                  /\ todo'[i].op = "createClaim" => i = 1 /\ claims[n] = NoClaim
                  /\ todo'[i].op = "createBkp" => i = Len(todo') - 1 /\ bkps[n] = "none"
        BY <1>5, CreatesPod
    <2>2. n \in Names /\ pods[n] = NoPod
        <3>1. n \in Names /\ n \notin Live
            BY <1>5, PodsTrue DEF PodNames, UnusedClaims, Creates
        <3>2. n \notin Listed
            BY <1>5, <3>1 DEF Creates
        <3> QED BY <3>1, <3>2, PodsTrue
    <2>3. claims[n] # NoClaim => ~claims[n].term
        BY <1>5, <2>2 DEF Creates, ClaimsClean, TerminatingClaims, CachedClaims
    <2>4. ASSUME NEW i \in 1..Len(todo'), todo'[i].op = "createPod"
          PROVE  /\ ~todo'[i].new.term
                 /\ claims[n] = NoClaim => todo'[i].new.state = "cluster"
        <3>1. ~todo'[i].new.term /\ todo'[i].pod = n
              /\ (claims[n] = NoClaim => todo'[i].new.state # "standalone")
            BY <1>1, <2>1, <2>4, NewPodDecided
        <3>2. todo'[i].new \in Pods
            <4>1. TypeOK'
                BY TypeNext DEF Next
            <4>2. todo' \in Seq(Ops)
                BY <4>1 DEF TypeOK
            <4>3. todo'[i] \in Ops
                BY <2>4, <4>2
            <4> QED BY <2>4, <4>3, OpType
        <3>3. todo'[i].new.state \in {"cluster", "standalone"}
            BY <3>2 DEF Pods
        <3> QED BY <3>1, <3>3
    <2>5. ASSUME NEW i \in 1..Len(todo'), todo'[i].op = "createPod"
          PROVE  /\ pods'[todo'[i].pod] = NoPod /\ ~todo'[i].new.term
                 /\ claims'[todo'[i].pod] # NoClaim => ~claims'[todo'[i].pod].term
                 /\ \A j \in 1..Len(todo') :
                       /\ todo'[j].pod = todo'[i].pod
                       /\ todo'[j].op = "createClaim" =>
                             j = 1 /\ claims'[todo'[i].pod] = NoClaim /\ todo'[i].new.state = "cluster"
                       /\ todo'[j].op = "createBkp" => j = i - 1 /\ bkps'[todo'[i].pod] = "none"
        BY <1>1, <2>1, <2>2, <2>3, <2>4, <2>5
    <2>6. \A j \in 1..Len(patches') : pods'[patches'[j].pod] # NoPod /\ ~pods'[patches'[j].pod].term
        BY <1>1, <1>3 DEF Up
    <2> QED BY <2>1, <2>5, <2>6 DEF UnhinderedInv, Up
<1> QED BY <1>4, <1>5

LEMMA UnhinderedNext ==
    ASSUME "pods" \notin Lagging, "claims" \notin Lagging, MaxErrors = 0,
           TypeOK, StartInv, UnhinderedInv, [Next]_vars
    PROVE  UnhinderedInv'
<1>1. CASE Sync
    BY <1>1, UnhinderedSync
<1>2. CASE CallCreatePod
    <2>1. todo' = << >>
        BY <1>2, StartCreate
    <2>2. \A i \in 1..Len(todo') : FALSE
        BY <2>1
    <2> QED BY <2>2 DEF UnhinderedInv
<1>3. CASE ~Sync /\ ~CallCreatePod /\ \A i \in 1..Len(todo) : todo[i].op # "createPod"
    <2>1. PICK k \in Nat : TodoLeft(k)
        BY <1>3, PassGoesOn
    <2>2. Len(todo) \in Nat
        BY DEF TypeOK
    <2>3. \A i \in 1..Len(todo') : i + k \in 1..Len(todo) /\ todo'[i] = todo[i + k]
        BY <2>1, <2>2 DEF TodoLeft
    <2>4. \A i \in 1..Len(todo) : todo[i].op # "createClaim"
        <3>1. \A i \in 1..Len(todo) : Len(todo) \in 1..Len(todo)
            BY <2>2
        <3> QED BY <1>3, <3>1 DEF UnhinderedInv
    <2> QED BY <1>3, <2>3, <2>4 DEF UnhinderedInv
<1>4. CASE ~Sync /\ ~CallCreatePod /\ \E i \in 1..Len(todo) : todo[i].op = "createPod"
    <2>1. PICK e \in 1..Len(todo) : todo[e].op = "createPod"
        BY <1>4
    <2> DEFINE n == todo[e].pod
    <2>2. /\ e = Len(todo) /\ ~CallDeletePod /\ ~CallDeleteClaim /\ ~CallDeleteBkp
          /\ \/ todo' = todo /\ ~CallCreateClaim /\ ~CallCreateBkp
             \/ todo # << >> /\ todo' = Tail(todo) /\ (CallCreateClaim \/ CallCreateBkp)
        BY <1>4, <2>1, CreationLasts
    <2>3. /\ pods[n] = NoPod /\ ~todo[e].new.term
          /\ claims[n] # NoClaim => ~claims[n].term
          /\ \A j \in 1..Len(patches) : Up(patches[j].pod)
          /\ \A j \in 1..Len(todo) :
                /\ todo[j].pod = n
                /\ todo[j].op = "createClaim" =>
                      j = 1 /\ claims[n] = NoClaim /\ todo[e].new.state = "cluster"
                /\ todo[j].op = "createBkp" => j = e - 1 /\ bkps[n] = "none"
        BY <2>1 DEF UnhinderedInv
    <2>4. n \in Names
        <3>1. todo[e] \in Ops
            BY DEF TypeOK
        <3> QED BY <3>1, OpType
    <2> HIDE DEF n
    <2>5. pods'[n] = NoPod
        BY <1>4, <2>3, <2>4, PodsMove DEF PodMoves, Moves
    <2>6. claims'[n] # NoClaim => ~claims'[n].term
        BY <1>4, <2>2, <2>3, <2>4, ClaimsMove DEF ClaimMoves
    <2>7. \A j \in 1..Len(patches') : pods'[patches'[j].pod] # NoPod /\ ~pods'[patches'[j].pod].term
        <3>1. \A m \in Names : Up(m) => pods'[m] # NoPod /\ ~pods'[m].term
            BY <1>4, <2>2, StaysUp DEF Up
        <3>2. \A j \in 1..Len(patches) : pods'[patches[j].pod] # NoPod /\ ~pods'[patches[j].pod].term
            BY <2>3, <3>1, PatchedPods
        <3>3. PatchesLeft
            BY <1>4, PassMoves
        <3> QED BY <3>2, <3>3 DEF PatchesLeft
    <2>8. CASE todo' = todo /\ ~CallCreateClaim /\ ~CallCreateBkp
        <3>1. claims[n] = NoClaim => claims'[n] = NoClaim
            BY <1>4, <2>4, <2>8, ClaimsMove DEF ClaimMoves
        <3>2. bkps[n] = "none" => bkps'[n] = "none"
            BY <2>2, <2>4, <2>8, NoBkpStays
        <3>3. \A i \in 1..Len(todo) : todo[i].op = "createPod" => i = e
            BY <2>2 DEF StartInv, CreationInv
        <3>4. \A i \in 1..Len(todo') : todo'[i].op = "createPod" => i = e /\ todo'[i].pod = n
            BY <2>3, <2>8, <3>3
        <3>5. /\ ~todo'[e].new.term
              /\ \A j \in 1..Len(todo') :
                /\ todo'[j].pod = n
                /\ todo'[j].op = "createClaim" =>
                      j = 1 /\ claims'[n] = NoClaim /\ todo'[e].new.state = "cluster"
                /\ todo'[j].op = "createBkp" => j = e - 1 /\ bkps'[n] = "none"
            BY <2>3, <2>8, <3>1, <3>2
        <3>6. todo'[Len(todo')].op = "createPod"
            BY <2>1, <2>2, <2>8
        <3> QED BY <2>5, <2>6, <2>7, <3>4, <3>5, <3>6 DEF UnhinderedInv, Up
    <2>9. CASE todo # << >> /\ todo' = Tail(todo) /\ (CallCreateClaim \/ CallCreateBkp)
        <3>1. /\ Len(todo) \in Nat /\ Len(todo') = Len(todo) - 1
              /\ \A j \in 1..Len(todo') : todo'[j] = todo[j + 1]
              /\ todo[1] = Head(todo) /\ 1 \in 1..Len(todo)
            BY <2>1, <2>9, PassStep DEF TypeOK, TodoLeft
        <3>2. \A j \in 1..Len(todo') : j + 1 \in 1..Len(todo) /\ j + 1 # 1
            BY <3>1
        <3>3. \A j \in 1..Len(todo') : todo'[j].pod = n /\ todo'[j].op # "createClaim"
            BY <2>3, <3>1, <3>2
        <3>4. todo[1].op \in {"createClaim", "createBkp"}
            <4>1. Calls("createClaim") \/ Calls("createBkp")
                BY <2>9 DEF CallCreateClaim, CallCreateBkp
            <4> QED BY <3>1, <4>1 DEF Calls
        <3>5. e # 1 /\ e \in Nat
            BY <2>1, <2>2, <3>1, <3>4
        <3>6. todo'[e - 1] = todo[e] /\ e - 1 = Len(todo') /\ e - 1 \in 1..Len(todo')
            BY <2>2, <3>1, <3>5
        <3>7. \A i \in 1..Len(todo') : todo'[i].op = "createPod" => i = e - 1
            <4>1. \A i \in 1..Len(todo) : todo[i].op = "createPod" => i = e
                BY <2>2 DEF StartInv, CreationInv
            <4> QED BY <3>1, <3>2, <3>5, <4>1
        <3>8. ASSUME NEW j \in 1..Len(todo'), todo'[j].op = "createBkp"
              PROVE  j = (e - 1) - 1 /\ bkps'[n] = "none"
            <4>1. j + 1 = e - 1 /\ bkps[n] = "none"
                BY <2>3, <3>1, <3>2, <3>8
            <4>2. todo[1].op # "createBkp"
                <5>1. 1 # e - 1
                    BY <3>8, <4>1
                <5> QED BY <2>3, <3>1, <5>1
            <4>3. ~CallCreateBkp
                BY <3>1, <4>2 DEF CallCreateBkp, Calls
            <4>4. bkps'[n] = "none"
                BY <2>2, <2>4, <4>1, <4>3, NoBkpStays
            <4> QED BY <3>5, <4>1, <4>4
        <3>9. todo'[e - 1].pod = n /\ ~todo'[e - 1].new.term /\ todo'[Len(todo')].op = "createPod"
            BY <2>1, <2>3, <3>3, <3>6
        <3> QED BY <2>5, <2>6, <2>7, <3>3, <3>7, <3>8, <3>9 DEF UnhinderedInv, Up
    <2> QED BY <2>2, <2>8, <2>9
<1> QED BY <1>1, <1>2, <1>3, <1>4

(* A pod that starts goes on starting, unless it has started or a call     *)
(* deletes it.                                                             *)
LEMMA PendingStays ==
    ASSUME TypeOK, [Next]_vars, ~Sync, NEW n \in Names, Up(n), pods[n].phase = "Pending",
           n \notin Doomed, ~PodStarts(n)
    PROVE  Up(n)' /\ pods'[n].phase = "Pending" /\ pods'[n].state = pods[n].state
<1>1. pods[n] # NoPod /\ ~pods[n].term
    BY DEF Up
<1>2. CASE CallCreatePod
    <2>1. PICK x \in Names : pods[x] = NoPod /\ \A m \in Names : m # x => pods'[m] = pods[m]
        BY <1>2, CreatedPod
    <2> QED BY <1>1, <2>1 DEF Up
<1>3. CASE ~CallCreatePod
    <2>1. pods'[n] # NoPod /\ Moves(n)
        BY <1>1, <1>3, PodsMove DEF PodMoves
    <2>2. ~(CallDeletePod /\ Head(todo).pod = n)
        <3>1. SUFFICES ASSUME CallDeletePod, Head(todo).pod = n PROVE FALSE
            OBVIOUS
        <3>2. 1 \in 1..Len(todo) /\ todo[1].op = "deletePod" /\ todo[1].pod = n
            BY <3>1, FirstCall, TypeNumbers DEF CallDeletePod
        <3> QED BY <3>2 DEF Doomed
    <2>3. ~pods'[n].term /\ pods'[n].state = pods[n].state
        BY <1>1, <2>1, <2>2 DEF Moves
    <2>4. pods'[n].phase \in {"Pending", "Ready", "Failed"}
        <3>1. TypeOK'
            BY TypeNext
        <3>2. pods'[n] \in Pods
            BY <2>1, <3>1 DEF TypeOK
        <3> QED BY <3>2 DEF Pods
    <2>5. ~PodFails(n)
        BY DEF PodFails
    <2> QED BY <2>1, <2>3, <2>4, <2>5 DEF Moves, Up
<1> QED BY <1>2, <1>3

LEMMA VolumesKept ==
    ASSUME MaxErrors = 0, TypeOK, FailureInv, [Next]_vars
    PROVE  VolumesInv'
<1>1. /\ StartInv /\ CreationInv /\ VolumesInv /\ UnhinderedInv /\ FoundsInv /\ KeptInv
      /\ OneDatabase
    BY DEF FailureInv, StartInv
<1>2. CASE Sync
    <2>1. UNCHANGED <<pods, claims, data>> /\ todo = << >>
        BY <1>2 DEF Sync, world, Idle
    <2>2. \A i \in 1..Len(todo) : FALSE
        BY <2>1
    <2>3. \A n \in Names : (claims'[n] # NoClaim /\ ~data'[n].db) =>
             pods'[n] # NoPod /\ ~pods'[n].term /\ pods'[n].phase = "Pending" /\ pods'[n].state = "cluster"
        BY <1>1, <2>1, <2>2 DEF VolumesInv, Up
    <2> QED BY <2>3 DEF VolumesInv, Up
<1>3. CASE ~Sync
    <2>1. SUFFICES ASSUME NEW n \in Names, claims'[n] # NoClaim, ~data'[n].db
                   PROVE  \/ Up(n)' /\ pods'[n].phase = "Pending" /\ pods'[n].state = "cluster"
                          \/ \E i \in 1..Len(todo') : /\ todo'[i].op = "createPod"
                                                      /\ todo'[i].pod = n
                                                      /\ todo'[i].new.state = "cluster"
        BY DEF VolumesInv
    <2>2. ClaimMoves(n) /\ Len(todo) \in Nat
        BY <1>3, ClaimsMove DEF TypeOK
    <2>3. ASSUME NEW e \in 1..Len(todo), todo[e].op = "createPod", todo[e].pod = n,
                 todo[e].new.state = "cluster"
          PROVE  \/ Up(n)' /\ pods'[n].phase = "Pending" /\ pods'[n].state = "cluster"
                 \/ \E i \in 1..Len(todo') : /\ todo'[i].op = "createPod"
                                             /\ todo'[i].pod = n
                                             /\ todo'[i].new.state = "cluster"
        <3>1. /\ e = Len(todo)
              /\ \/ todo' = todo
                 \/ todo # << >> /\ todo' = Tail(todo)
            BY <1>1, <1>3, <2>3, CreationLasts
        <3>2. CASE CallCreatePod
            <4>1. PICK x \in Names :
                     /\ 1 \in 1..Len(todo) /\ todo[1].op = "createPod" /\ todo[1].pod = x
                     /\ pods'[x] = todo[1].new
                BY <3>2, CreatedPod
            <4>2. 1 = e
                BY <1>1, <3>1, <4>1 DEF CreationInv
            <4>3. pods'[n] = todo[e].new /\ todo[e].new.phase = "Pending" /\ ~todo[e].new.term
                BY <1>1, <2>3, <4>1, <4>2 DEF CreationInv, UnhinderedInv
            <4>4. NoPod.phase # "Pending"
                BY DEF NoPod
            <4> QED BY <2>3, <4>3, <4>4 DEF Up
        <3>3. CASE todo' = todo
            BY <2>3, <3>3
        <3>4. CASE ~CallCreatePod /\ todo # << >> /\ todo' = Tail(todo)
            <4>1. CallCreateClaim \/ CallCreateBkp
                <5>1. todo' # todo
                    <6>1. Len(todo') = Len(todo) - 1
                        BY <3>4, PassStep DEF TodoLeft
                    <6> QED BY <2>2, <6>1
                <5> QED BY <1>1, <1>3, <2>3, <3>4, <5>1, CreationLasts
            <4>2. /\ Len(todo') = Len(todo) - 1 /\ todo[1] = Head(todo)
                  /\ \A i \in 1..Len(todo') : todo'[i] = todo[i + 1]
                BY <3>4, PassStep DEF TodoLeft
            <4>3. todo[1].op \in {"createClaim", "createBkp"}
                <5>1. Calls("createClaim") \/ Calls("createBkp")
                    BY <4>1 DEF CallCreateClaim, CallCreateBkp
                <5> QED BY <4>2, <5>1 DEF Calls
            <4>4. e # 1
                BY <2>3, <4>3
            <4>5. e - 1 \in 1..Len(todo') /\ todo'[e - 1] = todo[e]
                BY <2>2, <3>1, <4>2, <4>4
            <4> QED BY <2>3, <4>5
        <3> QED BY <3>1, <3>2, <3>3, <3>4
    <2>4. CASE claims[n] = NoClaim
        <3>1. CallCreateClaim /\ Head(todo).pod = n
            BY <2>1, <2>2, <2>4 DEF ClaimMoves
        <3>2. 1 \in 1..Len(todo) /\ todo[1].op = "createClaim" /\ todo[1].pod = n
            BY <3>1, FirstCall, TypeNumbers DEF CallCreateClaim
        <3> DEFINE e == Len(todo)
        <3>3. e \in 1..Len(todo) /\ todo[e].op = "createPod"
            BY <1>1, <2>2, <3>2 DEF UnhinderedInv
        <3>4. todo[e].pod = n /\ todo[e].new.state = "cluster"
            BY <1>1, <3>2, <3>3 DEF UnhinderedInv
        <3> QED BY <2>3, <3>3, <3>4
    <2>5. CASE claims[n] # NoClaim
        <3>1. FoundsRightly(n)
            BY <1>1 DEF FoundsInv, FoundsRightly
        <3>2. ~data[n].db
            <4>1. SUFFICES ASSUME data[n].db PROVE FALSE
                OBVIOUS
            <4>2. PodStarts(n)
                BY <2>1, <2>2, <4>1 DEF ClaimMoves
            <4> QED BY <1>1, <2>1, <3>1, <4>1, <4>2, StartsWithDatabase
        <3>3. CASE Up(n) /\ pods[n].phase = "Pending" /\ pods[n].state = "cluster"
            <4>1. ~PodStarts(n)
                BY <1>1, <2>1, <3>1, <3>3, StartsWithDatabase
            <4>2. n \notin Doomed
                BY <1>1, <3>3 DEF KeptInv
            <4> QED BY <1>3, <3>3, <4>1, <4>2, PendingStays
        <3> QED BY <1>1, <2>3, <2>5, <3>2, <3>3 DEF VolumesInv
    <2> QED BY <2>4, <2>5
<1> QED BY <1>2, <1>3

LEMMA NoneYetNext ==
    ASSUME "pods" \notin Lagging, "claims" \notin Lagging, SameVolumes, TypeOK, FailureInv,
           [Next]_vars
    PROVE  NothingYet'
<1>1. StartInv /\ RunningInv /\ CreationInv /\ NoSplit /\ VolumesInv /\ UnhinderedInv
    BY DEF FailureInv, StartInv
<1>2. SUFFICES ASSUME ~bootstrapped'
               PROVE  /\ patches' = << >> /\ Doomed' = {} /\ Discarded' = {}
                      /\ \A n \in Names :
                            /\ ~data'[n].db
                            /\ pods'[n] # NoPod =>
                                  /\ ~pods'[n].term /\ pods'[n].phase = "Pending"
                                  /\ pods'[n].state = "cluster"
    BY DEF NothingYet, Up
<1>3. /\ ~bootstrapped /\ patches = << >> /\ Doomed = {} /\ Discarded = {}
      /\ \A n \in Names :
            /\ ~data[n].db
            /\ pods[n] # NoPod => Up(n) /\ pods[n].phase = "Pending" /\ pods[n].state = "cluster"
    BY <1>2, FirstStart DEF FailureInv, NothingYet
<1>4. Primaries = {}
    BY <1>1, <1>3 DEF Primaries, RunningInv
<1>5. (\A i \in 1..Len(patches') : FALSE) => patches' = << >>
    <2>1. TypeOK'
        BY TypeNext
    <2>2. Len(patches') \in Nat /\ (Len(patches') = 0 => patches' = << >>)
        BY <2>1 DEF TypeOK
    <2> QED BY <2>2
<1>6. CASE Sync
    <2>1. UNCHANGED <<pods, data>> /\ Decided
        BY <1>1, <1>6, Decides DEF Sync, world
    <2>2. ReadySeen = {} /\ Cardinality(ReadySeen) = 0 /\ CachedSpec.replicas \in Nat \ {0}
        BY <1>1, <1>4, NothingReady, CachedType
    <2>3. \A i \in 1..Len(patches') : FALSE
        BY <2>1, <2>2 DEF Decided, SparesReady, Spares
    <2>4. ~(Cardinality(ReadySeen) >= CachedSpec.replicas)
        BY <2>2
    <2>5. Discarded' = {}
        BY <1>1, <1>6, <2>4, DiscardsUnused
    <2>6. ASSUME NEW n \in Doomed' PROVE FALSE
        <3>1. PICK victim, old : Takes(victim, old)
            BY <2>1, DecidedTakes
        <3>2. victim = NoMember /\ old = NoMember /\ n \in Names /\ n # NoMember
            BY <2>2, <3>1, NamesAssumption DEF Takes, Doomed
        <3>3. n \in UnreadySeen
            BY <3>1, <3>2 DEF Takes
        <3>4. pods[n] # NoPod
            BY <3>2, <3>3, PodsTrue DEF UnreadySeen, Up
        <3>5. pods[n].phase = "Pending"
            BY <1>3, <3>2, <3>4
        <3> QED BY <2>4, <3>1, <3>5 DEF Takes
    <2> QED BY <1>3, <1>5, <2>1, <2>3, <2>5, <2>6 DEF Up
<1>7. CASE ~Sync
    <2>1. \A i \in 1..Len(patches') : FALSE
        BY <1>3, <1>7, PassMoves DEF PatchesLeft
    <2>2. Doomed' = {} /\ Discarded' = {}
        BY <1>3, <1>7, DoomedShrinks
    <2>3. ASSUME NEW n \in Names, PodStarts(n) PROVE FALSE
        <3>1. pods[n].state = "cluster"
            BY <1>3, <2>3 DEF PodStarts, Startable
        <3> QED BY <1>2, <1>4, <2>3, <3>1 DEF PodStarts
    <2>4. \A n \in Names : ~data'[n].db
        BY <1>3, <1>7, <2>3, ClaimsMove DEF ClaimMoves
    <2>5. ASSUME NEW n \in Names, pods[n] # NoPod
          PROVE  pods'[n] # NoPod /\ ~pods'[n].term /\ pods'[n].phase = "Pending"
                 /\ pods'[n].state = "cluster"
        <3>1. Up(n) /\ pods[n].phase = "Pending" /\ pods[n].state = "cluster" /\ n \notin Doomed
            BY <1>3, <2>5
        <3>2. Up(n)' /\ pods'[n].phase = "Pending" /\ pods'[n].state = pods[n].state
            BY <1>7, <2>3, <3>1, PendingStays
        <3> QED BY <3>1, <3>2 DEF Up
    <2>6. ASSUME NEW n \in Names, pods[n] = NoPod, pods'[n] # NoPod
          PROVE  ~pods'[n].term /\ pods'[n].phase = "Pending" /\ pods'[n].state = "cluster"
        <3>1. CallCreatePod
            BY <1>7, <2>6, PodsMove DEF PodMoves, Moves
        <3>2. PICK x \in Names :
                 /\ 1 \in 1..Len(todo) /\ todo[1].op = "createPod" /\ todo[1].pod = x
                 /\ pods'[x] = todo[1].new /\ \A m \in Names : m # x => pods'[m] = pods[m]
            BY <3>1, CreatedPod
        <3>3. x = n
            BY <2>6, <3>2
        <3>4. ~todo[1].new.term /\ todo[1].new.phase = "Pending"
            BY <1>1, <3>2 DEF UnhinderedInv, CreationInv
        <3>5. todo[1].new.state = "cluster"
            <4>1. SUFFICES ASSUME todo[1].new.state # "cluster" PROVE FALSE
                OBVIOUS
            <4>2. todo[1].new.state = "standalone"
                <5>1. todo[1] \in Ops
                    BY <3>2 DEF TypeOK
                <5>2. todo[1].new \in Pods
                    BY <3>2, <5>1, OpType
                <5>3. todo[1].new.state \in {"cluster", "standalone"}
                    BY <5>2 DEF Pods
                <5> QED BY <4>1, <5>3
            <4>3. claims[n] # NoClaim
                BY <1>1, <3>2, <3>3, <4>2 DEF CreationInv
            <4>4. PICK i \in 1..Len(todo) : todo[i].op = "createPod" /\ todo[i].new.state = "cluster"
                BY <1>1, <1>3, <2>6, <4>3 DEF VolumesInv, Up
            <4>5. i = Len(todo) /\ 1 = Len(todo)
                BY <1>1, <3>2, <4>4 DEF CreationInv
            <4> QED BY <4>1, <4>4, <4>5
        <3> QED BY <3>2, <3>3, <3>4, <3>5
    <2> QED BY <1>5, <2>1, <2>2, <2>4, <2>5, <2>6
<1> QED BY <1>6, <1>7

LEMMA FoundsNext ==
    ASSUME "pods" \notin Lagging, "claims" \notin Lagging, TypeOK, FailureInv, [Next]_vars
    PROVE  FoundsInv'
<1>1. /\ StartInv /\ RunningInv /\ StandaloneInv /\ NoSplit /\ VolumesInv /\ UnhinderedInv
      /\ FoundsInv /\ (bootstrapped => Holders # {})
    BY DEF FailureInv, StartInv
<1>2. CASE Sync
    <2>1. UNCHANGED <<pods, data, bootstrapped>> /\ Decided /\ todo = << >>
        BY <1>1, <1>2, Decides DEF Sync, world, Idle
    <2>2. ASSUME NEW i \in 1..Len(todo'), todo'[i].op = "createPod", todo'[i].new.init, bootstrapped
          PROVE  data[todo'[i].pod].db
        <3>1. Creates /\ todo'[i].pod \in PodNames /\ ReadySeen = {}
            BY <2>1, <2>2, NewPodDecided
        <3>2. CachedClaims = claims /\ \A j \in 1..Len(todo) : FALSE
            BY <2>1 DEF CachedClaims
        <3>3. CASE UnusedClaims # {}
            <4>1. todo'[i].pod \in UnusedClaims
                BY <3>1, <3>3 DEF PodNames
            <4>2. todo'[i].pod \in Names /\ claims[todo'[i].pod] # NoClaim /\ ~Up(todo'[i].pod)
                BY <3>2, <4>1, PodsTrue DEF UnusedClaims
            <4> QED BY <1>1, <3>2, <4>2 DEF VolumesInv
        <3>4. CASE UnusedClaims = {}
            <4>1. PICK h \in Holders : TRUE
                BY <1>1, <2>2
            <4>2. h \in Names /\ claims[h] # NoClaim /\ (pods[h] # NoPod => Useful(pods[h]))
                BY <4>1 DEF Holders
            <4>3. h \in Live /\ Up(h) /\ pods[h] # NoPod /\ Useful(pods[h])
                BY <3>2, <3>4, <4>2, PodsTrue DEF UnusedClaims, Up
            <4>4. h \notin PrimaryPods
                BY <3>1, <4>3 DEF ReadySeen
            <4>5. pods[h].phase = "Ready" /\ pods[h].rev = claims[h].rev
                BY <3>1, <4>3, <4>4 DEF Creates, UnreadySeen
            <4>6. pods[h].state # "standalone"
                BY <1>1, <4>2, <4>3, <4>5 DEF StandaloneInv
            <4>7. pods[h].state = "cluster"
                <5>1. pods[h] \in Pods
                    BY <4>2, <4>3 DEF TypeOK
                <5> QED BY <4>6, <5>1 DEF Pods
            <4>8. pods[h].wsrep = "Primary"
                BY <1>1, <4>2, <4>3, <4>5, <4>7 DEF NoSplit
            <4> QED BY <4>2, <4>3, <4>4, <4>5, <4>8, PodsTrue
        <3> QED BY <3>3, <3>4
    <2>3. \A i \in 1..Len(todo') : (todo'[i].op = "createPod" /\ todo'[i].new.init) =>
             ~bootstrapped' \/ data'[todo'[i].pod].db
        BY <2>1, <2>2
    <2>4. \A n \in Names : (Up(n)' /\ pods'[n].phase = "Pending" /\ pods'[n].init) =>
             ~bootstrapped' \/ data'[n].db
        BY <1>1, <2>1 DEF FoundsInv, Up
    <2> QED BY <2>3, <2>4 DEF FoundsInv
<1>3. CASE CallCreatePod
    <2>1. PICK x \in Names :
             /\ 1 \in 1..Len(todo) /\ todo[1].op = "createPod" /\ todo[1].pod = x
             /\ pods'[x] = todo[1].new /\ \A n \in Names : n # x => pods'[n] = pods[n]
        BY <1>3, CreatedPod
    <2>2. UNCHANGED <<bootstrapped, data>> /\ todo' = << >>
        BY <1>1, <1>3, StartCreate DEF CallCreatePod
    <2>3. \A i \in 1..Len(todo') : FALSE
        BY <2>2
    <2>4. ASSUME NEW n \in Names, Up(n)', pods'[n].phase = "Pending", pods'[n].init
          PROVE  ~bootstrapped \/ data[n].db
        <3>1. CASE n = x
            BY <1>1, <2>1, <2>4, <3>1 DEF FoundsInv
        <3>2. CASE n # x
            BY <1>1, <2>1, <2>4, <3>2 DEF FoundsInv, Up
        <3> QED BY <3>1, <3>2
    <2> QED BY <2>2, <2>3, <2>4 DEF FoundsInv
<1>4. CASE ~Sync /\ ~CallCreatePod /\ \E x \in Names : PodStarts(x)
    <2>1. PICK x \in Names : PodStarts(x)
        BY <1>4
    <2> QED BY <1>1, <2>1, FounderAlone DEF FoundsInv
<1>5. CASE ~Sync /\ ~CallCreatePod /\ ~\E x \in Names : PodStarts(x)
    <2>1. bootstrapped' => bootstrapped
        BY <1>5, FirstStart
    <2>2. PICK k \in Nat : TodoLeft(k)
        BY <1>5, PassGoesOn
    <2>3. Len(todo) \in Nat
        BY DEF TypeOK
    <2>4. \A i \in 1..Len(todo') : i + k \in 1..Len(todo) /\ todo'[i] = todo[i + k]
        BY <2>2, <2>3 DEF TodoLeft
    <2>5. \A n \in Names : ClaimMoves(n) /\ ~PodStarts(n)
        BY <1>5, ClaimsMove
    <2>6. ASSUME NEW n \in Names, Up(n)', pods'[n].phase = "Pending", pods'[n].init
          PROVE  ~bootstrapped' \/ data'[n].db
        <3>1. Up(n) /\ pods[n].phase = "Pending" /\ pods[n].init
            BY <1>5, <2>6, StartingKept
        <3>2. ~bootstrapped \/ data[n].db
            BY <1>1, <3>1 DEF FoundsInv
        <3>3. pods[n] # NoPod
            BY <3>1 DEF Up
        <3> QED BY <2>1, <2>5, <3>2, <3>3 DEF ClaimMoves
    <2>7. ASSUME NEW i \in 1..Len(todo'), todo'[i].op = "createPod", todo'[i].new.init
          PROVE  ~bootstrapped' \/ data'[todo'[i].pod].db
        <3> DEFINE e == i + k
                   n == todo[e].pod
        <3>1. e \in 1..Len(todo) /\ todo'[i] = todo[e]
            BY <2>4
        <3> HIDE DEF e
        <3>2. todo[e].op = "createPod" /\ todo[e].new.init
            BY <2>7, <3>1
        <3>3. /\ ~bootstrapped \/ data[n].db
              /\ claims[n] # NoClaim => ~claims[n].term
            BY <1>1, <3>1, <3>2 DEF FoundsInv, UnhinderedInv
        <3>4. n \in Names
            <4>1. todo[e] \in Ops
                BY <3>1 DEF TypeOK
            <4> QED BY <4>1, OpType
        <3>5. ~bootstrapped' \/ data'[n].db
            BY <2>1, <2>5, <3>3, <3>4 DEF ClaimMoves
        <3> QED BY <3>1, <3>5
    <2> QED BY <2>6, <2>7 DEF FoundsInv
<1> QED BY <1>2, <1>3, <1>4, <1>5

(* The nodes that a pass counts, before it has patched any. *)
LEMMA CountsReady ==
    ASSUME "pods" \notin Lagging, TypeOK, RunningInv, NoSplit, patches = << >>
    PROVE  CountedPods = ReadySeen
<1>1. \A i \in 1..Len(patches) : FALSE
    OBVIOUS
<1> QED BY <1>1, ReadyServes DEF CountedPods, ReadyPods

LEMMA KeptNext ==
    ASSUME "pods" \notin Lagging, "claims" \notin Lagging, SameVolumes, TypeOK, FailureInv,
           [Next]_vars
    PROVE  KeptInv'
<1>1. StartInv /\ RunningInv /\ NoSplit /\ UnhinderedInv /\ KeptInv /\ RoomInv
    BY DEF FailureInv, StartInv
<1>2. CASE Sync
    <2>1. UNCHANGED <<pods, claims>> /\ patches = << >> /\ Decided
        BY <1>1, <1>2, Decides DEF Sync, world, Idle
    <2>2. ASSUME NEW n \in Names, Up(n), pods[n].phase = "Pending", n \in Doomed' PROVE FALSE
        <3>1. Cardinality(CountedPods) < CachedSpec.replicas
            BY <1>1, <2>2 DEF RoomInv, SomeStarts
        <3>2. Cardinality(ReadySeen) < CachedSpec.replicas
            BY <1>1, <2>1, <3>1, CountsReady
        <3>3. Cardinality(ReadySeen) >= CachedSpec.replicas
            BY <2>1, <2>2, DecidedTakes DEF Takes
        <3>4. Cardinality(ReadySeen) \in Nat /\ CachedSpec.replicas \in Nat
            <4>1. ReadySeen \subseteq Names
                BY PodsTrue DEF ReadySeen
            <4> QED BY <4>1, Countable, CachedType
        <3> QED BY <3>2, <3>3, <3>4
    <2>3. \A n \in Discarded' : ~Up(n)
        BY <1>1, <1>2, DiscardsUnused
    <2>4. \A n \in Names : Up(n)' <=> Up(n)
        BY <2>1 DEF Up
    <2> QED BY <1>1, <2>1, <2>2, <2>3, <2>4 DEF KeptInv
<1>3. CASE CallCreatePod
    <2>1. PICK x \in Names :
             /\ 1 \in 1..Len(todo) /\ todo[1].op = "createPod" /\ todo[1].pod = x
             /\ \A n \in Names : n # x => pods'[n] = pods[n]
        BY <1>3, CreatedPod
    <2>2. UNCHANGED claims /\ todo' = << >>
        BY <1>1, <1>3, StartCreate DEF CallCreatePod
    <2>3. \A i \in 1..Len(todo') : FALSE
        BY <2>2
    <2>4. Doomed' = {} /\ Discarded' = {}
        BY <2>3 DEF Doomed, Discarded
    <2>5. claims[x] # NoClaim => ~claims[x].term
        BY <1>1, <2>1 DEF UnhinderedInv
    <2>6. \A n \in Names : n # x => (Up(n)' => Up(n))
        BY <2>1 DEF Up
    <2>7. \A n \in Names : (Up(n)' /\ claims[n] # NoClaim) => ~claims[n].term
        BY <1>1, <2>5, <2>6 DEF KeptInv
    <2> QED BY <2>2, <2>4, <2>7 DEF KeptInv
<1>4. CASE ~Sync /\ ~CallCreatePod
    <2>1. Doomed' \subseteq Doomed /\ Discarded' \subseteq Discarded
        BY <1>4, DoomedShrinks
    <2>2. ASSUME NEW n \in Names, Up(n)'
          PROVE  /\ n \notin Discarded'
                 /\ claims'[n] # NoClaim => ~claims'[n].term
                 /\ pods'[n].phase = "Pending" => n \notin Doomed'
        <3>1. Up(n) /\ (pods'[n].phase = "Pending" => pods[n].phase = "Pending")
            BY <1>4, <2>2, PodsMove DEF PodMoves, Moves, Up
        <3>2. ClaimMoves(n)
            BY <1>4, ClaimsMove
        <3>3. ~(CallDeleteClaim /\ Head(todo).pod = n)
            <4>1. SUFFICES ASSUME CallDeleteClaim, Head(todo).pod = n PROVE FALSE
                OBVIOUS
            <4>2. 1 \in 1..Len(todo) /\ todo[1].op = "deleteClaim" /\ todo[1].pod = n
                BY <4>1, FirstCall, TypeNumbers DEF CallDeleteClaim
            <4>3. n \in Discarded
                BY <4>2 DEF Discarded
            <4> QED BY <1>1, <3>1, <4>3 DEF KeptInv
        <3>4. claims[n] # NoClaim => ~claims[n].term
            BY <1>1, <3>1 DEF KeptInv
        <3>5. claims'[n] # NoClaim => ~claims'[n].term
            BY <3>2, <3>3, <3>4 DEF ClaimMoves
        <3> QED BY <1>1, <2>1, <3>1, <3>5 DEF KeptInv
    <2> QED BY <2>2 DEF KeptInv
<1> QED BY <1>2, <1>3, <1>4

LEMMA ReplicasGrow ==
    ASSUME OnlyGrows, TypeOK, [Next]_vars, CachedSpec.replicas <= spec.replicas
    PROVE  /\ CachedSpec'.replicas <= spec'.replicas
           /\ CachedSpec'.replicas >= CachedSpec.replicas
<1>1. /\ spec \in [rev : Revs, replicas : Nat \ {0}, gen : Nat]
      /\ CachedSpec.replicas \in Nat /\ spec.replicas \in Nat
    BY CachedType DEF TypeOK
<1>2. spec' # spec => UserEdits \/ UserScales
    BY DEF Next, Sync, Call, SyncFails, Environment, PatchPodLabels, CallDeletePod,
        CallCreatePod, CallCheckSynced, CallMysqlUpgrade, CallPatchClaim, CallCreateClaim,
        CallDeleteClaim, CallCreateBkp, CallDeleteBkp, CallRefused, UpdateStatus, PodStarts,
        PodIsGone, ClaimIsGone, PodFails, LosesPrimary, RegainsPrimary, InformerCatchesUp,
        world, vars
<1>3. ASSUME UserEdits PROVE spec'.replicas = spec.replicas
    BY <1>1, <1>3 DEF UserEdits
<1>4. ASSUME UserScales PROVE spec'.replicas >= spec.replicas /\ spec'.replicas \in Nat
    BY <1>1, <1>4, SizeAssumption DEF UserScales, OnlyGrows
<1>5. spec'.replicas >= spec.replicas /\ spec'.replicas \in Nat
    BY <1>1, <1>2, <1>3, <1>4
<1>6. CachedSpec'.replicas = CachedSpec.replicas \/ CachedSpec'.replicas = spec'.replicas
    BY CacheSteps DEF CacheStep
<1> QED BY <1>1, <1>5, <1>6

(* While a pod starts no other node becomes Primary: fewer are counted. *)
LEMMA CountedShrinks ==
    ASSUME TypeOK, RunningInv, CreationInv, NoSplit, [Next]_vars, ~Sync,
           ~\E x \in Names : PodStarts(x)
    PROVE  CountedPods' \subseteq CountedPods
<1>1. SUFFICES ASSUME NEW n \in CountedPods' PROVE n \in CountedPods
    OBVIOUS
<1>2. /\ n \in Names /\ n \in Primaries' /\ pods'[n] # NoPod /\ ~pods'[n].term
      /\ Useful(pods'[n]) \/ \E i \in 1..Len(patches') : patches'[i].pod = n
    BY DEF CountedPods, Serving, Primaries
<1>3. n \in Primaries
    BY <1>2, NewPrimary
<1>4. pods[n] # NoPod
    BY <1>3 DEF Primaries
<1>5. CASE CallCreatePod
    <2>1. PICK x \in Names : pods[x] = NoPod /\ \A m \in Names : m # x => pods'[m] = pods[m]
        BY <1>5, CreatedPod
    <2>2. pods'[n] = pods[n]
        BY <1>2, <1>4, <2>1
    <2>3. n \in Serving
        BY <1>2, <1>3, <2>2 DEF Serving
    <2>4. PatchesLeft
        BY PassMoves
    <2>5. Useful(pods[n]) \/ \E i \in 1..Len(patches) : patches[i].pod = n
        BY <1>2, <2>2, <2>4 DEF PatchesLeft
    <2> QED BY <2>3, <2>5 DEF CountedPods
<1>6. CASE ~CallCreatePod
    <2>1. Moves(n) /\ PatchesLeft
        BY <1>2, <1>6, PodsMove, PassMoves DEF PodMoves
    <2>2. n \in Serving
        BY <1>2, <1>3, <2>1 DEF Serving, Moves
    <2>3. CASE \E i \in 1..Len(patches') : patches'[i].pod = n
        BY <2>1, <2>2, <2>3 DEF PatchesLeft, CountedPods
    <2>4. CASE Useful(pods'[n])
        <3>1. CASE LabelsOf(pods'[n]) = LabelsOf(pods[n])
            <4>1. Useful(pods[n])
                BY <2>4, <3>1 DEF LabelsOf, Useful
            <4> QED BY <2>2, <4>1 DEF CountedPods
        <3>2. CASE LabelsOf(pods'[n]) # LabelsOf(pods[n])
            <4>1. patches # << >> /\ Head(patches).pod = n
                BY <2>1, <3>2 DEF Moves, PatchPodLabels
            <4>2. 1 \in 1..Len(patches) /\ patches[1].pod = n
                BY <4>1 DEF TypeOK
            <4> QED BY <2>2, <4>2 DEF CountedPods
        <3> QED BY <3>1, <3>2
    <2> QED BY <1>2, <2>3, <2>4
<1> QED BY <1>5, <1>6

LEMMA RoomNext ==
    ASSUME "pods" \notin Lagging, "claims" \notin Lagging, OnlyGrows, TypeOK, FailureInv,
           [Next]_vars
    PROVE  RoomInv'
<1>1. /\ StartInv /\ RunningInv /\ CreationInv /\ NoSplit /\ RoomInv
      /\ CachedSpec.replicas <= spec.replicas
    BY DEF FailureInv, StartInv
<1>2. SUFFICES ASSUME SomeStarts' PROVE Cardinality(CountedPods') < CachedSpec'.replicas
    BY DEF RoomInv, SomeStarts
<1>3. SomeStarts => Cardinality(CountedPods) < CachedSpec.replicas
    BY <1>1 DEF RoomInv, SomeStarts
<1>4. /\ CachedSpec'.replicas >= CachedSpec.replicas
      /\ CachedSpec.replicas \in Nat /\ CachedSpec'.replicas \in Nat
    <2>1. CachedSpec'.replicas >= CachedSpec.replicas /\ CachedSpec.replicas \in Nat
        BY <1>1, ReplicasGrow, CachedType
    <2>2. CachedSpec' \in [rev : Revs, replicas : Nat \ {0}, gen : Nat]
        <3>1. TypeOK'
            BY TypeNext
        <3> QED BY <3>1 DEF TypeOK, CachedSpec
    <2> QED BY <2>1, <2>2
<1>5. /\ Cardinality(CountedPods) \in Nat
      /\ CountedPods' \subseteq CountedPods => Cardinality(CountedPods') <= Cardinality(CountedPods)
      /\ CountedPods' \subseteq ReadySeen => Cardinality(CountedPods') <= Cardinality(ReadySeen)
      /\ Cardinality(CountedPods') \in Nat /\ Cardinality(ReadySeen) \in Nat
    <2> DEFINE S == CountedPods'
               T == CountedPods
    <2>1. S \in SUBSET Names /\ T \in SUBSET Names /\ ReadySeen \in SUBSET Names
        BY PodsTrue DEF CountedPods, Serving, Primaries, ReadySeen
    <2> HIDE DEF S, T
    <2>2. /\ S \subseteq T => Cardinality(S) <= Cardinality(T)
          /\ S \subseteq ReadySeen => Cardinality(S) <= Cardinality(ReadySeen)
        BY <2>1, Counting
    <2>3. Cardinality(S) \in Nat /\ Cardinality(T) \in Nat /\ Cardinality(ReadySeen) \in Nat
        BY <2>1, Countable
    <2> QED BY <2>2, <2>3 DEF S, T
<1>6. CASE Sync
    <2>1. UNCHANGED <<pods, spec, seen>> /\ patches = << >> /\ Decided
        BY <1>1, <1>6, Decides DEF Sync, world, Idle
    <2>2. CachedSpec' = CachedSpec
        BY <2>1 DEF CachedSpec
    <2>3. ReadyPods = ReadySeen /\ CountedPods = ReadySeen
        BY <1>1, <2>1, ReadyServes, CountsReady
    <2>4. CountedPods' \subseteq ReadySeen
        <3>1. Serving' = Serving
            BY <2>1 DEF Serving, Primaries
        <3>2. \A i \in 1..Len(patches') : patches'[i].pod \in ReadySeen
            BY <2>1 DEF Decided, SparesReady, Spares
        <3> QED BY <2>1, <2>3, <3>1, <3>2 DEF CountedPods, ReadyPods
    <2>5. Cardinality(ReadySeen) < CachedSpec.replicas
        <3>1. CASE \E i \in 1..Len(todo') : todo'[i].op = "createPod"
            <4>1. Creates
                BY <2>1, <3>1, NewPodDecided
            <4> QED BY <4>1 DEF Creates
        <3>2. CASE ~\E i \in 1..Len(todo') : todo'[i].op = "createPod"
            <4>1. SomeStarts
                BY <1>2, <2>1, <3>2 DEF SomeStarts, Up
            <4> QED BY <1>3, <2>3, <4>1
        <3> QED BY <3>1, <3>2
    <2> QED BY <1>4, <1>5, <2>2, <2>4, <2>5
<1>7. CASE ~Sync
    <2>1. SomeStarts
        <3>1. CASE CallCreatePod
            BY <3>1, CreatedPod DEF SomeStarts
        <3>2. CASE ~CallCreatePod /\ \E n \in Names : Up(n)' /\ pods'[n].phase = "Pending"
            BY <1>7, <3>2, StartingKept DEF SomeStarts
        <3>3. CASE \E i \in 1..Len(todo') : todo'[i].op = "createPod"
            <4>1. PICK k \in Nat : TodoLeft(k)
                BY <1>7, PassGoesOn
            <4>2. Len(todo) \in Nat
                BY DEF TypeOK
            <4>3. \A i \in 1..Len(todo') : i + k \in 1..Len(todo) /\ todo'[i] = todo[i + k]
                BY <4>1, <4>2 DEF TodoLeft
            <4> QED BY <3>3, <4>3 DEF SomeStarts
        <3> QED BY <1>2, <3>1, <3>2, <3>3 DEF SomeStarts
    <2>2. ~\E x \in Names : PodStarts(x)
        BY <1>1, <1>2, FounderAlone DEF SomeStarts
    <2>3. CountedPods' \subseteq CountedPods
        BY <1>1, <1>7, <2>2, CountedShrinks
    <2> QED BY <1>3, <1>4, <1>5, <2>1, <2>3
<1> QED BY <1>6, <1>7

(* Of the ready nodes one at least keeps its labels. *)
LEMMA OneStaysUseful ==
    ASSUME TypeOK, ReadySeen \subseteq Names, ReadySeen # {}, SparesReady(patches')
    PROVE  \E r \in ReadySeen : StaysUseful(r)'
<1>1. PICK x : \A i \in 1..Len(patches') : Spares(patches'[i], x)
    BY DEF SparesReady
<1>2. CASE Cardinality(ReadySeen) > 2
    <2> DEFINE S == ReadySeen
    <2>1. S \in SUBSET Names /\ Cardinality(S) > 2 /\ NoMember \notin S
        BY <1>2, NamesAssumption
    <2> HIDE DEF S
    <2>2. \E y \in S : y # x /\ y # x /\ y # NoMember
        BY <2>1, OneIsLeft
    <2>3. PICK y \in ReadySeen : y # x
        BY <2>2 DEF S
    <2>4. \A i \in 1..Len(patches') : patches'[i].pod = y => Useful(patches'[i].labels)
        BY <1>1, <2>3 DEF Spares
    <2> QED BY <2>4 DEF StaysUseful
<1>3. CASE ~(Cardinality(ReadySeen) > 2)
    <2>1. \A i \in 1..Len(patches') : Useful(patches'[i].labels)
        BY <1>1, <1>3 DEF Spares
    <2> QED BY <2>1 DEF StaysUseful
<1> QED BY <1>2, <1>3

LEMMA HoldersSync ==
    ASSUME "pods" \notin Lagging, "claims" \notin Lagging, SameVolumes, TypeOK, FailureInv, Sync,
           bootstrapped
    PROVE  Holders' # {}
<1>1. StartInv /\ RunningInv /\ NoSplit /\ KeptInv /\ OneDatabase /\ Holders # {}
    BY DEF FailureInv, StartInv
<1>2. UNCHANGED <<pods, claims, data>> /\ Decided
    BY <1>1, Decides DEF Sync, world
<1>3. ReadySeen = ReadyPods /\ ReadySeen \subseteq Names
    BY <1>1, ReadyServes DEF ReadyPods, Serving, Primaries
<1>4. CASE ReadySeen = {}
    <2>1. PICK h \in Holders : TRUE
        BY <1>1
    <2>2. \A i \in 1..Len(patches') : FALSE
        BY <1>2, <1>4 DEF Decided, SparesReady, Spares
    <2>3. Cardinality(ReadySeen) = 0 /\ CachedSpec.replicas \in Nat \ {0}
        BY <1>4, FS_EmptySet, CachedType
    <2>4. Discarded' = {}
        <3>1. ~(Cardinality(ReadySeen) >= CachedSpec.replicas)
            BY <2>3
        <3> QED BY <1>1, <3>1, DiscardsUnused
    <2>5. h \in Holders'
        BY <1>2, <2>1, <2>2, <2>4 DEF Holders, StaysUseful
    <2> QED BY <2>5
<1>5. CASE ReadySeen # {}
    <2>1. PICK r \in ReadySeen : StaysUseful(r)'
        BY <1>2, <1>3, <1>5, OneStaysUseful DEF Decided
    <2>2. /\ r \in Names /\ r \in Primaries /\ pods[r] # NoPod /\ ~pods[r].term
          /\ pods[r].wsrep = "Primary" /\ Useful(pods[r])
        BY <1>3, <2>1 DEF ReadyPods, Serving, Primaries
    <2>3. claims[r] # NoClaim /\ data[r].db
        BY <1>1, <2>2 DEF RunningInv, OneDatabase
    <2>4. Up(r)
        BY <2>2 DEF Up
    <2>5. ~claims[r].term
        BY <1>1, <2>2, <2>3, <2>4 DEF KeptInv
    <2>6. r \notin Discarded'
        BY <1>1, <2>4, DiscardsUnused
    <2>7. r \in Holders'
        BY <1>2, <2>1, <2>2, <2>3, <2>5, <2>6 DEF Holders
    <2> QED BY <2>7
<1> QED BY <1>4, <1>5

LEMMA HoldersNext ==
    ASSUME "pods" \notin Lagging, "claims" \notin Lagging, SameVolumes, TypeOK, FailureInv,
           [Next]_vars, bootstrapped'
    PROVE  Holders' # {}
<1>1. StartInv /\ StartingInv /\ FoundsInv /\ OneDatabase
    BY DEF FailureInv, StartInv
<1>2. \A n \in Names : FoundsRightly(n)
    BY <1>1 DEF FoundsInv, FoundsRightly
<1>3. CASE Sync
    <2>1. bootstrapped
        BY <1>3 DEF Sync, world
    <2> QED BY <1>3, <2>1, HoldersSync
<1>4. CASE ~Sync /\ bootstrapped
    <2>1. PICK h \in Holders : TRUE
        BY <1>4 DEF FailureInv
    <2>2. /\ h \in Names /\ h \notin Discarded /\ claims[h] # NoClaim /\ ~claims[h].term
          /\ data[h].db /\ (pods[h] # NoPod => Useful(pods[h])) /\ StaysUseful(h)
        BY <2>1 DEF Holders
    <2>3. h \notin Discarded'
        BY <1>4, <2>2, DoomedShrinks
    <2>4. ClaimMoves(h)
        BY <1>4, <2>2, ClaimsMove
    <2>5. claims'[h] # NoClaim /\ ~claims'[h].term
        <3>1. ~(CallDeleteClaim /\ Head(todo).pod = h)
            <4>1. SUFFICES ASSUME CallDeleteClaim, Head(todo).pod = h PROVE FALSE
                OBVIOUS
            <4>2. 1 \in 1..Len(todo) /\ todo[1].op = "deleteClaim" /\ todo[1].pod = h
                BY <4>1, FirstCall, TypeNumbers DEF CallDeleteClaim
            <4> QED BY <2>2, <4>2 DEF Discarded
        <3> QED BY <2>2, <2>4, <3>1 DEF ClaimMoves
    <2>6. data'[h].db
        BY <1>1, <1>2, <2>2, <2>4, <2>5, StartsWithDatabase DEF ClaimMoves
    <2>7. StaysUseful(h)'
        BY <1>4, <2>2, UsefulKept
    <2>8. pods'[h] # NoPod => Useful(pods'[h])
        <3>1. CASE pods[h] # NoPod
            BY <1>4, <2>2, <3>1, UsefulKept
        <3>2. CASE pods[h] = NoPod /\ pods'[h] # NoPod
            <4>1. CallCreatePod
                BY <1>4, <2>2, <3>2, PodsMove DEF PodMoves, Moves
            <4>2. PICK x \in Names :
                     /\ 1 \in 1..Len(todo) /\ todo[1].op = "createPod"
                     /\ pods'[x] = todo[1].new /\ \A m \in Names : m # x => pods'[m] = pods[m]
                BY <4>1, CreatedPod
            <4>3. x = h
                BY <2>2, <3>2, <4>2
            <4> QED BY <1>1, <4>2, <4>3 DEF StartingInv
        <3> QED BY <3>1, <3>2
    <2>9. h \in Holders'
        BY <2>2, <2>3, <2>5, <2>6, <2>7, <2>8 DEF Holders
    <2> QED BY <2>9
<1>5. CASE ~Sync /\ ~bootstrapped
    <2>1. PICK n \in Names : PodStarts(n) /\ pods[n].state = "cluster" /\ pods[n].init
        BY <1>5, FirstStart
    <2>2. /\ Up(n) /\ pods[n].phase = "Pending" /\ claims[n] # NoClaim /\ ~claims[n].term
          /\ UNCHANGED <<claims, todo, patches>> /\ patches = << >> /\ Discarded = {}
        BY <1>5, <2>1 DEF PodStarts, Startable, Up, pass, FailureInv, NothingYet
    <2>3. data'[n].db
        BY <1>1, <1>2, <2>1, StartsWithDatabase
    <2>4. Useful(pods[n])
        BY <1>1, <2>2 DEF StartingInv
    <2>5. StaysUseful(n) /\ StaysUseful(n)'
        BY <2>2 DEF StaysUseful
    <2>6. pods[n] # NoPod /\ (pods'[n] # NoPod => Useful(pods'[n]))
        BY <1>5, <2>2, <2>4, <2>5, UsefulKept DEF Up
    <2>7. n \notin Discarded'
        BY <2>2 DEF Discarded
    <2>8. n \in Holders'
        BY <2>2, <2>3, <2>5, <2>6, <2>7 DEF Holders
    <2> QED BY <2>8
<1> QED BY <1>3, <1>4, <1>5

(* When no pass is cut short, the volume requirements stay as they are and *)
(* the user asks for no fewer nodes, the database survives any failures of *)
(* its nodes, of all of them too: some volume that is not being deleted    *)
(* holds it, and no node founds another one.                               *)
THEOREM SurvivesFailures ==
    ASSUME "pods" \notin Lagging, "claims" \notin Lagging, MaxErrors = 0, MaxPartitions = 0,
           SameVolumes, OnlyGrows
    PROVE  Spec => [](FailureInv /\ OneDatabase /\ LastCopyKept)
<1>1. ASSUME Init PROVE FailureInv
    <2>1. StartInv
        BY <1>1, StartInit
    <2>2. spec.replicas = InitReplicas /\ CachedSpec.replicas = InitReplicas
        BY <1>1 DEF Init, Spec0, CachedSpec
    <2>3. /\ \A n \in Names : pods[n] = NoPod /\ claims[n] = NoClaim /\ ~data[n].db
          /\ \A i \in 1..Len(todo) : FALSE
          /\ \A i \in 1..Len(patches) : FALSE
          /\ ~bootstrapped /\ patches = << >>
        BY <1>1 DEF Init, NoData
    <2>4. NoSplit /\ OneDatabase /\ StartingInv
        BY <2>3 DEF NoSplit, OneDatabase, Primaries, StartingInv, Up
    <2>5. Doomed = {} /\ Discarded = {}
        BY <2>3 DEF Doomed, Discarded
    <2>6. VolumesInv /\ UnhinderedInv /\ NothingYet
        BY <2>3, <2>5 DEF VolumesInv, UnhinderedInv, NothingYet
    <2>7. FoundsInv /\ KeptInv /\ RoomInv
        BY <2>3 DEF FoundsInv, KeptInv, RoomInv, SomeStarts, Up
    <2> QED BY <2>1, <2>2, <2>3, <2>4, <2>6, <2>7, SizeAssumption DEF FailureInv
<1>2. ASSUME TypeOK, FailureInv, [Next]_vars PROVE FailureInv'
    <2>1. /\ StartInv /\ RunningInv /\ CreationInv /\ NoSplit /\ StartingInv /\ UnhinderedInv
          /\ OneDatabase /\ CachedSpec.replicas <= spec.replicas
          /\ \A n \in Names : FoundsRightly(n)
        BY <1>2 DEF FailureInv, StartInv, FoundsInv, FoundsRightly
    <2>2. ~bootstrapped => Primaries = {}
        BY <1>2, <2>1 DEF FailureInv, NothingYet, Primaries, RunningInv
    <2>3. StartInv' /\ NoSplit' /\ StartingInv'
        BY <1>2, <2>1, <2>2, StartNext, SplitNext, StartingNext
    <2>4. VolumesInv' /\ UnhinderedInv' /\ NothingYet'
        BY <1>2, <2>1, VolumesKept, UnhinderedNext, NoneYetNext
    <2>5. FoundsInv' /\ KeptInv' /\ RoomInv'
        BY <1>2, FoundsNext, KeptNext, RoomNext
    <2>6. CachedSpec'.replicas <= spec'.replicas
        BY <1>2, <2>1, ReplicasGrow
    <2>7. bootstrapped' => Holders' # {}
        BY <1>2, HoldersNext
    <2>8. OneDatabase'
        BY <1>2, <2>1, DatabaseNext
    <2> QED BY <2>3, <2>4, <2>5, <2>6, <2>7, <2>8 DEF FailureInv
<1>3. FailureInv => OneDatabase /\ LastCopyKept
    BY DEF FailureInv, LastCopyKept, Holders
<1> QED BY <1>1, <1>2, <1>3, TypeCorrect, PTL DEF Spec

-----------------------------------------------------------------------------
(***************************************************************************)
(* Every node that serves is behind a service, with three replicas or      *)
(* fewer.                                                                  *)
(***************************************************************************)

(* The Writer and the BackupWriter that a pass finds, when there is one,   *)
(* and who is demoted.                                                     *)
LEMMA ViewRoles ==
    ASSUME "pods" \notin Lagging, TypeOK, StartInv, NEW ord \in SetToSeqs(Listed)
    PROVE  /\ View(ord).members.writer \in WithRole("writer") \cup {NoMember}
           /\ View(ord).members.bkpWriter \in WithRole("backup-writer") \cup {NoMember}
           /\ WithRole("writer") # {} => View(ord).members.writer # NoMember
           /\ WithRole("backup-writer") # {} => View(ord).members.bkpWriter # NoMember
           /\ \A n \in View(ord).dups :
                 n \in WithRole("writer") \cup WithRole("backup-writer")
                    /\ n # View(ord).members.writer /\ n # View(ord).members.bkpWriter
<1> DEFINE bkp  == FirstIn(ord, Backups)
           stop == FirstIn(ord, (Backups \ {bkp}) \cup Silent)
           last == IF stop = NoMember THEN Len(ord) ELSE CHOOSE i \in DOMAIN ord : ord[i] = stop
           scan == {ord[i] : i \in 1..last}
           w    == FirstIn(ord, scan \cap WithRole("writer"))
           b    == FirstIn(ord, scan \cap WithRole("backup-writer"))
<1>1. /\ View(ord).stop = stop
      /\ View(ord).members.writer = w /\ View(ord).members.bkpWriter = b
      /\ View(ord).dups = scan \cap ((WithRole("writer") \ {w}) \cup (WithRole("backup-writer") \ {b}))
    BY DEF View
<1>2. IsFiniteSet(Listed) /\ NoMember \notin Listed
    BY Countable, NamesAssumption DEF Listed
<1>3. ord \in Seq(Listed) /\ \A n \in Listed : \E i \in 1..Len(ord) : ord[i] = n
    BY <1>2, ListingType, ListingCovers
<1>4. stop = NoMember
    BY <1>1, ViewTrue
<1>5. scan = Listed
    BY <1>3, <1>4, LenProperties
<1> HIDE DEF bkp, stop, last, scan
<1>6. \A role : WithRole(role) \subseteq Listed
    BY DEF WithRole, PrimaryPods, Asked, Live
<1>7. ASSUME NEW S \in SUBSET Listed
      PROVE  FirstIn(ord, S) \in S \cup {NoMember} /\ (S # {} => FirstIn(ord, S) # NoMember)
    <2>1. NoMember \notin S /\ FirstIn(ord, S) \in S \cup {NoMember}
        BY <1>2, <1>3, FirstInType
    <2>2. S # {} => \E i \in 1..Len(ord) : ord[i] \in S
        BY <1>3
    <2>3. S # {} => FirstIn(ord, S) \in S
        BY <1>3, <2>1, <2>2, FirstInType
    <2> QED BY <2>1, <2>3
<1>8. scan \cap WithRole("writer") = WithRole("writer")
      /\ scan \cap WithRole("backup-writer") = WithRole("backup-writer")
    BY <1>5, <1>6
<1>9. /\ w \in WithRole("writer") \cup {NoMember} /\ (WithRole("writer") # {} => w # NoMember)
      /\ b \in WithRole("backup-writer") \cup {NoMember}
      /\ (WithRole("backup-writer") # {} => b # NoMember)
    BY <1>6, <1>7, <1>8
<1> HIDE DEF w, b
<1>10. ASSUME NEW n \in View(ord).dups
       PROVE  n \in WithRole("writer") \cup WithRole("backup-writer") /\ n # w /\ n # b
    <2>1. n \in Listed /\ n # NoMember
        BY <1>1, <1>2, <1>5, <1>10
    <2>2. n \in WithRole("writer") \/ n \in WithRole("backup-writer")
        BY <1>1, <1>10
    <2>3. \A x \in WithRole("writer") : x \notin WithRole("backup-writer")
        BY DEF WithRole
    <2> QED BY <1>1, <1>9, <1>10, <2>1, <2>2, <2>3
<1> QED BY <1>1, <1>9, <1>10

(* A pass that calls the API at all starts with the label patches. *)
LEMMA LabelsSent ==
    ASSUME "pods" \notin Lagging, "claims" \notin Lagging, TypeOK, StartInv, Sync
    PROVE  \/ patches' = << >> /\ todo' = << >>
           \/ \E ord \in SetToSeqs(Listed) : \E d \in InOrder(ord, View(ord).dups) :
                 patches' = Labelling(View(ord), d).patches
<1>1. CachedPods = pods /\ CachedClaims = claims /\ CachedBkps = bkps
    BY DEF CachedPods, CachedClaims, CachedBkps
<1>2. NoMember \notin Listed /\ Silent \subseteq Listed /\ Backups \subseteq Listed
    BY NamesAssumption DEF Listed, Live, PrimaryPods, Asked, Silent, Backups
<1>3. PodsWithoutClaims = {}
    BY <1>1 DEF PodsWithoutClaims, Listed, IsHealthy, IsRunningAndReady, HasClaims, StartInv, RunningInv
<1>4. CASE SyncNew
    BY <1>4 DEF SyncNew, Decide
<1>5. ASSUME NEW ord \in SetToSeqs(Listed), NEW v, v = View(ord),
             NEW d \in InOrder(v.ord, v.dups), NEW l, l = Labelling(v, d),
             \/ SyncUnanswered(v, d) \/ SyncDeleteSecondBackup(v, d) \/ SyncLabelOnly(v, l)
             \/ SyncLost(v, l) \/ SyncCleanClaims(v, l) \/ SyncMysqlUpgrade(v, l)
             \/ SyncCheckUnready(v, l) \/ SyncCreatePod(v, l) \/ SyncTerminate(v, l)
      PROVE  d \in InOrder(ord, View(ord).dups) /\ patches' = Labelling(View(ord), d).patches
    <2>1. v.stop = NoMember /\ v.ord = ord
        BY <1>5, ViewTrue, ViewType
    <2>2. ~SyncUnanswered(v, d) /\ ~SyncDeleteSecondBackup(v, d)
        BY <1>2, <2>1 DEF SyncUnanswered, SyncDeleteSecondBackup
    <2>3. patches' = l.patches
        BY <1>5, <2>2 DEF SyncLabelOnly, SyncLost, SyncCleanClaims, SyncMysqlUpgrade,
            SyncCheckUnready, SyncCreatePod, SyncTerminate, Decide
    <2> QED BY <1>5, <2>1, <2>3
<1>6. CASE SyncRun
    <2>1. PICK ord \in SetToSeqs(Listed) :
             \E d \in InOrder(View(ord).ord, View(ord).dups) :
                LET v == View(ord)
                    l == Labelling(v, d)
                IN  \/ SyncUnanswered(v, d) \/ SyncDeleteSecondBackup(v, d) \/ SyncLabelOnly(v, l)
                    \/ SyncLost(v, l) \/ SyncCleanClaims(v, l) \/ SyncMysqlUpgrade(v, l)
                    \/ SyncCheckUnready(v, l) \/ SyncCreatePod(v, l) \/ SyncTerminate(v, l)
        BY <1>3, <1>6 DEF SyncRun, SyncDeletePodWithoutClaims
    <2> QED BY <1>5, <2>1
<1> QED BY <1>4, <1>6 DEF Sync

(* Patches that come before others. *)
LEMMA RolesAppended ==
    ASSUME NEW S, NEW a \in Seq(S), NEW c \in Seq(S), NEW P, NEW n, NEW role
    PROVE  /\ (LeavesRole(P, c, n, role) /\ \A i \in 1..Len(a) : a[i].pod # n)
                 => LeavesRole(P, a \o c, n, role)
           /\ EndsWithRole(c, n, role) => EndsWithRole(a \o c, n, role)
           /\ ((\A i \in 1..Len(a) : Useful(a[i].labels)) /\ \A i \in 1..Len(c) : Useful(c[i].labels))
                 => \A i \in 1..Len(a \o c) : Useful((a \o c)[i].labels)
<1> DEFINE s == a \o c
<1>1. /\ Len(a) \in Nat /\ Len(c) \in Nat /\ Len(s) = Len(a) + Len(c)
      /\ \A i \in 1..Len(s) : s[i] = IF i <= Len(a) THEN a[i] ELSE c[i - Len(a)]
    BY ConcatProperties, LenProperties
<1> HIDE DEF s
<1>2. ASSUME NEW i \in 1..Len(s)
      PROVE  \/ i \in 1..Len(a) /\ s[i] = a[i]
             \/ i - Len(a) \in 1..Len(c) /\ s[i] = c[i - Len(a)] /\ i > Len(a)
    BY <1>1
<1>3. ASSUME LeavesRole(P, c, n, role), \A i \in 1..Len(a) : a[i].pod # n
      PROVE  LeavesRole(P, s, n, role)
    BY <1>2, <1>3 DEF LeavesRole
<1>4. ASSUME EndsWithRole(c, n, role) PROVE EndsWithRole(s, n, role)
    <2>1. PICK i \in 1..Len(c) : /\ c[i].pod = n
                                 /\ \A j \in i..Len(c) : c[j].pod = n => c[j].labels.role = role
        BY <1>4 DEF EndsWithRole
    <2>2. i + Len(a) \in 1..Len(s) /\ s[i + Len(a)] = c[i]
        <3>1. i + Len(a) \in 1..Len(s) /\ ~(i + Len(a) <= Len(a)) /\ (i + Len(a)) - Len(a) = i
            BY <1>1, <2>1
        <3> QED BY <1>1, <3>1
    <2>3. ASSUME NEW j \in (i + Len(a))..Len(s), s[j].pod = n PROVE s[j].labels.role = role
        <3>1. j \in 1..Len(s) /\ j - Len(a) \in i..Len(c) /\ ~(j <= Len(a))
            BY <1>1, <2>1, <2>3
        <3>2. s[j] = c[j - Len(a)]
            BY <1>1, <3>1
        <3> QED BY <2>1, <2>3, <3>1, <3>2
    <2> QED BY <2>1, <2>2, <2>3 DEF EndsWithRole
<1>5. ASSUME \A i \in 1..Len(a) : Useful(a[i].labels), \A i \in 1..Len(c) : Useful(c[i].labels)
      PROVE  \A i \in 1..Len(s) : Useful(s[i].labels)
    BY <1>2, <1>5
<1> QED BY <1>3, <1>4, <1>5 DEF s

(* What the label patches of a pass are: demotions of pods that are        *)
(* neither the Writer nor the BackupWriter, then what setLabels sends.     *)
LEMMA LabelsMade ==
    ASSUME "pods" \notin Lagging, TypeOK, StartInv, NEW ord \in SetToSeqs(Listed),
           NEW d \in InOrder(ord, View(ord).dups)
    PROVE  LET m == View(ord).members
               c == SetLabels(pods, ord, ReadySeen, m).patches
           IN  \E a \in Seq(CachedPatches) :
                  /\ Labelling(View(ord), d).patches = a \o c
                  /\ c \in Seq(CachedPatches)
                  /\ \A i \in 1..Len(a) : /\ a[i].pod # m.writer /\ a[i].pod # m.bkpWriter
                                          /\ Useful(a[i].labels)
<1> DEFINE v == View(ord)
           m == v.members
           l == SetLabels(pods, ord, ReadySeen, m)
           a == Demotions(d)
<1>1. v \in Views /\ v.ord = ord /\ v.ready = ReadySeen /\ CachedPods = pods
      /\ \A n \in v.ready : \E i \in 1..Len(ord) : ord[i] = n
    BY ViewType, ViewTrue, PodsTrue
<1>2. /\ ord \in Seq(Listed) /\ ReadySeen \in SUBSET Listed /\ m \in Members(Listed)
      /\ v.dups \in SUBSET Listed
    <2> HIDE DEF v
    <2> QED BY <1>1 DEF Views
<1>3. IsFiniteSet(Listed) /\ NoMember \notin Listed /\ IsFiniteSet(v.dups)
    <2>1. Listed \in SUBSET Names /\ v.dups \in SUBSET Names
        BY <1>2 DEF Listed
    <2> QED BY <2>1, Countable, NamesAssumption
<1>4. \A n \in Listed : LabelsOf(pods[n]) \in LabelSets(Revs)
    BY <1>1, ListedType
<1>5. l \in [patches : Seq(CachedPatches), members : Members(Listed), ok : BOOLEAN]
    <2> DEFINE R == ReadySeen
    <2>1. R \in SUBSET Listed /\ \A n \in R : \E i \in 1..Len(ord) : ord[i] = n
        BY <1>1, <1>2
    <2> HIDE DEF m, R
    <2>2. SetLabels(pods, ord, R, m) \in
             [patches : Seq(PatchesOf(pods, Listed, Revs)), members : Members(Listed), ok : BOOLEAN]
        BY <1>2, <1>3, <1>4, <2>1, SetLabelsType
    <2> QED BY <1>1, <2>2 DEF CachedPatches, R
<1>6. Labelling(v, d) = [l EXCEPT !.patches = a \o l.patches]
    BY <1>1 DEF Labelling
<1>7. a \in Seq(CachedPatches)
    BY LabellingType
<1>8. d \in Seq(v.dups)
    BY <1>3, InOrderType
<1>9. Len(a) = Len(d) /\ Len(d) \in Nat /\ \A i \in 1..Len(d) : d[i] \in v.dups
    BY <1>8, LenProperties DEF Demotions
<1>10. ASSUME NEW i \in 1..Len(a)
       PROVE  a[i].pod # m.writer /\ a[i].pod # m.bkpWriter /\ Useful(a[i].labels)
    <2>1. a[i] = Patch(d[i], AddReader(RemoveRole(LabelsOf(CachedPods[d[i]]))))
        BY <1>9, <1>10 DEF Demotions
    <2>2. \A k : Useful(AddReader(RemoveRole(LabelsOf(k))))
        BY DEF Useful, AddReader, RemoveRole, LabelsOf
    <2>3. a[i].pod = d[i] /\ Useful(a[i].labels)
        BY <2>1, <2>2 DEF Patch
    <2>4. \A n \in v.dups : n # m.writer /\ n # m.bkpWriter
        BY ViewRoles
    <2>5. d[i] \in v.dups
        BY <1>9, <1>10
    <2> HIDE DEF a, v, m
    <2> QED BY <2>3, <2>4, <2>5
<1> HIDE DEF a, v, m, l
<1>11. Labelling(v, d).patches = a \o l.patches
    BY <1>5, <1>6
<1> QED BY <1>5, <1>7, <1>10, <1>11 DEF v, m, l

(* The patches of a pass leave every pod useful when there are two ready   *)
(* pods or fewer, or both roles are taken; roles that are both taken stay; *)
(* two ready pods have both in the end.                                    *)
LEMMA RolesSync ==
    ASSUME "pods" \notin Lagging, "claims" \notin Lagging, TypeOK, StartInv, Sync
    PROVE  LET both == WithRole("writer") # {} /\ WithRole("backup-writer") # {}
           IN  /\ Cardinality(ReadySeen) <= 2 \/ both =>
                     \A i \in 1..Len(patches') : Useful(patches'[i].labels)
               /\ both => \A role \in {"writer", "backup-writer"} :
                              \E n \in ReadySeen : LeavesRole(pods, patches', n, role)
               /\ Cardinality(ReadySeen) = 2 /\ todo' # << >> =>
                     \A role \in {"writer", "backup-writer"} :
                         \E n \in ReadySeen : \/ LeavesRole(pods, patches', n, role)
                                              \/ EndsWithRole(patches', n, role)
<1> DEFINE W == WithRole("writer")
           B == WithRole("backup-writer")
           k == Cardinality(ReadySeen)
<1>1. CachedPods = pods
    BY PodsTrue
<1>2. /\ W \subseteq ReadySeen /\ B \subseteq ReadySeen
      /\ (\A n \in W : pods[n].role = "writer") /\ (\A n \in B : pods[n].role = "backup-writer")
    BY <1>1 DEF WithRole, ReadySeen, Useful
<1>3. ReadySeen \in SUBSET Listed /\ Listed \in SUBSET Names /\ k \in Nat
      /\ IsFiniteSet(Listed) /\ NoMember \notin Listed
    <2>1. ReadySeen \in SUBSET Listed /\ Listed \in SUBSET Names
        BY DEF ReadySeen, PrimaryPods, Asked, Live, Listed
    <2> QED BY <2>1, Countable, NamesAssumption
<1>4. (W # {} /\ B # {}) => k > 1
    <2>1. SUFFICES ASSUME NEW x \in W, NEW y \in B PROVE k > 1
        OBVIOUS
    <2>2. x # y /\ x \in ReadySeen /\ y \in ReadySeen
        BY <1>2
    <2>3. {x, y} \in SUBSET ReadySeen /\ Cardinality({x, y}) = 2 /\ IsFiniteSet(ReadySeen)
        <3>1. IsFiniteSet(ReadySeen)
            BY <1>3, FS_Subset
        <3>2. {x, y} = {x} \cup {y} /\ y \notin {x}
            BY <2>2
        <3>3. IsFiniteSet({x}) /\ Cardinality({x}) = 1
            BY FS_Singleton
        <3>4. Cardinality({x} \cup {y}) = 2
            <4>1. Cardinality({x} \cup {y})
                    = IF y \in {x} THEN Cardinality({x}) ELSE Cardinality({x}) + 1
                BY <3>3, FS_AddElement
            <4> QED BY <3>2, <3>3, <4>1
        <3> QED BY <2>2, <3>1, <3>2, <3>4
    <2>4. Cardinality({x, y}) <= k
        BY <2>3, FS_Subset
    <2> QED BY <1>3, <2>3, <2>4
<1>5. CASE patches' = << >> /\ todo' = << >>
    <2>1. \A i \in 1..Len(patches') : FALSE
        BY <1>5
    <2>2. \A n : (n \in W => LeavesRole(pods, patches', n, "writer"))
                 /\ (n \in B => LeavesRole(pods, patches', n, "backup-writer"))
        BY <1>2, <2>1 DEF LeavesRole
    <2> HIDE DEF W, B, k
    <2> QED BY <1>2, <1>5, <2>1, <2>2 DEF W, B
<1>6. ASSUME NEW ord \in SetToSeqs(Listed), NEW d \in InOrder(ord, View(ord).dups),
             patches' = Labelling(View(ord), d).patches
      PROVE  /\ k <= 2 \/ (W # {} /\ B # {}) => \A i \in 1..Len(patches') : Useful(patches'[i].labels)
             /\ (W # {} /\ B # {}) => \A role \in {"writer", "backup-writer"} :
                                          \E n \in ReadySeen : LeavesRole(pods, patches', n, role)
             /\ k = 2 =>
                   \A role \in {"writer", "backup-writer"} :
                       \E n \in ReadySeen : \/ LeavesRole(pods, patches', n, role)
                                            \/ EndsWithRole(patches', n, role)
    <2> DEFINE m == View(ord).members
               c == SetLabels(pods, ord, ReadySeen, m).patches
               w == m.writer
               b == m.bkpWriter
    <2>1. PICK a \in Seq(CachedPatches) :
             /\ patches' = a \o c /\ c \in Seq(CachedPatches)
             /\ \A i \in 1..Len(a) : a[i].pod # w /\ a[i].pod # b /\ Useful(a[i].labels)
        BY <1>6, LabelsMade
    <2>2. /\ w \in W \cup {NoMember} /\ b \in B \cup {NoMember}
          /\ (W # {} => w # NoMember) /\ (B # {} => b # NoMember)
        BY ViewRoles
    <2>3. ord \in Seq(Listed) /\ \A n \in ReadySeen : \E i \in 1..Len(ord) : ord[i] = n
        BY <1>3, ListingType, ListingCovers
    <2> HIDE DEF m
    <2>4. k <= 2 => \A i \in 1..Len(patches') : Useful(patches'[i].labels)
        <3>1. SparesReady(patches')
            BY <1>6, LabellingTrue
        <3> QED BY <1>3, <3>1 DEF SparesReady, Spares
    <2>5. ASSUME W # {}, B # {}
          PROVE  /\ \A i \in 1..Len(c) : /\ c[i].pod = w /\ c[i].labels.role = "writer"
                                         /\ Useful(c[i].labels)
                 /\ w \in W /\ b \in B /\ w # b
        <3>1. w \in W /\ b \in B
            BY <2>2, <2>5
        <3>2. k > 1 /\ pods[w].role = "writer" /\ w # NoMember /\ b # NoMember /\ w # b
            BY <1>2, <1>4, <2>2, <2>5, <3>1
        <3>3. Cardinality(ReadySeen) \in Nat /\ Cardinality(ReadySeen) > 1
            BY <1>3, <3>2
        <3> DEFINE R == ReadySeen
        <3> HIDE DEF R
        <3>4. \A i \in 1..Len(SetLabels(pods, ord, R, m).patches) :
                 LET q == SetLabels(pods, ord, R, m).patches[i]
                 IN  q.pod = m.writer /\ q.labels.role = "writer" /\ Useful(q.labels)
            BY <3>2, <3>3, SetLabelsSettled DEF R
        <3> QED BY <3>1, <3>2, <3>4 DEF R
    <2>6. ASSUME W # {}, B # {}
          PROVE  /\ \A i \in 1..Len(patches') : Useful(patches'[i].labels)
                 /\ LeavesRole(pods, patches', w, "writer")
                 /\ LeavesRole(pods, patches', b, "backup-writer")
        <3>1. LeavesRole(pods, c, w, "writer") /\ LeavesRole(pods, c, b, "backup-writer")
            <4> HIDE DEF c, w, b
            <4> QED BY <1>2, <2>5, <2>6 DEF LeavesRole
        <3> HIDE DEF c, w, b, W, B
        <3>2. \A i \in 1..Len(c) : Useful(c[i].labels)
            BY <2>5, <2>6
        <3> QED BY <2>1, <3>1, <3>2, RolesAppended
    <2>7. ASSUME k = 2
          PROVE  \E x, y \in ReadySeen :
                     /\ LeavesRole(pods, patches', x, "writer") \/ EndsWithRole(patches', x, "writer")
                     /\ \/ LeavesRole(pods, patches', y, "backup-writer")
                        \/ EndsWithRole(patches', y, "backup-writer")
        <3>1. /\ m.writer \in ReadySeen \cup {NoMember} /\ m.bkpWriter \in ReadySeen \cup {NoMember}
              /\ m.writer # NoMember => pods[m.writer].role = "writer"
              /\ m.bkpWriter # NoMember => pods[m.bkpWriter].role = "backup-writer"
            BY <1>2, <2>2
        <3>2. Cardinality(ReadySeen) = 2
            BY <2>7
        <3> DEFINE R == ReadySeen
                   e == SetLabels(pods, ord, R, m).patches
        <3> HIDE DEF R
        <3>3. \E x, y \in R :
                 /\ (x = m.writer /\ LeavesRole(pods, e, x, "writer")) \/ EndsWithRole(e, x, "writer")
                 /\ \/ y = m.bkpWriter /\ LeavesRole(pods, e, y, "backup-writer")
                    \/ EndsWithRole(e, y, "backup-writer")
            BY <1>3, <2>3, <3>1, <3>2, TwoRoles DEF R
        <3>4. e = c
            BY DEF R
        <3> HIDE DEF c, e
        <3> QED BY <2>1, <3>3, <3>4, RolesAppended DEF R
    <2> HIDE DEF c, w, b, W, B, k
    <2>8. W # {} => \A n \in W : n \in ReadySeen
        BY <1>2
    <2>9. (W # {} /\ B # {}) => w \in ReadySeen /\ b \in ReadySeen
        BY <1>2, <2>5
    <2> QED BY <2>4, <2>6, <2>7, <2>9
<1>7. todo' # << >> \/ patches' # << >> =>
         \E ord \in SetToSeqs(Listed) : \E d \in InOrder(ord, View(ord).dups) :
            patches' = Labelling(View(ord), d).patches
    BY LabelsSent
<1> HIDE DEF W, B, k
<1> QED BY <1>5, <1>6, <1>7 DEF W, B, k

(* The nodes that answer are those that a pass counts as ready. *)
LEMMA AnsweringReady ==
    ASSUME "pods" \notin Lagging, TypeOK, UsefulInv
    PROVE  ReadySeen = Answering /\ PrimaryPods = Answering
<1>1. PrimaryPods = Answering
    BY PodsTrue DEF Answering, IsPrimary
<1>2. \A n \in Answering : Useful(pods[n])
    BY DEF Answering, Up, UsefulInv
<1> QED BY <1>1, <1>2 DEF ReadySeen

LEMMA PresentType ==
    /\ Answering \subseteq Present /\ Present \subseteq Expected /\ Expected \subseteq Names
    /\ Present' \subseteq Expected' /\ Expected' \subseteq Names /\ Answering' \subseteq Present'
BY DEF Answering, Present, Expected

LEMMA RolesInvSync ==
    ASSUME "pods" \notin Lagging, "claims" \notin Lagging, TypeOK, RolesInv, Sync
    PROVE  /\ UsefulInv' /\ FreeNames'
           /\ Cardinality(Expected') <= 3
           /\ \A role \in {"writer", "backup-writer"} :
                 /\ Cardinality(Present') > 2 => \E n \in Answering' : KeepsRole(n, role)'
                 /\ Cardinality(Expected') > 2 => \E n \in Answering' : GetsRole(n, role)'
<1> DEFINE both == WithRole("writer") # {} /\ WithRole("backup-writer") # {}
<1>1. UNCHANGED pods /\ patches = << >> /\ todo = << >>
    BY DEF Sync, Idle, world
<1>2. StartInv /\ UsefulInv /\ CachedSpec.replicas <= 3 /\ CachedSpec.replicas \in Nat
    BY CachedType DEF RolesInv
<1>3. Decided
    BY <1>2, Decides
<1>4. Answering' = Answering /\ Present' = Present
    BY <1>1 DEF Answering, Present, Up
<1>5. ReadySeen = Answering /\ PrimaryPods = Answering /\ CachedPods = pods
    BY <1>2, AnsweringReady, PodsTrue
<1>6. Expected = Present
    BY <1>1 DEF Expected
<1>7. /\ Cardinality(Present) \in Nat /\ Cardinality(ReadySeen) \in Nat
      /\ Cardinality(ReadySeen) <= Cardinality(Present) /\ Cardinality(Expected') \in Nat
      /\ ReadySeen \in SUBSET Names
    BY <1>5, PresentType, Countable, Counting
<1>8. Cardinality(Present) <= 3
    BY <1>6 DEF RolesInv
<1>9. Cardinality(Present) > 2 => both
    <2>1. \A n, role : KeepsRole(n, role) => pods[n].role = role
        BY DEF KeepsRole
    <2>2. Cardinality(Present) > 2 => \A role \in {"writer", "backup-writer"} :
                                          \E n \in Answering : KeepsRole(n, role)
        BY DEF RolesInv
    <2>3. \A n \in Answering : n \in WithRole(pods[n].role)
        BY <1>5 DEF WithRole
    <2> QED BY <2>1, <2>2, <2>3
<1>10. /\ Cardinality(ReadySeen) <= 2 \/ both => \A i \in 1..Len(patches') : Useful(patches'[i].labels)
       /\ both => \A role \in {"writer", "backup-writer"} :
                      \E n \in ReadySeen : LeavesRole(pods, patches', n, role)
       /\ Cardinality(ReadySeen) = 2 /\ todo' # << >> =>
             \A role \in {"writer", "backup-writer"} :
                 \E n \in ReadySeen : \/ LeavesRole(pods, patches', n, role)
                                      \/ EndsWithRole(patches', n, role)
    BY <1>2, RolesSync
<1> HIDE DEF both
<1>11. \A n, role : /\ LeavesRole(pods, patches', n, role) => KeepsRole(n, role)' /\ GetsRole(n, role)'
                    /\ EndsWithRole(patches', n, role) => GetsRole(n, role)'
    BY <1>1 DEF LeavesRole, EndsWithRole, KeepsRole, GetsRole
<1>12. UsefulInv'
    <2>1. \A i \in 1..Len(patches') : Useful(patches'[i].labels)
        BY <1>7, <1>8, <1>9, <1>10
    <2>2. \A i \in 1..Len(todo') : todo'[i].op = "createPod" => Useful(todo'[i].new)
        BY <1>3, NewPodDecided
    <2> QED BY <1>1, <1>2, <2>1, <2>2 DEF UsefulInv
<1>13. ASSUME NEW role \in {"writer", "backup-writer"}, Cardinality(Present) > 2
       PROVE  \E n \in Answering' : KeepsRole(n, role)' /\ GetsRole(n, role)'
    BY <1>4, <1>5, <1>9, <1>10, <1>11, <1>13
<1>14. CASE ~Creates
    <2>1. \A i \in 1..Len(todo') : todo'[i].op # "createPod"
        BY <1>3, <1>14, DecidedTakes
    <2>2. Expected' = Present' /\ FreeNames'
        BY <2>1 DEF Expected, FreeNames
    <2> QED BY <1>4, <1>7, <1>8, <1>12, <1>13, <2>2
<1>15. CASE Creates
    <2>1. PICK x \in PodNames :
             /\ todo'[Len(todo')].op = "createPod"
             /\ \A i \in 1..Len(todo') : todo'[i].pod = x
        BY <1>15, CreatesPod
    <2>2. /\ Cardinality(ReadySeen) < CachedSpec.replicas /\ Live = Listed
          /\ \A n \in UnreadySeen : pods[n].phase = "Ready"
        BY <1>15 DEF Creates
    <2>3. Present = ReadySeen
        <3>1. ASSUME NEW n \in Names, Up(n), pods[n].phase = "Pending" PROVE FALSE
            <4>1. n \in Live /\ n \notin PrimaryPods
                BY <3>1, PodsTrue
            <4> QED BY <2>2, <3>1, <4>1 DEF UnreadySeen
        <3> QED BY <1>5, <3>1 DEF Present
    <2>4. Expected' \subseteq ReadySeen \cup {x}
        BY <1>4, <2>1, <2>3 DEF Expected
    <2>5. Expected' \in SUBSET Names
        BY PresentType
    <2>6. Cardinality(Expected') <= Cardinality(ReadySeen) + 1
        BY <1>7, <2>4, <2>5, Counting
    <2>7. pods[x] = NoPod
        BY <2>2, PodsTrue DEF PodNames, UnusedClaims, Listed
    <2>8. FreeNames'
        BY <1>1, <2>1, <2>7 DEF FreeNames
    <2>9. todo' # << >>
        <3>1. SUFFICES ASSUME todo' = << >> PROVE FALSE
            OBVIOUS
        <3>2. PICK n, p : todo' = CreatePodAndClaim(n, p)
            BY <1>15 DEF Creates, PodNames, UnusedClaims
        <3>3. <<CreatePod(n, p)>> # << >> /\ Len(<<CreatePod(n, p)>>) = 1
            OBVIOUS
        <3> QED BY <3>1, <3>2 DEF CreatePodAndClaim
    <2>10. ASSUME NEW role \in {"writer", "backup-writer"}, Cardinality(Expected') > 2
           PROVE  \E n \in Answering' : GetsRole(n, role)'
        <3>1. Cardinality(ReadySeen) = 2
            BY <1>2, <1>7, <2>2, <2>6, <2>10
        <3> QED BY <1>4, <1>5, <1>10, <1>11, <2>9, <2>10, <3>1
    <2>11. Cardinality(Expected') <= 3
        BY <1>2, <1>7, <2>2, <2>6
    <2> QED BY <1>4, <1>12, <1>13, <2>8, <2>10, <2>11
<1> QED BY <1>14, <1>15

(* The label patches that are left: all of them, all but the one that has  *)
(* been made, or none, when the pass ends.                                 *)
LEMMA PatchesMove ==
    ASSUME TypeOK, [Next]_vars, ~Sync
    PROVE  \/ patches' = patches
           \/ PatchPodLabels /\ patches # << >> /\ patches' = Tail(patches)
           \/ patches' = << >> /\ todo' = << >>
<1>1. CASE SyncFails \/ CallRefused \/ UpdateStatus
    BY <1>1 DEF SyncFails, CallRefused, UpdateStatus, EndPass
<1>2. CASE PatchPodLabels
    BY <1>2 DEF PatchPodLabels
<1>3. CASE Environment \/ UNCHANGED vars
    BY <1>3 DEF Environment, PodStarts, PodIsGone, ClaimIsGone, PodFails, LosesPrimary,
        RegainsPrimary, UserEdits, UserScales, InformerCatchesUp, pass, vars
<1>4. CASE Call
    BY <1>1, <1>2, <1>4 DEF Call, Calls, CallDeletePod, CallCreatePod, CallCheckSynced,
        CallMysqlUpgrade, CallPatchClaim, CallCreateClaim, CallDeleteClaim, CallCreateBkp,
        CallDeleteBkp
<1> QED BY <1>1, <1>3, <1>4 DEF Next

(* A pod that keeps, or gets, a role does so after a step other than a     *)
(* decision, the end of the pass set apart.                                *)
LEMMA RolesKept ==
    ASSUME TypeOK, [Next]_vars, ~Sync, NEW n \in Names, Moves(n), NEW role
    PROVE  /\ KeepsRole(n, role) => KeepsRole(n, role)'
           /\ GetsRole(n, role) => GetsRole(n, role)' \/ (patches' = << >> /\ todo' = << >>)
<1> DEFINE Q == [op : {"patchPod"}, pod : Names, labels : Labels]
<1>1. patches \in Seq(Q) /\ PatchesLeft
    BY PassMoves DEF TypeOK
<1> HIDE DEF Q
<1>2. Len(patches) \in Nat
    BY <1>1
<1>3. \/ LabelsOf(pods'[n]) = LabelsOf(pods[n])
      \/ /\ PatchPodLabels /\ patches # << >> /\ Head(patches).pod = n
         /\ LabelsOf(pods'[n]) = Head(patches).labels
    BY DEF Moves, PatchPodLabels
<1>4. \A p : LabelsOf(p).role = p.role
    BY DEF LabelsOf
<1>5. patches # << >> => 1 \in 1..Len(patches) /\ Head(patches) = patches[1]
    BY <1>1
<1>6. ASSUME KeepsRole(n, role) PROVE KeepsRole(n, role)'
    <2>1. pods'[n].role = role
        BY <1>3, <1>4, <1>5, <1>6 DEF KeepsRole
    <2> QED BY <1>1, <1>6, <2>1 DEF KeepsRole, PatchesLeft
<1>7. ASSUME NEW i \in 1..Len(patches), patches[i].pod = n,
             \A j \in i..Len(patches) : patches[j].pod = n => patches[j].labels.role = role
      PROVE  GetsRole(n, role)' \/ (patches' = << >> /\ todo' = << >>)
    <2>1. CASE patches' = patches
        BY <1>7, <2>1 DEF GetsRole
    <2>2. CASE PatchPodLabels /\ patches # << >> /\ patches' = Tail(patches)
        <3>1. Len(patches') = Len(patches) - 1 /\ \A j \in 1..Len(patches') : patches'[j] = patches[j + 1]
            BY <1>1, <2>2, HeadTailProperties
        <3>2. CASE i = 1
            <4>1. Head(patches).pod = n /\ Head(patches).labels.role = role
                BY <1>2, <1>5, <1>7, <2>2, <3>2
            <4>2. pods'[n].role = Head(patches).labels.role
                <5>1. pods' = [pods EXCEPT ![n] = [pods[n] EXCEPT
                                 !.rev = Head(patches).labels.rev, !.role = Head(patches).labels.role,
                                 !.reader = Head(patches).labels.reader,
                                 !.backup = Head(patches).labels.backup]]
                    BY <2>2, <4>1 DEF PatchPodLabels
                <5>2. pods[n] \in Pods /\ pods \in [Names -> Pods \cup {NoPod}]
                    BY DEF Moves, TypeOK
                <5> QED BY <5>1, <5>2 DEF Pods
            <4>3. \A j \in 1..Len(patches') : patches'[j].pod = n => patches'[j].labels.role = role
                <5>1. TAKE j \in 1..Len(patches')
                <5>2. j + 1 \in i..Len(patches) /\ patches'[j] = patches[j + 1]
                    BY <1>2, <3>1, <3>2, <5>1
                <5> QED BY <1>7, <5>2
            <4>4. KeepsRole(n, role)'
                BY <4>1, <4>2, <4>3 DEF KeepsRole
            <4> QED BY <4>4 DEF GetsRole
        <3>3. CASE i # 1
            <4>1. i - 1 \in 1..Len(patches') /\ patches'[i - 1] = patches[i]
                BY <1>2, <1>7, <3>1, <3>3
            <4>2. ASSUME NEW j \in (i - 1)..Len(patches'), patches'[j].pod = n
                  PROVE  patches'[j].labels.role = role
                <5>1. j + 1 \in i..Len(patches) /\ j \in 1..Len(patches')
                    BY <1>2, <3>1, <3>3, <4>2
                <5>2. patches'[j] = patches[j + 1]
                    BY <3>1, <5>1
                <5> QED BY <1>7, <4>2, <5>1, <5>2
            <4> QED BY <1>7, <4>1, <4>2 DEF GetsRole
        <3> QED BY <3>2, <3>3
    <2> QED BY <2>1, <2>2, PatchesMove
<1> QED BY <1>6, <1>7 DEF GetsRole

(* Equally many of them are the same ones. *)
LEMMA SameNodes ==
    ASSUME NEW S \in SUBSET Names, NEW T \in SUBSET S, Cardinality(S) <= 3, Cardinality(T) > 2
    PROVE  T = S
<1>1. IsFiniteSet(S) /\ Cardinality(S) \in Nat /\ Cardinality(T) \in Nat
    BY Countable
<1>2. Cardinality(T) <= Cardinality(S) /\ (Cardinality(S) = Cardinality(T) => T = S)
    BY <1>1, FS_Subset
<1> QED BY <1>1, <1>2

LEMMA RolesInvMoves ==
    ASSUME TypeOK, RolesInv, [Next]_vars, ~Sync, ~CallCreatePod
    PROVE  /\ UsefulInv' /\ FreeNames'
           /\ Cardinality(Expected') <= 3
           /\ \A role \in {"writer", "backup-writer"} :
                 /\ Cardinality(Present') > 2 => \E n \in Answering' : KeepsRole(n, role)'
                 /\ Cardinality(Expected') > 2 => \E n \in Answering' : GetsRole(n, role)'
<1>1. UsefulInv /\ FreeNames /\ Cardinality(Expected) <= 3
    BY DEF RolesInv
<1>2. \A n \in Names : PodMoves(n)
    BY PodsMove
<1>3. PatchesLeft
    BY PassMoves
<1>4. PICK k \in Nat : \A i \in 1..Len(todo') : i + k \in 1..Len(todo) /\ todo'[i] = todo[i + k]
    <2>1. PICK k \in Nat : TodoLeft(k)
        BY PassGoesOn
    <2>2. Len(todo) \in Nat
        BY DEF TypeOK
    <2>3. \A i \in 1..Len(todo') : i + k \in 1..Len(todo) /\ todo'[i] = todo[i + k]
        BY <2>1, <2>2 DEF TodoLeft
    <2> QED BY <2>3
<1>5. \A n \in Names : pods[n] # NoPod => pods[n] \in Pods
    BY DEF TypeOK
<1>6. \A n \in Names : Up(n)' => Up(n) /\ Moves(n)
    BY <1>2 DEF PodMoves, Moves, Up
<1>7. Present' \subseteq Present
    <2>1. SUFFICES ASSUME NEW n \in Present' PROVE n \in Present
        OBVIOUS
    <2>2. n \in Names /\ Up(n)' /\ (pods'[n].phase = "Pending" \/
                                     (pods'[n].phase = "Ready" /\ pods'[n].wsrep # "Disconnected"))
        BY <2>1 DEF Present, Answering, IsPrimary
    <2>3. Up(n) /\ Moves(n) /\ pods[n] \in Pods
        BY <1>5, <1>6, <2>2 DEF Up
    <2>4. PodStarts(n) => pods[n].phase = "Pending"
        BY DEF PodStarts, Startable
    <2>5. pods[n].wsrep # "Disconnected" => IsPrimary(pods[n])
        BY <2>3 DEF Pods, WsrepStates, IsPrimary
    <2> QED BY <2>2, <2>3, <2>4, <2>5 DEF Moves, Present, Answering
<1>8. Expected' \subseteq Expected
    BY <1>4, <1>7 DEF Expected
<1>9. FreeNames'
    <2>1. SUFFICES ASSUME NEW i \in 1..Len(todo'), todo'[i].op = "createPod"
                   PROVE  pods'[todo'[i].pod] = NoPod
        BY DEF FreeNames
    <2>2. i + k \in 1..Len(todo) /\ todo'[i] = todo[i + k]
        BY <1>4, <2>1
    <2>3. pods[todo[i + k].pod] = NoPod
        BY <1>1, <2>1, <2>2 DEF FreeNames
    <2>4. todo[i + k].pod \in Names
        <3>1. todo[i + k] \in Ops
            BY <2>2 DEF TypeOK
        <3> QED BY <3>1, OpType
    <2> QED BY <1>2, <2>2, <2>3, <2>4 DEF PodMoves, Moves
<1>10. UsefulInv'
    <2>1. ASSUME NEW n \in Names, pods'[n] # NoPod PROVE Useful(pods'[n])
        <3>1. pods[n] # NoPod /\ Useful(pods[n]) /\ StaysUseful(n)
            BY <1>1, <1>2, <2>1 DEF PodMoves, Moves, UsefulInv, StaysUseful
        <3> QED BY <2>1, <3>1, UsefulKept
    <2>2. \A i \in 1..Len(patches') : Useful(patches'[i].labels)
        BY <1>1, <1>3 DEF UsefulInv, PatchesLeft
    <2>3. \A i \in 1..Len(todo') : todo'[i].op = "createPod" => Useful(todo'[i].new)
        BY <1>1, <1>4 DEF UsefulInv
    <2> QED BY <2>1, <2>2, <2>3 DEF UsefulInv
<1>11. /\ Cardinality(Expected') <= Cardinality(Expected)
       /\ Cardinality(Present') <= Cardinality(Present)
       /\ Cardinality(Present) <= Cardinality(Expected)
       /\ {Cardinality(Expected), Cardinality(Expected'), Cardinality(Present), Cardinality(Present')}
             \subseteq Nat
    BY <1>7, <1>8, PresentType, Countable, Counting
<1>12. ASSUME NEW n \in Answering, n \in Present' PROVE n \in Answering' /\ Moves(n)
    <2>1. Up(n)' /\ n \in Names
        BY <1>12 DEF Present, Answering
    <2>2. Moves(n) /\ pods[n].phase = "Ready"
        BY <1>6, <1>12, <2>1 DEF Answering
    <2> QED BY <1>12, <2>2 DEF Present, Moves
<1>13. ASSUME NEW role \in {"writer", "backup-writer"}, Cardinality(Present') > 2
       PROVE  \E n \in Answering' : KeepsRole(n, role)'
    <2>1. Present' = Present
        <3>1. Cardinality(Present) <= 3
            BY <1>1, <1>11
        <3> QED BY <1>7, <1>13, <3>1, PresentType, SameNodes
    <2>2. PICK n \in Answering : KeepsRole(n, role)
        BY <1>11, <1>13 DEF RolesInv
    <2>3. n \in Answering' /\ Moves(n) /\ n \in Names
        BY <1>12, <2>1, <2>2, PresentType
    <2> QED BY <2>2, <2>3, RolesKept
<1>14. ASSUME NEW role \in {"writer", "backup-writer"}, Cardinality(Expected') > 2
       PROVE  \E n \in Answering' : GetsRole(n, role)'
    <2>1. CASE patches' = << >> /\ todo' = << >>
        <3>1. Expected' = Present'
            BY <2>1 DEF Expected
        <3>2. PICK n \in Answering' : KeepsRole(n, role)'
            BY <1>13, <1>14, <3>1
        <3> QED BY <3>2 DEF GetsRole
    <2>2. CASE ~(patches' = << >> /\ todo' = << >>)
        <3>1. Expected' = Expected
            BY <1>1, <1>8, <1>14, PresentType, SameNodes
        <3>2. PICK n \in Answering : GetsRole(n, role)
            BY <1>11, <1>14 DEF RolesInv
        <3>3. pods[n] # NoPod /\ n \in Names /\ n \in Expected'
            BY <3>1, <3>2, PresentType DEF Answering, Up
        <3>4. n \in Present'
            <4>1. ASSUME NEW i \in 1..Len(todo'), todo'[i].op = "createPod", todo'[i].pod = n
                  PROVE  FALSE
                BY <1>1, <1>4, <3>3, <4>1 DEF FreeNames
            <4> QED BY <3>3, <4>1 DEF Expected
        <3>5. n \in Answering' /\ Moves(n)
            BY <1>12, <3>2, <3>4
        <3> QED BY <2>2, <3>2, <3>3, <3>5, RolesKept
    <2> QED BY <2>1, <2>2
<1>15. Cardinality(Expected') <= 3
    BY <1>1, <1>11
<1> QED BY <1>9, <1>10, <1>13, <1>14, <1>15

LEMMA RolesInvCreate ==
    ASSUME TypeOK, RolesInv, CallCreatePod
    PROVE  /\ UsefulInv' /\ FreeNames'
           /\ Cardinality(Expected') <= 3
           /\ \A role \in {"writer", "backup-writer"} :
                 /\ Cardinality(Present') > 2 => \E n \in Answering' : KeepsRole(n, role)'
                 /\ Cardinality(Expected') > 2 => \E n \in Answering' : GetsRole(n, role)'
<1>1. UsefulInv /\ StartInv /\ CreationInv /\ Cardinality(Expected) <= 3
    BY DEF RolesInv, StartInv
<1>2. PICK x \in Names :
         /\ 1 \in 1..Len(todo) /\ todo[1].op = "createPod" /\ todo[1].pod = x
         /\ pods[x] = NoPod /\ pods'[x] = todo[1].new
         /\ \A n \in Names : n # x => pods'[n] = pods[n]
    BY CreatedPod
<1>3. todo' = << >> /\ patches' = << >> /\ patches = << >>
    BY <1>1, StartCreate DEF CallCreatePod, Calls
<1>4. pods'[x].phase = "Pending" /\ Useful(pods'[x])
    BY <1>1, <1>2 DEF CreationInv, UsefulInv
<1>5. Answering' = Answering
    <2>1. x \notin Answering /\ x \notin Answering'
        BY <1>2, <1>4 DEF Answering, Up
    <2>2. \A n \in Names : n # x => (n \in Answering <=> n \in Answering')
        BY <1>2 DEF Answering, Up
    <2> QED BY <2>1, <2>2, PresentType
<1>6. Expected' = Present' /\ Expected' \subseteq Expected
    <2>1. Expected' = Present'
        BY <1>3 DEF Expected
    <2>2. ASSUME NEW n \in Present' PROVE n \in Expected
        <3>1. CASE n = x
            BY <1>2, <3>1 DEF Expected
        <3>2. CASE n # x
            <4>1. n \in Present
                BY <1>2, <1>5, <2>2, <3>2 DEF Present, Up
            <4> QED BY <4>1, PresentType
        <3> QED BY <3>1, <3>2
    <2> QED BY <2>1, <2>2
<1>7. Cardinality(Expected') <= Cardinality(Expected) /\ Cardinality(Expected) \in Nat
      /\ Cardinality(Expected') \in Nat
    BY <1>6, PresentType, Countable, Counting
<1>8. UsefulInv' /\ FreeNames'
    <2>1. (\A i \in 1..Len(todo') : FALSE) /\ (\A i \in 1..Len(patches') : FALSE)
        BY <1>3
    <2>2. \A n \in Names : pods'[n] # NoPod => Useful(pods'[n])
        BY <1>1, <1>2, <1>4 DEF UsefulInv
    <2> QED BY <2>1, <2>2 DEF UsefulInv, FreeNames
<1>9. ASSUME NEW role \in {"writer", "backup-writer"}, Cardinality(Expected') > 2
      PROVE  \E n \in Answering' : KeepsRole(n, role)' /\ GetsRole(n, role)'
    <2>1. PICK n \in Answering : GetsRole(n, role)
        BY <1>7, <1>9 DEF RolesInv
    <2>2. pods[n].role = role /\ n \in Names /\ n # x
        BY <1>2, <1>3, <2>1 DEF GetsRole, KeepsRole, Answering, Up
    <2>3. pods'[n].role = role
        BY <1>2, <2>2
    <2>4. KeepsRole(n, role)'
        BY <1>3, <2>3 DEF KeepsRole
    <2> QED BY <1>5, <2>1, <2>4 DEF GetsRole
<1> QED BY <1>1, <1>6, <1>7, <1>8, <1>9

(* The user does not ask for more nodes. *)
LEMMA ReplicasBounded ==
    ASSUME NEW k \in Nat, NeverAbove(k), TypeOK, [Next]_vars,
           spec.replicas <= k, CachedSpec.replicas <= k
    PROVE  spec'.replicas <= k /\ CachedSpec'.replicas <= k
<1>1. spec \in [rev : Revs, replicas : Nat \ {0}, gen : Nat]
    BY DEF TypeOK
<1>2. spec' # spec => UserEdits \/ UserScales
    BY DEF Next, Sync, Call, SyncFails, Environment, PatchPodLabels, CallDeletePod,
        CallCreatePod, CallCheckSynced, CallMysqlUpgrade, CallPatchClaim, CallCreateClaim,
        CallDeleteClaim, CallCreateBkp, CallDeleteBkp, CallRefused, UpdateStatus, PodStarts,
        PodIsGone, ClaimIsGone, PodFails, LosesPrimary, RegainsPrimary, InformerCatchesUp,
        world, vars
<1>3. ASSUME UserEdits PROVE spec'.replicas = spec.replicas
    BY <1>1, <1>3 DEF UserEdits
<1>4. ASSUME UserScales PROVE spec'.replicas <= k
    BY <1>1, <1>4 DEF UserScales, NeverAbove
<1>5. spec'.replicas <= k
    BY <1>2, <1>3, <1>4
<1> QED BY <1>5, CacheSteps DEF CacheStep

(* setLabels and considerPodAndClaimTermination, with three replicas or    *)
(* fewer: whatever fails, and wherever the operator stops, a node that     *)
(* serves is the Writer, the BackupWriter or the Backup node, or reads.    *)
(* With four or more it is not so when a node fails: setLabels gives the   *)
(* BackupWriter it chooses among three ready pods a last patch that is     *)
(* built from its old labels, and takes role and reader label away.        *)
THEOREM NobodyIdle ==
    ASSUME "pods" \notin Lagging, "claims" \notin Lagging, InitReplicas <= 3, NeverAbove(3)
    PROVE  Spec => [](RolesInv /\ NoIdleNode)
<1>1. ASSUME Init PROVE RolesInv
    <2>1. StartInv
        BY <1>1, StartInit
    <2>2. spec.replicas = InitReplicas /\ CachedSpec.replicas = InitReplicas
        BY <1>1 DEF Init, Spec0, CachedSpec
    <2>3. /\ \A n \in Names : pods[n] = NoPod
          /\ \A i \in 1..Len(todo) : FALSE
          /\ \A i \in 1..Len(patches) : FALSE
        BY <1>1 DEF Init
    <2>4. UsefulInv /\ FreeNames
        BY <2>3 DEF UsefulInv, FreeNames
    <2>5. Expected = {} /\ Present = {}
        BY <2>3 DEF Expected, Present, Answering, Up
    <2>6. Cardinality(Expected) = 0 /\ Cardinality(Present) = 0
        BY <2>5, FS_EmptySet
    <2> QED BY <2>1, <2>2, <2>4, <2>6 DEF RolesInv
<1>2. ASSUME TypeOK, RolesInv, [Next]_vars PROVE RolesInv'
    <2>1. StartInv /\ spec.replicas <= 3 /\ CachedSpec.replicas <= 3
        BY <1>2 DEF RolesInv
    <2>2. StartInv'
        BY <1>2, <2>1, StartNext
    <2>3. spec'.replicas <= 3 /\ CachedSpec'.replicas <= 3
        BY <1>2, <2>1, ReplicasBounded
    <2>4. /\ UsefulInv' /\ FreeNames'
          /\ Cardinality(Expected') <= 3
          /\ \A role \in {"writer", "backup-writer"} :
                /\ Cardinality(Present') > 2 => \E n \in Answering' : KeepsRole(n, role)'
                /\ Cardinality(Expected') > 2 => \E n \in Answering' : GetsRole(n, role)'
        BY <1>2, RolesInvSync, RolesInvCreate, RolesInvMoves
    <2> QED BY <2>2, <2>3, <2>4 DEF RolesInv
<1>3. RolesInv => NoIdleNode
    BY DEF RolesInv, UsefulInv, NoIdleNode, Serving, Primaries
<1> QED BY <1>1, <1>2, <1>3, TypeCorrect, PTL DEF Spec
=============================================================================
