------------------------- MODULE GaleraControlProofs -------------------------
(***************************************************************************)
(* Proofs about GaleraControl, for every set of pod names, every number of *)
(* revisions, every bound and whichever informers lag.                     *)
(***************************************************************************)
EXTENDS GaleraUpgradeInv, GaleraPodsProofs

(* What a pass reads has the shape of what the API server stores. *)
LEMMA CachedType ==
    ASSUME TypeOK
    PROVE  /\ CachedPods \in [Names -> Pods \cup {NoPod}]
           /\ CachedClaims \in [Names -> Claims \cup {NoClaim}]
           /\ CachedBkps \in [Names -> BkpStates]
           /\ CachedSpec \in [rev : Revs, replicas : Nat \ {0}, gen : Nat]
           /\ CachedStatus \in Statuses
           /\ CurrentRevision \in Revs /\ NextRevision \in Revs /\ Template \in Revs
<1>1. /\ CachedPods \in [Names -> Pods \cup {NoPod}]
      /\ CachedClaims \in [Names -> Claims \cup {NoClaim}]
      /\ CachedBkps \in [Names -> BkpStates]
    BY DEF TypeOK, CachedPods, CachedClaims, CachedBkps
<1>2. /\ CachedSpec \in [rev : Revs, replicas : Nat \ {0}, gen : Nat]
      /\ CachedStatus \in Statuses
    BY DEF TypeOK, CachedSpec, CachedStatus
<1>3. CurrentRevision \in Revs /\ NextRevision \in Revs
    BY <1>2 DEF CurrentRevision, NextRevision, Statuses
<1>4. Template \in Revs
    BY <1>3 DEF Template
<1> QED BY <1>1, <1>2, <1>3, <1>4

(* Sets of pod names are finite, and can be counted. *)
LEMMA Countable ==
    ASSUME NEW S \in SUBSET Names
    PROVE  IsFiniteSet(S) /\ Cardinality(S) \in Nat
BY NamesAssumption, FS_Subset, FS_CardinalityType

(* A listed pod is a pod, and its labels are a label set. *)
LEMMA ListedType ==
    ASSUME TypeOK, NEW n \in Listed
    PROVE  /\ n \in Names /\ CachedPods[n] \in Pods
           /\ LabelsOf(CachedPods[n]) \in LabelSets(Revs)
           /\ CachedPods[n].rev \in Revs
<1>1. n \in Names /\ CachedPods[n] \in Pods
    BY CachedType DEF Listed
<1> QED BY <1>1 DEF Pods, LabelsOf, LabelSets

(* The status a pass works on names its own two revisions, and the one it  *)
(* writes at its end makes one of them the current one.                    *)
PassStatuses ==
    [phase : Phases, upgrading : BOOLEAN, gen : Nat,
     current : {CurrentRevision}, next : {NextRevision},
     replicas : Int, currentReplicas : Int, nextReplicas : Int, ready : Nat, unready : Nat]
WrittenStatuses ==
    [phase : Phases, upgrading : BOOLEAN, gen : Nat,
     current : {CurrentRevision, NextRevision}, next : {NextRevision, NoRev},
     replicas : Int, currentReplicas : Int, nextReplicas : Int, ready : Nat, unready : Nat]

LEMMA PassStatusType ==
    ASSUME TypeOK
    PROVE  PassStatuses \subseteq WrittenStatuses /\ WrittenStatuses \subseteq Statuses
BY CachedType DEF PassStatuses, WrittenStatuses, Statuses

(* The record the loop over the pods leaves. *)
Views == [ord : Seq(Listed), ready : SUBSET Listed, unready : SUBSET Live,
          members : Members(Listed), stop : Listed \cup {NoMember}, dups : SUBSET Listed,
          status : PassStatuses]

LEMMA ViewType ==
    ASSUME TypeOK, NEW ord \in SetToSeqs(Listed)
    PROVE  /\ View(ord) \in Views
           /\ \A n \in View(ord).ready : \E i \in 1..Len(ord) : ord[i] = n
           /\ View(ord).ord = ord
<1> DEFINE bkp  == FirstIn(ord, Backups)
           stop == FirstIn(ord, (Backups \ {bkp}) \cup Silent)
           last == IF stop = NoMember THEN Len(ord) ELSE CHOOSE i \in DOMAIN ord : ord[i] = stop
           scan == {ord[i] : i \in 1..last}
           w    == FirstIn(ord, scan \cap WithRole("writer"))
           b    == FirstIn(ord, scan \cap WithRole("backup-writer"))
           ready == {n \in scan \cap PrimaryPods : Useful(CachedPods[n])}
           dups == scan \cap ((WithRole("writer") \ {w}) \cup (WithRole("backup-writer") \ {b}))
           Counted(r) == {n \in scan \cap Live : n # stop /\ CachedPods[n].rev = r}
           st == [phase |-> CachedStatus.phase, upgrading |-> CachedStatus.upgrading,
                  gen |-> CachedSpec.gen, current |-> CurrentRevision, next |-> NextRevision,
                  replicas |-> last,
                  currentReplicas |-> Cardinality(Counted(CurrentRevision)),
                  nextReplicas |-> Cardinality(Counted(NextRevision)),
                  ready |-> 0, unready |-> 0]
<1>1. Listed \subseteq Names /\ Live \subseteq Listed /\ PrimaryPods \subseteq Live
      /\ Backups \subseteq Listed /\ Silent \subseteq Listed
      /\ WithRole("writer") \subseteq Listed /\ WithRole("backup-writer") \subseteq Listed
    BY DEF Listed, Live, PrimaryPods, Asked, Silent, Backups, WithRole
<1>2. ord \in Seq(Listed)
    BY <1>1, Countable, ListingType
<1>3. DOMAIN ord = 1..Len(ord) /\ Len(ord) \in Nat /\ \A i \in 1..Len(ord) : ord[i] \in Listed
    BY <1>2, LenProperties
<1>4. \A S : FirstIn(ord, S) \in S \cup {NoMember}
    BY <1>2, FirstInType
<1>5. bkp \in Listed \cup {NoMember} /\ stop \in Listed \cup {NoMember}
    BY <1>1, <1>4
<1>6. last \in 0..Len(ord)
    <2>1. CASE stop = NoMember
        BY <1>3, <2>1
    <2>2. CASE stop # NoMember
        <3>1. \E i \in 1..Len(ord) : ord[i] = stop
            BY <1>2, <2>2, FirstInType
        <3> HIDE DEF stop
        <3> QED BY <1>3, <2>2, <3>1
    <2> QED BY <2>1, <2>2
<1> HIDE DEF bkp, stop, last
<1>7. \A n \in scan : \E i \in 1..Len(ord) : ord[i] = n
    BY <1>3, <1>6
<1>8. scan \subseteq Listed
    BY <1>3, <1>7
<1> HIDE DEF scan
<1>9. w \in Listed \cup {NoMember} /\ b \in Listed \cup {NoMember}
    BY <1>1, <1>4
<1> HIDE DEF w, b
<1>10. dups \subseteq Listed /\ ready \subseteq Listed /\ (scan \cap Live) \ PrimaryPods \subseteq Live
       /\ ready \subseteq scan
    BY <1>1
<1>11. st \in PassStatuses
    <2>1. \A r : Cardinality(Counted(r)) \in Nat
        BY <1>1, Countable
    <2> HIDE DEF Counted
    <2>2. last \in Int
        BY <1>3, <1>6
    <2> QED BY <2>1, <2>2, CachedType DEF Statuses, PassStatuses
<1>12. [writer |-> w, bkpWriter |-> b, backup |-> bkp] \in Members(Listed)
    BY <1>5, <1>9 DEF Members
<1>13. View(ord) = [ord |-> ord, ready |-> ready, unready |-> (scan \cap Live) \ PrimaryPods,
                    members |-> [writer |-> w, bkpWriter |-> b, backup |-> bkp],
                    stop |-> stop, dups |-> dups, status |-> st]
    BY DEF View, bkp, stop, last, scan, w, b
<1> HIDE DEF ready, dups, st
<1>14. View(ord) \in Views
    BY <1>2, <1>5, <1>10, <1>11, <1>12, <1>13 DEF Views
<1>15. View(ord).ready = ready /\ View(ord).ord = ord
    BY <1>13
<1> QED BY <1>7, <1>10, <1>14, <1>15

(* A pass that is not stopped looks at every pod of the listing; it counts *)
(* all of them, and those of a revision at most once each.                 *)
LEMMA ViewWhole ==
    ASSUME TypeOK, NEW ord \in SetToSeqs(Listed), View(ord).stop = NoMember
    PROVE  /\ View(ord).unready = Live \ PrimaryPods
           /\ View(ord).status.replicas = Cardinality(Listed)
           /\ View(ord).status.nextReplicas <= Cardinality(Listed)
           /\ View(ord).status.nextReplicas = Cardinality(Listed) =>
                 \A n \in Listed : CachedPods[n].rev = NextRevision
<1> DEFINE scan == {ord[i] : i \in 1..Len(ord)}
           C == {n \in scan \cap Live : n # NoMember /\ CachedPods[n].rev = NextRevision}
<1>1. Listed \subseteq Names /\ Live \subseteq Listed /\ IsFiniteSet(Listed)
    BY Countable DEF Listed, Live
<1>2. ord \in Seq(Listed) /\ Len(ord) = Cardinality(Listed)
      /\ \A n \in Listed : \E i \in 1..Len(ord) : ord[i] = n
    BY <1>1, ListingType, ListingCovers
<1>3. scan = Listed
    BY <1>2, LenProperties
<1>4. /\ View(ord).unready = (scan \cap Live) \ PrimaryPods
      /\ View(ord).status.replicas = Len(ord)
      /\ View(ord).status.nextReplicas = Cardinality(C)
    BY DEF View
<1> HIDE DEF scan
<1>5. C \subseteq Listed
    BY <1>1
<1>6. Cardinality(C) <= Cardinality(Listed)
      /\ (Cardinality(C) = Cardinality(Listed) => C = Listed)
    BY <1>1, <1>5, FS_Subset
<1> QED BY <1>1, <1>2, <1>3, <1>4, <1>6

(* The patches of a pass: for listed pods, keeping the cached revision. *)
CachedPatches == PatchesOf(CachedPods, Listed, Revs)
Labellings == [patches : Seq(CachedPatches), members : Members(Listed), ok : BOOLEAN]

LEMMA LabellingType ==
    ASSUME TypeOK, NEW ord \in SetToSeqs(Listed), NEW d \in InOrder(ord, View(ord).dups)
    PROVE  Demotions(d) \in Seq(CachedPatches) /\ Labelling(View(ord), d) \in Labellings
<1> DEFINE v == View(ord)
<1>1. v \in Views /\ v.ord = ord /\ \A n \in v.ready : \E i \in 1..Len(ord) : ord[i] = n
    BY ViewType
<1> HIDE DEF v
<1>2. /\ v.ord \in Seq(Listed) /\ v.ready \in SUBSET Listed /\ v.members \in Members(Listed)
      /\ v.dups \in SUBSET Listed
    BY <1>1 DEF Views
<1>3. IsFiniteSet(Listed) /\ NoMember \notin Listed /\ IsFiniteSet(v.dups)
    <2>1. Listed \in SUBSET Names /\ v.dups \in SUBSET Names
        BY <1>2 DEF Listed
    <2> QED BY <2>1, Countable, NamesAssumption
<1>4. d \in Seq(Listed)
    <2>1. d \in Seq(v.dups)
        BY <1>3, InOrderType DEF v
    <2> QED BY <1>2, <2>1, SeqMonotonic
<1>5. Demotions(d) \in Seq(CachedPatches)
    <2>1. Len(d) \in Nat /\ \A i \in 1..Len(d) : d[i] \in Listed
        BY <1>4, LenProperties
    <2>2. \A n \in Listed :
             Patch(n, AddReader(RemoveRole(LabelsOf(CachedPods[n])))) \in CachedPatches
        BY ListedType, PatchType DEF CachedPatches
    <2>3. Demotions(d) \in [1..Len(d) -> CachedPatches]
        BY <2>1, <2>2 DEF Demotions
    <2> QED BY <2>1, <2>3, SeqDef
<1>6. SetLabels(CachedPods, v.ord, v.ready, v.members) \in Labellings
    <2>1. \A n \in Listed : LabelsOf(CachedPods[n]) \in LabelSets(Revs)
        BY ListedType
    <2>2. \A n \in v.ready : \E i \in 1..Len(v.ord) : v.ord[i] = n
        BY <1>1
    <2>3. SetLabels(CachedPods, v.ord, v.ready, v.members) \in
             [patches : Seq(PatchesOf(CachedPods, Listed, Revs)), members : Members(Listed),
              ok : BOOLEAN]
        BY <1>2, <1>3, <2>1, <2>2, SetLabelsType
    <2> QED BY <2>3 DEF Labellings, CachedPatches
<1>7. Labelling(v, d) \in Labellings
    <2> DEFINE l == SetLabels(CachedPods, v.ord, v.ready, v.members)
    <2>1. l \in Labellings
        BY <1>6
    <2>2. Labelling(v, d) = [l EXCEPT !.patches = Demotions(d) \o l.patches]
        BY DEF Labelling
    <2> HIDE DEF l
    <2>3. l.patches \in Seq(CachedPatches)
        BY <2>1 DEF Labellings
    <2>4. Demotions(d) \o l.patches \in Seq(CachedPatches)
        BY <1>5, <2>3, ConcatProperties
    <2> QED BY <2>1, <2>2, <2>4 DEF Labellings
<1> QED BY <1>5, <1>7 DEF v

(* The status a pass computes keeps its shape. *)
LEMMA StatusType ==
    ASSUME TypeOK, NEW st \in PassStatuses
    PROVE  /\ StatusToWrite(st) \in WrittenStatuses \cup {NoStatus}
           /\ \A r : Less(st, r) \in PassStatuses
<1>1. CompleteRollingUpdate(st) \in WrittenStatuses
    <2>1. ASSUME NEW a \in Int, NEW b \in Int, NEW c \in {NextRevision}, NEW k \in {NoRev}
          PROVE  [st EXCEPT !.currentReplicas = a, !.current = c,
                            !.nextReplicas = b, !.next = k] \in WrittenStatuses
        BY DEF PassStatuses, WrittenStatuses
    <2>2. st.nextReplicas \in Int /\ 0 \in Int /\ st.next \in {NextRevision} /\ NoRev \in {NoRev}
        BY DEF PassStatuses
    <2>3. [st EXCEPT !.currentReplicas = st.nextReplicas, !.current = st.next,
                     !.nextReplicas = 0, !.next = NoRev] \in WrittenStatuses
        BY <2>1, <2>2, Zenon
    <2>4. st \in WrittenStatuses
        BY PassStatusType
    <2> QED BY <2>3, <2>4, Zenon DEF CompleteRollingUpdate
<1>2. StatusToWrite(st) \in WrittenStatuses \cup {NoStatus}
    BY <1>1 DEF StatusToWrite
<1>3. ASSUME NEW r PROVE Less(st, r) \in PassStatuses
    <2> DEFINE a == IF r = CurrentRevision THEN st.currentReplicas - 1 ELSE st.currentReplicas
               b == IF r = NextRevision THEN st.nextReplicas - 1 ELSE st.nextReplicas
    <2>1. a \in Int /\ b \in Int
        BY DEF PassStatuses
    <2>2. Less(st, r) = [st EXCEPT !.currentReplicas = a, !.nextReplicas = b]
        BY DEF Less
    <2> HIDE DEF a, b
    <2> QED BY <2>1, <2>2 DEF PassStatuses
<1> QED BY <1>2, <1>3

(* completeRollingUpdate adopts the next revision. *)
Completes(st) ==
    /\ st.nextReplicas = st.replicas
    /\ st.ready = st.replicas
    /\ st.replicas = CachedSpec.replicas

(* Every pod the pass has read is labelled with the next revision. *)
DeployedSeen == \A n \in Listed : CachedPods[n].rev = NextRevision

(* A status that keeps the current revision, or rightly adopts the next. *)
Adopts(s) ==
    s # NoStatus => s.current = CurrentRevision \/ (s.current = NextRevision /\ DeployedSeen)

(* A status adopts the next revision only when its counters say so. *)
LEMMA StatusAdopts ==
    ASSUME TypeOK, NEW st \in PassStatuses
    PROVE  /\ (Completes(st) => DeployedSeen) => Adopts(StatusToWrite(st))
           /\ ~Completes(st) /\ StatusToWrite(st) # NoStatus =>
                 StatusToWrite(st).current = CurrentRevision
<1> DEFINE done == [st EXCEPT !.currentReplicas = st.nextReplicas, !.current = st.next,
                              !.nextReplicas = 0, !.next = NoRev]
<1>1. st.current = CurrentRevision /\ st.next = NextRevision
    BY DEF PassStatuses
<1>2. done.current = NextRevision
    BY <1>1 DEF PassStatuses
<1>3. CompleteRollingUpdate(st) = IF Completes(st) THEN done ELSE st
    BY DEF CompleteRollingUpdate, Completes
<1> HIDE DEF done
<1>4. StatusToWrite(st) \in {NoStatus, IF Completes(st) THEN done ELSE st}
    BY <1>3 DEF StatusToWrite
<1> QED BY <1>1, <1>2, <1>4 DEF Adopts

(* A pod that is taken off the counters does not complete a roll-out. *)
LEMMA LessCounts ==
    ASSUME TypeOK, NEW st \in PassStatuses, st.nextReplicas <= st.replicas, NEW r,
           Completes(Less(st, r))
    PROVE  Completes(st)
<1>1. st.nextReplicas \in Int /\ st.replicas \in Int
    BY DEF PassStatuses
<1>2. /\ Less(st, r).replicas = st.replicas /\ Less(st, r).ready = st.ready
      /\ Less(st, r).nextReplicas = IF r = NextRevision THEN st.nextReplicas - 1
                                    ELSE st.nextReplicas
    BY DEF Less, PassStatuses
<1> QED BY <1>1, <1>2 DEF Completes

LEMMA ViewStatusType ==
    ASSUME TypeOK, NEW v \in Views
    PROVE  WithMembers(v) \in PassStatuses /\ SetStatusPhaseAndConditions(v) \in PassStatuses
<1>1. v.ready \in SUBSET Names /\ v.unready \in SUBSET Names /\ v.status \in PassStatuses
    BY DEF Views, Listed, Live
<1>2. Cardinality(v.ready) \in Nat /\ Cardinality(v.unready) \in Nat
    BY <1>1, Countable
<1>3. WithMembers(v) \in PassStatuses
    BY <1>1, <1>2 DEF WithMembers, PassStatuses
<1>4. SetStatusPhaseAndConditions(v) \in PassStatuses
    BY <1>3 DEF SetStatusPhaseAndConditions, PassStatuses, Phases
<1> QED BY <1>3, <1>4

(* What a pass that is not stopped has counted: the status it ends with    *)
(* completes the roll-out only when every pod it read is of the revision.  *)
LEMMA ViewCounts ==
    ASSUME TypeOK, NEW ord \in SetToSeqs(Listed), NEW v, v = View(ord),
           NEW st, st \in {WithMembers(v), SetStatusPhaseAndConditions(v)}
    PROVE  /\ ~Completes(v.status)
           /\ st.ready = Cardinality(v.ready)
           /\ v.stop = NoMember => /\ Completes(st) => DeployedSeen
                                   /\ st.nextReplicas <= st.replicas
<1>1. v \in Views
    BY ViewType
<1>2. v.status \in PassStatuses /\ WithMembers(v) \in PassStatuses
    BY <1>1, ViewStatusType DEF Views
<1>3. v.status.ready = 0
    BY DEF View
<1>4. ~Completes(v.status)
    BY <1>3, CachedType DEF Completes
<1>5. /\ WithMembers(v).ready = Cardinality(v.ready)
      /\ WithMembers(v).replicas = v.status.replicas
      /\ WithMembers(v).nextReplicas = v.status.nextReplicas
    BY <1>2 DEF WithMembers, PassStatuses
<1>6. /\ st.ready = WithMembers(v).ready
      /\ st.replicas = WithMembers(v).replicas
      /\ st.nextReplicas = WithMembers(v).nextReplicas
    <2> DEFINE w == WithMembers(v)
    <2>1. \A x, y : /\ [w EXCEPT !.phase = x].ready = w.ready
                    /\ [w EXCEPT !.phase = x].replicas = w.replicas
                    /\ [w EXCEPT !.phase = x].nextReplicas = w.nextReplicas
                    /\ [w EXCEPT !.upgrading = y].ready = w.ready
                    /\ [w EXCEPT !.upgrading = y].replicas = w.replicas
                    /\ [w EXCEPT !.upgrading = y].nextReplicas = w.nextReplicas
        BY <1>2 DEF PassStatuses
    <2>2. SetStatusPhaseAndConditions(v) \in
             {w, [w EXCEPT !.phase = "Running"],
              [w EXCEPT !.upgrading = Image[CurrentRevision] # Image[Template]]}
        BY DEF SetStatusPhaseAndConditions
    <2> HIDE DEF w
    <2> QED BY <2>1, <2>2 DEF w
<1>7. ASSUME v.stop = NoMember
      PROVE  (Completes(st) => DeployedSeen) /\ st.nextReplicas <= st.replicas
    BY <1>5, <1>6, <1>7, ViewWhole DEF Completes, DeployedSeen
<1> QED BY <1>4, <1>5, <1>6, <1>7

-----------------------------------------------------------------------------
(***************************************************************************)
(* The decisions of a pass fall into three kinds: calls that only delete,  *)
(* the detour of checkMysqlUpgrade, and the creation of a pod.             *)
(***************************************************************************)
Quiet == [op : {"deletePod", "checkSynced", "deleteClaim", "deleteBkp"}, pod : Names]

PlansDeletion == todo' \in Seq(Quiet)
PlansUpgrade ==
    \E n \in Live : todo' = <<MysqlUpgrade(n), DeletePod(n), PatchClaim(n, CachedPods[n].rev)>>
PlansPod ==
    /\ \E n \in PodNames, role \in Roles, init \in BOOLEAN :
          todo' = CreatePodAndClaim(n, NewPod(n, role, init))
    /\ \A n \in Listed : CachedPods[n].phase # "Pending"
    /\ result' # NoStatus => result'.current = CurrentRevision
Planned ==
    /\ patches' \in Seq(CachedPatches)
    /\ result' \in WrittenStatuses \cup {NoStatus}
    /\ Adopts(result')
    /\ PlansDeletion \/ PlansUpgrade \/ PlansPod

LEMMA QuietType ==
    /\ << >> \in Seq(Quiet)
    /\ \A n \in Names : /\ <<DeletePod(n)>> \in Seq(Quiet) /\ <<DeleteClaim(n)>> \in Seq(Quiet)
                         /\ <<DeleteBkp(n)>> \in Seq(Quiet) /\ <<CheckSynced(n)>> \in Seq(Quiet)
                         /\ <<CheckSynced(n), DeletePod(n)>> \in Seq(Quiet)
                         /\ <<DeleteClaim(n), DeletePod(n)>> \in Seq(Quiet)
    /\ \A n \in Names \cup {NoMember} : DeleteSyncedPod(n) \in Seq(Quiet)
    /\ \A n \in Names \cup {NoMember} : DeleteSyncedPodForUpgrade(n) \in Seq(Quiet)
    /\ \A u \in Seq(Names) : DeletePods(u) \in Seq(Quiet)
<1>1. \A n \in Names : /\ DeletePod(n) \in Quiet /\ DeleteClaim(n) \in Quiet
                       /\ DeleteBkp(n) \in Quiet /\ CheckSynced(n) \in Quiet
    BY DEF DeletePod, DeleteClaim, DeleteBkp, CheckSynced, Quiet
<1>2. << >> \in Seq(Quiet) /\ \A a, b \in Quiet : <<a>> \in Seq(Quiet) /\ <<a, b>> \in Seq(Quiet)
    OBVIOUS
<1>3. \A n \in Names \cup {NoMember} : DeleteSyncedPod(n) \in Seq(Quiet)
    BY <1>1, <1>2 DEF DeleteSyncedPod
<1>4. ASSUME NEW n \in Names \cup {NoMember}
      PROVE  DeleteSyncedPodForUpgrade(n) \in Seq(Quiet)
    <2>1. CASE n = NoMember
        BY <1>2, <2>1 DEF DeleteSyncedPodForUpgrade
    <2>2. CASE n # NoMember
        <3> DEFINE c == IF Matching(n) THEN << >> ELSE <<DeleteClaim(n)>>
        <3>1. <<CheckSynced(n)>> \in Seq(Quiet) /\ <<DeletePod(n)>> \in Seq(Quiet)
              /\ c \in Seq(Quiet)
            BY <1>1, <1>2, <2>2
        <3>2. DeleteSyncedPodForUpgrade(n) = <<CheckSynced(n)>> \o c \o <<DeletePod(n)>>
            BY <2>2 DEF DeleteSyncedPodForUpgrade
        <3> HIDE DEF c
        <3>3. <<CheckSynced(n)>> \o c \in Seq(Quiet)
            BY <3>1, ConcatProperties
        <3> QED BY <3>1, <3>2, <3>3, ConcatProperties
    <2> QED BY <2>1, <2>2
<1>5. ASSUME NEW u \in Seq(Names) PROVE DeletePods(u) \in Seq(Quiet)
    <2>1. Len(u) \in Nat /\ \A i \in 1..Len(u) : u[i] \in Names
        BY LenProperties
    <2>2. DeletePods(u) \in [1..Len(u) -> Quiet]
        BY <1>1, <2>1 DEF DeletePods
    <2> QED BY <2>1, <2>2, SeqDef
<1> QED BY <1>1, <1>2, <1>3, <1>4, <1>5

LEMMA ChoseRoleType ==
    ASSUME NEW m PROVE ChoseRole(m) \in Roles
BY DEF ChoseRole, Roles

(* A status in which no pod has been counted. *)
LEMMA FreshStatus0 == Status0 \in Statuses
<1>1. 0 \in Nat /\ 0 \in Int /\ FALSE \in BOOLEAN /\ NoRev \in Revs \cup {NoRev}
    OBVIOUS
<1>2. "" \in Phases
    BY Zenon DEF Phases
<1> QED BY <1>1, <1>2, Zenon DEF Status0, Statuses

LEMMA FreshStatusType ==
    ASSUME NEW p \in Phases, NEW u \in BOOLEAN, NEW g \in Nat,
           NEW c \in {CurrentRevision}, NEW k \in {NextRevision}
    PROVE  /\ [Status0 EXCEPT !.phase = p, !.gen = g, !.current = c, !.next = k] \in PassStatuses
           /\ [Status0 EXCEPT !.phase = p, !.upgrading = u, !.gen = g, !.current = c, !.next = k]
                 \in PassStatuses
BY FreshStatus0 DEF Statuses, PassStatuses

LEMMA Plan ==
    ASSUME TypeOK, Sync PROVE Planned
<1>1. << >> \in Seq(CachedPatches) /\ Adopts(NoStatus)
    BY DEF Adopts
<1>2. Listed \subseteq Names /\ Live \subseteq Listed
    BY DEF Listed, Live
<1>3. NoStatus \in WrittenStatuses \cup {NoStatus}
    OBVIOUS
<1>4. CASE SyncNew
    <2> DEFINE st == [Status0 EXCEPT !.phase = "Creating", !.gen = CachedSpec.gen,
                                     !.current = CurrentRevision, !.next = NextRevision]
    <2>1. st \in PassStatuses
        <3>1. "Creating" \in Phases /\ CachedSpec.gen \in Nat
              /\ CurrentRevision \in {CurrentRevision} /\ NextRevision \in {NextRevision}
            BY CachedType DEF Phases
        <3> QED BY <3>1, FreshStatusType
    <2>2. ~Completes(st)
        BY CachedType DEF Completes, Status0
    <2> HIDE DEF st
    <2>3. patches' = << >> /\ todo' = << >> /\ result' = StatusToWrite(st)
        BY <1>4 DEF SyncNew, Decide, st
    <2> QED BY <1>1, <2>1, <2>3, <2>2, StatusType, StatusAdopts, QuietType DEF Planned, PlansDeletion
<1>5. CASE SyncDeletePodWithoutClaims
    <2> DEFINE st == [Status0 EXCEPT !.phase = CachedStatus.phase,
                          !.upgrading = CachedStatus.upgrading, !.gen = CachedSpec.gen,
                          !.current = CurrentRevision, !.next = NextRevision]
    <2>1. st \in PassStatuses
        <3>1. CachedStatus.phase \in Phases /\ CachedStatus.upgrading \in BOOLEAN
              /\ CachedSpec.gen \in Nat
              /\ CurrentRevision \in {CurrentRevision} /\ NextRevision \in {NextRevision}
            BY CachedType DEF Statuses
        <3> QED BY <3>1, FreshStatusType
    <2>2. PICK n \in PodsWithoutClaims : Decide(<< >>, <<DeletePod(n)>>, StatusToWrite(st))
        BY <1>5 DEF SyncDeletePodWithoutClaims
    <2>3. ~Completes(st)
        BY CachedType DEF Completes, Status0
    <2> HIDE DEF st
    <2>4. n \in Names
        BY <1>2 DEF PodsWithoutClaims
    <2>5. patches' = << >> /\ todo' = <<DeletePod(n)>> /\ result' = StatusToWrite(st)
        BY <2>2 DEF Decide
    <2> QED BY <1>1, <2>1, <2>4, <2>5, <2>3, StatusType, StatusAdopts, QuietType
        DEF Planned, PlansDeletion
<1>6. ASSUME NEW ord \in SetToSeqs(Listed), NEW v, v = View(ord),
             NEW d \in InOrder(v.ord, v.dups), NEW l, l = Labelling(v, d)
      PROVE  (\/ SyncUnanswered(v, d) \/ SyncDeleteSecondBackup(v, d) \/ SyncLabelOnly(v, l)
              \/ SyncLost(v, l) \/ SyncCleanClaims(v, l) \/ SyncMysqlUpgrade(v, l)
              \/ SyncCheckUnready(v, l) \/ SyncCreatePod(v, l) \/ SyncTerminate(v, l)) => Planned
    <2>1. v \in Views /\ v.ord = ord
        BY <1>6, ViewType
    <2>2. /\ v.ord \in Seq(Listed) /\ v.ready \in SUBSET Listed /\ v.unready \in SUBSET Live
          /\ v.status \in PassStatuses
        BY <2>1 DEF Views
    <2>3. Demotions(d) \in Seq(CachedPatches) /\ l \in Labellings
        BY <1>6, <2>1, LabellingType
    <2>4. l.patches \in Seq(CachedPatches)
        BY <2>3 DEF Labellings
    <2> DEFINE st == SetStatusPhaseAndConditions(v)
    <2>5. st \in PassStatuses /\ WithMembers(v) \in PassStatuses
        BY <2>1, ViewStatusType
    <2>6. /\ ~Completes(v.status)
          /\ st.ready = Cardinality(v.ready)
          /\ v.stop = NoMember => /\ Completes(st) => DeployedSeen
                                  /\ Completes(WithMembers(v)) => DeployedSeen
                                  /\ st.nextReplicas <= st.replicas
        BY <1>6, ViewCounts
    <2> HIDE DEF st
    <2>7. \A s \in PassStatuses : /\ StatusToWrite(s) \in WrittenStatuses \cup {NoStatus}
                                  /\ (Completes(s) => DeployedSeen) => Adopts(StatusToWrite(s))
                                  /\ \A r : Less(s, r) \in PassStatuses
        BY StatusType, StatusAdopts
    <2>8. ASSUME SyncUnanswered(v, d) PROVE Planned
        BY <1>1, <2>3, <2>8, QuietType DEF SyncUnanswered, Decide, Planned, PlansDeletion
    <2>9. ASSUME SyncDeleteSecondBackup(v, d) PROVE Planned
        <3>1. v.stop \in Names
            BY <2>9, <1>2 DEF SyncDeleteSecondBackup, Backups, PrimaryPods, Asked
        <3>2. todo' \in {<< >>, <<DeleteClaim(v.stop), DeletePod(v.stop)>>}
              /\ result' \in {NoStatus, StatusToWrite(v.status)}
              /\ patches' = Demotions(d)
            BY <2>9 DEF SyncDeleteSecondBackup, Decide
        <3> QED BY <1>1, <2>2, <2>3, <2>7, <2>6, <3>1, <3>2, QuietType DEF Planned, PlansDeletion
    <2>10. ASSUME SyncLabelOnly(v, l) PROVE Planned
        <3>1. todo' = << >> /\ result' \in {NoStatus, StatusToWrite(WithMembers(v))}
              /\ patches' = l.patches /\ v.stop = NoMember
            BY <2>10 DEF SyncLabelOnly, Decide
        <3> QED BY <1>1, <2>4, <2>5, <2>7, <2>6, <3>1, QuietType DEF Planned, PlansDeletion
    <2>11. ASSUME SyncLost(v, l) PROVE Planned
        BY <1>1, <2>4, <2>11, QuietType DEF SyncLost, Decide, Planned, PlansDeletion
    <2>12. ASSUME SyncCleanClaims(v, l) PROVE Planned
        <3>1. patches' = l.patches /\ result' = StatusToWrite(st)
              /\ (\/ todo' = << >> \/ \E n \in Names : todo' = <<DeleteBkp(n)>>
                  \/ \E n \in Names : todo' = <<DeleteClaim(n)>>)
            BY <2>12 DEF SyncCleanClaims, Decide, st, UnusedBkps, NoMatchClaims, UnusedClaims
        <3>2. v.stop = NoMember
            BY <2>12 DEF SyncCleanClaims, Settled
        <3> QED BY <2>4, <2>5, <2>7, <2>6, <3>1, <3>2, QuietType DEF Planned, PlansDeletion
    <2>13. ASSUME SyncMysqlUpgrade(v, l) PROVE Planned
        <3>1. patches' = l.patches /\ result' = StatusToWrite(st)
              /\ \E n \in v.unready :
                    todo' = <<MysqlUpgrade(n), DeletePod(n), PatchClaim(n, CachedPods[n].rev)>>
            BY <2>13 DEF SyncMysqlUpgrade, Decide, st, UpgradeDue
        <3>2. v.stop = NoMember
            BY <2>13 DEF SyncMysqlUpgrade, Settled
        <3> QED BY <2>2, <2>4, <2>5, <2>7, <2>6, <3>1, <3>2 DEF Planned, PlansUpgrade
    <2>14. ASSUME SyncCheckUnready(v, l) PROVE Planned
        <3>1. PICK n \in v.unready :
                 /\ patches' = l.patches
                 /\ \/ todo' = <<DeletePod(n)>>
                       /\ result' = StatusToWrite(Less(st, CachedPods[n].rev))
                    \/ todo' = << >> /\ result' = StatusToWrite(st)
            BY <2>14 DEF SyncCheckUnready, Decide, st, NotRunning
        <3>2. n \in Names
            BY <1>2, <2>2
        <3>3. v.stop = NoMember
            BY <2>14 DEF SyncCheckUnready, Deployable, Settled
        <3>4. Completes(Less(st, CachedPods[n].rev)) => DeployedSeen
            BY <2>5, <2>6, <3>3, LessCounts
        <3>5. result' \in WrittenStatuses \cup {NoStatus} /\ Adopts(result')
            BY <2>5, <2>7, <2>6, <3>1, <3>3, <3>4
        <3> QED BY <2>4, <3>1, <3>2, <3>5, QuietType DEF Planned, PlansDeletion
    <2>15. ASSUME SyncCreatePod(v, l) PROVE Planned
        <3> DEFINE more == [st EXCEPT !.replicas = @ + 1,
                       !.currentReplicas = IF NextRevision = CurrentRevision THEN @ + 1 ELSE @,
                       !.nextReplicas = IF NextRevision = CurrentRevision THEN @ ELSE @ + 1]
                   role == ChoseRole(l.members)
                   init == v.ready = {}
        <3>1. patches' = l.patches /\ result' = StatusToWrite(more)
              /\ \E n \in PodNames : todo' = CreatePodAndClaim(n, NewPod(n, role, init))
            BY <2>15 DEF SyncCreatePod, Decide, st
        <3>2. more \in PassStatuses
            <4>1. ASSUME NEW a \in Int, NEW b \in Int, NEW c \in Int
                  PROVE  [st EXCEPT !.replicas = a, !.currentReplicas = b, !.nextReplicas = c]
                            \in PassStatuses
                BY <2>5 DEF PassStatuses
            <4> DEFINE a == st.replicas + 1
                       b == IF NextRevision = CurrentRevision THEN st.currentReplicas + 1
                            ELSE st.currentReplicas
                       c == IF NextRevision = CurrentRevision THEN st.nextReplicas
                            ELSE st.nextReplicas + 1
            <4>2. a \in Int /\ b \in Int /\ c \in Int
                BY <2>5 DEF PassStatuses
            <4>3. more = [st EXCEPT !.replicas = a, !.currentReplicas = b, !.nextReplicas = c]
                OBVIOUS
            <4> HIDE DEF a, b, c, more
            <4> QED BY <4>1, <4>2, <4>3
        <3>3. role \in Roles /\ init \in BOOLEAN
            BY ChoseRoleType
        <3>4. ~Completes(more)
            <4>1. more.ready = st.ready
                BY <2>5 DEF PassStatuses
            <4>2. st.ready < CachedSpec.replicas
                BY <2>15, <2>6 DEF SyncCreatePod, TooFew
            <4>3. st.ready \in Nat /\ CachedSpec.replicas \in Nat
                BY <2>5, CachedType DEF PassStatuses
            <4> HIDE DEF more
            <4> QED BY <4>1, <4>2, <4>3 DEF Completes
        <3>5. ASSUME NEW n \in Listed PROVE CachedPods[n].phase # "Pending"
            <4>1. v.stop = NoMember /\ Live = Listed /\ NotRunning(v) = {}
                BY <2>15 DEF SyncCreatePod, Deployable, Settled, LabelsEndPass
            <4>2. v.unready = Live \ PrimaryPods
                BY <1>6, <4>1, ViewWhole
            <4>3. n \in PrimaryPods \/ IsRunningAndReady(CachedPods[n])
                BY <4>1, <4>2 DEF NotRunning
            <4> QED BY <4>3 DEF PrimaryPods, Asked, IsRunningAndReady
        <3> HIDE DEF more, role, init
        <3>6. Adopts(result') /\ (result' # NoStatus => result'.current = CurrentRevision)
            BY <3>1, <3>2, <3>4, StatusAdopts
        <3> QED BY <2>4, <2>7, <3>1, <3>2, <3>3, <3>5, <3>6 DEF Planned, PlansPod
    <2>16. ASSUME SyncTerminate(v, l) PROVE Planned
        <3>1. Victim(v) \in Names \cup {NoMember} /\ Outdated(v) \in Names \cup {NoMember}
            <4>1. \A S \in SUBSET v.ready : FirstIn(v.ord, S) \in Names \cup {NoMember}
                BY <1>2, <2>2, FirstInType
            <4> QED BY <4>1 DEF Victim, Outdated
        <3> DEFINE up(s) == IF Outdated(v) = NoMember THEN s ELSE [s EXCEPT !.currentReplicas = @ - 1]
                   low == IF Victim(v) = NoMember THEN st ELSE Less(st, CachedPods[Victim(v)].rev)
        <3>2. ASSUME NEW s \in PassStatuses
              PROVE  up(s) \in PassStatuses /\ (Completes(up(s)) <=> Completes(s))
            <4>1. up(s) \in PassStatuses
                BY DEF PassStatuses
            <4>2. /\ up(s).nextReplicas = s.nextReplicas /\ up(s).ready = s.ready
                  /\ up(s).replicas = s.replicas
                BY DEF PassStatuses
            <4> HIDE DEF up
            <4> QED BY <4>1, <4>2 DEF Completes
        <3>3. v.stop = NoMember
            BY <2>16 DEF SyncTerminate, Deployable, Settled
        <3>4. low \in PassStatuses /\ (Completes(low) => DeployedSeen)
            BY <2>5, <2>7, <2>6, <3>3, LessCounts
        <3>5. CASE \E c \in UnusedClaims :
                 Decide(l.patches, <<DeleteClaim(c)>> \o DeleteSyncedPodForUpgrade(Outdated(v)),
                        StatusToWrite(up(st)))
            <4>1. PICK c \in Names :
                     /\ patches' = l.patches /\ result' = StatusToWrite(up(st))
                     /\ todo' = <<DeleteClaim(c)>> \o DeleteSyncedPodForUpgrade(Outdated(v))
                BY <3>5 DEF Decide, UnusedClaims
            <4> HIDE DEF up
            <4>2. todo' \in Seq(Quiet)
                BY <3>1, <4>1, QuietType, ConcatProperties
            <4>3. Completes(up(st)) => DeployedSeen
                BY <2>5, <2>6, <3>2, <3>3
            <4> QED BY <2>4, <2>5, <2>7, <3>2, <4>1, <4>2, <4>3 DEF Planned, PlansDeletion
        <3>6. CASE \E u \in InOrder(v.ord, v.unready) :
                 Decide(l.patches, DeletePods(u) \o DeleteSyncedPod(Victim(v))
                                       \o DeleteSyncedPodForUpgrade(Outdated(v)),
                        StatusToWrite(up(low)))
            <4>1. PICK u \in InOrder(v.ord, v.unready) :
                     /\ patches' = l.patches /\ result' = StatusToWrite(up(low))
                     /\ todo' = DeletePods(u) \o DeleteSyncedPod(Victim(v))
                                    \o DeleteSyncedPodForUpgrade(Outdated(v))
                BY <3>6 DEF Decide
            <4> HIDE DEF up, low
            <4>2. u \in Seq(Names)
                <5>1. v.unready \in SUBSET Names
                    BY <1>2, <2>2
                <5>2. u \in Seq(v.unready)
                    BY <5>1, Countable, InOrderType
                <5> QED BY <5>1, <5>2, SeqMonotonic
            <4>3. /\ DeletePods(u) \in Seq(Quiet) /\ DeleteSyncedPod(Victim(v)) \in Seq(Quiet)
                  /\ DeleteSyncedPodForUpgrade(Outdated(v)) \in Seq(Quiet)
                BY <3>1, <4>2, QuietType
            <4>4. DeletePods(u) \o DeleteSyncedPod(Victim(v)) \in Seq(Quiet)
                BY <4>3, ConcatProperties
            <4>5. todo' \in Seq(Quiet)
                BY <4>1, <4>3, <4>4, ConcatProperties
            <4>6. Completes(up(low)) => DeployedSeen
                BY <3>2, <3>4
            <4> QED BY <2>4, <2>7, <3>2, <3>4, <4>1, <4>5, <4>6 DEF Planned, PlansDeletion
        <3> QED BY <2>16, <3>5, <3>6 DEF SyncTerminate, st
    <2> QED BY <2>8, <2>9, <2>10, <2>11, <2>12, <2>13, <2>14, <2>15, <2>16
<1> QED BY <1>4, <1>5, <1>6 DEF Sync, SyncRun

-----------------------------------------------------------------------------
(* Type correctness. *)

(* The arguments of the calls. *)
LEMMA OpType ==
    ASSUME NEW o \in Ops
    PROVE  /\ o.pod \in Names
           /\ o.op = "patchClaim" => o.rev \in Revs
           /\ o.op = "createClaim" => o.rev \in Revs /\ o.claimSpec \in {ClaimSpec[r] : r \in Revs}
           /\ o.op = "createPod" => o.new \in Pods
BY DEF Ops

LEMMA NewPodType ==
    ASSUME TypeOK, NEW n \in Names, NEW role \in Roles, NEW init \in BOOLEAN
    PROVE  NewPod(n, role, init) \in Pods
<1> DEFINE lab == PodLabelsForGalera(role, NextRevision)
           state == IF CachedClaims[n] # NoClaim /\ CachedClaims[n].rev # NextRevision
                    THEN "standalone" ELSE "cluster"
<1>1. lab \in LabelSets(Revs)
    BY CachedType DEF PodLabelsForGalera, LabelSets, RoleLabels
<1>2. NewPod(n, role, init) =
         [rev |-> lab.rev, role |-> lab.role, reader |-> lab.reader, backup |-> lab.backup,
          tmpl |-> Template, state |-> state, init |-> init,
          phase |-> "Pending", term |-> FALSE, wsrep |-> "Disconnected"]
    BY DEF NewPod
<1>3. state \in {"cluster", "standalone"}
    OBVIOUS
<1> HIDE DEF lab, state
<1>4. lab.rev \in Revs /\ lab.role \in RoleLabels /\ lab.reader \in BOOLEAN /\ lab.backup \in BOOLEAN
    BY <1>1 DEF LabelSets
<1> QED BY <1>2, <1>3, <1>4, CachedType DEF Pods, WsrepStates

LEMMA SyncType ==
    ASSUME TypeOK, Sync
    PROVE  /\ patches' \in Seq([op : {"patchPod"}, pod : Names, labels : Labels])
           /\ todo' \in Seq(Ops)
           /\ result' \in Statuses \cup {NoStatus}
<1>1. Planned /\ WrittenStatuses \subseteq Statuses
    BY Plan, PassStatusType
<1>2. Listed \subseteq Names /\ Live \subseteq Listed
    BY DEF Listed, Live
<1>3. patches' \in Seq([op : {"patchPod"}, pod : Names, labels : Labels])
    <2>1. CachedPatches \subseteq [op : {"patchPod"}, pod : Names, labels : Labels]
        BY <1>2 DEF CachedPatches, PatchesOf, LabelSets, Labels
    <2> QED BY <1>1, <2>1, SeqMonotonic DEF Planned
<1>4. CASE PlansDeletion
    <2>1. Quiet \subseteq Ops
        BY DEF Quiet, Ops
    <2> QED BY <1>1, <1>3, <1>4, <2>1, SeqMonotonic DEF Planned, PlansDeletion
<1>5. CASE PlansUpgrade
    <2>1. PICK n \in Live :
             todo' = <<MysqlUpgrade(n), DeletePod(n), PatchClaim(n, CachedPods[n].rev)>>
        BY <1>5 DEF PlansUpgrade
    <2>2. n \in Names /\ CachedPods[n].rev \in Revs
        BY <1>2, ListedType
    <2>3. MysqlUpgrade(n) \in Ops /\ DeletePod(n) \in Ops /\ PatchClaim(n, CachedPods[n].rev) \in Ops
        BY <2>2 DEF MysqlUpgrade, DeletePod, PatchClaim, Ops
    <2>4. todo' \in Seq(Ops)
        BY <2>1, <2>3
    <2> QED BY <1>1, <1>3, <2>4 DEF Planned
<1>6. CASE PlansPod
    <2>1. PICK n \in PodNames, role \in Roles, init \in BOOLEAN :
             todo' = CreatePodAndClaim(n, NewPod(n, role, init))
        BY <1>6 DEF PlansPod
    <2> DEFINE p == NewPod(n, role, init)
               c == IF CachedClaims[n] = NoClaim
                    THEN <<CreateClaim(n, p.rev, ClaimSpec[Template])>> ELSE << >>
               b == IF p.backup /\ CachedBkps[n] = "none" THEN <<CreateBkp(n)>> ELSE << >>
    <2>2. n \in Names
        BY DEF PodNames, UnusedClaims
    <2>3. p \in Pods
        BY <2>2, NewPodType
    <2>4. todo' = c \o b \o <<CreatePod(n, p)>>
        BY <2>1 DEF CreatePodAndClaim
    <2> HIDE DEF p
    <2>5. /\ CreateClaim(n, p.rev, ClaimSpec[Template]) \in Ops
          /\ CreateBkp(n) \in Ops /\ CreatePod(n, p) \in Ops
        BY <2>2, <2>3, CachedType DEF CreateClaim, CreateBkp, CreatePod, Ops, Pods
    <2>6. c \in Seq(Ops) /\ b \in Seq(Ops) /\ <<CreatePod(n, p)>> \in Seq(Ops)
        BY <2>5
    <2> HIDE DEF c, b
    <2>7. c \o b \in Seq(Ops)
        BY <2>6, ConcatProperties
    <2>8. todo' \in Seq(Ops)
        BY <2>4, <2>6, <2>7, ConcatProperties
    <2> QED BY <1>1, <1>3, <2>8 DEF Planned
<1> QED BY <1>1, <1>4, <1>5, <1>6 DEF Planned

(* What the actions do to a pod or a claim keeps its shape. *)
LEMMA PodUpdateType ==
    ASSUME NEW p \in Pods
    PROVE  /\ [p EXCEPT !.term = TRUE] \in Pods
           /\ [p EXCEPT !.phase = "Failed", !.wsrep = "Disconnected"] \in Pods
           /\ \A b \in WsrepStates : /\ [p EXCEPT !.phase = "Ready", !.wsrep = b] \in Pods
                                     /\ [p EXCEPT !.wsrep = b] \in Pods
           /\ \A l \in Labels : [p EXCEPT !.rev = l.rev, !.role = l.role, !.reader = l.reader,
                                           !.backup = l.backup] \in Pods
BY DEF Pods, Labels, WsrepStates

LEMMA ClaimUpdateType ==
    ASSUME NEW c \in Claims
    PROVE  [c EXCEPT !.term = TRUE] \in Claims /\ \A r \in Revs : [c EXCEPT !.rev = r] \in Claims
BY DEF Claims

(* What the API server, the pod or the cache has to hold for a call. *)
LEMMA AcceptedType ==
    ASSUME TypeOK, NEW o \in Ops, Accepted(o)
    PROVE  /\ o.op = "deletePod" => pods[o.pod] \in Pods
           /\ o.op = "createPod" => pods[o.pod] = NoPod
           /\ o.op = "mysqlUpgrade" => pods[o.pod] \in Pods /\ pods[o.pod].phase = "Ready"
           /\ o.op = "patchClaim" => claims[o.pod] \in Claims
           /\ o.op = "createClaim" => claims[o.pod] = NoClaim
           /\ o.op = "deleteClaim" => claims[o.pod] \in Claims
<1>1. o.pod \in Names
    BY OpType
<1>2. pods[o.pod] \in Pods \cup {NoPod} /\ claims[o.pod] \in Claims \cup {NoClaim}
    BY <1>1 DEF TypeOK
<1>3. /\ o.op = "deletePod" => pods[o.pod] # NoPod
      /\ o.op = "createPod" => pods[o.pod] = NoPod
      /\ o.op = "mysqlUpgrade" => Answers(o.pod)
      /\ o.op = "patchClaim" => claims[o.pod] # NoClaim
      /\ o.op = "createClaim" => claims[o.pod] = NoClaim
      /\ o.op = "deleteClaim" => claims[o.pod] # NoClaim
    BY DEF Accepted
<1> QED BY <1>2, <1>3 DEF Answers

LEMMA CallType ==
    ASSUME TypeOK, NEW kind, Calls(kind)
    PROVE  /\ Head(todo) \in Ops /\ todo' \in Seq(Ops) /\ patches' = patches /\ result' = result
           /\ Head(todo).op = kind /\ Head(todo).pod \in Names /\ Accepted(Head(todo))
<1>1. todo \in Seq(Ops) /\ todo # << >>
    BY DEF TypeOK, Calls
<1>2. Head(todo) \in Ops /\ Tail(todo) \in Seq(Ops)
    BY <1>1, HeadTailProperties
<1> QED BY <1>2, OpType DEF Calls

LEMMA TypeCalls ==
    ASSUME TypeOK, Call PROVE TypeOK'
<1> DEFINE o == Head(todo)
<1>1. CASE PatchPodLabels
    <2> DEFINE q == Head(patches)
               l == q.labels
    <2>1. q \in [op : {"patchPod"}, pod : Names, labels : Labels]
          /\ Tail(patches) \in Seq([op : {"patchPod"}, pod : Names, labels : Labels])
        BY <1>1, HeadTailProperties DEF TypeOK, PatchPodLabels
    <2>2. q.pod \in Names /\ l \in Labels
        BY <2>1
    <2>3. pods[q.pod] \in Pods
        BY <1>1, <2>1, <2>2 DEF TypeOK, PatchPodLabels, Accepted
    <2> HIDE DEF q
    <2>4. [pods[q.pod] EXCEPT !.rev = l.rev, !.role = l.role, !.reader = l.reader,
                              !.backup = l.backup] \in Pods
        BY <2>2, <2>3, PodUpdateType
    <2>5. pods' = [pods EXCEPT ![q.pod] = [pods[q.pod] EXCEPT !.rev = l.rev, !.role = l.role,
                                              !.reader = l.reader, !.backup = l.backup]]
        BY <1>1 DEF PatchPodLabels, q
    <2>6. pods' \in [Names -> Pods \cup {NoPod}]
        BY <2>2, <2>4, <2>5 DEF TypeOK
    <2> QED BY <1>1, <2>1, <2>6 DEF TypeOK, PatchPodLabels, counts, q
<1>2. CASE CallDeletePod
    <2>1. Calls("deletePod") /\ pods' = [pods EXCEPT ![o.pod] = [pods[o.pod] EXCEPT !.term = TRUE]]
        BY <1>2 DEF CallDeletePod
    <2>2. o.pod \in Names /\ pods[o.pod] \in Pods
        BY <2>1, CallType, AcceptedType
    <2>3. pods' \in [Names -> Pods \cup {NoPod}]
        BY <2>1, <2>2, PodUpdateType DEF TypeOK
    <2> QED BY <1>2, <2>1, <2>3, CallType DEF TypeOK, CallDeletePod, counts
<1>3. CASE CallCreatePod
    <2>1. Calls("createPod") /\ pods' = [pods EXCEPT ![o.pod] = o.new]
        BY <1>3 DEF CallCreatePod
    <2>2. o.pod \in Names /\ o.new \in Pods
        BY <2>1, CallType, OpType
    <2>3. pods' \in [Names -> Pods \cup {NoPod}]
        BY <2>1, <2>2 DEF TypeOK
    <2> QED BY <1>3, <2>1, <2>3, CallType DEF TypeOK, CallCreatePod, counts
<1>4. CASE CallCheckSynced
    BY <1>4, CallType DEF TypeOK, CallCheckSynced, counts, world
<1>5. CASE CallMysqlUpgrade
    <2>1. Calls("mysqlUpgrade")
          /\ data' = [data EXCEPT ![o.pod] = [data[o.pod] EXCEPT !.ver = pods[o.pod].tmpl]]
        BY <1>5 DEF CallMysqlUpgrade
    <2>2. o.pod \in Names /\ pods[o.pod] \in Pods
        BY <2>1, CallType, AcceptedType
    <2>3. pods[o.pod].tmpl \in Revs
        BY <2>2 DEF Pods
    <2>4. data' \in [Names -> [ver : Revs \cup {NoRev}, db : BOOLEAN]]
        BY <2>1, <2>2, <2>3 DEF TypeOK
    <2> QED BY <1>5, <2>1, <2>4, CallType DEF TypeOK, CallMysqlUpgrade, counts
<1>6. CASE CallPatchClaim
    <2>1. Calls("patchClaim")
          /\ claims' = [claims EXCEPT ![o.pod] = [claims[o.pod] EXCEPT !.rev = o.rev]]
        BY <1>6 DEF CallPatchClaim
    <2>2. o.pod \in Names /\ o.rev \in Revs /\ claims[o.pod] \in Claims
        BY <2>1, CallType, OpType, AcceptedType
    <2>3. claims' \in [Names -> Claims \cup {NoClaim}]
        BY <2>1, <2>2, ClaimUpdateType DEF TypeOK
    <2> QED BY <1>6, <2>1, <2>3, CallType DEF TypeOK, CallPatchClaim, counts
<1>7. CASE CallCreateClaim
    <2>1. Calls("createClaim")
          /\ claims' = [claims EXCEPT ![o.pod] =
                            [rev |-> o.rev, claimSpec |-> o.claimSpec, term |-> FALSE]]
        BY <1>7 DEF CallCreateClaim
    <2>2. o.pod \in Names /\ o.rev \in Revs /\ o.claimSpec \in {ClaimSpec[r] : r \in Revs}
        BY <2>1, CallType, OpType
    <2>3. claims' \in [Names -> Claims \cup {NoClaim}]
        BY <2>1, <2>2 DEF TypeOK, Claims
    <2> QED BY <1>7, <2>1, <2>3, CallType DEF TypeOK, CallCreateClaim, counts
<1>8. CASE CallDeleteClaim
    <2>1. Calls("deleteClaim")
          /\ claims' = [claims EXCEPT ![o.pod] = [claims[o.pod] EXCEPT !.term = TRUE]]
        BY <1>8 DEF CallDeleteClaim
    <2>2. o.pod \in Names /\ claims[o.pod] \in Claims
        BY <2>1, CallType, AcceptedType
    <2>3. claims' \in [Names -> Claims \cup {NoClaim}]
        BY <2>1, <2>2, ClaimUpdateType DEF TypeOK
    <2> QED BY <1>8, <2>1, <2>3, CallType DEF TypeOK, CallDeleteClaim, counts
<1>9. CASE CallCreateBkp
    <2>1. Calls("createBkp") /\ bkps' \in [Names -> BkpStates]
        BY <1>9 DEF CallCreateBkp, TypeOK, BkpStates
    <2> QED BY <1>9, <2>1, CallType DEF TypeOK, CallCreateBkp, counts
<1>10. CASE CallDeleteBkp
    <2>1. Calls("deleteBkp") /\ bkps' \in [Names -> BkpStates]
        BY <1>10 DEF CallDeleteBkp, TypeOK, BkpStates
    <2> QED BY <1>10, <2>1, CallType DEF TypeOK, CallDeleteBkp, counts
<1>11. CASE CallRefused
    BY <1>11 DEF TypeOK, CallRefused, EndPass, counts, world
<1>12. CASE UpdateStatus
    BY <1>12 DEF TypeOK, UpdateStatus, EndPass, counts
<1> QED BY <1>1, <1>2, <1>3, <1>4, <1>5, <1>6, <1>7, <1>8, <1>9, <1>10, <1>11, <1>12 DEF Call

LEMMA TypeEnvironment ==
    ASSUME TypeOK, Environment PROVE TypeOK'
<1>1. ASSUME NEW n \in Names, PodStarts(n) PROVE TypeOK'
    <2>1. pods[n] \in Pods
        BY <1>1 DEF PodStarts, Startable, TypeOK
    <2>2. PICK db \in BOOLEAN, w \in WsrepStates :
             Becomes(n, db, w) /\ bootstrapped' \in BOOLEAN
        <3>1. data[n].db \in BOOLEAN /\ bootstrapped \in BOOLEAN
              /\ \A m \in Primaries : data[m].db \in BOOLEAN
            BY DEF TypeOK, Primaries
        <3> QED BY <1>1, <3>1 DEF PodStarts, WsrepStates
    <2>3. Started(n, db) \in [ver : Revs \cup {NoRev}, db : BOOLEAN]
        <3>1. data[n].ver \in Revs \cup {NoRev} /\ pods[n].tmpl \in Revs
            BY <2>1 DEF TypeOK, Pods
        <3> QED BY <3>1 DEF Started
    <2>4. data' \in [Names -> [ver : Revs \cup {NoRev}, db : BOOLEAN]]
        BY <2>2, <2>3 DEF Becomes, TypeOK
    <2>5. pods' = [pods EXCEPT ![n] = [pods[n] EXCEPT !.phase = "Ready", !.wsrep = w]]
        BY <2>2 DEF Becomes, TypeOK
    <2>6. pods' \in [Names -> Pods \cup {NoPod}]
        BY <2>1, <2>5, PodUpdateType DEF TypeOK
    <2> QED BY <1>1, <2>2, <2>4, <2>6 DEF PodStarts, TypeOK, pass, counts
<1>2. ASSUME NEW n \in Names, PodIsGone(n) PROVE TypeOK'
    <2>1. pods' \in [Names -> Pods \cup {NoPod}]
        BY <1>2 DEF PodIsGone, TypeOK
    <2> QED BY <1>2, <2>1 DEF PodIsGone, TypeOK, pass, counts
<1>3. ASSUME NEW n \in Names, ClaimIsGone(n) PROVE TypeOK'
    <2>1. NoData \in [ver : Revs \cup {NoRev}, db : BOOLEAN] /\ "none" \in BkpStates
        BY DEF NoData, BkpStates
    <2>2. /\ claims' \in [Names -> Claims \cup {NoClaim}]
          /\ bkps' \in [Names -> BkpStates]
          /\ data' \in [Names -> [ver : Revs \cup {NoRev}, db : BOOLEAN]]
        <3>1. CASE /\ claims' = [claims EXCEPT ![n] = NoClaim]
                   /\ data' = [data EXCEPT ![n] = NoData]
                   /\ bkps' = bkps
            BY <2>1, <3>1 DEF TypeOK
        <3>2. CASE bkps' = [bkps EXCEPT ![n] = "none"] /\ claims' = claims /\ data' = data
            BY <2>1, <3>2 DEF TypeOK
        <3> QED BY <1>3, <3>1, <3>2 DEF ClaimIsGone
    <2> QED BY <1>3, <2>2 DEF ClaimIsGone, TypeOK, pass, counts
<1>4. ASSUME NEW n \in Names, PodFails(n) PROVE TypeOK'
    <2>1. pods[n] \in Pods
        BY <1>4 DEF PodFails, TypeOK
    <2>2. pods' = [pods EXCEPT ![n] = [pods[n] EXCEPT !.phase = "Failed", !.wsrep = "Disconnected"]]
        BY <1>4 DEF PodFails, TypeOK
    <2>3. pods' \in [Names -> Pods \cup {NoPod}]
        BY <2>1, <2>2, PodUpdateType DEF TypeOK
    <2>4. failures' \in Nat
        BY <1>4 DEF PodFails, TypeOK
    <2> QED BY <1>4, <2>3, <2>4 DEF PodFails, TypeOK, pass
<1>5. ASSUME NEW n \in Names, LosesPrimary(n) \/ RegainsPrimary(n) PROVE TypeOK'
    <2>1. pods[n] \in Pods
        BY <1>5 DEF LosesPrimary, RegainsPrimary, Primaries, TypeOK
    <2>2. PICK b \in WsrepStates : pods' = [pods EXCEPT ![n] = [pods[n] EXCEPT !.wsrep = b]]
        BY <1>5 DEF LosesPrimary, RegainsPrimary, WsrepStates
    <2>3. pods' \in [Names -> Pods \cup {NoPod}]
        BY <2>1, <2>2, PodUpdateType DEF TypeOK
    <2> QED BY <1>5, <2>3 DEF LosesPrimary, RegainsPrimary, TypeOK, pass, counts
<1>6. CASE UserEdits
    <2>1. spec' \in [rev : Revs, replicas : Nat \ {0}, gen : Nat]
        <3>1. PICK e \in Edits : spec' = [spec EXCEPT !.rev = e[2], !.gen = spec.gen + 1]
            BY <1>6 DEF UserEdits
        <3>2. e[2] \in Revs
            BY RevsAssumption
        <3>3. spec \in [rev : Revs, replicas : Nat \ {0}, gen : Nat]
            BY DEF TypeOK
        <3>4. \A x \in Revs, g \in Nat : [spec EXCEPT !.rev = x, !.gen = g]
                                       \in [rev : Revs, replicas : Nat \ {0}, gen : Nat]
            BY <3>3
        <3>5. spec.gen + 1 \in Nat
            BY <3>3
        <3> QED BY <3>1, <3>2, <3>4, <3>5, Zenon
    <2> QED BY <1>6, <2>1 DEF UserEdits, TypeOK, pass, counts
<1>7. CASE UserScales
    <2>1. spec' \in [rev : Revs, replicas : Nat \ {0}, gen : Nat]
        <3>1. PICK e \in Scales : spec' = [spec EXCEPT !.replicas = e[2], !.gen = spec.gen + 1]
            BY <1>7 DEF UserScales
        <3>2. e[2] \in Nat \ {0}
            BY SizeAssumption
        <3>3. spec \in [rev : Revs, replicas : Nat \ {0}, gen : Nat]
            BY DEF TypeOK
        <3>4. \A x \in Nat \ {0}, g \in Nat : [spec EXCEPT !.replicas = x, !.gen = g]
                                       \in [rev : Revs, replicas : Nat \ {0}, gen : Nat]
            BY <3>3
        <3>5. spec.gen + 1 \in Nat
            BY <3>3
        <3> QED BY <3>1, <3>2, <3>4, <3>5, Zenon
    <2> QED BY <1>7, <2>1 DEF UserScales, TypeOK, pass, counts
<1>8. CASE InformerCatchesUp
    <2>1. seen' \in [pods : [Names -> Pods \cup {NoPod}], claims : [Names -> Claims \cup {NoClaim}],
                     bkps : [Names -> BkpStates],
                     spec : [rev : Revs, replicas : Nat \ {0}, gen : Nat], status : Statuses]
        BY <1>8 DEF InformerCatchesUp, TypeOK
    <2> QED BY <1>8, <2>1 DEF InformerCatchesUp, TypeOK, world, pass, counts
<1> QED BY <1>1, <1>2, <1>3, <1>4, <1>5, <1>6, <1>7, <1>8 DEF Environment

LEMMA TypeInit ==
    ASSUME Init PROVE TypeOK
<1>1. Status0 \in Statuses /\ Spec0 \in [rev : Revs, replicas : Nat \ {0}, gen : Nat]
    BY FreshStatus0, RevsAssumption, SizeAssumption DEF Spec0
<1>2. NoData \in [ver : Revs \cup {NoRev}, db : BOOLEAN] /\ "none" \in BkpStates
    BY DEF NoData, BkpStates
<1>3. << >> \in Seq(Ops) /\ << >> \in Seq([op : {"patchPod"}, pod : Names, labels : Labels])
    OBVIOUS
<1> QED BY <1>1, <1>2, <1>3 DEF Init, TypeOK

LEMMA TypeNext ==
    ASSUME TypeOK, [Next]_vars PROVE TypeOK'
<1>1. CASE Sync
    BY <1>1, SyncType DEF Sync, TypeOK, world, counts
<1>2. CASE Call
    BY <1>2, TypeCalls
<1>3. CASE SyncFails
    BY <1>3 DEF SyncFails, EndPass, TypeOK, world
<1>4. CASE Environment
    BY <1>4, TypeEnvironment
<1>5. CASE UNCHANGED vars
    BY <1>5 DEF vars, TypeOK
<1> QED BY <1>1, <1>2, <1>3, <1>4, <1>5 DEF Next

(* Type correctness: whatever the passes, Kubernetes, MariaDB and the user *)
(* do, every object keeps the shape the code gives it.                     *)
THEOREM TypeCorrect == Spec => []TypeOK
BY TypeInit, TypeNext, PTL DEF Spec

-----------------------------------------------------------------------------
(***************************************************************************)
(* UpgradeInv is inductive.                                                *)
(***************************************************************************)

(* A cache keeps what it holds or catches up with the API server. *)
CacheStep ==
    /\ CachedPods' \in {CachedPods, pods'}
    /\ CachedClaims' \in {CachedClaims, claims'}
    /\ CachedSpec' \in {CachedSpec, spec'}

LEMMA CacheSteps ==
    ASSUME TypeOK, [Next]_vars PROVE CacheStep
<1>1. CASE seen' = seen
    BY <1>1 DEF CacheStep, CachedPods, CachedClaims, CachedSpec
<1>2. CASE InformerCatchesUp
    <2>1. UNCHANGED <<pods, claims, spec>>
        BY <1>2 DEF InformerCatchesUp, world
    <2>2. /\ seen'.pods \in {seen.pods, pods}
          /\ seen'.claims \in {seen.claims, claims}
          /\ seen'.spec \in {seen.spec, spec}
        BY <1>2 DEF InformerCatchesUp, TypeOK
    <2> QED BY <2>1, <2>2 DEF CacheStep, CachedPods, CachedClaims, CachedSpec
<1>3. Next => seen' = seen \/ InformerCatchesUp
    BY DEF Next, Sync, Call, SyncFails, Environment, PatchPodLabels, CallDeletePod, CallCreatePod,
           CallCheckSynced, CallMysqlUpgrade, CallPatchClaim, CallCreateClaim, CallDeleteClaim,
           CallCreateBkp, CallDeleteBkp, CallRefused, UpdateStatus, PodStarts, PodIsGone,
           ClaimIsGone, PodFails, LosesPrimary, RegainsPrimary, UserEdits, UserScales
<1> QED BY <1>1, <1>2, <1>3 DEF vars

(* Revisions are numbers, and a claim is not the absent one. *)
Numbers ==
    /\ spec.rev \in Nat /\ CachedSpec.rev \in Nat
    /\ \A n \in Names :
        /\ claims[n].rev \in Nat /\ CachedClaims[n].rev \in Nat /\ data[n].ver \in Nat
        /\ claims[n] = NoClaim => claims[n].rev = NoRev
        /\ claims[n] # NoClaim => claims[n].rev # NoRev
        /\ pods[n] # NoPod => pods[n].tmpl \in Nat \ {NoRev} /\ pods[n].rev \in Nat
        /\ CachedPods[n] # NoPod => CachedPods[n].rev \in Nat
    /\ \A i \in 1..Len(patches) : patches[i].pod \in Names /\ patches[i].labels.rev \in Nat
    /\ \A i \in 1..Len(todo) :
        /\ todo[i].pod \in Names
        /\ todo[i].op \in {"patchClaim", "createClaim"} => todo[i].rev \in Nat
        /\ todo[i].op = "createPod" => todo[i].new \in Pods /\ todo[i].new.tmpl \in Nat
    /\ Len(patches) \in Nat /\ Len(todo) \in Nat

LEMMA TypeNumbers ==
    ASSUME TypeOK PROVE Numbers
<1>1. NoRev = 0 /\ \A r \in Revs : r \in Nat /\ r # NoRev
    BY RevsAssumption DEF NoRev
<1>2. \A p \in Pods : p.tmpl \in Revs /\ p.rev \in Revs
    BY DEF Pods
<1>3. \A c \in Claims \cup {NoClaim} : /\ c.rev \in Nat
                                       /\ c = NoClaim => c.rev = NoRev
                                       /\ c # NoClaim => c.rev # NoRev
    BY <1>1 DEF Claims, NoClaim
<1>4. spec.rev \in Nat /\ CachedSpec.rev \in Nat
    BY <1>1, CachedType DEF TypeOK
<1>5. ASSUME NEW n \in Names
      PROVE  /\ claims[n].rev \in Nat /\ CachedClaims[n].rev \in Nat /\ data[n].ver \in Nat
             /\ claims[n] = NoClaim => claims[n].rev = NoRev
             /\ claims[n] # NoClaim => claims[n].rev # NoRev
             /\ pods[n] # NoPod => pods[n].tmpl \in Nat \ {NoRev} /\ pods[n].rev \in Nat
             /\ CachedPods[n] # NoPod => CachedPods[n].rev \in Nat
    <2>1. claims[n] \in Claims \cup {NoClaim} /\ CachedClaims[n] \in Claims \cup {NoClaim}
          /\ pods[n] \in Pods \cup {NoPod} /\ CachedPods[n] \in Pods \cup {NoPod}
        BY CachedType DEF TypeOK
    <2>2. data[n] \in [ver : Revs \cup {NoRev}, db : BOOLEAN]
        BY DEF TypeOK
    <2>3. data[n].ver \in Nat
        BY <1>1, <2>2
    <2> QED BY <1>1, <1>2, <1>3, <2>1, <2>3
<1>6. ASSUME NEW i \in 1..Len(patches)
      PROVE  patches[i].pod \in Names /\ patches[i].labels.rev \in Nat
    <2> DEFINE Q == [op : {"patchPod"}, pod : Names, labels : Labels]
    <2>1. patches \in Seq(Q)
        BY DEF TypeOK
    <2> HIDE DEF Q
    <2>2. patches[i] \in Q
        BY <2>1
    <2> QED BY <1>1, <2>2 DEF Labels, Q
<1>7. ASSUME NEW i \in 1..Len(todo)
      PROVE  /\ todo[i].pod \in Names
             /\ todo[i].op \in {"patchClaim", "createClaim"} => todo[i].rev \in Nat
             /\ todo[i].op = "createPod" => todo[i].new \in Pods /\ todo[i].new.tmpl \in Nat
    <2>1. todo[i] \in Ops
        BY DEF TypeOK
    <2> QED BY <1>1, <1>2, <2>1, OpType
<1>8. Len(patches) \in Nat /\ Len(todo) \in Nat
    BY DEF TypeOK
<1> QED BY <1>4, <1>5, <1>6, <1>7, <1>8 DEF Numbers

(* The invariant of the objects after a step, with the caches before it:   *)
(* it is enough, because a cache either stays or takes the new objects.    *)
ObjectsNext ==
    \A n \in Names :
        /\ pods'[n] # NoPod =>
              /\ pods'[n].phase # "Pending" => claims'[n] # NoClaim
              /\ pods'[n].rev <= pods'[n].tmpl
              /\ CachedPods[n] # NoPod => CachedPods[n].rev <= pods'[n].tmpl
              /\ claims'[n].rev <= pods'[n].tmpl
              /\ CachedClaims[n].rev <= pods'[n].tmpl
              /\ data'[n].ver <= pods'[n].tmpl
        /\ data'[n].ver # NoRev =>
              claims'[n].rev <= data'[n].ver /\ CachedClaims[n].rev <= data'[n].ver
        /\ claims'[n] = NoClaim => data'[n].ver = NoRev
        /\ (pods'[n] # NoPod /\ pods'[n].state = "cluster") =>
              \/ data'[n].ver = pods'[n].tmpl
              \/ pods'[n].phase = "Pending" /\ data'[n].ver = NoRev

NextUpTo(b) ==
    \A n \in Names :
        /\ pods'[n] # NoPod => pods'[n].tmpl <= b
        /\ claims'[n].rev <= b
        /\ data'[n].ver <= b

UpToNext(b) ==
    \A n \in Names :
        /\ pods'[n] # NoPod => pods'[n].tmpl <= b
        /\ CachedPods'[n] # NoPod => CachedPods'[n].rev <= b
        /\ claims'[n].rev <= b
        /\ CachedClaims'[n].rev <= b
        /\ data'[n].ver <= b

LEMMA UpToStep ==
    ASSUME Numbers', CacheStep, ObjectsNext, NEW b \in Nat, UpTo(b), NextUpTo(b)
    PROVE  UpToNext(b)
<1>1. SUFFICES ASSUME NEW n \in Names
               PROVE  /\ CachedPods'[n] # NoPod => CachedPods'[n].rev <= b
                      /\ CachedClaims'[n].rev <= b
    BY DEF NextUpTo, UpToNext
<1>2. CachedPods'[n] # NoPod => CachedPods'[n].rev <= b
    <2>1. CASE CachedPods' = CachedPods
        BY <2>1 DEF UpTo
    <2>2. CASE CachedPods' = pods'
        BY <2>2 DEF ObjectsNext, NextUpTo, Numbers
    <2> QED BY <2>1, <2>2 DEF CacheStep
<1>3. CachedClaims'[n].rev <= b
    BY DEF CacheStep, UpTo, NextUpTo
<1> QED BY <1>2, <1>3

LEMMA ObjectStep ==
    ASSUME Numbers, Numbers', DetourInv, CacheStep, ObjectsNext,
           spec.rev <= spec'.rev, NextUpTo(CachedSpec.rev)
    PROVE  SpecInv' /\ PodInv' /\ LabelInv' /\ VolumeInv'
<1>1. CachedSpec.rev <= CachedSpec'.rev /\ CachedSpec'.rev <= spec'.rev
    BY DEF DetourInv, SpecInv, CacheStep, Numbers
<1>2. UpToNext(CachedSpec.rev)
    BY UpToStep DEF DetourInv, SpecInv, Numbers
<1>3. UpToNext(CachedSpec'.rev)
    <2>1. CachedSpec.rev \in Nat /\ CachedSpec'.rev \in Nat
        BY DEF Numbers
    <2>2. \A k \in Nat : k <= CachedSpec.rev => k <= CachedSpec'.rev
        BY <1>1, <2>1
    <2> QED BY <1>2, <2>2 DEF UpToNext, Numbers
<1>4. SpecInv'
    BY <1>1, <1>3 DEF SpecInv, UpTo, UpToNext
<1>5. PodInv'
    <2>1. SUFFICES ASSUME NEW n \in Names, pods'[n] # NoPod
                   PROVE  /\ CachedPods'[n] # NoPod => CachedPods'[n].rev <= pods'[n].tmpl
                          /\ CachedClaims'[n].rev <= pods'[n].tmpl
        BY DEF PodInv, ObjectsNext
    <2>2. CachedPods'[n] # NoPod => CachedPods'[n].rev <= pods'[n].tmpl
        BY <2>1 DEF CacheStep, ObjectsNext
    <2>3. CachedClaims'[n].rev <= pods'[n].tmpl
        BY <2>1 DEF CacheStep, ObjectsNext
    <2> QED BY <2>2, <2>3
<1>6. LabelInv'
    BY DEF CacheStep, ObjectsNext, LabelInv
<1>7. VolumeInv'
    BY DEF ObjectsNext, VolumeInv
<1> QED BY <1>4, <1>5, <1>6, <1>7

(***************************************************************************)
(* The calls still to be made, when the step creates no pod: they are the  *)
(* calls of before, without the first k.                                   *)
(***************************************************************************)
NoNewPod ==
    \A n \in Names : pods'[n] # NoPod => pods[n] # NoPod /\ pods'[n].tmpl = pods[n].tmpl
PatchesLeft ==
    \A i \in 1..Len(patches') : \E j \in 1..Len(patches) : patches'[i] = patches[j]
TodoLeft(k) ==
    /\ Len(todo') = Len(todo) - k
    /\ \A i \in 1..Len(todo') : todo'[i] = todo[i + k]
PodsToCreate ==
    \A i \in 1..Len(todo') : todo'[i].op = "createPod" =>
        LET n == todo'[i].pod
            p == todo'[i].new
        IN  /\ NextUpTo(p.tmpl)
            /\ (p.state = "cluster" /\ (pods'[n] = NoPod \/ pods'[n].term))
                   => data'[n].ver \in {NoRev, p.tmpl}
ClaimsToPatch ==
    \A i \in 1..Len(todo') : todo'[i].op = "patchClaim" =>
        LET n == todo'[i].pod
            r == todo'[i].rev
        IN  \/ \E j \in 1..(i - 1) : todo'[j].op = "mysqlUpgrade" /\ todo'[j].pod = n
            \/ data'[n].ver = NoRev
            \/ r <= data'[n].ver

LEMMA CallStep ==
    ASSUME Numbers, Numbers', DetourInv, CacheStep, ObjectsNext, spec.rev <= spec'.rev,
           NoNewPod, PatchesLeft, NEW k \in Nat, TodoLeft(k), PodsToCreate, ClaimsToPatch
    PROVE  PatchInv' /\ CreatePodInv' /\ CreateClaimInv' /\ PatchClaimInv'
<1>1. CachedSpec.rev \in Nat /\ CachedSpec'.rev \in Nat /\ CachedSpec.rev <= CachedSpec'.rev
    BY DEF DetourInv, SpecInv, CacheStep, Numbers
<1>2. Len(todo) \in Nat /\ Len(todo') \in Nat
    BY DEF Numbers
<1>3. \A i \in 1..Len(todo') : i + k \in 1..Len(todo) /\ todo'[i] = todo[i + k]
    BY <1>2 DEF TodoLeft
<1>4. PatchInv'
    <2>1. SUFFICES ASSUME NEW i \in 1..Len(patches'), pods'[patches'[i].pod] # NoPod
                   PROVE  patches'[i].labels.rev <= pods'[patches'[i].pod].tmpl
        BY DEF PatchInv
    <2>2. PICK j \in 1..Len(patches) : patches'[i] = patches[j]
        BY DEF PatchesLeft
    <2>3. patches[j].pod \in Names
        BY DEF Numbers
    <2> QED BY <2>1, <2>2, <2>3 DEF NoNewPod, DetourInv, PatchInv
<1>5. CreatePodInv'
    <2>1. SUFFICES ASSUME NEW i \in 1..Len(todo'), todo'[i].op = "createPod"
                   PROVE  LET n == todo'[i].pod
                              p == todo'[i].new
                          IN  /\ i = Len(todo')
                              /\ \A j \in 1..Len(todo') :
                                    todo'[j].op \in {"createClaim", "createBkp", "createPod"}
                              /\ \A j \in 1..Len(todo') :
                                    todo'[j].op = "createClaim" => todo'[j].rev = p.tmpl
                              /\ p.rev = p.tmpl /\ p.tmpl <= CachedSpec'.rev
                              /\ p.phase = "Pending"
                              /\ UpToNext(p.tmpl)
                              /\ (p.state = "cluster" /\ (pods'[n] = NoPod \/ pods'[n].term))
                                     => data'[n].ver \in {NoRev, p.tmpl}
        BY DEF CreatePodInv, UpTo, UpToNext
    <2> DEFINE n == todo'[i].pod
               p == todo'[i].new
    <2>2. todo[i + k].op = "createPod" /\ todo[i + k].new = p
        BY <1>3, <2>1
    <2>3. /\ i + k = Len(todo)
          /\ \A j \in 1..Len(todo) : todo[j].op \in {"createClaim", "createBkp", "createPod"}
          /\ \A j \in 1..Len(todo) : todo[j].op = "createClaim" => todo[j].rev = p.tmpl
          /\ p.rev = p.tmpl /\ p.tmpl <= CachedSpec.rev /\ p.phase = "Pending"
          /\ UpTo(p.tmpl)
        BY <1>3, <2>2 DEF DetourInv, CreatePodInv
    <2>4. p.tmpl \in Nat
        BY <2>1 DEF Numbers
    <2>5. /\ NextUpTo(p.tmpl)
          /\ (p.state = "cluster" /\ (pods'[n] = NoPod \/ pods'[n].term))
                => data'[n].ver \in {NoRev, p.tmpl}
        BY <2>1 DEF PodsToCreate
    <2>6. UpToNext(p.tmpl)
        BY <2>3, <2>4, <2>5, UpToStep
    <2>7. i = Len(todo')
        BY <1>2, <2>3 DEF TodoLeft
    <2> HIDE DEF n, p
    <2>8. \A j \in 1..Len(todo') :
             /\ todo'[j].op \in {"createClaim", "createBkp", "createPod"}
             /\ todo'[j].op = "createClaim" => todo'[j].rev = p.tmpl
        BY <1>3, <2>3
    <2>9. p.tmpl <= CachedSpec'.rev
        BY <1>1, <2>3, <2>4
    <2> QED BY <2>3, <2>5, <2>6, <2>7, <2>8, <2>9 DEF n, p
<1>6. CreateClaimInv'
    <2>1. SUFFICES ASSUME NEW i \in 1..Len(todo'), todo'[i].op = "createClaim"
                   PROVE  todo'[i].rev <= CachedSpec'.rev /\ pods'[todo'[i].pod] = NoPod
        BY DEF CreateClaimInv
    <2>2. todo'[i].rev <= CachedSpec.rev /\ pods[todo'[i].pod] = NoPod
        BY <1>3, <2>1 DEF DetourInv, CreateClaimInv
    <2>3. todo'[i].rev \in Nat /\ todo'[i].pod \in Names
        BY <2>1 DEF Numbers
    <2> QED BY <1>1, <2>2, <2>3 DEF NoNewPod
<1>7. PatchClaimInv'
    <2>1. SUFFICES ASSUME NEW i \in 1..Len(todo'), todo'[i].op = "patchClaim"
                   PROVE  LET n == todo'[i].pod
                              r == todo'[i].rev
                          IN  /\ r <= CachedSpec'.rev
                              /\ \A j \in 1..Len(todo') :
                                    todo'[j].op \in {"mysqlUpgrade", "deletePod", "patchClaim"}
                              /\ pods'[n] # NoPod => r <= pods'[n].tmpl
        BY DEF PatchClaimInv, ClaimsToPatch
    <2> DEFINE n == todo'[i].pod
               r == todo'[i].rev
    <2>2. /\ r <= CachedSpec.rev
          /\ \A j \in 1..Len(todo) : todo[j].op \in {"mysqlUpgrade", "deletePod", "patchClaim"}
          /\ pods[n] # NoPod => r <= pods[n].tmpl
        BY <1>3, <2>1 DEF DetourInv, PatchClaimInv
    <2>3. r \in Nat /\ n \in Names
        BY <2>1 DEF Numbers
    <2>4. \A j \in 1..Len(todo') : todo'[j].op \in {"mysqlUpgrade", "deletePod", "patchClaim"}
        BY <1>3, <2>2
    <2>5. pods'[n] # NoPod => r <= pods'[n].tmpl
        BY <2>2, <2>3 DEF NoNewPod
    <2> QED BY <1>1, <2>2, <2>3, <2>4, <2>5
<1> QED BY <1>4, <1>5, <1>6, <1>7

LEMMA StepInv ==
    ASSUME Numbers, Numbers', DetourInv, CacheStep, ObjectsNext, spec.rev <= spec'.rev,
           NextUpTo(CachedSpec.rev), NoNewPod, PatchesLeft, NEW k \in Nat, TodoLeft(k),
           PodsToCreate, ClaimsToPatch
    PROVE  DetourInv'
BY ObjectStep, CallStep DEF DetourInv

(* A step that leaves the revisions on pods, claims and volumes alone. *)
Kept ==
    \A n \in Names :
        /\ pods'[n] # NoPod <=> pods[n] # NoPod
        /\ pods[n] # NoPod => /\ pods'[n].tmpl = pods[n].tmpl /\ pods'[n].state = pods[n].state
                              /\ pods'[n].rev = pods[n].rev
                              /\ pods'[n].phase = "Pending" <=> pods[n].phase = "Pending"
        /\ claims'[n].rev = claims[n].rev /\ (claims'[n] = NoClaim <=> claims[n] = NoClaim)
        /\ data'[n].ver = data[n].ver

(* No pod that a call is about to create anew starts to terminate. *)
TermKept ==
    \A n \in Names : (pods'[n] # NoPod /\ pods'[n].term) =>
        pods[n].term \/ \A i \in 1..Len(todo) : todo[i].op # "createPod"

LEMMA Neutral ==
    ASSUME Numbers, Numbers', DetourInv, CacheStep, spec.rev <= spec'.rev,
           Kept, TermKept, PatchesLeft, NEW k \in Nat, TodoLeft(k),
           Len(todo') = 0 \/ \A j \in 1..k : todo[j].op # "mysqlUpgrade"
    PROVE  DetourInv'
<1>1. ObjectsNext
    BY DEF Kept, DetourInv, PodInv, LabelInv, VolumeInv, ObjectsNext
<1>2. \A b \in Nat : UpTo(b) => NextUpTo(b)
    BY DEF Kept, UpTo, NextUpTo
<1>3. NextUpTo(CachedSpec.rev)
    BY <1>2 DEF DetourInv, SpecInv, Numbers
<1>4. NoNewPod
    BY DEF Kept, NoNewPod
<1>5. Len(todo) \in Nat /\ Len(todo') \in Nat
    BY DEF Numbers
<1>6. \A i \in 1..Len(todo') : i + k \in 1..Len(todo) /\ todo'[i] = todo[i + k]
    BY <1>5 DEF TodoLeft
<1>7. PodsToCreate
    <2>1. SUFFICES ASSUME NEW i \in 1..Len(todo'), todo'[i].op = "createPod"
                   PROVE  LET n == todo'[i].pod
                              p == todo'[i].new
                          IN  /\ NextUpTo(p.tmpl)
                              /\ (p.state = "cluster" /\ (pods'[n] = NoPod \/ pods'[n].term))
                                     => data'[n].ver \in {NoRev, p.tmpl}
        BY DEF PodsToCreate
    <2> DEFINE n == todo'[i].pod
               p == todo'[i].new
    <2>2. /\ UpTo(p.tmpl)
          /\ (p.state = "cluster" /\ (pods[n] = NoPod \/ pods[n].term))
                 => data[n].ver \in {NoRev, p.tmpl}
        BY <1>6, <2>1 DEF DetourInv, CreatePodInv
    <2>3. p.tmpl \in Nat /\ n \in Names
        BY <2>1 DEF Numbers
    <2>4. (pods'[n] = NoPod \/ pods'[n].term) => (pods[n] = NoPod \/ pods[n].term)
        BY <1>6, <2>1, <2>3 DEF Kept, TermKept
    <2>5. data'[n].ver = data[n].ver
        BY <2>3 DEF Kept
    <2> QED BY <1>2, <2>2, <2>3, <2>4, <2>5
<1>8. ClaimsToPatch
    <2>1. SUFFICES ASSUME NEW i \in 1..Len(todo'), todo'[i].op = "patchClaim"
                   PROVE  LET n == todo'[i].pod
                              r == todo'[i].rev
                          IN  \/ \E j \in 1..(i - 1) : todo'[j].op = "mysqlUpgrade"
                                                        /\ todo'[j].pod = n
                              \/ data'[n].ver = NoRev
                              \/ r <= data'[n].ver
        BY DEF ClaimsToPatch
    <2> DEFINE n == todo'[i].pod
               r == todo'[i].rev
    <2>2. \/ \E j \in 1..(i + k - 1) : todo[j].op = "mysqlUpgrade" /\ todo[j].pod = n
          \/ data[n].ver = NoRev
          \/ r <= data[n].ver
        BY <1>6, <2>1 DEF DetourInv, PatchClaimInv
    <2>3. n \in Names
        BY <2>1 DEF Numbers
    <2>4. data'[n].ver = data[n].ver
        BY <2>3 DEF Kept
    <2>5. ASSUME NEW j \in 1..(i + k - 1), todo[j].op = "mysqlUpgrade", todo[j].pod = n
          PROVE  \E m \in 1..(i - 1) : todo'[m].op = "mysqlUpgrade" /\ todo'[m].pod = n
        <3>1. j > k
            BY <2>1, <2>5, <1>5
        <3>2. j - k \in 1..(i - 1) /\ j - k \in 1..Len(todo')
            BY <1>5, <3>1
        <3>3. todo'[j - k] = todo[j]
            BY <1>5, <1>6, <3>2
        <3> QED BY <2>5, <3>2, <3>3
    <2> QED BY <2>2, <2>4, <2>5
<1> QED BY <1>1, <1>3, <1>4, <1>7, <1>8, StepInv

LEMMA PassStep ==
    ASSUME TypeOK
    PROVE  /\ patches' = patches => PatchesLeft
           /\ patches' = << >> => PatchesLeft
           /\ (patches # << >> /\ patches' = Tail(patches)) => PatchesLeft
           /\ todo' = todo => TodoLeft(0)
           /\ todo' = << >> => TodoLeft(Len(todo)) /\ Len(todo') = 0
           /\ (todo # << >> /\ todo' = Tail(todo)) => TodoLeft(1) /\ todo[1] = Head(todo)
<1> DEFINE Q == [op : {"patchPod"}, pod : Names, labels : Labels]
<1>1. patches \in Seq(Q) /\ todo \in Seq(Ops)
    BY DEF TypeOK
<1> HIDE DEF Q
<1>2. Len(patches) \in Nat /\ Len(todo) \in Nat
    BY <1>1, LenProperties
<1>3. patches' = patches => PatchesLeft
    BY DEF PatchesLeft
<1>4. patches' = << >> => PatchesLeft
    BY DEF PatchesLeft
<1>5. (patches # << >> /\ patches' = Tail(patches)) => PatchesLeft
    <2>1. SUFFICES ASSUME patches # << >>, patches' = Tail(patches), NEW i \in 1..Len(patches')
                   PROVE  \E j \in 1..Len(patches) : patches'[i] = patches[j]
        BY DEF PatchesLeft
    <2>2. Len(patches') = Len(patches) - 1 /\ patches'[i] = patches[i + 1]
        BY <1>1, <2>1, HeadTailProperties
    <2> QED BY <1>2, <2>2
<1>6. todo' = todo => TodoLeft(0)
    BY <1>2 DEF TodoLeft
<1>7. todo' = << >> => TodoLeft(Len(todo)) /\ Len(todo') = 0
    BY <1>2 DEF TodoLeft
<1>8. (todo # << >> /\ todo' = Tail(todo)) => TodoLeft(1) /\ todo[1] = Head(todo)
    BY <1>1, HeadTailProperties DEF TodoLeft
<1> QED BY <1>3, <1>4, <1>5, <1>6, <1>7, <1>8

(* What the actions change in a pod, and what they leave. *)
Same(p, q) == q \in Pods /\ q # NoPod /\ q.tmpl = p.tmpl /\ q.state = p.state

LEMMA PodFields ==
    \A p \in Pods : p # NoPod
BY DEF Pods, NoPod

LEMMA Deleted ==
    ASSUME NEW p \in Pods, NEW q, q = [p EXCEPT !.term = TRUE]
    PROVE  Same(p, q) /\ q.rev = p.rev /\ q.phase = p.phase
<1>1. q \in Pods
    BY PodUpdateType
<1>2. q # NoPod
    BY <1>1, PodFields
<1>3. q.tmpl = p.tmpl /\ q.state = p.state /\ q.rev = p.rev /\ q.phase = p.phase
    BY DEF Pods, Labels
<1> QED BY <1>1, <1>2, <1>3 DEF Same

LEMMA Fails ==
    ASSUME NEW p \in Pods, NEW q, q = [p EXCEPT !.phase = "Failed", !.wsrep = "Disconnected"]
    PROVE  Same(p, q) /\ q.rev = p.rev /\ q.phase = "Failed" /\ q.term = p.term
<1>1. q \in Pods
    BY PodUpdateType
<1>2. q # NoPod
    BY <1>1, PodFields
<1>3. q.tmpl = p.tmpl /\ q.state = p.state /\ q.rev = p.rev /\ q.phase = "Failed" /\ q.term = p.term
    BY DEF Pods, Labels
<1> QED BY <1>1, <1>2, <1>3 DEF Same

LEMMA Component ==
    ASSUME NEW p \in Pods, NEW b \in WsrepStates, NEW q, q = [p EXCEPT !.wsrep = b]
    PROVE  Same(p, q) /\ q.rev = p.rev /\ q.phase = p.phase /\ q.term = p.term
<1>1. q \in Pods
    BY PodUpdateType
<1>2. q # NoPod
    BY <1>1, PodFields
<1>3. q.tmpl = p.tmpl /\ q.state = p.state /\ q.rev = p.rev /\ q.phase = p.phase /\ q.term = p.term
    BY DEF Pods, Labels
<1> QED BY <1>1, <1>2, <1>3 DEF Same

(* Steps of the environment and of the user that are neutral. *)
LEMMA NeutralEnvironment ==
    ASSUME ForwardEdits, TypeOK, Numbers, Numbers', DetourInv, CacheStep,
           \/ \E n \in Names : PodFails(n) \/ LosesPrimary(n) \/ RegainsPrimary(n)
           \/ UserEdits \/ UserScales \/ InformerCatchesUp
    PROVE  DetourInv'
<1>1. patches' = patches /\ todo' = todo /\ claims' = claims /\ data' = data
    BY DEF PodFails, LosesPrimary, RegainsPrimary, UserEdits, UserScales, InformerCatchesUp,
           pass, world
<1>2. spec.rev <= spec'.rev
    <2>1. CASE UserEdits
        <3>1. PICK e \in Edits : e[1] = spec.rev /\ spec' = [spec EXCEPT !.rev = e[2], !.gen = @ + 1]
            BY <2>1 DEF UserEdits
        <3>2. spec \in [rev : Revs, replicas : Nat \ {0}, gen : Nat]
            BY DEF TypeOK
        <3>3. spec'.rev = e[2]
            BY <3>1, <3>2
        <3> QED BY <3>1, <3>3 DEF ForwardEdits
    <2>2. CASE UserScales
        <3>1. PICK e \in Scales : spec' = [spec EXCEPT !.replicas = e[2], !.gen = @ + 1]
            BY <2>2 DEF UserScales
        <3>2. spec \in [rev : Revs, replicas : Nat \ {0}, gen : Nat]
            BY DEF TypeOK
        <3>3. spec'.rev = spec.rev
            BY <3>1, <3>2
        <3> QED BY <3>3 DEF Numbers
    <2>3. CASE spec' = spec
        BY <2>3 DEF Numbers
    <2> QED BY <2>1, <2>2, <2>3 DEF PodFails, LosesPrimary, RegainsPrimary, InformerCatchesUp, world
<1>3. Kept /\ TermKept
    <2>1. CASE pods' = pods
        BY <1>1, <2>1 DEF Kept, TermKept
    <2>2. ASSUME NEW n \in Names, PodFails(n) \/ LosesPrimary(n) \/ RegainsPrimary(n)
          PROVE  Kept /\ TermKept
        <3> DEFINE p == pods[n]
        <3>1. p \in Pods /\ p # NoPod
            BY <2>2 DEF PodFails, LosesPrimary, RegainsPrimary, Primaries, TypeOK
        <3>2. \/ /\ p.phase = "Ready"
                 /\ pods' = [pods EXCEPT ![n] = [p EXCEPT !.phase = "Failed", !.wsrep = "Disconnected"]]
              \/ \E b \in WsrepStates : pods' = [pods EXCEPT ![n] = [p EXCEPT !.wsrep = b]]
            BY <2>2 DEF PodFails, LosesPrimary, RegainsPrimary, TypeOK, WsrepStates
        <3> HIDE DEF p
        <3>3. /\ \A m \in Names \ {n} : pods'[m] = pods[m]
              /\ Same(p, pods'[n]) /\ pods'[n].rev = p.rev /\ pods'[n].term = p.term
              /\ pods'[n].phase = "Pending" <=> p.phase = "Pending"
            <4>1. CASE /\ p.phase = "Ready"
                       /\ pods' = [pods EXCEPT ![n] = [p EXCEPT !.phase = "Failed", !.wsrep = "Disconnected"]]
                <5>1. pods'[n] = [p EXCEPT !.phase = "Failed", !.wsrep = "Disconnected"]
                      /\ \A m \in Names \ {n} : pods'[m] = pods[m]
                    BY <4>1 DEF TypeOK
                <5>2. /\ Same(p, pods'[n]) /\ pods'[n].rev = p.rev /\ pods'[n].term = p.term
                      /\ pods'[n].phase = "Failed"
                    BY <3>1, <5>1, Fails
                <5> QED BY <4>1, <5>1, <5>2
            <4>2. ASSUME NEW b \in WsrepStates, pods' = [pods EXCEPT ![n] = [p EXCEPT !.wsrep = b]]
                  PROVE  /\ \A m \in Names \ {n} : pods'[m] = pods[m]
                         /\ Same(p, pods'[n]) /\ pods'[n].rev = p.rev /\ pods'[n].term = p.term
                         /\ pods'[n].phase = "Pending" <=> p.phase = "Pending"
                <5>1. pods'[n] = [p EXCEPT !.wsrep = b] /\ \A m \in Names \ {n} : pods'[m] = pods[m]
                    BY <4>2 DEF TypeOK
                <5>2. /\ Same(p, pods'[n]) /\ pods'[n].rev = p.rev /\ pods'[n].term = p.term
                      /\ pods'[n].phase = p.phase
                    BY <3>1, <5>1, Component
                <5> QED BY <5>1, <5>2
            <4> QED BY <3>2, <4>1, <4>2
        <3> QED BY <1>1, <3>1, <3>3 DEF Kept, TermKept, Same, p
    <2> QED BY <2>1, <2>2 DEF UserEdits, UserScales, InformerCatchesUp, world
<1>4. PatchesLeft /\ TodoLeft(0)
    BY <1>1, PassStep
<1>5. \A j \in 1..0 : todo[j].op # "mysqlUpgrade"
    OBVIOUS
<1> QED BY <1>2, <1>3, <1>4, <1>5, Neutral

(* Ends of a pass. *)
LEMMA NeutralEnd ==
    ASSUME TypeOK, Numbers, Numbers', DetourInv, CacheStep,
           CallRefused \/ UpdateStatus \/ SyncFails
    PROVE  DetourInv'
<1>1. /\ patches' = << >> /\ todo' = << >>
      /\ pods' = pods /\ claims' = claims /\ data' = data /\ spec' = spec
    BY DEF CallRefused, UpdateStatus, SyncFails, EndPass, world
<1>2. spec.rev <= spec'.rev
    BY <1>1 DEF Numbers
<1>3. Kept /\ TermKept
    BY <1>1 DEF Kept, TermKept
<1>4. PatchesLeft /\ TodoLeft(Len(todo)) /\ Len(todo') = 0 /\ Len(todo) \in Nat
    BY <1>1, PassStep DEF Numbers
<1> QED BY <1>2, <1>3, <1>4, Neutral

(* Calls that leave the revisions alone. *)
LEMMA NeutralCall ==
    ASSUME TypeOK, Numbers, Numbers', DetourInv, CacheStep,
           \/ CallCheckSynced \/ CallDeletePod \/ CallDeleteClaim
           \/ CallCreateBkp \/ CallDeleteBkp
    PROVE  DetourInv'
<1> DEFINE o == Head(todo)
<1>1. PICK kind \in {"checkSynced", "deletePod", "deleteClaim", "createBkp", "deleteBkp"} :
         Calls(kind)
    BY DEF CallCheckSynced, CallDeletePod, CallDeleteClaim, CallCreateBkp, CallDeleteBkp
<1>2. o \in Ops /\ o.op = kind /\ o.pod \in Names /\ Accepted(o)
    BY <1>1, CallType
<1>3. todo # << >> /\ todo' = Tail(todo) /\ patches' = patches
    BY <1>1 DEF Calls
<1>4. PatchesLeft /\ TodoLeft(1) /\ todo[1] = o
    BY <1>3, PassStep
<1>5. \A j \in 1..1 : todo[j].op # "mysqlUpgrade"
    BY <1>2, <1>4
<1>6. spec' = spec /\ data' = data
    BY DEF CallCheckSynced, CallDeletePod, CallDeleteClaim, CallCreateBkp, CallDeleteBkp, world
<1>7. spec.rev <= spec'.rev
    BY <1>6 DEF Numbers
<1>8. CASE pods' = pods /\ claims' = claims
    <2>1. Kept /\ TermKept
        BY <1>6, <1>8 DEF Kept, TermKept
    <2> QED BY <1>4, <1>5, <1>7, <2>1, Neutral
<1>9. CASE CallDeletePod
    <2> DEFINE n == o.pod
               p == pods[n]
    <2>1. pods' = [pods EXCEPT ![n] = [p EXCEPT !.term = TRUE]] /\ claims' = claims
          /\ Calls("deletePod")
        BY <1>9 DEF CallDeletePod
    <2>2. o.op = "deletePod" /\ p \in Pods
        BY <1>2, <2>1, AcceptedType DEF Calls
    <2>3. pods'[n] = [p EXCEPT !.term = TRUE] /\ \A m \in Names \ {n} : pods'[m] = pods[m]
        BY <1>2, <2>1 DEF TypeOK
    <2> HIDE DEF p
    <2>4. Same(p, pods'[n]) /\ pods'[n].rev = p.rev /\ pods'[n].phase = p.phase /\ p # NoPod
        BY <2>2, <2>3, PodFields, Deleted
    <2>5. Kept
        BY <1>6, <2>1, <2>3, <2>4 DEF Kept, Same, p
    <2>6. \A i \in 1..Len(todo) : todo[i].op # "createPod"
        <3>1. 1 \in 1..Len(todo)
            BY <1>3 DEF TypeOK
        <3> QED BY <1>4, <2>2, <3>1 DEF DetourInv, CreatePodInv
    <2>7. TermKept
        BY <2>6 DEF TermKept
    <2> QED BY <1>4, <1>5, <1>7, <2>5, <2>7, Neutral
<1>10. CASE CallDeleteClaim
    <2> DEFINE n == o.pod
               c == claims[n]
    <2>1. claims' = [claims EXCEPT ![n] = [c EXCEPT !.term = TRUE]] /\ pods' = pods
          /\ Calls("deleteClaim")
        BY <1>10 DEF CallDeleteClaim
    <2>2. c \in Claims
        BY <1>2, <2>1, AcceptedType DEF Calls
    <2>3. claims'[n] = [c EXCEPT !.term = TRUE] /\ \A m \in Names \ {n} : claims'[m] = claims[m]
        BY <1>2, <2>1 DEF TypeOK
    <2> HIDE DEF c
    <2>4. claims'[n].rev = c.rev /\ claims'[n] # NoClaim /\ c # NoClaim
        <3>1. \A x \in Claims : x # NoClaim
            BY RevsAssumption DEF Claims, NoClaim, NoRev
        <3>2. claims'[n] \in Claims
            BY <2>2, <2>3, ClaimUpdateType
        <3>3. claims'[n].rev = c.rev
            BY <2>2, <2>3 DEF Claims
        <3> QED BY <2>2, <3>1, <3>2, <3>3
    <2>5. Kept /\ TermKept
        BY <1>6, <2>1, <2>3, <2>4 DEF Kept, TermKept, c
    <2> QED BY <1>4, <1>5, <1>7, <2>5, Neutral
<1> QED BY <1>8, <1>9, <1>10 DEF CallCheckSynced, CallCreateBkp, CallDeleteBkp, world

(***************************************************************************)
(* Steps of the environment that change a pod, a claim or a volume while   *)
(* calls are still to be made.                                             *)
(***************************************************************************)
VolumesNext ==
    \A n \in Names :
        /\ (pods'[n] = NoPod \/ pods'[n].term) => (pods[n] = NoPod \/ pods[n].term)
        /\ \/ data'[n].ver \in {data[n].ver, NoRev}
           \/ /\ pods'[n] # NoPod /\ ~pods'[n].term /\ pods[n] # NoPod
              /\ data'[n].ver = pods[n].tmpl

LEMMA Waiting ==
    ASSUME Numbers, DetourInv, todo' = todo, VolumesNext,
           \A b \in Nat : UpTo(b) => NextUpTo(b)
    PROVE  PodsToCreate /\ ClaimsToPatch
<1>1. PodsToCreate
    <2>1. SUFFICES ASSUME NEW i \in 1..Len(todo), todo[i].op = "createPod"
                   PROVE  LET n == todo[i].pod
                              p == todo[i].new
                          IN  /\ NextUpTo(p.tmpl)
                              /\ (p.state = "cluster" /\ (pods'[n] = NoPod \/ pods'[n].term))
                                     => data'[n].ver \in {NoRev, p.tmpl}
        BY DEF PodsToCreate
    <2> DEFINE n == todo[i].pod
               p == todo[i].new
    <2>2. /\ UpTo(p.tmpl)
          /\ (p.state = "cluster" /\ (pods[n] = NoPod \/ pods[n].term))
                 => data[n].ver \in {NoRev, p.tmpl}
        BY <2>1 DEF DetourInv, CreatePodInv
    <2>3. p.tmpl \in Nat /\ n \in Names
        BY <2>1 DEF Numbers
    <2> HIDE DEF n, p
    <2>4. NextUpTo(p.tmpl)
        BY <2>2, <2>3
    <2>5. (p.state = "cluster" /\ (pods'[n] = NoPod \/ pods'[n].term))
              => data'[n].ver \in {NoRev, p.tmpl}
        BY <2>2, <2>3 DEF VolumesNext
    <2> QED BY <2>4, <2>5 DEF n, p
<1>2. ClaimsToPatch
    <2>1. SUFFICES ASSUME NEW i \in 1..Len(todo), todo[i].op = "patchClaim"
                   PROVE  LET n == todo[i].pod
                              r == todo[i].rev
                          IN  \/ \E j \in 1..(i - 1) : todo[j].op = "mysqlUpgrade" /\ todo[j].pod = n
                              \/ data'[n].ver = NoRev
                              \/ r <= data'[n].ver
        BY DEF ClaimsToPatch
    <2> DEFINE n == todo[i].pod
               r == todo[i].rev
    <2>2. /\ pods[n] # NoPod => r <= pods[n].tmpl
          /\ \/ \E j \in 1..(i - 1) : todo[j].op = "mysqlUpgrade" /\ todo[j].pod = n
             \/ data[n].ver = NoRev
             \/ r <= data[n].ver
        BY <2>1 DEF DetourInv, PatchClaimInv
    <2>3. n \in Names
        BY <2>1 DEF Numbers
    <2> HIDE DEF n, r
    <2>4. (data[n].ver = NoRev \/ r <= data[n].ver) => data'[n].ver = NoRev \/ r <= data'[n].ver
        BY <2>2, <2>3 DEF VolumesNext
    <2> QED BY <2>2, <2>4 DEF n, r
<1> QED BY <1>1, <1>2

LEMMA UpgradeEnvironment ==
    ASSUME TypeOK, Numbers, Numbers', DetourInv, CacheStep, NEW n \in Names,
           PodStarts(n) \/ PodIsGone(n) \/ ClaimIsGone(n)
    PROVE  DetourInv'
<1>1. patches' = patches /\ todo' = todo /\ spec' = spec
    BY DEF PodStarts, PodIsGone, ClaimIsGone, pass
<1>2. PatchesLeft /\ TodoLeft(0) /\ spec.rev <= spec'.rev
    BY <1>1, PassStep DEF Numbers
<1>3. SUFFICES ObjectsNext /\ (\A b \in Nat : UpTo(b) => NextUpTo(b)) /\ NoNewPod /\ VolumesNext
    <2>1. NextUpTo(CachedSpec.rev)
        BY <1>3 DEF DetourInv, SpecInv, Numbers
    <2> QED BY <1>1, <1>2, <1>3, <2>1, Waiting, StepInv
<1>4. CASE PodStarts(n)
    <2> DEFINE p == pods[n]
               v == IF data[n].ver = NoRev THEN p.tmpl ELSE data[n].ver
    <2>1. /\ p \in Pods /\ p # NoPod /\ p.phase = "Pending" /\ ~p.term
          /\ claims[n] # NoClaim /\ claims' = claims
        BY <1>4 DEF PodStarts, Startable, TypeOK
    <2>2. \E db \in BOOLEAN, b \in WsrepStates : Becomes(n, db, b)
        <3>1. \A m \in Names : data[m].db \in BOOLEAN
            BY DEF TypeOK
        <3>2. bootstrapped \in BOOLEAN
            BY DEF TypeOK
        <3> QED BY <1>4, <3>1, <3>2, Zenon DEF PodStarts, Primaries, WsrepStates
    <2> PICK db \in BOOLEAN, b \in WsrepStates : Becomes(n, db, b)
        BY <2>2
    <2>3. /\ data' = [data EXCEPT ![n] = [ver |-> v, db |-> db]]
          /\ pods' = [pods EXCEPT ![n] = [p EXCEPT !.phase = "Ready", !.wsrep = b]]
        BY DEF Becomes, Started
    <2> HIDE DEF p, v
    <2>4. /\ data'[n].ver = v
          /\ pods'[n] = [p EXCEPT !.phase = "Ready", !.wsrep = b]
          /\ \A m \in Names \ {n} : data'[m] = data[m] /\ pods'[m] = pods[m]
        BY <2>3 DEF TypeOK
    <2>5. Same(p, pods'[n]) /\ pods'[n].rev = p.rev /\ pods'[n].phase = "Ready"
          /\ pods'[n].term = p.term
        <3>1. pods'[n] \in Pods
            BY <2>1, <2>4 DEF Pods
        <3>2. /\ pods'[n].tmpl = p.tmpl /\ pods'[n].state = p.state /\ pods'[n].rev = p.rev
              /\ pods'[n].phase = "Ready" /\ pods'[n].term = p.term
            BY <2>1, <2>4 DEF Pods
        <3> QED BY <3>1, <3>2, PodFields DEF Same
    <2>6. p.tmpl \in Nat /\ v \in Nat /\ v <= p.tmpl /\ v # NoRev /\ v \in {data[n].ver, p.tmpl}
          /\ data[n].ver <= v
        BY <2>1 DEF Numbers, DetourInv, PodInv, p, v, NoRev
    <2>7. p.state = "cluster" => v = p.tmpl
        BY <2>1 DEF DetourInv, VolumeInv, p, v
    <2>8. claims[n].rev <= v /\ CachedClaims[n].rev <= v
        BY <2>1 DEF DetourInv, PodInv, LabelInv, p, v
    <2>9. ObjectsNext
        <3>1. SUFFICES ASSUME NEW m \in Names
                       PROVE  ObjectsNext!(m)
            BY DEF ObjectsNext
        <3>2. CASE m = n
            BY <2>1, <2>4, <2>5, <2>6, <2>7, <2>8, <3>2
               DEF Same, p, DetourInv, PodInv
        <3>3. CASE m # n
            BY <2>1, <2>4, <3>3 DEF DetourInv, PodInv, LabelInv, VolumeInv
        <3> QED BY <3>2, <3>3
    <2>10. ASSUME NEW b1 \in Nat, UpTo(b1)
           PROVE  NextUpTo(b1)
        BY <2>1, <2>4, <2>5, <2>6, <2>10 DEF UpTo, NextUpTo, Same, p
    <2>11. NoNewPod
        BY <2>1, <2>4, <2>5 DEF NoNewPod, Same, p
    <2>12. VolumesNext
        BY <2>1, <2>4, <2>5, <2>6 DEF VolumesNext, Same, p
    <2> QED BY <2>9, <2>10, <2>11, <2>12
<1>5. CASE PodIsGone(n)
    <2>1. /\ pods[n].term /\ pods'[n] = NoPod /\ \A m \in Names \ {n} : pods'[m] = pods[m]
          /\ claims' = claims /\ data' = data
        BY <1>5 DEF PodIsGone, TypeOK
    <2>2. ObjectsNext
        BY <2>1 DEF ObjectsNext, DetourInv, PodInv, LabelInv, VolumeInv
    <2>3. \A b \in Nat : UpTo(b) => NextUpTo(b)
        BY <2>1 DEF UpTo, NextUpTo
    <2>4. NoNewPod /\ VolumesNext
        BY <2>1 DEF NoNewPod, VolumesNext
    <2> QED BY <2>2, <2>3, <2>4
<1>6. CASE ClaimIsGone(n)
    <2>1. pods' = pods /\ pods[n] = NoPod
        BY <1>6 DEF ClaimIsGone
    <2>2. \/ claims' = claims /\ data' = data
          \/ claims' = [claims EXCEPT ![n] = NoClaim] /\ data' = [data EXCEPT ![n] = NoData]
        BY <1>6 DEF ClaimIsGone
    <2>3. \A m \in Names : \/ claims'[m] = claims[m] /\ data'[m] = data[m]
                           \/ /\ claims'[m] = NoClaim /\ claims'[m].rev = NoRev
                              /\ data'[m].ver = NoRev /\ pods[m] = NoPod
        BY <2>1, <2>2 DEF TypeOK, NoClaim, NoData
    <2>4. ObjectsNext
        BY <2>1, <2>3 DEF ObjectsNext, DetourInv, PodInv, LabelInv, VolumeInv
    <2>5. \A b \in Nat : UpTo(b) => NextUpTo(b)
        BY <2>1, <2>3 DEF UpTo, NextUpTo, NoRev
    <2>6. NoNewPod /\ VolumesNext
        BY <2>1, <2>3 DEF NoNewPod, VolumesNext
    <2> QED BY <2>4, <2>5, <2>6
<1> QED BY <1>4, <1>5, <1>6

(***************************************************************************)
(* The calls that change a revision.                                       *)
(***************************************************************************)
LEMMA UpgradePatchPod ==
    ASSUME TypeOK, Numbers, Numbers', DetourInv, CacheStep, PatchPodLabels
    PROVE  DetourInv'
<1> DEFINE Q == [op : {"patchPod"}, pod : Names, labels : Labels]
           q == Head(patches)
           n == q.pod
           p == pods[n]
           l == q.labels
<1>1. patches \in Seq(Q) /\ patches # << >>
    BY DEF TypeOK, PatchPodLabels
<1> HIDE DEF Q
<1>2. q = patches[1] /\ 1 \in 1..Len(patches) /\ q \in Q
    BY <1>1, HeadTailProperties
<1>3. n \in Names /\ l \in Labels /\ q.op = "patchPod"
    BY <1>2 DEF Q
<1>4. p \in Pods /\ p # NoPod
    BY <1>3 DEF PatchPodLabels, Accepted, TypeOK
<1>5. l.rev <= p.tmpl
    BY <1>2, <1>4 DEF DetourInv, PatchInv
<1>6. /\ pods' = [pods EXCEPT ![n] = [p EXCEPT !.rev = l.rev, !.role = l.role,
                                               !.reader = l.reader, !.backup = l.backup]]
      /\ patches' = Tail(patches) /\ todo' = todo
      /\ spec' = spec /\ claims' = claims /\ data' = data
    BY DEF PatchPodLabels
<1> HIDE DEF q, l, p
<1>7. /\ pods'[n] = [p EXCEPT !.rev = l.rev, !.role = l.role, !.reader = l.reader,
                              !.backup = l.backup]
      /\ \A m \in Names \ {n} : pods'[m] = pods[m]
    BY <1>3, <1>6 DEF TypeOK
<1>8. Same(p, pods'[n]) /\ pods'[n].rev = l.rev /\ pods'[n].phase = p.phase /\ pods'[n].term = p.term
    <2>1. pods'[n] \in Pods
        BY <1>3, <1>4, <1>7, PodUpdateType
    <2>2. /\ pods'[n].tmpl = p.tmpl /\ pods'[n].state = p.state /\ pods'[n].rev = l.rev
          /\ pods'[n].phase = p.phase /\ pods'[n].term = p.term
        BY <1>4, <1>7 DEF Pods
    <2> QED BY <2>1, <2>2, PodFields DEF Same
<1>9. PatchesLeft /\ TodoLeft(0) /\ spec.rev <= spec'.rev
    BY <1>1, <1>6, PassStep DEF Numbers
<1>10. ObjectsNext
    <2>1. SUFFICES ASSUME NEW m \in Names PROVE ObjectsNext!(m)
        BY DEF ObjectsNext
    <2>2. CASE m = n
        BY <1>4, <1>5, <1>6, <1>8, <2>2 DEF Same, p, DetourInv, PodInv, LabelInv, VolumeInv
    <2>3. CASE m # n
        BY <1>6, <1>7, <2>3 DEF DetourInv, PodInv, LabelInv, VolumeInv
    <2> QED BY <2>2, <2>3
<1>11. \A b \in Nat : UpTo(b) => NextUpTo(b)
    BY <1>4, <1>6, <1>7, <1>8 DEF UpTo, NextUpTo, Same, p
<1>12. NextUpTo(CachedSpec.rev)
    BY <1>11 DEF DetourInv, SpecInv, Numbers
<1>13. NoNewPod /\ VolumesNext
    BY <1>4, <1>6, <1>7, <1>8 DEF NoNewPod, VolumesNext, Same, p
<1> QED BY <1>6, <1>9, <1>10, <1>11, <1>12, <1>13, Waiting, StepInv

(* The first of the calls that are left, taken off the list. *)
LEMMA FirstCall ==
    ASSUME TypeOK, Numbers, NEW kind, Calls(kind)
    PROVE  /\ Head(todo) \in Ops /\ Head(todo).op = kind /\ Head(todo).pod \in Names
           /\ Accepted(Head(todo))
           /\ todo[1] = Head(todo) /\ 1 \in 1..Len(todo)
           /\ PatchesLeft /\ TodoLeft(1)
           /\ \A i \in 1..Len(todo') : i + 1 \in 1..Len(todo) /\ todo'[i] = todo[i + 1]
<1>1. todo # << >> /\ todo' = Tail(todo) /\ patches' = patches
    BY DEF Calls
<1>2. PatchesLeft /\ TodoLeft(1) /\ todo[1] = Head(todo)
    BY <1>1, PassStep
<1>3. Len(todo) \in Nat /\ Len(todo) # 0
    BY <1>1 DEF TypeOK
<1>4. Len(todo') = Len(todo) - 1 /\ \A i \in 1..Len(todo') : todo'[i] = todo[i + 1]
    BY <1>2 DEF TodoLeft
<1> QED BY <1>2, <1>3, <1>4, CallType

LEMMA UpgradeMysqlUpgrade ==
    ASSUME TypeOK, Numbers, Numbers', DetourInv, CacheStep, CallMysqlUpgrade
    PROVE  DetourInv'
<1> DEFINE o == Head(todo)
           n == o.pod
           p == pods[n]
<1>1. Calls("mysqlUpgrade") /\ data' = [data EXCEPT ![n].ver = p.tmpl]
      /\ spec' = spec /\ pods' = pods /\ claims' = claims
    BY DEF CallMysqlUpgrade
<1>2. /\ o \in Ops /\ o.op = "mysqlUpgrade" /\ n \in Names /\ Accepted(o)
      /\ todo[1] = o /\ 1 \in 1..Len(todo) /\ PatchesLeft /\ TodoLeft(1)
      /\ \A i \in 1..Len(todo') : i + 1 \in 1..Len(todo) /\ todo'[i] = todo[i + 1]
    BY <1>1, FirstCall
<1>3. p \in Pods /\ p.phase = "Ready"
    BY <1>2, AcceptedType
<1>4. p # NoPod
    BY <1>3, PodFields
<1>5. data'[n].ver = p.tmpl /\ \A m \in Names \ {n} : data'[m] = data[m]
    BY <1>1, <1>2 DEF TypeOK
<1> HIDE DEF o
<1>6. ObjectsNext
    <2>1. SUFFICES ASSUME NEW m \in Names PROVE ObjectsNext!(m)
        BY DEF ObjectsNext
    <2>2. CASE m = n
        <3>1. /\ p.phase # "Pending" => claims[n] # NoClaim
              /\ p.rev <= p.tmpl
              /\ CachedPods[n] # NoPod => CachedPods[n].rev <= p.tmpl
              /\ claims[n].rev <= p.tmpl
              /\ CachedClaims[n].rev <= p.tmpl
            BY <1>2, <1>4 DEF DetourInv, PodInv
        <3>2. p.tmpl \in Nat \ {NoRev} /\ p.tmpl <= p.tmpl
            BY <1>2, <1>4 DEF Numbers
        <3> QED BY <1>1, <1>3, <1>4, <1>5, <2>2, <3>1, <3>2
    <2>3. CASE m # n
        BY <1>1, <1>5, <2>3 DEF DetourInv, PodInv, LabelInv, VolumeInv
    <2> QED BY <2>2, <2>3
<1>7. NextUpTo(CachedSpec.rev)
    BY <1>1, <1>2, <1>4, <1>5 DEF DetourInv, SpecInv, UpTo, NextUpTo
<1>8. NoNewPod
    BY <1>1 DEF NoNewPod
<1>9. PodsToCreate
    <2>1. \A i \in 1..Len(todo) : todo[i].op # "createPod"
        BY <1>2 DEF DetourInv, CreatePodInv
    <2> QED BY <1>2, <2>1 DEF PodsToCreate
<1>10. ClaimsToPatch
    <2>1. SUFFICES ASSUME NEW i \in 1..Len(todo'), todo'[i].op = "patchClaim"
                   PROVE  LET m == todo'[i].pod
                              r == todo'[i].rev
                          IN  \/ \E j \in 1..(i - 1) : todo'[j].op = "mysqlUpgrade"
                                                        /\ todo'[j].pod = m
                              \/ data'[m].ver = NoRev
                              \/ r <= data'[m].ver
        BY DEF ClaimsToPatch
    <2> DEFINE m == todo'[i].pod
               r == todo'[i].rev
    <2>2. /\ pods[m] # NoPod => r <= pods[m].tmpl
          /\ \/ \E j \in 1..i : todo[j].op = "mysqlUpgrade" /\ todo[j].pod = m
             \/ data[m].ver = NoRev
             \/ r <= data[m].ver
        <3>1. todo[i + 1].op = "patchClaim" /\ todo[i + 1].pod = m /\ todo[i + 1].rev = r
              /\ i + 1 \in 1..Len(todo)
            BY <1>2, <2>1
        <3> QED BY <3>1 DEF DetourInv, PatchClaimInv
    <2>3. CASE m = n
        BY <1>4, <1>5, <2>2, <2>3
    <2>4. ASSUME m # n, NEW j \in 1..i, todo[j].op = "mysqlUpgrade", todo[j].pod = m
          PROVE  \E k \in 1..(i - 1) : todo'[k].op = "mysqlUpgrade" /\ todo'[k].pod = m
        <3>1. j # 1
            BY <1>2, <2>4
        <3>2. j - 1 \in 1..(i - 1) /\ j - 1 \in 1..Len(todo')
            BY <3>1 DEF Numbers
        <3>3. todo'[j - 1] = todo[j]
            BY <1>2, <3>2
        <3> QED BY <2>4, <3>2, <3>3
    <2>5. CASE m # n
        <3>1. m \in Names
            BY <2>1 DEF Numbers
        <3> QED BY <1>5, <2>2, <2>4, <2>5, <3>1
    <2> QED BY <2>3, <2>5
<1>11. spec.rev <= spec'.rev
    BY <1>1 DEF Numbers
<1> QED BY <1>2, <1>6, <1>7, <1>8, <1>9, <1>10, <1>11, StepInv

LEMMA UpgradePatchClaim ==
    ASSUME TypeOK, Numbers, Numbers', DetourInv, CacheStep, CallPatchClaim
    PROVE  DetourInv'
<1> DEFINE o == Head(todo)
           n == o.pod
           c == claims[n]
<1>1. Calls("patchClaim") /\ claims' = [claims EXCEPT ![n] = [c EXCEPT !.rev = o.rev]]
      /\ spec' = spec /\ pods' = pods /\ data' = data
    BY DEF CallPatchClaim
<1>2. /\ o \in Ops /\ o.op = "patchClaim" /\ n \in Names /\ Accepted(o)
      /\ todo[1] = o /\ 1 \in 1..Len(todo) /\ PatchesLeft /\ TodoLeft(1)
      /\ \A i \in 1..Len(todo') : i + 1 \in 1..Len(todo) /\ todo'[i] = todo[i + 1]
    BY <1>1, FirstCall
<1>3. c \in Claims /\ o.rev \in Revs
    BY <1>2, AcceptedType, OpType
<1> HIDE DEF o, c
<1>4. claims'[n] = [c EXCEPT !.rev = o.rev] /\ \A m \in Names \ {n} : claims'[m] = claims[m]
    BY <1>1, <1>2 DEF TypeOK
<1>5. claims'[n].rev = o.rev /\ claims'[n] # NoClaim
    <2>1. \A x \in Claims : x # NoClaim
        BY RevsAssumption DEF Claims, NoClaim, NoRev
    <2>2. claims'[n] \in Claims
        BY <1>3, <1>4, ClaimUpdateType
    <2>3. claims'[n].rev = o.rev
        BY <1>3, <1>4 DEF Claims
    <2> QED BY <2>1, <2>2, <2>3
<1>6. /\ o.rev <= CachedSpec.rev
      /\ \A j \in 1..Len(todo) : todo[j].op \in {"mysqlUpgrade", "deletePod", "patchClaim"}
      /\ pods[n] # NoPod => o.rev <= pods[n].tmpl
      /\ data[n].ver = NoRev \/ o.rev <= data[n].ver
    <2>1. ~\E j \in 1..(1 - 1) : todo[j].op = "mysqlUpgrade" /\ todo[j].pod = n
        OBVIOUS
    <2> QED BY <1>2, <2>1 DEF DetourInv, PatchClaimInv
<1>7. ObjectsNext
    <2>1. SUFFICES ASSUME NEW m \in Names PROVE ObjectsNext!(m)
        BY DEF ObjectsNext
    <2>2. CASE m = n
        BY <1>1, <1>5, <1>6, <2>2 DEF DetourInv, PodInv, LabelInv, VolumeInv
    <2>3. CASE m # n
        BY <1>1, <1>4, <2>3 DEF DetourInv, PodInv, LabelInv, VolumeInv
    <2> QED BY <2>2, <2>3
<1>8. NextUpTo(CachedSpec.rev)
    BY <1>1, <1>4, <1>5, <1>6 DEF DetourInv, SpecInv, UpTo, NextUpTo
<1>9. NoNewPod
    BY <1>1 DEF NoNewPod
<1>10. PodsToCreate
    BY <1>2, <1>6 DEF PodsToCreate
<1>11. ClaimsToPatch
    <2>1. SUFFICES ASSUME NEW i \in 1..Len(todo'), todo'[i].op = "patchClaim"
                   PROVE  LET m == todo'[i].pod
                              r == todo'[i].rev
                          IN  \/ \E j \in 1..(i - 1) : todo'[j].op = "mysqlUpgrade"
                                                        /\ todo'[j].pod = m
                              \/ data'[m].ver = NoRev
                              \/ r <= data'[m].ver
        BY DEF ClaimsToPatch
    <2> DEFINE m == todo'[i].pod
               r == todo'[i].rev
    <2>2. \/ \E j \in 1..i : todo[j].op = "mysqlUpgrade" /\ todo[j].pod = m
          \/ data[m].ver = NoRev
          \/ r <= data[m].ver
        <3>1. todo[i + 1].op = "patchClaim" /\ todo[i + 1].pod = m /\ todo[i + 1].rev = r
              /\ i + 1 \in 1..Len(todo)
            BY <1>2, <2>1
        <3> QED BY <3>1 DEF DetourInv, PatchClaimInv
    <2>3. ASSUME NEW j \in 1..i, todo[j].op = "mysqlUpgrade", todo[j].pod = m
          PROVE  \E k \in 1..(i - 1) : todo'[k].op = "mysqlUpgrade" /\ todo'[k].pod = m
        <3>1. j # 1
            BY <1>2, <2>3
        <3>2. j - 1 \in 1..(i - 1) /\ j - 1 \in 1..Len(todo')
            BY <3>1 DEF Numbers
        <3>3. todo'[j - 1] = todo[j]
            BY <1>2, <3>2
        <3> QED BY <2>3, <3>2, <3>3
    <2> QED BY <1>1, <2>2, <2>3
<1>12. spec.rev <= spec'.rev
    BY <1>1 DEF Numbers
<1> QED BY <1>2, <1>7, <1>8, <1>9, <1>10, <1>11, <1>12, StepInv

LEMMA UpgradeCreateClaim ==
    ASSUME TypeOK, Numbers, Numbers', DetourInv, CacheStep, CallCreateClaim
    PROVE  DetourInv'
<1> DEFINE o == Head(todo)
           n == o.pod
           c == [rev |-> o.rev, claimSpec |-> o.claimSpec, term |-> FALSE]
<1>1. Calls("createClaim") /\ claims' = [claims EXCEPT ![n] = c]
      /\ spec' = spec /\ pods' = pods /\ data' = data
    BY DEF CallCreateClaim
<1>2. /\ o \in Ops /\ o.op = "createClaim" /\ n \in Names /\ Accepted(o)
      /\ todo[1] = o /\ 1 \in 1..Len(todo) /\ PatchesLeft /\ TodoLeft(1)
      /\ \A i \in 1..Len(todo') : i + 1 \in 1..Len(todo) /\ todo'[i] = todo[i + 1]
    BY <1>1, FirstCall
<1>3. claims[n] = NoClaim /\ o.rev \in Revs
    BY <1>2, AcceptedType, OpType
<1>4. /\ claims'[n].rev = o.rev /\ claims'[n] # NoClaim
      /\ \A m \in Names \ {n} : claims'[m] = claims[m]
    <2>1. claims'[n] = c /\ \A m \in Names \ {n} : claims'[m] = claims[m]
        BY <1>1, <1>2 DEF TypeOK
    <2>2. o.rev # NoRev
        BY <1>3, RevsAssumption
    <2> QED BY <2>1, <2>2 DEF NoClaim
<1> HIDE DEF o
<1>5. o.rev <= CachedSpec.rev /\ pods[n] = NoPod /\ data[n].ver = NoRev
    BY <1>2, <1>3 DEF DetourInv, CreateClaimInv, LabelInv
<1>6. ObjectsNext
    <2>1. SUFFICES ASSUME NEW m \in Names PROVE ObjectsNext!(m)
        BY DEF ObjectsNext
    <2>2. CASE m = n
        BY <1>1, <1>4, <1>5, <2>2
    <2>3. CASE m # n
        BY <1>1, <1>4, <2>3 DEF DetourInv, PodInv, LabelInv, VolumeInv
    <2> QED BY <2>2, <2>3
<1>7. \A b \in Nat : UpTo(b) /\ o.rev <= b => NextUpTo(b)
    BY <1>1, <1>4 DEF UpTo, NextUpTo
<1>8. NextUpTo(CachedSpec.rev)
    BY <1>5, <1>7 DEF DetourInv, SpecInv, Numbers
<1>9. NoNewPod
    BY <1>1 DEF NoNewPod
<1>10. PodsToCreate
    <2>1. SUFFICES ASSUME NEW i \in 1..Len(todo'), todo'[i].op = "createPod"
                   PROVE  LET m == todo'[i].pod
                              p == todo'[i].new
                          IN  /\ NextUpTo(p.tmpl)
                              /\ (p.state = "cluster" /\ (pods'[m] = NoPod \/ pods'[m].term))
                                     => data'[m].ver \in {NoRev, p.tmpl}
        BY DEF PodsToCreate
    <2> DEFINE m == todo'[i].pod
               p == todo'[i].new
    <2>2. todo[i + 1].op = "createPod" /\ todo[i + 1].pod = m /\ todo[i + 1].new = p
          /\ i + 1 \in 1..Len(todo)
        BY <1>2, <2>1
    <2> HIDE DEF m, p
    <2>3. /\ UpTo(p.tmpl) /\ o.rev = p.tmpl
          /\ (p.state = "cluster" /\ (pods[m] = NoPod \/ pods[m].term))
                 => data[m].ver \in {NoRev, p.tmpl}
        BY <1>2, <2>2 DEF DetourInv, CreatePodInv
    <2>4. p.tmpl \in Nat
        BY <2>2 DEF Numbers
    <2> QED BY <1>1, <1>7, <2>3, <2>4 DEF m, p
<1>11. ClaimsToPatch
    <2>1. \A i \in 1..Len(todo) : todo[i].op # "patchClaim"
        BY <1>2 DEF DetourInv, PatchClaimInv
    <2> QED BY <1>2, <2>1 DEF ClaimsToPatch
<1>12. spec.rev <= spec'.rev
    BY <1>1 DEF Numbers
<1> QED BY <1>2, <1>6, <1>8, <1>9, <1>10, <1>11, <1>12, StepInv

LEMMA UpgradeCreatePod ==
    ASSUME TypeOK, Numbers, Numbers', DetourInv, CacheStep, CallCreatePod
    PROVE  DetourInv'
<1> DEFINE o == Head(todo)
           n == o.pod
           p == o.new
<1>1. Calls("createPod") /\ pods' = [pods EXCEPT ![n] = p]
      /\ spec' = spec /\ claims' = claims /\ data' = data /\ patches' = << >>
    BY DEF CallCreatePod, Calls
<1>2. /\ o \in Ops /\ o.op = "createPod" /\ n \in Names /\ Accepted(o)
      /\ todo[1] = o /\ 1 \in 1..Len(todo) /\ TodoLeft(1)
    BY <1>1, FirstCall
<1>3. pods[n] = NoPod /\ p \in Pods
    BY <1>2, AcceptedType, OpType
<1>4. p # NoPod
    BY <1>3, PodFields
<1>5. pods'[n] = p /\ \A m \in Names \ {n} : pods'[m] = pods[m]
    BY <1>1, <1>2 DEF TypeOK
<1> HIDE DEF o
<1>6. /\ Len(todo) = 1
      /\ p.rev = p.tmpl /\ p.tmpl <= CachedSpec.rev /\ p.phase = "Pending"
      /\ UpTo(p.tmpl)
      /\ p.state = "cluster" => data[n].ver \in {NoRev, p.tmpl}
    BY <1>2, <1>3 DEF DetourInv, CreatePodInv
<1> HIDE DEF p
<1>7. p.tmpl \in Nat
    BY <1>2 DEF Numbers, p
<1>8. ObjectsNext
    <2>1. SUFFICES ASSUME NEW m \in Names PROVE ObjectsNext!(m)
        BY DEF ObjectsNext
    <2>2. CASE m = n
        BY <1>1, <1>5, <1>6, <1>7, <2>2 DEF DetourInv, LabelInv, UpTo
    <2>3. CASE m # n
        BY <1>1, <1>5, <2>3 DEF DetourInv, PodInv, LabelInv, VolumeInv
    <2> QED BY <2>2, <2>3
<1>9. NextUpTo(CachedSpec.rev)
    BY <1>1, <1>5, <1>6 DEF DetourInv, SpecInv, UpTo, NextUpTo
<1>10. spec.rev <= spec'.rev
    BY <1>1 DEF Numbers
<1>11. SpecInv' /\ PodInv' /\ LabelInv' /\ VolumeInv'
    BY <1>8, <1>9, <1>10, ObjectStep
<1>12. Len(todo') = 0 /\ Len(patches') = 0
    BY <1>1, <1>2, <1>6 DEF TodoLeft
<1>13. PatchInv' /\ CreatePodInv' /\ CreateClaimInv' /\ PatchClaimInv'
    BY <1>12 DEF PatchInv, CreatePodInv, CreateClaimInv, PatchClaimInv
<1> QED BY <1>11, <1>13 DEF DetourInv

(***************************************************************************)
(* The decision of a pass establishes what its calls rely on.              *)
(***************************************************************************)
LEMMA PodCalls ==
    ASSUME NEW n \in Names, NEW p, todo' = CreatePodAndClaim(n, p)
    PROVE  /\ \A i \in 1..Len(todo') :
                 todo'[i] \in {CreateClaim(n, p.rev, ClaimSpec[Template]), CreateBkp(n), CreatePod(n, p)}
           /\ \A i \in 1..Len(todo') : todo'[i].op = "createPod" => i = Len(todo')
           /\ \A i \in 1..Len(todo') : todo'[i].op = "createClaim" => i = 1 /\ CachedClaims[n] = NoClaim
           /\ \A i \in 1..Len(todo') : todo'[i].op = "createBkp" =>
                 i = Len(todo') - 1 /\ CachedBkps[n] = "none"
           /\ todo'[Len(todo')].op = "createPod"
<1> DEFINE C == CreateClaim(n, p.rev, ClaimSpec[Template])
           B == CreateBkp(n)
           P == CreatePod(n, p)
           noClaim == CachedClaims[n] = NoClaim
           noBkp == p.backup /\ CachedBkps[n] = "none"
<1>1. C.op = "createClaim" /\ B.op = "createBkp" /\ P.op = "createPod"
    BY DEF CreateClaim, CreateBkp, CreatePod
<1>2. todo' = (IF noClaim THEN <<C>> ELSE << >>) \o (IF noBkp THEN <<B>> ELSE << >>) \o <<P>>
    BY DEF CreatePodAndClaim
<1>3. noBkp => CachedBkps[n] = "none"
    OBVIOUS
<1> HIDE DEF C, B, P, noBkp
<1>4. CASE noClaim /\ noBkp
    <2>1. todo' = <<C>> \o <<B>> \o <<P>>
        BY <1>2, <1>4
    <2>2. Len(todo') = 3 /\ todo'[1] = C /\ todo'[2] = B /\ todo'[3] = P
        <3> DEFINE S == {C, B, P}
                   t == <<C>> \o <<B>>
        <3>1. <<C>> \in Seq(S) /\ <<B>> \in Seq(S) /\ <<P>> \in Seq(S)
            OBVIOUS
        <3>2. Len(t) = 2 /\ t[1] = C /\ t[2] = B
            OBVIOUS
        <3> HIDE DEF S
        <3>3. t \in Seq(S)
            BY <3>1, ConcatProperties
        <3>4. todo' = t \o <<P>>
            BY <2>1
        <3> HIDE DEF t
        <3>5. Len(<<P>>) = 1 /\ <<P>>[1] = P
            OBVIOUS
        <3> DEFINE u == <<P>>
        <3> HIDE DEF u
        <3>6. Len(t \o u) = 3 /\ \A i \in 1..3 : (t \o u)[i] = IF i <= 2 THEN t[i] ELSE u[i - 2]
            BY <3>1, <3>2, <3>3, <3>5, ConcatProperties DEF u
        <3> QED BY <3>2, <3>4, <3>5, <3>6 DEF u
    <2>3. \A i \in 1..Len(todo') : i \in {1, 2, 3}
        BY <2>2
    <2> QED BY <1>1, <1>4, <1>3, <2>2, <2>3 DEF C, B, P
<1>5. CASE noClaim /\ ~noBkp
    <2>1. todo' = <<C>> \o << >> \o <<P>>
        BY <1>2, <1>5
    <2>2. Len(todo') = 2 /\ todo'[1] = C /\ todo'[2] = P
        BY <2>1
    <2>3. \A i \in 1..Len(todo') : i \in {1, 2}
        BY <2>2
    <2> QED BY <1>1, <1>5, <2>2, <2>3 DEF C, B, P
<1>6. CASE ~noClaim /\ noBkp
    <2>1. todo' = << >> \o <<B>> \o <<P>>
        BY <1>2, <1>6
    <2>2. Len(todo') = 2 /\ todo'[1] = B /\ todo'[2] = P
        BY <2>1
    <2>3. \A i \in 1..Len(todo') : i \in {1, 2}
        BY <2>2
    <2> QED BY <1>1, <1>6, <1>3, <2>2, <2>3 DEF C, B, P
<1>7. CASE ~noClaim /\ ~noBkp
    <2>1. todo' = << >> \o << >> \o <<P>>
        BY <1>2, <1>7
    <2>2. Len(todo') = 1 /\ todo'[1] = P
        BY <2>1
    <2>3. \A i \in 1..Len(todo') : i = 1
        BY <2>2
    <2> QED BY <1>1, <2>2, <2>3 DEF C, B, P
<1> QED BY <1>4, <1>5, <1>6, <1>7

LEMMA UpgradeSync ==
    ASSUME NeverRefused, TypeOK, Numbers, Numbers', StatusInv, DetourInv, CacheStep, Sync
    PROVE  DetourInv'
<1>1. /\ pods' = pods /\ claims' = claims /\ data' = data /\ spec' = spec
      /\ CachedPods' = CachedPods /\ CachedClaims' = CachedClaims /\ CachedSpec' = CachedSpec
    BY DEF Sync, world, CachedPods, CachedClaims, CachedSpec
<1>2. Planned
    BY Plan
<1>3. SpecInv' /\ PodInv' /\ LabelInv' /\ VolumeInv'
    BY <1>1 DEF DetourInv, SpecInv, PodInv, LabelInv, VolumeInv, UpTo
<1>4. PatchInv'
    <2>1. SUFFICES ASSUME NEW i \in 1..Len(patches'), pods[patches'[i].pod] # NoPod
                   PROVE  patches'[i].labels.rev <= pods[patches'[i].pod].tmpl
        BY <1>1 DEF PatchInv
    <2>2. patches'[i] \in CachedPatches
        BY <1>2, <2>1 DEF Planned
    <2>3. patches'[i].pod \in Listed /\ patches'[i].labels.rev = CachedPods[patches'[i].pod].rev
        BY <2>2 DEF CachedPatches, PatchesOf
    <2> QED BY <2>1, <2>3 DEF DetourInv, PodInv, Listed
<1>5. CASE PlansDeletion
    <2>1. \A i \in 1..Len(todo') : todo'[i] \in Quiet
        BY <1>5 DEF PlansDeletion
    <2>2. \A o \in Quiet : o.op \notin {"createPod", "createClaim", "patchClaim"}
        BY DEF Quiet
    <2>3. CreatePodInv' /\ CreateClaimInv' /\ PatchClaimInv'
        BY <2>1, <2>2 DEF CreatePodInv, CreateClaimInv, PatchClaimInv
    <2> QED BY <1>3, <1>4, <2>3 DEF DetourInv
<1>6. CASE PlansUpgrade
    <2>1. PICK n \in Live :
             todo' = <<MysqlUpgrade(n), DeletePod(n), PatchClaim(n, CachedPods[n].rev)>>
        BY <1>6 DEF PlansUpgrade
    <2>2. n \in Names /\ CachedPods[n] # NoPod
        BY DEF Live, Listed
    <2>3. /\ Len(todo') = 3
          /\ todo'[1].op = "mysqlUpgrade" /\ todo'[1].pod = n
          /\ todo'[2].op = "deletePod"
          /\ todo'[3].op = "patchClaim" /\ todo'[3].pod = n /\ todo'[3].rev = CachedPods[n].rev
        BY <2>1 DEF MysqlUpgrade, DeletePod, PatchClaim
    <2>4. \A i \in 1..Len(todo') : i \in {1, 2, 3}
        BY <2>3
    <2>5. CreatePodInv' /\ CreateClaimInv'
        BY <2>3, <2>4 DEF CreatePodInv, CreateClaimInv
    <2>6. PatchClaimInv'
        <3>1. CachedPods[n].rev <= CachedSpec.rev
              /\ (pods[n] # NoPod => CachedPods[n].rev <= pods[n].tmpl)
            BY <2>2 DEF DetourInv, SpecInv, UpTo, PodInv
        <3>2. \A i \in 1..Len(todo') : todo'[i].op = "patchClaim" => i = 3
            BY <2>3, <2>4
        <3>3. \E j \in 1..(3 - 1) : todo'[j].op = "mysqlUpgrade" /\ todo'[j].pod = n
            BY <2>3
        <3> QED BY <1>1, <2>3, <2>4, <3>1, <3>2, <3>3 DEF PatchClaimInv
    <2> QED BY <1>3, <1>4, <2>5, <2>6 DEF DetourInv
<1>7. CASE PlansPod
    <2>1. PICK n \in PodNames, role \in Roles, init \in BOOLEAN :
             todo' = CreatePodAndClaim(n, NewPod(n, role, init))
        BY <1>7 DEF PlansPod
    <2> DEFINE p == NewPod(n, role, init)
               r == CachedSpec.rev
    <2>2. n \in Names
        BY DEF PodNames, UnusedClaims
    <2>3. Template = r /\ NextRevision = r
        <3>1. <<CurrentRevision, NextRevision>> \in Revs \X Revs
            BY CachedType
        <3>2. CurrentRevision <= NextRevision
            BY DEF StatusInv, CurrentRevision, NextRevision, Numbers
        <3>3. Verdict # "no"
            BY <3>1, <3>2 DEF NeverRefused, Verdict
        <3> QED BY <3>3 DEF Template, NextRevision
    <2>4. /\ p.rev = r /\ p.tmpl = r /\ p.phase = "Pending"
          /\ (p.state = "cluster" /\ CachedClaims[n] # NoClaim) => CachedClaims[n].rev = r
        BY <2>3 DEF NewPod, PodLabelsForGalera
    <2>5. CachedClaims[n] = NoClaim => pods[n] = NoPod /\ claims[n] = NoClaim
        BY <2>1 DEF PodNames, UnusedClaims
    <2>6. p.state = "cluster" => data[n].ver \in {NoRev, r}
        <3>1. CASE CachedClaims[n] = NoClaim
            BY <2>2, <2>5, <3>1 DEF DetourInv, LabelInv
        <3>2. CASE CachedClaims[n] # NoClaim
            BY <2>2, <2>4, <3>2 DEF DetourInv, LabelInv, SpecInv, UpTo, Numbers
        <3> QED BY <3>1, <3>2
    <2> HIDE DEF p
    <2>7. /\ \A i \in 1..Len(todo') :
                 todo'[i] \in {CreateClaim(n, p.rev, ClaimSpec[Template]), CreateBkp(n), CreatePod(n, p)}
          /\ \A i \in 1..Len(todo') : todo'[i].op = "createPod" => i = Len(todo')
          /\ \A i \in 1..Len(todo') : todo'[i].op = "createClaim" => CachedClaims[n] = NoClaim
        BY <2>1, <2>2, PodCalls DEF p
    <2>8. \A i \in 1..Len(todo') :
             /\ todo'[i].op \in {"createClaim", "createBkp", "createPod"} /\ todo'[i].pod = n
             /\ todo'[i].op = "createClaim" => todo'[i].rev = p.rev
             /\ todo'[i].op = "createPod" => todo'[i].new = p
        BY <2>7 DEF CreateClaim, CreateBkp, CreatePod
    <2>9. UpToNext(r) /\ r <= CachedSpec'.rev
        BY <1>1 DEF DetourInv, SpecInv, UpTo, UpToNext, Numbers
    <2>10. CreatePodInv'
        <3>1. SUFFICES ASSUME NEW i \in 1..Len(todo'), todo'[i].op = "createPod"
                       PROVE  /\ i = Len(todo')
                              /\ \A j \in 1..Len(todo') :
                                    todo'[j].op \in {"createClaim", "createBkp", "createPod"}
                              /\ \A j \in 1..Len(todo') :
                                    todo'[j].op = "createClaim" => todo'[j].rev = todo'[i].new.tmpl
                              /\ todo'[i].new.rev = todo'[i].new.tmpl
                              /\ todo'[i].new.tmpl <= CachedSpec'.rev
                              /\ todo'[i].new.phase = "Pending"
                              /\ UpToNext(todo'[i].new.tmpl)
                              /\ (/\ todo'[i].new.state = "cluster"
                                  /\ pods'[todo'[i].pod] = NoPod \/ pods'[todo'[i].pod].term)
                                     => data'[todo'[i].pod].ver \in {NoRev, todo'[i].new.tmpl}
            BY DEF CreatePodInv, UpTo, UpToNext
        <3>2. todo'[i].new = p /\ todo'[i].pod = n
            BY <2>8, <3>1
        <3>3. UpToNext(todo'[i].new.tmpl)
            BY <2>4, <2>9, <3>2
        <3> QED BY <1>1, <2>4, <2>6, <2>7, <2>8, <2>9, <3>1, <3>2, <3>3
    <2>11. CreateClaimInv'
        BY <1>1, <2>4, <2>5, <2>7, <2>8, <2>9 DEF CreateClaimInv
    <2>12. PatchClaimInv'
        BY <2>8 DEF PatchClaimInv
    <2> QED BY <1>3, <1>4, <2>10, <2>11, <2>12 DEF DetourInv
<1> QED BY <1>2, <1>5, <1>6, <1>7 DEF Planned

LEMMA UpgradeInit ==
    ASSUME Init PROVE DetourInv
<1>1. /\ \A n \in Names : /\ pods[n] = NoPod /\ claims[n] = NoClaim /\ data[n].ver = NoRev
                          /\ CachedPods[n] = NoPod /\ CachedClaims[n] = NoClaim
      /\ CachedSpec = spec /\ Len(patches) = 0 /\ Len(todo) = 0
    BY DEF Init, CachedPods, CachedClaims, CachedSpec, NoData
<1>2. spec.rev \in Nat /\ NoRev <= spec.rev /\ NoClaim.rev = NoRev
    BY RevsAssumption DEF Init, Spec0, NoRev, NoClaim
<1>3. SpecInv /\ PodInv /\ LabelInv /\ VolumeInv
    BY <1>1, <1>2 DEF SpecInv, UpTo, PodInv, LabelInv, VolumeInv
<1>4. PatchInv /\ CreatePodInv /\ CreateClaimInv /\ PatchClaimInv
    BY <1>1 DEF PatchInv, CreatePodInv, CreateClaimInv, PatchClaimInv
<1> QED BY <1>3, <1>4 DEF DetourInv

LEMMA StatusInit ==
    ASSUME Init PROVE StatusInv
<1>1. CachedSpec = spec /\ CachedStatus = status /\ result = NoStatus
    BY DEF Init, CachedSpec, CachedStatus
<1>2. status.current = NoRev /\ spec.rev \in Nat
    BY RevsAssumption DEF Init, Spec0, Status0
<1> QED BY <1>1, <1>2 DEF StatusInv, NoRev

(* No pass, and no cache, makes a revision current that lies beyond the    *)
(* one the resource asks for.                                              *)
LEMMA StatusNext ==
    ASSUME ForwardEdits, TypeOK, TypeOK', StatusInv, SpecInv, [Next]_vars
    PROVE  StatusInv'
<1>1. /\ spec.rev \in Nat /\ spec'.rev \in Nat /\ CachedSpec.rev \in Nat
      /\ status.current \in Nat /\ CachedStatus.current \in Nat
      /\ result # NoStatus => result.current \in Nat
    <2>1. NoRev \in Nat /\ \A r \in Revs : r \in Nat
        BY RevsAssumption DEF NoRev
    <2>2. \A s \in Statuses : s.current \in Nat
        BY <2>1 DEF Statuses
    <2>3. spec.rev \in Nat /\ spec'.rev \in Nat
        BY <2>1 DEF TypeOK
    <2>4. CachedSpec.rev \in Nat /\ CachedStatus.current \in Nat
        BY <2>1, <2>2, CachedType
    <2> QED BY <2>2, <2>3, <2>4 DEF TypeOK
<1>2. CASE Sync
    <2>1. spec' = spec /\ status' = status /\ seen' = seen
        BY <1>2 DEF Sync, world
    <2>2. CurrentRevision <= spec.rev /\ NextRevision <= spec.rev
        BY <1>1 DEF StatusInv, SpecInv, CurrentRevision, NextRevision
    <2>3. result' # NoStatus => result'.current \in {CurrentRevision, NextRevision}
        BY <1>2, Plan DEF Planned, WrittenStatuses
    <2> QED BY <2>1, <2>2, <2>3 DEF StatusInv, CachedStatus, CachedSpec
<1>3. CASE UserEdits \/ UserScales
    <2>1. status' = status /\ seen' = seen /\ result' = result
        BY <1>3 DEF UserEdits, UserScales, pass
    <2>2. spec.rev <= spec'.rev
        <3>1. spec \in [rev : Revs, replicas : Nat \ {0}, gen : Nat]
            BY DEF TypeOK
        <3>2. CASE UserEdits
            <4>1. PICK e \in Edits : e[1] = spec.rev
                                   /\ spec' = [spec EXCEPT !.rev = e[2], !.gen = @ + 1]
                BY <3>2 DEF UserEdits
            <4>2. spec'.rev = e[2]
                BY <3>1, <4>1
            <4> QED BY <4>1, <4>2 DEF ForwardEdits
        <3>3. CASE UserScales
            <4>1. spec'.rev = spec.rev
                BY <3>1, <3>3 DEF UserScales
            <4> QED BY <1>1, <4>1
        <3> QED BY <1>3, <3>2, <3>3
    <2> QED BY <1>1, <2>1, <2>2 DEF StatusInv, CachedStatus, CachedSpec
<1>4. CASE UpdateStatus
    BY <1>1, <1>4 DEF UpdateStatus, EndPass, StatusInv, CachedStatus, CachedSpec
<1>5. CASE InformerCatchesUp
    <2>1. spec' = spec /\ status' = status /\ result' = result
        BY <1>5 DEF InformerCatchesUp, world, pass
    <2>2. (seen'.spec = seen.spec /\ seen'.status = seen.status)
          \/ (seen'.spec = spec /\ seen'.status = status)
        BY <1>5 DEF InformerCatchesUp, TypeOK
    <2> QED BY <1>1, <2>1, <2>2 DEF StatusInv, CachedStatus, CachedSpec
<1>6. CASE spec' = spec /\ status' = status /\ seen' = seen /\ result' \in {result, NoStatus}
    BY <1>6 DEF StatusInv, CachedStatus, CachedSpec
<1>7. CASE UNCHANGED vars
    BY <1>6, <1>7 DEF vars
<1>8. CASE Call /\ ~UpdateStatus
    BY <1>6, <1>8 DEF Call, PatchPodLabels, CallDeletePod, CallCreatePod, CallCheckSynced,
        CallMysqlUpgrade, CallPatchClaim, CallCreateClaim, CallDeleteClaim, CallCreateBkp,
        CallDeleteBkp, CallRefused, Calls, EndPass, world
<1>9. CASE SyncFails
    BY <1>6, <1>9 DEF SyncFails, EndPass, world
<1>10. CASE \E n \in Names : \/ PodStarts(n) \/ PodIsGone(n) \/ ClaimIsGone(n)
                             \/ PodFails(n) \/ LosesPrimary(n) \/ RegainsPrimary(n)
    BY <1>6, <1>10 DEF PodStarts, PodIsGone, ClaimIsGone, PodFails, LosesPrimary, RegainsPrimary, pass
<1> QED BY <1>2, <1>3, <1>4, <1>5, <1>7, <1>8, <1>9, <1>10 DEF Next, Environment

LEMMA UpgradeNext ==
    ASSUME ForwardEdits, NeverRefused, TypeOK, TypeOK', StatusInv, DetourInv, [Next]_vars
    PROVE  DetourInv'
<1>1. Numbers /\ CacheStep
    BY TypeNumbers, CacheSteps
<1>2. Numbers'
    BY TypeNumbers, PTL
<1>3. CASE UNCHANGED vars
    BY <1>3 DEF vars, DetourInv, SpecInv, UpTo, PodInv, LabelInv, VolumeInv, PatchInv, CreatePodInv,
                CreateClaimInv, PatchClaimInv, CachedPods, CachedClaims, CachedSpec
<1>4. CASE Sync
    BY <1>1, <1>2, <1>4, UpgradeSync
<1>5. CASE Call \/ SyncFails
    BY <1>1, <1>2, <1>5, UpgradePatchPod, UpgradeMysqlUpgrade, UpgradePatchClaim,
       UpgradeCreateClaim, UpgradeCreatePod, NeutralCall, NeutralEnd DEF Call
<1>6. CASE Environment
    BY <1>1, <1>2, <1>6, UpgradeEnvironment, NeutralEnvironment DEF Environment
<1> QED BY <1>3, <1>4, <1>5, <1>6 DEF Next

(***************************************************************************)
(* A label never runs ahead of the data it stands for, in any interleaving *)
(* of the calls of checkMysqlUpgrade and CreatePodAndClaim with crashes,   *)
(* edits and stale caches: the inductive invariant, for any constants.     *)
(***************************************************************************)
THEOREM LabelsFollowData ==
    ASSUME ForwardEdits, NeverRefused
    PROVE  Spec => []UpgradeInv
<1>1. Init => UpgradeInv
    BY UpgradeInit, StatusInit DEF UpgradeInv
<1>2. TypeOK /\ TypeOK' /\ UpgradeInv /\ [Next]_vars => UpgradeInv'
    <2>1. DetourInv => SpecInv
        BY DEF DetourInv
    <2> QED BY <2>1, UpgradeNext, StatusNext DEF UpgradeInv
<1> QED BY <1>1, <1>2, TypeCorrect, PTL DEF Spec

(***************************************************************************)
(* A node that takes part in the cluster runs on data of its own version:  *)
(* for any number of nodes, revisions, crashes, failures and partitions,   *)
(* and however stale the three caches are, as long as the user only moves  *)
(* to later revisions and CanUpgrade lets a later one follow an earlier.   *)
(***************************************************************************)
THEOREM UpgradeSafe ==
    ASSUME ForwardEdits, NeverRefused
    PROVE  Spec => []UpgradedBeforeJoin
<1>1. UpgradeInv => UpgradedBeforeJoin
    BY DEF UpgradeInv, DetourInv, VolumeInv, UpgradedBeforeJoin
<1> QED BY <1>1, LabelsFollowData, PTL
=============================================================================
