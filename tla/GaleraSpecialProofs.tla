------------------------- MODULE GaleraSpecialProofs -------------------------
(***************************************************************************)
(* What the care of the special node promises, for any number of names,    *)
(* revisions, edits and faults: nobody joins the cluster with data of      *)
(* another version, also when a pass works with lists as old as you like.  *)
(***************************************************************************)
EXTENDS GaleraSpecial, FiniteSetTheorems, SequenceTheorems, TLAPS

(* The parts of the inductive invariant.                                   *)

(* The last revision anything may carry: the one of the pass under way, or *)
(* the one a new pass would read.                                          *)
Cap == IF pass = Idle THEN spec.rev ELSE pass.spec.rev
BelowCap ==
    /\ pass.spec.rev <= spec.rev
    /\ \A n \in Names :
          /\ claims[n].rev <= Cap /\ seen.claims[n].rev <= Cap
          /\ pods[n].rev <= Cap /\ seen.pods[n].rev <= Cap /\ data[n] <= Cap

(* No pod is older than what is on its volume, or than what is shown.      *)
PodIsLatest ==
    \A n \in Names : pods[n] # NoPod =>
        /\ claims[n].rev <= pods[n].rev /\ seen.claims[n].rev <= pods[n].rev
        /\ seen.pods[n].rev <= pods[n].rev /\ data[n] <= pods[n].rev

(* The label of a claim is never ahead of the data, not even in the cache. *)
LabelBehind ==
    \A n \in Names :
        /\ data[n] # 0 => claims[n].rev <= data[n] /\ seen.claims[n].rev <= data[n]
        /\ claims[n] = NoClaim => data[n] = 0

(* Who is ready has data; who is in the cluster joins with its own version.*)
JoinsRight ==
    \A n \in Names :
        /\ pods[n].at = "ready" => data[n] # 0 /\ claims[n] # NoClaim
        /\ pods[n].mode = "cluster" => data[n] \in {0, pods[n].rev}

(* What must hold for a call a pass still has to make.                     *)
CreatesClaim(i) ==
    LET c == pass.todo[i]
    IN  /\ c.rev = pass.spec.rev /\ pods[c.pod] = NoPod
        /\ \A j \in 1..(i - 1) : pass.todo[j].op # "createPod"
CreatesPod(i) ==
    LET c == pass.todo[i]
    IN  /\ c.rev = pass.spec.rev
        /\ c.role \in {"node", "special"} /\ c.mode \in {"cluster", "standalone"}
        /\ c.mode = "cluster" =>
              data[c.pod] \in {0, c.rev} /\ (pods[c.pod] # NoPod => pods[c.pod].rev = c.rev)
Patches(i) ==
    LET c == pass.todo[i]
    IN  /\ c.rev \in Revs /\ c.rev <= pass.spec.rev
        /\ pods[c.pod] # NoPod => c.rev <= pods[c.pod].rev
        /\ \/ data[c.pod] = 0 \/ c.rev <= data[c.pod]
           \/ \E j \in 1..(i - 1) : pass.todo[j].op = "mysqlUpgrade" /\ pass.todo[j].pod = c.pod
CallsRight ==
    \A i \in 1..Len(pass.todo) :
        /\ pass.todo[i].op = "createClaim" => CreatesClaim(i)
        /\ pass.todo[i].op = "createPod" => CreatesPod(i)
        /\ pass.todo[i].op = "patchClaim" => Patches(i)

(* A pass that has not ended has a call left.                              *)
HasCalls == pass # Idle => pass.todo # << >>

SpecialInv == BelowCap /\ PodIsLatest /\ LabelBehind /\ JoinsRight /\ HasCalls /\ CallsRight

-----------------------------------------------------------------------------
(* Types                                                                   *)

(* The bounds are numbers.                                                 *)
LEMMA Bounds == MaxRev \in Nat \ {0} /\ MaxEdits \in Nat /\ MaxFaults \in Nat
BY SpecialAssumption

(* TypeOK, with the parts of records spelled out.                          *)
LEMMA Parts ==
    ASSUME TypeOK
    PROVE  /\ spec.rev \in Revs /\ pass.spec.rev \in Revs /\ pass.todo \in Seq(Calls)
           /\ \A n \in Names :
                 /\ pods[n].rev \in 0..MaxRev /\ seen.pods[n].rev \in 0..MaxRev
                 /\ claims[n].rev \in 0..MaxRev /\ seen.claims[n].rev \in 0..MaxRev
                 /\ data[n] \in 0..MaxRev
                 /\ pods[n] # NoPod => pods[n] \in PodStates /\ pods[n].rev \in Revs
                 /\ seen.pods[n] # NoPod => seen.pods[n] \in PodStates /\ seen.pods[n].rev \in Revs
                 /\ claims[n] # NoClaim => claims[n] \in ClaimStates /\ claims[n].rev \in Revs
                 /\ pods[n] = NoPod => pods[n].rev = 0 /\ pods[n].at = "none"
                                       /\ pods[n].mode = "none"
                 /\ claims[n] = NoClaim => claims[n].rev = 0 /\ ~claims[n].deleting
<1>1. spec \in Specs /\ pass.spec \in Specs /\ pass.todo \in Seq(Calls)
  BY DEF TypeOK
<1>2. spec.rev \in Revs /\ pass.spec.rev \in Revs
  BY <1>1 DEF Specs
<1>3. Revs \subseteq 0..MaxRev /\ 0 \in 0..MaxRev
  BY Bounds DEF Revs
<1>4. ASSUME NEW p \in PodStates \cup {NoPod}
      PROVE  /\ p.rev \in 0..MaxRev
             /\ p # NoPod => p \in PodStates /\ p.rev \in Revs
             /\ p = NoPod => p.rev = 0 /\ p.at = "none" /\ p.mode = "none"
  <2>1. NoPod.rev = 0 /\ NoPod.at = "none" /\ NoPod.mode = "none"
    BY DEF NoPod
  <2>2. p \in PodStates => p.rev \in Revs
    BY DEF PodStates
  <2> QED
    BY <1>3, <2>1, <2>2
<1>5. ASSUME NEW c \in ClaimStates \cup {NoClaim}
      PROVE  /\ c.rev \in 0..MaxRev
             /\ c # NoClaim => c \in ClaimStates /\ c.rev \in Revs
             /\ c = NoClaim => c.rev = 0 /\ ~c.deleting
  <2>1. NoClaim.rev = 0 /\ ~NoClaim.deleting
    BY DEF NoClaim
  <2>2. c \in ClaimStates => c.rev \in Revs
    BY DEF ClaimStates
  <2> QED
    BY <1>3, <2>1, <2>2
<1>6. ASSUME NEW n \in Names
      PROVE  /\ pods[n] \in PodStates \cup {NoPod} /\ seen.pods[n] \in PodStates \cup {NoPod}
             /\ claims[n] \in ClaimStates \cup {NoClaim}
             /\ seen.claims[n] \in ClaimStates \cup {NoClaim}
             /\ data[n] \in 0..MaxRev
  BY DEF TypeOK
<1> QED
  BY <1>1, <1>2, <1>4, <1>5, <1>6

(* The revision of a pod, or of no pod, is a number.                       *)
LEMMA PodRev == \A p \in PodStates \cup {NoPod} : p.rev \in 0..MaxRev
<1>1. NoPod.rev = 0 /\ Revs \subseteq 0..MaxRev /\ 0 \in 0..MaxRev
  BY Bounds DEF NoPod, Revs
<1>2. \A p \in PodStates : p.rev \in Revs
  BY DEF PodStates
<1> QED
  BY <1>1, <1>2

(* The states a pod or a claim may be in are told apart from none.         *)
LEMMA Apart == NoPod \notin PodStates /\ NoClaim \notin ClaimStates
<1>1. NoPod.role = "none" /\ \A p \in PodStates : p.role # "none"
  BY DEF NoPod, PodStates
<1>2. NoClaim.rev = 0 /\ \A c \in ClaimStates : c.rev # 0
  BY DEF NoClaim, ClaimStates, Revs
<1> QED
  BY <1>1, <1>2

(* Between passes there is nothing to do.                                  *)
LEMMA IdleIsEmpty ==
    /\ Idle \in [spec : Specs, todo : Seq(Calls)] /\ Idle.spec.rev = 1
    /\ Idle.todo = << >> /\ Len(Idle.todo) = 0
BY Bounds DEF Idle, Specs, Revs

(* The initial state is well-typed and the invariant holds in it.          *)
LEMMA SpecialInit == Init => TypeOK /\ SpecialInv
<1> SUFFICES ASSUME Init PROVE TypeOK /\ SpecialInv
  OBVIOUS
<1> DEFINE node == [role |-> "node", rev |-> 1, mode |-> "cluster", at |-> "ready"]
           claim == [rev |-> 1, size |-> ClaimSpec(1), deleting |-> FALSE]
<1>1. 1 \in Revs /\ node \in PodStates /\ claim \in ClaimStates
  BY Bounds DEF Revs, PodStates, ClaimStates
<1>2. node.rev = 1 /\ node.at = "ready" /\ node.mode = "cluster" /\ claim.rev = 1
  OBVIOUS
<1>3. PICK n \in Names :
         /\ pods = [m \in Names |-> IF m # n THEN NoPod ELSE node]
         /\ claims = [m \in Names |-> IF m # n THEN NoClaim ELSE claim]
         /\ data = [m \in Names |-> IF m = n THEN 1 ELSE 0]
  BY SpecialAssumption DEF Init
<1>4. /\ spec \in Specs /\ spec.rev = 1 /\ pass = Idle /\ edits = 0 /\ faults = 0
      /\ seen = [pods |-> pods, claims |-> claims]
  BY <1>1 DEF Init, Specs
<1> HIDE DEF node, claim
<1>5. /\ pods \in [Names -> PodStates \cup {NoPod}] /\ claims \in [Names -> ClaimStates \cup {NoClaim}]
      /\ data \in [Names -> 0..MaxRev]
  BY <1>1, <1>3, Bounds
<1>6. TypeOK
  BY <1>4, <1>5, IdleIsEmpty, Bounds DEF TypeOK
<1>7. ASSUME NEW m \in Names
      PROVE  \/ pods[m] = NoPod /\ claims[m] = NoClaim /\ data[m] = 0
             \/ pods[m] = node /\ claims[m] = claim /\ data[m] = 1
  BY <1>3
<1>8. NoPod.rev = 0 /\ NoClaim.rev = 0 /\ NoPod.at = "none" /\ NoPod.mode = "none"
  BY DEF NoPod, NoClaim
<1>9. seen.pods = pods /\ seen.claims = claims /\ Cap = 1
  BY <1>4 DEF Cap
<1>10. BelowCap
  BY <1>2, <1>4, <1>7, <1>8, <1>9, IdleIsEmpty DEF BelowCap
<1>11. PodIsLatest
  BY <1>2, <1>7, <1>8, <1>9 DEF PodIsLatest
<1>12. LabelBehind /\ JoinsRight
  BY <1>1, <1>2, <1>7, <1>8, <1>9, Apart DEF LabelBehind, JoinsRight
<1>13. HasCalls /\ CallsRight
  BY <1>4, IdleIsEmpty DEF HasCalls, CallsRight
<1> QED
  BY <1>6, <1>10, <1>11, <1>12, <1>13 DEF SpecialInv

-----------------------------------------------------------------------------
(* What a pass may plan                                                    *)

Harmless(c) == c.op \in {"deletePod", "deleteClaim", "checkSynced"}
Deletions == {q \in Seq(Calls) : \A i \in 1..Len(q) : Harmless(q[i])}

(* Deletions, at the end of which a pod is created or a volume upgraded.   *)
Plan(q) ==
    \/ q \in Deletions
    \/ \E t \in Deletions, n \in PodNames, role \in {"node", "special"} :
          q = t \o CreatePodAndClaim(n, role)
    \/ \E t \in Deletions, n \in Listed : q = t \o RunUpgrade(n)

(* A call that deletes something.                                          *)
LEMMA DoType ==
    ASSUME NEW n \in Names, NEW op \in {"deletePod", "deleteClaim", "checkSynced", "mysqlUpgrade"}
    PROVE  Do(op, n) \in Calls /\ Do(op, n).op = op /\ Do(op, n).pod = n
BY DEF Do, Call, Calls

(* Deletions may be made one after the other.                              *)
LEMMA DeletionsAppend ==
    ASSUME NEW s \in Deletions, NEW t \in Deletions
    PROVE  s \o t \in Deletions
<1>1. s \in Seq(Calls) /\ t \in Seq(Calls)
  BY DEF Deletions
<1>2. /\ s \o t \in Seq(Calls) /\ Len(s \o t) = Len(s) + Len(t) /\ Len(s) \in Nat /\ Len(t) \in Nat
      /\ \A i \in 1..(Len(s) + Len(t)) : (s \o t)[i] = IF i <= Len(s) THEN s[i] ELSE t[i - Len(s)]
  BY <1>1, ConcatProperties, LenProperties
<1>3. ASSUME NEW i \in 1..Len(s \o t) PROVE Harmless((s \o t)[i])
  <2>1. CASE i <= Len(s)
    BY <1>2, <2>1 DEF Deletions
  <2>2. CASE ~(i <= Len(s))
    <3>1. i - Len(s) \in 1..Len(t)
      BY <1>2, <2>2
    <3> QED
      BY <1>2, <2>2, <3>1 DEF Deletions
  <2> QED
    BY <2>1, <2>2
<1> QED
  BY <1>2, <1>3 DEF Deletions

(* The short ones.                                                         *)
LEMMA ShortDeletions ==
    /\ << >> \in Deletions
    /\ \A n \in Names :
          /\ <<Do("deletePod", n)>> \in Deletions
          /\ <<Do("deleteClaim", n)>> \in Deletions
          /\ <<Do("checkSynced", n)>> \in Deletions
<1>1. << >> \in Deletions
  BY DEF Deletions
<1>2. ASSUME NEW c \in Calls, Harmless(c) PROVE <<c>> \in Deletions
  BY <1>2 DEF Deletions
<1> QED
  BY <1>1, <1>2, DoType DEF Harmless

(* Longer ones are put together from them.                                 *)
LEMMA LongDeletions ==
    ASSUME NEW n \in Names
    PROVE  /\ ForceDeletePodAndClaim(n) \in Deletions
           /\ DeleteSyncedPodForUpgrade(n) \in Deletions
           /\ <<Do("checkSynced", n), Do("deletePod", n)>> \in Deletions
<1> DEFINE a == Do("deletePod", n)
           b == Do("deleteClaim", n)
           c == Do("checkSynced", n)
<1>1. a \in Calls /\ b \in Calls /\ c \in Calls /\ Harmless(a) /\ Harmless(b) /\ Harmless(c)
  BY DoType DEF Harmless
<1> HIDE DEF a, b, c
<1>2. <<b, a>> \in Deletions
  <2>1. <<b, a>> \in Seq(Calls) /\ Len(<<b, a>>) = 2 /\ <<b, a>>[1] = b /\ <<b, a>>[2] = a
    BY <1>1
  <2> QED
    BY <1>1, <2>1 DEF Deletions
<1>3. <<c, a>> \in Deletions
  <2>1. <<c, a>> \in Seq(Calls) /\ Len(<<c, a>>) = 2 /\ <<c, a>>[1] = c /\ <<c, a>>[2] = a
    BY <1>1
  <2> QED
    BY <1>1, <2>1 DEF Deletions
<1>4. <<c, b, a>> \in Deletions
  <2>1. /\ <<c, b, a>> \in Seq(Calls) /\ Len(<<c, b, a>>) = 3
        /\ <<c, b, a>>[1] = c /\ <<c, b, a>>[2] = b /\ <<c, b, a>>[3] = a
    BY <1>1
  <2> QED
    BY <1>1, <2>1 DEF Deletions
<1> QED
  BY <1>2, <1>3, <1>4, ShortDeletions DEF ForceDeletePodAndClaim, DeleteSyncedPodForUpgrade, a, b, c

(* considerPodAndClaimTermination only deletes.                            *)
LEMMA TerminationsDelete == Terminations \subseteq Deletions
<1>1. Unused \subseteq Names /\ UnreadyNodes \subseteq Names /\ ReadyNodes \subseteq Names
  BY DEF Unused, UnreadyNodes, ReadyNodes, Of, Listed
<1> DEFINE first == IF CanProcess THEN Orders(UnreadyNodes) ELSE {<< >>}
           last == IF Cardinality(ReadyNodes) > 1
                   THEN {<<Do("checkSynced", n), Do("deletePod", n)>> : n \in ReadyNodes}
                   ELSE {<< >>}
           claimsOnly == {<<Do("deleteClaim", n)>> : n \in Unused}
           gone(q) == [i \in DOMAIN q |-> Do("deletePod", q[i])]
           after(q, l) == gone(q) \o l
           podsOnly == {after(q, l) : q \in first, l \in last}
<1>2. Terminations = IF CanProcess /\ Unused # {} THEN claimsOnly ELSE podsOnly
  BY DEF Terminations
<1>3. claimsOnly \subseteq Deletions
  BY <1>1, ShortDeletions
<1>4. podsOnly \subseteq Deletions
  <2>1. last \subseteq Deletions
    BY <1>1, ShortDeletions, LongDeletions
  <2>2. ASSUME NEW q \in first PROVE gone(q) \in Deletions
    <3>1. CASE CanProcess
      <4>1. IsFiniteSet(UnreadyNodes)
        BY <1>1, SpecialAssumption, FS_Subset
      <4>2. Cardinality(UnreadyNodes) \in Nat
        BY <4>1, FS_CardinalityType
      <4>3. q \in [1..Cardinality(UnreadyNodes) -> UnreadyNodes]
        BY <2>2, <3>1 DEF Orders
      <4> DEFINE d == [i \in 1..Cardinality(UnreadyNodes) |-> Do("deletePod", q[i])]
      <4>4. \A i \in 1..Cardinality(UnreadyNodes) : Do("deletePod", q[i]) \in Calls
                                                     /\ Harmless(Do("deletePod", q[i]))
        BY <1>1, <4>3, DoType DEF Harmless
      <4>5. d \in Seq(Calls) /\ Len(d) = Cardinality(UnreadyNodes)
        BY <4>2, <4>4
      <4>6. d \in Deletions
        BY <4>4, <4>5 DEF Deletions
      <4> QED
        BY <4>3, <4>6
    <3>2. CASE ~CanProcess
      <4>1. q = << >> /\ DOMAIN q = {}
        BY <2>2, <3>2
      <4>2. gone(q) = << >>
        BY <4>1
      <4> QED
        BY <4>2, ShortDeletions
    <3> QED
      BY <3>1, <3>2
  <2> HIDE DEF first, last, gone
  <2>3. \A q \in first, l \in last : after(q, l) \in Deletions
    BY <2>1, <2>2, DeletionsAppend
  <2> HIDE DEF after
  <2> QED
    BY <2>3
<1> HIDE DEF claimsOnly, podsOnly
<1> QED
  BY <1>2, <1>3, <1>4

(* Every early return of runGalera follows such a plan.                    *)
LEMMA SyncPlans == Sync => \E q : Begins(q) /\ Plan(q)
<1> SUFFICES ASSUME Sync PROVE \E q : Begins(q) /\ Plan(q)
  OBVIOUS
<1>1. /\ Listed \subseteq Names /\ WithoutClaims \subseteq Listed /\ Members \subseteq Listed
      /\ UnreadyNodes \subseteq Listed /\ ReadyNodes \subseteq Listed /\ Unused \subseteq Names
      /\ Of("special") \subseteq Listed
  BY DEF Listed, WithoutClaims, Members, UnreadyNodes, ReadyNodes, Unused, Of
<1>2. Standalone \subseteq Listed /\ Outdated \subseteq Listed /\ Mismatched \subseteq Names
  BY <1>1 DEF Standalone, Outdated, Mismatched
<1>3. ASSUME NEW t \in Deletions PROVE t \o << >> = t /\ << >> \o t = t
  BY <1>3, ConcatEmptySeq DEF Deletions
<1>4. ASSUME NEW q \in Deletions PROVE Plan(q)
  BY DEF Plan
<1>5. ASSUME NEW t \in Deletions, NEW u \in Deletions PROVE Plan(t \o u)
  BY <1>4, DeletionsAppend
<1>6. ASSUME NEW t \in Deletions, NEW n \in PodNames, NEW role \in {"node", "special"}
      PROVE  Plan(t \o CreatePodAndClaim(n, role))
  BY DEF Plan
<1>7. ASSUME NEW t \in Deletions, NEW n \in Listed PROVE Plan(t \o RunUpgrade(n))
  BY DEF Plan
<1>8. ASSUME NEW n \in PodNames PROVE Plan(CreatePodAndClaim(n, "node"))
  <2>1. << >> \o CreatePodAndClaim(n, "node") = CreatePodAndClaim(n, "node")
    BY DEF CreatePodAndClaim
  <2> QED
    BY <1>6, <2>1, ShortDeletions
<1>9. ASSUME NEW n \in Listed PROVE Plan(RunUpgrade(n))
  <2>1. << >> \o RunUpgrade(n) = RunUpgrade(n)
    BY DEF RunUpgrade
  <2> QED
    BY <1>7, <2>1, ShortDeletions
<1>10. CASE DeletePodWithoutClaims
  BY <1>1, <1>4, <1>10, ShortDeletions DEF DeletePodWithoutClaims
<1>11. CASE DeleteSecondSpecial
  BY <1>1, <1>4, <1>11, LongDeletions DEF DeleteSecondSpecial
<1>12. CASE DeleteMismatchedClaim
  BY <1>2, <1>4, <1>12, ShortDeletions DEF DeleteMismatchedClaim
<1>13. CASE CheckMysqlUpgrade
  BY <1>2, <1>9, <1>13 DEF CheckMysqlUpgrade
<1>14. CASE CreateNode
  <2>1. \/ \E n \in UnreadyNodes : Begins(<<Do("deletePod", n)>>)
        \/ \E n \in PodNames : Begins(CreatePodAndClaim(n, "node"))
    BY <1>14 DEF CreateNode
  <2> QED
    BY <1>1, <1>4, <1>8, <2>1, ShortDeletions
<1>15. CASE DeletePodForUpgrade
  BY <1>1, <1>2, <1>5, <1>15, TerminationsDelete, LongDeletions DEF DeletePodForUpgrade
<1>16. CASE ManageSpecialNode
  <2>1. PICK t \in Terminations :
           \/ \E n \in PodNames : Begins(t \o CreatePodAndClaim(n, "special"))
           \/ \E n \in Of("special") : Begins(t \o ManageSpecialPod(n))
    BY <1>16 DEF ManageSpecialNode
  <2>2. ASSUME NEW n \in Listed
        PROVE  ManageSpecialPod(n) \in Deletions \/ ManageSpecialPod(n) = RunUpgrade(n)
    BY <1>1, ShortDeletions, LongDeletions DEF ManageSpecialPod
  <2> QED
    BY <1>1, <1>5, <1>6, <1>7, <2>1, <2>2, TerminationsDelete
<1>17. CASE RemoveSpecialNode
  <2>1. PICK t \in Terminations :
           \/ Begins(t)
           \/ \E n \in Of("special") : Begins(t \o ForceDeletePodAndClaim(n))
    BY <1>17 DEF RemoveSpecialNode
  <2> QED
    BY <1>1, <1>4, <1>5, <2>1, TerminationsDelete, LongDeletions
<1> QED
  BY <1>10, <1>11, <1>12, <1>13, <1>14, <1>15, <1>16, <1>17 DEF Sync

(* What the calls of a plan rely on, when the pass has just read spec.     *)
PlannedRight(q) ==
    \A i \in 1..Len(q) :
        /\ q[i].op = "createClaim" =>
              /\ q[i].rev = spec.rev /\ pods[q[i].pod] = NoPod
              /\ \A j \in 1..(i - 1) : q[j].op # "createPod"
        /\ q[i].op = "createPod" =>
              /\ q[i].rev = spec.rev
              /\ q[i].role \in {"node", "special"} /\ q[i].mode \in {"cluster", "standalone"}
              /\ q[i].mode = "cluster" =>
                    /\ data[q[i].pod] \in {0, q[i].rev}
                    /\ pods[q[i].pod] # NoPod => pods[q[i].pod].rev = q[i].rev
        /\ q[i].op = "patchClaim" =>
              /\ q[i].rev \in Revs /\ q[i].rev <= spec.rev
              /\ pods[q[i].pod] # NoPod => q[i].rev <= pods[q[i].pod].rev
              /\ \E j \in 1..(i - 1) : q[j].op = "mysqlUpgrade" /\ q[j].pod = q[i].pod

(* Deletions in front of calls that are right change nothing, as long as   *)
(* none of them creates a pod.                                             *)
LEMMA DeletionsFirst ==
    ASSUME NEW t \in Deletions, NEW u \in Seq(Calls), PlannedRight(u)
    PROVE  t \o u \in Seq(Calls) /\ PlannedRight(t \o u)
<1> DEFINE q == t \o u
<1>1. t \in Seq(Calls) /\ \A i \in 1..Len(t) : Harmless(t[i])
  BY DEF Deletions
<1>2. /\ q \in Seq(Calls) /\ Len(q) = Len(t) + Len(u) /\ Len(t) \in Nat /\ Len(u) \in Nat
      /\ \A i \in 1..(Len(t) + Len(u)) : q[i] = IF i <= Len(t) THEN t[i] ELSE u[i - Len(t)]
  BY <1>1, ConcatProperties, LenProperties
<1> HIDE DEF q
<1>3. ASSUME NEW i \in 1..Len(q), i <= Len(t) PROVE Harmless(q[i])
  BY <1>1, <1>2, <1>3
<1>4. ASSUME NEW i \in 1..Len(q), ~(i <= Len(t))
      PROVE  /\ i - Len(t) \in 1..Len(u) /\ q[i] = u[i - Len(t)]
             /\ \A j \in 1..(i - Len(t) - 1) : j + Len(t) \in 1..(i - 1) /\ q[j + Len(t)] = u[j]
  <2>1. i - Len(t) \in 1..Len(u)
    BY <1>2, <1>4
  <2>2. ASSUME NEW j \in 1..(i - Len(t) - 1)
        PROVE  j + Len(t) \in 1..(i - 1) /\ q[j + Len(t)] = u[j]
    <3>1. /\ j + Len(t) \in 1..(Len(t) + Len(u)) /\ ~(j + Len(t) <= Len(t))
          /\ (j + Len(t)) - Len(t) = j /\ j + Len(t) \in 1..(i - 1)
      BY <1>2, <1>4
    <3> QED
      BY <1>2, <3>1
  <2> QED
    BY <1>2, <1>4, <2>1, <2>2
<1>5. ASSUME NEW i \in 1..Len(q), q[i].op = "createClaim"
      PROVE  /\ q[i].rev = spec.rev /\ pods[q[i].pod] = NoPod
             /\ \A j \in 1..(i - 1) : q[j].op # "createPod"
  <2>1. ~(i <= Len(t))
    BY <1>3, <1>5 DEF Harmless
  <2>2. /\ q[i].rev = spec.rev /\ pods[q[i].pod] = NoPod
        /\ \A j \in 1..(i - Len(t) - 1) : u[j].op # "createPod"
    BY <1>4, <1>5, <2>1 DEF PlannedRight
  <2>3. ASSUME NEW j \in 1..(i - 1) PROVE q[j].op # "createPod"
    <3>1. j \in 1..Len(q)
      BY <1>2
    <3>2. CASE j <= Len(t)
      BY <1>3, <3>1, <3>2 DEF Harmless
    <3>3. CASE ~(j <= Len(t))
      <4>1. j - Len(t) \in 1..(i - Len(t) - 1) /\ q[j] = u[j - Len(t)]
        BY <1>2, <1>4, <3>1, <3>3
      <4> QED
        BY <2>2, <4>1
    <3> QED
      BY <3>2, <3>3
  <2> QED
    BY <2>2, <2>3
<1>6. ASSUME NEW i \in 1..Len(q), q[i].op = "createPod"
      PROVE  /\ q[i].rev = spec.rev
             /\ q[i].role \in {"node", "special"} /\ q[i].mode \in {"cluster", "standalone"}
             /\ q[i].mode = "cluster" =>
                   /\ data[q[i].pod] \in {0, q[i].rev}
                   /\ pods[q[i].pod] # NoPod => pods[q[i].pod].rev = q[i].rev
  <2>1. ~(i <= Len(t))
    BY <1>3, <1>6 DEF Harmless
  <2> QED
    BY <1>4, <1>6, <2>1 DEF PlannedRight
<1>7. ASSUME NEW i \in 1..Len(q), q[i].op = "patchClaim"
      PROVE  /\ q[i].rev \in Revs /\ q[i].rev <= spec.rev
             /\ pods[q[i].pod] # NoPod => q[i].rev <= pods[q[i].pod].rev
             /\ \E j \in 1..(i - 1) : q[j].op = "mysqlUpgrade" /\ q[j].pod = q[i].pod
  <2>1. ~(i <= Len(t))
    BY <1>3, <1>7 DEF Harmless
  <2>2. /\ q[i].rev \in Revs /\ q[i].rev <= spec.rev
        /\ pods[q[i].pod] # NoPod => q[i].rev <= pods[q[i].pod].rev
        /\ \E j \in 1..(i - Len(t) - 1) : u[j].op = "mysqlUpgrade" /\ u[j].pod = q[i].pod
    <3> DEFINE k == i - Len(t)
    <3>1. k \in 1..Len(u) /\ q[i] = u[k]
      BY <1>4, <2>1
    <3> HIDE DEF k
    <3>2. /\ q[i].rev \in Revs /\ q[i].rev <= spec.rev
          /\ pods[q[i].pod] # NoPod => q[i].rev <= pods[q[i].pod].rev
          /\ \E j \in 1..(k - 1) : u[j].op = "mysqlUpgrade" /\ u[j].pod = q[i].pod
      BY <1>7, <3>1 DEF PlannedRight
    <3> QED
      BY <3>2 DEF k
  <2> QED
    BY <1>4, <2>1, <2>2
<1>8. PlannedRight(q)
  BY <1>5, <1>6, <1>7 DEF PlannedRight
<1> QED
  BY <1>2, <1>8 DEF q

(* Creating a pod, and its volume when the cache shows none: the volume    *)
(* that the pod joins with is empty, or has the version of the pod.        *)
LEMMA CreateRight ==
    ASSUME TypeOK, SpecialInv, pass = Idle, NEW n \in PodNames, NEW role \in {"node", "special"}
    PROVE  CreatePodAndClaim(n, role) \in Seq(Calls) /\ PlannedRight(CreatePodAndClaim(n, role))
<1> DEFINE claim == Call("createClaim", n, spec.rev, "none", "none")
           pod == Call("createPod", n, spec.rev, role, Mode(n))
<1>1. n \in Names /\ spec.rev \in Revs /\ Cap = spec.rev
  BY Parts DEF PodNames, Unused, Cap
<1>2. Mode(n) \in {"cluster", "standalone"}
  BY DEF Mode
<1>3. claim \in Calls /\ pod \in Calls
  BY <1>1, <1>2 DEF Call, Calls
<1>4. /\ claim.op = "createClaim" /\ claim.rev = spec.rev /\ claim.pod = n
      /\ pod.op = "createPod" /\ pod.rev = spec.rev /\ pod.pod = n /\ pod.role = role
      /\ pod.mode = Mode(n)
  BY DEF Call
<1>5. seen.claims[n] = NoClaim => pods[n] = NoPod /\ data[n] = 0
  BY <1>1 DEF PodNames, Unused, SpecialInv, LabelBehind
<1>6. Mode(n) = "cluster" =>
         data[n] \in {0, spec.rev} /\ (pods[n] # NoPod => pods[n].rev = spec.rev)
  <2>1. CASE seen.claims[n] = NoClaim
    BY <1>5, <2>1
  <2>2. CASE seen.claims[n] # NoClaim
    <3>1. Mode(n) = "cluster" => seen.claims[n].rev = spec.rev
      BY <2>2 DEF Mode
    <3>2. /\ data[n] <= spec.rev /\ pods[n].rev <= spec.rev
          /\ data[n] # 0 => seen.claims[n].rev <= data[n]
          /\ pods[n] # NoPod => seen.claims[n].rev <= pods[n].rev
      BY <1>1 DEF SpecialInv, BelowCap, LabelBehind, PodIsLatest
    <3>3. data[n] \in 0..MaxRev /\ pods[n].rev \in 0..MaxRev /\ spec.rev \in 0..MaxRev
      BY <1>1, Parts DEF Revs
    <3>4. Mode(n) = "cluster" => data[n] = 0 \/ data[n] = spec.rev
      BY <3>1, <3>2, <3>3
    <3>5. Mode(n) = "cluster" /\ pods[n] # NoPod => pods[n].rev = spec.rev
      BY <3>1, <3>2, <3>3
    <3> QED
      BY <3>4, <3>5
  <2> QED
    BY <2>1, <2>2
<1> HIDE DEF claim, pod
<1>7. CASE seen.claims[n] = NoClaim
  <2>1. CreatePodAndClaim(n, role) = <<claim, pod>>
    <3>1. CreatePodAndClaim(n, role) = <<claim>> \o <<pod>>
      BY <1>7, Zenon DEF CreatePodAndClaim, claim, pod
    <3>2. <<claim>> \o <<pod>> = <<claim, pod>>
      <4>1. <<claim>> \in Seq(Calls) /\ <<pod>> \in Seq(Calls)
        BY <1>3
      <4>2. /\ <<claim>> \o <<pod>> \in Seq(Calls) /\ Len(<<claim>> \o <<pod>>) = 2
            /\ (<<claim>> \o <<pod>>)[1] = claim /\ (<<claim>> \o <<pod>>)[2] = pod
        BY <4>1, ConcatProperties
      <4>3. <<claim, pod>> \in Seq(Calls) /\ Len(<<claim, pod>>) = 2
        BY <1>3
      <4>4. \A i \in 1..2 : (<<claim>> \o <<pod>>)[i] = <<claim, pod>>[i]
        BY <4>2
      <4> QED
        BY <4>2, <4>3, <4>4, SeqEqual
    <3> QED
      BY <3>1, <3>2
  <2>2. /\ <<claim, pod>> \in Seq(Calls) /\ Len(<<claim, pod>>) = 2
        /\ <<claim, pod>>[1] = claim /\ <<claim, pod>>[2] = pod
    BY <1>3
  <2> DEFINE q == <<claim, pod>>
  <2> HIDE DEF q
  <2>3. q \in Seq(Calls) /\ Len(q) = 2 /\ q[1] = claim /\ q[2] = pod
    BY <2>2 DEF q
  <2>4. PlannedRight(q)
    BY <1>2, <1>4, <1>5, <1>6, <1>7, <2>3 DEF PlannedRight
  <2> QED
    BY <2>1, <2>3, <2>4 DEF q
<1>8. CASE seen.claims[n] # NoClaim
  <2>1. CreatePodAndClaim(n, role) = <<pod>>
    BY <1>8 DEF CreatePodAndClaim, pod
  <2> DEFINE q == <<pod>>
  <2>2. q \in Seq(Calls) /\ Len(q) = 1 /\ q[1] = pod
    BY <1>3
  <2> HIDE DEF q
  <2>3. PlannedRight(q)
    BY <1>2, <1>4, <1>6, <2>2 DEF PlannedRight
  <2> QED
    BY <2>1, <2>2, <2>3 DEF q
<1> QED
  BY <1>7, <1>8

(* Upgrading a volume: its new label is a version the pod runs.            *)
LEMMA UpgradeRight ==
    ASSUME TypeOK, SpecialInv, pass = Idle, NEW n \in Listed
    PROVE  RunUpgrade(n) \in Seq(Calls) /\ PlannedRight(RunUpgrade(n))
<1> DEFINE a == Do("mysqlUpgrade", n)
           b == Do("deletePod", n)
           c == Call("patchClaim", n, seen.pods[n].rev, "none", "none")
<1>1. /\ n \in Names /\ Cap = spec.rev /\ seen.pods[n].rev \in Revs
      /\ seen.pods[n].rev <= spec.rev
      /\ pods[n] # NoPod => seen.pods[n].rev <= pods[n].rev
  BY Parts DEF Listed, Cap, SpecialInv, BelowCap, PodIsLatest
<1>2. /\ a \in Calls /\ b \in Calls /\ a.op = "mysqlUpgrade" /\ a.pod = n /\ b.op = "deletePod"
  BY <1>1, DoType
<1>3. /\ c \in Calls /\ c.op = "patchClaim" /\ c.pod = n /\ c.rev = seen.pods[n].rev
  BY <1>1 DEF Call, Calls
<1> HIDE DEF a, b, c
<1> DEFINE q == <<a, b, c>>
<1>4. q \in Seq(Calls) /\ Len(q) = 3 /\ q[1] = a /\ q[2] = b /\ q[3] = c
  BY <1>2, <1>3
<1>5. RunUpgrade(n) = q
  BY DEF RunUpgrade, a, b, c
<1> HIDE DEF q
<1>6. \E j \in 1..(3 - 1) : q[j].op = "mysqlUpgrade" /\ q[j].pod = n
  BY <1>2, <1>4
<1>7. PlannedRight(q)
  BY <1>1, <1>2, <1>3, <1>4, <1>6 DEF PlannedRight
<1> QED
  BY <1>4, <1>5, <1>7

(* So every plan is right.                                                 *)
LEMMA PlanRight ==
    ASSUME TypeOK, SpecialInv, pass = Idle, NEW q, Plan(q)
    PROVE  q \in Seq(Calls) /\ PlannedRight(q)
<1>1. ASSUME q \in Deletions PROVE q \in Seq(Calls) /\ PlannedRight(q)
  BY <1>1 DEF Deletions, Harmless, PlannedRight
<1>2. ASSUME NEW t \in Deletions, NEW n \in PodNames, NEW role \in {"node", "special"},
             q = t \o CreatePodAndClaim(n, role)
      PROVE  q \in Seq(Calls) /\ PlannedRight(q)
  BY <1>2, CreateRight, DeletionsFirst
<1>3. ASSUME NEW t \in Deletions, NEW n \in Listed, q = t \o RunUpgrade(n)
      PROVE  q \in Seq(Calls) /\ PlannedRight(q)
  BY <1>3, UpgradeRight, DeletionsFirst
<1> QED
  BY <1>1, <1>2, <1>3 DEF Plan

(* The beginning of a pass keeps the invariant.                            *)
LEMMA SyncKeeps == TypeOK /\ SpecialInv /\ Sync => TypeOK' /\ SpecialInv'
<1> SUFFICES ASSUME TypeOK, SpecialInv, Sync PROVE TypeOK' /\ SpecialInv'
  OBVIOUS
<1>1. PICK q : Begins(q) /\ Plan(q)
  BY SyncPlans
<1>2. pass = Idle /\ UNCHANGED <<spec, pods, claims, data, seen, edits>>
  BY <1>1 DEF Begins
<1>3. q \in Seq(Calls) /\ PlannedRight(q)
  BY <1>1, <1>2, PlanRight
<1>4. \/ pass' = Idle
      \/ pass'.spec = spec /\ pass'.todo = q /\ q # << >>
  BY <1>1 DEF Begins
<1>5. pass' \in [spec : Specs, todo : Seq(Calls)]
  BY <1>1, <1>3, IdleIsEmpty DEF Begins, TypeOK
<1>6. faults' \in 0..MaxFaults
  BY <1>1, Bounds DEF Begins, TypeOK
<1>7. TypeOK'
  BY <1>2, <1>5, <1>6 DEF TypeOK
<1>8. Cap' = Cap /\ pass'.spec.rev <= spec'.rev
  <2>1. spec.rev \in Revs /\ Cap = spec.rev
    BY <1>2, Parts DEF Cap
  <2> QED
    BY <1>2, <1>4, <2>1, IdleIsEmpty DEF Cap, Revs
<1>9. (BelowCap /\ PodIsLatest /\ LabelBehind /\ JoinsRight)'
  BY <1>2, <1>8 DEF SpecialInv, BelowCap, PodIsLatest, LabelBehind, JoinsRight
<1>11. HasCalls'
  BY <1>4 DEF HasCalls
<1>10. CallsRight'
  <2>1. CASE pass' = Idle
    BY <2>1, IdleIsEmpty DEF CallsRight
  <2>2. CASE pass'.spec = spec /\ pass'.todo = q
    <3>1. ASSUME NEW i \in 1..Len(q)
          PROVE  /\ q[i].op = "createClaim" => CreatesClaim(i)'
                 /\ q[i].op = "createPod" => CreatesPod(i)'
                 /\ q[i].op = "patchClaim" => Patches(i)'
      BY <1>2, <1>3, <2>2 DEF PlannedRight, CreatesClaim, CreatesPod, Patches
    <3> QED
      BY <2>2, <3>1 DEF CallsRight
  <2> QED
    BY <1>4, <2>1, <2>2
<1> QED
  BY <1>7, <1>9, <1>10, <1>11 DEF SpecialInv

-----------------------------------------------------------------------------
(* What a step may do to the names                                         *)

(* The parts of the invariant that are about one name.                     *)
NameRight(n) ==
    /\ claims[n].rev <= Cap /\ seen.claims[n].rev <= Cap
    /\ pods[n].rev <= Cap /\ seen.pods[n].rev <= Cap /\ data[n] <= Cap
    /\ pods[n] # NoPod =>
          /\ claims[n].rev <= pods[n].rev /\ seen.claims[n].rev <= pods[n].rev
          /\ seen.pods[n].rev <= pods[n].rev /\ data[n] <= pods[n].rev
    /\ data[n] # 0 => claims[n].rev <= data[n] /\ seen.claims[n].rev <= data[n]
    /\ claims[n] = NoClaim => data[n] = 0
    /\ pods[n].at = "ready" => data[n] # 0 /\ claims[n] # NoClaim
    /\ pods[n].mode = "cluster" => data[n] \in {0, pods[n].rev}

(* The invariant, name by name.                                            *)
LEMMA ByName ==
    SpecialInv <=> /\ pass.spec.rev <= spec.rev /\ HasCalls /\ CallsRight
                   /\ \A n \in Names : NameRight(n)
BY DEF SpecialInv, BelowCap, PodIsLatest, LabelBehind, JoinsRight, NameRight

(* A name that nothing happens to stays right.                             *)
LEMMA OthersKept ==
    ASSUME TypeOK, NEW n \in Names, NameRight(n), Cap \in Nat, Cap' \in Nat, Cap <= Cap',
           pods'[n] = pods[n], claims'[n] = claims[n], data'[n] = data[n], seen' = seen
    PROVE  NameRight(n)'
<1>1. /\ pods[n].rev \in 0..MaxRev /\ seen.pods[n].rev \in 0..MaxRev
      /\ claims[n].rev \in 0..MaxRev /\ seen.claims[n].rev \in 0..MaxRev /\ data[n] \in 0..MaxRev
  BY Parts
<1>2. ASSUME NEW k \in 0..MaxRev, k <= Cap PROVE k <= Cap'
  BY <1>2, Bounds
<1>3. /\ claims[n].rev <= Cap' /\ seen.claims[n].rev <= Cap'
      /\ pods[n].rev <= Cap' /\ seen.pods[n].rev <= Cap' /\ data[n] <= Cap'
  BY <1>1, <1>2 DEF NameRight
<1> QED
  BY <1>3 DEF NameRight

(* The bound of the revisions is a number.                                 *)
LEMMA CapType == TypeOK => Cap \in Nat
BY Parts, Bounds DEF Cap, Revs

(* What every step does to pods and data, and what it leaves of the calls: *)
(* a pod is only created with the revision of the pass, when the pass      *)
(* creates no volume any more, and new data have the version of a pod.     *)
Mild ==
    \A n \in Names :
        /\ pods'[n] # NoPod =>
              \/ pods[n] # NoPod /\ pods'[n].rev = pods[n].rev
              \/ /\ pods'[n].rev = pass.spec.rev
                 /\ \A i \in 1..Len(pass'.todo) : pass'.todo[i].op # "createClaim"
        /\ \/ data'[n] \in {data[n], 0}
           \/ pods[n] # NoPod /\ data'[n] = pods[n].rev

(* The pass goes on with the call at hand, or with the next one.           *)
GoesOn(k) ==
    /\ Len(pass'.todo) = Len(pass.todo) - k
    /\ \A i \in 1..Len(pass'.todo) : pass'.todo[i] = pass.todo[i + k]
    /\ pass'.todo # << >> => pass'.spec = pass.spec
    /\ k = 1 /\ pass.todo[1].op = "mysqlUpgrade" =>
          pods[pass.todo[1].pod] # NoPod /\ data'[pass.todo[1].pod] = pods[pass.todo[1].pod].rev

(* Then the calls that are left stay right.                                *)
LEMMA CallsStay ==
    ASSUME TypeOK, CallsRight, Mild, TypeOK', NEW k \in {0, 1}, GoesOn(k)
    PROVE  CallsRight'
<1>1. /\ pass.todo \in Seq(Calls) /\ Len(pass.todo) \in Nat
      /\ pass'.todo \in Seq(Calls) /\ Len(pass'.todo) \in Nat
  BY LenProperties DEF TypeOK
<1> SUFFICES ASSUME NEW i \in 1..Len(pass'.todo)
             PROVE  /\ pass'.todo[i].op = "createClaim" => CreatesClaim(i)'
                    /\ pass'.todo[i].op = "createPod" => CreatesPod(i)'
                    /\ pass'.todo[i].op = "patchClaim" => Patches(i)'
  BY DEF CallsRight
<1> DEFINE c == pass.todo[i + k]
           n == c.pod
<1>2. /\ i + k \in 1..Len(pass.todo) /\ pass'.todo[i] = c /\ pass'.spec = pass.spec
  BY <1>1 DEF GoesOn
<1>3. c \in Calls /\ n \in Names
  <2>1. c \in Calls
    BY <1>1, <1>2, ElementOfSeq
  <2> QED
    BY <2>1 DEF Calls
<1>4. /\ c.op = "createClaim" => CreatesClaim(i + k)
      /\ c.op = "createPod" => CreatesPod(i + k)
      /\ c.op = "patchClaim" => Patches(i + k)
  BY <1>2 DEF CallsRight
<1>5. /\ pods'[n] # NoPod =>
            \/ pods[n] # NoPod /\ pods'[n].rev = pods[n].rev
            \/ pods'[n].rev = pass.spec.rev /\ c.op # "createClaim"
      /\ \/ data'[n] = data[n] \/ data'[n] = 0
         \/ pods[n] # NoPod /\ data'[n] = pods[n].rev
  BY <1>2, <1>3 DEF Mild
<1>6. ASSUME NEW j \in 1..(i - 1)
      PROVE  pass'.todo[j] = pass.todo[j + k] /\ j + k \in 1..(i + k - 1)
  <2>1. j \in 1..Len(pass'.todo)
    BY <1>1
  <2>2. pass'.todo[j] = pass.todo[j + k]
    BY <2>1, Zenon DEF GoesOn
  <2>3. j + k \in 1..(i + k - 1)
    BY <1>1
  <2> QED
    BY <2>2, <2>3
<1>7. /\ data[n] \in 0..MaxRev /\ data'[n] \in 0..MaxRev
      /\ pods[n].rev \in 0..MaxRev /\ pods'[n].rev \in 0..MaxRev /\ pass.spec.rev \in Revs
  <2>1. \A m \in Names : data[m] \in 0..MaxRev /\ pods[m].rev \in 0..MaxRev
    BY Parts
  <2>2. \A m \in Names : data'[m] \in 0..MaxRev /\ pods'[m].rev \in 0..MaxRev
    BY PodRev DEF TypeOK
  <2> QED
    BY <1>3, <2>1, <2>2, Parts
<1> HIDE DEF c, n
<1>8. ASSUME c.op = "createClaim" PROVE CreatesClaim(i)'
  <2>1. /\ c.rev = pass.spec.rev /\ pods[n] = NoPod
        /\ \A j \in 1..(i + k - 1) : pass.todo[j].op # "createPod"
    BY <1>4, <1>8 DEF CreatesClaim, c, n
  <2>2. pods'[n] = NoPod
    BY <1>5, <1>8, <2>1
  <2> QED
    BY <1>2, <1>6, <2>1, <2>2 DEF CreatesClaim, n
<1>9. ASSUME c.op = "createPod" PROVE CreatesPod(i)'
  <2>1. /\ c.rev = pass.spec.rev
        /\ c.role \in {"node", "special"} /\ c.mode \in {"cluster", "standalone"}
        /\ c.mode = "cluster" =>
              data[n] \in {0, c.rev} /\ (pods[n] # NoPod => pods[n].rev = c.rev)
    BY <1>4, <1>9 DEF CreatesPod, c, n
  <2>2. c.mode = "cluster" =>
           data'[n] \in {0, c.rev} /\ (pods'[n] # NoPod => pods'[n].rev = c.rev)
    BY <1>5, <2>1
  <2> QED
    BY <1>2, <2>1, <2>2 DEF CreatesPod, n
<1>10. ASSUME c.op = "patchClaim" PROVE Patches(i)'
  <2>1. /\ c.rev \in Revs /\ c.rev <= pass.spec.rev
        /\ pods[n] # NoPod => c.rev <= pods[n].rev
        /\ \/ data[n] = 0 \/ c.rev <= data[n]
           \/ \E j \in 1..(i + k - 1) : pass.todo[j].op = "mysqlUpgrade" /\ pass.todo[j].pod = n
    BY <1>4, <1>10 DEF Patches, c, n
  <2>2. pods'[n] # NoPod => c.rev <= pods'[n].rev
    BY <1>5, <2>1
  <2>3. data[n] = 0 \/ c.rev <= data[n] => data'[n] = 0 \/ c.rev <= data'[n]
    BY <1>5, <2>1
  <2>4. ASSUME NEW j \in 1..(i + k - 1), pass.todo[j].op = "mysqlUpgrade", pass.todo[j].pod = n
        PROVE  \/ c.rev <= data'[n]
               \/ \E m \in 1..(i - 1) : pass'.todo[m].op = "mysqlUpgrade" /\ pass'.todo[m].pod = n
    <3>1. CASE k = 1 /\ j = 1
      <4>1. pods[n] # NoPod /\ data'[n] = pods[n].rev
        BY <2>4, <3>1 DEF GoesOn
      <4> QED
        BY <2>1, <4>1
    <3>2. CASE ~(k = 1 /\ j = 1)
      <4>1. j - k \in 1..(i - 1) /\ (j - k) + k = j
        BY <1>1, <3>2 DEF GoesOn
      <4>2. pass'.todo[j - k] = pass.todo[j]
        BY <1>6, <4>1
      <4> QED
        BY <2>4, <4>1, <4>2
    <3> QED
      BY <3>1, <3>2
  <2>5. \/ data'[n] = 0 \/ c.rev <= data'[n]
        \/ \E m \in 1..(i - 1) : pass'.todo[m].op = "mysqlUpgrade" /\ pass'.todo[m].pod = n
    BY <2>1, <2>3, <2>4
  <2> QED
    BY <1>2, <2>1, <2>2, <2>5 DEF Patches, n
<1> QED
  BY <1>2, <1>8, <1>9, <1>10

-----------------------------------------------------------------------------
(* The calls of a pass keep the invariant                                  *)

(* What remains of a pass after a call.                                    *)
LEMMA AfterCall ==
    ASSUME TypeOK, SpecialInv, NEW op, Calling(op), spec' = spec
    PROVE  /\ Next1 = pass.todo[1] /\ Next1 \in Calls /\ Here \in Names
           /\ Len(pass.todo) \in Nat /\ 1 \in 1..Len(pass.todo) /\ Cap = pass.spec.rev
           /\ pass' \in [spec : Specs, todo : Seq(Calls)]
           /\ Len(pass'.todo) = Len(pass.todo) - 1 /\ Len(pass'.todo) \in Nat
           /\ \A i \in 1..Len(pass'.todo) : pass'.todo[i] = pass.todo[i + 1]
           /\ pass'.todo # << >> => pass'.spec = pass.spec
           /\ HasCalls' /\ pass'.spec.rev <= spec'.rev
           /\ Cap \in Nat /\ Cap' \in Nat /\ Cap <= Cap'
<1>1. pass # Idle /\ pass' = Ended(Tail(pass.todo)) /\ pass.todo \in Seq(Calls) /\ pass.todo # << >>
  BY Parts DEF Calling, SpecialInv, HasCalls
<1>2. /\ Head(pass.todo) \in Calls /\ Tail(pass.todo) \in Seq(Calls) /\ Len(pass.todo) \in Nat
      /\ Head(pass.todo) = pass.todo[1]
      /\ Len(pass.todo) >= 1 /\ Len(Tail(pass.todo)) = Len(pass.todo) - 1
      /\ \A i \in 1..Len(Tail(pass.todo)) : Tail(pass.todo)[i] = pass.todo[i + 1]
  BY <1>1, HeadTailProperties, LenProperties, EmptySeq
<1>3. pass \in [spec : Specs, todo : Seq(Calls)]
  BY DEF TypeOK
<1> DEFINE rest == Tail(pass.todo)
<1> HIDE DEF rest
<1>4. \/ rest = << >> /\ pass' = Idle
      \/ rest # << >> /\ pass' = [pass EXCEPT !.todo = rest]
  BY <1>1 DEF Ended, rest
<1>5. /\ pass' \in [spec : Specs, todo : Seq(Calls)] /\ pass'.todo = rest
      /\ pass' = Idle \/ pass'.spec = pass.spec
      /\ pass' # Idle => rest # << >>
      /\ pass' = Idle => rest = << >>
  <2>1. rest \in Seq(Calls)
    BY <1>2 DEF rest
  <2>2. CASE rest = << >> /\ pass' = Idle
    BY <2>2, IdleIsEmpty
  <2>3. CASE rest # << >> /\ pass' = [pass EXCEPT !.todo = rest]
    <3>1. /\ pass' \in [spec : Specs, todo : Seq(Calls)]
          /\ pass'.todo = rest /\ pass'.spec = pass.spec
      BY <1>3, <2>1, <2>3
    <3> QED
      BY <2>3, <3>1, IdleIsEmpty
  <2> QED
    BY <1>4, <2>2, <2>3
<1>6. /\ spec.rev \in Revs /\ pass.spec.rev \in Revs /\ pass.spec.rev <= spec.rev
      /\ Cap = pass.spec.rev
  BY <1>1, Parts DEF SpecialInv, BelowCap, Cap
<1>7. CASE pass' = Idle
  <2>1. Cap' = spec.rev /\ pass'.spec.rev = 1
    BY <1>7, IdleIsEmpty DEF Cap
  <2>2. Cap \in Nat /\ Cap' \in Nat /\ Cap <= Cap' /\ pass'.spec.rev <= spec'.rev
    BY <1>6, <2>1, Bounds DEF Revs
  <2> QED
    BY <1>2, <1>5, <1>6, <1>7, <2>2, EmptySeq DEF rest, Next1, Here, HasCalls, Calls
<1>8. CASE pass' # Idle /\ pass'.spec = pass.spec
  <2>1. Cap' = pass.spec.rev /\ pass'.spec.rev = pass.spec.rev
    BY <1>8 DEF Cap
  <2>2. Cap \in Nat /\ Cap' \in Nat /\ Cap <= Cap' /\ pass'.spec.rev <= spec'.rev
    BY <1>6, <2>1, Bounds DEF Revs
  <2> QED
    BY <1>2, <1>5, <1>6, <1>8, <2>2, EmptySeq DEF rest, Next1, Here, HasCalls, Calls
<1> QED
  BY <1>5, <1>7, <1>8

(* A pod that only changes its condition.                                  *)
LEMMA AtChanged ==
    ASSUME TypeOK, NEW x \in Names, pods[x] # NoPod,
           NEW a \in {"starting", "ready", "failed", "terminating"},
           pods' = [pods EXCEPT ![x].at = a]
    PROVE  /\ pods' \in [Names -> PodStates \cup {NoPod}]
           /\ \A m \in Names \ {x} : pods'[m] = pods[m]
           /\ pods'[x] \in PodStates /\ pods'[x] # NoPod /\ pods'[x].rev = pods[x].rev
           /\ pods'[x].mode = pods[x].mode /\ pods'[x].at = a
<1>1. pods[x] \in PodStates /\ pods \in [Names -> PodStates \cup {NoPod}]
  BY Parts DEF TypeOK
<1> DEFINE p == [pods[x] EXCEPT !.at = a]
<1>2. pods' = [pods EXCEPT ![x] = p]
  OBVIOUS
<1>3. p \in PodStates /\ p.rev = pods[x].rev /\ p.mode = pods[x].mode /\ p.at = a
  BY <1>1 DEF PodStates
<1> HIDE DEF p
<1>4. pods'[x] = p /\ \A m \in Names \ {x} : pods'[m] = pods[m]
  BY <1>1, <1>2
<1>5. pods' \in [Names -> PodStates \cup {NoPod}]
  BY <1>1, <1>2, <1>3
<1> QED
  BY <1>3, <1>4, <1>5, Apart

(* A claim that changes.                                                   *)
LEMMA ClaimChanged ==
    ASSUME TypeOK, NEW x \in Names, NEW c \in ClaimStates, claims' = [claims EXCEPT ![x] = c]
    PROVE  /\ claims' \in [Names -> ClaimStates \cup {NoClaim}]
           /\ \A m \in Names \ {x} : claims'[m] = claims[m]
           /\ claims'[x] = c /\ claims'[x] # NoClaim
BY Apart DEF TypeOK

(* A step that is mild, and after which every name is right.               *)
LEMMA Together ==
    ASSUME TypeOK, SpecialInv, TypeOK', Mild, NEW k \in {0, 1}, GoesOn(k), HasCalls',
           pass'.spec.rev <= spec'.rev, \A n \in Names : NameRight(n)'
    PROVE  SpecialInv'
<1>1. CallsRight'
  BY CallsStay DEF SpecialInv
<1> QED
  BY <1>1 DEF SpecialInv, BelowCap, PodIsLatest, LabelBehind, JoinsRight, NameRight

(* What holds before a call that goes through.                             *)
LEMMA BeforeCall ==
    ASSUME TypeOK, SpecialInv, NEW op, Calling(op), spec' = spec
    PROVE  /\ Next1.op = op /\ Here \in Names /\ Next1 \in Calls /\ Next1 = pass.todo[1]
           /\ NameRight(Here) /\ Next1.op = pass.todo[1].op /\ Here = pass.todo[1].pod
           /\ op = "createClaim" => CreatesClaim(1)
           /\ op = "createPod" => CreatesPod(1)
           /\ op = "patchClaim" => Patches(1)
<1>1. Here \in Names /\ Next1 \in Calls /\ Next1 = pass.todo[1] /\ 1 \in 1..Len(pass.todo)
  BY AfterCall
<1>2. Next1.op = op /\ CallsRight /\ \A n \in Names : NameRight(n)
  BY ByName DEF Calling
<1> QED
  BY <1>1, <1>2 DEF CallsRight, Here

(* deletePod                                                               *)
LEMMA DeletePodKeeps ==
    ASSUME TypeOK, SpecialInv, DeletePod, UNCHANGED <<spec, seen, edits, faults>>
    PROVE  TypeOK' /\ SpecialInv'
<1>1. Calling("deletePod") /\ pods' = [pods EXCEPT ![Here].at = "terminating"] /\ UNCHANGED <<claims, data>>
  BY DEF DeletePod
<1>2. Next1.op = "deletePod" /\ Here \in Names /\ NameRight(Here) /\ pass.todo[1].op = "deletePod"
  BY <1>1, BeforeCall
<1>3. pods[Here] # NoPod
  BY <1>1, <1>2 DEF Calling, Accepts
<1>4. /\ pods' \in [Names -> PodStates \cup {NoPod}]
      /\ \A m \in Names \ {Here} : pods'[m] = pods[m]
      /\ pods'[Here] # NoPod /\ pods'[Here].rev = pods[Here].rev
      /\ pods'[Here].mode = pods[Here].mode /\ pods'[Here].at = "terminating"
  BY <1>1, <1>2, <1>3, AtChanged
<1>5. TypeOK'
  BY <1>1, <1>4, AfterCall DEF TypeOK
<1>6. Mild
  BY <1>1, <1>3, <1>4 DEF Mild
<1>7. GoesOn(1)
  BY <1>1, <1>2, AfterCall DEF GoesOn
<1>8. ASSUME NEW n \in Names PROVE NameRight(n)'
  <2>1. NameRight(n) /\ Cap \in Nat /\ Cap' \in Nat /\ Cap <= Cap'
    BY <1>1, AfterCall, ByName
  <2>2. CASE n # Here
    BY <1>1, <1>4, <2>1, <2>2, OthersKept
  <2>3. CASE n = Here
    <3>1. /\ pods[n].rev \in 0..MaxRev /\ seen.pods[n].rev \in 0..MaxRev
          /\ claims[n].rev \in 0..MaxRev /\ seen.claims[n].rev \in 0..MaxRev /\ data[n] \in 0..MaxRev
      BY Parts
    <3> QED
      BY <1>1, <1>3, <1>4, <2>1, <2>3, <3>1, Bounds DEF NameRight
  <2> QED
    BY <2>2, <2>3
<1> QED
  BY <1>1, <1>5, <1>6, <1>7, <1>8, AfterCall, Together

(* createPod: the pod is given the revision of the pass, and joins only    *)
(* with an empty volume, or one of that version.                           *)
LEMMA CreatePodKeeps ==
    ASSUME TypeOK, SpecialInv, CreatePod, UNCHANGED <<spec, seen, edits, faults>>
    PROVE  TypeOK' /\ SpecialInv'
<1> DEFINE p == [role |-> Next1.role, rev |-> Next1.rev, mode |-> Next1.mode, at |-> "starting"]
<1>1. Calling("createPod") /\ pods' = [pods EXCEPT ![Here] = p] /\ UNCHANGED <<claims, data>>
  BY DEF CreatePod
<1>2. /\ Next1.op = "createPod" /\ Here \in Names /\ NameRight(Here) /\ pass.todo[1].op = "createPod"
      /\ CreatesPod(1) /\ Next1 = pass.todo[1] /\ Here = pass.todo[1].pod
  BY <1>1, BeforeCall
<1>3. pods[Here] = NoPod
  BY <1>1, <1>2 DEF Calling, Accepts
<1>4. /\ Next1.rev = pass.spec.rev
      /\ Next1.role \in {"node", "special"} /\ Next1.mode \in {"cluster", "standalone"}
      /\ Next1.mode = "cluster" => data[Here] \in {0, Next1.rev}
  BY <1>2 DEF CreatesPod
<1>5. p.rev = pass.spec.rev /\ p.at = "starting" /\ p.mode = Next1.mode /\ p \in PodStates
  BY <1>4, Parts DEF PodStates
<1> HIDE DEF p
<1>6. /\ pods' \in [Names -> PodStates \cup {NoPod}] /\ pods'[Here] = p
      /\ \A m \in Names \ {Here} : pods'[m] = pods[m]
  BY <1>1, <1>2, <1>5 DEF TypeOK
<1>7. TypeOK'
  BY <1>1, <1>6, AfterCall DEF TypeOK
<1>8. ASSUME NEW i \in 1..Len(pass'.todo) PROVE pass'.todo[i].op # "createClaim"
  <2>1. /\ pass'.todo[i] = pass.todo[i + 1] /\ i + 1 \in 1..Len(pass.todo)
        /\ 1 \in 1..((i + 1) - 1)
    BY <1>1, AfterCall
  <2>2. pass.todo[i + 1].op = "createClaim" => CreatesClaim(i + 1)
    BY <2>1 DEF SpecialInv, CallsRight
  <2> QED
    BY <1>2, <2>1, <2>2 DEF CreatesClaim
<1>9. Mild
  BY <1>1, <1>5, <1>6, <1>8 DEF Mild
<1>10. GoesOn(1)
  BY <1>1, <1>2, AfterCall DEF GoesOn
<1>11. ASSUME NEW n \in Names PROVE NameRight(n)'
  <2>1. NameRight(n) /\ Cap \in Nat /\ Cap' \in Nat /\ Cap <= Cap' /\ Cap = pass.spec.rev
    BY <1>1, AfterCall, ByName
  <2>2. CASE n # Here
    BY <1>1, <1>6, <2>1, <2>2, OthersKept
  <2>3. CASE n = Here
    <3>1. /\ seen.pods[n].rev \in 0..MaxRev
          /\ claims[n].rev \in 0..MaxRev /\ seen.claims[n].rev \in 0..MaxRev /\ data[n] \in 0..MaxRev
      BY Parts
    <3>2. pods'[n].rev = Cap /\ pods'[n].at = "starting" /\ pods'[n].mode = Next1.mode
      BY <1>5, <1>6, <2>1, <2>3
    <3> QED
      BY <1>1, <1>4, <2>1, <2>3, <3>1, <3>2, Bounds DEF NameRight
  <2> QED
    BY <2>2, <2>3
<1> QED
  BY <1>1, <1>7, <1>9, <1>10, <1>11, AfterCall, Together

(* The check of a pod before it is taken away.                             *)
LEMMA CheckSyncedKeeps ==
    ASSUME TypeOK, SpecialInv, CheckSynced, UNCHANGED <<spec, seen, edits, faults>>
    PROVE  TypeOK' /\ SpecialInv'
<1>1. Calling("checkSynced") /\ UNCHANGED <<pods, claims, data>>
  BY DEF CheckSynced
<1>2. pass.todo[1].op = "checkSynced"
  BY <1>1, BeforeCall
<1>3. TypeOK'
  BY <1>1, AfterCall DEF TypeOK
<1>4. Mild
  BY <1>1 DEF Mild
<1>5. GoesOn(1)
  BY <1>1, <1>2, AfterCall DEF GoesOn
<1>6. ASSUME NEW n \in Names PROVE NameRight(n)'
  <2>1. NameRight(n) /\ Cap \in Nat /\ Cap' \in Nat /\ Cap <= Cap'
    BY <1>1, AfterCall, ByName
  <2> QED
    BY <1>1, <2>1, OthersKept
<1> QED
  BY <1>1, <1>3, <1>4, <1>5, <1>6, AfterCall, Together

(* mysql_upgrade: the data get the version of the pod it runs in.          *)
LEMMA MysqlUpgradeKeeps ==
    ASSUME TypeOK, SpecialInv, MysqlUpgrade, UNCHANGED <<spec, seen, edits, faults>>
    PROVE  TypeOK' /\ SpecialInv'
<1>1. Calling("mysqlUpgrade") /\ data' = [data EXCEPT ![Here] = pods[Here].rev] /\ UNCHANGED <<pods, claims>>
  BY DEF MysqlUpgrade
<1>2. /\ Next1.op = "mysqlUpgrade" /\ Here \in Names /\ NameRight(Here)
      /\ pass.todo[1].op = "mysqlUpgrade" /\ Here = pass.todo[1].pod
  BY <1>1, BeforeCall
<1>3. pods[Here].at = "ready"
  BY <1>1, <1>2 DEF Calling, Accepts
<1>4. pods[Here] # NoPod /\ pods[Here].rev \in Revs /\ pods[Here].rev \in 0..MaxRev
  BY <1>2, <1>3, Parts
<1>5. /\ data' \in [Names -> 0..MaxRev] /\ data'[Here] = pods[Here].rev
      /\ \A m \in Names \ {Here} : data'[m] = data[m]
  BY <1>1, <1>2, <1>4 DEF TypeOK
<1>6. TypeOK'
  BY <1>1, <1>5, AfterCall DEF TypeOK
<1>7. Mild
  BY <1>1, <1>4, <1>5 DEF Mild
<1>8. GoesOn(1)
  BY <1>1, <1>2, <1>4, <1>5, AfterCall DEF GoesOn
<1>9. ASSUME NEW n \in Names PROVE NameRight(n)'
  <2>1. NameRight(n) /\ Cap \in Nat /\ Cap' \in Nat /\ Cap <= Cap'
    BY <1>1, AfterCall, ByName
  <2>2. CASE n # Here
    BY <1>1, <1>5, <2>1, <2>2, OthersKept
  <2>3. CASE n = Here
    <3>1. /\ pods[n].rev \in Revs /\ seen.pods[n].rev \in 0..MaxRev /\ data'[n] = pods[n].rev
          /\ claims[n].rev \in 0..MaxRev /\ seen.claims[n].rev \in 0..MaxRev
          /\ pods[n] # NoPod /\ pods[n].at = "ready"
      BY <1>3, <1>4, <1>5, <2>3, Parts
    <3> QED
      BY <1>1, <2>1, <3>1, Bounds DEF NameRight, Revs
  <2> QED
    BY <2>2, <2>3
<1> QED
  BY <1>1, <1>6, <1>7, <1>8, <1>9, AfterCall, Together

(* The calls that change a claim leave pods and data alone.                *)
LEMMA ClaimCallKeeps ==
    ASSUME TypeOK, SpecialInv, UNCHANGED <<spec, seen, edits, faults, pods, data>>,
           NEW op \in {"deleteClaim", "createClaim", "patchClaim"}, Calling(op),
           NEW c \in ClaimStates, claims' = [claims EXCEPT ![Here] = c],
           c.rev <= Cap, pods[Here] # NoPod => c.rev <= pods[Here].rev,
           data[Here] # 0 => c.rev <= data[Here]
    PROVE  TypeOK' /\ SpecialInv'
<1>1. Here \in Names /\ NameRight(Here) /\ pass.todo[1].op = op
  BY BeforeCall
<1>2. /\ claims' \in [Names -> ClaimStates \cup {NoClaim}]
      /\ \A m \in Names \ {Here} : claims'[m] = claims[m]
      /\ claims'[Here] = c /\ claims'[Here] # NoClaim
  BY <1>1, ClaimChanged
<1>3. TypeOK'
  BY <1>2, AfterCall DEF TypeOK
<1>4. Mild
  BY DEF Mild
<1>5. GoesOn(1)
  BY <1>1, AfterCall DEF GoesOn
<1>6. ASSUME NEW n \in Names PROVE NameRight(n)'
  <2>1. NameRight(n) /\ Cap \in Nat /\ Cap' \in Nat /\ Cap <= Cap'
    BY AfterCall, ByName
  <2>2. CASE n # Here
    BY <1>2, <2>1, <2>2, OthersKept
  <2>3. CASE n = Here
    <3>1. /\ pods[n].rev \in 0..MaxRev /\ seen.pods[n].rev \in 0..MaxRev
          /\ seen.claims[n].rev \in 0..MaxRev /\ data[n] \in 0..MaxRev /\ c.rev \in Revs
      BY Parts DEF ClaimStates
    <3>2. claims'[n].rev = c.rev /\ claims'[n] # NoClaim
      BY <1>2, <2>3
    <3> QED
      BY <2>1, <2>3, <3>1, <3>2, Bounds DEF NameRight, Revs
  <2> QED
    BY <2>2, <2>3
<1> QED
  BY <1>3, <1>4, <1>5, <1>6, AfterCall, Together

(* deleteClaim                                                             *)
LEMMA DeleteClaimKeeps ==
    ASSUME TypeOK, SpecialInv, DeleteClaim, UNCHANGED <<spec, seen, edits, faults>>
    PROVE  TypeOK' /\ SpecialInv'
<1> DEFINE c == [claims[Here] EXCEPT !.deleting = TRUE]
<1>1. Calling("deleteClaim") /\ claims' = [claims EXCEPT ![Here] = c] /\ UNCHANGED <<pods, data>>
  BY DEF DeleteClaim
<1>2. Next1.op = "deleteClaim" /\ Here \in Names /\ NameRight(Here)
  BY <1>1, BeforeCall
<1>3. claims[Here] # NoClaim
  BY <1>1, <1>2 DEF Calling, Accepts
<1>4. claims[Here] \in ClaimStates
  BY <1>2, <1>3, Parts
<1>5. c \in ClaimStates /\ c.rev = claims[Here].rev
  BY <1>4 DEF ClaimStates
<1> HIDE DEF c
<1>6. /\ c.rev <= Cap /\ (pods[Here] # NoPod => c.rev <= pods[Here].rev)
      /\ data[Here] # 0 => c.rev <= data[Here]
  BY <1>2, <1>5 DEF NameRight
<1> QED
  BY <1>1, <1>5, <1>6, ClaimCallKeeps

(* createClaim: there is neither a pod of that name nor data.              *)
LEMMA CreateClaimKeeps ==
    ASSUME TypeOK, SpecialInv, CreateClaim, UNCHANGED <<spec, seen, edits, faults>>
    PROVE  TypeOK' /\ SpecialInv'
<1> DEFINE c == [rev |-> Next1.rev, size |-> ClaimSpec(Next1.rev), deleting |-> FALSE]
<1>1. Calling("createClaim") /\ claims' = [claims EXCEPT ![Here] = c] /\ UNCHANGED <<pods, data>>
  BY DEF CreateClaim
<1>2. /\ Next1.op = "createClaim" /\ Here \in Names /\ NameRight(Here) /\ CreatesClaim(1)
      /\ Next1 = pass.todo[1] /\ Here = pass.todo[1].pod
  BY <1>1, BeforeCall
<1>3. claims[Here] = NoClaim
  BY <1>1, <1>2 DEF Calling, Accepts
<1>4. Next1.rev = pass.spec.rev /\ pods[Here] = NoPod /\ pass.spec.rev \in Revs
  BY <1>2, Parts DEF CreatesClaim
<1>5. c \in ClaimStates /\ c.rev = pass.spec.rev
  BY <1>4 DEF ClaimStates
<1> HIDE DEF c
<1>6. /\ c.rev <= Cap /\ (pods[Here] # NoPod => c.rev <= pods[Here].rev)
      /\ data[Here] # 0 => c.rev <= data[Here]
  <2>1. data[Here] = 0 /\ Cap = pass.spec.rev /\ Cap \in Nat
    BY <1>1, <1>2, <1>3, AfterCall DEF NameRight
  <2> QED
    BY <1>4, <1>5, <2>1
<1> QED
  BY <1>1, <1>5, <1>6, ClaimCallKeeps

(* patchClaim: the label is moved to a version the data have reached.      *)
LEMMA PatchClaimKeeps ==
    ASSUME TypeOK, SpecialInv, PatchClaimLabels, UNCHANGED <<spec, seen, edits, faults>>
    PROVE  TypeOK' /\ SpecialInv'
<1> DEFINE c == [claims[Here] EXCEPT !.rev = Next1.rev]
<1>1. Calling("patchClaim") /\ claims' = [claims EXCEPT ![Here] = c] /\ UNCHANGED <<pods, data>>
  BY DEF PatchClaimLabels
<1>2. /\ Next1.op = "patchClaim" /\ Here \in Names /\ NameRight(Here) /\ Patches(1)
      /\ Next1 = pass.todo[1] /\ Here = pass.todo[1].pod
  BY <1>1, BeforeCall
<1>3. claims[Here] # NoClaim
  BY <1>1, <1>2 DEF Calling, Accepts
<1>4. claims[Here] \in ClaimStates
  BY <1>2, <1>3, Parts
<1>5. /\ Next1.rev \in Revs /\ Next1.rev <= pass.spec.rev
      /\ pods[Here] # NoPod => Next1.rev <= pods[Here].rev
      /\ data[Here] # 0 => Next1.rev <= data[Here]
  BY <1>2 DEF Patches
<1>6. c \in ClaimStates /\ c.rev = Next1.rev
  BY <1>4, <1>5 DEF ClaimStates
<1> HIDE DEF c
<1>7. Cap = pass.spec.rev
  BY <1>1, AfterCall
<1> QED
  BY <1>1, <1>5, <1>6, <1>7, ClaimCallKeeps

(* A pass that ends early leaves everything as it is.                      *)
LEMMA EndKeeps ==
    ASSUME TypeOK, SpecialInv, pass' = Idle, faults' \in 0..MaxFaults,
           UNCHANGED <<spec, pods, claims, data, seen, edits>>
    PROVE  TypeOK' /\ SpecialInv'
<1>1. TypeOK'
  BY IdleIsEmpty DEF TypeOK
<1>2. /\ pass.spec.rev <= spec.rev /\ spec.rev \in Revs /\ pass.spec.rev \in Revs
      /\ \A n \in Names : NameRight(n)
  BY ByName, Parts
<1>3. Cap' = spec.rev /\ (Cap = spec.rev \/ Cap = pass.spec.rev) /\ pass'.spec.rev = 1
  BY IdleIsEmpty DEF Cap
<1>4. Cap \in Nat /\ Cap' \in Nat /\ Cap <= Cap' /\ pass'.spec.rev <= spec'.rev
  BY <1>2, <1>3, Bounds DEF Revs
<1>5. ASSUME NEW n \in Names PROVE NameRight(n)'
  BY <1>2, <1>4, OthersKept
<1>6. HasCalls' /\ CallsRight'
  BY IdleIsEmpty DEF HasCalls, CallsRight
<1> QED
  BY <1>1, <1>4, <1>5, <1>6 DEF SpecialInv, BelowCap, PodIsLatest, LabelBehind, JoinsRight, NameRight

(* So every call, answered or refused, keeps the invariant.                *)
LEMMA CallKeeps == TypeOK /\ SpecialInv /\ CallApi => TypeOK' /\ SpecialInv'
<1> SUFFICES ASSUME TypeOK, SpecialInv, CallApi PROVE TypeOK' /\ SpecialInv'
  OBVIOUS
<1>1. UNCHANGED <<spec, seen, edits, faults>>
  BY DEF CallApi
<1>2. CASE Refused
  BY <1>1, <1>2, EndKeeps DEF Refused, TypeOK
<1> QED
  BY <1>1, <1>2, DeletePodKeeps, CreatePodKeeps, CheckSyncedKeeps, MysqlUpgradeKeeps,
     DeleteClaimKeeps, CreateClaimKeeps, PatchClaimKeeps DEF CallApi

-----------------------------------------------------------------------------
(* Kubernetes, the informers and the user keep it                          *)

(* A step outside of the passes.                                           *)
LEMMA Outside ==
    ASSUME TypeOK, SpecialInv, TypeOK', Mild, UNCHANGED <<spec, pass>>,
           \A n \in Names : NameRight(n)'
    PROVE  SpecialInv'
<1>1. pass.todo \in Seq(Calls) /\ Len(pass.todo) \in Nat
  BY LenProperties DEF TypeOK
<1>2. GoesOn(0)
  BY <1>1 DEF GoesOn
<1>3. HasCalls' /\ pass'.spec.rev <= spec'.rev
  BY DEF SpecialInv, HasCalls, BelowCap
<1> QED
  BY <1>2, <1>3, Together

(* A pod becomes ready: with an empty volume it has got the data of the    *)
(* others, of its own version.                                             *)
LEMMA StartKeeps ==
    ASSUME TypeOK, SpecialInv, NEW x \in Names, PodStarts(x)
    PROVE  TypeOK' /\ SpecialInv'
<1>1. /\ pods[x].at = "starting" /\ claims[x] # NoClaim
      /\ pods' = [pods EXCEPT ![x].at = "ready"]
      /\ data' = [data EXCEPT ![x] = IF data[x] = 0 THEN pods[x].rev ELSE data[x]]
      /\ UNCHANGED <<spec, claims, seen, pass, edits, faults>>
  BY DEF PodStarts
<1>2. pods[x] # NoPod /\ pods[x].rev \in Revs /\ pods[x].rev \in 0..MaxRev /\ data[x] \in 0..MaxRev
  BY <1>1, Parts
<1>3. /\ pods' \in [Names -> PodStates \cup {NoPod}]
      /\ \A m \in Names \ {x} : pods'[m] = pods[m]
      /\ pods'[x] # NoPod /\ pods'[x].rev = pods[x].rev
      /\ pods'[x].mode = pods[x].mode /\ pods'[x].at = "ready"
  BY <1>1, <1>2, AtChanged
<1>4. /\ data' \in [Names -> 0..MaxRev] /\ \A m \in Names \ {x} : data'[m] = data[m]
      /\ data'[x] = IF data[x] = 0 THEN pods[x].rev ELSE data[x]
  BY <1>1, <1>2 DEF TypeOK
<1>5. TypeOK'
  BY <1>1, <1>3, <1>4 DEF TypeOK
<1>6. Mild
  BY <1>2, <1>3, <1>4 DEF Mild
<1>7. ASSUME NEW n \in Names PROVE NameRight(n)'
  <2>1. NameRight(n) /\ Cap \in Nat /\ Cap' = Cap
    BY <1>1, CapType, ByName DEF Cap
  <2>2. CASE n # x
    BY <1>1, <1>3, <1>4, <2>1, <2>2, OthersKept
  <2>3. CASE n = x
    <3>1. /\ pods[n].rev \in Revs /\ seen.pods[n].rev \in 0..MaxRev /\ data[n] \in 0..MaxRev
          /\ claims[n].rev \in 0..MaxRev /\ seen.claims[n].rev \in 0..MaxRev
      BY <1>2, <2>3, Parts
    <3>2. CASE data[n] = 0
      BY <1>1, <1>2, <1>3, <1>4, <2>1, <2>3, <3>1, <3>2, Bounds DEF NameRight, Revs
    <3>3. CASE data[n] # 0
      BY <1>1, <1>2, <1>3, <1>4, <2>1, <2>3, <3>1, <3>3, Bounds DEF NameRight, Revs
    <3> QED
      BY <3>2, <3>3
  <2> QED
    BY <2>2, <2>3
<1> QED
  BY <1>1, <1>5, <1>6, <1>7, Outside

(* A pod fails.                                                            *)
LEMMA FailKeeps ==
    ASSUME TypeOK, SpecialInv, NEW x \in Names, PodFails(x)
    PROVE  TypeOK' /\ SpecialInv'
<1>1. /\ pods[x].at = "ready" /\ faults < MaxFaults /\ faults' = faults + 1
      /\ pods' = [pods EXCEPT ![x].at = "failed"]
      /\ UNCHANGED <<spec, claims, data, seen, pass, edits>>
  BY DEF PodFails
<1>2. pods[x] # NoPod
  BY <1>1, Parts
<1>3. /\ pods' \in [Names -> PodStates \cup {NoPod}]
      /\ \A m \in Names \ {x} : pods'[m] = pods[m]
      /\ pods'[x] # NoPod /\ pods'[x].rev = pods[x].rev
      /\ pods'[x].mode = pods[x].mode /\ pods'[x].at = "failed"
  BY <1>1, <1>2, AtChanged
<1>4. TypeOK'
  BY <1>1, <1>3, Bounds DEF TypeOK
<1>5. Mild
  BY <1>1, <1>2, <1>3 DEF Mild
<1>6. ASSUME NEW n \in Names PROVE NameRight(n)'
  <2>1. NameRight(n) /\ Cap \in Nat /\ Cap' = Cap
    BY <1>1, CapType, ByName DEF Cap
  <2>2. CASE n # x
    BY <1>1, <1>3, <2>1, <2>2, OthersKept
  <2>3. CASE n = x
    BY <1>1, <1>2, <1>3, <2>1, <2>3 DEF NameRight
  <2> QED
    BY <2>2, <2>3
<1> QED
  BY <1>1, <1>4, <1>5, <1>6, Outside

(* A deleted pod is gone.                                                  *)
LEMMA PodGoneKeeps ==
    ASSUME TypeOK, SpecialInv, NEW x \in Names, PodIsGone(x)
    PROVE  TypeOK' /\ SpecialInv'
<1>1. /\ pods' = [pods EXCEPT ![x] = NoPod]
      /\ UNCHANGED <<spec, claims, data, seen, pass, edits, faults>>
  BY DEF PodIsGone
<1>2. /\ pods' \in [Names -> PodStates \cup {NoPod}] /\ pods'[x] = NoPod
      /\ \A m \in Names \ {x} : pods'[m] = pods[m]
  BY <1>1 DEF TypeOK
<1>3. TypeOK'
  BY <1>1, <1>2 DEF TypeOK
<1>4. Mild
  BY <1>1, <1>2 DEF Mild
<1>5. ASSUME NEW n \in Names PROVE NameRight(n)'
  <2>1. NameRight(n) /\ Cap \in Nat /\ Cap' = Cap
    BY <1>1, CapType, ByName DEF Cap
  <2>2. CASE n # x
    BY <1>1, <1>2, <2>1, <2>2, OthersKept
  <2>3. CASE n = x
    <3>1. NoPod.rev = 0 /\ NoPod.at = "none" /\ NoPod.mode = "none"
      BY DEF NoPod
    <3> QED
      BY <1>1, <1>2, <2>1, <2>3, <3>1 DEF NameRight
  <2> QED
    BY <2>2, <2>3
<1> QED
  BY <1>1, <1>3, <1>4, <1>5, Outside

(* A deleted claim is gone, with the data; it had no pod.                  *)
LEMMA ClaimGoneKeeps ==
    ASSUME TypeOK, SpecialInv, NEW x \in Names, ClaimIsGone(x)
    PROVE  TypeOK' /\ SpecialInv'
<1>1. /\ pods[x] = NoPod /\ claims' = [claims EXCEPT ![x] = NoClaim] /\ data' = [data EXCEPT ![x] = 0]
      /\ UNCHANGED <<spec, pods, seen, pass, edits, faults>>
  BY DEF ClaimIsGone
<1>2. /\ claims' \in [Names -> ClaimStates \cup {NoClaim}] /\ claims'[x] = NoClaim
      /\ data' \in [Names -> 0..MaxRev] /\ data'[x] = 0
      /\ \A m \in Names \ {x} : claims'[m] = claims[m] /\ data'[m] = data[m]
  BY <1>1, Bounds DEF TypeOK
<1>3. TypeOK'
  BY <1>1, <1>2 DEF TypeOK
<1>4. Mild
  BY <1>1, <1>2 DEF Mild
<1>5. ASSUME NEW n \in Names PROVE NameRight(n)'
  <2>1. NameRight(n) /\ Cap \in Nat /\ Cap' = Cap
    BY <1>1, CapType, ByName DEF Cap
  <2>2. CASE n # x
    BY <1>1, <1>2, <2>1, <2>2, OthersKept
  <2>3. CASE n = x
    <3>1. NoClaim.rev = 0 /\ NoPod.at = "none" /\ NoPod.mode = "none"
      BY DEF NoPod, NoClaim
    <3> QED
      BY <1>1, <1>2, <2>1, <2>3, <3>1 DEF NameRight
  <2> QED
    BY <2>2, <2>3
<1> QED
  BY <1>1, <1>3, <1>4, <1>5, Outside

(* An informer shows what is there now.                                    *)
LEMMA InformerKeeps ==
    ASSUME TypeOK, SpecialInv, NEW kind \in {"pods", "claims"}, InformerCatchesUp(kind)
    PROVE  TypeOK' /\ SpecialInv'
<1>1. /\ seen' = [seen EXCEPT ![kind] = IF kind = "pods" THEN pods ELSE claims]
      /\ UNCHANGED <<spec, pods, claims, data, pass, edits, faults>>
  BY DEF InformerCatchesUp
<1>2. /\ seen' \in [pods : [Names -> PodStates \cup {NoPod}], claims : [Names -> ClaimStates \cup {NoClaim}]]
      /\ \/ seen'.pods = pods /\ seen'.claims = seen.claims
         \/ seen'.pods = seen.pods /\ seen'.claims = claims
  BY <1>1 DEF TypeOK
<1>3. TypeOK'
  BY <1>1, <1>2 DEF TypeOK
<1>4. Mild
  BY <1>1 DEF Mild
<1>5. ASSUME NEW n \in Names PROVE NameRight(n)'
  <2>1. NameRight(n) /\ Cap' = Cap /\ pods[n].rev \in 0..MaxRev
    BY <1>1, ByName, Parts DEF Cap
  <2> QED
    BY <1>1, <1>2, <2>1, Bounds DEF NameRight
<1> QED
  BY <1>1, <1>3, <1>4, <1>5, Outside

(* The user wants another revision, later than the last, or changes his    *)
(* mind about the special node.                                            *)
LEMMA EditKeeps ==
    ASSUME TypeOK, SpecialInv, UserEdits
    PROVE  TypeOK' /\ SpecialInv'
<1>1. /\ edits < MaxEdits /\ edits' = edits + 1 /\ UNCHANGED <<pods, claims, data, seen, pass, faults>>
      /\ \/ spec' = [spec EXCEPT !.special = ~spec.special]
         \/ \E r \in Revs : r > spec.rev /\ spec' = [spec EXCEPT !.rev = r]
  BY DEF UserEdits
<1>2. spec' \in Specs /\ spec'.rev \in Revs /\ spec'.rev >= spec.rev /\ spec.rev \in Revs
  <2>1. spec \in Specs /\ spec.rev \in Revs /\ spec.rev \in Nat
    BY Parts, Bounds DEF TypeOK, Revs
  <2>2. CASE spec' = [spec EXCEPT !.special = ~spec.special]
    <3>1. (~spec.special) \in BOOLEAN
      OBVIOUS
    <3>2. ASSUME NEW b \in BOOLEAN, spec' = [spec EXCEPT !.special = b]
          PROVE  spec' \in Specs /\ spec'.rev = spec.rev
      BY <2>1, <3>2 DEF Specs
    <3>3. spec' \in Specs /\ spec'.rev = spec.rev
      BY <2>2, <3>1, <3>2, Zenon
    <3> QED
      BY <2>1, <3>3
  <2>3. CASE \E r \in Revs : r > spec.rev /\ spec' = [spec EXCEPT !.rev = r]
    <3>1. PICK r \in Revs : r > spec.rev /\ spec' = [spec EXCEPT !.rev = r]
      BY <2>3
    <3>2. spec' \in Specs /\ spec'.rev = r
      BY <2>1, <3>1 DEF Specs
    <3>3. r \in Nat
      BY Bounds DEF Revs
    <3> QED
      BY <2>1, <3>1, <3>2, <3>3
  <2> QED
    BY <1>1, <2>1, <2>2, <2>3
<1>3. TypeOK'
  BY <1>1, <1>2, Bounds DEF TypeOK
<1>4. /\ pass.spec.rev <= spec.rev /\ pass.spec.rev \in Revs
      /\ HasCalls /\ CallsRight /\ \A n \in Names : NameRight(n)
  BY ByName, Parts
<1>5. Cap \in Nat /\ Cap' \in Nat /\ Cap <= Cap' /\ pass'.spec.rev <= spec'.rev
  BY <1>1, <1>2, <1>4, Bounds DEF Cap, Revs
<1>6. ASSUME NEW n \in Names PROVE NameRight(n)'
  BY <1>1, <1>4, <1>5, OthersKept
<1>7. HasCalls' /\ CallsRight'
  BY <1>1, <1>4 DEF HasCalls, CallsRight, CreatesClaim, CreatesPod, Patches
<1> QED
  BY <1>3, <1>5, <1>6, <1>7 DEF SpecialInv, BelowCap, PodIsLatest, LabelBehind, JoinsRight, NameRight

-----------------------------------------------------------------------------
(* The theorems                                                            *)

(* Every step keeps types and invariant.                                   *)
LEMMA NextKeeps == TypeOK /\ SpecialInv /\ [Next]_vars => TypeOK' /\ SpecialInv'
<1> SUFFICES ASSUME TypeOK, SpecialInv, [Next]_vars PROVE TypeOK' /\ SpecialInv'
  OBVIOUS
<1>1. CASE UNCHANGED vars
  <2>1. UNCHANGED <<spec, pods, claims, data, seen, pass, edits, faults>>
    BY <1>1 DEF vars
  <2>2. TypeOK'
    BY <2>1 DEF TypeOK
  <2>3. Cap' = Cap
    BY <2>1 DEF Cap
  <2>4. (BelowCap /\ PodIsLatest /\ LabelBehind /\ JoinsRight)'
    BY <2>1, <2>3 DEF SpecialInv, BelowCap, PodIsLatest, LabelBehind, JoinsRight
  <2>5. HasCalls' /\ CallsRight'
    BY <2>1 DEF SpecialInv, HasCalls, CallsRight, CreatesClaim, CreatesPod, Patches
  <2> QED
    BY <2>2, <2>4, <2>5 DEF SpecialInv
<1>2. CASE Sync
  BY <1>2, SyncKeeps
<1>3. CASE CallApi
  BY <1>3, CallKeeps
<1>4. CASE SyncFails
  <2>1. faults' \in 0..MaxFaults
    BY <1>4, Bounds DEF SyncFails, TypeOK
  <2> QED
    BY <1>4, <2>1, EndKeeps DEF SyncFails
<1>5. CASE UserEdits
  BY <1>5, EditKeeps
<1>6. CASE \E kind \in {"pods", "claims"} : InformerCatchesUp(kind)
  BY <1>6, InformerKeeps
<1>7. CASE \E n \in Names : PodStarts(n) \/ PodFails(n) \/ PodIsGone(n) \/ ClaimIsGone(n)
  BY <1>7, StartKeeps, FailKeeps, PodGoneKeeps, ClaimGoneKeeps
<1> QED
  BY <1>1, <1>2, <1>3, <1>4, <1>5, <1>6, <1>7 DEF Next

(* The invariant holds in every reachable state.                           *)
LEMMA Invariance == Spec => [](TypeOK /\ SpecialInv)
BY SpecialInit, NextKeeps, PTL DEF Spec

(* Every value of the model stays in its set: what a pass still has to     *)
(* create is of a revision, a role and a mode a pod may have.              *)
THEOREM SpecialTypeCorrect == Spec => []TypeOK
BY Invariance, PTL

(* Nobody joins the cluster with data of another version, whichever pod    *)
(* takes over a volume and wherever a pass was cut short: the pod that     *)
(* createPodAndClaim starts in cluster mode finds an empty volume or one   *)
(* of its version, however old the lists of the pass are.                  *)
THEOREM JoinsUpgraded == Spec => []SpecialUpgradedBeforeJoin
<1>1. TypeOK /\ SpecialInv => SpecialUpgradedBeforeJoin
  BY DEF SpecialInv, JoinsRight, SpecialUpgradedBeforeJoin
<1> QED
  BY <1>1, Invariance, PTL
=============================================================================
