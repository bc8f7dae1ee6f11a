--------------------------- MODULE GaleraPodsProofs ---------------------------
(***************************************************************************)
(* Facts about the operators of GaleraPods: what the first pod of a        *)
(* listing is, and that setLabels only patches listed pods, with a label   *)
(* set of the right shape that keeps the revision and the backup label the *)
(* cache shows, and that idles one pod at most.                            *)
(***************************************************************************)
EXTENDS GaleraPods, FiniteSets, FiniteSetTheorems, SequenceTheorems, WellFoundedInduction, TLAPS

(* A set of naturals that is not empty has a minimum. *)
LEMMA MinIsMember ==
    ASSUME NEW I \in SUBSET Nat, I # {}
    PROVE  Min(I) \in I /\ \A i \in I : Min(I) <= i
<1> DEFINE R == OpToRel(<, Nat)
<1>1. \A x, y \in Nat : y < x => <<y, x>> \in R
    BY DEF OpToRel
<1>2. IsWellFoundedOn(R, Nat)
    BY NatLessThanWellFounded
<1> HIDE DEF R
<1>3. PICK x \in I : \A y \in I : ~(<<y, x>> \in R)
    BY <1>2, WFMin
<1>4. ASSUME NEW y \in I PROVE x <= y
    <2>1. x \in Nat /\ y \in Nat
        OBVIOUS
    <2>2. ~(<<y, x>> \in R)
        BY <1>3
    <2>3. ~(y < x)
        BY <1>1, <2>1, <2>2
    <2> QED BY <2>1, <2>3
<1> QED BY <1>4 DEF Min

(* The orders in which a finite set can be listed are sequences over it. *)
LEMMA ListingType ==
    ASSUME NEW S, IsFiniteSet(S), NEW s \in SetToSeqs(S)
    PROVE  s \in Seq(S)
<1>1. Cardinality(S) \in Nat
    BY FS_CardinalityType
<1>2. s \in [1..Cardinality(S) -> S]
    BY DEF SetToSeqs
<1> QED BY <1>1, <1>2, SeqDef

(* A listing leaves nobody out. *)
LEMMA ListingCovers ==
    ASSUME NEW S, IsFiniteSet(S), NEW s \in SetToSeqs(S)
    PROVE  Len(s) = Cardinality(S) /\ \A n \in S : \E i \in 1..Len(s) : s[i] = n
<1> DEFINE D == 1..Cardinality(S)
<1>1. Cardinality(S) \in Nat
    BY FS_CardinalityType
<1>2. s \in [D -> S] /\ \A i, j \in D : i # j => s[i] # s[j]
    BY DEF SetToSeqs
<1>3. Len(s) = Cardinality(S)
    BY <1>1, <1>2
<1>4. IsFiniteSet(D) /\ Cardinality(D) = Cardinality(S)
    <2>1. Cardinality(D) = IF 1 > Cardinality(S) THEN 0 ELSE Cardinality(S) - 1 + 1
        BY <1>1, FS_Interval
    <2> QED BY <1>1, <2>1, FS_Interval
<1>5. s \in Surjection(D, S)
    <2> HIDE DEF D
    <2>1. s \in Injection(D, S)
        BY <1>2 DEF Injection, IsInjective
    <2> QED BY <1>4, <2>1, FS_Injection
<1> QED BY <1>3, <1>5 DEF Surjection

LEMMA InOrderType ==
    ASSUME NEW S, IsFiniteSet(S), NEW ord, NEW s \in InOrder(ord, S)
    PROVE  s \in Seq(S)
BY ListingType DEF InOrder

(* FirstIn finds a pod of the listing that is in the set, or nobody. *)
LEMMA FirstInType ==
    ASSUME NEW T, NEW ord \in Seq(T), NEW S
    PROVE  /\ FirstIn(ord, S) \in S \cup {NoMember}
           /\ FirstIn(ord, S) # NoMember =>
                 \E i \in 1..Len(ord) : ord[i] = FirstIn(ord, S)
           /\ (NoMember \notin S /\ \E i \in 1..Len(ord) : ord[i] \in S)
                 => FirstIn(ord, S) \in S
<1> DEFINE I == {i \in DOMAIN ord : ord[i] \in S}
<1>1. DOMAIN ord = 1..Len(ord) /\ Len(ord) \in Nat
    BY LenProperties
<1>2. CASE I = {}
    BY <1>1, <1>2 DEF FirstIn
<1>3. CASE I # {}
    <2> HIDE DEF I
    <2>0. I \in SUBSET Nat
        BY <1>1 DEF I
    <2>1. Min(I) \in I
        BY <2>0, <1>3, MinIsMember
    <2>2. FirstIn(ord, S) = ord[Min(I)]
        BY <1>3 DEF FirstIn, I
    <2> QED BY <1>1, <2>1, <2>2 DEF I
<1> QED BY <1>2, <1>3

-----------------------------------------------------------------------------
(* The label sets over the revisions R, what the status knows of the       *)
(* members of L, and the patches for the pods of L that keep the revision  *)
(* and the backup label the cache P shows.                                 *)
LabelSets(R) == [rev : R, role : RoleLabels, reader : BOOLEAN, backup : BOOLEAN]
Members(L) == [writer : L \cup {NoMember}, bkpWriter : L \cup {NoMember},
               backup : L \cup {NoMember}]
PatchesOf(P, L, R) ==
    {q \in [op : {"patchPod"}, pod : L, labels : LabelSets(R)] :
        q.labels.rev = P[q.pod].rev /\ q.labels.backup = P[q.pod].backup}

(* No patch action touches the revision or the backup label. *)
Keeps(k, l) == k.rev = l.rev /\ k.backup = l.backup

LEMMA ActionsType ==
    ASSUME NEW R, NEW l \in LabelSets(R)
    PROVE  /\ AddReader(l) \in LabelSets(R) /\ Keeps(AddReader(l), l)
           /\ RemoveReader(l) \in LabelSets(R) /\ Keeps(RemoveReader(l), l)
           /\ AddWriter(l) \in LabelSets(R) /\ Keeps(AddWriter(l), l)
           /\ AddBackupWriter(l) \in LabelSets(R) /\ Keeps(AddBackupWriter(l), l)
           /\ RemoveRole(l) \in LabelSets(R) /\ Keeps(RemoveRole(l), l)
BY DEF LabelSets, RoleLabels, AddReader, RemoveReader, AddWriter, AddBackupWriter, RemoveRole, Keeps

LEMMA PatchType ==
    ASSUME NEW R, NEW L, NEW P, NEW n \in L, LabelsOf(P[n]) \in LabelSets(R)
    PROVE  /\ Patch(n, AddWriter(AddReader(LabelsOf(P[n])))) \in PatchesOf(P, L, R)
           /\ Patch(n, AddWriter(RemoveReader(LabelsOf(P[n])))) \in PatchesOf(P, L, R)
           /\ Patch(n, AddBackupWriter(AddReader(LabelsOf(P[n])))) \in PatchesOf(P, L, R)
           /\ Patch(n, AddReader(RemoveRole(LabelsOf(P[n])))) \in PatchesOf(P, L, R)
           /\ Patch(n, RemoveReader(LabelsOf(P[n]))) \in PatchesOf(P, L, R)
<1> DEFINE l == LabelsOf(P[n])
<1>1. l.rev = P[n].rev /\ l.backup = P[n].backup
    BY DEF LabelsOf
<1>2. \A k \in LabelSets(R) : Keeps(k, l) => Patch(n, k) \in PatchesOf(P, L, R)
    BY <1>1 DEF Patch, PatchesOf, Keeps
<1>3. l \in LabelSets(R)
    OBVIOUS
<1> HIDE DEF l
<1>4. /\ AddReader(l) \in LabelSets(R) /\ Keeps(AddReader(l), l)
      /\ RemoveReader(l) \in LabelSets(R) /\ Keeps(RemoveReader(l), l)
      /\ RemoveRole(l) \in LabelSets(R) /\ Keeps(RemoveRole(l), l)
    BY <1>3, ActionsType
<1>5. \A j, k : Keeps(j, k) /\ Keeps(k, l) => Keeps(j, l)
    BY DEF Keeps
<1>6. \A k \in LabelSets(R) :
         /\ AddWriter(k) \in LabelSets(R) /\ Keeps(AddWriter(k), k)
         /\ AddBackupWriter(k) \in LabelSets(R) /\ Keeps(AddBackupWriter(k), k)
         /\ AddReader(k) \in LabelSets(R) /\ Keeps(AddReader(k), k)
    BY ActionsType
<1>7. /\ AddWriter(AddReader(l)) \in LabelSets(R) /\ Keeps(AddWriter(AddReader(l)), l)
      /\ AddWriter(RemoveReader(l)) \in LabelSets(R) /\ Keeps(AddWriter(RemoveReader(l)), l)
      /\ AddBackupWriter(AddReader(l)) \in LabelSets(R)
      /\ Keeps(AddBackupWriter(AddReader(l)), l)
      /\ AddReader(RemoveRole(l)) \in LabelSets(R) /\ Keeps(AddReader(RemoveRole(l)), l)
    BY <1>4, <1>5, <1>6
<1> QED BY <1>2, <1>4, <1>7 DEF l

(* The pod whose reader label setLabels removes last, when it has three or *)
(* more ready pods: the new BackupWriter, or else the Writer.              *)
StopsReading(P, ord, ready, m) ==
    LET plain == {n \in ready : ~P[n].backup /\ P[n].role = "none"}
        w     == IF m.writer = NoMember THEN FirstIn(ord, plain) ELSE m.writer
    IN  IF m.bkpWriter = NoMember THEN FirstIn(ord, plain \ {w}) ELSE w

(* setLabels gives roles to ready pods, and stops one of them from         *)
(* reading: its patches are in every set Q that has the ones for that, and *)
(* the status keeps its shape and the Backup pod.                          *)
LEMMA SetLabelsSends ==
    ASSUME NEW L, IsFiniteSet(L), NoMember \notin L, NEW P, NEW ord \in Seq(L),
           NEW ready \in SUBSET L, \A n \in ready : \E i \in 1..Len(ord) : ord[i] = n,
           NEW m \in Members(L), NEW Q,
           \A n \in ready : /\ Patch(n, AddWriter(AddReader(LabelsOf(P[n])))) \in Q
                            /\ Patch(n, AddWriter(RemoveReader(LabelsOf(P[n])))) \in Q
                            /\ Patch(n, AddBackupWriter(AddReader(LabelsOf(P[n])))) \in Q,
           \A n \in ready :
              (\/ Cardinality(ready) = 2 /\ n = m.writer
               \/ Cardinality(ready) > 2 /\ n = StopsReading(P, ord, ready, m))
                  => Patch(n, RemoveReader(LabelsOf(P[n]))) \in Q
    PROVE  SetLabels(P, ord, ready, m) \in
               [patches : Seq(Q), members : {k \in Members(L) : k.backup = m.backup}, ok : BOOLEAN]
<1> DEFINE M == {k \in Members(L) : k.backup = m.backup}
           Result == [patches : Seq(Q), members : M, ok : BOOLEAN]
<1>1. \A n \in ready : /\ Patch(n, AddWriter(AddReader(LabelsOf(P[n])))) \in Q
                       /\ Patch(n, AddWriter(RemoveReader(LabelsOf(P[n])))) \in Q
                       /\ Patch(n, AddBackupWriter(AddReader(LabelsOf(P[n])))) \in Q
    OBVIOUS
<1>2. << >> \in Seq(Q) /\ \A q \in Q : <<q>> \in Seq(Q)
    OBVIOUS
<1>3. \A T \in SUBSET ready : T # {} => FirstIn(ord, T) \in T
    BY FirstInType
<1>4. \A T \in SUBSET ready : FirstIn(ord, T) \in T \cup {NoMember}
    BY FirstInType
<1>5. NoChange(m) \in Result /\ m \in M
    BY <1>2 DEF NoChange
<1>6. \A w : (w \in ready => Patch(w, RemoveReader(LabelsOf(P[w]))) \in Q)
                => WriterStopsReading(P, ready, w) \in Seq(Q)
    BY <1>2 DEF WriterStopsReading
<1>7. \A n \in L : /\ [m EXCEPT !.writer = n] \in M
                   /\ [m EXCEPT !.bkpWriter = n] \in M
                   /\ \A k \in L : [m EXCEPT !.writer = n, !.bkpWriter = k] \in M
    BY DEF Members
<1>8. IsFiniteSet(ready) /\ Cardinality(ready) \in Nat
    BY FS_Subset, FS_CardinalityType
<1> HIDE DEF M
<1> DEFINE r1 == FirstIn(ord, ready)
           r2 == FirstIn(ord, ready \ {r1})
<1>9. Cardinality(ready) # 0 => r1 \in ready
    BY <1>3, <1>8, FS_EmptySet
<1>10. ASSUME NEW x, Cardinality(ready) = 2
       PROVE  ready \ {x} # {}
    <2>1. SUFFICES ASSUME ready \subseteq {x} PROVE FALSE
        OBVIOUS
    <2>2. Cardinality(ready) <= 1
        <3>1. IsFiniteSet({x}) /\ Cardinality({x}) = 1
            BY FS_Singleton
        <3>2. ready \in SUBSET {x}
            BY <2>1
        <3> QED BY <3>1, <3>2, FS_Subset
    <2> QED BY <1>10, <2>2
<1>11. Cardinality(ready) = 2 => r2 \in ready
    BY <1>3, <1>10
<1> HIDE DEF r1, r2
<1>12. ASSUME r1 \in ready PROVE SetLabelsOne(P, r1, m) \in Result
    BY <1>1, <1>2, <1>5, <1>12 DEF SetLabelsOne, NoChange
<1>13. ASSUME r1 \in ready, r2 \in ready PROVE SetLabelsTwoNoWriter(P, r1, r2, m) \in Result
    <2>1. \A a, b \in Q : <<a, b>> \in Seq(Q)
        OBVIOUS
    <2> QED BY <1>1, <1>7, <1>13, <2>1 DEF SetLabelsTwoNoWriter
<1>14. ASSUME Cardinality(ready) = 2 PROVE SetLabelsTwoWriter(P, ord, ready, m) \in Result
    <2> DEFINE other == FirstIn(ord, ready \ {m.writer})
               add == IF m.bkpWriter = NoMember
                      THEN <<Patch(other, AddBackupWriter(AddReader(LabelsOf(P[other]))))>>
                      ELSE << >>
    <2>1. other \in ready
        BY <1>3, <1>10, <1>14
    <2> HIDE DEF other
    <2>2. add \in Seq(Q)
        BY <1>1, <1>2, <2>1
    <2>3. WriterStopsReading(P, ready, m.writer) \in Seq(Q)
        BY <1>6, <1>14
    <2>4. add \o WriterStopsReading(P, ready, m.writer) \in Seq(Q)
        BY <2>2, <2>3, ConcatProperties
    <2>5. (IF m.bkpWriter = NoMember THEN [m EXCEPT !.bkpWriter = other] ELSE m) \in M
        BY <1>5, <1>7, <2>1
    <2> QED BY <2>4, <2>5 DEF SetLabelsTwoWriter, other
<1>15. ASSUME Cardinality(ready) > 2 PROVE SetLabelsMany(P, ord, ready, m) \in Result
    <2> DEFINE plain  == {n \in ready : ~P[n].backup /\ P[n].role = "none"}
               needW  == m.writer = NoMember
               w      == IF needW THEN FirstIn(ord, plain) ELSE m.writer
               wPatch == IF needW THEN <<Patch(w, AddWriter(RemoveReader(LabelsOf(P[w]))))>>
                         ELSE << >>
               needB  == m.bkpWriter = NoMember
               b      == FirstIn(ord, plain \ {w})
               bPatch == IF needB THEN <<Patch(b, AddBackupWriter(AddReader(LabelsOf(P[b]))))>>
                         ELSE << >>
               last   == IF needB THEN b ELSE w
    <2>1. /\ w \in L \cup {NoMember}
          /\ needW /\ w # NoMember => w \in ready
        <3>1. FirstIn(ord, plain) \in ready \cup {NoMember}
            BY <1>4
        <3> QED BY <3>1 DEF Members
    <2>2. b \in ready \cup {NoMember}
        BY <1>4
    <2>3. ASSUME w # NoMember PROVE wPatch \in Seq(Q)
        BY <1>1, <1>2, <2>1, <2>3
    <2>4. ASSUME b # NoMember \/ ~needB PROVE bPatch \in Seq(Q)
        BY <1>1, <1>2, <2>2, <2>4
    <2>5. last = StopsReading(P, ord, ready, m)
        BY DEF StopsReading
    <2>6. WriterStopsReading(P, ready, last) \in Seq(Q)
        <3> HIDE DEF last
        <3> QED BY <1>6, <1>15, <2>5
    <2> HIDE DEF w, b, wPatch, bPatch
    <2>7. CASE w = NoMember
        BY <1>5, <2>7 DEF SetLabelsMany, w, NoChange
    <2>8. CASE w # NoMember /\ needB /\ b = NoMember
        <3>1. SetLabelsMany(P, ord, ready, m) =
                 [patches |-> wPatch, members |-> [m EXCEPT !.writer = w], ok |-> FALSE]
            BY <2>8 DEF SetLabelsMany, w, b, wPatch, bPatch
        <3>2. w \in L /\ wPatch \in Seq(Q)
            BY <2>1, <2>3, <2>8
        <3>3. [m EXCEPT !.writer = w] \in M
            BY <1>7, <3>2
        <3> QED BY <3>1, <3>2, <3>3
    <2>9. CASE w # NoMember /\ ~(needB /\ b = NoMember)
        <3>1. SetLabelsMany(P, ord, ready, m) =
                 [patches |-> wPatch \o bPatch \o WriterStopsReading(P, ready, last),
                  members |-> [m EXCEPT !.writer = last], ok |-> TRUE]
            BY <2>9 DEF SetLabelsMany, w, b, wPatch, bPatch
        <3>2. wPatch \o bPatch \in Seq(Q)
            BY <2>3, <2>4, <2>9, ConcatProperties
        <3>3. last \in L
            BY <2>1, <2>2, <2>9
        <3>4. [m EXCEPT !.writer = last] \in M
            BY <1>7, <3>3
        <3> HIDE DEF last
        <3>5. wPatch \o bPatch \o WriterStopsReading(P, ready, last) \in Seq(Q)
            BY <2>6, <3>2, ConcatProperties
        <3> QED BY <3>1, <3>4, <3>5
    <2> QED BY <2>7, <2>8, <2>9
<1>16. SetLabels(P, ord, ready, m) \in Result
    BY <1>5, <1>8, <1>9, <1>11, <1>12, <1>13, <1>14, <1>15 DEF SetLabels, r1, r2
<1> QED BY <1>16 DEF M

(* setLabels sends patches that keep the revision and the backup label.    *)
LEMMA SetLabelsType ==
    ASSUME NEW R, NEW L, IsFiniteSet(L), NoMember \notin L,
           NEW P, \A n \in L : LabelsOf(P[n]) \in LabelSets(R),
           NEW ord \in Seq(L),
           NEW ready \in SUBSET L, \A n \in ready : \E i \in 1..Len(ord) : ord[i] = n,
           NEW m \in Members(L)
    PROVE  SetLabels(P, ord, ready, m) \in
               [patches : Seq(PatchesOf(P, L, R)), members : Members(L), ok : BOOLEAN]
<1> DEFINE Q == PatchesOf(P, L, R)
           l == SetLabels(P, ord, ready, m)
<1>1. \A n \in ready : /\ Patch(n, AddWriter(AddReader(LabelsOf(P[n])))) \in Q
                       /\ Patch(n, AddWriter(RemoveReader(LabelsOf(P[n])))) \in Q
                       /\ Patch(n, AddBackupWriter(AddReader(LabelsOf(P[n])))) \in Q
                       /\ Patch(n, RemoveReader(LabelsOf(P[n]))) \in Q
    BY PatchType
<1> HIDE DEF Q, l
<1>2. l \in [patches : Seq(Q), members : {k \in Members(L) : k.backup = m.backup}, ok : BOOLEAN]
    BY <1>1, SetLabelsSends DEF l
<1>3. l \in [patches : Seq(Q), members : Members(L), ok : BOOLEAN]
    BY <1>2
<1> QED BY <1>3 DEF Q, l

(* Patches for ready pods that leave them a role or the reader label, but  *)
(* for one pod when there are three or more of them.                       *)
SparingPatches(P, ord, ready, m, R) ==
    {q \in [op : {"patchPod"}, pod : ready, labels : LabelSets(R)] :
        \/ Useful(q.labels)
        \/ Cardinality(ready) > 2 /\ q.pod = StopsReading(P, ord, ready, m)}

(* setLabels sends such patches, and keeps the Backup pod. *)
LEMMA SetLabelsSpares ==
    ASSUME NEW R, NEW L, IsFiniteSet(L), NoMember \notin L,
           NEW P, \A n \in L : LabelsOf(P[n]) \in LabelSets(R),
           NEW ord \in Seq(L),
           NEW ready \in SUBSET L, \A n \in ready : \E i \in 1..Len(ord) : ord[i] = n,
           NEW m \in Members(L), m.writer # NoMember => P[m.writer].role = "writer"
    PROVE  SetLabels(P, ord, ready, m) \in
               [patches : Seq(SparingPatches(P, ord, ready, m, R)),
                members : {k \in Members(L) : k.backup = m.backup}, ok : BOOLEAN]
<1> DEFINE last == StopsReading(P, ord, ready, m)
           Q == {q \in [op : {"patchPod"}, pod : ready, labels : LabelSets(R)] :
                    Useful(q.labels) \/ (Cardinality(ready) > 2 /\ q.pod = last)}
<1> HIDE DEF last
<1>1. ASSUME NEW n \in ready
      PROVE  /\ Patch(n, AddWriter(AddReader(LabelsOf(P[n])))) \in Q
             /\ Patch(n, AddWriter(RemoveReader(LabelsOf(P[n])))) \in Q
             /\ Patch(n, AddBackupWriter(AddReader(LabelsOf(P[n])))) \in Q
    <2> DEFINE k == LabelsOf(P[n])
    <2>1. k \in LabelSets(R)
        OBVIOUS
    <2> HIDE DEF k
    <2>2. AddReader(k) \in LabelSets(R) /\ RemoveReader(k) \in LabelSets(R)
        BY <2>1, ActionsType
    <2>3. \A j \in LabelSets(R) : /\ AddWriter(j) \in LabelSets(R) /\ Useful(AddWriter(j))
                                  /\ AddBackupWriter(j) \in LabelSets(R)
                                  /\ Useful(AddBackupWriter(j))
        BY ActionsType DEF AddWriter, AddBackupWriter, LabelSets, Useful
    <2>4. \A j \in LabelSets(R) : Useful(j) => Patch(n, j) \in Q
        BY DEF Patch
    <2> HIDE DEF Q
    <2> QED BY <2>2, <2>3, <2>4 DEF k
<1>2. ASSUME NEW n \in ready,
             \/ Cardinality(ready) = 2 /\ n = m.writer
             \/ Cardinality(ready) > 2 /\ n = last
      PROVE  Patch(n, RemoveReader(LabelsOf(P[n]))) \in Q
    <2> DEFINE k == LabelsOf(P[n])
    <2>1. k \in LabelSets(R) /\ k.role = P[n].role
        BY DEF LabelsOf
    <2> HIDE DEF k
    <2>2. RemoveReader(k) \in LabelSets(R) /\ RemoveReader(k).role = k.role
        BY <2>1, ActionsType DEF RemoveReader, LabelSets
    <2>3. n # NoMember
        OBVIOUS
    <2>4. Useful(RemoveReader(k)) \/ (Cardinality(ready) > 2 /\ n = last)
        BY <1>2, <2>1, <2>2, <2>3 DEF Useful
    <2> QED BY <2>2, <2>4 DEF Patch, k
<1> HIDE DEF Q
<1>3. SetLabels(P, ord, ready, m) \in
         [patches : Seq(Q), members : {k \in Members(L) : k.backup = m.backup}, ok : BOOLEAN]
    BY <1>1, <1>2, SetLabelsSends DEF last
<1> QED BY <1>3 DEF SparingPatches, Q, last

-----------------------------------------------------------------------------
(* The patches c leave the pod n of P its role, or end with giving it one. *)
LeavesRole(P, c, n, role) ==
    /\ P[n].role = role
    /\ \A i \in 1..Len(c) : c[i].pod = n => c[i].labels.role = role
EndsWithRole(c, n, role) ==
    \E i \in 1..Len(c) :
        /\ c[i].pod = n
        /\ \A j \in i..Len(c) : c[j].pod = n => c[j].labels.role = role

(* The Writer that stops reading stays the Writer. *)
LEMMA WriterStays ==
    ASSUME NEW P, NEW ready, NEW w, P[w].role = "writer"
    PROVE  \A c : c = WriterStopsReading(P, ready, w) =>
               /\ Len(c) \in {0, 1} /\ c \in Seq({Patch(w, RemoveReader(LabelsOf(P[w])))})
               /\ \A i \in 1..Len(c) : /\ c[i].pod = w /\ c[i].labels.role = "writer"
                                       /\ Useful(c[i].labels)
<1> DEFINE q == Patch(w, RemoveReader(LabelsOf(P[w])))
<1>1. q.pod = w /\ q.labels.role = "writer" /\ Useful(q.labels)
    BY DEF Patch, RemoveReader, LabelsOf, Useful
<1> HIDE DEF q
<1>2. WriterStopsReading(P, ready, w) = << >> \/ WriterStopsReading(P, ready, w) = <<q>>
    BY DEF WriterStopsReading, q
<1>3. CASE WriterStopsReading(P, ready, w) = << >>
    BY <1>3 DEF q
<1>4. CASE WriterStopsReading(P, ready, w) = <<q>>
    <2>1. <<q>> \in Seq({q}) /\ Len(<<q>>) = 1 /\ <<q>>[1] = q
        OBVIOUS
    <2> QED BY <1>1, <1>4, <2>1 DEF q
<1> QED BY <1>2, <1>3, <1>4

(* With a Writer and a BackupWriter setLabels only makes the Writer stop   *)
(* reading.                                                                *)
LEMMA SetLabelsSettled ==
    ASSUME NEW P, NEW ord, NEW ready, NEW m, m.writer # NoMember, m.bkpWriter # NoMember,
           Cardinality(ready) \in Nat, Cardinality(ready) > 1, P[m.writer].role = "writer"
    PROVE  LET s == SetLabels(P, ord, ready, m).patches
           IN  \A i \in 1..Len(s) : /\ s[i].pod = m.writer /\ s[i].labels.role = "writer"
                                    /\ Useful(s[i].labels)
<1> DEFINE c == WriterStopsReading(P, ready, m.writer)
           q == Patch(m.writer, RemoveReader(LabelsOf(P[m.writer])))
<1>1. /\ c \in Seq({q})
      /\ \A i \in 1..Len(c) : /\ c[i].pod = m.writer /\ c[i].labels.role = "writer"
                              /\ Useful(c[i].labels)
    <2> DEFINE w == m.writer
    <2>1. P[w].role = "writer"
        OBVIOUS
    <2>2. \A x : x = WriterStopsReading(P, ready, w) =>
             /\ x \in Seq({Patch(w, RemoveReader(LabelsOf(P[w])))})
             /\ \A i \in 1..Len(x) : /\ x[i].pod = w /\ x[i].labels.role = "writer"
                                     /\ Useful(x[i].labels)
        <3> HIDE DEF w
        <3> QED BY <2>1, WriterStays
    <2> QED BY <2>2
<1> HIDE DEF c, q
<1>2. << >> \o c = c /\ << >> \o << >> \o c = c
    BY <1>1
<1>3. SetLabelsTwoWriter(P, ord, ready, m).patches = << >> \o c
    BY DEF SetLabelsTwoWriter, c
<1>4. SetLabelsMany(P, ord, ready, m).patches = << >> \o << >> \o c
    BY DEF SetLabelsMany, c
<1>5. SetLabels(P, ord, ready, m) \in {SetLabelsTwoWriter(P, ord, ready, m),
                                       SetLabelsMany(P, ord, ready, m)}
    BY DEF SetLabels
<1>6. SetLabels(P, ord, ready, m).patches = c
    BY <1>2, <1>3, <1>4, <1>5
<1> QED BY <1>1, <1>6

(* Two ready pods are given the two roles; so they have them in the end,   *)
(* whatever a pass found.                                                  *)
LEMMA TwoRoles ==
    ASSUME NEW L, IsFiniteSet(L), NoMember \notin L, NEW P, NEW ord \in Seq(L),
           NEW ready \in SUBSET L, \A n \in ready : \E i \in 1..Len(ord) : ord[i] = n,
           Cardinality(ready) = 2, NEW m,
           m.writer \in ready \cup {NoMember}, m.bkpWriter \in ready \cup {NoMember},
           m.writer # NoMember => P[m.writer].role = "writer",
           m.bkpWriter # NoMember => P[m.bkpWriter].role = "backup-writer"
    PROVE  LET c == SetLabels(P, ord, ready, m).patches
           IN  \E w, b \in ready :
                  /\ (w = m.writer /\ LeavesRole(P, c, w, "writer")) \/ EndsWithRole(c, w, "writer")
                  /\ \/ b = m.bkpWriter /\ LeavesRole(P, c, b, "backup-writer")
                     \/ EndsWithRole(c, b, "backup-writer")
<1> DEFINE c == SetLabels(P, ord, ready, m).patches
           r1 == FirstIn(ord, ready)
           r2 == FirstIn(ord, ready \ {r1})
           other == FirstIn(ord, ready \ {m.writer})
<1>1. \A T \in SUBSET ready : T # {} => FirstIn(ord, T) \in T
    BY FirstInType
<1>2. ASSUME NEW x PROVE ready \ {x} # {}
    <2>1. SUFFICES ASSUME ready \subseteq {x} PROVE FALSE
        OBVIOUS
    <2>2. IsFiniteSet({x}) /\ Cardinality({x}) = 1 /\ ready \in SUBSET {x}
        BY <2>1, FS_Singleton
    <2>3. Cardinality(ready) <= 1
        BY <2>2, FS_Subset
    <2> QED BY <2>3
<1>3. r1 \in ready /\ r2 \in ready \ {r1} /\ other \in ready \ {m.writer}
    BY <1>1, <1>2
<1>4. SetLabels(P, ord, ready, m) = IF m.writer = NoMember THEN SetLabelsTwoNoWriter(P, r1, r2, m)
                                    ELSE SetLabelsTwoWriter(P, ord, ready, m)
    BY DEF SetLabels
<1> HIDE DEF r1, r2
<1>5. \A n, l : Patch(n, l).pod = n /\ Patch(n, l).labels = l
    BY DEF Patch
<1>6. \A n : /\ AddWriter(RemoveReader(LabelsOf(P[n]))).role = "writer"
             /\ AddBackupWriter(AddReader(LabelsOf(P[n]))).role = "backup-writer"
    BY DEF AddWriter, RemoveReader, AddBackupWriter, AddReader, LabelsOf
<1>7. CASE m.writer = NoMember
    <2> DEFINE w == IF P[r1].backup THEN r2 ELSE r1
               b == IF P[r1].backup THEN r1 ELSE r2
               p == Patch(w, AddWriter(RemoveReader(LabelsOf(P[w]))))
               q == Patch(b, AddBackupWriter(AddReader(LabelsOf(P[b]))))
    <2>1. c = <<p, q>>
        BY <1>4, <1>7 DEF SetLabelsTwoNoWriter
    <2>2. w \in ready /\ b \in ready /\ w # b
        BY <1>3
    <2>3. p.pod = w /\ p.labels.role = "writer" /\ q.pod = b /\ q.labels.role = "backup-writer"
        BY <1>5, <1>6
    <2> HIDE DEF c, w, b, p, q
    <2>4. Len(c) = 2 /\ c[1] = p /\ c[2] = q
        BY <2>1
    <2>5. EndsWithRole(c, w, "writer") /\ EndsWithRole(c, b, "backup-writer")
        <3>1. 1 \in 1..Len(c) /\ 2 \in 1..Len(c)
              /\ (\A j \in 1..Len(c) : j = 1 \/ j = 2) /\ (\A j \in 2..Len(c) : j = 2)
            BY <2>4
        <3>2. \A j \in 1..Len(c) : c[j].pod = w => c[j].labels.role = "writer"
            BY <2>2, <2>3, <2>4, <3>1
        <3>3. \A j \in 2..Len(c) : c[j].pod = b => c[j].labels.role = "backup-writer"
            BY <2>2, <2>3, <2>4, <3>1
        <3> QED BY <2>3, <2>4, <3>1, <3>2, <3>3 DEF EndsWithRole
    <2> QED BY <2>2, <2>5 DEF c
<1>8. CASE m.writer # NoMember /\ m.bkpWriter # NoMember
    <2>1. \A i \in 1..Len(c) : /\ c[i].pod = m.writer /\ c[i].labels.role = "writer"
                              /\ Useful(c[i].labels)
        BY <1>8, SetLabelsSettled
    <2> HIDE DEF c
    <2>2. \A i \in 1..Len(c) : c[i].pod = m.writer /\ c[i].labels.role = "writer"
        BY <2>1
    <2>3. m.writer # m.bkpWriter /\ m.writer \in ready /\ m.bkpWriter \in ready
        BY <1>8
    <2>4. LeavesRole(P, c, m.writer, "writer") /\ LeavesRole(P, c, m.bkpWriter, "backup-writer")
        BY <1>8, <2>2, <2>3 DEF LeavesRole
    <2> QED BY <2>3, <2>4 DEF c
<1>9. CASE m.writer # NoMember /\ m.bkpWriter = NoMember
    <2> DEFINE w == m.writer
               p == Patch(other, AddBackupWriter(AddReader(LabelsOf(P[other]))))
               s == WriterStopsReading(P, ready, w)
               q == Patch(w, RemoveReader(LabelsOf(P[w])))
    <2>1. c = <<p>> \o s
        BY <1>4, <1>9 DEF SetLabelsTwoWriter
    <2>2. /\ s \in Seq({q}) /\ Len(s) \in {0, 1}
          /\ \A i \in 1..Len(s) : s[i].pod = w /\ s[i].labels.role = "writer"
        <3>1. P[w].role = "writer"
            BY <1>9
        <3> HIDE DEF w
        <3> QED BY <3>1, WriterStays
    <2>3. p.pod = other /\ p.labels.role = "backup-writer" /\ other # w /\ other \in ready
          /\ w \in ready /\ P[w].role = "writer"
        BY <1>3, <1>5, <1>6, <1>9
    <2> HIDE DEF c, w, p, s, q, other
    <2>4. /\ Len(c) = 1 + Len(s) /\ c[1] = p /\ 1 \in 1..Len(c)
          /\ \A i \in 1..Len(c) : i # 1 => i - 1 \in 1..Len(s) /\ c[i] = s[i - 1]
        BY <2>1, <2>2
    <2>5. LeavesRole(P, c, w, "writer")
        BY <2>2, <2>3, <2>4 DEF LeavesRole
    <2>6. EndsWithRole(c, other, "backup-writer")
        <3>1. \A j \in 1..Len(c) : c[j].pod = other => c[j].labels.role = "backup-writer"
            BY <2>2, <2>3, <2>4
        <3> QED BY <2>3, <2>4, <3>1 DEF EndsWithRole
    <2> QED BY <2>3, <2>5, <2>6 DEF c, w
<1> QED BY <1>7, <1>8, <1>9
=============================================================================
