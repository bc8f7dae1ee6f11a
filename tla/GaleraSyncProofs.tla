--------------------------- MODULE GaleraSyncProofs ---------------------------
(***************************************************************************)
(* Theorems about GaleraSync: its type invariant, and that the history is  *)
(* never truncated under a revision that the status or a pod still names.  *)
(* The sorted lists of a pass are chosen, so it is shown first that a      *)
(* finite set can be sorted at all.                                        *)
(***************************************************************************)
EXTENDS GaleraSync, FiniteSetTheorems, SequenceTheorems, WellFoundedInduction, TLAPS

-----------------------------------------------------------------------------
(* Sorting                                                                 *)

(* A set of naturals that is not empty has a least element. *)
LEMMA LeastExists ==
    ASSUME NEW I \in SUBSET Nat, I # {}
    PROVE  \E i \in I : \A j \in I : i <= j
<1> DEFINE R == OpToRel(<, Nat)
<1>1. \A x, y \in Nat : y < x => <<y, x>> \in R
    BY DEF OpToRel
<1>2. IsWellFoundedOn(R, Nat)
    BY NatLessThanWellFounded
<1> HIDE DEF R
<1>3. PICK x \in I : \A y \in I : ~(<<y, x>> \in R)
    BY <1>2, WFMin
<1>4. ASSUME NEW y \in I PROVE x <= y
    <2>1. x \in Nat /\ y \in Nat /\ ~(y < x)
        BY <1>1, <1>3
    <2> QED BY <2>1
<1> QED BY <1>4

(* Among sets of finite sets that are not empty there is a smallest. *)
LEMMA SmallestExists ==
    ASSUME NEW S, IsFiniteSet(S), NEW B \in SUBSET (SUBSET S), B # {}
    PROVE  \E T \in B : \A U \in B : Cardinality(T) <= Cardinality(U)
<1> DEFINE Sizes == {Cardinality(T) : T \in B}
<1>1. \A T \in B : IsFiniteSet(T)
    BY FS_Subset
<1>2. \A T \in B : Cardinality(T) \in Nat
    BY <1>1, FS_CardinalityType
<1>3. Sizes \in SUBSET Nat /\ Sizes # {}
    BY <1>2
<1>4. PICK i \in Sizes : \A j \in Sizes : i <= j
    <2> HIDE DEF Sizes
    <2> QED BY <1>3, LeastExists
<1> QED BY <1>4

(* Taking one element away makes a finite set smaller by one. *)
LEMMA OneLess ==
    ASSUME NEW T, IsFiniteSet(T), NEW x \in T
    PROVE  /\ Cardinality(T) \in Nat
           /\ Cardinality(T \ {x}) \in Nat
           /\ Cardinality(T \ {x}) = Cardinality(T) - 1
           /\ IsFiniteSet(T \ {x})
<1>1. IsFiniteSet(T \ {x}) /\ Cardinality(T \ {x}) = Cardinality(T) - 1
    BY FS_RemoveElement
<1> QED BY <1>1, FS_CardinalityType

(* Of the elements of a finite set one has the highest number. *)
LEMMA HighestExists ==
    ASSUME NEW S, IsFiniteSet(S), S # {}, NEW number, \A x \in S : number[x] \in Nat
    PROVE  \E m \in S : \A x \in S : number[x] <= number[m]
<1> DEFINE Has(T) == \E m \in T : \A x \in T : number[x] <= number[m]
           Bad == {T \in SUBSET S : T # {} /\ ~Has(T)}
<1>1. ASSUME Bad # {} PROVE FALSE
    <2>1. PICK T \in Bad : \A U \in Bad : Cardinality(T) <= Cardinality(U)
        <3>1. Bad \in SUBSET (SUBSET S)
            OBVIOUS
        <3> HIDE DEF Bad
        <3> QED BY <1>1, <3>1, SmallestExists
    <2>2. T \in SUBSET S /\ T # {} /\ ~Has(T)
        OBVIOUS
    <2>3. IsFiniteSet(T)
        BY <2>2, FS_Subset
    <2>4. PICK x \in T : TRUE
        BY <2>2
    <2>5. T \ {x} \notin Bad
        <3> HIDE DEF Bad
        <3>1. /\ Cardinality(T) \in Nat
              /\ Cardinality(T \ {x}) = Cardinality(T) - 1
            BY <2>3, OneLess
        <3> QED BY <2>1, <3>1
    <2>6. CASE T \ {x} = {}
        BY <2>2, <2>4, <2>6
    <2>7. CASE T \ {x} # {}
        <3>1. PICK m \in T \ {x} : \A y \in T \ {x} : number[y] <= number[m]
            BY <2>2, <2>5, <2>7
        <3>2. number[x] \in Nat /\ number[m] \in Nat /\ \A y \in T : number[y] \in Nat
            BY <2>2, <2>4
        <3>3. CASE number[x] <= number[m]
            BY <2>2, <3>1, <3>3
        <3>4. CASE number[m] <= number[x]
            <4>1. \A y \in T : number[y] <= number[x]
                BY <3>1, <3>2, <3>4
            <4> QED BY <2>2, <2>4, <4>1
        <3> QED BY <3>2, <3>3, <3>4
    <2> QED BY <2>6, <2>7
<1> QED BY <1>1

(* What it means that a sequence is in the order of the numbers. *)
InOrder(q, number) == \A i, j \in 1..Len(q) : i < j => number[q[i]] <= number[q[j]]

(* The orders in which a finite set can be listed are sequences over it. *)
LEMMA ListingType ==
    ASSUME NEW S, IsFiniteSet(S), NEW q \in SetToSeqs(S)
    PROVE  q \in Seq(S) /\ Len(q) = Cardinality(S)
<1>1. Cardinality(S) \in Nat
    BY FS_CardinalityType
<1>2. q \in [1..Cardinality(S) -> S]
    BY DEF SetToSeqs
<1>3. q \in Seq(S)
    BY <1>1, <1>2, SeqDef
<1> QED BY <1>1, <1>2, <1>3, LenProperties

(* A listing of all but the highest element is extended by that element. *)
LEMMA AddHighest ==
    ASSUME NEW T, IsFiniteSet(T), NEW number, \A x \in T : number[x] \in Nat,
           NEW m \in T, \A x \in T : number[x] <= number[m],
           NEW q \in SetToSeqs(T \ {m}), InOrder(q, number)
    PROVE  \E r \in SetToSeqs(T) : InOrder(r, number)
<1> DEFINE n == Cardinality(T)
           r == [i \in 1..n |-> IF i = n THEN m ELSE q[i]]
<1>1. n \in Nat /\ n - 1 \in Nat /\ Cardinality(T \ {m}) = n - 1 /\ IsFiniteSet(T \ {m})
    BY OneLess
<1>2. /\ q \in [1..(n - 1) -> T \ {m}] /\ Len(q) = n - 1
      /\ \A i, j \in 1..(n - 1) : i # j => q[i] # q[j]
    BY <1>1, ListingType DEF SetToSeqs
<1> HIDE DEF n
<1>3. \A i \in 1..n : i # n => i \in 1..(n - 1)
    BY <1>1
<1>4. r \in [1..n -> T]
    BY <1>1, <1>2, <1>3
<1>5. \A i, j \in 1..n : i # j => r[i] # r[j]
    BY <1>1, <1>2, <1>3
<1>6. r \in SetToSeqs(T)
    BY <1>4, <1>5 DEF SetToSeqs, n
<1>7. Len(r) = n
    BY <1>6, ListingType DEF n
<1>8. InOrder(r, number)
    <2>1. SUFFICES ASSUME NEW i \in 1..n, NEW j \in 1..n, i < j
                   PROVE  number[r[i]] <= number[r[j]]
        BY <1>7 DEF InOrder
    <2>2. i # n /\ i \in 1..(n - 1) /\ r[i] = q[i]
        BY <1>1, <2>1
    <2>3. CASE j = n
        BY <1>2, <2>2, <2>3
    <2>4. CASE j # n
        <3>1. j \in 1..(n - 1) /\ r[j] = q[j]
            BY <1>3, <2>4
        <3> QED BY <1>2, <2>1, <2>2, <3>1 DEF InOrder
    <2> QED BY <2>3, <2>4
<1> QED BY <1>6, <1>8

(* A finite set can be sorted. *)
LEMMA SortingExists ==
    ASSUME NEW S, IsFiniteSet(S), NEW number, \A x \in S : number[x] \in Nat
    PROVE  \E q \in SetToSeqs(S) : InOrder(q, number)
<1> DEFINE Has(T) == \E q \in SetToSeqs(T) : InOrder(q, number)
           Bad == {T \in SUBSET S : ~Has(T)}
<1>1. ASSUME Bad # {} PROVE FALSE
    <2>1. PICK T \in Bad : \A U \in Bad : Cardinality(T) <= Cardinality(U)
        <3>1. Bad \in SUBSET (SUBSET S)
            OBVIOUS
        <3> HIDE DEF Bad
        <3> QED BY <1>1, <3>1, SmallestExists
    <2>2. T \in SUBSET S /\ ~Has(T)
        OBVIOUS
    <2>3. IsFiniteSet(T)
        BY <2>2, FS_Subset
    <2>4. CASE T = {}
        <3>1. Cardinality(T) = 0
            BY <2>4, FS_EmptySet
        <3>2. << >> \in [1..0 -> T]
            OBVIOUS
        <3>3. << >> \in SetToSeqs(T)
            BY <3>1, <3>2 DEF SetToSeqs
        <3>4. InOrder(<< >>, number)
            BY DEF InOrder
        <3> QED BY <2>2, <3>3, <3>4
    <2>5. CASE T # {}
        <3>0. \A x \in T : number[x] \in Nat
            BY <2>2
        <3>1. PICK m \in T : \A x \in T : number[x] <= number[m]
            BY <2>3, <2>5, <3>0, HighestExists
        <3>2. T \ {m} \notin Bad
            <4> HIDE DEF Bad
            <4> QED BY <2>1, <2>3, <3>1, OneLess
        <3>3. Has(T \ {m})
            BY <2>2, <3>2
        <3> QED BY <2>2, <2>3, <3>0, <3>1, <3>3, AddHighest
    <2> QED BY <2>4, <2>5
<1> QED BY <1>1

(* Sorted lists the elements of a finite set. *)
LEMMA SortedType ==
    ASSUME NEW S, IsFiniteSet(S), NEW number, \A x \in S : number[x] \in Nat
    PROVE  Sorted(S, number) \in Seq(S)
<1>1. \E q \in SetToSeqs(S) : \A i, j \in 1..Len(q) : i < j => number[q[i]] <= number[q[j]]
    BY SortingExists DEF InOrder
<1>2. Sorted(S, number) \in SetToSeqs(S)
    BY <1>1 DEF Sorted
<1> QED BY <1>2, ListingType

-----------------------------------------------------------------------------
(* Types of the parts                                                      *)

(* What is left to do is services, or the revisions to delete: at least    *)
(* one of them.                                                            *)
TodoFits ==
    /\ pass.at = "services" => pass.todo \in Seq(Services)
    /\ pass.at = "truncate" => pass.todo \in Seq(Templates) /\ pass.todo # << >>

TypeInv == TypeOK /\ TodoFits

(* The constants that are numbers. *)
LEMMA BoundsType == HistoryLimit \in Nat /\ MaxEdits \in Nat /\ MaxFaults \in Nat
BY SyncAssumption

(* The values that stand for nothing. *)
LEMMA NothingType ==
    /\ NoRev \in Revisions /\ NoPod \in PodStates /\ NoService \in ServiceStates
    /\ NoStatus \in Statuses
    /\ NoPod.rev = NoName /\ NoRev.number = 0
<1>1. NoRev \in Revisions /\ NoRev.number = 0
    BY DEF NoRev, Revisions
<1>2. NoPod \in PodStates /\ NoPod.rev = NoName
    BY DEF NoPod, PodStates, Names
<1>3. NoService \in ServiceStates
    BY DEF NoService, ServiceStates
<1>4. NoStatus \in Statuses
    BY DEF NoStatus, Statuses, Names
<1> QED BY <1>1, <1>2, <1>3, <1>4

(* The resource as it is created, and a pass that has not begun. *)
LEMMA IdleType ==
    /\ IdlePass \in Passes /\ IdlePass.at = "idle" /\ IdlePass.galera \in Galeras
    /\ IdlePass.galera.status = NoStatus
    /\ IdlePass.list = [t \in Templates |-> NoRev] /\ IdlePass.pods = [p \in Pods |-> NoPod]
<1> DEFINE g == [data |-> FirstTemplate, labels |-> FirstLabels, special |-> FALSE, gen |-> 1,
                 status |-> NoStatus]
<1>1. g \in Galeras /\ g.status = NoStatus
    BY SyncAssumption, NothingType DEF Galeras
<1>2. IdlePass.galera = g
    BY DEF IdlePass
<1> HIDE DEF g
<1>3. << >> \in Seq(Services \cup Templates)
    BY EmptySeq
<1>4. [t \in Templates |-> NoRev] \in [Templates -> Revisions]
    BY NothingType
<1>5. [p \in Pods |-> NoPod] \in [Pods -> PodStates]
    BY NothingType
<1>6. IdlePass = [at |-> "idle", galera |-> g, list |-> [t \in Templates |-> NoRev],
                  pods |-> [p \in Pods |-> NoPod], current |-> NoName, next |-> NoName,
                  result |-> NoStatus, todo |-> << >>]
    BY DEF IdlePass, g
<1>7. IdlePass \in Passes
    BY <1>1, <1>3, <1>4, <1>5, <1>6, NothingType DEF Passes, Stages, Names
<1> QED BY <1>1, <1>2, <1>6, <1>7

(* A resource with a new status or an edited specification. *)
LEMMA GaleraEditType ==
    ASSUME NEW g \in Galeras
    PROVE  /\ \A st \in Statuses : /\ [g EXCEPT !.status = st] \in Galeras
                                   /\ [g EXCEPT !.status = st].status = st
           /\ \A t \in Templates : /\ [g EXCEPT !.data = t, !.gen = @ + 1] \in Galeras
                                   /\ [g EXCEPT !.data = t, !.gen = @ + 1].status = g.status
           /\ [g EXCEPT !.special = ~@, !.gen = @ + 1] \in Galeras
           /\ [g EXCEPT !.special = ~@, !.gen = @ + 1].status = g.status
           /\ \A l \in LabelSets : /\ [g EXCEPT !.labels = l] \in Galeras
                                   /\ [g EXCEPT !.labels = l].status = g.status
<1>0. /\ g.data \in Templates /\ g.labels \in LabelSets /\ g.special \in BOOLEAN
      /\ g.gen \in Nat /\ g.status \in Statuses
    BY DEF Galeras
<1>1. ASSUME NEW st \in Statuses
      PROVE  [g EXCEPT !.status = st] \in Galeras /\ [g EXCEPT !.status = st].status = st
    BY <1>1 DEF Galeras
<1>2. ASSUME NEW t \in Templates, NEW n \in Nat
      PROVE  /\ [g EXCEPT !.data = t, !.gen = n] \in Galeras
             /\ [g EXCEPT !.data = t, !.gen = n].status = g.status
    BY <1>2 DEF Galeras
<1>3. ASSUME NEW b \in BOOLEAN, NEW n \in Nat
      PROVE  /\ [g EXCEPT !.special = b, !.gen = n] \in Galeras
             /\ [g EXCEPT !.special = b, !.gen = n].status = g.status
    BY <1>3 DEF Galeras
<1>4. (~g.special) \in BOOLEAN
    <2>1. ASSUME NEW b \in BOOLEAN PROVE (~b) \in BOOLEAN
        BY Zenon
    <2> QED BY <1>0, <2>1, Zenon
<1>6. g.gen + 1 \in Nat
    BY <1>0
<1>5. ASSUME NEW l \in LabelSets
      PROVE  [g EXCEPT !.labels = l] \in Galeras /\ [g EXCEPT !.labels = l].status = g.status
    BY <1>5 DEF Galeras
<1> QED BY <1>1, <1>2, <1>3, <1>4, <1>5, <1>6

(* The fields of a pass. *)
LEMMA PassFields ==
    ASSUME NEW q \in Passes
    PROVE  /\ q.at \in Stages /\ q.galera \in Galeras /\ q.list \in [Templates -> Revisions]
           /\ q.pods \in [Pods -> PodStates] /\ q.current \in Names /\ q.next \in Names
           /\ q.result \in Statuses /\ q.todo \in Seq(Services \cup Templates)
BY DEF Passes

(* A status is a record of its parts. *)
LEMMA StatusFields ==
    ASSUME NEW st \in Statuses
    PROVE  /\ st.current \in Names /\ st.next \in Names /\ st.gen \in Nat
           /\ st.running \in BOOLEAN /\ st.named \in SUBSET Services
           /\ st.counts[1] \in Nat /\ st.counts[2] \in Nat /\ st.counts[3] \in Int
           /\ st.counts[4] \in Nat
BY DEF Statuses

(* Services over all that may be left to do. *)
LEMMA TodoType ==
    /\ Seq(Services) \subseteq Seq(Services \cup Templates)
    /\ Seq(Templates) \subseteq Seq(Services \cup Templates)
OBVIOUS

(* The next revision gets a number above all that are listed. *)
LEMMA NewNextRevisionType ==
    ASSUME pass \in Passes
    PROVE  NewNextRevision \in Nat \ {0}
<1>1. CASE Listed = {}
    BY <1>1 DEF NewNextRevision
<1>2. CASE Listed # {}
    <2> DEFINE number == [t \in Templates |-> pass.list[t].number]
               N == {pass.list[t].number : t \in Listed}
    <2>1. Listed \in SUBSET Templates
        BY DEF Listed, Existing
    <2>2. IsFiniteSet(Listed)
        BY <2>1, SyncAssumption, FS_Subset
    <2>3. \A t \in Templates : pass.list[t].number \in Nat /\ number[t] = pass.list[t].number
        BY PassFields DEF Revisions
    <2>4. \A t \in Listed : number[t] \in Nat
        BY <2>1, <2>3
    <2>5. PICK m \in Listed : \A t \in Listed : number[t] <= number[m]
        <3> HIDE DEF number
        <3> QED BY <1>2, <2>2, <2>4, HighestExists
    <2>6. pass.list[m].number \in N /\ \A k \in N : pass.list[m].number >= k
        BY <2>1, <2>3, <2>5
    <2>7. N \in SUBSET Nat
        BY <2>1, <2>3
    <2>8. NewNextRevision = Max(N) + 1
        BY <1>2 DEF NewNextRevision
    <2> HIDE DEF N
    <2>9. Max(N) \in N
        <3>1. \E x \in N : \A y \in N : x >= y
            BY <2>6
        <3> QED BY <3>1 DEF Max
    <2>10. Max(N) \in Nat
        BY <2>7, <2>9
    <2>11. \A k \in Nat : k + 1 \in Nat \ {0}
        OBVIOUS
    <2> QED BY <2>8, <2>10, <2>11
<1> QED BY <1>1, <1>2

(* The services that are due, and the part of the history that is cut off: *)
(* nothing of what is in use.                                              *)
LEMMA ServicesDueType == ServicesDue \in Seq(Services)
<1> DEFINE D == {s \in Services : pass.galera.status.running \/ s = "pdb"}
<1>1. D \in SUBSET DOMAIN AllServices
    BY SyncAssumption
<1>2. DOMAIN AllServices = {"writer", "writerBackup", "reader", "special", "monitor", "internal", "pdb"}
    BY DEF AllServices
<1>3. \A s \in DOMAIN AllServices : AllServices[s] \in Nat
    BY <1>2 DEF AllServices
<1>4. IsFiniteSet(DOMAIN AllServices)
    <2> DEFINE A == {"writer"} \cup {"writerBackup"} \cup {"reader"} \cup {"special"}
               B == {"monitor"} \cup {"internal"} \cup {"pdb"}
    <2>1. IsFiniteSet(A) /\ IsFiniteSet(B)
        BY FS_Singleton, FS_Union
    <2>2. DOMAIN AllServices = A \cup B
        BY <1>2
    <2> HIDE DEF A, B
    <2> QED BY <2>1, <2>2, FS_Union
<1>5. IsFiniteSet(D)
    BY <1>1, <1>4, FS_Subset
<1>6. D \in SUBSET Services
    OBVIOUS
<1>7. ServicesDue = Sorted(D, AllServices)
    BY DEF ServicesDue
<1> HIDE DEF D
<1>8. ServicesDue \in Seq(D)
    BY <1>1, <1>3, <1>5, <1>7, SortedType
<1> QED BY <1>6, <1>8

LEMMA TruncateHistoryType ==
    ASSUME pass \in Passes
    PROVE  TruncateHistory \in Seq(Listed \ LiveRevisions)
<1> DEFINE number == [t \in Templates |-> pass.list[t].number]
           old == Listed \ LiveRevisions
           history == Oldest(old)
<1>1. old \in SUBSET Templates
    BY DEF Listed, Existing
<1>2. IsFiniteSet(old)
    BY <1>1, SyncAssumption, FS_Subset
<1>3. \A t \in Templates : number[t] \in Nat
    BY PassFields DEF Revisions
<1>4. history = Sorted(old, number)
    BY DEF Oldest
<1>5. TruncateHistory = SubSeq(history, 1, Len(history) - HistoryLimit)
    BY DEF TruncateHistory
<1> HIDE DEF number, old, history
<1>6. history \in Seq(old)
    BY <1>1, <1>2, <1>3, <1>4, SortedType
<1>7. Len(history) \in Nat /\ Len(history) - HistoryLimit \in Int
    BY <1>6, BoundsType, LenProperties
<1>8. SubSeq(history, 1, Len(history) - HistoryLimit) \in Seq(old)
    <2>1. \A i \in 1..(Len(history) - HistoryLimit) : history[i] \in old
        BY <1>6, <1>7, BoundsType, ElementOfSeq
    <2> QED BY <1>6, <1>7, <2>1, SubSeqProperties
<1> QED BY <1>5, <1>8 DEF old

-----------------------------------------------------------------------------
(* The type invariant, one lemma per action                                *)

(* The conjuncts of the type invariant. *)
LEMMA TypeParts ==
    ASSUME TypeInv
    PROVE  /\ galera \in Galeras /\ revs \in [Templates -> Revisions]
           /\ pods \in [Pods -> PodStates] /\ svcs \in [Services -> ServiceStates]
           /\ cache \in [galera : Galeras, revs : [Templates -> Revisions],
                         svcs : [Services -> ServiceStates]]
           /\ pending \subseteq Services /\ pass \in Passes
           /\ edits \in 0..MaxEdits /\ faults \in 0..MaxFaults /\ relabelled \in BOOLEAN
           /\ TodoFits
BY DEF TypeInv, TypeOK

(* A pass that has ended fits. *)
LEMMA EndsType ==
    ASSUME Ends
    PROVE  pass' \in Passes /\ TodoFits'
BY IdleType DEF Ends, TodoFits

(* A counted fault stays within its bound. *)
LEMMA FaultType ==
    ASSUME TypeInv, Fault
    PROVE  faults' \in 0..MaxFaults
BY TypeParts, BoundsType DEF Fault

LEMMA InitType ==
    ASSUME Init
    PROVE  TypeInv
<1>1. galera \in Galeras /\ revs \in [Templates -> Revisions] /\ pods \in [Pods -> PodStates]
    BY IdleType, NothingType DEF Init
<1>2. svcs \in [Services -> ServiceStates] /\ pending \subseteq Services
    BY NothingType DEF Init
<1>3. cache \in [galera : Galeras, revs : [Templates -> Revisions], svcs : [Services -> ServiceStates]]
    BY <1>1, <1>2 DEF Init
<1>4. pass \in Passes /\ TodoFits
    BY IdleType DEF Init, TodoFits
<1>5. edits \in 0..MaxEdits /\ faults \in 0..MaxFaults
    BY BoundsType DEF Init
<1>6. relabelled \in BOOLEAN
    BY DEF Init
<1> QED BY <1>1, <1>2, <1>3, <1>4, <1>5, <1>6 DEF TypeInv, TypeOK

(* What is selected from well-typed revisions is well-typed, and stored. *)
LEMMA ListRevisionsType ==
    ASSUME NEW g \in Galeras, NEW r \in [Templates -> Revisions]
    PROVE  /\ ListRevisions(g, r) \in [Templates -> Revisions]
           /\ \A t \in Existing(ListRevisions(g, r)) : t \in Templates /\ r[t] # NoRev
<1>1. ASSUME NEW t \in Templates
      PROVE  /\ ListRevisions(g, r)[t] \in Revisions
             /\ ListRevisions(g, r)[t] # NoRev => r[t] # NoRev
    BY NothingType DEF ListRevisions
<1> QED BY <1>1 DEF ListRevisions, Existing

LEMMA StartPassType ==
    ASSUME TypeInv, StartPass
    PROVE  TypeInv'
<1> DEFINE g == IF "galera" \in Lagging THEN cache.galera ELSE galera
           r == IF "revisions" \in Lagging THEN cache.revs ELSE revs
           l == ListRevisions(g, r)
<1>1. g \in Galeras /\ r \in [Templates -> Revisions]
    BY TypeParts
<1>2. pass' = [IdlePass EXCEPT !.at = "revisions", !.galera = g, !.list = l, !.pods = pods]
    BY DEF StartPass
<1> HIDE DEF g, r
<1>3. l \in [Templates -> Revisions]
    BY <1>1, ListRevisionsType
<1> HIDE DEF l
<1>4. pass' \in Passes /\ pass'.at = "revisions"
    BY <1>1, <1>2, <1>3, IdleType, TypeParts DEF Passes, Stages
<1>5. TodoFits'
    BY <1>4 DEF TodoFits
<1> QED BY <1>4, <1>5, TypeParts DEF StartPass, TypeInv, TypeOK, counters

(* The revisions of the pass are known. *)
LEMMA FoundType ==
    ASSUME TypeInv, NEW next \in Templates, Found(next)
    PROVE  /\ pass' \in Passes /\ TodoFits' /\ pass'.at = "pods"
           /\ pass'.next = next /\ pass'.current \in Templates
           /\ pass'.current = next \/ pass'.current \in Listed
           /\ pass'.galera = pass.galera /\ pass'.list = pass.list /\ pass'.pods = pass.pods
<1> DEFINE c == IF pass.galera.status.current \in Listed THEN pass.galera.status.current ELSE next
<1>1. c \in Templates /\ (c = next \/ c \in Listed)
    BY DEF Listed, Existing
<1>2. pass' = [pass EXCEPT !.at = "pods", !.next = next, !.current = c]
    BY DEF Found
<1> HIDE DEF c
<1>3. c \in Names /\ next \in Names
    BY <1>1 DEF Names
<1>4. /\ pass' \in Passes /\ pass'.at = "pods" /\ pass'.next = next /\ pass'.current = c
      /\ pass'.galera = pass.galera /\ pass'.list = pass.list /\ pass'.pods = pass.pods
    BY <1>2, <1>3, TypeParts DEF Passes, Stages
<1> QED BY <1>1, <1>4 DEF TodoFits

(* A revision that gets a new number stays stored. *)
LEMMA RenumberedType ==
    ASSUME TypeInv, NEW t \in Templates, NEW n \in Nat \ {0}
    PROVE  /\ [revs EXCEPT ![t].number = n] \in [Templates -> Revisions]
           /\ \A u \in Templates :
                 [revs EXCEPT ![t].number = n][u] = NoRev => revs[u] = NoRev /\ u # t
<1> DEFINE a == [revs[t] EXCEPT !.number = n]
<1>1. revs[t] \in Revisions
    BY TypeParts
<1>2. a \in Revisions /\ a # NoRev
    BY <1>1, NothingType DEF Revisions
<1>3. [revs EXCEPT ![t].number = n] = [revs EXCEPT ![t] = a]
    OBVIOUS
<1> HIDE DEF a
<1>4. /\ [revs EXCEPT ![t] = a] \in [Templates -> Revisions]
      /\ \A u \in Templates : [revs EXCEPT ![t] = a][u] = NoRev => revs[u] = NoRev /\ u # t
    BY <1>2, TypeParts
<1> QED BY <1>3, <1>4

(* A revision that is created is stored. *)
LEMMA CreatedType ==
    ASSUME TypeInv, NEW t \in Templates, NEW n \in Nat \ {0}, NEW ls \in LabelSets,
           revs' = [revs EXCEPT ![t] = [number |-> n, labels |-> ls]]
    PROVE  /\ revs' \in [Templates -> Revisions]
           /\ \A u \in Templates : revs'[u] = NoRev => revs[u] = NoRev /\ u # t
<1> DEFINE b == [number |-> n, labels |-> ls]
<1>1. b \in Revisions /\ b # NoRev
    BY DEF Revisions, NoRev
<1>2. revs' = [revs EXCEPT ![t] = b]
    OBVIOUS
<1> HIDE DEF b
<1> QED BY <1>1, <1>2, TypeParts

(* Whatever is listed or used next by a pass is stored after this step. *)
LEMMA GetGaleraRevisionsType ==
    ASSUME TypeInv, GetGaleraRevisions
    PROVE  /\ TypeInv'
           /\ \A t \in Templates : revs'[t] = NoRev => revs[t] = NoRev
           /\ Ends \/ /\ Found(pass.galera.data)
                      /\ pass.galera.data \in Listed \/ revs'[pass.galera.data] # NoRev
<1> DEFINE t == pass.galera.data
           ls == pass.galera.labels
           n == NewNextRevision
<1>1. t \in Templates /\ ls \in LabelSets
    BY TypeParts, PassFields DEF Galeras
<1>2. n \in Nat \ {0}
    BY TypeParts, NewNextRevisionType
<1>3. /\ UNCHANGED <<galera, pods, svcs, cache, pending, counters>>
      /\ \/ t \in Listed /\ Found(t) /\ UNCHANGED revs
         \/ t \in Listed /\ Found(t) /\ revs' = [revs EXCEPT ![t].number = n]
         \/ Ends /\ UNCHANGED revs
         \/ Found(t) /\ revs' = [revs EXCEPT ![t] = [number |-> n, labels |-> ls]]
         \/ Found(t) /\ revs[t] # NoRev /\ UNCHANGED revs
    BY DEF GetGaleraRevisions, MayBeLast
<1> HIDE DEF t, ls, n
<1>4. /\ revs' \in [Templates -> Revisions]
      /\ \A u \in Templates : revs'[u] = NoRev => revs[u] = NoRev
      /\ Ends \/ (Found(t) /\ (t \in Listed \/ revs'[t] # NoRev))
    <2>1. CASE UNCHANGED revs /\ (Ends \/ (Found(t) /\ (t \in Listed \/ revs[t] # NoRev)))
        <3>1. revs' = revs /\ revs \in [Templates -> Revisions]
            BY <2>1, TypeParts
        <3>2. Ends \/ (Found(t) /\ (t \in Listed \/ revs'[t] # NoRev))
            BY <2>1, <3>1
        <3> QED BY <3>1, <3>2
    <2>2. CASE t \in Listed /\ Found(t) /\ revs' = [revs EXCEPT ![t].number = n]
        BY <1>1, <1>2, <2>2, RenumberedType
    <2>3. CASE Found(t) /\ revs' = [revs EXCEPT ![t] = [number |-> n, labels |-> ls]]
        <3>1. /\ revs' \in [Templates -> Revisions]
              /\ \A u \in Templates : revs'[u] = NoRev => revs[u] = NoRev /\ u # t
            BY <1>1, <1>2, <2>3, CreatedType
        <3> QED BY <1>1, <2>3, <3>1
    <2> QED BY <1>3, <2>1, <2>2, <2>3
<1>5. pass' \in Passes /\ TodoFits'
    BY <1>1, <1>4, EndsType, FoundType
<1>6. TypeInv'
    BY <1>3, <1>4, <1>5, TypeParts DEF TypeInv, TypeOK, counters
<1> QED BY <1>4, <1>6 DEF t

(* What a pass counts, with a pod more or a pod less. *)
LEMMA TallyType ==
    ASSUME pass \in Passes
    PROVE  /\ Tally \in Nat \X Nat \X Int \X Nat
           /\ Created \in Nat \X Nat \X Int \X Nat
           /\ Deleted \in Nat \X Nat \X Int \X Nat
<1>1. \A S \in SUBSET Pods : Cardinality(S) \in Nat
    BY SyncAssumption, FS_Subset, FS_CardinalityType
<1> DEFINE here == Present(pass.pods)
           of(r) == Cardinality({p \in here : pass.pods[p].rev = r})
<1>2. PICK a \in Nat, b \in Nat, c \in Nat, d \in Nat : Tally = <<a, b, c, d>>
    <2>1. \A r : of(r) \in Nat
        BY <1>1 DEF Present
    <2>2. Cardinality(here) \in Nat /\ Cardinality(here \ Unready(pass.pods)) \in Nat
        BY <1>1 DEF Present
    <2>3. Tally = <<Cardinality(here), Cardinality(here \ Unready(pass.pods)),
                    of(pass.current), of(pass.next)>>
        BY DEF Tally
    <2> HIDE DEF here, of
    <2> QED BY <2>1, <2>2, <2>3
<1>3. Created \in {<<a + 1, b, c + 1, d>>, <<a + 1, b, c, d + 1>>}
    BY <1>2 DEF Created
<1>4. Deleted = <<a, b, c - 1, d>>
    BY <1>2 DEF Deleted
<1> QED BY <1>2, <1>3, <1>4

(* A status with such counts is a status. *)
LEMMA StatusOfType ==
    ASSUME pass \in Passes, NEW counts \in Nat \X Nat \X Int \X Nat
    PROVE  /\ StatusOf(counts) \in Statuses
           /\ StatusOf(counts).current = pass.current /\ StatusOf(counts).next = pass.next
<1>1. pass.galera.gen \in Nat /\ pass.galera.status.running \in BOOLEAN
    BY PassFields, StatusFields DEF Galeras
<1>2. ASSUME NEW a \in BOOLEAN, NEW b \in BOOLEAN PROVE (a \/ b) \in BOOLEAN
    BY Zenon
<1>3. (Present(pass.pods) = Pods) \in BOOLEAN
    BY Zenon
<1> DEFINE running == pass.galera.status.running \/ Present(pass.pods) = Pods
<1>4. running \in BOOLEAN
    BY <1>1, <1>2, <1>3, Zenon
<1>5. StatusOf(counts) = [current |-> pass.current, next |-> pass.next, gen |-> pass.galera.gen,
                          named |-> {}, running |-> running, counts |-> counts]
    BY DEF StatusOf
<1> HIDE DEF running
<1> QED BY <1>1, <1>4, <1>5, PassFields DEF Statuses

(* What RunGalera does to the pods: nothing, a pod of the next revision,   *)
(* or one less.                                                            *)
LEMMA RunGaleraPods ==
    ASSUME TypeInv, RunGalera
    PROVE  /\ pods' \in [Pods -> PodStates]
           /\ \A p \in Pods : pods'[p].rev \in {pods[p].rev, NoName, pass.next}
<1>1. CASE UNCHANGED pods
    BY <1>1, TypeParts
<1>2. ASSUME NEW p \in Pods, pods' = [pods EXCEPT ![p] = [rev |-> pass.next, ready |-> FALSE]]
      PROVE  /\ pods' \in [Pods -> PodStates]
             /\ \A q \in Pods : pods'[q].rev \in {pods[q].rev, NoName, pass.next}
    <2> DEFINE new == [rev |-> pass.next, ready |-> FALSE]
    <2>1. new \in PodStates /\ new.rev = pass.next
        BY TypeParts, PassFields DEF PodStates
    <2>2. pods' = [pods EXCEPT ![p] = new]
        BY <1>2
    <2> HIDE DEF new
    <2> QED BY <2>1, <2>2, TypeParts
<1>3. ASSUME NEW p \in Pods, pods' = [pods EXCEPT ![p] = NoPod]
      PROVE  /\ pods' \in [Pods -> PodStates]
             /\ \A q \in Pods : pods'[q].rev \in {pods[q].rev, NoName, pass.next}
    BY <1>3, TypeParts, NothingType
<1>4. \/ UNCHANGED pods
      \/ \E p \in Pods : pods' = [pods EXCEPT ![p] = [rev |-> pass.next, ready |-> FALSE]]
      \/ \E p \in Pods : pods' = [pods EXCEPT ![p] = NoPod]
    BY DEF RunGalera, Outdated
<1> QED BY <1>1, <1>2, <1>3, <1>4

LEMMA RanType ==
    ASSUME TypeInv, NEW counts \in Nat \X Nat \X Int \X Nat, Ran(counts)
    PROVE  /\ pass' \in Passes /\ TodoFits' /\ pass'.at = "services"
           /\ pass'.result.current = pass.current /\ pass'.result.next = pass.next
           /\ pass'.galera = pass.galera /\ pass'.list = pass.list /\ pass'.pods = pass.pods
           /\ pass'.current = pass.current /\ pass'.next = pass.next
<1> DEFINE st == StatusOf(counts)
           due == ServicesDue
<1>1. st \in Statuses /\ st.current = pass.current /\ st.next = pass.next
    BY TypeParts, StatusOfType
<1>2. due \in Seq(Services) /\ due \in Seq(Services \cup Templates)
    BY ServicesDueType, TodoType
<1>3. pass' = [pass EXCEPT !.at = "services", !.result = st, !.todo = due]
    BY DEF Ran
<1> HIDE DEF st, due
<1>4. /\ pass' \in Passes /\ pass'.at = "services" /\ pass'.result = st /\ pass'.todo = due
      /\ pass'.galera = pass.galera /\ pass'.list = pass.list /\ pass'.pods = pass.pods
      /\ pass'.current = pass.current /\ pass'.next = pass.next
    BY <1>1, <1>2, <1>3, TypeParts DEF Passes, Stages
<1>5. TodoFits'
    BY <1>2, <1>4 DEF TodoFits
<1> QED BY <1>1, <1>4, <1>5

(* A pass that has dealt with the pods goes on with the services, unless   *)
(* the pod to be deleted was gone.                                         *)
LEMMA RunGaleraType ==
    ASSUME TypeInv, RunGalera
    PROVE  /\ TypeInv'
           /\ \/ Ends
              \/ /\ pass'.at = "services"
                 /\ pass'.result.current = pass.current /\ pass'.result.next = pass.next
                 /\ pass'.galera = pass.galera /\ pass'.list = pass.list
                 /\ pass'.pods = pass.pods
                 /\ pass'.current = pass.current /\ pass'.next = pass.next
<1>1. pods' \in [Pods -> PodStates]
    BY RunGaleraPods
<1>2. Ends \/ Ran(Created) \/ Ran(Deleted) \/ Ran(Tally)
    BY DEF RunGalera
<1>3. pass' \in Passes /\ TodoFits'
    BY <1>2, EndsType, RanType, TallyType, TypeParts
<1>4. TypeInv'
    BY <1>1, <1>3, TypeParts DEF RunGalera, TypeInv, TypeOK, counters
<1> QED BY <1>2, <1>4, RanType, TallyType, TypeParts

(* One service is done. *)
LEMMA DoneType ==
    ASSUME TypeInv, pass.at = "services", pass.todo # << >>, NEW s \in Services, Done(s)
    PROVE  /\ pass' \in Passes /\ TodoFits' /\ pass'.at = "services"
           /\ pass'.result.current = pass.result.current /\ pass'.result.next = pass.result.next
           /\ pass'.galera = pass.galera /\ pass'.list = pass.list /\ pass'.pods = pass.pods
           /\ pass'.current = pass.current /\ pass'.next = pass.next
<1> DEFINE named == IF Wanted(s) THEN pass.result.named \cup {s} ELSE pass.result.named
           res == [pass.result EXCEPT !.named = named]
           rest == Tail(pass.todo)
<1>1. pass.result \in Statuses /\ pass.todo \in Seq(Services)
    BY TypeParts, PassFields DEF TodoFits
<1>2. named \in SUBSET Services
    BY <1>1, StatusFields
<1>3. rest \in Seq(Services) /\ rest \in Seq(Services \cup Templates)
    BY <1>1, HeadTailProperties, TodoType
<1>4. pass' = [pass EXCEPT !.todo = rest, !.result = res]
    BY TypeParts DEF Done, Passes
<1> HIDE DEF named
<1>5. res \in Statuses /\ res.current = pass.result.current /\ res.next = pass.result.next
    BY <1>1, <1>2 DEF Statuses
<1> HIDE DEF res, rest
<1>6. /\ pass' \in Passes /\ pass'.at = "services" /\ pass'.result = res /\ pass'.todo = rest
      /\ pass'.galera = pass.galera /\ pass'.list = pass.list /\ pass'.pods = pass.pods
      /\ pass'.current = pass.current /\ pass'.next = pass.next
    BY <1>3, <1>4, <1>5, TypeParts DEF Passes
<1> QED BY <1>3, <1>5, <1>6 DEF TodoFits

(* A service is changed in the API server. *)
LEMMA PutType ==
    ASSUME TypeInv, NEW s \in Services, NEW v \in ServiceStates, Put(s, v)
    PROVE  svcs' \in [Services -> ServiceStates] /\ pending' \subseteq Services
BY TypeParts DEF Put

(* The labels of a service are changed in the cache. *)
LEMMA CacheLabelsType ==
    ASSUME TypeInv, NEW s \in Services, NEW l \in LabelSets
    PROVE  [cache EXCEPT !.svcs[s].labels = l] \in
               [galera : Galeras, revs : [Templates -> Revisions], svcs : [Services -> ServiceStates]]
<1> DEFINE v == [cache.svcs[s] EXCEPT !.labels = l]
           S == [cache.svcs EXCEPT ![s] = v]
<1>1. cache.svcs[s] \in ServiceStates
    BY TypeParts
<1>2. v \in ServiceStates
    BY <1>1 DEF ServiceStates
<1>3. [cache EXCEPT !.svcs[s].labels = l] = [cache EXCEPT !.svcs = S]
    BY TypeParts
<1> HIDE DEF v
<1>4. S \in [Services -> ServiceStates]
    BY <1>2, TypeParts
<1> HIDE DEF S
<1> QED BY <1>3, <1>4, TypeParts

(* A service of this resource. *)
LEMMA LiveServiceType ==
    ASSUME TypeInv
    PROVE  [live |-> TRUE, labels |-> pass.galera.labels] \in ServiceStates
BY TypeParts, PassFields DEF Galeras, ServiceStates

LEMMA CreateOrUpdateServiceType ==
    ASSUME TypeInv, CreateOrUpdateService
    PROVE  /\ TypeInv'
           /\ Ends \/ \E s \in Services : Done(s)
<1> DEFINE s == Head(pass.todo)
           new == [live |-> TRUE, labels |-> pass.galera.labels]
<1>1. pass.at = "services" /\ pass.todo # << >> /\ UNCHANGED <<galera, revs, pods, counters>>
    BY DEF CreateOrUpdateService
<1>2. s \in Services
    BY <1>1, TypeParts, HeadTailProperties DEF TodoFits
<1>3. CreateService(s) \/ UpdateService(s) \/ DeleteService(s) \/ NothingToDelete(s)
    BY DEF CreateOrUpdateService
<1>4. /\ Ends \/ Done(s)
      /\ UNCHANGED <<svcs, pending>> \/ Put(s, new) \/ Put(s, NoService)
      /\ UNCHANGED cache \/ cache' = [cache EXCEPT !.svcs[s].labels = pass.galera.labels]
    <2>1. CASE CreateService(s)
        BY <2>1 DEF CreateService
    <2>2. CASE UpdateService(s)
        BY <2>2 DEF UpdateService
    <2>3. CASE DeleteService(s)
        BY <2>3 DEF DeleteService
    <2>4. CASE NothingToDelete(s)
        BY <2>4 DEF NothingToDelete
    <2> QED BY <1>3, <2>1, <2>2, <2>3, <2>4
<1> HIDE DEF s
<1>5. pass' \in Passes /\ TodoFits'
    BY <1>1, <1>2, <1>4, EndsType, DoneType
<1>6. svcs' \in [Services -> ServiceStates] /\ pending' \subseteq Services
    <2>1. new \in ServiceStates
        BY LiveServiceType
    <2> HIDE DEF new
    <2> QED BY <1>2, <1>4, <2>1, PutType, NothingType, TypeParts
<1>7. cache' \in [galera : Galeras, revs : [Templates -> Revisions], svcs : [Services -> ServiceStates]]
    <2>1. pass.galera.labels \in LabelSets
        BY TypeParts, PassFields DEF Galeras
    <2> QED BY <1>2, <1>4, <2>1, CacheLabelsType, TypeParts
<1> QED BY <1>1, <1>2, <1>4, <1>5, <1>6, <1>7, TypeParts DEF TypeInv, TypeOK, counters

LEMMA ServiceCallFailsType ==
    ASSUME TypeInv, ServiceCallFails
    PROVE  TypeInv'
<1> DEFINE s == Head(pass.todo)
<1>1. s \in Services
    BY TypeParts, HeadTailProperties DEF ServiceCallFails, TodoFits
<1>2. pass.galera.labels \in LabelSets
    BY TypeParts, PassFields DEF Galeras
<1>3. cache' = cache \/ cache' = [cache EXCEPT !.svcs[s].labels = pass.galera.labels]
    BY DEF ServiceCallFails
<1> HIDE DEF s
<1>4. cache' \in [galera : Galeras, revs : [Templates -> Revisions], svcs : [Services -> ServiceStates]]
    BY <1>1, <1>2, <1>3, CacheLabelsType, TypeParts
<1>5. faults' \in 0..MaxFaults /\ pass' \in Passes /\ TodoFits'
    BY FaultType, EndsType DEF ServiceCallFails
<1> QED BY <1>4, <1>5, TypeParts DEF ServiceCallFails, TypeInv, TypeOK

(* The status at the end of a roll-out names one of the two revisions of   *)
(* the one it is made from.                                                *)
LEMMA CompleteType ==
    ASSUME NEW st \in Statuses
    PROVE  /\ CompleteRollingUpdate(st) \in Statuses
           /\ CompleteRollingUpdate(st).current \in {st.current, st.next}
<1>1. CASE CompleteRollingUpdate(st) = st
    BY <1>1
<1>2. CASE CompleteRollingUpdate(st) # st
    <2> DEFINE c == <<st.counts[1], st.counts[2], st.counts[4], 0>>
    <2>1. c \in Nat \X Nat \X Int \X Nat
        BY StatusFields
    <2>2. CompleteRollingUpdate(st) =
              [st EXCEPT !.current = st.next, !.next = NoName, !.counts = c]
        BY <1>2 DEF CompleteRollingUpdate
    <2> HIDE DEF c
    <2>3. NoName \in Names /\ st.next \in Names
        BY StatusFields DEF Names
    <2> QED BY <2>1, <2>2, <2>3 DEF Statuses
<1> QED BY <1>1, <1>2

(* The rest of the history is deleted, one revision after the other. *)
LEMMA TruncateType ==
    ASSUME TypeInv, NEW todo \in Seq(Templates), todo # << >>,
           pass' = [pass EXCEPT !.at = "truncate", !.todo = todo]
    PROVE  pass' \in Passes /\ TodoFits' /\ pass'.at = "truncate" /\ pass'.todo = todo
<1>1. todo \in Seq(Services \cup Templates)
    BY TodoType
<1>2. pass' \in Passes /\ pass'.at = "truncate" /\ pass'.todo = todo
    BY <1>1, TypeParts DEF Passes, Stages
<1> QED BY <1>2 DEF TodoFits

LEMMA UpdateGaleraStatusType ==
    ASSUME TypeInv, UpdateGaleraStatus
    PROVE  /\ TypeInv'
           /\ Ends \/ (pass'.at = "truncate" /\ pass'.todo = TruncateHistory)
<1> DEFINE st == CompleteRollingUpdate(pass.result)
           h == TruncateHistory
<1>1. galera' = galera \/ galera' = [galera EXCEPT !.status = st]
    BY DEF UpdateGaleraStatus
<1>2. st \in Statuses
    BY TypeParts, PassFields, CompleteType
<1>3. h \in Seq(Templates)
    <2>1. h \in Seq(Listed \ LiveRevisions)
        BY TypeParts, TruncateHistoryType
    <2>2. Listed \ LiveRevisions \in SUBSET Templates
        BY DEF Listed, Existing
    <2> HIDE DEF h
    <2> QED BY <2>1, <2>2
<1>4. Ends \/ (h # << >> /\ pass' = [pass EXCEPT !.at = "truncate", !.todo = h])
    BY DEF UpdateGaleraStatus
<1> HIDE DEF st, h
<1>5. galera' \in Galeras
    <2>1. galera \in Galeras
        BY TypeParts
    <2>2. [galera EXCEPT !.status = st] \in Galeras
        BY <1>2, <2>1, GaleraEditType
    <2> QED BY <1>1, <2>1, <2>2
<1>6. /\ pass' \in Passes /\ TodoFits'
      /\ Ends \/ (pass'.at = "truncate" /\ pass'.todo = h)
    BY <1>3, <1>4, TruncateType, EndsType
<1>7. TypeInv'
    BY <1>5, <1>6, TypeParts DEF UpdateGaleraStatus, TypeInv, TypeOK, counters
<1> QED BY <1>6, <1>7 DEF h

LEMMA DeleteControllerRevisionType ==
    ASSUME TypeInv, DeleteControllerRevision
    PROVE  /\ TypeInv'
           /\ Head(pass.todo) \in Templates
           /\ \/ Ends
              \/ /\ pass'.at = "truncate" /\ pass'.todo = Tail(pass.todo)
                 /\ \A i \in 1..Len(pass'.todo) :
                       i + 1 \in 1..Len(pass.todo) /\ pass'.todo[i] = pass.todo[i + 1]
<1> DEFINE t == Head(pass.todo)
           rest == Tail(pass.todo)
<1>1. pass.todo \in Seq(Templates) /\ pass.todo # << >> /\ pass.at = "truncate"
    BY TypeParts DEF DeleteControllerRevision, TodoFits
<1>2. /\ t \in Templates /\ rest \in Seq(Templates) /\ Len(rest) = Len(pass.todo) - 1
      /\ \A i \in 1..Len(rest) : rest[i] = pass.todo[i + 1]
    BY <1>1, HeadTailProperties
<1>3. Len(pass.todo) \in Nat /\ \A i \in 1..Len(rest) : i + 1 \in 1..Len(pass.todo)
    BY <1>1, <1>2, LenProperties
<1>4. Len(pass.todo) # 1 => rest # << >>
    <2>1. Len(pass.todo) # 0
        BY <1>1, EmptySeq
    <2>2. rest = << >> => Len(rest) = 0
        BY EmptySeq
    <2> HIDE DEF rest
    <2> QED BY <1>2, <1>3, <2>1, <2>2
<1>5. revs' \in [Templates -> Revisions]
    BY <1>2, TypeParts, NothingType DEF DeleteControllerRevision
<1>6. Ends \/ (rest # << >> /\ pass' = [pass EXCEPT !.todo = rest])
    BY <1>4 DEF DeleteControllerRevision
<1> HIDE DEF t, rest
<1>7. CASE Ends
    <2>1. pass' \in Passes /\ TodoFits'
        BY <1>7, EndsType
    <2>2. TypeInv'
        BY <1>5, <2>1, TypeParts DEF DeleteControllerRevision, TypeInv, TypeOK, counters
    <2> QED BY <1>2, <1>7, <2>2 DEF t
<1>8. CASE rest # << >> /\ pass' = [pass EXCEPT !.todo = rest]
    <2>1. rest \in Seq(Services \cup Templates)
        BY <1>2, TodoType
    <2>2. pass' \in Passes /\ pass'.at = "truncate" /\ pass'.todo = rest
        BY <1>1, <1>8, <2>1, TypeParts DEF Passes
    <2>3. TodoFits'
        BY <1>2, <1>8, <2>2 DEF TodoFits
    <2>4. TypeInv'
        BY <1>5, <2>2, <2>3, TypeParts DEF DeleteControllerRevision, TypeInv, TypeOK, counters
    <2>5. \A i \in 1..Len(pass'.todo) :
             i + 1 \in 1..Len(pass.todo) /\ pass'.todo[i] = pass.todo[i + 1]
        BY <1>2, <1>3, <2>2
    <2> QED BY <1>2, <2>2, <2>4, <2>5 DEF t, rest
<1> QED BY <1>6, <1>7, <1>8

LEMMA PassFailsType ==
    ASSUME TypeInv, PassFails
    PROVE  TypeInv'
<1>1. faults' \in 0..MaxFaults /\ pass' \in Passes /\ TodoFits'
    BY FaultType, EndsType DEF PassFails
<1> QED BY <1>1, TypeParts DEF PassFails, TypeInv, TypeOK

LEMMA OperatorRestartsType ==
    ASSUME TypeInv, OperatorRestarts
    PROVE  TypeInv'
<1>1. faults' \in 0..MaxFaults /\ pass' \in Passes /\ TodoFits'
    BY FaultType, EndsType DEF OperatorRestarts
<1>2. cache' \in [galera : Galeras, revs : [Templates -> Revisions], svcs : [Services -> ServiceStates]]
    BY TypeParts DEF OperatorRestarts
<1> QED BY <1>1, <1>2, TypeParts DEF OperatorRestarts, TypeInv, TypeOK

LEMMA InformerCatchesUpType ==
    ASSUME TypeInv, InformerCatchesUp
    PROVE  TypeInv'
<1> DEFINE Caches == [galera : Galeras, revs : [Templates -> Revisions],
                      svcs : [Services -> ServiceStates]]
           S == [s \in Services |-> IF s \in pending THEN svcs[s] ELSE cache.svcs[s]]
<1>1. cache \in Caches
    BY TypeParts
<1>2. S \in [Services -> ServiceStates]
    BY TypeParts
<1>3. \/ cache' = [cache EXCEPT !.svcs = S] /\ pending' = {}
      \/ cache' = [cache EXCEPT !.galera = galera] /\ pending' = pending
      \/ cache' = [cache EXCEPT !.revs = revs] /\ pending' = pending
    BY DEF InformerCatchesUp
<1> HIDE DEF S
<1>4. cache' \in Caches
    BY <1>1, <1>2, <1>3, TypeParts
<1>5. pending' \subseteq Services
    BY <1>3, TypeParts
<1>6. TodoFits'
    BY TypeParts DEF InformerCatchesUp, TodoFits
<1> QED BY <1>4, <1>5, <1>6, TypeParts DEF InformerCatchesUp, TypeInv, TypeOK, counters

(* An edit of the user leaves the status alone. *)
LEMMA UserEditsType ==
    ASSUME TypeInv, UserEdits
    PROVE  TypeInv' /\ galera'.status = galera.status
<1>1. edits' \in 0..MaxEdits
    <2>1. edits < MaxEdits /\ edits' = edits + 1
        BY DEF UserEdits
    <2> QED BY <2>1, TypeParts, BoundsType
<1>2. relabelled' \in BOOLEAN
    <2>1. relabelled' = relabelled \/ relabelled' = TRUE
        BY DEF UserEdits
    <2>2. relabelled \in BOOLEAN
        BY TypeParts
    <2> QED BY <2>1, <2>2, Zenon
<1>3. galera' \in Galeras /\ galera'.status = galera.status
    <2>1. galera \in Galeras
        BY TypeParts
    <2>2. ASSUME NEW t \in Templates, galera' = [galera EXCEPT !.data = t, !.gen = @ + 1]
          PROVE  galera' \in Galeras /\ galera'.status = galera.status
        <3>1. /\ [galera EXCEPT !.data = t, !.gen = @ + 1] \in Galeras
              /\ [galera EXCEPT !.data = t, !.gen = @ + 1].status = galera.status
            BY <2>1, GaleraEditType
        <3> QED BY <2>2, <3>1
    <2>3. CASE galera' = [galera EXCEPT !.special = ~@, !.gen = @ + 1]
        <3>1. /\ [galera EXCEPT !.special = ~@, !.gen = @ + 1] \in Galeras
              /\ [galera EXCEPT !.special = ~@, !.gen = @ + 1].status = galera.status
            BY <2>1, GaleraEditType
        <3> QED BY <2>3, <3>1
    <2>4. ASSUME NEW l \in LabelSets, galera' = [galera EXCEPT !.labels = l]
          PROVE  galera' \in Galeras /\ galera'.status = galera.status
        <3>1. /\ [galera EXCEPT !.labels = l] \in Galeras
              /\ [galera EXCEPT !.labels = l].status = galera.status
            BY <2>1, GaleraEditType
        <3> QED BY <2>4, <3>1
    <2> QED BY <2>2, <2>3, <2>4 DEF UserEdits
<1>4. TodoFits'
    BY TypeParts DEF UserEdits, TodoFits
<1> QED BY <1>1, <1>2, <1>3, <1>4, TypeParts DEF UserEdits, TypeInv, TypeOK

(* What happens to a pod does not give it another revision. *)
LEMMA PodStepType ==
    ASSUME TypeInv, NEW p \in Pods, PodBecomesReady(p) \/ PodIsLost(p)
    PROVE  /\ TypeInv' /\ UNCHANGED <<galera, revs, pass>>
           /\ \A q \in Pods : pods'[q].rev \in {pods[q].rev, NoName}
<1>0. UNCHANGED <<galera, revs, svcs, cache, pending, pass, edits, relabelled>>
    BY DEF PodBecomesReady, PodIsLost, counters
<1>1. TodoFits'
    BY <1>0, TypeParts DEF TodoFits
<1>2. CASE PodBecomesReady(p)
    <2> DEFINE v == [pods[p] EXCEPT !.ready = TRUE]
    <2>1. v \in PodStates /\ v.rev = pods[p].rev
        BY TypeParts DEF PodStates
    <2>2. pods' = [pods EXCEPT ![p] = v]
        BY <1>2 DEF PodBecomesReady
    <2> HIDE DEF v
    <2>3. pods' \in [Pods -> PodStates] /\ \A q \in Pods : pods'[q].rev \in {pods[q].rev, NoName}
        BY <2>1, <2>2, TypeParts
    <2>4. faults' = faults
        BY <1>2 DEF PodBecomesReady, counters
    <2> QED BY <1>0, <1>1, <2>3, <2>4, TypeParts DEF TypeInv, TypeOK
<1>3. CASE PodIsLost(p)
    <2>1. pods' \in [Pods -> PodStates] /\ \A q \in Pods : pods'[q].rev \in {pods[q].rev, NoName}
        BY <1>3, TypeParts, NothingType DEF PodIsLost
    <2>2. faults' \in 0..MaxFaults
        BY <1>3, FaultType DEF PodIsLost
    <2> QED BY <1>0, <1>1, <2>1, <2>2, TypeParts DEF TypeInv, TypeOK
<1> QED BY <1>2, <1>3

LEMMA ServiceIsRemovedType ==
    ASSUME TypeInv, NEW s \in Services, ServiceIsRemoved(s)
    PROVE  TypeInv'
<1>1. svcs' \in [Services -> ServiceStates] /\ pending' \subseteq Services
    BY PutType, NothingType DEF ServiceIsRemoved
<1>2. faults' \in 0..MaxFaults
    BY FaultType DEF ServiceIsRemoved
<1>3. TodoFits'
    BY TypeParts DEF ServiceIsRemoved, TodoFits
<1> QED BY <1>1, <1>2, <1>3, TypeParts DEF ServiceIsRemoved, TypeInv, TypeOK

(* Every step keeps the types. *)
LEMMA TypeStep ==
    ASSUME TypeInv, [Next]_vars
    PROVE  TypeInv'
<1>1. CASE Pass
    BY <1>1, StartPassType, GetGaleraRevisionsType, RunGaleraType, CreateOrUpdateServiceType,
       UpdateGaleraStatusType, DeleteControllerRevisionType DEF Pass
<1>2. CASE UNCHANGED vars
    BY <1>2 DEF vars, counters, TypeInv, TypeOK, TodoFits
<1> QED BY <1>1, <1>2, ServiceCallFailsType, PassFailsType, OperatorRestartsType,
           InformerCatchesUpType, UserEditsType, PodStepType, ServiceIsRemovedType DEF Next

(* SyncGalera keeps its types: in particular a pass always has a next      *)
(* number for a revision, the services are always in one order, and the    *)
(* list of revisions to delete is made of revisions.                       *)
THEOREM SyncTypeCorrect == Spec => []TypeOK
<1>1. Spec => []TypeInv
    BY InitType, TypeStep, PTL DEF Spec
<1>2. TypeInv => TypeOK
    BY DEF TypeInv
<1> QED BY <1>1, <1>2, PTL

-----------------------------------------------------------------------------
(* Truncating the history.  The invariant follows one pass: what it has    *)
(* read stays true until it has written, since only a pass writes the      *)
(* status, creates pods and deletes revisions; so the revisions it spares  *)
(* are those in use when the deletions are made.                           *)

(* What a pass has listed is stored until it truncates the history. *)
ListedIsStored ==
    pass.at \in {"revisions", "pods", "services"} => \A t \in Listed : revs[t] # NoRev

(* So are the two revisions it works with. *)
WorkingRevisions ==
    pass.at \in {"pods", "services"} =>
        /\ pass.current \in Templates /\ revs[pass.current] # NoRev
        /\ pass.next \in Templates /\ revs[pass.next] # NoRev

(* A pod has the revision the pass has seen, or is lost, or is the pass's  *)
(* own.                                                                    *)
PodsAsSeen ==
    /\ pass.at \in {"revisions", "pods"} =>
          \A p \in Pods : pods[p].rev \in {pass.pods[p].rev, NoName}
    /\ pass.at = "services" =>
          \A p \in Pods : pods[p].rev \in {pass.pods[p].rev, NoName, pass.next}

(* Nobody else writes the status, and what the pass is about to write      *)
(* names its two revisions.                                                *)
StatusAsSeen ==
    /\ pass.at \in {"revisions", "pods", "services"} => galera.status = pass.galera.status
    /\ pass.at = "services" =>
          pass.result.current = pass.current /\ pass.result.next = pass.next

(* What is still to be deleted is not in use. *)
TruncateSpares ==
    pass.at = "truncate" =>
        \A i \in 1..Len(pass.todo) :
            /\ pass.todo[i] # galera.status.current
            /\ \A p \in Pods : pods[p].rev # pass.todo[i]

HistoryInv ==
    /\ NamedRevisionsExist /\ ListedIsStored /\ WorkingRevisions /\ PodsAsSeen /\ StatusAsSeen
    /\ TruncateSpares

(* A pass that ends leaves nothing to rely on. *)
LEMMA EndsHistory ==
    ASSUME Ends, NamedRevisionsExist'
    PROVE  HistoryInv'
BY IdleType DEF Ends, HistoryInv, ListedIsStored, WorkingRevisions, PodsAsSeen, StatusAsSeen,
   TruncateSpares

(* Names are kept when nothing in use is deleted. *)
LEMMA NamesKept ==
    ASSUME NamedRevisionsExist,
           \A t \in Templates : revs'[t] = NoRev => revs[t] = NoRev,
           galera' \in Galeras, pods' \in [Pods -> PodStates],
           galera'.status.current \in {galera.status.current, NoName},
           \A p \in Pods : pods'[p].rev \in {pods[p].rev, NoName}
    PROVE  NamedRevisionsExist'
<1>1. galera'.status.current \in Names /\ \A p \in Pods : pods'[p].rev \in Names
    BY StatusFields DEF Galeras, PodStates
<1> QED BY <1>1 DEF NamedRevisionsExist, Names

LEMMA InitHistory ==
    ASSUME Init
    PROVE  HistoryInv
<1>1. pass.at = "idle" /\ galera.status.current = NoName
    BY IdleType DEF Init, NoStatus
<1>2. \A p \in Pods : pods[p].rev = NoName
    BY IdleType, NothingType DEF Init
<1> QED BY <1>1, <1>2 DEF HistoryInv, NamedRevisionsExist, ListedIsStored, WorkingRevisions,
           PodsAsSeen, StatusAsSeen, TruncateSpares

(* A pass sees what is there, when no informer lags. *)
LEMMA StartPassHistory ==
    ASSUME Lagging = {}, TypeInv, HistoryInv, StartPass
    PROVE  HistoryInv'
<1>1. pass' = [IdlePass EXCEPT !.at = "revisions", !.galera = galera,
                               !.list = ListRevisions(galera, revs), !.pods = pods]
    BY DEF StartPass
<1>2. UNCHANGED <<galera, revs, pods>>
    BY DEF StartPass
<1>3. /\ pass'.at = "revisions" /\ pass'.galera = galera /\ pass'.pods = pods
      /\ pass'.list = ListRevisions(galera, revs)
    BY <1>1, IdleType DEF Passes
<1>4. ListedIsStored'
    <2>1. \A t \in Existing(ListRevisions(galera, revs)) : revs[t] # NoRev
        BY TypeParts, ListRevisionsType
    <2> QED BY <1>2, <1>3, <2>1 DEF ListedIsStored, Listed
<1>5. NamedRevisionsExist'
    BY <1>2 DEF HistoryInv, NamedRevisionsExist
<1>6. PodsAsSeen' /\ StatusAsSeen' /\ WorkingRevisions' /\ TruncateSpares'
    BY <1>2, <1>3 DEF PodsAsSeen, StatusAsSeen, WorkingRevisions, TruncateSpares
<1> QED BY <1>4, <1>5, <1>6 DEF HistoryInv

LEMMA GetGaleraRevisionsHistory ==
    ASSUME TypeInv, HistoryInv, GetGaleraRevisions
    PROVE  HistoryInv'
<1>1. /\ TypeInv'
      /\ \A t \in Templates : revs'[t] = NoRev => revs[t] = NoRev
      /\ Ends \/ /\ Found(pass.galera.data)
                 /\ pass.galera.data \in Listed \/ revs'[pass.galera.data] # NoRev
    BY GetGaleraRevisionsType
<1>2. UNCHANGED <<galera, pods>> /\ pass.at = "revisions"
    BY DEF GetGaleraRevisions
<1>3. NamedRevisionsExist'
    BY <1>1, <1>2, NamesKept, TypeParts DEF HistoryInv, TypeInv, TypeOK
<1>4. CASE Ends
    BY <1>3, <1>4, EndsHistory
<1>5. CASE Found(pass.galera.data)
           /\ (pass.galera.data \in Listed \/ revs'[pass.galera.data] # NoRev)
    <2> DEFINE t == pass.galera.data
    <2>1. t \in Templates
        BY TypeParts, PassFields DEF Galeras
    <2>2. \A u \in Listed : u \in Templates /\ revs[u] # NoRev /\ revs'[u] # NoRev
        BY <1>1, <1>2 DEF HistoryInv, ListedIsStored, Listed, Existing
    <2>3. revs'[t] # NoRev
        BY <1>5, <2>2
    <2>4. /\ pass'.at = "pods" /\ pass'.next = t /\ pass'.current \in Templates
          /\ pass'.current = t \/ pass'.current \in Listed
          /\ pass'.galera = pass.galera /\ pass'.list = pass.list /\ pass'.pods = pass.pods
        BY <1>5, <2>1, FoundType
    <2> HIDE DEF t
    <2>5. WorkingRevisions'
        BY <2>1, <2>2, <2>3, <2>4 DEF WorkingRevisions
    <2>6. ListedIsStored'
        BY <2>2, <2>4 DEF ListedIsStored, Listed
    <2>7. PodsAsSeen' /\ StatusAsSeen' /\ TruncateSpares'
        BY <1>2, <2>4 DEF HistoryInv, PodsAsSeen, StatusAsSeen, TruncateSpares
    <2> QED BY <1>3, <2>5, <2>6, <2>7 DEF HistoryInv
<1> QED BY <1>1, <1>4, <1>5

LEMMA RunGaleraHistory ==
    ASSUME TypeInv, HistoryInv, RunGalera
    PROVE  HistoryInv'
<1>1. /\ pods' \in [Pods -> PodStates]
      /\ \A p \in Pods : pods'[p].rev \in {pods[p].rev, NoName, pass.next}
    BY RunGaleraPods
<1>2. UNCHANGED <<galera, revs>> /\ pass.at = "pods"
    BY DEF RunGalera
<1>3. pass.next \in Templates /\ revs[pass.next] # NoRev
    BY <1>2 DEF HistoryInv, WorkingRevisions
<1>4. NamedRevisionsExist'
    <2>1. \A p \in Pods : pods'[p].rev # NoName => revs[pods'[p].rev] # NoRev
        BY <1>1, <1>3 DEF HistoryInv, NamedRevisionsExist
    <2> QED BY <1>2, <2>1 DEF HistoryInv, NamedRevisionsExist
<1>5. CASE Ends
    BY <1>4, <1>5, EndsHistory
<1>6. CASE ~Ends
    <2>1. /\ pass'.at = "services"
          /\ pass'.result.current = pass.current /\ pass'.result.next = pass.next
          /\ pass'.galera = pass.galera /\ pass'.list = pass.list /\ pass'.pods = pass.pods
          /\ pass'.current = pass.current /\ pass'.next = pass.next
        BY <1>6, RunGaleraType
    <2>2. PodsAsSeen'
        BY <1>1, <1>2, <2>1 DEF HistoryInv, PodsAsSeen
    <2>3. ListedIsStored' /\ WorkingRevisions' /\ StatusAsSeen' /\ TruncateSpares'
        BY <1>2, <2>1 DEF HistoryInv, ListedIsStored, Listed, WorkingRevisions, StatusAsSeen,
           TruncateSpares
    <2> QED BY <1>4, <2>2, <2>3 DEF HistoryInv
<1> QED BY <1>5, <1>6

LEMMA CreateOrUpdateServiceHistory ==
    ASSUME TypeInv, HistoryInv, CreateOrUpdateService
    PROVE  HistoryInv'
<1>1. /\ UNCHANGED <<galera, revs, pods>>
      /\ pass.at = "services" /\ pass.todo # << >>
    BY DEF CreateOrUpdateService
<1>2. NamedRevisionsExist'
    BY <1>1 DEF HistoryInv, NamedRevisionsExist
<1>3. ASSUME NEW s \in Services, Done(s)
      PROVE  HistoryInv'
    <2>1. /\ pass'.at = "services"
          /\ pass'.result.current = pass.result.current /\ pass'.result.next = pass.result.next
          /\ pass'.galera = pass.galera /\ pass'.list = pass.list /\ pass'.pods = pass.pods
          /\ pass'.current = pass.current /\ pass'.next = pass.next
        BY <1>1, <1>3, DoneType
    <2> QED BY <1>1, <1>2, <2>1 DEF HistoryInv, ListedIsStored, Listed, WorkingRevisions,
               PodsAsSeen, StatusAsSeen, TruncateSpares
<1> QED BY <1>2, <1>3, CreateOrUpdateServiceType, EndsHistory

(* The status that is stored in the end names a revision of the pass, and  *)
(* what is to be deleted is neither of those nor one of a pod.             *)
LEMMA UpdateGaleraStatusHistory ==
    ASSUME Lagging = {}, TypeInv, HistoryInv, UpdateGaleraStatus
    PROVE  HistoryInv'
<1> DEFINE st == CompleteRollingUpdate(pass.result)
           h == TruncateHistory
<1>1. UNCHANGED <<revs, pods>> /\ pass.at = "services"
    BY DEF UpdateGaleraStatus
<1>2. /\ pass.result \in Statuses /\ galera \in Galeras
      /\ galera.status = pass.galera.status
      /\ pass.result.current = pass.current /\ pass.result.next = pass.next
      /\ pass.current \in Templates /\ revs[pass.current] # NoRev
      /\ pass.next \in Templates /\ revs[pass.next] # NoRev
    BY <1>1, TypeParts, PassFields DEF HistoryInv, StatusAsSeen, WorkingRevisions
<1>3. st \in Statuses /\ st.current \in {pass.current, pass.next}
    BY <1>2, CompleteType
<1>4. galera'.status.current \in {pass.current, pass.next}
    <2>1. CASE galera' = [galera EXCEPT !.status = st]
        <3>1. galera'.status = st
            <4> HIDE DEF st
            <4>1. [galera EXCEPT !.status = st].status = st
                BY <1>2, <1>3, GaleraEditType
            <4> QED BY <2>1, <4>1
        <3> QED BY <1>3, <3>1
    <2>2. CASE galera' = galera /\ ~InconsistentStatus(pass.galera.status, st)
        <3>1. st.current = galera.status.current
            BY <1>2, <2>2 DEF InconsistentStatus
        <3> QED BY <1>3, <2>2, <3>1
    <2> QED BY <2>1, <2>2 DEF UpdateGaleraStatus, StatusRefused
<1>5. NamedRevisionsExist'
    BY <1>1, <1>2, <1>4 DEF HistoryInv, NamedRevisionsExist
<1>6. CASE Ends
    BY <1>5, <1>6, EndsHistory
<1>7. CASE pass'.at = "truncate" /\ pass'.todo = h
    <2>1. h \in Seq(Listed \ LiveRevisions)
        BY TypeParts, TruncateHistoryType
    <2> HIDE DEF h, st
    <2>2. \A i \in 1..Len(h) : h[i] \in Listed \ LiveRevisions
        BY <2>1, ElementOfSeq
    <2>3. ASSUME NEW i \in 1..Len(h)
          PROVE  h[i] # galera'.status.current /\ \A p \in Pods : pods'[p].rev # h[i]
        <3>1. h[i] \in Templates /\ h[i] # NoName /\ h[i] \notin LiveRevisions
            BY <2>2, SyncAssumption DEF Listed, Existing
        <3>2. h[i] # galera'.status.current
            BY <1>4, <3>1 DEF LiveRevisions
        <3>3. \A p \in Pods : pods[p].rev \in {pass.pods[p].rev, NoName, pass.next}
            BY <1>1 DEF HistoryInv, PodsAsSeen
        <3>4. \A p \in Pods : pods[p].rev # h[i]
            BY <3>1, <3>3 DEF LiveRevisions
        <3> QED BY <1>1, <3>2, <3>4
    <2>4. TruncateSpares'
        BY <1>7, <2>3 DEF TruncateSpares
    <2>5. ListedIsStored' /\ WorkingRevisions' /\ PodsAsSeen' /\ StatusAsSeen'
        BY <1>7 DEF ListedIsStored, WorkingRevisions, PodsAsSeen, StatusAsSeen
    <2> QED BY <1>5, <2>4, <2>5 DEF HistoryInv
<1> QED BY <1>6, <1>7, UpdateGaleraStatusType

LEMMA DeleteControllerRevisionHistory ==
    ASSUME TypeInv, HistoryInv, DeleteControllerRevision
    PROVE  HistoryInv'
<1> DEFINE t == Head(pass.todo)
<1>1. /\ UNCHANGED <<galera, pods>> /\ pass.at = "truncate"
      /\ revs' = [revs EXCEPT ![t] = NoRev]
    BY DEF DeleteControllerRevision
<1>2. pass.todo \in Seq(Templates) /\ pass.todo # << >>
    BY <1>1, TypeParts DEF TodoFits
<1>3. 1 \in 1..Len(pass.todo) /\ t = pass.todo[1]
    BY <1>2, EmptySeq, LenProperties
<1>4. t # galera.status.current /\ \A p \in Pods : pods[p].rev # t
    BY <1>1, <1>3 DEF HistoryInv, TruncateSpares
<1> HIDE DEF t
<1>5. NamedRevisionsExist'
    <2>1. galera.status.current \in Names /\ \A p \in Pods : pods[p].rev \in Names
        BY TypeParts, StatusFields DEF Galeras, PodStates
    <2>2. \A u \in Templates : u # t => revs'[u] = revs[u]
        BY <1>1, TypeParts
    <2> QED BY <1>1, <1>4, <2>1, <2>2 DEF HistoryInv, NamedRevisionsExist, Names
<1>6. CASE Ends
    BY <1>5, <1>6, EndsHistory
<1>7. CASE /\ pass'.at = "truncate"
           /\ \A i \in 1..Len(pass'.todo) :
                 i + 1 \in 1..Len(pass.todo) /\ pass'.todo[i] = pass.todo[i + 1]
    <2>1. TruncateSpares'
        BY <1>1, <1>7 DEF HistoryInv, TruncateSpares
    <2>2. ListedIsStored' /\ WorkingRevisions' /\ PodsAsSeen' /\ StatusAsSeen'
        BY <1>7 DEF ListedIsStored, WorkingRevisions, PodsAsSeen, StatusAsSeen
    <2> QED BY <1>5, <2>1, <2>2 DEF HistoryInv
<1> QED BY <1>6, <1>7, DeleteControllerRevisionType

(* Edits, informers and lost or ready pods leave what a pass relies on. *)
LEMMA OthersHistory ==
    ASSUME TypeInv, HistoryInv, TypeInv', UNCHANGED <<revs, pass>>,
           galera'.status = galera.status,
           \A p \in Pods : pods'[p].rev \in {pods[p].rev, NoName}
    PROVE  HistoryInv'
<1>1. NamedRevisionsExist'
    BY NamesKept DEF HistoryInv, TypeInv, TypeOK
<1>2. ListedIsStored' /\ WorkingRevisions'
    BY DEF HistoryInv, ListedIsStored, Listed, WorkingRevisions
<1>3. PodsAsSeen'
    BY DEF HistoryInv, PodsAsSeen
<1>4. StatusAsSeen'
    BY DEF HistoryInv, StatusAsSeen
<1>5. TruncateSpares'
    <2>1. SUFFICES ASSUME pass.at = "truncate", NEW i \in 1..Len(pass.todo)
                   PROVE  /\ pass.todo[i] # galera'.status.current
                          /\ \A p \in Pods : pods'[p].rev # pass.todo[i]
        BY DEF TruncateSpares
    <2>2. pass.todo[i] \in Templates /\ pass.todo[i] # NoName
        BY <2>1, TypeParts, ElementOfSeq, SyncAssumption DEF TodoFits
    <2> QED BY <2>1, <2>2 DEF HistoryInv, TruncateSpares
<1> QED BY <1>1, <1>2, <1>3, <1>4, <1>5 DEF HistoryInv

(* Every step keeps the invariant. *)
LEMMA HistoryStep ==
    ASSUME Lagging = {}, TypeInv, HistoryInv, TypeInv', [Next]_vars
    PROVE  HistoryInv'
<1>1. CASE Pass
    BY <1>1, StartPassHistory, GetGaleraRevisionsHistory, RunGaleraHistory,
       CreateOrUpdateServiceHistory, UpdateGaleraStatusHistory, DeleteControllerRevisionHistory
       DEF Pass
<1>2. CASE ServiceCallFails \/ PassFails \/ OperatorRestarts
    <2>1. Ends /\ UNCHANGED <<galera, revs, pods>>
        BY <1>2 DEF ServiceCallFails, PassFails, OperatorRestarts
    <2>2. NamedRevisionsExist'
        BY <2>1 DEF HistoryInv, NamedRevisionsExist
    <2> QED BY <2>1, <2>2, EndsHistory
<1>3. CASE InformerCatchesUp \/ (\E s \in Services : ServiceIsRemoved(s)) \/ UNCHANGED vars
    <2>1. UNCHANGED <<galera, revs, pods, pass>>
        BY <1>3 DEF InformerCatchesUp, ServiceIsRemoved, vars
    <2> QED BY <2>1, OthersHistory
<1>4. CASE UserEdits
    <2>1. UNCHANGED <<revs, pods, pass>>
        BY <1>4 DEF UserEdits
    <2> QED BY <1>4, <2>1, UserEditsType, OthersHistory
<1>5. CASE \E p \in Pods : PodBecomesReady(p) \/ PodIsLost(p)
    BY <1>5, PodStepType, OthersHistory
<1> QED BY <1>1, <1>2, <1>3, <1>4, <1>5 DEF Next

(* When the informers of the resource and of the revisions keep up, no     *)
(* pass ever truncates the history under the current revision of the       *)
(* status or under the revision of a pod, whichever calls fail, however    *)
(* often the operator restarts, the user edits the template or the labels, *)
(* and pods are lost in between (getGaleraRevisions, truncateHistory).     *)
THEOREM HistorySpared ==
    ASSUME Lagging = {}
    PROVE  Spec => []NamedRevisionsExist
<1>1. Spec => []TypeInv
    BY InitType, TypeStep, PTL DEF Spec
<1>2. TypeInv /\ TypeInv' /\ HistoryInv /\ [Next]_vars => HistoryInv'
    BY HistoryStep
<1>3. Spec => []HistoryInv
    BY <1>1, <1>2, InitHistory, PTL DEF Spec
<1>4. HistoryInv => NamedRevisionsExist
    BY DEF HistoryInv
<1> QED BY <1>3, <1>4, PTL
=============================================================================
