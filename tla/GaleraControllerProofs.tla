----------------------- MODULE GaleraControllerProofs -----------------------
(***************************************************************************)
(* What the controller promises, for any number of pods, claims, workers,  *)
(* changes, incarnations of the resource and faults: no change is lost, no *)
(* pass works on objects of another incarnation, and every step is one     *)
(* ClusterWatch allows.                                                    *)
(***************************************************************************)
EXTENDS GaleraController, FiniteSetTheorems, TLAPS

(* The parts of the inductive invariant.                                   *)

(* A key is held by one worker at a time.                                  *)
Serial == \A v, w \in Running : v = w

(* The versions a pass works with are versions the informers have shown.   *)
ListKnown == \A w \in Workers : \A t \in Things : pass[w].list[t] \in 1..seen[t]

(* What does not exist has no controller.                                  *)
DeadUnowned ==
    \A o \in Objects : \A v \in 1..Len(objs[o]) : ~objs[o][v].live => objs[o][v].owner = 0

(* A later incarnation of the resource has a larger uid.                   *)
UidsGrow ==
    \A j \in 1..Len(galera) : \A i \in 1..j :
        galera[j].uid # 0 => galera[i].uid <= galera[j].uid

(* Controllers are incarnations the informer has shown.                    *)
OwnersKnown ==
    \A o \in Objects : \A v \in 1..Len(objs[o]) :
        objs[o][v].owner # 0 => \E i \in 1..seen[Resource] : galera[i].uid = objs[o][v].owner

(* An object never goes back to an earlier incarnation.                    *)
OwnersGrow ==
    \A o \in Objects : \A j \in 1..Len(objs[o]) : \A i \in 1..j :
        objs[o][j].owner # 0 => objs[o][i].owner <= objs[o][j].owner

Active(w) == pass[w].at \notin {"idle", "skip"}

(* No object ever had a later controller than the resource of the pass     *)
(* under way.                                                              *)
LatestSelf(w) ==
    Self(w).uid # 0 /\ \A o \in Objects : \A v \in 1..Len(objs[o]) : objs[o][v].owner <= Self(w).uid
PassIsLatest == \A w \in Workers : Active(w) => LatestSelf(w)

(* What is handed to SyncGalera was controlled by the resource at a time.  *)
MineWasOwned ==
    \A w \in Workers :
        /\ ~Active(w) => pass[w].mine = {}
        /\ \A o \in pass[w].mine : \E v \in 1..Len(objs[o]) : objs[o][v].owner = Self(w).uid

-----------------------------------------------------------------------------
(* Types                                                                   *)

(* The bounds are numbers.                                                 *)
LEMMA Bounds == MaxChanges \in Nat /\ MaxUid \in Nat /\ MaxFaults \in Nat
BY ControllerAssumption

(* The resource a pass works with, and the last versions of everything.    *)
LEMMA LookUps ==
    ASSUME TypeOK, ListKnown
    PROVE  /\ Len(galera) \in Nat \ {0} /\ Live \in Galeras
           /\ seen[Resource] \in 1..Len(galera) /\ CachedGalera \in Galeras
           /\ \A o \in Objects : /\ Len(objs[o]) \in Nat \ {0} /\ objs[o] \in Seq(ObjectStates)
                                 /\ Api(o) \in ObjectStates
                                 /\ seen[o] \in 1..Len(objs[o])
                                 /\ objs[o][seen[o]] \in ObjectStates
           /\ \A w \in Workers : Self(w) \in Galeras
<1>1. galera \in Seq(Galeras) /\ Len(galera) \in Nat \ {0} /\ seen[Resource] \in 1..Len(galera)
  BY DEF TypeOK
<1>2. ASSUME NEW o \in Objects
      PROVE  /\ objs[o] \in Seq(ObjectStates) /\ Len(objs[o]) \in Nat \ {0}
             /\ seen[o] \in 1..Len(objs[o])
  <2>1. objs[o] \in Seq(ObjectStates) /\ seen[o] \in 1..Len(objs[o])
    BY DEF TypeOK
  <2> QED
    BY <2>1
<1>3. ASSUME NEW w \in Workers PROVE Self(w) \in Galeras
  <2>1. pass[w].list[Resource] \in 1..Len(galera)
    BY <1>1 DEF ListKnown, Things
  <2> QED
    BY <1>1, <2>1 DEF Self
<1>4. Live \in Galeras /\ CachedGalera \in Galeras
  BY <1>1 DEF Live, Latest, CachedGalera
<1>5. \A o \in Objects : Api(o) \in ObjectStates /\ objs[o][seen[o]] \in ObjectStates
  BY <1>2 DEF Api, Latest
<1> QED
  BY <1>1, <1>2, <1>3, <1>4, <1>5

(* A worker without a key is well-typed.                                   *)
LEMMA IdleType == Idle \in Passes
BY DEF Idle, Passes, Stages

(* TypeOK in parts.                                                        *)
ApiType ==
    /\ galera \in Seq(Galeras) /\ Len(galera) > 0
    /\ objs \in [Objects -> Seq(ObjectStates)]
    /\ seen \in [Things -> Nat] /\ seen[Resource] \in 1..Len(galera)
    /\ \A o \in Objects : seen[o] \in 1..Len(objs[o])
QueueType == dirty \in BOOLEAN /\ delayed \in BOOLEAN
PassType == pass \in [Workers -> Passes]
CountType ==
    /\ changes \in 0..MaxChanges
    /\ errors \in Nat /\ restarts \in Nat /\ errors + restarts <= MaxFaults
NewsType == news \subseteq Things
TodoType == \A w \in Workers : Claiming(pass[w]) \/ pass[w].todo = {}

(* The parts make up TypeOK.                                               *)
LEMMA TypeParts ==
    TypeOK <=> ApiType /\ QueueType /\ PassType /\ TodoType /\ CountType /\ NewsType
BY DEF TypeOK, ApiType, QueueType, PassType, TodoType, CountType, NewsType

(* The initial state has the types of TypeOK.                              *)
LEMMA TypeInit == Init => TypeOK /\ ListKnown
<1> SUFFICES ASSUME Init PROVE TypeOK /\ ListKnown
  OBVIOUS
<1>1. Resource \in Things /\ Objects \subseteq Things
  BY DEF Things
<1>2. NoGalera \in Galeras /\ NoObject \in ObjectStates
  BY Bounds DEF NoGalera, Galeras, NoObject, ObjectStates, Uids
<1>3. galera \in Seq(Galeras) /\ Len(galera) = 1
  BY <1>2 DEF Init
<1>4. objs \in [Objects -> Seq(ObjectStates)] /\ \A o \in Objects : Len(objs[o]) = 1
  BY <1>2 DEF Init
<1>5. seen \in [Things -> Nat] /\ \A t \in Things : seen[t] = 1
  BY DEF Init
<1>6. PassType /\ \A w \in Workers : \A t \in Things : pass[w].list[t] = 1
  BY <1>1, IdleType DEF Init, Idle, PassType
<1>7. ApiType
  <2>1. ASSUME NEW o \in Objects PROVE seen[o] \in 1..Len(objs[o])
    <3>1. o \in Things
      BY DEF Things
    <3>2. Len(objs[o]) = 1 /\ seen[o] = 1
      BY <1>4, <1>5, <3>1
    <3> QED
      BY <3>2
  <2>2. seen[Resource] \in 1..Len(galera) /\ Len(galera) > 0
    BY <1>1, <1>3, <1>5
  <2> QED
    BY <1>3, <1>4, <1>5, <2>1, <2>2 DEF ApiType
<1>7a. ListKnown
  BY <1>5, <1>6 DEF ListKnown
<1>8. QueueType /\ NewsType
  BY DEF Init, QueueType, NewsType
<1>9. CountType
  BY Bounds DEF Init, CountType
<1>10. TodoType
  BY DEF Init, TodoType, Idle
<1> QED
  BY <1>6, <1>7, <1>7a, <1>8, <1>9, <1>10, TypeParts

-----------------------------------------------------------------------------
(* What a step may do to the versions in the API server                    *)

(* The resource gets a version of the same or of a new incarnation, or is  *)
(* gone.                                                                   *)
GaleraGrows ==
    \/ galera' = galera
    \/ \E g \in Galeras :
          /\ galera' = Append(galera, g)
          /\ g.uid \in {0, Live.uid} \/ \A v \in 1..Len(galera) : galera[v].uid < g.uid

(* An object gets a version with the same controller, with none, or with   *)
(* the resource of a pass that is under way.                               *)
ObjectsGrow ==
    \/ objs' = objs
    \/ \E o \in Objects, new \in ObjectStates :
          /\ objs' = [objs EXCEPT ![o] = Append(@, new)]
          /\ ~new.live => new.owner = 0
          /\ \/ new.owner \in {0, Api(o).owner}
             \/ \E w \in Workers : Active(w) /\ new.owner = Self(w).uid

(* The steps of a pass that call the API server.                           *)
LEMMA EffectGrows ==
    ASSUME TypeOK, ListKnown, NEW w \in Workers, Active(w), pass[w] \in Passes, Effect(w)
    PROVE  GaleraGrows /\ ObjectsGrow
<1>1. /\ Live \in Galeras /\ Self(w) \in Galeras
      /\ \A o \in Objects : Api(o) \in ObjectStates
  BY LookUps
<1>2. CASE \E o \in Objects :
              ~Api(o).live /\ Change /\ NewVersion(o, NewObject(w)) /\ UNCHANGED galera
  <2>1. PICK o \in Objects : NewVersion(o, NewObject(w)) /\ UNCHANGED galera
    BY <1>2
  <2>2. NewObject(w) \in ObjectStates /\ NewObject(w).live /\ NewObject(w).owner = Self(w).uid
    BY <1>1 DEF NewObject, ObjectStates, Galeras
  <2> QED
    BY <2>1, <2>2 DEF NewVersion, GaleraGrows, ObjectsGrow
<1>3. CASE \E o \in pass[w].mine :
              /\ Api(o).live /\ ~Api(o).deleting
              /\ Change /\ NewVersion(o, [Api(o) EXCEPT !.deleting = TRUE])
              /\ UNCHANGED galera
  <2>1. PICK o \in pass[w].mine :
           /\ Api(o).live /\ NewVersion(o, [Api(o) EXCEPT !.deleting = TRUE])
           /\ UNCHANGED galera
    BY <1>3
  <2>2. o \in Objects
    BY DEF Passes
  <2> DEFINE new == [Api(o) EXCEPT !.deleting = TRUE]
  <2>3. new \in ObjectStates /\ new.live /\ new.owner = Api(o).owner
    BY <1>1, <2>1, <2>2 DEF ObjectStates
  <2> QED
    BY <2>1, <2>2, <2>3 DEF NewVersion, GaleraGrows, ObjectsGrow
<1>4. CASE /\ Live.uid = Self(w).uid
           /\ \E m \in {Live.mode, "failed"} :
                  Change /\ galera' = Append(galera, [Live EXCEPT !.mode = m])
           /\ UNCHANGED objs
  <2>1. PICK m \in {Live.mode, "failed"} : galera' = Append(galera, [Live EXCEPT !.mode = m])
    BY <1>4
  <2>2. [Live EXCEPT !.mode = m] \in Galeras /\ [Live EXCEPT !.mode = m].uid = Live.uid
    BY <1>1 DEF Galeras
  <2> QED
    BY <1>4, <2>1, <2>2 DEF GaleraGrows, ObjectsGrow
<1>5. CASE UNCHANGED api
  BY <1>5 DEF api, GaleraGrows, ObjectsGrow
<1> QED
  BY <1>2, <1>3, <1>4, <1>5 DEF Effect

(* Adoption and release.                                                   *)
LEMMA ClaimingGrows ==
    ASSUME TypeOK, ListKnown, NEW w \in Workers, NEW o \in Objects,
           AdoptObject(w, o) \/ ReleaseObject(w, o)
    PROVE  GaleraGrows /\ ObjectsGrow
<1>1. Self(w) \in Galeras /\ Api(o) \in ObjectStates /\ Active(w)
  BY LookUps DEF AdoptObject, ReleaseObject, Active, Claiming
<1>2. galera' = galera
  BY DEF AdoptObject, ReleaseObject
<1>3. CASE objs' = objs
  BY <1>2, <1>3 DEF GaleraGrows, ObjectsGrow
<1>4. CASE objs' # objs
  <2>1. PICK u \in {0, Self(w).uid} :
           Api(o).live /\ objs' = [objs EXCEPT ![o] = Append(@, [Api(o) EXCEPT !.owner = u])]
    <3>1. CASE AdoptObject(w, o)
      BY <1>4, <3>1 DEF AdoptObject, NewVersion
    <3>2. CASE ReleaseObject(w, o)
      <4>1. /\ SameObject(w, o)
            /\ objs' = [objs EXCEPT ![o] = Append(@, [Api(o) EXCEPT !.owner = 0])]
        BY <1>4, <3>2 DEF ReleaseObject, NewVersion
      <4>2. pass[w].list[o] \in 1..seen[o] /\ seen[o] \in 1..Len(objs[o]) /\ Len(objs[o]) \in Nat
        BY LookUps DEF ListKnown, Things
      <4>3. Api(o).live
        BY <4>1, <4>2 DEF SameObject, Api, Latest
      <4> QED
        BY <4>1, <4>3
    <3> QED
      BY <3>1, <3>2
  <2> DEFINE new == [Api(o) EXCEPT !.owner = u]
  <2>2. 0 \in Uids
    BY Bounds DEF Uids
  <2>3. new \in ObjectStates /\ new.live /\ new.owner = u
    BY <1>1, <2>1, <2>2 DEF ObjectStates, Galeras
  <2> QED
    BY <1>1, <1>2, <2>1, <2>3 DEF GaleraGrows, ObjectsGrow
<1> QED
  BY <1>3, <1>4

(* The user and Kubernetes.                                                *)
LEMMA EnvironmentGrows ==
    ASSUME TypeOK, ListKnown,
           \/ UserCreates \/ UserEdits \/ UserDeletes
           \/ \E o \in Objects : ObjectEdited(o) \/ ObjectGone(o)
    PROVE  GaleraGrows /\ ObjectsGrow
<1>1. Live \in Galeras /\ NoGalera \in Galeras /\ NoObject \in ObjectStates
  BY Bounds, LookUps DEF NoGalera, Galeras, NoObject, ObjectStates, Uids
<1>2. CASE UserCreates
  <2>1. PICK u \in 1..MaxUid : /\ \A v \in 1..Len(galera) : galera[v].uid < u
                               /\ galera' = Append(galera, [NoGalera EXCEPT !.uid = u])
    BY <1>2 DEF UserCreates
  <2> DEFINE g == [NoGalera EXCEPT !.uid = u]
  <2>2. u \in Uids
    BY Bounds DEF Uids
  <2>3. g \in Galeras /\ g.uid = u
    BY <2>2 DEF NoGalera, Galeras
  <2>4. galera' = Append(galera, g) /\ objs' = objs
    BY <1>2, <2>1 DEF UserCreates
  <2> HIDE DEF g
  <2> QED
    BY <2>1, <2>3, <2>4 DEF GaleraGrows, ObjectsGrow
<1>3. CASE UserEdits
  <2>1. PICK m \in {"run", "foreign"} : galera' = Append(galera, [Live EXCEPT !.mode = m])
    BY <1>3 DEF UserEdits
  <2>2. [Live EXCEPT !.mode = m] \in Galeras /\ [Live EXCEPT !.mode = m].uid = Live.uid
    BY <1>1 DEF Galeras
  <2> QED
    BY <1>3, <2>1, <2>2 DEF UserEdits, GaleraGrows, ObjectsGrow
<1>4. CASE UserDeletes
  <2>1. /\ [Live EXCEPT !.deleting = TRUE] \in Galeras
        /\ [Live EXCEPT !.deleting = TRUE].uid = Live.uid
    BY <1>1 DEF Galeras
  <2>2. NoGalera.uid = 0
    BY DEF NoGalera
  <2> QED
    BY <1>1, <1>4, <2>1, <2>2 DEF UserDeletes, GaleraGrows, ObjectsGrow
<1>5. ASSUME NEW o \in Objects, ObjectEdited(o) PROVE GaleraGrows /\ ObjectsGrow
  <2>1. Api(o) \in ObjectStates /\ Api(o).live /\ galera' = galera
    BY <1>5, LookUps DEF ObjectEdited
  <2>2. PICK new \in {[Api(o) EXCEPT !.owner = 0], [Api(o) EXCEPT !.match = ~@], Api(o)} :
           objs' = [objs EXCEPT ![o] = Append(@, new)]
    BY <1>5 DEF ObjectEdited, NewVersion
  <2>3. 0 \in Uids
    BY Bounds DEF Uids
  <2>4. new \in ObjectStates /\ new.live /\ new.owner \in {0, Api(o).owner}
    <3>1. CASE new = [Api(o) EXCEPT !.owner = 0]
      BY <2>1, <2>3, <3>1 DEF ObjectStates
    <3>2. CASE new = [Api(o) EXCEPT !.match = ~@]
      BY <2>1, <3>2 DEF ObjectStates
    <3>3. CASE new = Api(o)
      BY <2>1, <3>3 DEF ObjectStates
    <3> QED
      BY <3>1, <3>2, <3>3
  <2> QED
    BY <2>1, <2>2, <2>4 DEF GaleraGrows, ObjectsGrow
<1>6. ASSUME NEW o \in Objects, ObjectGone(o) PROVE GaleraGrows /\ ObjectsGrow
  <2>1. galera' = galera /\ objs' = [objs EXCEPT ![o] = Append(@, NoObject)]
    BY <1>6 DEF ObjectGone, NewVersion
  <2>2. ~NoObject.live /\ NoObject.owner = 0
    BY DEF NoObject
  <2> QED
    BY <1>1, <2>1, <2>2 DEF GaleraGrows, ObjectsGrow
<1> QED
  BY <1>2, <1>3, <1>4, <1>5, <1>6

(* Every step.                                                             *)
LEMMA VersionsGrow ==
    ASSUME TypeOK, ListKnown, [Next]_vars
    PROVE  GaleraGrows /\ ObjectsGrow
<1>1. CASE UNCHANGED api
  BY <1>1 DEF api, GaleraGrows, ObjectsGrow
<1>2. CASE \/ UserCreates \/ UserEdits \/ UserDeletes
           \/ \E o \in Objects : ObjectEdited(o) \/ ObjectGone(o)
  BY <1>2, EnvironmentGrows
<1>3. CASE GaleraEvent \/ Resync \/ AddRateLimited \/ OperatorRestarts
           \/ \E o \in Objects : ObjectEvent(o)
  <2>1. UNCHANGED api
    BY <1>3 DEF GaleraEvent, Resync, AddRateLimited, OperatorRestarts, ObjectEvent
  <2> QED
    BY <1>1, <2>1
<1>4. ASSUME NEW w \in Workers, SyncHandler(w) \/ SyncFails(w) PROVE GaleraGrows /\ ObjectsGrow
  <2>1. UNCHANGED api
    BY <1>4 DEF SyncHandler, SyncFails
  <2> QED
    BY <1>1, <2>1
<1>5. ASSUME NEW w \in Workers, Step(w) PROVE GaleraGrows /\ ObjectsGrow
  <2>1. CASE SyncSkips(w) \/ GetPodsForGalera(w) \/ GetClaimsForGalera(w)
             \/ Claimed(w) \/ NotClaimed(w)
    <3>1. UNCHANGED api
      BY <2>1 DEF SyncSkips, GetPodsForGalera, GetClaimsForGalera, Listing, Claimed, NotClaimed
    <3> QED
      BY <1>1, <3>1
  <2>2. CASE SyncGalera(w)
    <3>1. Active(w) /\ Effect(w) /\ pass[w] \in Passes
      BY <2>2 DEF SyncGalera, Active, TypeOK
    <3> QED
      BY <3>1, EffectGrows
  <2>3. CASE \E o \in Objects : AdoptObject(w, o) \/ ReleaseObject(w, o)
    BY <2>3, ClaimingGrows
  <2> QED
    BY <1>5, <2>1, <2>2, <2>3 DEF Step
<1>6. CASE UNCHANGED vars
  BY <1>1, <1>6 DEF vars
<1> QED
  BY <1>2, <1>3, <1>4, <1>5, <1>6 DEF Next

(* Versions are kept, and what is new at the end is as GaleraGrows says.   *)
LEMMA GaleraVersions ==
    ASSUME TypeOK, GaleraGrows
    PROVE  /\ galera' \in Seq(Galeras) /\ Len(galera) <= Len(galera')
           /\ \A v \in 1..Len(galera) : galera'[v] = galera[v]
           /\ \A v \in 1..Len(galera') :
                 \/ v \in 1..Len(galera)
                 \/ /\ v = Len(galera) + 1
                    /\ \/ galera'[v].uid \in {0, Live.uid}
                       \/ \A i \in 1..Len(galera) : galera[i].uid < galera'[v].uid
<1>1. galera \in Seq(Galeras) /\ Len(galera) \in Nat
  BY DEF TypeOK
<1>2. CASE galera' = galera
  BY <1>1, <1>2
<1>3. CASE galera' # galera
  <2>1. PICK g \in Galeras :
           /\ galera' = Append(galera, g)
           /\ g.uid \in {0, Live.uid} \/ \A v \in 1..Len(galera) : galera[v].uid < g.uid
    BY <1>3 DEF GaleraGrows
  <2>2. /\ galera' \in Seq(Galeras) /\ Len(galera') = Len(galera) + 1
        /\ \A v \in 1..Len(galera) : galera'[v] = galera[v]
        /\ galera'[Len(galera) + 1] = g
    BY <1>1, <2>1
  <2> QED
    BY <1>1, <2>1, <2>2
<1> QED
  BY <1>2, <1>3

(* The same for objects.                                                   *)
LEMMA ObjectVersions ==
    ASSUME TypeOK, ObjectsGrow
    PROVE  /\ objs' \in [Objects -> Seq(ObjectStates)]
           /\ \A c \in Objects : Len(objs[c]) \in Nat /\ Len(objs[c]) <= Len(objs'[c])
           /\ \A c \in Objects : \A v \in 1..Len(objs[c]) : objs'[c][v] = objs[c][v]
           /\ \A c \in Objects : \A v \in 1..Len(objs'[c]) :
                 \/ v \in 1..Len(objs[c])
                 \/ /\ v = Len(objs[c]) + 1
                    /\ ~objs'[c][v].live => objs'[c][v].owner = 0
                    /\ \/ objs'[c][v].owner \in {0, Api(c).owner}
                       \/ \E w \in Workers : Active(w) /\ objs'[c][v].owner = Self(w).uid
<1>1. objs \in [Objects -> Seq(ObjectStates)] /\ \A c \in Objects : Len(objs[c]) \in Nat
  BY DEF TypeOK
<1>2. CASE objs' = objs
  BY <1>1, <1>2
<1>3. CASE objs' # objs
  <2>1. PICK o \in Objects, new \in ObjectStates :
           /\ objs' = [objs EXCEPT ![o] = Append(@, new)]
           /\ ~new.live => new.owner = 0
           /\ \/ new.owner \in {0, Api(o).owner}
              \/ \E w \in Workers : Active(w) /\ new.owner = Self(w).uid
    BY <1>3 DEF ObjectsGrow
  <2>2. objs[o] \in Seq(ObjectStates)
    BY <1>1
  <2>3. /\ Append(objs[o], new) \in Seq(ObjectStates)
        /\ Len(Append(objs[o], new)) = Len(objs[o]) + 1
        /\ \A v \in 1..Len(objs[o]) : Append(objs[o], new)[v] = objs[o][v]
        /\ Append(objs[o], new)[Len(objs[o]) + 1] = new
    BY <2>2
  <2>4. objs'[o] = Append(objs[o], new) /\ \A c \in Objects \ {o} : objs'[c] = objs[c]
    BY <1>1, <2>1
  <2>5. objs' \in [Objects -> Seq(ObjectStates)]
    BY <1>1, <2>1, <2>3
  <2>6. \A c \in Objects : Len(objs'[c]) = IF c = o THEN Len(objs[c]) + 1 ELSE Len(objs[c])
    BY <2>3, <2>4
  <2>7. \A c \in Objects : \A v \in 1..Len(objs[c]) : objs'[c][v] = objs[c][v]
    BY <2>3, <2>4
  <2>8. ASSUME NEW c \in Objects, NEW v \in 1..Len(objs'[c]), v \notin 1..Len(objs[c])
        PROVE  c = o /\ v = Len(objs[c]) + 1 /\ objs'[c][v] = new
    BY <1>1, <2>3, <2>4, <2>6, <2>8
  <2> QED
    BY <1>1, <2>1, <2>5, <2>6, <2>7, <2>8
<1> QED
  BY <1>2, <1>3

-----------------------------------------------------------------------------
(* What a step may do to informers and workers                             *)

(* Informers only move forward, to versions there are.                     *)
LEMMA SeenGrows ==
    ASSUME TypeOK, ListKnown, [Next]_vars
    PROVE  /\ seen' \in [Things -> Nat] /\ \A t \in Things : seen[t] <= seen'[t]
           /\ seen'[Resource] \in 1..Len(galera)
           /\ \A o \in Objects : seen'[o] \in 1..Len(objs[o])
<1>1. /\ Len(galera) \in Nat \ {0} /\ seen[Resource] \in 1..Len(galera)
      /\ \A o \in Objects : Len(objs[o]) \in Nat \ {0} /\ seen[o] \in 1..Len(objs[o])
  BY LookUps
<1>2. seen \in [Things -> Nat] /\ Resource \in Things /\ Resource \notin Objects
      /\ Things = Objects \cup {Resource}
  BY ControllerAssumption DEF TypeOK, Things, Objects
<1>3. CASE UNCHANGED seen
  BY <1>1, <1>2, <1>3
<1>4. CASE GaleraEvent
  <2>1. PICK v \in (seen[Resource] + 1)..Len(galera) : seen' = [seen EXCEPT ![Resource] = v]
    BY <1>4 DEF GaleraEvent
  <2>2. v \in Nat /\ v \in 1..Len(galera) /\ seen[Resource] <= v
    BY <1>1
  <2>3. seen' \in [Things -> Nat] /\ seen'[Resource] = v /\ \A o \in Objects : seen'[o] = seen[o]
    BY <1>2, <2>1, <2>2
  <2>4. \A t \in Things : seen[t] \in Nat
    BY <1>2
  <2> QED
    BY <1>1, <1>2, <2>1, <2>2, <2>3, <2>4
<1>5. ASSUME NEW o \in Objects, ObjectEvent(o)
      PROVE  /\ seen' \in [Things -> Nat] /\ \A t \in Things : seen[t] <= seen'[t]
             /\ seen'[Resource] \in 1..Len(galera)
             /\ \A c \in Objects : seen'[c] \in 1..Len(objs[c])
  <2>1. PICK v \in (seen[o] + 1)..Len(objs[o]) : seen' = [seen EXCEPT ![o] = v]
    BY <1>5 DEF ObjectEvent
  <2>2. v \in Nat /\ v \in 1..Len(objs[o]) /\ seen[o] <= v
    BY <1>1
  <2>3. seen' \in [Things -> Nat] /\ seen'[o] = v /\ \A t \in Things \ {o} : seen'[t] = seen[t]
    BY <1>2, <2>1, <2>2
  <2>4. \A t \in Things : seen[t] \in Nat
    BY <1>2
  <2> QED
    BY <1>1, <1>2, <2>2, <2>3, <2>4
<1>6. CASE OperatorRestarts
  <2>1. seen' = [t \in Things |-> IF t = Resource THEN Len(galera) ELSE Len(objs[t])]
    BY <1>6 DEF OperatorRestarts
  <2>2. seen'[Resource] = Len(galera) /\ \A o \in Objects : seen'[o] = Len(objs[o])
    BY <1>2, <2>1
  <2>3. seen' \in [Things -> Nat]
    BY <1>1, <1>2, <2>1
  <2> QED
    BY <1>1, <1>2, <2>2, <2>3
<1>7. ASSUME NEW w \in Workers, SyncHandler(w) \/ Step(w) \/ SyncFails(w) PROVE UNCHANGED seen
  <2>1. CASE Step(w)
    BY <2>1 DEF Step, SyncSkips, GetPodsForGalera, GetClaimsForGalera, Listing, Claimed,
      NotClaimed, SyncGalera, AdoptObject, ReleaseObject
  <2> QED
    BY <1>7, <2>1 DEF SyncHandler, SyncFails
<1>8. CASE \/ Resync \/ AddRateLimited \/ UserCreates \/ UserEdits \/ UserDeletes
           \/ \E o \in Objects : ObjectEdited(o) \/ ObjectGone(o)
  BY <1>3, <1>8 DEF Resync, AddRateLimited, UserCreates, UserEdits, UserDeletes, ObjectEdited,
    ObjectGone
<1>9. CASE UNCHANGED vars
  BY <1>3, <1>9 DEF vars
<1> QED
  BY <1>3, <1>4, <1>5, <1>6, <1>7, <1>8, <1>9 DEF Next

(* A worker goes on with what it lists and holds.                          *)
Keeps(w) ==
    /\ (pass'[w].at \in {"idle", "skip"}) <=> (pass[w].at \in {"idle", "skip"})
    /\ pass'[w].at = "idle" <=> pass[w].at = "idle"
    /\ pass'[w].list = pass[w].list /\ pass'[w].mine = pass[w].mine

(* An event takes what has changed off the list of what was read.          *)
LEMMA OutdateKeeps ==
    ASSUME TypeOK, NEW t \in Things, Outdate(t)
    PROVE  PassType' /\ \A w \in Workers : Keeps(w) /\ pass'[w].read = pass[w].read \ {t}
                                           /\ pass'[w].at = pass[w].at
<1>1. pass \in [Workers -> Passes]
  BY DEF TypeOK
<1>2. pass' = [w \in Workers |-> [pass[w] EXCEPT !.read = pass[w].read \ {t}]]
  BY DEF Outdate
<1>3. ASSUME NEW w \in Workers
      PROVE  pass'[w] \in Passes /\ Keeps(w) /\ pass'[w].read = pass[w].read \ {t}
             /\ pass'[w].at = pass[w].at
  <2>1. pass[w] \in Passes /\ pass'[w] = [pass[w] EXCEPT !.read = pass[w].read \ {t}]
    BY <1>1, <1>2
  <2>2. /\ pass'[w].at = pass[w].at /\ pass'[w].list = pass[w].list
        /\ pass'[w].mine = pass[w].mine /\ pass'[w].read = pass[w].read \ {t}
    BY <2>1 DEF Passes
  <2>3. pass'[w] \in Passes
    BY <2>1 DEF Passes
  <2> QED
    BY <2>2, <2>3 DEF Keeps
<1>4. pass' \in [Workers -> Passes]
  BY <1>2, <1>3
<1> QED
  BY <1>3, <1>4 DEF PassType

(* A worker lists the pods or the claims.                                  *)
LEMMA ListingStep ==
    ASSUME TypeOK, ListKnown, NEW w \in Workers, NEW Kind \in {Pods, Claims},
           NEW stage \in {"pods", "claims"}, Listing(w, Kind, stage)
    PROVE  /\ PassType'
           /\ \A v \in Workers \ {w} : pass'[v] = pass[v]
           /\ pass'[w].at = stage
           /\ \A t \in Things : pass'[w].list[t] \in {pass[w].list[t], seen[t]}
           /\ pass'[w].list[Resource] = pass[w].list[Resource]
           /\ pass'[w].read = pass[w].read \cup Kind
           /\ pass'[w].mine = pass[w].mine \cup {o \in Kind : Owned(w, objs[o][seen[o]])}
<1>1. pass \in [Workers -> Passes] /\ pass[w] \in Passes
  BY DEF TypeOK
<1>2. Kind \subseteq Objects /\ Objects \subseteq Things /\ Resource \notin Kind
      /\ Resource \in Things
  BY ControllerAssumption DEF Things, Objects
<1>3. \A t \in Things : seen[t] \in Nat
  BY DEF TypeOK
<1> DEFINE list == [t \in Things |-> IF t \in Kind THEN seen[t] ELSE pass[w].list[t]]
           mine == pass[w].mine \cup {o \in Kind : Owned(w, objs[o][seen[o]])}
           todo == {o \in Kind : ToRelease(w, objs[o][seen[o]]) \/ ToAdopt(w, objs[o][seen[o]])}
           new == [pass[w] EXCEPT !.at = stage, !.list = list,
                                  !.read = pass[w].read \cup Kind, !.can = "unknown",
                                  !.mine = mine, !.todo = todo]
<1>4. list \in [Things -> Nat]
  BY <1>1, <1>3 DEF Passes
<1>5. mine \subseteq Objects /\ todo \subseteq Objects /\ pass[w].read \cup Kind \subseteq Things
  BY <1>1, <1>2 DEF Passes
<1>6. pass' = [pass EXCEPT ![w] = new]
  BY DEF Listing
<1>7. \A t \in Things : list[t] \in {pass[w].list[t], seen[t]}
  OBVIOUS
<1>8. list[Resource] = pass[w].list[Resource]
  BY <1>2
<1>9. stage \in Stages
  BY DEF Stages
<1> HIDE DEF list, mine, todo
<1>10. new \in Passes /\ new.at = stage /\ new.list = list /\ new.mine = mine
       /\ new.read = pass[w].read \cup Kind
  BY <1>1, <1>4, <1>5, <1>9 DEF Passes
<1> HIDE DEF new
<1>11. pass'[w] = new /\ pass' \in [Workers -> Passes] /\ \A v \in Workers \ {w} : pass'[v] = pass[v]
  BY <1>1, <1>6, <1>10
<1> QED
  BY <1>7, <1>8, <1>10, <1>11 DEF PassType, mine

(* A worker replaces what it is doing by something of the right type.      *)
LEMMA OneWorker ==
    ASSUME TypeOK, NEW w \in Workers, NEW new \in Passes, pass' = [pass EXCEPT ![w] = new]
    PROVE  PassType' /\ pass'[w] = new /\ \A v \in Workers \ {w} : pass'[v] = pass[v]
BY DEF TypeOK, PassType

(* An orphan is adopted: what is added to the objects of the pass carries  *)
(* its reference.                                                          *)
LEMMA AdoptStep ==
    ASSUME TypeOK, ListKnown, NEW w \in Workers, NEW o \in Objects, AdoptObject(w, o)
    PROVE  /\ PassType' /\ \A v \in Workers \ {w} : pass'[v] = pass[v]
           /\ pass'[w].at = pass[w].at /\ pass[w].at \in {"pods", "claims"}
           /\ pass'[w].list = pass[w].list /\ pass'[w].read = pass[w].read
           /\ pass'[w].mine \subseteq pass[w].mine \cup {o}
           /\ \/ pass'[w].mine = pass[w].mine
              \/ Api(o).owner = Self(w).uid
              \/ objs' = [objs EXCEPT ![o] = Append(@, [Api(o) EXCEPT !.owner = Self(w).uid])]
<1> DEFINE done == CanAdopt(w) /\ Api(o).live /\ SameObject(w, o)
                   /\ Api(o).owner \in {0, Self(w).uid}
           error == ~CanAdopt(w) \/ (Api(o).live /\ ~done)
           can == IF CanAdopt(w) THEN "yes" ELSE "no"
           mine == IF done THEN pass[w].mine \cup {o} ELSE pass[w].mine
           failed == pass[w].failed \/ error
           new == [pass[w] EXCEPT !.todo = pass[w].todo \ {o}, !.can = can, !.mine = mine,
                                  !.failed = failed]
<1>1. pass[w] \in Passes
  BY DEF TypeOK
<1>2. /\ pass[w].at \in {"pods", "claims"} /\ pass' = [pass EXCEPT ![w] = new]
      /\ done /\ Api(o).owner = 0 =>
            objs' = [objs EXCEPT ![o] = Append(@, [Api(o) EXCEPT !.owner = Self(w).uid])]
  BY DEF AdoptObject, NewVersion, Claiming
<1>3. can \in {"unknown", "yes", "no"} /\ failed \in BOOLEAN
  OBVIOUS
<1>4. mine \subseteq Objects /\ pass[w].todo \ {o} \subseteq Objects
  BY <1>1 DEF Passes
<1>5. mine = pass[w].mine \/ (done /\ mine = pass[w].mine \cup {o})
  OBVIOUS
<1> HIDE DEF can, mine, failed
<1>6. /\ new \in Passes /\ new.at = pass[w].at /\ new.list = pass[w].list
      /\ new.mine = mine /\ new.read = pass[w].read
  BY <1>1, <1>3, <1>4 DEF Passes
<1> HIDE DEF new
<1>7. PassType' /\ pass'[w] = new /\ \A v \in Workers \ {w} : pass'[v] = pass[v]
  BY <1>2, <1>6, OneWorker
<1> QED
  BY <1>2, <1>5, <1>6, <1>7

(* The other steps of a worker that holds the key.                         *)
LEMMA GoesOn ==
    ASSUME TypeOK, NEW w \in Workers,
           Claimed(w) \/ \E o \in Objects : ReleaseObject(w, o)
    PROVE  /\ PassType' /\ \A v \in Workers \ {w} : pass'[v] = pass[v]
           /\ Keeps(w) /\ pass'[w].read = pass[w].read
           /\ pass[w].at \in {"pods", "claims"}
           /\ pass'[w].at \in {pass[w].at, IF pass[w].at = "pods" THEN "listed" ELSE "sync"}
<1>1. pass[w] \in Passes /\ pass \in [Workers -> Passes]
  BY DEF TypeOK
<1>2. CASE Claimed(w)
  <2> DEFINE at == IF pass[w].at = "pods" THEN "listed" ELSE "sync"
             new == [pass[w] EXCEPT !.at = at]
  <2>1. pass' = [pass EXCEPT ![w] = new] /\ pass[w].at \in {"pods", "claims"}
    BY <1>1, <1>2 DEF Claimed, Claiming
  <2>2. at \in {"listed", "sync"}
    OBVIOUS
  <2> HIDE DEF at
  <2>3. /\ new \in Passes /\ new.at = at /\ new.list = pass[w].list
        /\ new.mine = pass[w].mine /\ new.read = pass[w].read
    BY <1>1, <2>2 DEF Passes, Stages
  <2> HIDE DEF new
  <2>4. PassType' /\ pass'[w] = new /\ \A v \in Workers \ {w} : pass'[v] = pass[v]
    BY <2>1, <2>3, OneWorker
  <2> QED
    BY <2>1, <2>2, <2>3, <2>4 DEF Keeps, at
<1>3. ASSUME NEW o \in Objects, ReleaseObject(w, o)
      PROVE  /\ PassType' /\ \A v \in Workers \ {w} : pass'[v] = pass[v]
             /\ Keeps(w) /\ pass'[w].read = pass[w].read
             /\ pass[w].at \in {"pods", "claims"} /\ pass'[w].at = pass[w].at
  <2> DEFINE new == [pass[w] EXCEPT !.todo = pass[w].todo \ {o}]
  <2>1. pass' = [pass EXCEPT ![w] = new] /\ pass[w].at \in {"pods", "claims"}
    BY <1>1, <1>3 DEF ReleaseObject, Claiming
  <2>2. /\ new \in Passes /\ new.at = pass[w].at /\ new.list = pass[w].list
        /\ new.mine = pass[w].mine /\ new.read = pass[w].read
    BY <1>1 DEF Passes
  <2> HIDE DEF new
  <2>3. PassType' /\ pass'[w] = new /\ \A v \in Workers \ {w} : pass'[v] = pass[v]
    BY <2>1, <2>2, OneWorker
  <2> QED
    BY <2>1, <2>2, <2>3 DEF Keeps
<1> QED
  BY <1>2, <1>3

(* A worker takes the key.                                                 *)
LEMMA HandlerStep ==
    ASSUME TypeOK, ListKnown, NEW w \in Workers, SyncHandler(w)
    PROVE  /\ PassType' /\ \A v \in Workers \ {w} : pass'[v] = pass[v]
           /\ dirty /\ Running = {}
           /\ pass'[w].at = IF Ignored THEN "skip" ELSE "start"
           /\ pass'[w].list[Resource] = seen[Resource]
           /\ \A t \in Things : pass'[w].list[t] \in {1, seen[t]}
           /\ pass'[w].read = IF Ignored THEN Things ELSE {Resource}
           /\ pass'[w].mine = {}
<1> DEFINE at == IF Ignored THEN "skip" ELSE "start"
           read == IF Ignored THEN Things ELSE {Resource}
           new == [Idle EXCEPT !.at = at, !.list[Resource] = seen[Resource], !.read = read]
<1>1. pass' = [pass EXCEPT ![w] = new] /\ dirty /\ Running = {}
  BY DEF SyncHandler, Get
<1>2. at \in {"skip", "start"} /\ read \subseteq Things /\ Resource \in Things
      /\ seen[Resource] \in Nat
  BY DEF Things, TypeOK
<1> HIDE DEF at, read
<1>3. /\ new.at = at /\ new.read = read /\ new.mine = {}
      /\ new.list = [[t \in Things |-> 1] EXCEPT ![Resource] = seen[Resource]]
      /\ new \in Passes
  BY <1>2 DEF Idle, Passes, Stages
<1>4. /\ new.list[Resource] = seen[Resource] /\ \A t \in Things : new.list[t] \in {1, seen[t]}
  BY <1>2, <1>3
<1> HIDE DEF new
<1>5. PassType' /\ pass'[w] = new /\ \A v \in Workers \ {w} : pass'[v] = pass[v]
  BY <1>1, <1>3, OneWorker
<1> QED
  BY <1>1, <1>3, <1>4, <1>5 DEF at, read

(* A worker is done with the key.                                          *)
LEMMA EndStep ==
    ASSUME TypeOK, NEW w \in Workers,
           SyncSkips(w) \/ NotClaimed(w) \/ SyncGalera(w) \/ SyncFails(w)
    PROVE  /\ PassType' /\ \A v \in Workers \ {w} : pass'[v] = pass[v]
           /\ pass'[w] = Idle /\ pass[w].at # "idle"
<1>1. pass' = [pass EXCEPT ![w] = Idle] /\ pass[w].at # "idle"
  BY DEF SyncSkips, NotClaimed, SyncGalera, SyncFails, Succeeds, Fails, Claiming
<1> QED
  BY <1>1, IdleType, OneWorker

(* What may happen to one worker in a step.                                *)
WorkerStep(w) ==
    \/ Keeps(w)
    \/ pass'[w] = Idle
    \/ SyncHandler(w)
    \/ GetPodsForGalera(w) \/ GetClaimsForGalera(w)
    \/ \E o \in Objects : AdoptObject(w, o)

(* A worker that does nothing.                                             *)
LEMMA UnchangedKeeps == ASSUME NEW w, pass'[w] = pass[w] PROVE Keeps(w)
BY DEF Keeps

(* Every step is one of these for every worker.                            *)
LEMMA WorkerSteps ==
    ASSUME TypeOK, ListKnown, [Next]_vars
    PROVE  PassType' /\ \A w \in Workers : WorkerStep(w)
<1>1. CASE UNCHANGED pass
  BY <1>1, UnchangedKeeps DEF TypeOK, PassType, WorkerStep
<1>2. CASE GaleraEvent
  <2>1. Outdate(Resource) \/ UNCHANGED pass
    BY <1>2 DEF GaleraEvent
  <2> QED
    BY <1>1, <2>1, OutdateKeeps DEF Things, WorkerStep
<1>3. ASSUME NEW o \in Objects, ObjectEvent(o) PROVE PassType' /\ \A w \in Workers : WorkerStep(w)
  <2>1. Outdate(o) \/ UNCHANGED pass
    BY <1>3 DEF ObjectEvent
  <2> QED
    BY <1>1, <2>1, OutdateKeeps DEF Things, WorkerStep
<1>4. CASE OperatorRestarts
  BY <1>4, IdleType DEF OperatorRestarts, PassType, WorkerStep
<1>5. CASE \/ Resync \/ AddRateLimited \/ UserCreates \/ UserEdits \/ UserDeletes
           \/ \E o \in Objects : ObjectEdited(o) \/ ObjectGone(o)
  BY <1>1, <1>5 DEF Resync, AddRateLimited, UserCreates, UserEdits, UserDeletes, ObjectEdited,
    ObjectGone
<1>6. ASSUME NEW w \in Workers, SyncHandler(w) \/ Step(w) \/ SyncFails(w)
      PROVE  PassType' /\ \A v \in Workers : WorkerStep(v)
  <2>1. CASE SyncHandler(w)
    BY <2>1, HandlerStep, UnchangedKeeps DEF WorkerStep
  <2>2. CASE SyncSkips(w) \/ NotClaimed(w) \/ SyncGalera(w) \/ SyncFails(w)
    BY <2>2, EndStep, UnchangedKeeps DEF WorkerStep
  <2>3. CASE GetPodsForGalera(w)
    <3>1. Listing(w, Pods, "pods")
      BY <2>3 DEF GetPodsForGalera
    <3>2. PassType' /\ \A v \in Workers \ {w} : pass'[v] = pass[v]
      BY <3>1, ListingStep
    <3> QED
      BY <2>3, <3>2, UnchangedKeeps DEF WorkerStep
  <2>4. CASE GetClaimsForGalera(w)
    <3>1. Listing(w, Claims, "claims")
      BY <2>4 DEF GetClaimsForGalera
    <3>2. PassType' /\ \A v \in Workers \ {w} : pass'[v] = pass[v]
      BY <3>1, ListingStep
    <3> QED
      BY <2>4, <3>2, UnchangedKeeps DEF WorkerStep
  <2>5. CASE Claimed(w) \/ \E o \in Objects : ReleaseObject(w, o)
    BY <2>5, GoesOn, UnchangedKeeps DEF WorkerStep
  <2>6. ASSUME NEW o \in Objects, AdoptObject(w, o)
        PROVE  PassType' /\ \A v \in Workers : WorkerStep(v)
    <3>1. PassType' /\ \A v \in Workers \ {w} : pass'[v] = pass[v]
      BY <2>6, AdoptStep
    <3> QED
      BY <2>6, <3>1, UnchangedKeeps DEF WorkerStep
  <2> QED
    BY <1>6, <2>1, <2>2, <2>3, <2>4, <2>5, <2>6 DEF Step
<1>7. CASE UNCHANGED vars
  BY <1>1, <1>7 DEF vars
<1> QED
  BY <1>2, <1>3, <1>4, <1>5, <1>6, <1>7 DEF Next

(* One worker goes on, and claims or has nothing left to claim.            *)
LEMMA OneClaims ==
    ASSUME TypeOK, NEW w \in Workers, NEW new, pass' = [pass EXCEPT ![w] = new],
           Claiming(new) \/ new.todo = {}
    PROVE  TodoType'
<1>1. pass \in [Workers -> Passes] /\ TodoType
  BY DEF TypeOK, TodoType
<1> QED
  BY <1>1 DEF TodoType, Claiming

(* Only a pass that claims has objects left to adopt or to release.        *)
LEMMA TodoNext ==
    ASSUME TypeOK, ListKnown, [Next]_vars
    PROVE  TodoType'
<1>1. pass \in [Workers -> Passes] /\ TodoType
  BY DEF TypeOK, TodoType
<1>2. CASE UNCHANGED pass
  BY <1>1, <1>2 DEF TodoType, Claiming
<1>3. ASSUME NEW t, Outdate(t) PROVE TodoType'
  <2>1. ASSUME NEW w \in Workers PROVE Claiming(pass'[w]) \/ pass'[w].todo = {}
    <3>1. pass[w] \in Passes /\ pass'[w] = [pass[w] EXCEPT !.read = pass[w].read \ {t}]
      BY <1>1, <1>3 DEF Outdate
    <3>2. pass'[w].at = pass[w].at /\ pass'[w].todo = pass[w].todo
      BY <3>1 DEF Passes
    <3> QED
      BY <1>1, <3>2 DEF TodoType, Claiming
  <2> QED
    BY <2>1 DEF TodoType, Claiming
<1>4. CASE GaleraEvent \/ \E o \in Objects : ObjectEvent(o)
  <2>1. UNCHANGED pass \/ \E t \in Things : Outdate(t)
    BY <1>4 DEF GaleraEvent, ObjectEvent, Things
  <2> QED
    BY <1>2, <1>3, <2>1
<1>5. CASE OperatorRestarts
  BY <1>5 DEF OperatorRestarts, TodoType, Idle
<1>6. CASE \/ Resync \/ AddRateLimited \/ UserCreates \/ UserEdits \/ UserDeletes
           \/ \E o \in Objects : ObjectEdited(o) \/ ObjectGone(o)
  BY <1>2, <1>6 DEF Resync, AddRateLimited, UserCreates, UserEdits, UserDeletes, ObjectEdited,
    ObjectGone
<1>7. ASSUME NEW w \in Workers, SyncHandler(w) \/ Step(w) \/ SyncFails(w) PROVE TodoType'
  <2>1. pass[w] \in Passes
    BY <1>1
  <2>2. CASE SyncHandler(w)
    <3> DEFINE new == [Idle EXCEPT !.at = IF Ignored THEN "skip" ELSE "start",
                                   !.list[Resource] = seen[Resource],
                                   !.read = IF Ignored THEN Things ELSE {Resource}]
    <3>1. pass' = [pass EXCEPT ![w] = new]
      BY <2>2 DEF SyncHandler
    <3>2. new.todo = {}
      BY DEF Idle
    <3> HIDE DEF new
    <3> QED
      BY <3>1, <3>2, OneClaims
  <2>3. CASE SyncSkips(w) \/ NotClaimed(w) \/ SyncGalera(w) \/ SyncFails(w)
    <3>1. pass' = [pass EXCEPT ![w] = Idle]
      BY <2>3 DEF SyncSkips, NotClaimed, SyncGalera, SyncFails, Succeeds, Fails
    <3>2. Idle.todo = {}
      BY DEF Idle
    <3> QED
      BY <3>1, <3>2, OneClaims
  <2>4. ASSUME NEW Kind \in {Pods, Claims}, NEW stage \in {"pods", "claims"}, Listing(w, Kind, stage)
        PROVE  TodoType'
    <3>1. pass'[w].at = stage /\ \A v \in Workers \ {w} : pass'[v] = pass[v]
      BY <2>4, ListingStep
    <3> QED
      BY <1>1, <3>1 DEF TodoType, Claiming
  <2>5. CASE GetPodsForGalera(w) \/ GetClaimsForGalera(w)
    BY <2>4, <2>5 DEF GetPodsForGalera, GetClaimsForGalera
  <2>6. CASE Claimed(w)
    <3> DEFINE at == IF pass[w].at = "pods" THEN "listed" ELSE "sync"
               new == [pass[w] EXCEPT !.at = at]
    <3>1. pass' = [pass EXCEPT ![w] = new] /\ pass[w].todo = {}
      BY <1>1, <2>1, <2>6 DEF Claimed
    <3> HIDE DEF at
    <3>2. new.todo = {}
      BY <2>1, <3>1 DEF Passes
    <3> HIDE DEF new
    <3> QED
      BY <3>1, <3>2, OneClaims
  <2>7. ASSUME NEW o \in Objects, AdoptObject(w, o) PROVE TodoType'
    <3>1. /\ pass'[w].at = pass[w].at /\ pass[w].at \in {"pods", "claims"}
          /\ \A v \in Workers \ {w} : pass'[v] = pass[v]
      BY <2>7, AdoptStep
    <3> QED
      BY <1>1, <3>1 DEF TodoType, Claiming
  <2>8. ASSUME NEW o \in Objects, ReleaseObject(w, o) PROVE TodoType'
    <3> DEFINE new == [pass[w] EXCEPT !.todo = pass[w].todo \ {o}]
    <3>1. pass' = [pass EXCEPT ![w] = new] /\ Claiming(pass[w])
      BY <1>1, <2>1, <2>8 DEF ReleaseObject
    <3>2. Claiming(new)
      BY <2>1, <3>1 DEF Passes, Claiming
    <3> HIDE DEF new
    <3> QED
      BY <3>1, <3>2, OneClaims
  <2> QED
    BY <1>7, <2>2, <2>3, <2>5, <2>6, <2>7, <2>8 DEF Step
<1>8. CASE UNCHANGED vars
  BY <1>2, <1>8 DEF vars
<1> QED
  BY <1>4, <1>5, <1>6, <1>7, <1>8 DEF Next

(* Lists only name versions the informers have shown.                      *)
LEMMA ListKnownNext ==
    ASSUME TypeOK, ListKnown, [Next]_vars
    PROVE  ListKnown'
<1> SUFFICES ASSUME NEW w \in Workers, NEW t \in Things
             PROVE  pass'[w].list[t] \in 1..seen'[t]
  BY DEF ListKnown
<1>1. WorkerStep(w) /\ seen'[t] \in Nat /\ seen[t] \in Nat /\ seen[t] <= seen'[t]
  BY WorkerSteps, SeenGrows DEF TypeOK
<1>2. pass[w].list[t] \in 1..seen[t]
  BY DEF ListKnown
<1>3. pass'[w].list[t] \in {1, pass[w].list[t], seen[t]}
  <2>1. CASE Keeps(w)
    BY <2>1 DEF Keeps
  <2>2. CASE pass'[w] = Idle
    BY <2>2 DEF Idle
  <2>3. CASE SyncHandler(w)
    BY <2>3, HandlerStep
  <2>4. CASE GetPodsForGalera(w)
    <3>1. Listing(w, Pods, "pods")
      BY <2>4 DEF GetPodsForGalera
    <3> QED
      BY <3>1, ListingStep
  <2>5. CASE GetClaimsForGalera(w)
    <3>1. Listing(w, Claims, "claims")
      BY <2>5 DEF GetClaimsForGalera
    <3> QED
      BY <3>1, ListingStep
  <2>6. CASE \E o \in Objects : AdoptObject(w, o)
    BY <2>6, AdoptStep
  <2> QED
    BY <1>1, <2>1, <2>2, <2>3, <2>4, <2>5, <2>6 DEF WorkerStep
<1> QED
  BY <1>1, <1>2, <1>3

(* The counters, the queue and the news.                                   *)
LEMMA CountsNext ==
    ASSUME TypeOK, ListKnown, [Next]_vars
    PROVE  CountType' /\ QueueType' /\ NewsType'
<1>1. CountType /\ QueueType /\ NewsType
  BY TypeParts
<1>2. CountType'
  <2>1. CASE UNCHANGED <<changes, errors, restarts>>
    BY <1>1, <2>1 DEF CountType
  <2>2. CASE Change /\ UNCHANGED <<errors, restarts>>
    BY <1>1, <2>2, Bounds DEF CountType, Change
  <2>3. CASE /\ changes' = changes /\ errors + restarts < MaxFaults
             /\ \/ errors' = errors + 1 /\ restarts' = restarts
                \/ restarts' = restarts + 1 /\ errors' = errors
    BY <1>1, <2>3, Bounds DEF CountType
  <2>4. ASSUME NEW w \in Workers, SyncHandler(w) \/ Step(w) \/ SyncFails(w) PROVE CountType'
    <3>1. CASE SyncHandler(w)
      BY <2>1, <3>1 DEF SyncHandler, api
    <3>2. CASE SyncFails(w)
      BY <2>3, <3>2 DEF SyncFails, api
    <3>3. CASE SyncGalera(w)
      BY <2>1, <2>2, <3>3 DEF SyncGalera, Effect, api
    <3> QED
      BY <2>1, <2>4, <3>1, <3>2, <3>3 DEF Step, SyncSkips, GetPodsForGalera, GetClaimsForGalera,
        Listing, Claimed, NotClaimed, AdoptObject, ReleaseObject, api
  <2>5. CASE GaleraEvent \/ Resync \/ AddRateLimited \/ \E o \in Objects : ObjectEvent(o)
    BY <2>1, <2>5 DEF GaleraEvent, Resync, AddRateLimited, ObjectEvent, api
  <2>6. CASE \/ UserCreates \/ UserEdits \/ UserDeletes
             \/ \E o \in Objects : ObjectEdited(o) \/ ObjectGone(o)
    BY <2>2, <2>6 DEF UserCreates, UserEdits, UserDeletes, ObjectEdited, ObjectGone
  <2>7. CASE OperatorRestarts
    BY <2>3, <2>7 DEF OperatorRestarts, api
  <2>8. CASE UNCHANGED vars
    BY <2>1, <2>8 DEF vars, api
  <2> QED
    BY <2>4, <2>5, <2>6, <2>7, <2>8 DEF Next
<1>3. QueueType'
  <2>1. ASSUME NEW w \in Workers, SyncHandler(w) \/ Step(w) \/ SyncFails(w) PROVE QueueType'
    BY <1>1, <2>1, Zenon DEF QueueType, SyncHandler, Get, SyncFails, Fails, Step, SyncSkips,
      Succeeds, GetPodsForGalera, GetClaimsForGalera, Listing, Claimed, NotClaimed, SyncGalera,
      AdoptObject, ReleaseObject, queue
  <2>2. ASSUME NEW o \in Objects, ObjectEvent(o) \/ ObjectEdited(o) \/ ObjectGone(o)
        PROVE  QueueType'
    <3>1. ASSUME NEW b, dirty' = (dirty \/ b), UNCHANGED delayed PROVE QueueType'
      BY <1>1, <3>1 DEF QueueType
    <3> QED
      BY <1>1, <2>2, <3>1 DEF QueueType, ObjectEvent, ObjectEdited, ObjectGone, queue
  <2>3. CASE GaleraEvent \/ Resync \/ AddRateLimited \/ UserCreates \/ UserEdits \/ UserDeletes
    BY <1>1, <2>3 DEF QueueType, GaleraEvent, Resync, AddRateLimited, UserCreates, UserEdits,
      UserDeletes, queue
  <2>4. CASE OperatorRestarts
    BY <2>4 DEF QueueType, OperatorRestarts
  <2>5. CASE UNCHANGED vars
    BY <1>1, <2>5 DEF QueueType, vars, queue
  <2> QED
    BY <2>1, <2>2, <2>3, <2>4, <2>5 DEF Next
<1>4. NewsType'
  <2>1. CASE news' \subseteq news
    BY <1>1, <2>1 DEF NewsType
  <2>2. CASE GaleraEvent \/ \E o \in Objects : ObjectEvent(o)
    BY <1>1, <2>2 DEF NewsType, GaleraEvent, ObjectEvent, Outdate, Things
  <2>3. CASE OperatorRestarts
    BY <2>3 DEF NewsType, OperatorRestarts
  <2>4. ASSUME NEW w \in Workers, SyncHandler(w) \/ Step(w) \/ SyncFails(w)
        PROVE  news' \subseteq news
    BY <2>4 DEF SyncHandler, SyncFails, Fails, Step, SyncSkips, Succeeds, GetPodsForGalera,
      GetClaimsForGalera, Listing, Claimed, NotClaimed, SyncGalera, AdoptObject, ReleaseObject
  <2>5. CASE \/ Resync \/ AddRateLimited \/ UserCreates \/ UserEdits \/ UserDeletes
             \/ \E o \in Objects : ObjectEdited(o) \/ ObjectGone(o)
    BY <2>1, <2>5 DEF Resync, AddRateLimited, UserCreates, UserEdits, UserDeletes, ObjectEdited,
      ObjectGone
  <2>6. CASE UNCHANGED vars
    BY <2>1, <2>6 DEF vars
  <2> QED
    BY <2>1, <2>2, <2>3, <2>4, <2>5, <2>6 DEF Next
<1> QED
  BY <1>2, <1>3, <1>4

(* Types, and the versions the passes work with.                           *)
LEMMA WellTyped == Spec => [](TypeOK /\ ListKnown)
<1>1. TypeOK /\ ListKnown /\ [Next]_vars => (TypeOK /\ ListKnown)'
  <2> SUFFICES ASSUME TypeOK, ListKnown, [Next]_vars PROVE TypeOK' /\ ListKnown'
    OBVIOUS
  <2>1. GaleraGrows /\ ObjectsGrow
    BY VersionsGrow
  <2>2. galera' \in Seq(Galeras) /\ Len(galera) <= Len(galera') /\ Len(galera) \in Nat \ {0}
        /\ Len(galera') \in Nat
    BY <2>1, GaleraVersions, LookUps
  <2>3. /\ objs' \in [Objects -> Seq(ObjectStates)]
        /\ \A o \in Objects : Len(objs[o]) <= Len(objs'[o]) /\ Len(objs[o]) \in Nat
                              /\ Len(objs'[o]) \in Nat
    <3>1. /\ objs' \in [Objects -> Seq(ObjectStates)]
          /\ \A o \in Objects : Len(objs[o]) <= Len(objs'[o]) /\ Len(objs[o]) \in Nat
      BY <2>1, ObjectVersions
    <3> QED
      BY <3>1
  <2>4. ApiType'
    BY <2>2, <2>3, SeenGrows DEF ApiType
  <2>5. PassType' /\ CountType' /\ QueueType' /\ NewsType'
    BY WorkerSteps, CountsNext
  <2>6. TypeOK'
    BY <2>4, <2>5, TodoNext DEF TypeOK, ApiType, QueueType, PassType, TodoType, CountType, NewsType
  <2> QED
    BY <2>6, ListKnownNext
<1> QED
  BY <1>1, TypeInit, PTL DEF Spec

(* Every version an informer shows exists, and all bookkeeping of the      *)
(* queue and the workers is well-typed, for any number of objects,         *)
(* workers, changes, incarnations and faults (processNextWorkItem,         *)
(* syncHandler, the event handlers).                                       *)
THEOREM ControllerTypeCorrect == Spec => []TypeOK
BY WellTyped, PTL

-----------------------------------------------------------------------------
(* No change is lost                                                       *)

(* The workers that hold the key, after a step of one of them.             *)
LEMMA RunningKept ==
    ASSUME \A w \in Workers : pass'[w].at = "idle" <=> pass[w].at = "idle"
    PROVE  Running' = Running
BY DEF Running

(* No step lets two workers hold the key.                                  *)
LEMMA SerialNext ==
    ASSUME TypeOK, ListKnown, Serial, [Next]_vars
    PROVE  Serial'
<1> SUFFICES ASSUME NEW v \in Workers, NEW w \in Workers, v # w,
                    pass'[v].at # "idle", pass'[w].at # "idle"
             PROVE  FALSE
  BY DEF Serial, Running
<1>1. \A u \in Workers : pass'[u].at # "idle" => pass[u].at # "idle" \/ SyncHandler(u)
  <2> SUFFICES ASSUME NEW u \in Workers, pass'[u].at # "idle", ~SyncHandler(u)
               PROVE  pass[u].at # "idle"
    OBVIOUS
  <2>1. WorkerStep(u)
    BY WorkerSteps
  <2> QED
    <3>1. pass'[u] # Idle
      BY DEF Idle
    <3>2. GetPodsForGalera(u) \/ GetClaimsForGalera(u) => pass[u].at # "idle"
      BY DEF GetPodsForGalera, GetClaimsForGalera
    <3>3. (\E o \in Objects : AdoptObject(u, o)) => pass[u].at # "idle"
      BY AdoptStep
    <3> QED
      BY <2>1, <3>1, <3>2, <3>3 DEF WorkerStep, Keeps
<1>2. \A u \in Workers : SyncHandler(u) => \A x \in Workers \ {u} : pass'[x].at = "idle"
  BY HandlerStep DEF Running
<1> QED
  BY <1>1, <1>2 DEF Serial, Running

(* A change of something the cluster controls puts the key in the queue.   *)
LEMMA ChangesAreQueued ==
    ASSUME TypeOK, ListKnown, DeadUnowned, NEW o \in Objects,
           NEW v \in 1..Len(objs[o]), Concerns(o, v)
    PROVE  Enqueues(o, v)
<1> DEFINE old == objs[o][seen[o]]
           cur == objs[o][v]
<1>1. seen[o] \in 1..Len(objs[o]) /\ old \in ObjectStates /\ cur \in ObjectStates
  BY LookUps
<1>2. (~old.live => old.owner = 0) /\ (~cur.live => cur.owner = 0)
  BY <1>1 DEF DeadUnowned
<1>3. CachedGalera.uid # 0 /\ (CachedGalera.uid = old.owner \/ CachedGalera.uid = cur.owner)
  BY DEF Concerns
<1>4. CASE ~old.live
  <2>1. cur.live /\ cur.owner = CachedGalera.uid
    BY <1>2, <1>3, <1>4
  <2>2. Added(cur)
    BY <1>3, <2>1 DEF Added, Deleted, ResolveControllerRef
  <2> QED
    BY <1>4, <2>1, <2>2 DEF Enqueues, AddPod, AddClaim, Objects
<1>5. CASE old.live /\ cur.live
  <2>1. Updated(old, cur)
    BY <1>3 DEF Updated, ResolveControllerRef
  <2> QED
    BY <1>5, <2>1 DEF Enqueues, UpdatePod, UpdateClaim, Objects
<1>6. CASE old.live /\ ~cur.live
  <2>1. Deleted(old)
    BY <1>2, <1>3, <1>6 DEF Deleted, ResolveControllerRef
  <2> QED
    BY <1>6, <2>1 DEF Enqueues, DeletePod, DeleteClaim, Objects
<1> QED
  BY <1>4, <1>5, <1>6

(* No step gives a controller to what does not exist.                      *)
LEMMA DeadUnownedNext ==
    ASSUME TypeOK, ListKnown, DeadUnowned, [Next]_vars
    PROVE  DeadUnowned'
<1> SUFFICES ASSUME NEW o \in Objects, NEW v \in 1..Len(objs'[o]), ~objs'[o][v].live
             PROVE  objs'[o][v].owner = 0
  BY DEF DeadUnowned
<1>1. ObjectsGrow
  BY VersionsGrow
<1>2. /\ \A i \in 1..Len(objs[o]) : objs'[o][i] = objs[o][i]
      /\ \/ v \in 1..Len(objs[o])
         \/ ~objs'[o][v].live => objs'[o][v].owner = 0
  BY <1>1, ObjectVersions
<1> QED
  BY <1>2 DEF DeadUnowned

(* The worker that holds the key has read, or will read, all news.         *)
Covers(w) == pass[w].at # "idle" /\ \A t \in news : t \in pass[w].read \/ NotYetRead(w, t)

(* No step loses a change.                                                 *)
LEMMA NoLostChangeNext ==
    ASSUME TypeOK, ListKnown, Serial, DeadUnowned, NoLostChange, [Next]_vars
    PROVE  NoLostChange'
<1>1. NoLostChange <=> (news # {} => dirty \/ delayed \/ \E w \in Workers : Covers(w))
  BY DEF NoLostChange, Covers, Running
<1>2. SUFFICES ASSUME news' # {}, ~dirty', ~delayed' PROVE \E w \in Workers : Covers(w)'
  BY DEF NoLostChange, Covers, Running, NotYetRead
<1>3. CASE UNCHANGED <<dirty, delayed, pass, news>>
  BY <1>1, <1>2, <1>3 DEF Covers, NotYetRead
<1>4. CASE GaleraEvent \/ Resync \/ AddRateLimited
  <2>1. dirty' \/ UNCHANGED <<dirty, delayed, pass, news>>
    BY <1>4 DEF GaleraEvent, Resync, AddRateLimited
  <2> QED
    BY <1>2, <1>3, <2>1
<1>5. CASE OperatorRestarts
  BY <1>2, <1>5 DEF OperatorRestarts
<1>6. ASSUME NEW o \in Objects, ObjectEvent(o) PROVE \E w \in Workers : Covers(w)'
  <2>1. PICK v \in (seen[o] + 1)..Len(objs[o]) :
           /\ dirty' = (dirty \/ Enqueues(o, v)) /\ UNCHANGED delayed
           /\ IF Concerns(o, v) THEN Outdate(o) ELSE UNCHANGED <<news, pass>>
    BY <1>6 DEF ObjectEvent
  <2>2. v \in 1..Len(objs[o])
    BY LookUps
  <2>3. ~Concerns(o, v) /\ ~dirty
    BY <1>2, <2>1, <2>2, ChangesAreQueued
  <2> QED
    BY <1>1, <1>2, <2>1, <2>3 DEF Covers, NotYetRead
<1>7. CASE \/ UserCreates \/ UserEdits \/ UserDeletes
           \/ \E o \in Objects : ObjectEdited(o) \/ ObjectGone(o)
  BY <1>3, <1>7 DEF UserCreates, UserEdits, UserDeletes, ObjectEdited, ObjectGone, queue
<1>8. ASSUME NEW w \in Workers, SyncHandler(w) PROVE Covers(w)'
  <2>1. /\ pass'[w].at = (IF Ignored THEN "skip" ELSE "start")
        /\ pass'[w].read = (IF Ignored THEN Things ELSE {Resource})
        /\ news' = news
    BY <1>8, HandlerStep DEF SyncHandler
  <2>2. news \subseteq Things /\ Things = Pods \cup Claims \cup {Resource}
    BY DEF TypeOK, Things, Objects
  <2> QED
    BY <2>1, <2>2 DEF Covers, NotYetRead
<1>9. ASSUME NEW w \in Workers, Step(w) \/ SyncFails(w) PROVE \E v \in Workers : Covers(v)'
  <2>1. pass[w].at # "idle"
    BY <1>9 DEF Step, SyncFails, SyncSkips, GetPodsForGalera, GetClaimsForGalera, Claimed,
      NotClaimed, SyncGalera, AdoptObject, ReleaseObject, Claiming
  <2>2. /\ UNCHANGED <<dirty, delayed>> \/ delayed'
        /\ news' \subseteq news
    BY <1>9 DEF Step, SyncFails, SyncSkips, GetPodsForGalera, GetClaimsForGalera, Listing, Claimed,
      NotClaimed, SyncGalera, AdoptObject, ReleaseObject, Succeeds, Fails, queue
  <2>3. Covers(w)
    <3>1. PICK v \in Workers : Covers(v)
      BY <1>1, <1>2, <2>2
    <3> QED
      BY <2>1, <3>1 DEF Covers, Serial, Running
  <2>4. CASE NotClaimed(w) \/ SyncFails(w)
    BY <1>2, <2>4 DEF NotClaimed, SyncFails, Fails
  <2>5. CASE SyncSkips(w) \/ SyncGalera(w)
    <3>1. pass[w].at \in {"skip", "sync"} /\ news' = news \ pass[w].read
      BY <2>5 DEF SyncSkips, SyncGalera, Succeeds
    <3>2. news' = {}
      BY <2>3, <3>1 DEF Covers, NotYetRead
    <3> QED
      BY <1>2, <3>2
  <2>6. CASE GetPodsForGalera(w)
    <3>1. Listing(w, Pods, "pods") /\ pass[w].at = "start" /\ news' = news
      BY <2>6 DEF GetPodsForGalera, Listing
    <3>2. pass'[w].at = "pods" /\ pass'[w].read = pass[w].read \cup Pods
      BY <3>1, ListingStep
    <3> QED
      BY <2>3, <3>1, <3>2 DEF Covers, NotYetRead
  <2>7. CASE GetClaimsForGalera(w)
    <3>1. Listing(w, Claims, "claims") /\ pass[w].at = "listed" /\ news' = news
      BY <2>7 DEF GetClaimsForGalera, Listing
    <3>2. pass'[w].at = "claims" /\ pass'[w].read = pass[w].read \cup Claims
      BY <3>1, ListingStep
    <3> QED
      BY <2>3, <3>1, <3>2 DEF Covers, NotYetRead
  <2>8. CASE Claimed(w) \/ \E o \in Objects : ReleaseObject(w, o)
    <3>1. /\ pass'[w].read = pass[w].read /\ pass[w].at \in {"pods", "claims"}
          /\ pass'[w].at \in {pass[w].at, IF pass[w].at = "pods" THEN "listed" ELSE "sync"}
      BY <2>8, GoesOn
    <3>2. news' = news
      BY <2>8 DEF Claimed, ReleaseObject
    <3> QED
      BY <2>3, <3>1, <3>2 DEF Covers, NotYetRead
  <2>9. CASE \E o \in Objects : AdoptObject(w, o)
    <3>1. pass'[w].read = pass[w].read /\ pass'[w].at = pass[w].at /\ news' = news
      BY <2>9, AdoptStep DEF AdoptObject
    <3> QED
      BY <2>3, <3>1 DEF Covers, NotYetRead
  <2> QED
    BY <1>9, <2>4, <2>5, <2>6, <2>7, <2>8, <2>9 DEF Step
<1>10. CASE UNCHANGED vars
  BY <1>3, <1>10 DEF vars, queue
<1> QED
  BY <1>4, <1>5, <1>6, <1>7, <1>8, <1>9, <1>10 DEF Next

(* No change of the resource, or of a pod or claim it controls, is lost,   *)
(* whatever overlaps, fails, is relisted or restarted, for any number of   *)
(* objects and workers (event handlers, enqueueGalera,                     *)
(* processNextWorkItem).                                                   *)
THEOREM NothingIsLost == Spec => []NoLostChange
<1> DEFINE Inv == Serial /\ DeadUnowned /\ NoLostChange
<1>1. Init => Inv
  BY DEF Init, Serial, DeadUnowned, NoLostChange, Running, Idle, NoObject
<1>2. TypeOK /\ ListKnown /\ Inv /\ [Next]_vars => Inv'
  BY SerialNext, DeadUnownedNext, NoLostChangeNext
<1> QED
  BY <1>1, <1>2, WellTyped, PTL DEF Spec

-----------------------------------------------------------------------------
(* No object of another incarnation                                        *)

Owners == UidsGrow /\ OwnersKnown /\ OwnersGrow /\ PassIsLatest /\ MineWasOwned

(* Uids are numbers.                                                       *)
LEMMA UidTypes == Uids \subseteq Nat /\ \A g \in Galeras : g.uid \in Nat
<1>1. Uids \subseteq Nat
  BY Bounds DEF Uids
<1> QED
  BY <1>1 DEF Galeras

(* A new incarnation has a larger uid than all before it.                  *)
LEMMA UidsGrowNext ==
    ASSUME TypeOK, ListKnown, UidsGrow, [Next]_vars
    PROVE  UidsGrow'
<1> SUFFICES ASSUME NEW j \in 1..Len(galera'), NEW i \in 1..j, galera'[j].uid # 0
             PROVE  galera'[i].uid <= galera'[j].uid
  BY DEF UidsGrow
<1>1. GaleraGrows
  BY VersionsGrow
<1>2. /\ galera' \in Seq(Galeras) /\ \A v \in 1..Len(galera) : galera'[v] = galera[v]
      /\ \/ j \in 1..Len(galera)
         \/ /\ j = Len(galera) + 1
            /\ \/ galera'[j].uid \in {0, Live.uid}
               \/ \A v \in 1..Len(galera) : galera[v].uid < galera'[j].uid
  BY <1>1, GaleraVersions
<1>3. Len(galera) \in Nat \ {0} /\ Len(galera') \in Nat
  BY <1>2, LookUps
<1>4. \A v \in 1..Len(galera) : galera[v] \in Galeras /\ galera[v].uid \in Nat
  BY UidTypes DEF TypeOK
<1>5. galera'[j] \in Galeras /\ galera'[j].uid \in Nat
  BY <1>2, UidTypes
<1>6. CASE j \in 1..Len(galera)
  <2>1. i \in 1..Len(galera) /\ galera'[i] = galera[i] /\ galera'[j] = galera[j]
    BY <1>2, <1>3, <1>6
  <2> QED
    BY <1>6, <2>1 DEF UidsGrow
<1>7. CASE i = j
  BY <1>5, <1>7
<1>8. CASE i # j /\ j = Len(galera) + 1
  <2>1. i \in 1..Len(galera) /\ galera'[i] = galera[i] /\ i \in 1..Len(galera)
    BY <1>2, <1>3, <1>8
  <2>2. CASE galera'[j].uid = Live.uid
    <3>1. Len(galera) \in 1..Len(galera) /\ Live = galera[Len(galera)]
      BY <1>3 DEF Live, Latest
    <3> QED
      BY <2>1, <2>2, <3>1 DEF UidsGrow
  <2>3. CASE \A v \in 1..Len(galera) : galera[v].uid < galera'[j].uid
    BY <1>4, <1>5, <2>1, <2>3
  <2> QED
    BY <1>2, <1>3, <1>8, <2>2, <2>3
<1> QED
  BY <1>2, <1>6, <1>7, <1>8

(* The resource of a pass stays what it is, as long as its list does.      *)
LEMMA SelfKept ==
    ASSUME TypeOK, ListKnown, [Next]_vars, NEW w \in Workers,
           pass'[w].list[Resource] = pass[w].list[Resource]
    PROVE  Self(w)' = Self(w)
<1>1. GaleraGrows
  BY VersionsGrow
<1>2. pass[w].list[Resource] \in 1..Len(galera)
  <2>1. pass[w].list[Resource] \in 1..seen[Resource] /\ seen[Resource] \in 1..Len(galera)
        /\ Len(galera) \in Nat
    BY LookUps DEF ListKnown, Things
  <2> QED
    BY <2>1
<1> QED
  BY <1>1, <1>2, GaleraVersions DEF Self

(* The last version of an object is one of its versions.                   *)
LEMMA ApiIsVersion ==
    ASSUME TypeOK, ListKnown, NEW o \in Objects
    PROVE  Len(objs[o]) \in 1..Len(objs[o]) /\ Api(o) = objs[o][Len(objs[o])]
BY LookUps DEF Api, Latest

(* Controllers are numbers, as far as versions go.                         *)
LEMMA OwnerTypes ==
    ASSUME TypeOK, ListKnown
    PROVE  /\ \A o \in Objects : \A v \in 1..Len(objs[o]) : objs[o][v].owner \in Nat
           /\ \A i \in 1..Len(galera) : galera[i].uid \in Nat
           /\ \A w \in Workers : Self(w).uid \in Nat
<1>1. ASSUME NEW o \in Objects, NEW v \in 1..Len(objs[o]) PROVE objs[o][v].owner \in Nat
  <2>1. objs[o] \in Seq(ObjectStates)
    BY DEF TypeOK
  <2>2. objs[o][v] \in ObjectStates
    BY <2>1
  <2> QED
    BY <2>2, Bounds DEF ObjectStates, Uids
<1>2. ASSUME NEW i \in 1..Len(galera) PROVE galera[i].uid \in Nat
  <2>1. galera[i] \in Galeras
    BY DEF TypeOK
  <2> QED
    BY <2>1, UidTypes
<1>3. ASSUME NEW w \in Workers PROVE Self(w).uid \in Nat
  <2>1. Self(w) \in Galeras
    BY LookUps
  <2> QED
    BY <2>1, Bounds DEF Galeras, Uids
<1> QED
  BY <1>1, <1>2, <1>3

(* No step names a controller the informer has not shown.                  *)
LEMMA OwnersKnownNext ==
    ASSUME TypeOK, ListKnown, OwnersKnown, [Next]_vars
    PROVE  OwnersKnown'
<1> SUFFICES ASSUME NEW o \in Objects, NEW v \in 1..Len(objs'[o]), objs'[o][v].owner # 0
             PROVE  \E i \in 1..seen'[Resource] : galera'[i].uid = objs'[o][v].owner
  BY DEF OwnersKnown
<1>1. GaleraGrows /\ ObjectsGrow
  BY VersionsGrow
<1>2. /\ seen[Resource] <= seen'[Resource] /\ seen[Resource] \in 1..Len(galera)
      /\ seen'[Resource] \in Nat /\ Len(galera) \in Nat
  BY SeenGrows, LookUps DEF Things
<1>3. \A i \in 1..seen[Resource] : galera'[i] = galera[i] /\ i \in 1..seen'[Resource]
  BY <1>1, <1>2, GaleraVersions
<1>4. /\ \A k \in 1..Len(objs[o]) : objs'[o][k] = objs[o][k]
      /\ \/ v \in 1..Len(objs[o])
         \/ objs'[o][v].owner = Api(o).owner
         \/ \E w \in Workers : objs'[o][v].owner = Self(w).uid
  BY <1>1, ObjectVersions
<1>5. \E i \in 1..seen[Resource] : galera[i].uid = objs'[o][v].owner
  <2>1. CASE v \in 1..Len(objs[o])
    BY <1>4, <2>1 DEF OwnersKnown
  <2>2. CASE objs'[o][v].owner = Api(o).owner
    BY <2>2, ApiIsVersion DEF OwnersKnown
  <2>3. CASE \E w \in Workers : objs'[o][v].owner = Self(w).uid
    BY <2>3 DEF ListKnown, Things, Self
  <2> QED
    BY <1>4, <2>1, <2>2, <2>3
<1> QED
  BY <1>3, <1>5

(* No step gives an object back to an earlier incarnation.                 *)
LEMMA OwnersGrowNext ==
    ASSUME TypeOK, ListKnown, OwnersGrow, PassIsLatest, [Next]_vars
    PROVE  OwnersGrow'
<1> SUFFICES ASSUME NEW o \in Objects, NEW j \in 1..Len(objs'[o]), NEW i \in 1..j,
                    objs'[o][j].owner # 0
             PROVE  objs'[o][i].owner <= objs'[o][j].owner
  BY DEF OwnersGrow
<1>1. ObjectsGrow
  BY VersionsGrow
<1>2. /\ objs'[o] \in Seq(ObjectStates)
      /\ \A k \in 1..Len(objs[o]) : objs'[o][k] = objs[o][k]
      /\ \/ j \in 1..Len(objs[o])
         \/ /\ j = Len(objs[o]) + 1
            /\ \/ objs'[o][j].owner = Api(o).owner
               \/ \E w \in Workers : Active(w) /\ objs'[o][j].owner = Self(w).uid
  BY <1>1, ObjectVersions
<1>3. Len(objs[o]) \in Nat \ {0} /\ Len(objs'[o]) \in Nat
  BY <1>2, LookUps
<1>4. CASE j \in 1..Len(objs[o])
  <2>1. i \in 1..Len(objs[o]) /\ objs'[o][i] = objs[o][i] /\ objs'[o][j] = objs[o][j]
    BY <1>2, <1>3, <1>4
  <2> QED
    BY <1>4, <2>1 DEF OwnersGrow
<1>5. CASE i = j
  <2>1. objs'[o][j] \in ObjectStates
    BY <1>2
  <2>2. objs'[o][j].owner \in Nat
    BY <2>1, Bounds DEF ObjectStates, Uids
  <2> QED
    BY <1>5, <2>2
<1>6. CASE i # j /\ j = Len(objs[o]) + 1
  <2>1. i \in 1..Len(objs[o]) /\ objs'[o][i] = objs[o][i]
    BY <1>2, <1>3, <1>6
  <2>2. CASE objs'[o][j].owner = Api(o).owner
    BY <2>1, <2>2, ApiIsVersion DEF OwnersGrow
  <2>3. CASE \E w \in Workers : Active(w) /\ objs'[o][j].owner = Self(w).uid
    BY <2>1, <2>3 DEF PassIsLatest, LatestSelf
  <2> QED
    BY <1>2, <1>3, <1>6, <2>2, <2>3
<1> QED
  BY <1>2, <1>4, <1>5, <1>6

(* What a step leaves of the objects of a pass: later versions only add.   *)
LEMMA MineKept ==
    ASSUME TypeOK, ListKnown, [Next]_vars, NEW w \in Workers, Self(w)' = Self(w),
           NEW o \in Objects, \E v \in 1..Len(objs[o]) : objs[o][v].owner = Self(w).uid
    PROVE  \E v \in 1..Len(objs'[o]) : objs'[o][v].owner = Self(w)'.uid
<1>1. ObjectsGrow
  BY VersionsGrow
<1>2. PICK v \in 1..Len(objs[o]) : objs[o][v].owner = Self(w).uid
  OBVIOUS
<1>3. /\ Len(objs[o]) \in Nat /\ Len(objs[o]) <= Len(objs'[o])
      /\ objs'[o][v] = objs[o][v] /\ objs' \in [Objects -> Seq(ObjectStates)]
  BY <1>1, ObjectVersions
<1>4. Len(objs'[o]) \in Nat
  BY <1>3
<1>5. v \in 1..Len(objs'[o])
  BY <1>3, <1>4
<1> QED
  BY <1>2, <1>3, <1>5

(* The resource of a pass that goes on stays the latest.                   *)
LEMMA LatestKept ==
    ASSUME TypeOK, ListKnown, Serial, PassIsLatest, [Next]_vars,
           NEW w \in Workers, Active(w), Self(w)' = Self(w)
    PROVE  LatestSelf(w)'
<1>1. ObjectsGrow
  BY VersionsGrow
<1>2. LatestSelf(w) /\ Self(w).uid \in Nat
  BY OwnerTypes DEF PassIsLatest
<1>3. ASSUME NEW o \in Objects, NEW v \in 1..Len(objs'[o])
      PROVE  objs'[o][v].owner <= Self(w).uid
  <2>1. /\ \A k \in 1..Len(objs[o]) : objs'[o][k] = objs[o][k]
        /\ \/ v \in 1..Len(objs[o])
           \/ objs'[o][v].owner \in {0, Api(o).owner}
           \/ \E u \in Workers : Active(u) /\ objs'[o][v].owner = Self(u).uid
    BY <1>1, ObjectVersions
  <2>2. CASE v \in 1..Len(objs[o])
    BY <1>2, <2>1, <2>2 DEF LatestSelf
  <2>3. CASE objs'[o][v].owner \in {0, Api(o).owner}
    BY <1>2, <2>3, ApiIsVersion DEF LatestSelf
  <2>4. ASSUME NEW u \in Workers, Active(u), objs'[o][v].owner = Self(u).uid
        PROVE  objs'[o][v].owner <= Self(w).uid
    <3>1. u = w
      BY <2>4 DEF Serial, Running, Active
    <3> QED
      BY <1>2, <2>4, <3>1
  <2> QED
    BY <2>1, <2>2, <2>3, <2>4
<1> QED
  BY <1>2, <1>3 DEF LatestSelf

(* The pass that begins has the latest resource any object knows.          *)
LEMMA LatestAtStart ==
    ASSUME TypeOK, ListKnown, UidsGrow, OwnersKnown, [Next]_vars,
           NEW w \in Workers, SyncHandler(w), ~Ignored
    PROVE  LatestSelf(w)'
<1>1. objs' = objs /\ galera' = galera /\ pass'[w].list[Resource] = seen[Resource]
  BY HandlerStep DEF SyncHandler, api
<1>2. Self(w)' = CachedGalera /\ CachedGalera.uid # 0
  BY <1>1 DEF Self, CachedGalera, Ignored
<1>3. ASSUME NEW o \in Objects, NEW v \in 1..Len(objs[o])
      PROVE  objs[o][v].owner <= CachedGalera.uid
  <2>1. seen[Resource] \in 1..Len(galera)
    BY LookUps
  <2>2. CASE objs[o][v].owner = 0
    BY <2>1, <2>2, OwnerTypes DEF CachedGalera
  <2>3. CASE objs[o][v].owner # 0
    BY <1>2, <2>1, <2>3 DEF OwnersKnown, UidsGrow, CachedGalera
  <2> QED
    BY <2>2, <2>3
<1> QED
  BY <1>1, <1>2, <1>3 DEF LatestSelf

(* A pass keeps the latest resource and the objects it had.                *)
LEMMA PassesNext ==
    ASSUME TypeOK, ListKnown, Serial, Owners, [Next]_vars
    PROVE  PassIsLatest' /\ MineWasOwned'
<1>1. UidsGrow /\ OwnersKnown /\ OwnersGrow /\ PassIsLatest /\ MineWasOwned
  BY DEF Owners
<1> SUFFICES ASSUME NEW w \in Workers
             PROVE  /\ Active(w)' => LatestSelf(w)'
                    /\ ~Active(w)' => pass'[w].mine = {}
                    /\ \A o \in pass'[w].mine :
                          \E v \in 1..Len(objs'[o]) : objs'[o][v].owner = Self(w)'.uid
  BY DEF PassIsLatest, MineWasOwned
<1>2. WorkerStep(w) /\ pass[w] \in Passes
  BY WorkerSteps DEF TypeOK
<1>3. pass[w].mine \subseteq Objects
  BY <1>2 DEF Passes
<1>4. CASE Keeps(w)
  <2>1. /\ Active(w)' <=> Active(w)
        /\ pass'[w].mine = pass[w].mine /\ Self(w)' = Self(w)
    BY <1>4, SelfKept DEF Keeps, Active
  <2>2. Active(w) => LatestSelf(w)'
    BY <1>1, <2>1, LatestKept
  <2> QED
    BY <1>1, <1>3, <2>1, <2>2, MineKept DEF MineWasOwned
<1>5. CASE pass'[w] = Idle
  BY <1>5 DEF Active, Idle
<1>6. CASE SyncHandler(w)
  <2>1. /\ pass'[w].mine = {}
        /\ pass'[w].at = IF Ignored THEN "skip" ELSE "start"
    BY <1>6, HandlerStep
  <2>2. Active(w)' => ~Ignored
    BY <2>1 DEF Active
  <2> QED
    BY <1>1, <1>6, <2>1, <2>2, LatestAtStart
<1>7. CASE GetPodsForGalera(w) \/ GetClaimsForGalera(w)
  <2>1. PICK Kind \in {Pods, Claims}, stage \in {"pods", "claims"} :
           Listing(w, Kind, stage) /\ pass[w].at \in {"start", "listed"}
    BY <1>7 DEF GetPodsForGalera, GetClaimsForGalera
  <2>2. /\ pass'[w].at = stage /\ pass'[w].list[Resource] = pass[w].list[Resource]
        /\ pass'[w].mine = pass[w].mine \cup {o \in Kind : Owned(w, objs[o][seen[o]])}
    BY <2>1, ListingStep
  <2>3. Active(w) /\ Active(w)' /\ Self(w)' = Self(w)
    BY <2>1, <2>2, SelfKept DEF Active
  <2>4. LatestSelf(w)'
    BY <1>1, <2>3, LatestKept
  <2>5. ASSUME NEW o \in pass'[w].mine
        PROVE  o \in Objects /\ \E v \in 1..Len(objs[o]) : objs[o][v].owner = Self(w).uid
    <3>1. CASE o \in pass[w].mine
      BY <1>1, <1>3, <3>1 DEF MineWasOwned
    <3>2. CASE o \in Kind /\ Owned(w, objs[o][seen[o]])
      <4>1. o \in Objects
        BY <3>2 DEF Objects
      <4>2. seen[o] \in 1..Len(objs[o]) /\ objs[o][seen[o]].owner = Self(w).uid
        BY <3>2, <4>1, LookUps DEF Owned
      <4> QED
        BY <4>1, <4>2
    <3> QED
      BY <2>2, <3>1, <3>2
  <2> QED
    BY <2>3, <2>4, <2>5, MineKept
<1>8. ASSUME NEW a \in Objects, AdoptObject(w, a)
      PROVE  /\ Active(w)' /\ LatestSelf(w)'
             /\ \A o \in pass'[w].mine :
                   \E v \in 1..Len(objs'[o]) : objs'[o][v].owner = Self(w)'.uid
  <2>1. /\ pass'[w].at = pass[w].at /\ pass[w].at \in {"pods", "claims"}
        /\ pass'[w].list = pass[w].list
        /\ pass'[w].mine \subseteq pass[w].mine \cup {a}
        /\ \/ pass'[w].mine = pass[w].mine
           \/ Api(a).owner = Self(w).uid
           \/ objs' = [objs EXCEPT ![a] = Append(@, [Api(a) EXCEPT !.owner = Self(w).uid])]
    BY <1>8, AdoptStep
  <2>2. Active(w) /\ Active(w)' /\ Self(w)' = Self(w)
    BY <2>1, SelfKept DEF Active
  <2>3. LatestSelf(w)'
    BY <1>1, <2>2, LatestKept
  <2>4. ASSUME NEW o \in pass[w].mine
        PROVE  \E v \in 1..Len(objs'[o]) : objs'[o][v].owner = Self(w)'.uid
    BY <1>1, <1>3, <2>2, MineKept DEF MineWasOwned
  <2>5. CASE Api(a).owner = Self(w).uid
    <3>1. \E v \in 1..Len(objs[a]) : objs[a][v].owner = Self(w).uid
      BY <2>5, ApiIsVersion
    <3> QED
      BY <2>1, <2>2, <2>3, <2>4, <3>1, MineKept
  <2>6. CASE objs' = [objs EXCEPT ![a] = Append(@, [Api(a) EXCEPT !.owner = Self(w).uid])]
    <3> DEFINE new == [Api(a) EXCEPT !.owner = Self(w).uid]
    <3>1. new.owner = Self(w).uid /\ Api(a) \in ObjectStates
      BY LookUps DEF ObjectStates
    <3> HIDE DEF new
    <3>2. objs'[a] = Append(objs[a], new) /\ objs[a] \in Seq(ObjectStates)
      BY <2>6 DEF TypeOK, new
    <3>3. Len(objs'[a]) = Len(objs[a]) + 1 /\ objs'[a][Len(objs[a]) + 1] = new
          /\ Len(objs[a]) \in Nat
      BY <3>2
    <3>4. \E v \in 1..Len(objs'[a]) : objs'[a][v].owner = Self(w)'.uid
      BY <2>2, <3>1, <3>3
    <3> QED
      BY <2>1, <2>2, <2>3, <2>4, <3>4
  <2> QED
    BY <2>1, <2>2, <2>3, <2>4, <2>5, <2>6
<1> QED
  BY <1>2, <1>4, <1>5, <1>6, <1>7, <1>8 DEF WorkerStep

(* No pass works on an object that another incarnation of the cluster      *)
(* controls, however far the informers are behind and however often the    *)
(* resource is deleted and created again (ClaimPods, ClaimClaims,          *)
(* resolveControllerRef).                                                  *)
THEOREM OnlyOwnObjects == Spec => []NoForeignObject
<1> DEFINE Inv == Serial /\ Owners
<1>1. Init => Inv
  BY DEF Init, Serial, Running, Owners, UidsGrow, OwnersKnown, OwnersGrow, PassIsLatest,
    MineWasOwned, Active, Idle, NoGalera, NoObject
<1>2. TypeOK /\ ListKnown /\ Inv /\ [Next]_vars => Inv'
  BY SerialNext, UidsGrowNext, OwnersKnownNext, OwnersGrowNext, PassesNext DEF Owners
<1>3. TypeOK /\ ListKnown /\ Inv => NoForeignObject
  <2> SUFFICES ASSUME TypeOK, ListKnown, Inv, NEW w \in Workers, NEW o \in pass[w].mine
               PROVE  Api(o).owner \in {0, Self(w).uid}
    BY DEF NoForeignObject
  <2>1. o \in Objects /\ pass[w] \in Passes
    BY DEF TypeOK, Passes
  <2>2. PICK v \in 1..Len(objs[o]) : objs[o][v].owner = Self(w).uid
    BY DEF Owners, MineWasOwned
  <2>3. Active(w) /\ LatestSelf(w)
    BY DEF Owners, MineWasOwned, PassIsLatest
  <2>4. Len(objs[o]) \in 1..Len(objs[o]) /\ Api(o) = objs[o][Len(objs[o])]
        /\ v \in 1..Len(objs[o])
    BY <2>1, ApiIsVersion
  <2>5. Api(o).owner <= Self(w).uid
    BY <2>1, <2>3, <2>4 DEF LatestSelf
  <2>6. Api(o).owner # 0 => Self(w).uid <= Api(o).owner
    BY <2>1, <2>2, <2>4 DEF Owners, OwnersGrow
  <2>7. Api(o).owner \in Nat /\ Self(w).uid \in Nat
    BY <2>1, <2>4, OwnerTypes
  <2> QED
    BY <2>5, <2>6, <2>7
<1> QED
  BY <1>1, <1>2, <1>3, WellTyped, PTL DEF Spec

-----------------------------------------------------------------------------
(* The steps of ClusterWatch                                               *)

(* At most one pass is under way, and it can be counted.                   *)
LEMMA CountRunning ==
    ASSUME Serial
    PROVE  /\ Running = {} => Cardinality(Running) = 0
           /\ \A w \in Running : Cardinality(Running) = 1
<1>1. ASSUME NEW w \in Running PROVE Cardinality(Running) = 1
  <2>1. Running = {w}
    BY DEF Serial
  <2> QED
    BY <2>1, FS_Singleton
<1> QED
  BY <1>1, FS_EmptySet

(* A step in which no pass begins or ends, and no news is taken off.       *)
LEMMA WatchChange ==
    ASSUME \A w \in Workers : pass'[w].at = "idle" <=> pass[w].at = "idle",
           news \subseteq news', restarts' = restarts
    PROVE  Watch!Next
<1>1. Cardinality(Running)' = Cardinality(Running)
  BY RunningKept
<1> QED
  BY <1>1 DEF Watch!Next, Watch!Change

(* A pass ends: alone, it leaves none under way.                           *)
LEMMA WatchEnds ==
    ASSUME TypeOK, Serial, NEW w \in Workers,
           SyncSkips(w) \/ NotClaimed(w) \/ SyncGalera(w) \/ SyncFails(w)
    PROVE  Cardinality(Running) = 1 /\ Cardinality(Running)' = 0
<1>1. pass'[w].at = "idle" /\ pass[w].at # "idle" /\ \A v \in Workers \ {w} : pass'[v] = pass[v]
  BY EndStep DEF Idle
<1>2. w \in Running /\ Running' = {}
  BY <1>1 DEF Serial, Running
<1> QED
  BY <1>2, CountRunning, FS_EmptySet

(* Every step of the controller is one of ClusterWatch, or changes nothing *)
(* that ClusterWatch speaks of.                                            *)
LEMMA WatchStep ==
    ASSUME TypeOK, ListKnown, Serial, [Next]_vars
    PROVE  [Watch!Next]_(Watch!vars)
<1>1. CASE UNCHANGED vars
  BY <1>1, WatchChange DEF vars
<1>2. CASE GaleraEvent
  <2>1. Outdate(Resource) \/ UNCHANGED <<news, pass>>
    BY <1>2 DEF GaleraEvent
  <2>2. restarts' = restarts /\ Resource \in Things
    BY <1>2 DEF GaleraEvent, Things
  <2> QED
    BY <2>1, <2>2, OutdateKeeps, WatchChange DEF Outdate
<1>3. ASSUME NEW o \in Objects, ObjectEvent(o) PROVE Watch!Next
  <2>1. Outdate(o) \/ UNCHANGED <<news, pass>>
    BY <1>3 DEF ObjectEvent
  <2>2. restarts' = restarts /\ o \in Things
    BY <1>3 DEF ObjectEvent, Things
  <2> QED
    BY <2>1, <2>2, OutdateKeeps, WatchChange DEF Outdate
<1>4. CASE OperatorRestarts
  <2>1. Running' = {} /\ news' \in SUBSET Things /\ restarts' = restarts + 1
    BY <1>4 DEF OperatorRestarts, Running, Idle
  <2>2. Cardinality(Running)' = 0
    BY <2>1, FS_EmptySet
  <2> QED
    BY <2>1, <2>2 DEF Watch!Next, Watch!Restart
<1>5. CASE \/ Resync \/ AddRateLimited \/ UserCreates \/ UserEdits \/ UserDeletes
           \/ \E o \in Objects : ObjectEdited(o) \/ ObjectGone(o)
  <2>1. UNCHANGED <<pass, news, restarts>>
    BY <1>5 DEF Resync, AddRateLimited, UserCreates, UserEdits, UserDeletes, ObjectEdited,
      ObjectGone
  <2> QED
    BY <2>1, WatchChange
<1>6. ASSUME NEW w \in Workers, SyncHandler(w) PROVE Watch!Next
  <2>1. /\ Running = {} /\ pass'[w].at \in {"skip", "start"}
        /\ \A v \in Workers \ {w} : pass'[v] = pass[v]
    BY <1>6, HandlerStep
  <2>2. Running' = {w}
    BY <2>1 DEF Running
  <2>3. Cardinality(Running) = 0 /\ Cardinality(Running)' = 1
    BY <2>1, <2>2, CountRunning, FS_Singleton
  <2> QED
    BY <1>6, <2>3 DEF SyncHandler, Watch!Next, Watch!Begin
<1>7. ASSUME NEW w \in Workers, SyncSkips(w) \/ SyncGalera(w) PROVE Watch!Next
  <2>1. news' \subseteq news /\ restarts' = restarts
    BY <1>7 DEF SyncSkips, SyncGalera, Succeeds
  <2> QED
    BY <1>7, <2>1, WatchEnds DEF Watch!Next, Watch!Succeed
<1>8. ASSUME NEW w \in Workers, NotClaimed(w) \/ SyncFails(w) PROVE Watch!Next
  <2>1. news' = news /\ restarts' = restarts
    BY <1>8 DEF NotClaimed, SyncFails, Fails
  <2> QED
    BY <1>8, <2>1, WatchEnds DEF Watch!Next, Watch!Fail
<1>9. ASSUME NEW w \in Workers,
             \/ GetPodsForGalera(w) \/ GetClaimsForGalera(w) \/ Claimed(w)
             \/ \E o \in Objects : AdoptObject(w, o) \/ ReleaseObject(w, o)
      PROVE  Watch!Next
  <2>1. pass[w].at # "idle" /\ UNCHANGED <<news, restarts>>
    BY <1>9 DEF GetPodsForGalera, GetClaimsForGalera, Listing, Claimed, AdoptObject, ReleaseObject,
      Claiming
  <2>2. pass'[w].at # "idle" /\ \A v \in Workers \ {w} : pass'[v] = pass[v]
    <3>1. CASE GetPodsForGalera(w)
      BY <3>1, ListingStep DEF GetPodsForGalera
    <3>2. CASE GetClaimsForGalera(w)
      BY <3>2, ListingStep DEF GetClaimsForGalera
    <3>3. CASE Claimed(w) \/ \E o \in Objects : ReleaseObject(w, o)
      BY <2>1, <3>3, GoesOn DEF Keeps
    <3>4. CASE \E o \in Objects : AdoptObject(w, o)
      BY <2>1, <3>4, AdoptStep
    <3> QED
      BY <1>9, <3>1, <3>2, <3>3, <3>4
  <2>3. \A v \in Workers : pass'[v].at = "idle" <=> pass[v].at = "idle"
    BY <2>1, <2>2
  <2> QED
    BY <2>1, <2>3, WatchChange
<1> QED
  BY <1>1, <1>2, <1>3, <1>4, <1>5, <1>6, <1>7, <1>8, <1>9 DEF Next, Step

(* What ClusterWatch allows, without its promise that everything is seen.  *)
WatchSafety == Watch!Init /\ [][Watch!Next]_(Watch!vars)

(* The controller implements the safety part of ClusterWatch: passes never *)
(* overlap, a pass begins only when none is under way, only one that ends  *)
(* well takes changes off the list, and only a restart of the operator     *)
(* begins the list afresh (Get, processNextWorkItem, syncHandler).         *)
THEOREM WatchRefined == Spec => WatchSafety
<1>1. Init => Watch!Init /\ Serial
  <2> SUFFICES ASSUME Init PROVE Watch!Init /\ Serial
    OBVIOUS
  <2>1. Running = {}
    BY DEF Init, Running, Idle
  <2>2. Cardinality(Running) = 0
    BY <2>1, FS_EmptySet
  <2> QED
    BY <2>1, <2>2 DEF Init, Watch!Init, Serial
<1>2. TypeOK /\ ListKnown /\ Serial /\ [Next]_vars => Serial'
  BY SerialNext
<1>3. TypeOK /\ ListKnown /\ Serial /\ [Next]_vars => [Watch!Next]_(Watch!vars)
  BY WatchStep
<1> QED
  BY <1>1, <1>2, <1>3, WellTyped, PTL DEF Spec, WatchSafety
=============================================================================
