-------------------------- MODULE GaleraController --------------------------
(***************************************************************************)
(* The controller around the reconcile loop, for one Galera resource: the  *)
(* informers and their event handlers, the work queue, and a pass up to    *)
(* the call of SyncGalera, in which pods and claims are adopted and        *)
(* released (pkg/controllers/cluster/galera_controller.go and              *)
(* galera_claim_control.go).  What SyncGalera itself decides is in         *)
(* GaleraControl; here it creates or deletes an object or writes a status. *)
(*                                                                         *)
(* The API server keeps every version of an object, so that an informer    *)
(* may deliver them one by one (watch) or jump to the last one (relist).   *)
(***************************************************************************)
EXTENDS Naturals, Sequences, FiniteSets

CONSTANTS
    Pods, Claims,      \* names of pods and of claims of the cluster
    Resource,          \* the Galera resource itself, as a thing a pass reads
    Workers,           \* goroutines started by Run
    NameFits,          \* the cluster's name is not longer than MaxNameLength
    MaxChanges,        \* bound on the changes of API objects
    MaxUid,            \* bound on the incarnations of the resource
    MaxFaults          \* bound on failing calls and restarts of the operator

ASSUME ControllerAssumption ==
    /\ Pods \cap Claims = {}
    /\ Resource \notin Pods \cup Claims
    /\ NameFits \in BOOLEAN
    /\ {MaxChanges, MaxUid, MaxFaults} \subseteq Nat

VARIABLES
    galera,     \* versions of the resource in the API server
    objs,       \* versions of every pod and claim
    seen,       \* for every thing, the version its informer shows
    dirty,      \* the key is in the work queue
    delayed,    \* the key waits for its next attempt (AddRateLimited)
    pass,       \* what every worker is doing
    changes, errors, restarts,
    news        \* history: things of the cluster that changed and were not
                \* read since by a pass that ended well

api == <<galera, objs, changes>>
queue == <<dirty, delayed>>
vars == <<api, seen, queue, pass, errors, restarts, news>>

Objects == Pods \cup Claims
Things == Objects \cup {Resource}
Uids == 0..MaxUid      \* 0: no resource, no controller

(* mode: managed by this operator, marked Failed, or left to another one.  *)
Galeras == [uid : Uids, deleting : BOOLEAN, mode : {"run", "failed", "foreign"}]
NoGalera == [uid |-> 0, deleting |-> FALSE, mode |-> "run"]

(* An object carries the uid of its controller, whether its labels match   *)
(* the selector of the cluster, and whether it has a deletion timestamp.   *)
ObjectStates == [live : BOOLEAN, owner : Uids, match : BOOLEAN, deleting : BOOLEAN]
NoObject == [live |-> FALSE, owner |-> 0, match |-> FALSE, deleting |-> FALSE]

(* list: the versions the pass works on; todo: objects to adopt or to      *)
(* release; mine: objects handed to SyncGalera; can: the cached answer of  *)
(* CanAdopt; read: things that did not change since the pass read them.    *)
Stages == {"idle", "skip", "start", "pods", "listed", "claims", "sync"}
Passes == [at : Stages, list : [Things -> Nat], todo : SUBSET Objects,
           mine : SUBSET Objects, can : {"unknown", "yes", "no"},
           failed : BOOLEAN, read : SUBSET Things]
Claiming(p) == p.at \in {"pods", "claims"}
Idle == [at |-> "idle", list |-> [t \in Things |-> 1], todo |-> {}, mine |-> {},
         can |-> "unknown", failed |-> FALSE, read |-> {}]

Latest(s) == s[Len(s)]
Api(o) == Latest(objs[o])
Live == Latest(galera)
CachedGalera == galera[seen[Resource]]
Running == {w \in Workers : pass[w].at # "idle"}

(* Type invariant: the versions that caches show exist, and a pass that    *)
(* does not claim has no object left to adopt or to release (ClaimClaims). *)
TypeOK ==
    /\ galera \in Seq(Galeras) /\ Len(galera) > 0
    /\ objs \in [Objects -> Seq(ObjectStates)]
    /\ \A o \in Objects : seen[o] \in 1..Len(objs[o])
    /\ seen \in [Things -> Nat] /\ seen[Resource] \in 1..Len(galera)
    /\ dirty \in BOOLEAN /\ delayed \in BOOLEAN
    /\ pass \in [Workers -> Passes]
    /\ \A w \in Workers : Claiming(pass[w]) \/ pass[w].todo = {}
    /\ changes \in 0..MaxChanges
    /\ errors \in Nat /\ restarts \in Nat /\ errors + restarts <= MaxFaults
    /\ news \subseteq Things

Init ==
    /\ galera = <<NoGalera>>
    /\ objs = [o \in Objects |-> <<NoObject>>]
    /\ seen = [t \in Things |-> 1]
    /\ dirty = FALSE /\ delayed = FALSE
    /\ pass = [w \in Workers |-> Idle]
    /\ changes = 0 /\ errors = 0 /\ restarts = 0
    /\ news = {}

-----------------------------------------------------------------------------
(* Event handlers                                                          *)

(* The owner found by name in the lister must have the uid of the          *)
(* reference.                                                              *)
ResolveControllerRef(uid) == uid # 0 /\ CachedGalera.uid = uid

(* An orphan interests the resource whose selector its labels match.       *)
GetGalerasFor(o) == CachedGalera.uid # 0 /\ o.match

Deleted(o) == ResolveControllerRef(o.owner)

Added(o) ==
    IF o.deleting THEN Deleted(o)
    ELSE IF o.owner # 0 THEN ResolveControllerRef(o.owner)
    ELSE GetGalerasFor(o)

Updated(old, cur) ==
    \/ old.owner # cur.owner /\ ResolveControllerRef(old.owner)
    \/ IF cur.owner # 0 THEN ResolveControllerRef(cur.owner)
       ELSE (old.match # cur.match \/ old.owner # cur.owner) /\ GetGalerasFor(cur)

(* What becomes of an object between two of its versions decides which     *)
(* handler the informer calls, and whether it puts the key in the queue.   *)
AddPod(p, v) == ~objs[p][seen[p]].live /\ objs[p][v].live /\ Added(objs[p][v])
UpdatePod(p, v) ==
    /\ objs[p][seen[p]].live /\ objs[p][v].live
    /\ Updated(objs[p][seen[p]], objs[p][v])
DeletePod(p, v) == objs[p][seen[p]].live /\ ~objs[p][v].live /\ Deleted(objs[p][seen[p]])

AddClaim(c, v) == ~objs[c][seen[c]].live /\ objs[c][v].live /\ Added(objs[c][v])
UpdateClaim(c, v) ==
    /\ objs[c][seen[c]].live /\ objs[c][v].live
    /\ Updated(objs[c][seen[c]], objs[c][v])
DeleteClaim(c, v) == objs[c][seen[c]].live /\ ~objs[c][v].live /\ Deleted(objs[c][seen[c]])

Enqueues(o, v) ==
    \/ o \in Pods /\ (AddPod(o, v) \/ UpdatePod(o, v) \/ DeletePod(o, v))
    \/ o \in Claims /\ (AddClaim(o, v) \/ UpdateClaim(o, v) \/ DeleteClaim(o, v))

(* A change concerns the cluster when the object is controlled by the      *)
(* resource the operator knows, before the change or after it.             *)
Concerns(o, v) ==
    CachedGalera.uid # 0 /\ CachedGalera.uid \in {objs[o][seen[o]].owner, objs[o][v].owner}

(* The thing t is news, and no pass under way has read its new version.    *)
Outdate(t) ==
    /\ news' = news \cup {t}
    /\ pass' = [w \in Workers |-> [pass[w] EXCEPT !.read = @ \ {t}]]

(* The watch delivers the next version of an object; a relist the last one.*)
ObjectEvent(o) ==
    \E v \in {seen[o] + 1, Len(objs[o])} :
        /\ v \in (seen[o] + 1)..Len(objs[o])
        /\ seen' = [seen EXCEPT ![o] = v]
        /\ dirty' = (dirty \/ Enqueues(o, v))
        /\ IF Concerns(o, v) THEN Outdate(o) ELSE UNCHANGED <<news, pass>>
        /\ UNCHANGED <<api, delayed, errors, restarts>>

(* Every event of the resource puts its key in the queue, but for one:     *)
(* MetaNamespaceKeyFunc finds no key in the tombstone by which a relist    *)
(* tells that the resource is gone.                                        *)
GaleraEvent ==
    \E v \in (seen[Resource] + 1)..Len(galera) :
        /\ seen' = [seen EXCEPT ![Resource] = v]
        /\ \/ /\ v = seen[Resource] + 1 \/ (v = Len(galera) /\ galera[v].uid # 0)
              /\ dirty' = TRUE /\ Outdate(Resource)
           \/ /\ v = Len(galera) /\ galera[v].uid = 0
              /\ UNCHANGED <<dirty, news, pass>>
        /\ UNCHANGED <<api, delayed, errors, restarts>>

(* The periodic resynchronisation of the resource.                         *)
Resync ==
    /\ CachedGalera.uid # 0
    /\ dirty' = TRUE
    /\ UNCHANGED <<api, seen, delayed, pass, errors, restarts, news>>

-----------------------------------------------------------------------------
(* Work queue and workers                                                  *)

(* Mutant: the key is given out while a worker holds it. *)
GetWhileHeld(w) == dirty /\ pass[w].at = "idle" /\ dirty' = FALSE

(* A key that a worker holds is not given to another one.                  *)
Get(w) == dirty /\ Running = {} /\ dirty' = FALSE

Managed == CachedGalera.mode # "foreign"

(* No resource, one of another operator, or one that failed: nothing is    *)
(* done, and the key is forgotten.                                         *)
Ignored == CachedGalera.uid = 0 \/ ~Managed \/ CachedGalera.mode = "failed"

SyncHandler(w) ==
    /\ Get(w)
    /\ pass' = [pass EXCEPT ![w] =
           [Idle EXCEPT !.at = IF Ignored THEN "skip" ELSE "start",
                        !.list[Resource] = seen[Resource],
                        !.read = IF Ignored THEN Things ELSE {Resource}]]
    /\ UNCHANGED <<api, seen, delayed, errors, restarts, news>>

(* The worker is done with the key: without an error it has seen what it   *)
(* read; after one the key comes back later.                               *)
Succeeds(w) ==
    /\ pass' = [pass EXCEPT ![w] = Idle]
    /\ news' = news \ pass[w].read
    /\ UNCHANGED queue

(* Mutant: the key is forgotten after an error. *)
FailsForgetting(w) ==
    /\ pass' = [pass EXCEPT ![w] = Idle]
    /\ UNCHANGED <<queue, news>>

Fails(w) ==
    /\ pass' = [pass EXCEPT ![w] = Idle]
    /\ delayed' = TRUE
    /\ UNCHANGED <<dirty, news>>

SyncSkips(w) ==
    /\ pass[w].at = "skip"
    /\ Succeeds(w)
    /\ UNCHANGED <<api, seen, errors, restarts>>

AddRateLimited ==
    /\ delayed
    /\ delayed' = FALSE
    /\ dirty' = TRUE
    /\ UNCHANGED <<api, seen, pass, errors, restarts, news>>

-----------------------------------------------------------------------------
(* Claiming of pods and claims                                             *)

(* The resource and the objects as the pass sees them.                     *)
Self(w) == galera[pass[w].list[Resource]]

(* An object matches by its labels and by the name it has in common with   *)
(* the cluster, which is cut off when it is too long.                      *)
Match(o) == o.match /\ NameFits

ToRelease(w, o) == o.live /\ o.owner = Self(w).uid /\ ~Match(o) /\ ~Self(w).deleting

(* Mutant: orphans are adopted for a cluster that is being deleted only. *)
ToAdoptInverted(w, o) ==
    o.live /\ o.owner = 0 /\ Match(o) /\ Self(w).deleting /\ ~o.deleting

ToAdopt(w, o) ==
    o.live /\ o.owner = 0 /\ Match(o) /\ ~Self(w).deleting /\ ~o.deleting

(* Mutant: any controller will do. *)
OwnedByAnyone(w, o) == o.live /\ o.owner # 0 /\ Match(o)

Owned(w, o) == o.live /\ o.owner = Self(w).uid /\ Match(o)

Listing(w, Kind, stage) ==
    /\ pass' = [pass EXCEPT ![w] = [pass[w] EXCEPT
           !.at = stage,
           !.list = [t \in Things |-> IF t \in Kind THEN seen[t] ELSE pass[w].list[t]],
           !.read = pass[w].read \cup Kind,
           !.can = "unknown",
           !.mine = pass[w].mine \cup {o \in Kind : Owned(w, objs[o][seen[o]])},
           !.todo = {o \in Kind : \/ ToRelease(w, objs[o][seen[o]])
                                  \/ ToAdopt(w, objs[o][seen[o]])}]]
    /\ UNCHANGED <<api, seen, queue, errors, restarts, news>>

GetPodsForGalera(w) == pass[w].at = "start" /\ Listing(w, Pods, "pods")
GetClaimsForGalera(w) == pass[w].at = "listed" /\ Listing(w, Claims, "claims")

NewVersion(o, new) == objs' = [objs EXCEPT ![o] = Append(@, new)]
Change == changes < MaxChanges /\ changes' = changes + 1

(* The object is still the one that was listed, not another of its name.   *)
SameObject(w, o) == \A v \in pass[w].list[o]..Len(objs[o]) : objs[o][v].live

(* RecheckDeletionTimestamp: an uncached read, once per listing.           *)
CanAdopt(w) ==
    IF pass[w].can # "unknown" THEN pass[w].can = "yes"
    ELSE Live.uid = Self(w).uid /\ ~Live.deleting

(* The patch is refused when the object has a controller by now; an object *)
(* that is gone is left out, another one of the same name is an error.     *)
AdoptObject(w, o) ==
    LET ok == CanAdopt(w) /\ Api(o).live
        done == ok /\ SameObject(w, o) /\ Api(o).owner \in {0, Self(w).uid}
        error == ~CanAdopt(w) \/ (Api(o).live /\ ~done)
    IN  /\ Claiming(pass[w]) /\ o \in pass[w].todo
        /\ ToAdopt(w, objs[o][pass[w].list[o]])
        /\ pass' = [pass EXCEPT ![w] = [pass[w] EXCEPT
               !.todo = pass[w].todo \ {o},
               !.can = IF CanAdopt(w) THEN "yes" ELSE "no",
               !.mine = IF done THEN pass[w].mine \cup {o} ELSE pass[w].mine,
               !.failed = pass[w].failed \/ error]]
        /\ IF done /\ Api(o).owner = 0
           THEN NewVersion(o, [Api(o) EXCEPT !.owner = Self(w).uid])
           ELSE UNCHANGED objs
        /\ UNCHANGED <<galera, changes, seen, queue, errors, restarts, news>>

(* The patch removes the own reference; objects that are gone or have no   *)
(* such reference are no error.                                            *)
ReleaseObject(w, o) ==
    /\ Claiming(pass[w]) /\ o \in pass[w].todo
    /\ ToRelease(w, objs[o][pass[w].list[o]])
    /\ pass' = [pass EXCEPT ![w].todo = @ \ {o}]
    /\ IF SameObject(w, o) /\ Api(o).owner = Self(w).uid
       THEN NewVersion(o, [Api(o) EXCEPT !.owner = 0])
       ELSE UNCHANGED objs
    /\ UNCHANGED <<galera, changes, seen, queue, errors, restarts, news>>

(* Mutant: the loop over the objects ends before the last one. *)
ClaimedEarly(w) ==
    /\ Claiming(pass[w]) /\ ~pass[w].failed
    /\ pass' = [pass EXCEPT ![w].at = IF @ = "pods" THEN "listed" ELSE "sync"]
    /\ UNCHANGED <<api, seen, queue, errors, restarts, news>>

(* All objects of the listing were tried before an error counts.           *)
Claimed(w) ==
    /\ Claiming(pass[w]) /\ pass[w].todo = {} /\ ~pass[w].failed
    /\ pass' = [pass EXCEPT ![w].at = IF @ = "pods" THEN "listed" ELSE "sync"]
    /\ UNCHANGED <<api, seen, queue, errors, restarts, news>>

NotClaimed(w) ==
    /\ Claiming(pass[w]) /\ pass[w].todo = {} /\ pass[w].failed
    /\ Fails(w)
    /\ UNCHANGED <<api, seen, errors, restarts>>

-----------------------------------------------------------------------------
(* SyncGalera, seen from outside: it creates a missing object, deletes one *)
(* of those handed to it, writes the status or does nothing.               *)
NewObject(w) == [live |-> TRUE, owner |-> Self(w).uid, match |-> TRUE, deleting |-> FALSE]

Effect(w) ==
    \/ \E o \in Objects :
          ~Api(o).live /\ Change /\ NewVersion(o, NewObject(w)) /\ UNCHANGED galera
    \/ \E o \in pass[w].mine :
          /\ Api(o).live /\ ~Api(o).deleting
          /\ Change /\ NewVersion(o, [Api(o) EXCEPT !.deleting = TRUE])
          /\ UNCHANGED galera
    \/ /\ Live.uid = Self(w).uid
       /\ \E m \in {Live.mode, "failed"} :
              Change /\ galera' = Append(galera, [Live EXCEPT !.mode = m])
       /\ UNCHANGED objs
    \/ UNCHANGED api

SyncGalera(w) ==
    /\ pass[w].at = "sync"
    /\ Effect(w)
    /\ Succeeds(w)
    /\ UNCHANGED <<seen, errors, restarts>>

(* Any call of a pass may fail.                                            *)
SyncFails(w) ==
    /\ pass[w].at \in {"start", "pods", "listed", "claims", "sync"}
    /\ errors + restarts < MaxFaults /\ errors' = errors + 1
    /\ Fails(w)
    /\ UNCHANGED <<api, seen, restarts>>

(* The operator stops, whatever its workers are doing: Run does not wait   *)
(* for them.  The next one fills its caches before it starts workers, and  *)
(* gets an event for everything there is.                                  *)
OperatorRestarts ==
    /\ errors + restarts < MaxFaults /\ restarts' = restarts + 1
    /\ seen' = [t \in Things |-> IF t = Resource THEN Len(galera) ELSE Len(objs[t])]
    /\ pass' = [w \in Workers |-> Idle]
    /\ dirty' = (Live.uid # 0) /\ delayed' = FALSE
    /\ news' = IF Live.uid = 0 THEN {} ELSE Things
    /\ UNCHANGED <<api, errors>>

-----------------------------------------------------------------------------
(* The user and Kubernetes                                                 *)

UserCreates ==
    /\ Live.uid = 0 /\ Change
    /\ \E u \in 1..MaxUid :
          /\ \A v \in 1..Len(galera) : galera[v].uid < u
          /\ \A u2 \in 1..(u - 1) : \E v \in 1..Len(galera) : galera[v].uid = u2
          /\ galera' = Append(galera, [NoGalera EXCEPT !.uid = u])
    /\ UNCHANGED <<objs, seen, queue, pass, errors, restarts, news>>

(* An edit of the resource, its annotation of scope included.              *)
UserEdits ==
    /\ Live.uid # 0 /\ Live.mode # "failed" /\ Change
    /\ \E m \in {"run", "foreign"} : galera' = Append(galera, [Live EXCEPT !.mode = m])
    /\ UNCHANGED <<objs, seen, queue, pass, errors, restarts, news>>

(* In the foreground the deletion is first marked.                         *)
UserDeletes ==
    /\ Live.uid # 0 /\ Change
    /\ \/ ~Live.deleting /\ galera' = Append(galera, [Live EXCEPT !.deleting = TRUE])
       \/ galera' = Append(galera, NoGalera)
    /\ UNCHANGED <<objs, seen, queue, pass, errors, restarts, news>>

(* Someone removes the reference or changes the labels of an object.       *)
ObjectEdited(o) ==
    /\ Api(o).live /\ Change
    /\ \/ Api(o).owner # 0 /\ NewVersion(o, [Api(o) EXCEPT !.owner = 0])
       \/ NewVersion(o, [Api(o) EXCEPT !.match = ~@])
       \/ NewVersion(o, Api(o))
    /\ UNCHANGED <<galera, seen, queue, pass, errors, restarts, news>>

(* A deleted object, or one the garbage collector takes after its owner.   *)
ObjectGone(o) ==
    /\ Api(o).live
    /\ Api(o).deleting \/ Api(o).owner \notin {0, Live.uid}
    /\ Change /\ NewVersion(o, NoObject)
    /\ UNCHANGED <<galera, seen, queue, pass, errors, restarts, news>>

Step(w) ==
    \/ SyncSkips(w) \/ GetPodsForGalera(w) \/ GetClaimsForGalera(w)
    \/ Claimed(w) \/ NotClaimed(w) \/ SyncGalera(w)
    \/ \E o \in Objects : AdoptObject(w, o) \/ ReleaseObject(w, o)

Next ==
    \/ GaleraEvent \/ Resync \/ AddRateLimited \/ OperatorRestarts
    \/ UserCreates \/ UserEdits \/ UserDeletes
    \/ \E o \in Objects : ObjectEvent(o) \/ ObjectEdited(o) \/ ObjectGone(o)
    \/ \E w \in Workers : SyncHandler(w) \/ Step(w) \/ SyncFails(w)

(* The workers, the queue and the informers go on; nothing is assumed of   *)
(* the periodic resynchronisation, the user or the garbage collector.      *)
Fairness ==
    /\ WF_vars(GaleraEvent) /\ WF_vars(AddRateLimited)
    /\ \A o \in Objects : WF_vars(ObjectEvent(o))
    /\ WF_vars(\E w \in Workers : SyncHandler(w))
    /\ \A w \in Workers : WF_vars(Step(w))

Spec == Init /\ [][Next]_vars /\ Fairness

-----------------------------------------------------------------------------
(* Properties                                                              *)

NotYetRead(w, t) ==
    \/ t \in Pods /\ pass[w].at = "start"
    \/ t \in Claims /\ pass[w].at \in {"start", "pods", "listed"}

(* No change of the resource, or of a pod or claim it controls, is lost,   *)
(* except that a relist finds the resource gone, when nothing is to do:    *)
(* until a pass that saw it has ended well, the key is in the queue, or    *)
(* waits for a retry, or is held by a worker that read the change or still *)
(* has to (event handlers, enqueueGalera, processNextWorkItem).            *)
NoLostChange ==
    news # {} =>
        \/ dirty \/ delayed
        \/ \E w \in Running : \A t \in news : t \in pass[w].read \/ NotYetRead(w, t)

(* A pass never works on an object that another incarnation of the cluster *)
(* controls: references are compared by uid, and no two passes overlap     *)
(* (resolveControllerRef, ClaimClaims, ClaimPods).                         *)
NoForeignObject ==
    \A w \in Workers : \A o \in pass[w].mine :
        Api(o).live => Api(o).owner \in {0, Self(w).uid}

Orphan(o) ==
    /\ Api(o).live /\ Api(o).owner = 0 /\ Api(o).match /\ ~Api(o).deleting
    /\ Live.uid # 0 /\ ~Live.deleting /\ Live.mode = "run"

(* An orphan with the labels of a managed cluster does not stay one: it is *)
(* adopted, whichever of the two informers hears first, unless it or the   *)
(* cluster goes away (addPod, updatePod, getGalerasForPod, AdoptClaim).    *)
(* It takes the periodic resynchronisation: a relist may skip the versions *)
(* in which an orphan was adopted and freed again.                         *)
OrphansAreAdopted == WF_vars(Resync) => \A o \in Objects : Orphan(o) ~> ~Orphan(o)

Watch == INSTANCE ClusterWatch WITH
    unseen <- news, running <- Cardinality(Running), process <- restarts

(* The controller implements ClusterWatch: passes do not overlap, only a   *)
(* pass that ends well takes changes off the list, and none stays on it.   *)
ImplementsWatch == Watch!Spec
=============================================================================
