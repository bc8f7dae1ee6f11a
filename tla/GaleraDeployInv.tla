--------------------------- MODULE GaleraDeployInv ---------------------------
(***************************************************************************)
(* Why OneNodeAtATime, OneDatabase, LastCopyKept and NoIdleNode hold: the  *)
(* inductive invariants that TLC checks on small instances and that        *)
(* GaleraDeployProofs proves for all.  They are about an operator whose    *)
(* informers of pods and claims do not lag.                                *)
(***************************************************************************)
EXTENDS GaleraControl

(* The user never asks for fewer than k nodes. *)
NeverBelow(k) == \A e \in Scales : e[2] >= k

-----------------------------------------------------------------------------
(* Pods that start, one at a time. *)

Up(n) == pods[n] # NoPod /\ ~pods[n].term

(* Pods that have not joined the cluster yet. *)
Joining ==
    {n \in Names : /\ Up(n)
                   /\ pods[n].phase = "Pending"
                         \/ (pods[n].phase = "Ready" /\ pods[n].state = "standalone")}

(* Pods that are, or may become, the ready Backup pod. *)
BackupsUp ==
    {n \in Names : /\ Up(n) /\ pods[n].backup
                   /\ pods[n].phase = "Pending" \/ pods[n].wsrep # "Disconnected"}

(* A node answers when it runs in the cluster; a pod that runs has its     *)
(* claims.                                                                 *)
RunningInv ==
    \A n \in Names : pods[n] # NoPod =>
        /\ pods[n].wsrep # "Disconnected" => pods[n].phase = "Ready" /\ pods[n].state = "cluster"
        /\ pods[n].phase = "Ready" => /\ claims[n] # NoClaim
                                      /\ pods[n].backup => bkps[n] # "none"

(* No label patch changes what a pod is. *)
RelabelInv ==
    \A i \in 1..Len(patches) :
        LET q == patches[i]
        IN  pods[q.pod] # NoPod =>
               q.labels.rev = pods[q.pod].rev /\ q.labels.backup = pods[q.pod].backup

(* A standalone pod is there because its claim is of another revision. *)
StandaloneInv ==
    \A n \in Names : (Up(n) /\ pods[n].state = "standalone") =>
        claims[n] # NoClaim /\ claims[n].rev # pods[n].rev

(* A claim is relabelled when its pod has been deleted. *)
DetourOrder ==
    \A i \in 1..Len(todo) : todo[i].op = "patchClaim" =>
        \/ ~Up(todo[i].pod)
        \/ \E j \in 1..(i - 1) : todo[j].op = "deletePod" /\ todo[j].pod = todo[i].pod

(* What the creation of a pod relies on until the call is made. *)
CreationInv ==
    \A i \in 1..Len(todo) : todo[i].op = "createPod" =>
        LET n == todo[i].pod
            p == todo[i].new
        IN  /\ i = Len(todo)
            /\ \A j \in 1..Len(todo) : todo[j].op \in {"createClaim", "createBkp", "createPod"}
            /\ p.phase = "Pending" /\ p.wsrep = "Disconnected"
            /\ p.state = "standalone" =>
                  claims[n] # NoClaim /\ claims[n].rev # p.rev /\ ~claims[n].term
            /\ Joining = {}
            /\ p.backup => BackupsUp = {}

StartInv ==
    /\ RunningInv /\ RelabelInv /\ StandaloneInv /\ DetourOrder /\ CreationInv
    /\ \A m, n \in Joining : m = n
    /\ \A m, n \in BackupsUp : m = n

-----------------------------------------------------------------------------
(* Nodes that are taken away, one at a time. *)

(* Pods the running pass will delete. *)
Doomed == {n \in Names : \E i \in 1..Len(todo) : todo[i].op = "deletePod" /\ todo[i].pod = n}

(* Nodes that have failed, or left the Primary component, by themselves. *)
Hurt ==
    {n \in Names : /\ pods[n] # NoPod
                   /\ \/ pods[n].phase = "Failed"
                      \/ /\ pods[n].phase = "Ready" /\ pods[n].state = "cluster"
                         /\ pods[n].wsrep # "Primary"}

Enough == Cardinality(Serving \ Doomed) + 1 + failures + partitions >= InitReplicas

(* The phase is Running, or was when a pass read it, or will be. *)
SaysRunning ==
    \/ status.phase = "Running"
    \/ CachedStatus.phase = "Running"
    \/ result # NoStatus /\ result.phase = "Running"

(* The inductive invariant behind OneNodeAtATime: nobody but the failed    *)
(* nodes and a single joining pod is missing from the ones that serve, and *)
(* what a pass is about to delete has been taken off already.              *)
AvailabilityInv ==
    /\ StartInv
    /\ spec.replicas >= InitReplicas /\ CachedSpec.replicas >= InitReplicas
    /\ Cardinality(Hurt) <= failures + partitions
    /\ SaysRunning => Enough

-----------------------------------------------------------------------------
(* The database survives interrupted passes. *)

(* Nodes stay together: one that runs in the cluster is Primary. *)
NoSplit ==
    \A n \in Names : (pods[n] # NoPod /\ pods[n].phase = "Ready" /\ pods[n].state = "cluster")
        => pods[n].wsrep = "Primary"

(* Nodes that serve and that the operator counts as ready. *)
ReadyPods == {n \in Serving : Useful(pods[n])}

(* Claims the running pass will delete. *)
Discarded == {n \in Names : \E i \in 1..Len(todo) : todo[i].op = "deleteClaim" /\ todo[i].pod = n}

(* Nodes whose volume goes with them. *)
Ending == {n \in Serving : n \in Discarded \/ claims[n].term}

(* The label patches of the running pass leave the pod useful. *)
StaysUseful(n) == \A i \in 1..Len(patches) : patches[i].pod = n => Useful(patches[i].labels)

(* Ready nodes that the running pass leaves alone. *)
Safe == {n \in ReadyPods \ (Doomed \cup Ending) : StaysUseful(n)}

(* A new pod founds a database only when there is none. *)
FounderInv ==
    /\ \A n \in Names : (Up(n) /\ pods[n].phase = "Pending" /\ pods[n].init) => ~bootstrapped
    /\ \A i \in 1..Len(todo) : (todo[i].op = "createPod" /\ todo[i].new.init) => ~bootstrapped

(* A pod that starts will be counted as ready, and the founder of the      *)
(* database is left alone.                                                 *)
StartingInv ==
    /\ \A i \in 1..Len(todo) : todo[i].op = "createPod" => Useful(todo[i].new)
    /\ \A i \in 1..Len(patches) :
          LET n == patches[i].pod IN pods[n] = NoPod \/ pods[n].phase # "Pending"
    /\ \A n \in Names : (Up(n) /\ pods[n].phase = "Pending") =>
          /\ Useful(pods[n])
          /\ n \notin Discarded
          /\ ~bootstrapped => n \notin Doomed

(* The inductive invariant behind OneDatabase and LastCopyKept when nodes  *)
(* do not fail: of the three nodes or more that a pass finds before it     *)
(* stops one, at most one loses its last label and at most one its volume. *)
CrashInv ==
    /\ StartInv
    /\ spec.replicas >= 3 /\ CachedSpec.replicas >= 3
    /\ NoSplit
    /\ bootstrapped => Safe # {}
    /\ ~bootstrapped => Primaries = {} /\ patches = << >>
    /\ FounderInv /\ StartingInv
    /\ \A m, n \in Ending : m = n
    /\ OneDatabase

-----------------------------------------------------------------------------
(* The database survives node failures. *)

(* The user never asks for fewer nodes than before. *)
OnlyGrows == \A e \in Scales : e[2] >= e[1]

(* No edit changes the volume requirements. *)
SameVolumes == \A r, s \in Revs : ClaimSpec[r] = ClaimSpec[s]

(* Volumes with the database that the running pass keeps, and whose pod,   *)
(* if there is one, is not lost from sight.                                *)
Holders ==
    {n \in Names \ Discarded :
        /\ claims[n] # NoClaim /\ ~claims[n].term /\ data[n].db
        /\ pods[n] # NoPod => Useful(pods[n])
        /\ StaysUseful(n)}

(* A volume is empty only until the pod it is for has joined. *)
VolumesInv ==
    \A n \in Names : (claims[n] # NoClaim /\ ~data[n].db) =>
        \/ Up(n) /\ pods[n].phase = "Pending" /\ pods[n].state = "cluster"
        \/ \E i \in 1..Len(todo) : /\ todo[i].op = "createPod" /\ todo[i].pod = n
                                   /\ todo[i].new.state = "cluster"

(* Nothing stands in the way of a creation: no call of its pass will be    *)
(* refused.  A claim is made for a pod that follows.                       *)
UnhinderedInv ==
    /\ \A i \in 1..Len(todo) : todo[i].op = "createClaim" => todo[Len(todo)].op = "createPod"
    /\ \A i \in 1..Len(todo) : todo[i].op = "createPod" =>
          LET n == todo[i].pod
          IN  /\ pods[n] = NoPod /\ ~todo[i].new.term
              /\ claims[n] # NoClaim => ~claims[n].term
              /\ \A j \in 1..Len(patches) : Up(patches[j].pod)
              /\ \A j \in 1..Len(todo) :
                    /\ todo[j].pod = n
                    /\ todo[j].op = "createClaim" =>
                          j = 1 /\ claims[n] = NoClaim /\ todo[i].new.state = "cluster"
                    /\ todo[j].op = "createBkp" => j = i - 1 /\ bkps[n] = "none"

(* Before the database exists at most one pod is there, and it starts. *)
NothingYet ==
    ~bootstrapped =>
        /\ patches = << >> /\ Doomed = {} /\ Discarded = {}
        /\ \A n \in Names :
              /\ ~data[n].db
              /\ pods[n] # NoPod =>
                    Up(n) /\ pods[n].phase = "Pending" /\ pods[n].state = "cluster"

(* A pod told to found the database finds it on its volume, or is first. *)
FoundsInv ==
    /\ \A n \in Names : (Up(n) /\ pods[n].phase = "Pending" /\ pods[n].init) =>
          ~bootstrapped \/ data[n].db
    /\ \A i \in 1..Len(todo) : (todo[i].op = "createPod" /\ todo[i].new.init) =>
          ~bootstrapped \/ data[todo[i].pod].db

(* The volume of a pod is left to it, and a pod that starts is left alone. *)
KeptInv ==
    \A n \in Names : Up(n) =>
        /\ n \notin Discarded
        /\ claims[n] # NoClaim => ~claims[n].term
        /\ pods[n].phase = "Pending" => n \notin Doomed

(* Nodes that the operator counts, or counted before its label patches. *)
CountedPods == {n \in Serving : Useful(pods[n]) \/ \E i \in 1..Len(patches) : patches[i].pod = n}

(* A pod starts, or is about to be created. *)
SomeStarts ==
    \/ \E n \in Names : Up(n) /\ pods[n].phase = "Pending"
    \/ \E i \in 1..Len(todo) : todo[i].op = "createPod"

(* While a pod starts there are too few. *)
RoomInv == SomeStarts => Cardinality(CountedPods) < CachedSpec.replicas

(* The inductive invariant behind OneDatabase and LastCopyKept when nodes  *)
(* fail and passes are not cut short.                                      *)
FailureInv ==
    /\ StartInv /\ NoSplit /\ StartingInv
    /\ VolumesInv /\ UnhinderedInv /\ NothingYet /\ FoundsInv /\ KeptInv /\ RoomInv
    /\ CachedSpec.replicas <= spec.replicas
    /\ bootstrapped => Holders # {}
    /\ OneDatabase

-----------------------------------------------------------------------------
(* Every node that serves is behind a service. *)

(* The user never asks for more nodes than k. *)
NeverAbove(k) == \A e \in Scales : e[2] <= k

(* Nodes that the operator takes for Primary. *)
Answering == {n \in Names : Up(n) /\ pods[n].phase = "Ready" /\ IsPrimary(pods[n])}

(* The nodes that are, or will be, among them. *)
Present == Answering \cup {n \in Names : Up(n) /\ pods[n].phase = "Pending"}
Expected == Present \cup {n \in Names : \E i \in 1..Len(todo) : todo[i].op = "createPod" /\ todo[i].pod = n}

(* A pod has a role and the label patches of the pass leave it. *)
KeepsRole(n, role) ==
    pods[n].role = role /\ \A i \in 1..Len(patches) : patches[i].pod = n => patches[i].labels.role = role

(* A pod has a role once the label patches of the pass are made. *)
GetsRole(n, role) ==
    \/ KeepsRole(n, role)
    \/ \E i \in 1..Len(patches) :
          /\ patches[i].pod = n
          /\ \A j \in i..Len(patches) : patches[j].pod = n => patches[j].labels.role = role

(* Every label set, present or to come, has a service that selects it. *)
UsefulInv ==
    /\ \A n \in Names : pods[n] # NoPod => Useful(pods[n])
    /\ \A i \in 1..Len(patches) : Useful(patches[i].labels)
    /\ \A i \in 1..Len(todo) : todo[i].op = "createPod" => Useful(todo[i].new)

(* No pod has the name of the one that is to be created. *)
FreeNames == \A i \in 1..Len(todo) : todo[i].op = "createPod" => pods[todo[i].pod] = NoPod

(* The inductive invariant behind NoIdleNode, for three replicas or fewer: *)
(* when a third node comes the other two have the two roles, so that no    *)
(* pass distributes them over three nodes or more.                         *)
RolesInv ==
    /\ StartInv
    /\ spec.replicas <= 3 /\ CachedSpec.replicas <= 3
    /\ UsefulInv /\ FreeNames
    /\ Cardinality(Expected) <= 3
    /\ \A role \in {"writer", "backup-writer"} :
          /\ Cardinality(Present) > 2 => \E n \in Answering : KeepsRole(n, role)
          /\ Cardinality(Expected) > 2 => \E n \in Answering : GetsRole(n, role)
=============================================================================
