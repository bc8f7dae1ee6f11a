-------------------------- MODULE GaleraUpgradeInv --------------------------
(***************************************************************************)
(* Why UpgradedBeforeJoin holds: the inductive invariant that TLC checks   *)
(* on small instances and that GaleraControlProofs proves for all.         *)
(***************************************************************************)
EXTENDS GaleraControl

(***************************************************************************)
(* The two hypotheses of the upgrade theorem.  The user only moves forward *)
(* (no rollback), and CanUpgrade does not answer "no" to a move forward    *)
(* (the images of later revisions are not older).  Without the first, a    *)
(* crash in checkMysqlUpgrade followed by a rollback breaks the property;  *)
(* without the second, a refused revision is labelled as if it had been    *)
(* deployed.                                                               *)
(***************************************************************************)
ForwardEdits == \A e \in Edits : e[1] <= e[2]
NeverRefused == \A e \in Revs \X Revs : e[1] <= e[2] => CanUpgrade[e] # "no"

-----------------------------------------------------------------------------
(* The inductive invariant behind UpgradedBeforeJoin. *)

(* No object, and no copy of it in a cache, is of a revision beyond b. *)
UpTo(b) ==
    \A n \in Names :
        /\ pods[n] # NoPod => pods[n].tmpl <= b
        /\ CachedPods[n] # NoPod => CachedPods[n].rev <= b
        /\ claims[n].rev <= b
        /\ CachedClaims[n].rev <= b
        /\ data[n].ver <= b

SpecInv == CachedSpec.rev <= spec.rev /\ UpTo(CachedSpec.rev)

(* A pod is at least as recent as every label, cached label and content    *)
(* that goes by its name, and its claim outlives it.                       *)
PodInv ==
    \A n \in Names : pods[n] # NoPod =>
        /\ pods[n].phase # "Pending" => claims[n] # NoClaim
        /\ pods[n].rev <= pods[n].tmpl
        /\ CachedPods[n] # NoPod => CachedPods[n].rev <= pods[n].tmpl
        /\ claims[n].rev <= pods[n].tmpl
        /\ CachedClaims[n].rev <= pods[n].tmpl
        /\ data[n].ver <= pods[n].tmpl

(* A claim's label, cached or not, never runs ahead of what is on the      *)
(* volume: mysql_upgrade comes before the label.                           *)
LabelInv ==
    \A n \in Names :
        /\ data[n].ver # NoRev => claims[n].rev <= data[n].ver /\ CachedClaims[n].rev <= data[n].ver
        /\ claims[n] = NoClaim => data[n].ver = NoRev

(* A pod built for the cluster has an empty volume before it starts, or    *)
(* one of its own version.                                                 *)
VolumeInv ==
    \A n \in Names : (pods[n] # NoPod /\ pods[n].state = "cluster") =>
        \/ data[n].ver = pods[n].tmpl
        \/ pods[n].phase = "Pending" /\ data[n].ver = NoRev

(* A label patch never makes a pod look more recent than it is. *)
PatchInv ==
    \A i \in 1..Len(patches) :
        LET q == patches[i]
        IN  pods[q.pod] # NoPod => q.labels.rev <= pods[q.pod].tmpl

(* What the calls that are still to be made rely on. *)
CreatePodInv ==
    \A i \in 1..Len(todo) : todo[i].op = "createPod" =>
        LET n == todo[i].pod
            p == todo[i].new
        IN  /\ i = Len(todo)
            /\ \A j \in 1..Len(todo) : todo[j].op \in {"createClaim", "createBkp", "createPod"}
            /\ \A j \in 1..Len(todo) : todo[j].op = "createClaim" => todo[j].rev = p.tmpl
            /\ p.rev = p.tmpl /\ p.tmpl <= CachedSpec.rev /\ p.phase = "Pending"
            /\ UpTo(p.tmpl)
            /\ (p.state = "cluster" /\ (pods[n] = NoPod \/ pods[n].term))
                   => data[n].ver \in {NoRev, p.tmpl}

CreateClaimInv ==
    \A i \in 1..Len(todo) : todo[i].op = "createClaim" =>
        todo[i].rev <= CachedSpec.rev /\ pods[todo[i].pod] = NoPod

PatchClaimInv ==
    \A i \in 1..Len(todo) : todo[i].op = "patchClaim" =>
        LET n == todo[i].pod
            r == todo[i].rev
        IN  /\ r <= CachedSpec.rev
            /\ \A j \in 1..Len(todo) : todo[j].op \in {"mysqlUpgrade", "deletePod", "patchClaim"}
            /\ pods[n] # NoPod => r <= pods[n].tmpl
            /\ \/ \E j \in 1..(i - 1) : todo[j].op = "mysqlUpgrade" /\ todo[j].pod = n
               \/ data[n].ver = NoRev
               \/ r <= data[n].ver

(* The standalone detour, and all that may interrupt it. *)
DetourInv ==
    /\ SpecInv /\ PodInv /\ LabelInv /\ VolumeInv
    /\ PatchInv /\ CreatePodInv /\ CreateClaimInv /\ PatchClaimInv

(* No status, stored, cached or about to be written, is ahead of the spec: *)
(* what CanUpgrade is asked is always a move forward.                      *)
StatusInv ==
    /\ status.current <= spec.rev
    /\ CachedStatus.current <= CachedSpec.rev
    /\ result # NoStatus => result.current <= spec.rev

(* The inductive invariant: a label never runs ahead of the data it stands *)
(* for, in any interleaving of the calls of checkMysqlUpgrade and          *)
(* CreatePodAndClaim with crashes, edits and stale caches.                 *)
UpgradeInv == StatusInv /\ DetourInv
=============================================================================
