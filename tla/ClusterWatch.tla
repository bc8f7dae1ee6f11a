---------------------------- MODULE ClusterWatch ----------------------------
(***************************************************************************)
(* What the controller promises to the reconcile loop of one cluster: at   *)
(* most one pass at a time, and every change of something that belongs to  *)
(* the cluster is eventually seen by a pass that ends well.  How events    *)
(* and keys travel is left to GaleraController, which implements this.     *)
(***************************************************************************)
EXTENDS Naturals

CONSTANT Things   \* what a pass reads: the resource, its pods and its claims

VARIABLES
    unseen,    \* things whose last change no pass that ended well has seen
    running,   \* number of passes under way
    process    \* number of times the operator was started again

vars == <<unseen, running, process>>

Init == unseen = {} /\ running = 0 /\ process = 0

Change == unseen \subseteq unseen' /\ UNCHANGED <<running, process>>

Begin == running = 0 /\ running' = 1 /\ UNCHANGED <<unseen, process>>

Succeed ==
    /\ running = 1
    /\ running' = 0
    /\ unseen' \subseteq unseen
    /\ UNCHANGED process

Fail == running = 1 /\ running' = 0 /\ UNCHANGED <<unseen, process>>

(* A new operator looks at everything afresh.                              *)
Restart ==
    /\ process' = process + 1
    /\ running' = 0
    /\ unseen' \in SUBSET Things

Next == Change \/ Begin \/ Succeed \/ Fail \/ Restart

EverythingIsSeen == \A t \in Things : (t \in unseen) ~> (t \notin unseen)

Spec == Init /\ [][Next]_vars /\ EverythingIsSeen
=============================================================================
