-------------------------- MODULE MCGaleraControl --------------------------
(***************************************************************************)
(* Instances of GaleraControl for TLC, with the upgrade policy in place of *)
(* the verdicts that GaleraControl takes as a constant.                    *)
(***************************************************************************)
EXTENDS GaleraUpgradeInv, GaleraDeployInv, GaleraUpgradePolicy

(***************************************************************************)
(* Revision 1 is the running one, 2 has a newer image, 3 asks for other    *)
(* volumes, 4 has an older image, 5 only other resources for the pods, and *)
(* 6 an image that no longer supports an option of its my.cnf.             *)
(***************************************************************************)
Image1043 == <<<<1, 0>>, <<4>>, <<3>>>>
Image1044 == <<<<1, 0>>, <<4>>, <<4>>>>
Image1042 == <<<<1, 0>>, <<4>>, <<2>>>>
Image1051 == <<<<1, 0>>, <<5>>, <<1>>>>

MCImage     == <<Image1043, Image1044, Image1043, Image1042, Image1043, Image1051>>
MCClaimSpec == <<"10Gi", "10Gi", "20Gi", "10Gi", "10Gi", "10Gi">>
MCCnf       == {"innodb_file_format"}

MCConfig ==
    [named |-> TRUE, found |-> TRUE, rules |-> {"innodb_file_format", "wsrep_sst_method"},
     sets |-> {[target |-> <<<<1, 0>>, <<5>>>>, removed |-> {"innodb_file_format"}],
               [target |-> Image1044, removed |-> {"wsrep_sst_method"}]}]

MCCanUpgrade ==
    [e \in (1..6) \X (1..6) |-> CanUpgradeImage(MCImage[e[1]], MCImage[e[2]], MCConfig, MCCnf)]

(* What the user may do. *)
NoEdits        == {}
EitherUpgrade  == {<<1, 2>>, <<1, 3>>}
AnyImage       == {<<1, 2>>, <<1, 4>>, <<1, 6>>, <<6, 1>>}
Refused        == {<<1, 4>>}
ThereAndBack   == {<<1, 5>>, <<5, 1>>}
NoScaling      == {}
UpAndDown      == {<<3, 5>>, <<5, 3>>}

(* Pod names are interchangeable. *)
NamesSymmetry  == Permutations(Names)

(* The number that digits stand for. *)
Value(digits) == FoldLeft(LAMBDA n, d : 10 * n + d, 0, digits)

Older(v, w) ==
    \E k \in 1..3 : Value(v[k]) < Value(w[k]) /\ \A j \in 1..(k - 1) : v[j] = w[j]

(* What a new pod finds beside it.                                         *)
Builds(n) == pods[n] = NoPod /\ pods'[n] # NoPod
Images    == {MCImage[pods[m].tmpl] : m \in {m \in Names : pods[m] # NoPod}}

(* A revision that CanUpgrade refuses after what is deployed has become    *)
(* the current one.                                                        *)
RefusedIsCurrent ==
    /\ status.current = spec.rev
    /\ \E m \in Names : pods[m] # NoPod /\ CanUpgrade[<<pods[m].tmpl, status.current>>] = "no"

(* No pod is built beside one of a later version, compared number by       *)
(* number, nor is one whose image has dropped an option of my.cnf built    *)
(* beside another image, whichever nodes die while the user asks for it    *)
(* and takes it back (CanUpgrade, syncGalera).  The exception is a refused *)
(* revision that completeRollingUpdate has adopted.                        *)
NoDowngrade ==
    [][\A n \in Names : Builds(n) /\ ~RefusedIsCurrent =>
          LET new == MCImage[pods'[n].tmpl]
          IN  \A old \in Images \ {new} : ~Older(new, old) /\ new # Image1051]_vars

(* "If we can not upgrade, keep using the current controller revision"     *)
(* (syncGalera): a pod is never built older than one beside it, whatever   *)
(* upgrade was refused before.                                             *)
NeverOlder ==
    [][\A n \in Names : Builds(n) =>
          \A old \in Images : ~Older(MCImage[pods'[n].tmpl], old)]_vars
=============================================================================
