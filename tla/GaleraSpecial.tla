---------------------------- MODULE GaleraSpecial ----------------------------
(***************************************************************************)
(* The special node of a cluster: manageSpecialNode of galera_control.go   *)
(* and what the rest of runGalera does to its pod and volume.              *)
(*                                                                         *)
(* One ordinary node stands for those of the cluster; the others are ready *)
(* all the time, so that there is always somebody to join.  Roles and      *)
(* status are in GaleraControl.  A pod and its data claim share a suffix,  *)
(* which is their name.  Revisions are numbered, and the user only moves   *)
(* forward.                                                                *)
(***************************************************************************)
EXTENDS Naturals, Sequences, FiniteSets

CONSTANTS
    Names,        \* suffixes of pods and claims
    MaxRev,       \* last revision
    NewVolumes,   \* revisions that ask for other volumes than the one before
    MaxEdits,     \* bound on the edits of the resource
    MaxFaults     \* bound on failing calls, crashes, lost pods, and passes with old lists

ASSUME SpecialAssumption ==
    /\ {MaxRev, MaxEdits, MaxFaults} \subseteq Nat /\ MaxRev > 0
    /\ Names # {} /\ IsFiniteSet(Names) /\ NewVolumes \subseteq Nat

VARIABLES
    spec,      \* wanted revision, and whether a special node is wanted
    pods, claims,
    data,      \* version of the database on a volume, 0 when it is empty
    seen,      \* what the informers show of pods and claims
    pass,      \* the resource as the pass has read it, and the calls left
    edits, faults

vars == <<spec, pods, claims, data, seen, pass, edits, faults>>

Revs == 1..MaxRev
Specs == [rev : Revs, special : BOOLEAN]
PodStates == [role : {"node", "special"}, rev : Revs, mode : {"cluster", "standalone"},
              at : {"starting", "ready", "failed", "terminating"}]
NoPod == [role |-> "none", rev |-> 0, mode |-> "none", at |-> "none"]

ClaimSpec(r) == Cardinality({v \in NewVolumes : v <= r})

(* The revision on the label, and the requirements it was created with.    *)
ClaimStates == [rev : Revs, size : {ClaimSpec(r) : r \in Revs}, deleting : BOOLEAN]
NoClaim == [rev |-> 0, size |-> 0, deleting |-> FALSE]

Call(op, n, rev, role, mode) == [op |-> op, pod |-> n, rev |-> rev, role |-> role, mode |-> mode]
Calls == [op : {"deletePod", "deleteClaim", "checkSynced", "mysqlUpgrade", "patchClaim",
                "createClaim", "createPod"},
          pod : Names, rev : Revs \cup {0}, role : {"none", "node", "special"},
          mode : {"none", "cluster", "standalone"}]

TypeOK ==
    /\ spec \in Specs
    /\ pods \in [Names -> PodStates \cup {NoPod}]
    /\ claims \in [Names -> ClaimStates \cup {NoClaim}]
    /\ data \in [Names -> 0..MaxRev]
    /\ seen \in [pods : [Names -> PodStates \cup {NoPod}], claims : [Names -> ClaimStates \cup {NoClaim}]]
    /\ pass \in [spec : Specs, todo : Seq(Calls)]
    /\ edits \in 0..MaxEdits /\ faults \in 0..MaxFaults

Idle == [spec |-> [rev |-> 1, special |-> FALSE], todo |-> << >>]

(* The ordinary nodes are there; the special one is wanted, or will be.    *)
Init ==
    /\ spec \in [rev : {1}, special : BOOLEAN]
    /\ LET n == CHOOSE n \in Names : TRUE
       IN  /\ pods = [m \in Names |-> IF m # n THEN NoPod ELSE
                         [role |-> "node", rev |-> 1, mode |-> "cluster", at |-> "ready"]]
           /\ claims = [m \in Names |-> IF m # n THEN NoClaim ELSE
                           [rev |-> 1, size |-> ClaimSpec(1), deleting |-> FALSE]]
           /\ data = [m \in Names |-> IF m = n THEN 1 ELSE 0]
    /\ seen = [pods |-> pods, claims |-> claims]
    /\ pass = Idle
    /\ edits = 0 /\ faults = 0

-----------------------------------------------------------------------------
(* What a pass sees                                                        *)

Listed == {n \in Names : seen.pods[n] # NoPod}
Terminating == {n \in Listed : seen.pods[n].at = "terminating"}
Of(role) == {n \in Listed \ Terminating : seen.pods[n].role = role}
RunningAndReady(n) == seen.pods[n].at = "ready"

(* IsPrimary asks the pod itself; one that no longer runs does not answer. *)
Answers(n) == pods[n].at \in {"ready", "terminating"}
Primary(n) == RunningAndReady(n) /\ Answers(n) /\ pods[n].mode = "cluster"

ReadyNodes == {n \in Of("node") : Primary(n)}
UnreadyNodes == Of("node") \ ReadyNodes

(* status.Members.Special is one of these.                                 *)
Members == {n \in Of("special") : Primary(n)}

Unused == {n \in Names \ Listed : seen.claims[n] # NoClaim}
Matching(n) == seen.claims[n].size = ClaimSpec(spec.rev)

(* createUniquePodName; a random suffix collides with nothing.             *)
PodNames ==
    IF Unused # {} THEN Unused
    ELSE {n \in Names : pods[n] = NoPod /\ claims[n] = NoClaim /\ seen.claims[n] = NoClaim}

-----------------------------------------------------------------------------
(* Sequences of calls (galera_pod_control.go)                              *)

Do(op, n) == Call(op, n, 0, "none", "none")

(* Mutant: a volume of another version is joined with at once. *)
AlwaysInCluster(n) == "cluster"

(* A volume of another revision is upgraded by a pod that stands alone.    *)
Mode(n) ==
    IF seen.claims[n] # NoClaim /\ seen.claims[n].rev # spec.rev THEN "standalone" ELSE "cluster"

(* Mutant: the pod is created without the label of its revision. *)
CreatePodUnlabelled(n, role) ==
    <<Call("createClaim", n, spec.rev, "none", "none"), Call("createPod", n, 0, role, Mode(n))>>

CreatePodAndClaim(n, role) ==
    (IF seen.claims[n] = NoClaim THEN <<Call("createClaim", n, spec.rev, "none", "none")>> ELSE << >>)
    \o <<Call("createPod", n, spec.rev, role, Mode(n))>>

ForceDeletePodAndClaim(n) ==
    IF seen.claims[n] = NoClaim THEN << >> ELSE <<Do("deleteClaim", n), Do("deletePod", n)>>

DeleteSyncedPodForUpgrade(n) ==
    IF seen.claims[n] = NoClaim THEN <<Do("checkSynced", n)>>
    ELSE IF Matching(n) THEN <<Do("checkSynced", n), Do("deletePod", n)>>
    ELSE <<Do("checkSynced", n), Do("deleteClaim", n), Do("deletePod", n)>>

RunUpgrade(n) ==
    <<Do("mysqlUpgrade", n), Do("deletePod", n),
      Call("patchClaim", n, seen.pods[n].rev, "none", "none")>>

-----------------------------------------------------------------------------
(* A pass: the early returns of runGalera in their order                   *)

Begins(calls) ==
    /\ pass = Idle
    /\ faults' = IF seen = [pods |-> pods, claims |-> claims] THEN faults ELSE faults + 1
    /\ faults' <= MaxFaults
    /\ pass' = IF calls = << >> THEN Idle ELSE [spec |-> spec, todo |-> calls]
    /\ UNCHANGED <<spec, pods, claims, data, seen, edits>>

WithoutClaims == {n \in Listed : RunningAndReady(n) /\ seen.claims[n] = NoClaim}

DeletePodWithoutClaims == \E n \in WithoutClaims : Begins(<<Do("deletePod", n)>>)

(* Without an answer the pass ends with an error.                          *)
Sound ==
    /\ WithoutClaims = {} /\ Cardinality(Members) <= 1
    /\ \A n \in Listed : RunningAndReady(n) => Answers(n)

DeleteSecondSpecial ==
    /\ WithoutClaims = {} /\ Cardinality(Members) > 1
    /\ \E n \in Members : Begins(ForceDeletePodAndClaim(n))

(* A terminating pod ends the pass, and so does a terminating claim.       *)
NoTerminatingClaim == \A n \in Names : ~seen.claims[n].deleting
Mismatched == {n \in Unused : ~Matching(n)}

DeleteMismatchedClaim ==
    /\ Sound /\ Terminating = {}
    /\ \E n \in Mismatched : ~seen.claims[n].deleting /\ Begins(<<Do("deleteClaim", n)>>)

Clean == Sound /\ Terminating = {} /\ NoTerminatingClaim /\ Mismatched = {}

Standalone == {n \in UnreadyNodes : RunningAndReady(n) /\ seen.pods[n].rev # seen.claims[n].rev}

CheckMysqlUpgrade == Clean /\ \E n \in Standalone : Begins(RunUpgrade(n))

Deployable == Clean /\ Standalone = {}

CreateNode ==
    /\ Deployable /\ ReadyNodes = {}
    /\ \/ \E n \in UnreadyNodes : seen.pods[n].at = "failed" /\ Begins(<<Do("deletePod", n)>>)
       \/ /\ \A n \in UnreadyNodes : RunningAndReady(n)
          /\ \E n \in PodNames : Begins(CreatePodAndClaim(n, "node"))

(* Mutant: superfluous claims are always deleted. *)
AlwaysProcesses == TRUE

(* The special node may be one of those that need a claim.                 *)
CanProcess == spec.special => Members # {}

(* A set as a sequence, in any order. *)
Orders(S) == {q \in [1..Cardinality(S) -> S] : \A i, j \in DOMAIN q : q[i] = q[j] => i = j}

(* considerPodAndClaimTermination: what it deletes does not end the pass.  *)
Terminations ==
    IF CanProcess /\ Unused # {} THEN {<<Do("deleteClaim", n)>> : n \in Unused}
    ELSE LET first == IF CanProcess THEN Orders(UnreadyNodes) ELSE {<< >>}
             last == IF Cardinality(ReadyNodes) > 1
                     THEN {<<Do("checkSynced", n), Do("deletePod", n)>> : n \in ReadyNodes}
                     ELSE {<< >>}
         IN  {[i \in DOMAIN q |-> Do("deletePod", q[i])] \o l : q \in first, l \in last}

Outdated == {n \in ReadyNodes : seen.pods[n].rev # spec.rev}

(* The early return for equal revisions has no guard of its own: the       *)
(* current revision is the next one only after a pass that has found every *)
(* node at it, and as the user only moves forward no node is outdated      *)
(* then.                                                                   *)
DeletePodForUpgrade ==
    /\ Deployable /\ ReadyNodes # {} /\ Outdated # {}
    /\ \E t \in Terminations, n \in Outdated : Begins(t \o DeleteSyncedPodForUpgrade(n))

(* The pod the loop over all pods has found last.                          *)
ManageSpecialPod(n) ==
    IF seen.pods[n].at = "failed" THEN <<Do("deletePod", n)>>
    ELSE IF ~RunningAndReady(n) THEN << >>
    ELSE IF seen.pods[n].rev # seen.claims[n].rev THEN RunUpgrade(n)
    ELSE IF seen.pods[n].rev # spec.rev THEN DeleteSyncedPodForUpgrade(n)
    ELSE << >>

Upgraded == Deployable /\ ReadyNodes # {} /\ Outdated = {}

ManageSpecialNode ==
    /\ Upgraded /\ spec.special
    /\ \E t \in Terminations :
          \/ Of("special") = {} /\ \E n \in PodNames : Begins(t \o CreatePodAndClaim(n, "special"))
          \/ \E n \in Of("special") : Begins(t \o ManageSpecialPod(n))

(* Mutant: only a special node that serves is taken away. *)
RemoveServingSpecial ==
    /\ Upgraded /\ ~spec.special
    /\ \E t \in Terminations :
          \/ Members = {} /\ Begins(t)
          \/ \E n \in Members : Begins(t \o ForceDeletePodAndClaim(n))

RemoveSpecialNode ==
    /\ Upgraded /\ ~spec.special
    /\ \E t \in Terminations :
          \/ Of("special") = {} /\ Begins(t)
          \/ \E n \in Of("special") : Begins(t \o ForceDeletePodAndClaim(n))

Sync ==
    \/ DeletePodWithoutClaims \/ DeleteSecondSpecial \/ DeleteMismatchedClaim
    \/ CheckMysqlUpgrade \/ CreateNode \/ DeletePodForUpgrade
    \/ ManageSpecialNode \/ RemoveSpecialNode

-----------------------------------------------------------------------------
(* The calls of a pass                                                     *)

Ended(todo) == IF todo = << >> THEN Idle ELSE [pass EXCEPT !.todo = todo]
Next1 == Head(pass.todo)

Here == Next1.pod

(* Whether the API server, or the container, does what it is asked to.     *)
Accepts ==
    CASE Next1.op = "deletePod"    -> pods[Here] # NoPod
      [] Next1.op = "createPod"    -> pods[Here] = NoPod
      [] Next1.op = "checkSynced"  -> pods[Here].at = "ready" /\ pods[Here].mode = "cluster"
      [] Next1.op = "mysqlUpgrade" -> pods[Here].at = "ready"
      [] Next1.op = "deleteClaim"  -> claims[Here] # NoClaim
      [] Next1.op = "createClaim"  -> claims[Here] = NoClaim
      [] Next1.op = "patchClaim"   -> claims[Here] # NoClaim /\ seen.claims[Here] # NoClaim

(* The next call is of this kind and goes through.                         *)
Calling(op) == pass # Idle /\ Next1.op = op /\ Accepts /\ pass' = Ended(Tail(pass.todo))

DeletePod ==
    /\ Calling("deletePod")
    /\ pods' = [pods EXCEPT ![Here].at = "terminating"]
    /\ UNCHANGED <<claims, data>>

CreatePod ==
    /\ Calling("createPod")
    /\ pods' = [pods EXCEPT ![Here] = [role |-> Next1.role, rev |-> Next1.rev,
                                       mode |-> Next1.mode, at |-> "starting"]]
    /\ UNCHANGED <<claims, data>>

CheckSynced == Calling("checkSynced") /\ UNCHANGED <<pods, claims, data>>

MysqlUpgrade ==
    /\ Calling("mysqlUpgrade")
    /\ data' = [data EXCEPT ![Here] = pods[Here].rev]
    /\ UNCHANGED <<pods, claims>>

DeleteClaim ==
    /\ Calling("deleteClaim")
    /\ claims' = [claims EXCEPT ![Here].deleting = TRUE]
    /\ UNCHANGED <<pods, data>>

CreateClaim ==
    /\ Calling("createClaim")
    /\ claims' = [claims EXCEPT ![Here] =
                     [rev |-> Next1.rev, size |-> ClaimSpec(Next1.rev), deleting |-> FALSE]]
    /\ UNCHANGED <<pods, data>>

PatchClaimLabels ==
    /\ Calling("patchClaim")
    /\ claims' = [claims EXCEPT ![Here].rev = Next1.rev]
    /\ UNCHANGED <<pods, data>>

(* An error ends the pass.                                                 *)
Refused ==
    /\ pass # Idle /\ ~Accepts
    /\ pass' = Idle
    /\ UNCHANGED <<pods, claims, data>>

CallApi ==
    /\ \/ DeletePod \/ CreatePod \/ CheckSynced \/ MysqlUpgrade
       \/ DeleteClaim \/ CreateClaim \/ PatchClaimLabels \/ Refused
    /\ UNCHANGED <<spec, seen, edits, faults>>

(* A call fails for another reason, or the operator stops.                 *)
SyncFails ==
    /\ pass # Idle /\ faults < MaxFaults /\ faults' = faults + 1
    /\ pass' = Idle
    /\ UNCHANGED <<spec, pods, claims, data, seen, edits>>

-----------------------------------------------------------------------------
(* Kubernetes, MariaDB, informers and the user                             *)

(* A pod that joins with an empty volume gets the data from the others.    *)
PodStarts(n) ==
    /\ pods[n].at = "starting" /\ claims[n] # NoClaim /\ ~claims[n].deleting
    /\ pods' = [pods EXCEPT ![n].at = "ready"]
    /\ data' = [data EXCEPT ![n] = IF @ = 0 THEN pods[n].rev ELSE @]
    /\ UNCHANGED <<spec, claims, seen, pass, edits, faults>>

PodFails(n) ==
    /\ pods[n].at = "ready" /\ faults < MaxFaults /\ faults' = faults + 1
    /\ pods' = [pods EXCEPT ![n].at = "failed"]
    /\ UNCHANGED <<spec, claims, data, seen, pass, edits>>

PodIsGone(n) ==
    /\ pods[n].at = "terminating"
    /\ pods' = [pods EXCEPT ![n] = NoPod]
    /\ UNCHANGED <<spec, claims, data, seen, pass, edits, faults>>

ClaimIsGone(n) ==
    /\ claims[n].deleting /\ pods[n] = NoPod
    /\ claims' = [claims EXCEPT ![n] = NoClaim]
    /\ data' = [data EXCEPT ![n] = 0]
    /\ UNCHANGED <<spec, pods, seen, pass, edits, faults>>

InformerCatchesUp(kind) ==
    /\ seen' = [seen EXCEPT ![kind] = IF kind = "pods" THEN pods ELSE claims]
    /\ UNCHANGED <<spec, pods, claims, data, pass, edits, faults>>

UserEdits ==
    /\ edits < MaxEdits /\ edits' = edits + 1
    /\ \/ spec' = [spec EXCEPT !.special = ~@]
       \/ \E r \in Revs : r > spec.rev /\ spec' = [spec EXCEPT !.rev = r]
    /\ UNCHANGED <<pods, claims, data, seen, pass, faults>>

Next ==
    \/ Sync \/ CallApi \/ SyncFails \/ UserEdits
    \/ \E kind \in {"pods", "claims"} : InformerCatchesUp(kind)
    \/ \E n \in Names : PodStarts(n) \/ PodFails(n) \/ PodIsGone(n) \/ ClaimIsGone(n)

(* Passes are repeated and go on, the informers and the kubelet as well.   *)
Fairness ==
    /\ WF_vars(Sync) /\ WF_vars(CallApi)
    /\ \A kind \in {"pods", "claims"} : WF_vars(InformerCatchesUp(kind))
    /\ \A n \in Names : WF_vars(PodStarts(n)) /\ WF_vars(PodIsGone(n)) /\ WF_vars(ClaimIsGone(n))

Spec == Init /\ [][Next]_vars /\ Fairness

-----------------------------------------------------------------------------
(* Properties                                                              *)

(* Whichever of the ordinary and the special node takes over a volume, and *)
(* wherever a pass was cut short: nobody joins the cluster with data of    *)
(* another version (the detour of manageSpecialNode and checkMysqlUpgrade).*)
SpecialUpgradedBeforeJoin ==
    \A n \in Names : pods[n].at = "ready" /\ pods[n].mode = "cluster" => data[n] = pods[n].rev

(* Volumes the special node may come back on: they have its requirements,  *)
(* and nobody uses them or gives them up.                                  *)
Spare(want) ==
    {n \in Names : /\ claims[n] # NoClaim /\ ~claims[n].deleting /\ pods[n] = NoPod
                   /\ claims[n].size = ClaimSpec(want.rev)}

(* While a special node is wanted and has no pod, the last volume it could *)
(* come back on is not given up (canProcess in                             *)
(* considerPodAndClaimTermination), also when a pass works with an old     *)
(* list of pods.                                                           *)
VolumeKeptForSpecial ==
    [][pass.spec.special /\ Spare(pass.spec) # {} /\ (\A n \in Names : pods[n].role # "special")
       => \E n \in Spare(pass.spec) : ~claims'[n].deleting]_vars

Serving(role) ==
    {n \in Names : pods[n] = [role |-> role, rev |-> spec.rev, mode |-> "cluster", at |-> "ready"]}

(* One ordinary node, the special node when it is wanted, and nothing else.*)
AsWanted ==
    /\ Cardinality(Serving("node")) = 1
    /\ Cardinality(Serving("special")) = IF spec.special THEN 1 ELSE 0
    /\ \A n \in Names :
          /\ pods[n] # NoPod => n \in Serving("node") \cup Serving("special")
          /\ claims[n] # NoClaim => pods[n] # NoPod

(* A volume that was given up under a pod that was not.                    *)
HalfDeleted == \E n \in Names : pods[n] # NoPod /\ (claims[n] = NoClaim \/ claims[n].deleting)

(* A pod that stands alone on a volume that no longer needs it: it was     *)
(* created when the cache did not show the new label of the claim.         *)
Stranded == \E n \in Names : pods[n].mode = "standalone" /\ pods[n].rev = claims[n].rev

(* The special node comes, follows every upgrade and goes as the user      *)
(* wants it, also when pods fail or passes are cut short or work with old  *)
(* lists, with two exceptions: a pass cut between the two deletions of     *)
(* ForceDeletePodAndClaim or DeleteSyncedPodForUpgrade, and a pod stranded *)
(* by an old list of claims (manageSpecialNode).                           *)
SpecialSettles == <>[](HalfDeleted \/ Stranded \/ AsWanted)
=============================================================================
