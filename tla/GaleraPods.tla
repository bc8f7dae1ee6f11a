----------------------------- MODULE GaleraPods -----------------------------
(***************************************************************************)
(* The pods of a Galera cluster as the operator reads and labels them:     *)
(* the label sets put on a new pod, the patch actions, the choice of a     *)
(* role for a new pod and the distribution of the Writer and BackupWriter  *)
(* roles over the ready pods (setLabels).  Everything here is a constant   *)
(* operator; the state machines of the other modules apply them.           *)
(*                                                                         *)
(* A pod is a record with the labels rev, role, reader and backup, what it *)
(* was built with (tmpl: the revision of its template; state: cluster or   *)
(* standalone; init: told to bootstrap a cluster), and what Kubernetes and *)
(* MariaDB report of it: phase, term (DeletionTimestamp set) and wsrep     *)
(* (the value of wsrep_cluster_status).  The copy of state kept as a label *)
(* is read by the disruption budget's selector only and is left out.       *)
(***************************************************************************)
EXTENDS Integers, SequencesExt

(* The absent pod, and the absent member in status.Members. *)
NoPod == [phase |-> "absent"]
NoMember == "nobody"

RoleLabels == {"none", "writer", "backup-writer"}
(* What choseRole hands to newGaleraPod. *)
Roles == {"writer", "backup-writer", "backup", "reader"}

(***************************************************************************)
(* Predicates on a pod.  Phase "Ready" stands for: PodRunning, no          *)
(* container terminated, PodReady condition; "Failed" for PodFailed or a   *)
(* terminated container (RestartPolicy is Never).                          *)
(***************************************************************************)
IsRunningAndReady(p) == p.phase = "Ready"
IsFailed(p) == p.phase = "Failed"
IsTerminating(p) == p.term
IsHealthy(p) == IsRunningAndReady(p) /\ ~IsTerminating(p)

(* The values of wsrep_cluster_status: a node cut off from the majority is *)
(* non-Primary, one whose replication is off is Disconnected.              *)
WsrepStates == {"Primary", "non-Primary", "Disconnected"}

(* IsPrimary looks for "Primary" anywhere in the line of                   *)
(* wsrep_cluster_status, and finds it in "non-Primary" too.                *)
IsPrimary(p) == p.wsrep \in {"Primary", "non-Primary"}

(* A pod that the operator counts as ready has a role, is the Backup pod   *)
(* or reads; no service selects another one.                               *)
Useful(p) == p.role # "none" \/ p.backup \/ p.reader

(* The labels of a pod, as one value: PatchPodLabels replaces all of them. *)
LabelsOf(p) == [rev |-> p.rev, role |-> p.role, reader |-> p.reader, backup |-> p.backup]

(* Mutant: every role becomes a role label. *)
RoleLabelForEveryRole(role, revision) ==
    [rev |-> revision, role |-> role, reader |-> role # "writer", backup |-> role = "backup"]

(* Mutant: a pod without a role is created without the reader label. *)
ReaderLabelForgotten(role, revision) ==
    [rev    |-> revision,
     role   |-> IF role \in {"writer", "backup-writer"} THEN role ELSE "none",
     reader |-> role = "backup-writer",
     backup |-> role = "backup"]

(* PodLabelsForGalera: the labels a pod is created with. *)
PodLabelsForGalera(role, revision) ==
    [rev    |-> revision,
     role   |-> IF role \in {"writer", "backup-writer"} THEN role ELSE "none",
     reader |-> role # "writer",
     backup |-> role = "backup"]

(* The patch actions, on a label set. *)
AddReader(l)       == [l EXCEPT !.reader = TRUE]
RemoveReader(l)    == [l EXCEPT !.reader = FALSE]
AddWriter(l)       == [l EXCEPT !.role = "writer"]
AddBackupWriter(l) == [l EXCEPT !.role = "backup-writer"]
RemoveRole(l)      == [l EXCEPT !.role = "none"]

(* choseRole: the first role the cluster lacks. *)
ChoseRole(m) ==
    CASE m.writer = NoMember    -> "writer"
      [] m.writer # NoMember /\ m.bkpWriter = NoMember -> "backup-writer"
      [] m.writer # NoMember /\ m.bkpWriter # NoMember /\ m.backup = NoMember -> "backup"
      [] OTHER -> "reader"

-----------------------------------------------------------------------------
(***************************************************************************)
(* The lister returns the pods in no particular order.  A pass works on    *)
(* sets of pod names and a sequence ord, the order of this listing: the    *)
(* "for ... range" loops that stop at the first pod they find take the     *)
(* first of the listing that is in a set.                                  *)
(***************************************************************************)
FirstIn(ord, S) ==
    LET I == {i \in DOMAIN ord : ord[i] \in S}
    IN  IF I = {} THEN NoMember ELSE ord[Min(I)]

(* S as the one sequence that follows the listing (a singleton set). *)
InOrder(ord, S) ==
    {s \in SetToSeqs(S) : \A i, j \in DOMAIN s : i < j =>
        \E a, b \in DOMAIN ord : a < b /\ ord[a] = s[i] /\ ord[b] = s[j]}

Patch(n, labels) == [op |-> "patchPod", pod |-> n, labels |-> labels]

(***************************************************************************)
(* setLabels(readyPods, status): the patches it sends, in order, and the   *)
(* members it leaves in the status.  Every patch is computed from the      *)
(* cached pod P[n], also when an earlier patch of the same call has        *)
(* already changed that pod's labels.  ok is FALSE when it returns an      *)
(* error (no candidate for a role).                                        *)
(***************************************************************************)
NoChange(m) == [patches |-> << >>, members |-> m, ok |-> TRUE]

SetLabelsOne(P, n, m) ==
    [NoChange(m) EXCEPT !.patches = <<Patch(n, AddWriter(AddReader(LabelsOf(P[n]))))>>]

(* Mutant: the new Writer loses its reader label and is given no role. *)
TwoNoWriterWithoutRole(P, r1, r2, m) ==
    LET w == IF P[r1].backup THEN r2 ELSE r1
        b == IF P[r1].backup THEN r1 ELSE r2
    IN  [patches |-> <<Patch(w, RemoveReader(LabelsOf(P[w]))),
                       Patch(b, AddBackupWriter(AddReader(LabelsOf(P[b]))))>>,
         members |-> [m EXCEPT !.writer = w, !.bkpWriter = b],
         ok      |-> TRUE]

(* The two ready pods r1, r2 and no Writer: the Writer is not the Backup   *)
(* pod.                                                                    *)
SetLabelsTwoNoWriter(P, r1, r2, m) ==
    LET w == IF P[r1].backup THEN r2 ELSE r1
        b == IF P[r1].backup THEN r1 ELSE r2
    IN  [patches |-> <<Patch(w, AddWriter(RemoveReader(LabelsOf(P[w])))),
                       Patch(b, AddBackupWriter(AddReader(LabelsOf(P[b]))))>>,
         members |-> [m EXCEPT !.writer = w, !.bkpWriter = b],
         ok      |-> TRUE]

(* The Writer's reader label, when it still has one, is removed last. *)
WriterStopsReading(P, ready, w) ==
    IF w \in ready /\ P[w].reader THEN <<Patch(w, RemoveReader(LabelsOf(P[w])))>> ELSE << >>

SetLabelsTwoWriter(P, ord, ready, m) ==
    LET other == FirstIn(ord, ready \ {m.writer})
        add   == m.bkpWriter = NoMember
    IN  [patches |-> (IF add
                      THEN <<Patch(other, AddBackupWriter(AddReader(LabelsOf(P[other]))))>>
                      ELSE << >>) \o WriterStopsReading(P, ready, m.writer),
         members |-> IF add THEN [m EXCEPT !.bkpWriter = other] ELSE m,
         ok      |-> TRUE]

(* Three or more ready pods.  The BackupWriter found in the second part is *)
(* stored in Members.Writer, as in the source.                             *)
SetLabelsMany(P, ord, ready, m) ==
    LET plain   == {n \in ready : ~P[n].backup /\ P[n].role = "none"}
        needW   == m.writer = NoMember
        w       == IF needW THEN FirstIn(ord, plain) ELSE m.writer
        wPatch  == IF needW THEN <<Patch(w, AddWriter(RemoveReader(LabelsOf(P[w]))))>> ELSE << >>
        needB   == m.bkpWriter = NoMember
        b       == FirstIn(ord, plain \ {w})
        bPatch  == IF needB THEN <<Patch(b, AddBackupWriter(AddReader(LabelsOf(P[b]))))>> ELSE << >>
        last    == IF needB THEN b ELSE w
    IN  IF w = NoMember
        THEN [NoChange(m) EXCEPT !.ok = FALSE]
        ELSE IF needB /\ b = NoMember
        THEN [patches |-> wPatch, members |-> [m EXCEPT !.writer = w], ok |-> FALSE]
        ELSE [patches |-> wPatch \o bPatch \o WriterStopsReading(P, ready, last),
              members |-> [m EXCEPT !.writer = last],
              ok      |-> TRUE]

SetLabels(P, ord, ready, m) ==
    LET r1 == FirstIn(ord, ready)
        r2 == FirstIn(ord, ready \ {r1})
    IN  CASE Cardinality(ready) = 0 -> NoChange(m)
          [] Cardinality(ready) = 1 -> SetLabelsOne(P, r1, m)
          [] Cardinality(ready) = 2 /\ m.writer = NoMember -> SetLabelsTwoNoWriter(P, r1, r2, m)
          [] Cardinality(ready) = 2 /\ m.writer # NoMember -> SetLabelsTwoWriter(P, ord, ready, m)
          [] OTHER -> SetLabelsMany(P, ord, ready, m)
=============================================================================
