# Formal model of the Galera operator

The operator keeps MariaDB Galera clusters running on Kubernetes: it creates
pods and volume claims, gives the nodes their roles, upgrades images and volumes
node by node, repairs, scales, restores and backs up. This directory holds a
TLA+ model of its controllers, reconcile loop, upgrades, special node, restores and
backups, the TLC runs that check them, and proofs that TLAPS checks. All paths below are relative to the repository.

## 1. Inventory

| Component | Source | State it keeps | Operations |
|---|---|---|---|
| Reconcile loop | `pkg/controllers/cluster/galera_control.go` | none of its own: `status` of the resource, labels of pods and claims | `SyncGalera`, `syncGalera`, `runGalera` and its helpers |
| Pod and claim control | `galera_pod_control.go` | pods, claims (in the API server) | create, patch labels, delete, ask `IsPrimary`/Synced, `mysql_upgrade` |
| Roles and labels | `setLabels`, `choseRole`, `pkg/galera/utils.go` | `role`, `reader`, `backup` labels; `status.Members` | distribute Writer, BackupWriter, Backup, Reader |
| Status | `galera_status_updater.go`, `galera_utils.go`, `v1beta2/galera_status_types.go` | phase, conditions, revisions, counters | `completeRollingUpdate`, `inconsistentStatus`, write with retry on conflict |
| Controller | `galera_controller.go`, `galera_claim_control.go` | informer caches, rate-limited work queue, owner references | event handlers, `processNextWorkItem`, `syncHandler`, adopt and release |
| Upgrade policy | `galera_upgrade_config_control.go` | upgrade config and rules | `CanUpgrade`, `isImageGreater`, `validateConfig` |
| Revisions | `getGaleraRevisions`, `truncateHistory` | ControllerRevision objects | find or create a revision, truncate |
| Special node | `manageSpecialNode` | one extra pod | create, replace, delete |
| Restore | `scheduleGaleraRestore`, `galera_restore_control.go` | phases ScheduleRestore, CopyRestore, Restoring; a goroutine per restore | parallel copy into standalone pods |
| Backup controller | `pkg/controllers/backup` | conditions of a GaleraBackup, a goroutine per backup | `HandleBackup`, status updates |
| Backup method, storage | `pkg/backup` | none | mariabackup by exec, calls to the backup API, polling S3 |
| Backup API server | `galera-images/galera-backup` | `StateMap`, the state of every key | pack and upload in two goroutines, report the state of a key |
| Images | `galera-images/galera-bootstrap`, `mariadb*` | content of the data volume | write `my.cnf`, initialise, start standalone, found or join |
| Services, PDB | `galera_service_control.go`, `galera_pod_disruption_budget_control.go` | Kubernetes objects | create, update, delete |
| Secrets, storage classes | `galera_secret_control.go`, `galera_storage_control.go` | none | look up |

How they interact. A pod, claim or resource event puts the key of the resource in
the work queue; a worker takes it out and runs one *pass*. A pass reads three
informer caches (resource, pods, claims), asks the running MariaDB nodes for their
state by exec, makes API calls one after the other, and writes the status at the
end. Nothing else is remembered between passes: where an upgrade stands is encoded
in the labels (`revision` of a pod, of its claim) and in the status. The kubelet,
MariaDB, the user and other controllers act between any two calls.

A GaleraBackup has a controller of its own. It writes the condition Running and
starts a goroutine that copies the data with mariabackup in the backup pod, asks the
API server in that pod to upload the copy, polls until the upload is completed and
writes the condition Complete. The two controllers share the resource (the backup
controller reads `status.Members.Backup`) and nothing else.

What is hard, and hard to test:

* a pass is not atomic: the operator may stop, or a call may fail, between any two
  of its calls, and the next pass infers from labels what has been done;
* the three caches lag, independently of each other;
* nodes die, lose the Primary component and come back while a pass is under way;
* the user edits or scales the resource in the middle of a roll-out;
* the lister returns pods and claims in no particular order, and most loops stop
  at the first object they like;
* many guards wait (a terminating pod, an unready pod, an old claim): each is a
  chance to wait for ever;
* the resource may be deleted and created again, and its pods and claims freed,
  relabelled or taken over, while events of the old one are still on their way;
* a restore is a goroutine per cluster and one per volume, deleting pods by names
  that the restored cluster uses again;
* a backup spans two processes and four goroutines that nobody waits for, one shared
  directory and a status written twice from the same stale copy.

`PROJECT.json` lists these hazards one by one, with the line where each bites.

What makes each component correct:

* reconcile loop: no node joins with data of another version; one node away at a
  time; the database is never lost or founded twice; the cluster converges;
* labels: every serving node is selected by a service, roles are not lost in scaling;
* status: a revision is adopted only when it is deployed;
* controller: no change is lost, passes of a cluster do not overlap, an object of
  another incarnation is left alone, an orphan is adopted;
* upgrade policy: no pod of an older version, or of one whose configuration is rejected, is
  built beside the others;
* revisions: no revision in use is truncated, the others are, down to the limit;
* services: they come up, and come back when they are removed;
* special node: it is upgraded before it joins, keeps its volume, and comes and goes
  as the user wants;
* restore: the cluster is founded on whole copies, when the copying is over, and the
  restore ends;
* backup: what is reported Complete is in the bucket, and is the whole copy.

## 2. Modules

| Module | Content |
|---|---|
| `GaleraPods` | pods as records; predicates, label sets, patch actions, `choseRole`, `setLabels`: constant operators |
| `GaleraControl` | the reconcile loop: passes, API calls, Kubernetes, MariaDB, the user, caches; its properties |
| `GaleraUpgradeInv` | the inductive invariant behind `UpgradedBeforeJoin` and the hypotheses of its theorem |
| `GaleraDeployInv` | the inductive invariants behind `OneNodeAtATime`, `OneDatabase`, `LastCopyKept` and `NoIdleNode`, and the hypotheses of their theorems |
| `GaleraUpgradePolicy` | `CanUpgrade`, `isImageGreater`, `validateConfig`: constant operators |
| `MCGaleraControl` | composes loop and policy: instances of `GaleraControl` whose verdicts are those of the policy; `NoDowngrade`, `NeverOlder` |
| `ClusterWatch` | abstract specification: what a controller promises to a reconcile loop |
| `GaleraController` | informers, event handlers, queue, `syncHandler`, adoption; implements `ClusterWatch` |
| `GaleraSync` | `SyncGalera` around the decision about pods: revisions, history, services, status |
| `GaleraSpecial` | the special node beside an ordinary one |
| `GaleraRestore` | the phases of a restore, its goroutines and the server's side of it |
| `GaleraBackup` | the state machine of the backups: controller, goroutines, API server |
| `GaleraPodsProofs` | lemmas on the operators of `GaleraPods` |
| `GaleraControlProofs` | the theorems `TypeCorrect`, `LabelsFollowData` and `UpgradeSafe` |
| `GaleraDeployProofs` | the theorems `OneCreation`, `AdoptsDeployed`, `OneNodeAway`, `SurvivesCrashes`, `SurvivesFailures` and `NobodyIdle` about `GaleraControl` |
| `GaleraControllerProofs` | the theorems `ControllerTypeCorrect`, `NothingIsLost`, `OnlyOwnObjects` and `WatchRefined` |
| `GaleraSyncProofs` | the theorems `SyncTypeCorrect` and `HistorySpared` |
| `GaleraSpecialProofs` | the theorems `SpecialTypeCorrect` and `JoinsUpgraded` |
| `GaleraRestoreProofs` | the theorems `RestoreTypeCorrect`, `FoundedOnCopies` and `FoundedIsSpared` |
| `GaleraBackupProofs` | the theorems `BackupTypeCorrect`, `CompleteStored` and `WholeAlone` |

How they fit together. `GaleraController` decides when a pass runs and on which pods
and claims, `GaleraSync` what a pass does before and after its decision about the pods,
`GaleraControl` that decision in the phases Creating and Running, `GaleraSpecial` its
part for the special node, `GaleraRestore` the phases before there is a cluster. Each
keeps the part of the state its hazards are about and replaces the rest by the
least that drives it; a product of all of them is out of TLC's reach. What
`GaleraControl` takes for granted of the controller (passes do not overlap, are
repeated, and see every change) is what `ClusterWatch` states and the run `controller`
checks. A backup reads the name of the backup pod once and never changes the cluster,
and the cluster reads nothing of a backup: what the cluster does to it is the step
`BackupPodReplaced`.

### The reconcile loop: state

`spec` is the resource (revision, replicas, generation), `status` what the API
server stores of its status. `pods`, `claims`, `bkps` are the objects, by suffix:
a pod and its data and backup claims share a suffix, and the model uses the suffix
as the name. `data` is what is on the volume of a data claim: the version that
last initialised or upgraded it and whether it holds the cluster's database.
`seen` holds the three informer caches. `patches`, `todo` and `result` are the
rest of the running pass.

A *revision* is a pair of pod template and claim spec, as in `getPatch`; replicas
are not part of it. Revisions are numbers so that "later" means something in the
proof; the code itself never compares them other than for equality.

### The reconcile loop: steps

`Sync` is a pass up to its first API call: it reads the caches, classifies the
pods (`View`), distributes roles (`Labelling`) and follows the early returns of
`runGalera` in their order, one operator per return: `SyncDeletePodWithoutClaims`,
`SyncUnanswered`, `SyncDeleteSecondBackup`, `SyncLabelOnly`, `SyncLost`,
`SyncCleanClaims`, `SyncMysqlUpgrade`, `SyncCheckUnready`, `SyncCreatePod`,
`SyncTerminate`. The outcome is a list of label patches, a list of other calls and
the status to write. Each call is then one step (`PatchPodLabels`,
`CallDeletePod`, ..., `UpdateStatus`). `CallRefused` is a call the API server or
the node turns down, `SyncFails` a call that fails for another reason or a crash of
the operator: both end the pass and lose its status, as an error does in
`SyncGalera`. `SyncRun` tries every order of the listing.

The environment: `PodStarts` (the bootstrap container and the entrypoint: a pod
starts standalone, founds a cluster or joins a Primary node), `PodFails`
(RestartPolicy is Never), `PodIsGone`, `ClaimIsGone` (a claim in use is protected),
`LosesPrimary`, `RegainsPrimary`, `UserEdits`, `UserScales`, `InformerCatchesUp`.

### The reconcile loop: decisions of the abstraction

* Decisions that later functions of a pass make from the lister are taken when the
  pass starts. API calls, and the questions put to MariaDB before a deletion
  (`checkSynced`), are answered by the state at the time of the call. `IsPrimary`
  is answered at the start of the pass.
* A random suffix never collides with an existing object.
* A state transfer into an empty volume leaves data of the joiner's version.
* `wsrep_cluster_status` has the values Primary, non-Primary and Disconnected;
  `IsPrimary` accepts the first two because its regular expression is a substring
  match. A node that loses the Primary component takes either of the other two.
* The label `state` is read by the disruption budget only and left out.
* `DeleteSyncedPodForUpgrade` compares the backup label with a value it never has,
  so the backup claim is not deleted there; the model follows the code.
* The verdict of `CanUpgrade` is a constant function of the two revisions in
  `GaleraControl`, so that the theorems hold for any policy; `MCGaleraControl` puts
  `GaleraUpgradePolicy` in its place. There a version is three sequences of digits,
  since the code compares strings, `my.cnf` the set of its options, and a verdict is
  yes, no, or the error of a rule that is broken or cannot be read.
* The special node is left to `GaleraSpecial`.

### Backups: state and steps

`history` is the status of every GaleraBackup at each of its resourceVersions,
`cache` the version the lister shows, `queue` the work queue. `handler` is a
`HandleBackup` whose first status write is pending, `job` the goroutines: the stage,
the backup, the version `syncHandler` read (`base`), the version the next write is
made on (`rv`) and the attempts made. On the side of the backup pod: `dir`, the one
directory all backups share; `stateMap`; `tar` and `store`, the two goroutines of an
upload; `pipe`, what went through the pipe between them; `bucket`, the objects in S3.

| Code | Steps |
|---|---|
| event handlers, resynchronisation | `InformerCatchesUp`, `Resync` |
| `processNextWorkItem`, `syncHandler` | `SyncSkips`, `SyncGivesUp`, `SyncHandles` |
| first status write of `HandleBackup`, with `RetryOnConflict` | `HandlerWrites` (and the start of the goroutine), `HandlerConflicts`, `HandlerFails` |
| `MariaBackup.Backup` | `ExecRm`, `ExecMkdir`, `ExecBackup`, `ExecPrepare`, `JobFails` |
| `Provider.Store` of the operator | `PostBackup`, `PostUnanswered`, `PostRefused`, `PollState` |
| second status write | `ReportWrites`, `ReportConflicts`, `ReportFails` |
| `S3Backup` and its goroutines | `TarOpens`, `TarEnds`, `TarGivesUp`, `TarFails`, `StoreEnds`, `StoreFails` |
| crash of the operator, loss of the backup pod | `OperatorRestarts`, `BackupPodReplaced` |

* The goroutine keeps the resource as `syncHandler` read it, before Running was
  written. Its first final write therefore conflicts; the retry takes the version
  the lister shows. The status it writes is the one it read, without Running and with
  Complete and the key.
* A write that returns an error may have been applied (`HandlerFails`, `ReportFails`).
* The conditions Failed and Scheduled are never set, so they are not in the model.
* A secret or backup pod that is not found requeues the key and changes nothing.
* A command in the pod is one step. `rm -rf` under a TarGzip that is reading makes
  its output partial; a copy into a directory that is not empty fails, as mariabackup
  does. A command that fails leaves the directory as it was.
* A key (name and time stamp) belongs to one job: two jobs of one backup that start
  in the same second would share it, which the model leaves out.
* `StateMap` is written by goroutines without a lock. Each write of the model is
  atomic; a crash of the server caused by concurrent writes is `BackupPodReplaced`.

### The controller: state and steps

The API server keeps every version of the resource (`galera`) and of its pods and
claims (`objs`), so that an informer (`seen`) may deliver the versions one by one or
jump ahead, as a relist does. A resource has a uid per incarnation; a pod or
claim has the uid of its controller, matches the selector or not, and may be
terminating. `dirty` is the key in the queue, `delayed` the key waiting for
`AddRateLimited`, `pass` what each worker is doing. `news` is a history variable: what
changed and belongs to the cluster, and was not read by a pass that ended well.

| Code | Steps |
|---|---|
| `addPod`, `updatePod`, `deletePod` and the same for claims | `ObjectEvent` with `Enqueues` |
| handlers of the resource, resynchronisation | `GaleraEvent`, `Resync` |
| `processNextWorkItem` | `SyncHandler` (`Get`), `Succeeds`, `Fails`, `AddRateLimited` |
| `syncHandler` up to `SyncGalera` | `SyncSkips`, `GetPodsForGalera`, `GetClaimsForGalera`, `AdoptObject`, `ReleaseObject`, `Claimed`, `NotClaimed` |
| what `SyncGalera` does | `SyncGalera`: create or delete an object, write the status, or nothing |
| others | `UserCreates`, `UserEdits`, `UserDeletes`, `ObjectEdited`, `ObjectGone`, `SyncFails`, `OperatorRestarts` |

`ClusterWatch` has three variables: the things whose last change nobody has seen, the
number of passes under way, the number of restarts. `ImplementsWatch` maps them to
`news`, the workers that are not idle, and `restarts`, and checks safety and liveness
of the abstract specification.

### Revisions, services and status

A pass of `GaleraSync` is `StartPass` (lists the revisions by the labels of the
resource), `GetGaleraRevisions` (finds the equivalent revision, renumbers it or creates
one), `RunGalera` (creates a missing pod or deletes an outdated one, and counts the list it
works on, with the corrections of the code for what it just did), one
`CreateOrUpdateService` per service in the order of the code, `UpdateGaleraStatus` (only
when `inconsistentStatus`) and one `DeleteControllerRevision` per revision that
`truncateHistory` takes. Between any two of them the user edits, pods become ready or
are lost, a service is removed, a call fails or the operator restarts. The services have
a cache of their own that delivers one event at a time, and `UpdateService` changes the
cached object before it calls the API server, as the code does. The name of a revision
is its template: the hash of its data without collisions.

### Special node

Pods and claims by suffix, as above; `data` is the version of the database on a volume;
`pass` holds the calls still to be made. One ordinary node stands for those of the
cluster, and the others are taken to be ready, so that joining is always possible and
the founding of a cluster stays with `GaleraControl`. `Sync` is one operator per early
return of `runGalera`: `DeletePodWithoutClaims`, `DeleteSecondSpecial`,
`DeleteMismatchedClaim`, `CheckMysqlUpgrade`, `CreateNode`, `DeletePodForUpgrade`,
`ManageSpecialNode`, `RemoveSpecialNode`. What `considerPodAndClaimTermination` deletes
(`Terminations`) precedes the calls of the last three, as it does not end the pass. The
loop over the pods keeps the last special pod it meets; any of them may be last. The current
revision is not part of the state: it equals the next one only after every node was found at
it, and edits move forward, so the early return of `deletePodForUpgrade` for equal revisions
has no outdated node to spare.

### Restore

`phase` is `status.Phase`. A pass reads the cached phase and pods once and decides what it
will call and which phase it will write (`todo`, `result`, set by `Decides`); then every call
is a step of its own, and the status is written last. Pods and claims have suffixes as names.
A pod is a restore pod (starting, ready, failed, stopping, terminating) or one of the cluster;
`unclaimed` are the claims marked for deletion. A handler is one `HandleGaleraRestore`: `copy`
says where the copy into each volume stands, `stage` whether it copies or deletes its pods.
`stateMap` and `untar` belong to the API server of each pod.

| Code | Steps |
|---|---|
| phases of `syncGalera` | `SyncNew`, `SyncCopying`, and the two rows below |
| `scheduleGaleraRestore` | `ScheduleDeletesFounder` (any pod that is not a restore pod is deleted with its claim, and the pass ends), `ScheduleDeletesFailed`, `ScheduleWaits`, `ScheduleCreates`, `ScheduleEnds` |
| `runGalera` in phase Restoring, whatever restore pods are listed | `RestoringWaits`, `RestoringDeletes`, `RestoringFounds` |
| the calls of a pass, in their order | `DeleteClaim`, `ForceDeletePod`, `CreateClaim`, `CreatePod`, the start of the goroutine `HandleGaleraRestore`, `UpdateStatus`; `CallRefused`, `CallFails` |
| `HandleGaleraRestore` | `AllCopied`, `ClaimsOfFailed`, `HandlerDeletes`, `HandlerDeleteFails` |
| `Provider.Retrieve` of the operator | `RetrieveChecks`, `RetrieveRequests`, `RetrieveRefused`, `RetrieveUnanswered`, `RetrievePolls` |
| `S3Restore`, `UnTarGzip` of the server | `RetrieveRequests`, `UnTarEnds`, `UnTarFails` |
| others | `PodStarts`, `PodStops`, `PodIsGone`, `PodIsLost`, `ClaimIsGone`, `OperatorRestarts`, `InformerCatchesUp` |

* `isRunningAndReady` does not look at the deletion timestamp: a pod that stops counts as
  ready until its containers end, and is copied into.
* `deleteNoMatchingClaimsAndListUnusedClaims` ends `scheduleGaleraRestore` at a terminating
  claim without an error, and the ready pods are counted all the same (`ScheduleEnds`).
* The claim of a failed copy is looked up among the pods, where nothing has its name
  (`ClaimName`, `PodName`), so the goroutine never deletes a claim; passes do.
* A pass in phase Restoring that sees a pod of the cluster is the business of
  `GaleraControl`, and so is what follows. The spec is not edited during a restore, there is
  no special node, and the informer of the claims does not lag.

## 3. Runs

The runs of `MCGaleraControl` share: three replicas (the smallest number the CRD
allows), revisions 1 (running), 2 (newer image), 3 (other volumes), 4 (older image), 5
(same image, other resources), 6 (an image that rejects an option of `my.cnf`). Four
pod names leave one spare beside three replicas; those with liveness use three,
`scaling` five. Pod names are symmetric except in the liveness runs.

| Run | Instance | Shows |
|---|---|---|
| `upgrade_crash` | image or volume change, 1 interrupted pass, 1 partition | `TypeOK`, `UpgradedBeforeJoin`, `OneNodeAtATime`, `AdoptedWhenDeployed`, `LastCopyKept`, `UpgradeInv`, `AvailabilityInv` |
| `upgrade_failures` | newer, refused or rejected image and back, 2 node deaths | `OneDatabase`, `NoPodBesideUnready`, `NoIdleNode`, `NoDowngrade`, `FailureInv`, `RolesInv` |
| `scaling` | 3 to 5 to 3, resource informer lags, 1 interrupted pass | `RolesSpared`, `NoIdleNode`, `CrashInv` |
| `converge` | image or volume change, or 1 node death | `Converges` (liveness) |
| `controller` | 1 pod, 1 claim, 2 workers, 2 incarnations, 4 changes, 1 fault | `TypeOK`, `NoLostChange`, `NoForeignObject`, `OrphansAreAdopted` (liveness), `ImplementsWatch` (refinement) |
| `sync` | 3 templates, 2 label sets, 2 services, 2 pods, history limit 0, 2 edits, 1 fault | `TypeOK`, `NamedRevisionsExist`, `HistorySettles`, `ServicesComeUp` (liveness) |
| `special` | 3 names, 3 revisions, 2 edits, 1 fault | `TypeOK`, `SpecialUpgradedBeforeJoin`, `VolumeKeptForSpecial`, `SpecialSettles` (liveness) |
| `restore` | 2 volumes, 1 goroutine, 1 fault, informers of resource and pods lag | `TypeOK`, `OnlyLostCopiesAreMissing`, `ClusterIsSpared`, `RestoreEnds` (liveness) |
| `backup` | 2 backups, 2 workers, 2 jobs, 1 fault, 1 restart | `TypeOK`, `CompleteIsStored`, `WholeWhenAlone` |

`UpgradeInv`, `AvailabilityInv`, `FailureInv`, `RolesInv` and `CrashInv` are the inductive
invariants of section 4: TLC looks at them on instances on which the theorems' hypotheses
hold, or hold but for a bound.

Bounds. `MaxGen` bounds the edits (one edit after creation; two in `upgrade_failures`,
`scaling` and `rollback`), `MaxErrors` the interrupted passes, `MaxFailures` the deaths,
`MaxPartitions` the partitions, and `MaxEvents` all of them together: in `converge` there is
an edit or a death, and not both; elsewhere it does not bind. An interruption may fall before any call of any
pass, so every intermediate state is one that a later pass has to repair (with two
interruptions `upgrade_crash` passes as well, in more time than a routine run should
take); two deaths leave a single node of three;
one edit takes the cluster through every stage of a roll-out, and the edit may come
at any time, also while the cluster is being created. The number of passes is not
bounded. In `backup` two jobs may be one per backup, which then share the directory,
or two of the same backup, started because the lister lags; one fault may be any
failing call, command, upload or the loss of the backup pod; the number of
resynchronisations and of retries of a key is not bounded. Three attempts of
`RetryOnConflict` (the code makes four) are enough to conflict, to conflict again and
to give up.

In `controller` four changes are a creation, a deletion, and two more of a pod, a claim
or the second incarnation; retries, resynchronisations and passes are not bounded. In
`sync` the two services are the one that is deleted when it is not wanted, and one of
those that are treated alike; three templates and a limit of zero are enough for a
revision in use, one that returns and one to truncate. In `special` the third name is
the one a second special node, or a node on a new volume, starts on; revision 2 is an
upgrade on the same volume and 3 one on another; the fault is a cut pass, a failing pod
or a pass that works with lists of pods or claims that are out of date. In `restore` both
informers lag, so that a late pass may find pods of the cluster, or miss restore pods; the
run passes as well with two goroutines and the informer of the resource lagging, in more
time than a routine run should take, and `FoundedOnCopies` holds for any number of them.

Deadlock is checked in the runs of `MCGaleraControl`, in `backup` and in `sync`: a
settled system still has passes that change nothing. In `controller` (a resource that is
deleted for good), `special` (a pass that calls nothing is not a step) and
`restore` (whose passes end with the founding of the cluster, or when the bound on
goroutines is reached) the system may really stop.

Fairness (`FairSpec` of `GaleraControl`, `Spec` of the others). Passes are weakly fair: a
failed pass is requeued with rate limiting and every resource is resynchronised
periodically. `GaleraController` itself assumes no resynchronisation: there the workers,
the delayed queue and the informers are weakly fair, and only `OrphansAreAdopted` adds it,
as its premise. Calls are weakly fair: a pass in progress goes on. Goroutines of a
restore are weakly fair, the Go scheduler runs them. Informers, the kubelet (`PodStarts`,
`PodIsGone`) and claim deletion are weakly fair: they are other control loops that retry.
No fairness is assumed for the user, deaths, partitions, lags or errors. Weak fairness is
stated per pod, since the kubelet serves each of them.

### Where the code departs from what it says

Each of these runs is expected to end in a violation.

| Run | Property | What happens |
|---|---|---|
| `rollback` | `Converges` | An edit undone during its roll-out makes current and next revision equal: `deletePodForUpgrade` returns early, the pods of the undone revision stay and the roll-out never completes. |
| `truncated_backup` | `CompleteIsWhole` | TarGzip fails and closes the pipe as if it had ended: the truncated archive is stored, `completed` overwrites `failed`, and the backup becomes Complete. |
| `refused_image` | `NeverOlder` | A refused upgrade keeps the name of its revision: rebuilt pods are labelled with it, it is adopted, and after the next death a pod of the refused, older image is built beside newer ones (comment at line 370 of `galera_control.go`). |

Limits of the passing runs, found by changing their constants:

* with a lagging pod informer `OneNodeAtATime` and `NoPodBesideUnready` do not
  hold: a pass that does not see the deletion or the creation made by the previous
  one repeats it on another node;
* with a lagging claim informer a fresh pod is deleted because its claim is not yet
  cached (`RolesSpared` fails), and `LastCopyKept` fails;
* a volume change together with a node death breaks `LastCopyKept`: a claim with old
  requirements is deleted without looking for another copy of the data;
* `NoDowngrade` makes an exception for a refused revision that has become the current one;
  `refused_image` shows what happens then. `AdoptedWhenDeployed` fails for a refused image,
  since the label of a pod is not its template then. An error of the policy ends every
  pass, repairs included, until the edit is taken back;
* an edit refused in the middle of a roll-out makes the operator build pods of the current,
  older template beside those already upgraded: the edit from 1 to 2 and then to a refused
  revision is not an instance of `upgrade_failures`;
* an edit made while the Upgrading condition is set is not submitted to `CanUpgrade`, and
  pods of a refused image are built (`NoDowngrade` fails when a running upgrade is edited
  again);
* versions are compared as strings, so that 10.4.9 to 10.4.10 is refused and 10.4.10 to
  10.4.9 permitted (`NoDowngrade` fails for a part of two digits); line 27 of
  `upgrade_galera_cluster.md` promises semantic versioning;
* a cluster without any Primary node is never recorded as Failed: the phase is set
  together with an error, and the error drops the status;
* `IsPrimary` matches "non-Primary": a node cut off from the majority counts as ready;
* a pod that stands alone for its `mysql_upgrade` has role and reader labels from its
  creation and is selected by the services;
* a crash after `mysql_upgrade` followed by a rollback lets a node of the old
  version join on upgraded data (`UpgradedBeforeJoin` fails): this is why the
  theorem below asks for forward edits;
* with four replicas or more and a node death `NoIdleNode` fails: with three or more
  ready pods `setLabels` stores the BackupWriter it chooses as the Writer (line 1003), and
  a last patch, built from the cached pod, takes its role and its reader label away;
* a crash and a death together break `OneDatabase`: while the cluster is created, an
  interrupted pass leaves the empty claim of the second node, the only node dies, and the
  pod that founds the cluster again may be given the empty claim;
* two jobs share one directory: `CompleteIsWhole` also fails without any fault when
  two backups, or two jobs of one backup, overlap;
* a resynchronisation before the informer has seen Running starts a second job, and
  the retry of its status write may put Running over Complete; a job that failed or
  was lost leaves its backup Running for good. No document promises otherwise, so no
  run is expected to show it;
* with two partitions the spare names of the instance run out;
* a pass that does not yet see the new label of a claim starts a pod alone on a volume
  that is already upgraded; its revision and that of the claim are equal, so nobody ever
  upgrades or replaces it (`Stranded` in `SpecialSettles`);
* `ForceDeletePodAndClaim` deletes the claim before the pod. When the second call fails or
  the operator stops between the two, the claim is terminating but protected by its pod,
  every later pass stops at it (line 1090 of `galera_control.go`), and a special node that
  is no longer wanted stays (`HalfDeleted` in `SpecialSettles`); the same holds for an
  ordinary node in `DeleteSyncedPodForUpgrade`;
* when the list of pods lags without end and passes go on, the special node and the
  ordinary one may replace each other for ever; `special` bounds the passes on old lists;
* when a copy of a restore fails, the name of its claim is looked up in the pod lister
  (line 132 of `galera_restore_control.go`), not found, and the claim is kept, although the
  comment at line 128 says "delete claim if pod restore failed": the cluster may be founded
  on a partial copy, so `OnlyLostCopiesAreMissing` says nothing of the content of the volumes
  whose copy failed;
* a restore whose operator crashes while it copies stays in CopyRestore (a TODO at line
  432 of `galera_control.go` says so); an old status makes a pass start a second
  goroutine or create a restore pod again (`again`). With old lists of pods beside it, such a
  pass lets the cluster be founded while a restore pod is left, writes ScheduleRestore over
  Restoring, and the next pass deletes the pod of the cluster and its claim (lines 841-844):
  `ClusterIsSpared` makes an exception for `again`, and `OnlyLostCopiesAreMissing` for what
  follows the deletion of a pod of the cluster (`unmade`);
* when a restore pod is evicted, the pending deletion of its name may hit the first pod of
  the cluster; the time-out of `Retrieve`
  is never looked at; missing credentials end the operator (`Fatalf`);
* with one replica the first pod of the cluster may get a fresh claim instead of the copy,
  when a restore pod was created again on the only one; the CRD asks for three;
* the deletion of a resource that is only told by a relist is not queued: `enqueueGalera`
  takes no key from a tombstone (line 760 of `galera_controller.go`); nothing is left to
  reconcile then, so `NoLostChange` does not count it;
* a failed update of a service is not repeated, since the cached object was changed
  first; so nothing is said of the labels of services;
* after an edit of the labels of the resource its revisions are not found: the next
  revision becomes the current one without a roll-out or a look at the policy, and the
  old revisions stay (`relabelled` in `HistorySettles`);
* when the informer of the revisions or of the resource lags, `NamedRevisionsExist`
  fails: a revision is truncated that a pass just began to use;
* names longer than 50 characters are cut, and a cluster with such a name releases its
  own pods and claims (`NameFits = FALSE`); two such clusters may share a service name.

## 4. Proofs

The theorems hold for every value of the constants that the named assumptions of the
modules allow: any set of pod names, revisions, backups, templates and workers, any
bound on edits, faults, crashes and deaths. Names, templates and pods are finite sets.
Where a theorem needs more, it says so:

| Theorem | States | Needs |
|---|---|---|
| `TypeCorrect`, `ControllerTypeCorrect`, `SyncTypeCorrect`, `SpecialTypeCorrect`, `RestoreTypeCorrect`, `BackupTypeCorrect` | `[]TypeOK` of each model | |
| `LabelsFollowData`, `UpgradeSafe` | `[]UpgradeInv`, `[]UpgradedBeforeJoin` | `ForwardEdits` (the user moves to later revisions only), `NeverRefused` (`CanUpgrade` does not refuse a later revision after an earlier one); the informers may lag |
| `OneCreation` | `NoPodBesideUnready` | the informer of the pods does not lag |
| `AdoptsDeployed` | `AdoptedWhenDeployed` | `ForwardEdits`, `NeverRefused`; the informers of pods and resource do not lag |
| `OneNodeAway` | `[]OneNodeAtATime` | the informers of pods and claims do not lag; the user never asks for fewer nodes than at creation |
| `SurvivesCrashes` | `[]OneDatabase`, `[]LastCopyKept` | the informers of pods and claims do not lag; no deaths, no partitions; never fewer than three replicas |
| `SurvivesFailures` | `[]OneDatabase`, `[]LastCopyKept` | the informers of pods and claims do not lag; no interrupted passes, no partitions; `SameVolumes` (no revision changes the volume requirements), `OnlyGrows` (no scaling down) |
| `NobodyIdle` | `[]NoIdleNode` | the informers of pods and claims do not lag; never more than three replicas |
| `NothingIsLost`, `OnlyOwnObjects` | `[]NoLostChange`, `[]NoForeignObject` | |
| `WatchRefined` | every step of `GaleraController` is one of `ClusterWatch`, or a stutter | |
| `HistorySpared` | `[]NamedRevisionsExist` | `Lagging = {}` |
| `JoinsUpgraded` | `[]SpecialUpgradedBeforeJoin` | (in `GaleraSpecial` edits move forward) |
| `FoundedOnCopies`, `FoundedIsSpared` | `[]OnlyLostCopiesAreMissing`, `ClusterIsSpared` | two replicas or more; the informers of resource and pods may lag |
| `CompleteStored`, `WholeAlone` | `[]CompleteIsStored`, `[]WholeWhenAlone` | |

The hypotheses are not for convenience: section 3 lists what happens without each of
them (a rollback, a refused image, a lagging informer, a crash and a death together, a
volume change and a death together, a fourth replica). At least three replicas
are what the CRD asks for. For `SurvivesCrashes` and `SurvivesFailures` the absence of
partitions is a limit of the proof: TLC finds no violation with one.

### The reconcile loop

The decisions of a pass are analysed once, in the lemma `Plan`. Each is of one of three
kinds: only deletions; the `mysql_upgrade` detour of one pod; the creation of one pod
with its claims, and this only when no pod the pass has read is starting. All label
patches keep the cached revision of the pod they are for. The status to write keeps the
current revision, or adopts the next one when every pod the pass has read is labelled
with it (`Adopts`): the counters of the status are cardinalities, a listing leaves
nobody out (`ListingCovers`, `ViewWhole`), and a set with as many members as one that
contains it is that set.

Why an invariant is needed: `UpgradedBeforeJoin` speaks of running nodes only. What
makes it true is that a label never runs ahead of the data it stands for. The
parts of `UpgradeInv`:

* `StatusInv`: no status (stored, cached, about to be written) is ahead of the spec,
  so what `CanUpgrade` is asked is always a move forward;
* `SpecInv`: nothing, in the API server or in a cache, is beyond the revision of the
  cached spec;
* `PodInv`: a pod is at least as recent as every label and content of its name;
* `LabelInv`: a claim's label, cached or not, is not ahead of what is on the volume;
* `VolumeInv`: a pod built for the cluster has an empty volume before it starts or
  one of its version; this implies the property;
* `PatchInv`, `CreatePodInv`, `CreateClaimInv`, `PatchClaimInv`: what the calls still
  to be made rely on, whatever happens before they are made; in particular a claim
  is relabelled only after its `mysql_upgrade`, or on an empty volume.

The step proof has one lemma per action that touches labels or volumes
(`UpgradeMysqlUpgrade`, `UpgradePatchClaim`, `UpgradeCreateClaim`,
`UpgradeCreatePod`, `UpgradePatchPod`, `UpgradeSync`, `UpgradeEnvironment`) and one
for all others (`Neutral`).

The two action properties are about the time between a decision and the call that
relies on it. `OneCreation` rests on `CreatedAlone`: as long as a creation is pending,
it is the last call of its pass and no pod is starting; every other step lets pods only
age (`PodsOnlyAge`). `AdoptsDeployed` rests on `RightlyAdopts`: the pass that is about
to adopt a revision creates no pod, and all pods have its template, because a label
counted by the pass equals the template behind it (`UpgradeInv` bounds it on both sides).

The other four theorems share `StartInv`, the part about pods that start. At most one
pod has not joined yet, and at most one is or may become the Backup pod; a pending
creation is the last call of its pass, finds nobody joining, and if its pod stands alone
the claim is of another revision; a claim is relabelled only when its pod has been
deleted (`DetourOrder`), so a pod that stands alone stays recognisable as such
(`StandaloneInv`). `StartSync` shows that every decision of a pass establishes what its calls rely on,
`StartMoves` that no other step takes it away.

* `AvailabilityInv` counts. Nodes missing from those that serve are the ones that were
  hurt (no more than there were deaths and partitions), the one pod that joins, and those
  the pass is about to delete (`Doomed`). A pass deletes a node only when it has seen
  enough of the others and nobody joining, and the count is kept for every status that
  says Running, be it stored, cached or still to be written (`SaysRunning`): a phase
  written from an old cache must not be wrong when it arrives.
* `CrashInv` says that, once the database exists, some node is `Safe`: it serves, it has
  labels by which later passes count it, its volume is not being deleted, and neither a
  pending call nor a pending patch takes any of this away. A pass that deletes a node
  with its volume has seen three nodes or more; at most one of them loses its last label
  in that pass (`setLabels`, line 1003), and at most one volume is ending, because
  `deleteNoMatchingClaimsAndListUnusedClaims` ends a pass at a terminating claim. So one
  is left. And only while no node is Primary is a pod told to found the database
  (`FounderInv`).
* `FailureInv` cannot count nodes, since all of them may die. It says that some volume
  holds the database, is kept, and belongs to a pod that later passes count, or to none
  (`Holders`). An empty volume exists only for a pod that is starting or about to be created
  (`VolumesInv`), which needs that no call of a creation is refused (`UnhinderedInv`); a
  pod that founds the database anew is given a volume that has it (`FoundsInv`). A pod
  that starts is not scaled away, for there are too few (`RoomInv`).
* `RolesInv` says that every label set, present or about to be written, has a service
  that selects it, and why it stays so: when there is or will be a third node, the other
  two have the two roles, or get them from patches already decided. The branch of
  `setLabels` for three pods or more, the only one that can take the last label of a pod
  away, then has nobody to give a role to. `GaleraPodsProofs` has what this needs of
  `setLabels` (`LeavesRole`, `EndsWithRole`, `WriterStays`, `SetLabelsSettled`,
  `TwoRoles`).

That interrupted passes and deaths are the subject of two theorems is the code's doing:
together they may found a second database (section 3).

### The controller

`NoLostChange` needs `Serial` (one worker holds the key: the queue does not hand out a
key that is being processed) and `DeadUnowned` (what does not exist has no controller,
so a change that concerns the cluster has its controller on a live version, where the
add, update or delete handler finds it). `NoForeignObject` needs a
history of all versions: uids grow with incarnations (`UidsGrow`), controllers are
incarnations the informer has shown (`OwnersKnown`), an object never goes back to an
earlier one (`OwnersGrow`), the resource of the pass under way is the latest any object
knows (`PassIsLatest`), and what the pass was handed was its own at some time
(`MineWasOwned`). What keeps these true is that passes do not overlap, that the
informer's view of the resource only goes forward, and that an adoption is refused when
the object has got another controller; that the resource is read again before the first
adoption is in the model, and these invariants do not need it. `ControllerTypeCorrect` says
beyond types that only a pass that is claiming has objects left to adopt or release
(`TodoNext`). The steps are treated twice: what a
step may do to the versions in the API server (`GaleraGrows`, `ObjectsGrow`), and what
it may do to one worker; the invariants then follow without looking at actions again.
`WatchRefined` maps every action to a step of `ClusterWatch` or to none.

### Revisions and history

`HistorySpared` follows a pass through its stages (`HistoryInv`): what it has listed is
stored until it truncates (`ListedIsStored`), so are the two revisions it works with
(`WorkingRevisions`); a pod has the revision the pass has seen, none, or the one the
pass itself gives it (`PodsAsSeen`); nobody else writes the status (`StatusAsSeen`); and
what is still to be deleted is not in use (`TruncateSpares`). The model sorts revisions
and services with `CHOOSE`; that such an order exists is a lemma here
(`SortingExists`), by a minimal counterexample on the cardinality.

### The special node

`JoinsUpgraded` has an invariant of the kind of `UpgradeInv`, over two kinds of nodes
that take over each other's volumes: nothing carries a revision later than that of the
pass under way (`BelowCap`), no pod is older than what its volume or a cache shows
(`PodIsLatest`), no label is ahead of the data (`LabelBehind`), and every call still to
be made relies only on what no other step takes away (`CallsRight`). A plan is right
when it is made (`PlannedRight`); every later step is mild enough to keep it right
(`Mild`, `CallsStay`).

### Restores

`FoundedOnCopies` rests on a count. A claim is made only when there are fewer pods than
replicas, and as long as no pod of the cluster was deleted no claim is, so there are never
more claims than replicas (`ClaimsFit`), although a lagging pass may repeat a creation.
Hence, once a goroutine was started or is about to be, all claims are in its list, and a claim
whose pod a pass does not see has been copied, has failed or was lost (`AllListed`,
`AllSafe`). The rest says that the reports of the servers and goroutines are true
(`CopiesTell`), that pods go away only after that (`GoneIsSafe`), what a pending call of a
pass relies on (`CallsFit`), and that a claim is given up only together with a pod of the
cluster (`FoundersKept`). That a pass with at most one restore pod in its list founds the
cluster on a claim that exists is where two replicas are needed (`FoundsOnClaim`).

`FoundedIsSpared` has an invariant of its own, under the premise that there was one
goroutine, no lost pod and no restore pod created again: what the goroutine still has to
delete is a restore pod that every cache shows (`Held`), before it there is nothing to delete
(`Undisturbed`), and phases only go forward (`Forward`): a pass on an old phase after
Restoring has to create a restore pod first, which is what `again` records, so no pass that
meets a pod of the cluster is in `scheduleGaleraRestore`.

### Backups

`BackupTypeCorrect` says beyond types that the version a worker or a goroutine holds
exists, which is what makes the status a goroutine builds from it defined.
`CompleteIsStored` looks at the last version of a status only, but a goroutine builds
its final status from an older one; so the invariant `BackupInv` says it of all versions
(`VersionsStored`). The rest follows the artifact: a pipe that was opened has been
written to (`PipeFilled`), `completed` is noted for keys in the bucket only
(`CompletedStored`), only such keys are reported (`ReportedStored`), and a goroutine not
yet started belongs to no backup (`FreshJobs`), so that starting it makes no earlier
version wrong. `WholeAlone` adds what the shared directory holds for a job that is alone
(`OwnCopy`): it is prepared before the upload starts, and read completely by a TarGzip
that did not fail; a key the job has not sent is unknown to the server (`NotSent`).

### Only model-checked

* Liveness, which the prover cannot do: `Converges`,
  `OrphansAreAdopted`, `HistorySettles`, `ServicesComeUp`, `SpecialSettles`,
  `RestoreEnds`, and the promise of `ClusterWatch` that every change is seen, the part of
  `ImplementsWatch` that `WatchRefined` leaves out.
* `RolesSpared`, on the stated instance: that a node removed by scaling has no role
  depends on how the roles were given out before, and with four replicas or more and
  deaths they may be given out wrongly (section 3).
* `LastCopyKept` with an interrupted pass and a partition (`upgrade_crash`), and
  `NoIdleNode` with five replicas and no deaths (`scaling`): outside the hypotheses of
  their theorems.
* `NoDowngrade` is about the images of the instance, and so is `NeverOlder`.
* `VolumeKeptForSpecial`: `special` checks it with one old list per pass; no invariant
  for any number of names and faults has been found.

## 5. Not modelled

* Hash collisions of revisions (`collisionCount`) and the owner references of revisions
  (`AdoptOrphanRevisions`): the name of a revision is its content here.
* The conditions of a status other than Upgrading and Ready: they are for display.
* Secrets and storage classes: look-ups that change nothing; a failure is a pass that
  returns an error.
* The generated HTTP server of the backup API, the generated client and deep copies; the
  metrics; `main`; events and logging.
* The text of `my.cnf`, the ports, probes, resources and environment of containers.
* The product of the modules: the special node during node deaths, restores of a cluster
  with a special node, and scaling during an upgrade with a lagging cache are only
  checked in the parts each module has.

Further proofs worth having: `VolumeKeptForSpecial`, or the instances it is true of;
`RolesSpared`; and partitions in `SurvivesCrashes` and `SurvivesFailures`.
