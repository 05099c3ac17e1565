# Formal model of the TVT edge prototype

TLA+ specifications, TLC configurations and TLAPS proofs for the program in
this repository: the management plane of an on-premises video analytics edge
(`src/tvt_edge`), the control plane and Kubernetes code it drives
(`src/apexfabric`), and the scripts that upgrade it. Every definition is
translated from the source; `PROJECT.json` names the lines each one stands
for, the bug each property can detect (`mutants`), and the hazards the
properties are aimed at.

    tlc -workers 2 -config SyncSafety.cfg MCDeploymentSync.tla
    tlapm DeploymentClusterProofs.tla

## 1. The system

An operator edits cameras, applications and geometry in a web UI. The
management API keeps that as *desired state* in PostgreSQL. A worker process
applies desired state to a single-node K3s cluster with `kubectl`, where one
runtime Pod per deployment runs the camera analytics. The older control plane
collects the runtime's telemetry in SQLite, recognizes people, counts vehicles
and keeps alerts. Alertmanager webhooks become emails through an outbox.

| Component (source) | State it keeps | Operations | Interacts with |
|---|---|---|---|
| Deployment commits (`tvt_edge/service.py`) | `deployment_assignment_sets` (immutable, numbered by `desired_revision`), `deployment_sync_state`, credential versions, lifecycle intent | catalog commit and upgrade, geometry change, credential rotation, lifecycle, rollback | writes the row the sync worker claims |
| Deployment sync worker (`tvt_edge/cluster/sync.py`) | the row's state, claim token, lease and retry time; an attempt in memory | claim, load, preflight, apply Secrets, apply bundle, live reload or rollout or restart, restore, record | PostgreSQL (row shared with commits and other workers), Kubernetes |
| Bundle renderer (`apexfabric/solution_management/renderer.py`) | none; the cluster's objects | apply, prune | called by the worker |
| Enrollment sessions (`tvt_edge/service.py`, `tvt_edge/enrollment.py`) | `enrollment_sessions`: status, naming status, prior settings, recorded revisions | start, cancel, reconcile tick (activate, capture, restore, end), name, expire | commits on the deployment, waits for the sync worker, HTTP calls to the control plane |
| Identity store (`apexfabric/control_plane/identity.py`) | staged captures, persons, face vectors | stage, purge, enroll, discard, resolve | called inside telemetry ingestion and by HTTP |
| Alert ingestion and outbox (`tvt_edge/alerting`) | alert instances, outbox rows with leases | ingest webhook, acknowledge, claim, deliver, remind, expire | Alertmanager (at least once, any order), SMTP |
| Credentials and retention (`tvt_edge/service.py`) | credential versions, purge times | rotate, clear, retain | sets that still use a version |
| Camera inventory sync (`tvt_edge/cluster/camera_inventory_sync.py`) | cameras as seen in Kubernetes | reconcile, delete | kubectl, management service |
| Watchdog (`tvt_edge/watchdog.py`) | failure start, last restart, boot id | check | systemd, K3s |
| Daily reports (`tvt_edge/reporting`) | delivery rows | claim, send, mark | SMTP |
| Telemetry store (`apexfabric/control_plane/telemetry.py`) | events, snapshot files, cursors | ingest, attach snapshots, retain, evict | runtime HTTP |
| Attendance, vehicles, threshold alerts (`apexfabric/control_plane/reporting.py`, `alerts.py`) | open sessions, rule states | evaluate one event | called inside ingestion |
| Legacy enrollment windows (`apexfabric/control_plane/enrollment_windows.py`) | windows, prior settings | start, stop, expire | control plane jobs, catalog commit |
| Storage failover (`apexfabric/control_plane/storage_failover.py`) | claims, Deployment volume | check, move | Kubernetes |
| Solution, release and fleet upgrades (`scripts/lib`, `scripts/tvt-edge-fleet.py`) | state files | activate, wait, roll back, resume | management API, systemd, ssh |
| Camera geometry (`tvt_edge/service.py`) | shapes, `geometry_revision`, kept configurations of windows | create, update, delete a shape; legacy windows | every deployment that serves the camera |
| Node status (`apexfabric/node_management`) | `ApexNodeStatus` reports, labels | report, compare and label | Kubernetes, the host's clock |
| Qualification suite (`tvt_edge/qualification.py`) | a report, a baseline | one run of checks, commit, rollback | database, Kubernetes, the Pod's endpoints |

Further components (catalog import, validation, status views, the single-box
CLI, UI and installers) are listed in `PROJECT.json` with the reason they are
left out: reads only, pure parsing, sequential one-shot work or a client
without state.

### What is hard here

* **Transactions that read without a lock.** Recording transactions of the
  worker run at READ COMMITTED beside commits of the API process.
* **Work spread over several transactions and remote calls**: a sync attempt,
  an enrollment start, a restoration, a naming request, an upgrade.
* **Fencing.** Leases expire during a rollout; tokens are checked only
  between kubectl commands.
* **The cluster as a third copy of the state.** The choice between live
  reload, rollout and restart is made from the database, the effect depends
  on what the cluster holds.
* **Crashes** between any two steps, followed by takeover.
* **At-least-once input**: webhooks, telemetry, retried requests.
* **Exact-revision waits** on a sequence of revisions that others extend.

### What makes the components correct

* *Sync*: what is recorded as applied or held is what the cluster holds;
  no commit is lost; applied revisions only move forward; every deployment
  comes to rest.
* *Enrollment*: faces are captured only in enrollment mode; the camera always
  comes back, with its own applications, the newest geometry and without
  touching other cameras; sessions end; a discarded session leaves no person
  and no face; persons stay distinct.
* *Alerts*: every queued email is delivered or given up; an occurrence that is
  over stays over; reminders and recoveries reach only those whom the firing
  email reached, one recovery per occurrence and one reminder at a time; the
  recorded attempts tell what happened to a row.
* *Credentials and inventory*: a desired set can always be rendered, rotated
  credentials reach the runtime, the mirror follows an inventory at rest.
* *Geometry*: what is drawn now is on its way to every deployment of the camera.
* *Events*: visits do not overlap, spans and alerts are functions of the
  accepted events, a stored snapshot has its file, retention is effective.
* *Host services*: restarts of K3s are bounded, one mail per date, a claim with
  data is left only for a failed node, a label follows a recent report.
* *Upgrades*: an upgrade never undoes an edit, what operation files record is
  true, and interrupted rollouts can be resumed.

The hazards, each at its line, are in `PROJECT.json`.

## 2. Modules

    DesiredState            what synchronization promises (abstract)
    RuntimeCluster          Kubernetes objects of one deployment
      DeploymentCommits     commits of the management service
        DeploymentSync      the worker; implements DesiredState
          MCDeploymentSync          constants of its runs
          DeploymentSyncProofs      types, the row, and the refinement
            DeploymentClusterProofs what the cluster runs
    EnrollmentCamera        borrowing a camera; over DesiredState
      MCEnrollmentCamera
      EnrollmentCameraProofs
    EnrollmentNaming        from captures to a named person
      MCEnrollmentNaming
      EnrollmentNamingProofs
    AlertContract           what the alert dispatcher promises (abstract)
      AlertOutbox           webhooks, outbox, workers; implements AlertContract
        MCAlertOutbox
        AlertOutboxProofs
    CameraCredentials       cameras, credential versions, sets, retention
      CameraInventory       the worker that mirrors the camera inventory
        MCCameraInventory
        CameraInventoryProofs
    SolutionUpgrade         one operation of the solution upgrader
      ReleaseUpgrade        the release coordinator around it
        MCReleaseUpgrade
        ReleaseUpgradeProofs
    FleetRollout            the fleet controller and its edges
    CameraGeometry          zones and lines, and the management service's windows
    EnrollmentWindows       the control plane's windows
    SiteSessions            what an event does to visits, spans and alerts
    TelemetryStore          events, snapshots, retention, collectors
    DailyReport             the report mails
    K3sWatchdog             restarts of K3s
    StorageFailover         failover of a node-local claim
    NodeStatus              reports of nodes and their labels
    Qualification           the acceptance run beside a live deployment
      MCSiteServices        all of SolutionUpgrade ... Qualification
      SiteServiceProofs     FleetRollout ... Qualification, each by itself

### RuntimeCluster

One deployment's objects as the worker can affect them: the revision whose
ConfigMap and Secret are applied (`inputs`), the Deployment's template, and its
Pods (which bundle they run, which Secret they mounted, which configuration
they read). Kubernetes itself is external: the Deployment controller rolls
Pods when the template changes or a restart is requested, the kubelet makes
them ready and refreshes the projected configuration, and a Secret mounted by
`subPath` is never refreshed. A bundle is its image, the revision its other
resources come from and its replica count.

### DeploymentCommits

Each commit of `service.py` is one action: it appends an assignment set and
points the row at it (`SetDesired`), leaving claim token and lease alone, as
the code does. `CommitCatalogDeployment` may change the image,
`QueueCameraGeometry` keeps it, `RotateCredentials` advances the credential
version and copies the set, `SetLifecycle` changes replicas, `Rollback` copies
an older set with the current credential.

### DeploymentSync

One action per transaction or kubectl command of `run_once`:

| Code | Action |
|---|---|
| `claim` | `Claim` |
| `_load_work` | `LoadWork` |
| `_phase` | `EnterPhase` |
| Secret, bundle, reload, rollout, restart, status | `Preflight`, `ApplySecrets`, `ApplyBundle`, `AwaitRuntime`, `FallBack`, `RestartDeployment`, `AwaitRollout` |
| `_restore_previous` | `RestoreSecrets`, `RestoreBundle`, `AwaitRestored` |
| exceptions, dead process | `CommandFails`, `Crash` |
| `_record_success`, `_record_failure` | `Begin...` (the read) and `RecordSuccess`, `RecordFailure` (the write), `RejectSuccess`, `AbandonFailure` |
| time | `LeaseExpires`, `RetryDue` |

A command that fails may or may not have had its effect. A recording
transaction is two steps because it reads the row without a lock; its write
sets only the columns the ORM would write. The constant `SerializedRecords`
removes that race: `FALSE` is the code, `TRUE` answers what else could go
wrong. `torn` remembers that an attempt left its writes in the cluster.

### EnrollmentCamera

One deployment with the designated camera and one other camera (`peer`). A set
is reduced to what a session can tell apart: the designated camera's
applications, the geometry its configuration was built from, the other
camera's settings and the idempotency key. `starts[s]` is the API request that
runs `start_enrollment_session`, `tick` the single reconciler; both go through
`read`, `preview`, `commit` and `record`, the transactions of
`_apply_enrollment_target` and of its callers. A commit fails if any other
commit came after the preview, because the bundle hash covers the revision.
The worker appears as `Sync!RecordApplied` of `DesiredState`, which
`DeploymentSyncProofs` proves the worker implements (under
`SerializedRecords`).

`Disturbances` names what else may happen in a run, so that a run can show
which kind breaks a property: `edit` (another camera is reassigned), `rotate`
(the desired set is copied), `rollback`, `geometry`, `restart` (the API process
ends), `overtake` (cancellation or timeout while the start request is still
running). `MaxDisturbances` bounds the first five together.

### EnrollmentNaming

The naming half of a session against the control plane's SQLite tables. Each
operation of the control plane runs under its lock and is one action; a
rejected enrollment rolls back, its purge included. `requests` are the
management API's threads, `late` the calls whose caller gave up and that are
executed anyway, `discards` the best-effort discard calls. Similarity is a
constant relation, symmetric and reflexive, not necessarily transitive. The naming
timeout and the age of captures are flags; captures age only after the naming
timeout (30 against 15 minutes) or while a session still captures (polls that
fail).

### AlertOutbox

One fingerprint. `Ingest` is the transaction of one event (a webhook with
several events is a sequence of them), `Acknowledge` the management API's, and
a pass of `run_once` is `EnqueueDueReminders`, then `NothingToClaim` or
`Claim`, `BeginDelivery`, `Send` and `Finish`; `Crash` ends a pass anywhere.
Occurrences are numbered in the order of `starts_at`, and an event is its
status, occurrence and end, which is what the idempotency key hashes. A
message is what its `message_id` hashes; `after` stands for the suffix of a
reminder. Which policies match is constant.

Times are flags: `ripe` says that the time a row waits for has come (its next
attempt, the end of its lease, or the repeat interval after it was sent),
`old` that it reached the maximum delivery age. Nothing relates the two, so a
row may be old at its first attempt. The claim token is the number of the
claim: fresh like a uuid. Left open are the order among claimable rows, whether
the relay accepted an email whose answer was lost, and whether the reminder
query finds the alert locked and skips it. Lookups by `_deliver` that foreign
keys make succeed are left out.

The receiver runs one worker, but claims carry tokens, leases and
`skip_locked` for several; `alerts_leases` runs two, which also covers a
receiver that is replaced while its thread is still inside `run_once`.

### CameraCredentials and CameraInventory

One deployment whose sets pin a credential version per camera. `RotateCredentials`
supersedes the active version and clones the desired set of a deployment that
uses the camera; `DeleteCamera` and `ClearCredentials` destroy material unless
a live set uses it; `ApplyRetention` destroys what has been superseded for
thirty, or although pinned for ninety, days. `txn` is a commit that has read
and not yet written: `Serialized = TRUE` lets nothing come in between, `FALSE`
is READ COMMITTED without the deployment's lock.

`CameraInventory` runs `run_once` on top: one action per transaction
(`View`, `Create`, `Stream`, `Rotate`, `Enable`, then `ListForDeletion` and
`Delete`), each camera from one view, the inventory from one reading, which may
be that of a failing kubectl. Operators, commits, changes of the inventory and
the end of the process come between any two; they are bounded together by
`MaxDisturbances`.

### SolutionUpgrade and ReleaseUpgrade

`step` is the line at which the solution upgrader's command stands, `op` its
state file, `files` the host's pipeline files. `CommandDies` ends a command at
any step; the next one starts from `op`. `accepted` remembers the bundles the
runtime took. `ReleaseUpgrade` extends it: `at` and `rel` are the same for the
coordinator, and `child` is the command it waits for, whose steps are those of
`SolutionUpgrade` (`ChildStep`). Edits and the synchronizer go on beside both
(`Others`). `Crash` ends coordinator and child together.

### FleetRollout

A run probes, builds a bundle per group and deploys edges in worker threads;
`stage[e]` is the thread's step, `edge` and `group` are `fleet-state.json`,
`edgeHost` the edges. Any command may fail, `ControllerDies` ends the
controller, and `StartRun` resumes from the file. An edge whose preparation
still waits for its reboot is rebooted before it is prepared again
(`pendingReboot`); one that asks for it during its preparation is installed
after it.

### CameraGeometry and EnrollmentWindows

`CameraGeometry`: a shape is the revision at which it was last saved, and a
configuration is the set of shapes it was compiled from. A saved shape and the
sets it queues are one transaction (`SaveShape`). Starting and stopping a
window are two. `overwritten` names the deployments that a commit took back to
older shapes, until a saved shape reaches them again.

`EnrollmentWindows`: every request is a job; the windows' table has a lock, the
ConfigMap none. An operator's document is whole and may name any applications,
face_enrollment among them (`UpdateBegins`). `overtaken` remembers that a job
wrote over a revision it had not seen, or failed after it ended its window;
`byOperator` that an operator's document put the camera into enrollment, or kept
it there, while it had no window.

### SiteSessions and TelemetryStore

`SiteSessions!Ingest` is the whole transaction of an accepted event: threshold
rule, visit, vehicle session, daily span. Order, lateness and repetition of
events are free. `Crossings(log)` and `Detections` are the reference
definitions: they compute what should be there from the log of counts and from
the accepted events.

`TelemetryStore` has the other half: collectors, the pool that attaches snapshots, and
`EnforceRetention` with its four limits (age, number, bytes, disk) as recursive
functions. `torn` are files that an interrupted eviction unlinked.

### DailyReport, K3sWatchdog, StorageFailover, NodeStatus, Qualification

`DailyReport` is one row per date and any number of invocations. `K3sWatchdog`
is `run_once`, with its write as a step of its own, under a clock that may be
set, a boot id that may be unreadable (`Unknown`) and a state file that may
lose either time or both (`DamageState`: `_load` starts afresh from a missing,
unreadable or foreign file and drops each time that is not a number).
`StorageFailover` and `NodeStatus` are loops that read, decide and write
in several calls while nodes change. `Qualification` is a run of checks that
reads in six places beside commits, rollouts, restarts of the Pod and the
deletion of its claim.

### MCSiteServices

These services share no state: the product of their states would be large and
show nothing more. The initial state chooses one of the constant `Services`
(`focus`; a smaller set looks at some of them only) and the others stand still,
which takes no behaviour of a service away. The services'
modules are extended, so that the theorems are about the very properties the
run checks.

## 3. Runs

`expect: pass`

| Run | Shows | Bounds |
|---|---|---|
| `sync_safety` | `HeldServesApplied`, `AppliedInputs`, `AppliedResources` with the code's own recording race | 1 worker, 3 commits, 2 images, 2 faults |
| `sync_two_workers` | `AppliedIsDesired`, `HeldIsUpgrade`, `ImplementsDesiredState` with serialized recording | 2 workers, 2 commits, 2 images, 1 fault |
| `sync_converges` | `Converges` | 1 worker, 2 commits, 2 faults |
| `camera_safety` | `CapturesInEnrollment` under every kind of disturbance | 2 sessions, 1 disturbance, any number of overtakes |
| `camera_returned` | `CameraReturned`, `RestoredOnTerminal`, `SessionEnds` under edits and restarts | 2 sessions, 3 disturbances |
| `naming_safety` | `NoTwoPersonsAlike`, `NamedHasPerson`, `NamingIsFinal`, `NamingEnds` | 2 sessions with 1 capture, 2 requests, 2 faces |
| `alerts_webhooks` | `OneReminderOutstanding`, `OneRecovery`, `ImplementsContract` for webhooks of two occurrences in any order | 1 worker, 2 ends, any 4 of the 6 events, 3 rows, 1 attempt within the maximum age, 1 crash |
| `alerts_leases` | `AttemptsTellState`, `QueuedIsSettled` when leases run out under two workers | 1 occurrence, 2 rows, 2 attempts, 1 crash |
| `camera_inventory` | `DesiredServable`, `CredentialsReachRuntime`, `MirrorConverges` | 2 cameras, 2 documents, 1 stream, 3 disturbances, serialized commits |
| `site_services` | the properties of the eleven services, below, and their types (`TypeOK`) | below |

`site_services`, one service at a time:

| Service | Properties | Bounds |
|---|---|---|
| upgrades | `UpgradeExtendsSource`, `RecordsHold`, `ActivatedOnPreparedPlatform` | every kind of plan, 4 sets: the first, an edit, the upgrade, the rollback; any number of crashes |
| events | `VisitsConsistent`, `DerivedExact` | one of three batches of 4 events in any order, 4 ticks in days of 3 |
| telemetry | `SnapshotsServed`, `RetentionEffective` | 3 events, 2 contents one of which exceeds the budget alone, 1 crash |
| watchdog | `RestartsBounded` | 1 tick of failure, cooldown 2, clock to 3, 3 recorded runs, 2 boots and an unreadable id, any number of lost times |
| mails | `OneMailPerDate` | 2 invocations, 2 dates, 2 answers of Apex |
| failover | `LeavesFailedNode` | 2 nodes, 3 claims, 3 faults |
| control plane windows | `EnrollmentHasWindow` | 2 jobs at a time, 2 windows, operators' revisions to 4 |
| geometry | `SavedShapesServed` | 1 deployment, 2 shapes, 2 saved changes, 3 sets |
| node labels | `QualifiedIsRecent` | 1 node, reports stale after 2 ticks, clock to 6, 1 failed pass |
| qualification | `PassedIsWitnessed` | 2 images, 3 sets, 2 Pods, 2 claims |
| fleet | `VerifiedIsInstalled`, `ResumingCompletes` | 3 edges in 2 groups, 2 threads, 2 faults |

Three commits are the least that show a live reload, a change of image and a
return to the first bundle in one history; two faults are a crash inside an
attempt and another inside the restoration that follows it. Two enrollment
sessions show the hand-over of a camera from a finished session to the next.
Two sessions with one capture each are the least for a race between two
enrollments of the same face; for two captures a face either resembles the
other or it does not, which two values tell apart (the theorems hold for every
symmetric relation). Two occurrences with two ends are the least for a late
event of an older occurrence and for a second resolution; four events hold
both, and three rows hold a firing email with its reminder and its recovery; a
crash makes a row be delivered twice. Two attempts are a lease that runs out
and the attempt that replaces it. When a bound on events or rows is reached,
events that would exceed it no longer arrive in the model.

A mirrored and a free camera are the least for deletions beside a camera in
use; three disturbances are, for example, a commit, a change of the document
and a restart in the middle of the pass that rotates it. A batch of events has
an entry with two exits, one of which arrives late, or a value that crosses its
threshold twice. Three claims show a replaced claim replaced again. Two threads
for three edges make one edge wait, and a second fault may hit what resumes
after the first. The theorems of section 4 remove these bounds where
they apply.

`expect: violation`: disagreements between the code and its documentation met
while modelling; `PROJECT.json` quotes the lines.

| Run | Property | What happens |
|---|---|---|
| `sync_lost_commit` | `AppliedIsDesired` | a commit inside `_record_success` ends up under state applied |
| `release_rollback` | `RolledBackRestored` | an application activation fails after its links were switched; the rollback skips the application and records `rolled_back` |

Further counterexamples, found with the same modules and not kept as runs. Of
synchronization and commits:

* `AppliedBundleAccepted` (the `sync_safety` constants): an attempt to change
  the image is cut off; a rollback compares bundles recorded in the database
  (`tvt_edge/cluster/sync.py:218`), takes the live-reload path and is recorded
  as applied with the other image running.
* `ClaimFencesRollout` (two workers, 2 commits, no fault): a commit during a
  rollout makes the row pending, and `claim` honours the lease of rows in state
  applying only (`tvt_edge/cluster/sync.py:394`).
* `AppliedSourcesMounted` (the `sync_safety` constants): after a live reload,
  rotating the credentials and rolling back applies a template that is already
  there, so no Pod restarts and the old Secret stays mounted
  (`tvt_edge/cluster/sync.py:790`). With `LiveReload = FALSE` it holds for one
  worker, 3 commits and 2 faults.
* `rollback` restores a set of another lifecycle and leaves `lifecycle_intent`
  as it is (`tvt_edge/service.py:3844`).

Of enrollment:

* `RestoredOnTerminal` with `Disturbances = {"geometry"}`: a geometry saved
  between the end of capturing and the restoring commit is taken for the
  restoration (`tvt_edge/service.py:814`).
* `GeometryKept` with `{"geometry"}`: the restoring commit uses a
  `prior_config` read before the save.
* `PeerKept` with `{"edit"}`: an operator's commit between the read of the
  assignments and the preview of an enrollment commit is overwritten
  (`tvt_edge/service.py:2653`).
* `SessionEnds` with `{"rotate"}`: a newer commit supersedes the exact revision
  a restoration waits for (`tvt_edge/service.py:2569`).
* `CameraReturned` with `{"overtake"}`: an activation commits after its
  cancelled session was restored (`tvt_edge/service.py:2747`).
* `DiscardedHasNoPerson`: a session is discarded while its enroll call is under
  way, outside any transaction (`tvt_edge/service.py:3111`).
* `DiscardedFacesGone` (one session, one request, `FairSpec`): nothing repeats
  a lost discard call, and staged faces are purged only when another
  enrollment comes along (`tvt_edge/service.py:2868`).

Of alerts:

* `AcknowledgementStopsReminders`: a reminder queued before the acknowledgement
  is delivered after it (`tvt_edge/alerting/outbox.py:119`).
* A firing email that is still being retried when the alert resolves is
  delivered later and no recovery email ever follows: `_firing_was_sent` is
  asked once, at the resolution (`tvt_edge/alerting/service.py:204`).
* After a reminder failed for good or expired, no reminder of the occurrence
  is queued any more: the next one would have the same identity
  (`tvt_edge/alerting/outbox.py:256`).
* A resolution that overtakes the firing event of its occurrence while an
  earlier occurrence is current is recorded and ignored; its repetition is a
  duplicate, and the alert stays active (`tvt_edge/alerting/service.py:171`).

Of cameras and their inventory (`tvt_edge/cluster/camera_inventory_sync.py`):

* `OnlyMirroredDeleted`: a pass deletes every unused camera that is not listed,
  those of operators included (line 236; the docstring says otherwise, line
  31). A failing kubectl reads as an empty list (line 146).
* `DesiredServable` with `Serialized = FALSE`: a rotation that clones the
  desired set, or a deletion, between the reads and the writes of a commit.
* What `MirrorConverges` excepts: a listed camera whose key belongs to a deleted
  row ends every pass with a database error (line 183); credentials that were
  cleared are not rotated in again from an unchanged document. A document that
  returns to an earlier value is not rotated in either, because the request
  is identified by its hash (line 225).

Of the services:

* `CountedOnce` with `ReplayEvicted = TRUE`: an event repeated after retention
  removed it is counted again. A vehicle's exit closes its session whatever
  their times, so a session may end before it begins.
* Windows of the control plane: two concurrent applies may lower the revision
  of the ConfigMap, and a window that was ended before its restoration failed
  leaves the camera in enrollment (`server.py:1133`). An operator's document
  that was read while a window was open, and is submitted with a higher revision
  after the stop, puts the camera back into enrollment with no window to end it:
  `update_runtime_configuration` looks at the schema and the revision only
  (`server.py:1042`), and the schema allows face_enrollment.
  `EnrollmentHasWindow` excepts both, and says so (`overtaken`, `byOperator`).
  Of the management service: `sweep_expired_enrollment_windows` is not called by anything.
* What `SavedShapesServed` excepts: stale catalog forms, which are stored as
  being of the newest revision (`service.py:2096`), rollbacks, windows started
  on older shapes, a camera unassigned while its window is active, and stops
  that fail. The key of a deleted shape cannot be given again
  (`tvt_edge/db/models.py:821`).
* K3s may restart again inside the cooldown of ten minutes, after a failure of
  two: the cooldown is only in the state file, and a file that is missing,
  unreadable, corrupt or of another version (`watchdog.py:155`), or a boot id
  that changed or could not be read, makes the next run start afresh.
  `RestartsBounded` binds restarts between which every run found what the run
  before it recorded (`Remembers`). A restart whose run was killed before its
  write is repeated by the next run.
* `LeavesFailedNode` judges a node by what the pass read: one that returns while
  the pass goes on is left all the same. It excepts passes after one that was
  cut off half-way, whose deletion of stranded Pods the next pass repeats.
* A label stays when the report is deleted, and a failing patch ends the pass
  over all nodes (`status_controller/controller.py:86`).
* A qualification run that has already failed still commits, and rolls back,
  what was asked for (`tvt_edge/qualification.py:564`).
* A half-built bundle directory is refused by the builder until somebody
  removes it (`scripts/tvt-edge-fleet.py:417`).

`CHECK_DEADLOCK FALSE` is set where commits, sessions, events or disturbances
are bounded: when they are used up and everything is settled the model stops,
and so does the program until its next request.

### Fairness

* Sync: weak fairness of each worker's progress (systemd restarts the worker,
  whose loop calls `run_once` for ever), of the cluster (Kubernetes
  reconciles), of lease and retry clocks. Commits, failures and crashes are
  never forced.
* Camera: weak fairness of a running start request, of the reconciler (a tick
  every two seconds), of the sync worker and of the clocks. Cancellations and
  disturbances are never forced.
* Naming: weak fairness of the clocks and of the sweep the reconciler runs
  each tick. Requests, answers and discard calls are never forced.
* Alerts: weak fairness of each worker's pass (the receiver's loop calls
  `run_once` for ever and survives its exceptions, `receiver.py:59`) and of
  time. Webhooks, acknowledgements, answers of the relay and crashes are never
  forced.
* Inventory: weak fairness of the mirroring pass and of the sync worker (the
  sync service runs both in a loop, `tvt_edge/cli.py`), and of the end of an
  open transaction.
* Fleet: weak fairness of each worker thread and of the controller. Resuming is
  the operator's, who is taken to resume a fleet that is not verified; a fault
  is never forced.

## 4. Proofs

Each theorem holds for every value of the constants that the named `ASSUME`s of
the modules allow (bounds are natural numbers, `None` is no value, similarity
is symmetric and reflexive, every edge has hardware, an event has a kind, a role
and a time, an attachment some contents, a content a size), so for any number of
workers, cameras, events, faults and crashes. Some carry a hypothesis of their
own, which is part of the theorem's statement and named here.

**Synchronization.** `DeploymentSyncProofs!TypeCorrect` is `Spec => []TypeOK`.
`TypeOK` is not inductive: that an attempt's `set` and `previous` are committed
revisions needs that sets are never removed and that the row points at one of
them; `TypeInv` adds it. Under `SerializedRecords` the module proves
`SettledIsDesired` (no commit is lost under state applied), `HeldIsAnUpgrade`
(only an image change of an applied deployment waits for an operator) and
`Refinement` (worker, commits, crashes and takeovers implement `DesiredState`).
The invariant is `SyncInv`: the row by itself (`RowInv`) and each attempt
against the row (`Sound(w)`: while the token is `w`'s, what it loaded is still
current, so the set it carries is newer than the applied one).

`DeploymentClusterProofs` proves what the cluster runs, with the race of
`_record_success` in it but for one worker (`SingleWorker`, what the service
file starts): `InputsAreApplied` (the ConfigMap and Secret of an applied
deployment are those of the applied revision), `ResourcesAreApplied` (it runs
the recorded image and replicas unless an attempt left its writes behind) and
`HeldIsRestored` (an operator who is awaited finds the applied set restored in
full). `ClusterInv` relates the attempt, step by step, to what the cluster has
of the new and of the previous set, and to `torn`; and the row to the cluster
for every moment no attempt is under way. The hypothesis is needed:
with two workers, 2 commits and 1 fault TLC refutes all three, because a worker
that was taken over may still be inside a command.

**Enrollment.** `EnrollmentCameraProofs!CameraTypes`,
`CapturesOnlyInEnrollment` and, when `"geometry" \notin Disturbances`,
`RestoredAtTheEnd`. `CameraInv` adds to the types that a set committed under a
session's key has the applications asked for (`KeysInv`), and that the
revisions in rows and in running requests name such sets. Sets are only
appended, so it stays true through commits, restarts and retries. A saved
geometry that counts as a restoration is a set of its own, hence the condition.
`CameraIsReturned` is proved under `Undisturbed` (no overtake, rollback or saved
geometry; edits of other cameras, rotations and restarts remain): without it
section 3 has the counterexamples. `ReturnInv` says that a request which has not
committed works on a deployment in its prior state, that a session with a
restoring set is on its way out, and that only one session is active.

`EnrollmentNamingProofs!NamingTypes`, `PersonsApart`, `NamedPersons` and
`NamesAreFinal` (an action property), for every similarity relation that is
reflexive and symmetric. `NamingInv` says of a request whose answer has not
been recorded what `NamedHasPerson` says of the row, and that the captures of a
session do not change once it waits for a name; `NoTwoPersonsAlike` needs that
staged captures have faces.

**Alerts.** `AlertOutboxProofs!DispatcherTypes`, `RecoveredOnce`,
`KeepsContract`, `AttemptsAreTold` and `OneReminderWaits`. `ContractInv` says of
every queued reminder and recovery that the firing email of its occurrence
reached the policy's recipients, and of every row that is or is about to be
recorded as sent that the relay accepted it; a recovery's occurrence is over,
and stays so. `AttemptsInv` adds that only a row under delivery has a claim,
that the claim is the number of its current attempt, which has no result yet,
and that a delivering worker never holds the null token. `ReminderInv` says that
the suffix of a reminder that waits is the last email sent about its
occurrence: looking again computes the same identity.

**Camera inventory.** `CameraInventoryProofs!InventoryTyped`, and
`DesiredIsServable` under `Serialized`. The code does not enforce that
hypothesis: without it the property is false (section 3), so the theorem says
that the missing lock is the only thing that is wrong. `ServedInv` says of a
commit that has read and not written what the property says of the desired set:
every camera is present, every pinned version active.

**Upgrades.** `ReleaseUpgradeProofs!NoEditLost`, `RecordsAreTrue` and
`PlatformVerified`, for any number of committed sets (`MaxSets` above zero) and
any number of crashes and repeated commands. None of the three is inductive,
because a command goes on from what a killed one left. `SolutionInv` says what
the upgrader's state file means to the next command: before it says prepared
there is no source, no upgrade set and no changed file, `started` means that the
runtime accepted the target, and nothing runs on an operation that was rolled
back. `ReleaseInv` adds that each of the coordinator's steps implies a status
(`StepInv`), and that every status that can still be activated implies a
complete staging (`StagedInv`). The false `RolledBackRestored` is the run
`release_rollback`.

**Site services** (`SiteServiceProofs`), each about its module's own safety
specification. `ServicesStandAlone` shows that the run's specification implies
all eleven of those (a step of one service leaves the variables of the others
alone), so that each of these theorems and those about upgrades hold of what
the run `site_services` checks.

* `MailedOnce`: the claim makes one invocation the only holder of its date until
  the outcome is recorded (`HolderInv`), nothing was sent before the claim
  (`UnsentInv`), and whoever sends has the stored figures (`ProcessInv`).
* `RestartsAreBounded`, for a threshold above zero and any history of the clock,
  the boot id and the state file. The property speaks of runs that the state
  file has forgotten; the invariant says what the file stands for: its boot id,
  and its failure if that is not lost, are those of the last recorded run
  (`BootInv`, `FileInv`); a failure began at a recorded run under that id and
  never paused (`Explained`); and the cooldown a run leaves covers every restart
  that the runs since then remembered (`Cooled`).
* `DataLeftForOverdueNodes` (an action property): `FailoverInv` relates a pass
  that has decided to replace a claim to the Pods and claims that may change
  until it patches the Deployment.
* `WindowsAreKept`: `WindowInv` says which jobs still hold a revision of the
  ConfigMap that they may write, that a job whose revision was used up meanwhile
  is refused or counted in `overtaken`, and that whatever else is written is a
  window's or a restoration's, or makes `byOperator` true.
* `LabelsAreRecent`: between passes, a label rests on a report no older than
  stale plus the allowance for failed passes. During a pass that is one interval
  more for nodes the pass has still to come to (`Pending`), which is why the
  property has its `1 + failedPasses`.
* `VerifiedEdgesRun`: `FleetInv` says what each step of a worker thread has
  established of its edge (the bundle of its hardware from the transfer on, a
  complete installation at the verification), and that a prepared driver
  implies a reboot, which survives the death of the controller.
* `VisitsAreConsistent`, for any events in any order, when the stream does not
  repeat an event that retention removed (`~ReplayEvicted`: such a repetition is
  accepted as a new event, and would be an end of a second session).
  `VisitInv` says of either table that its rows' ends are events that arrived,
  each an end of one row, and that the open row of a key is the only one
  (`Orderly`); that visits go forward in time (`ForwardInTime`); and that every
  exit that arrived is an end (`ExitsKept`), which needs that no step takes an
  end away.
* `DerivedIsExact`, for any events, evicted, repeated or late. `SpanInv` says of
  the row of a plate and a day that its count is the number of detections in the
  log and that its ends are one of them each and enclose all. `RuleInv` says of
  the rule that it was known and active as the last count tells, and that its
  last alert is the time of the last position in `alerts`: so the comparison
  with one remembered time decides what `Crossings` decides from all earlier
  crossings.
* `EventsCountOnce`: `CountedOnce` under `~ReplayEvicted`. The detections of a
  span are then different events (`OnceInv`). Without the hypothesis it is
  false (section 3).
* `SnapshotsAreServed`: the property with the types of the store. An attachment
  looks for its event in the transaction that links it, an eviction removes an
  event's links with it and a content only with its last link, and what a crash
  leaves unlinked is in `torn`. However many events retention evicts by its
  recursive counts, each is deleted in one such step (`DeleteEvents`).
* `RetentionIsEffective` (an action property), for any sizes, shared contents,
  batches and free space. The loops are solved by induction on the events that
  are left (`LoopsSolved`, `BytesLoopStops`, `DiskLoopGoesOn`), and what the disk
  loop evicts on top leaves no more bytes (`BytesShrink`, from a sum over fewer
  snapshots that is no larger). The hypothesis is `Low < High`: the policy
  refuses other watermarks (`telemetry.py:54`), and both are then rounded down
  to bytes (lines 279 and 280), so it leaves out a budget of so few bytes that
  the two come out equal. There the loop, which ends at the low watermark, would
  stop at the high one.
* `ShapesAreServed`: `ReturnInv` says where the current shapes wait for each
  deployment with the camera: in the window if it is borrowed, else in the
  desired set or in the stop that has closed the window and not yet committed.
  `KeysApart` says of saved and deleted shapes that no two have one key.
* `ReportsAreWitnessed`: `RunInv` says what each step of a qualification has
  established. Between its readings the Pod may be replaced; that the reported
  claim is nevertheless the Pod's is `PodInv`: a Pod uses the claim there is
  while it runs, and the name of a Pod is used once, so a Pod that answers to
  the name read before still has the claim it had.

* `TypesHold`, under `PositiveBound` (`MaxSets` above zero):
  `Spec => []TypeOK` for the eleven services at once. Nine of the
  types are part of the invariants above. `SessionTypeInv` drops what
  `VisitInv` needs `~ReplayEvicted` for. The type of the geometry is not
  inductive: a zone whose name is taken gets the next free suffix, and that it
  lies within the bound needs `SuffixInv`, no suffix is higher than the revision
  of the change that gave it.

Sums over a set and recursive functions are reasoned about without an operator
as a parameter: the members for which a claim holds are a set, and a set of
naturals, or of subsets of a finite set, that contains the least element and is
closed under the step is all of them (`NatSetInduction`, `FiniteSetInduction`,
by a least counterexample). A recursive function is unfolded through the set of
its solutions, of which there is one.

Every invariant was also model-checked on the instance of its run.

Left to TLC: liveness (`Converges`, `SessionEnds`, `NamingEnds`,
`QueuedIsSettled`, `CredentialsReachRuntime`, `MirrorConverges`,
`ResumingCompletes`), because fairness and ENABLED are out of the prover's
reach. Every invariant and action property of the passing runs is stated by a
theorem.

## 5. Not modelled

Left out of the modelled parts: manifest contents, request validation, views,
audit rows, redaction, wording of errors, more than one deployment of the sync
worker (rows of different deployments are independent), the designation of
another enrollment camera, captures that arrive after their session was closed
(they stay until purged), encryption, queries and exports of the telemetry
database, and the compiled geometry document.

Not modelled at all, with the reason in `PROJECT.json`: catalog seeding and
import (validation and hashing of static documents), the single-box CLI and
its store (one operator, one transaction per command), observability and
cluster status (reads only), the legacy import (one-shot), the user interface
(no state of its own) and the shell scripts that install hosts, whose outcomes
`ReleaseUpgrade` and `FleetRollout` use. Of the control plane's server, the
deployment jobs of the older wizard and the device registry are I/O around
Kubernetes. Discovery and node qualification parse command output.

What could be added: step simulation for the services that promise what an
abstract mailbox or lease would, as `AlertContract` and `DesiredState` do for
theirs.
