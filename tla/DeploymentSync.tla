---------------------------- MODULE DeploymentSync ----------------------------
(***************************************************************************)
(* The deployment synchronization worker, src/tvt_edge/cluster/sync.py,    *)
(* together with the commits it serves and the cluster it writes to.       *)
(*                                                                         *)
(* A worker claims the row of a deployment under a lease, applies the      *)
(* desired set with kubectl, and records the result in a last transaction. *)
(* Every step that the program performs as one transaction or one kubectl  *)
(* command is one action.  work[w].step is the next such step of worker w, *)
(* work[w].fenced says that the _phase transaction before it has passed.   *)
(***************************************************************************)
EXTENDS DeploymentCommits

CONSTANTS
    LiveReload,         \* TVT_RUNTIME_RELOAD_TIMEOUT > 0
    SerializedRecords,  \* nothing writes the row inside a recording transaction
    MaxFaults           \* bound on failed commands and crashes

ASSUME ModeAssumption ==
    /\ LiveReload \in BOOLEAN
    /\ SerializedRecords \in BOOLEAN
    /\ MaxFaults \in Nat

VARIABLES
    work,       \* the attempt each worker process is running
    torn,       \* history: an attempt left its writes in the cluster
    faults      \* failed commands and crashes so far

vars == <<cluster, sets, credential, intent, sync, work, torn, faults>>

(* Steps that run_once or _restore_previous open with a call of _phase. *)
PhasedSteps ==
    {"preflight", "secrets", "bundle", "wait", "rollout", "restart",
     "restoreSecrets"}

RestoreSteps == {"restoreSecrets", "restoreBundle", "restoreStatus"}

(* Steps that run kubectl commands. *)
CommandSteps ==
    {"preflight", "secrets", "bundle", "wait", "rollout", "restart", "status"}
      \cup RestoreSteps

(* The record transaction has read the row and has not committed yet. *)
RecordSteps == {"succeeding", "failing"}

Steps ==
    {"idle", "load", "record", "giveup"} \cup CommandSteps \cup RecordSteps

Attempt == [step      : Steps,
            fenced    : BOOLEAN,
            set       : Revision \cup {0},  \* SyncWorkItem.desired_revision
            previous  : Revision \cup {0},  \* SyncWorkItem.previous
            mutated   : BOOLEAN,            \* run_once's mutation_started
            recovered : BOOLEAN,
            restarted : BOOLEAN,            \* the restart branch was taken
            seen      : [desired : Revision \cup {0}, state : SyncState]]

Idle == [step |-> "idle", fenced |-> FALSE, set |-> 0, previous |-> 0,
         mutated |-> FALSE, recovered |-> FALSE, restarted |-> FALSE,
         seen |-> [desired |-> 0, state |-> "pending"]]

(***************************************************************************)
(* The row, the committed sets, the attempts and the cluster stay within   *)
(* their types: a row is never in a state that claim does not know.        *)
(***************************************************************************)
TypeOK ==
    /\ ClusterType
    /\ CommitType
    /\ work \in [Workers -> Attempt]
    /\ torn \in BOOLEAN
    /\ faults \in 0..MaxFaults

Init ==
    /\ ClusterInit
    /\ CommitInit
    /\ work = [w \in Workers |-> Idle]
    /\ torn = FALSE
    /\ faults = 0

-------------------------------------------------------------------------------
(* Helpers. *)

At(w, step) == work[w].step = step

(* The command steps that follow a _phase call wait for it. *)
Ready(w, step) ==
    /\ At(w, step)
    /\ step \in PhasedSteps => work[w].fenced

Goto(w, step) == [work EXCEPT ![w].step = step, ![w].fenced = FALSE]

(***************************************************************************)
(* PostgreSQL runs the transactions at READ COMMITTED, and a recording     *)
(* transaction reads the row without a lock.  SerializedRecords excludes   *)
(* the other writers of the row while one is open.                         *)
(***************************************************************************)
RowFree(w) ==
    SerializedRecords => \A v \in Workers \ {w} : work[v].step \notin RecordSteps

NoRecordOpen ==
    SerializedRecords => \A v \in Workers : work[v].step \notin RecordSteps

ImageChanged(w) ==
    /\ work[w].previous # 0
    /\ BundleOf(work[w].set).image # BundleOf(work[w].previous).image

BundleChanged(w) == BundleOf(work[w].set) # BundleOf(work[w].previous)

(* Mutant: the rest of the bundle is not compared. *)
LiveReloadCandidateBySource(w) ==
    /\ LiveReload
    /\ work[w].previous # 0
    /\ CredentialOf(work[w].set) = CredentialOf(work[w].previous)

(* _is_live_reload_candidate compares with the recorded previous set. *)
LiveReloadCandidate(w) ==
    /\ LiveReload
    /\ work[w].previous # 0
    /\ Resources(BundleOf(work[w].set)) = Resources(BundleOf(work[w].previous))
    /\ CredentialOf(work[w].set) = CredentialOf(work[w].previous)

(***************************************************************************)
(* Where an exception of run_once leads: to the restoration of the         *)
(* previous set if a Secret apply had succeeded, else to _record_failure.  *)
(* An exception of the restoration itself also ends there.                 *)
(***************************************************************************)
OnError(w) ==
    IF /\ work[w].mutated
       /\ work[w].previous # 0
       /\ work[w].step \notin RestoreSteps
    THEN "restoreSecrets"
    ELSE "giveup"

(* The step after a bundle was applied or its rollout was avoided. *)
AfterBundle(w) ==
    IF BundleOf(work[w].set).replicas = 0 THEN "record"
    ELSE IF BundleChanged(w) THEN "rollout" ELSE "restart"

Fault == faults < MaxFaults /\ faults' = faults + 1

-------------------------------------------------------------------------------
(* Claiming. *)

(* Mutant: the rows of crashed workers are not selected. *)
ClaimableUnlessApplying ==
    Deployed /\ sync.state \in {"pending", "failed"} /\ sync.due

Claimable ==
    /\ Deployed
    /\ sync.state \in {"pending", "failed", "applying"}
    /\ sync.due
    /\ sync.state = "applying" => ~sync.leased

(***************************************************************************)
(* claim: SELECT ... FOR UPDATE SKIP LOCKED, so two workers never claim    *)
(* the same version of the row.                                            *)
(***************************************************************************)
Claim(w) ==
    /\ At(w, "idle")
    /\ RowFree(w)
    /\ Claimable
    /\ sync' = [sync EXCEPT !.state = "applying", !.token = w,
                            !.leased = TRUE]
    /\ work' = [work EXCEPT ![w] = [Idle EXCEPT !.step = "load",
                                                !.set = sync.desired]]
    /\ UNCHANGED <<cluster, commitVars, torn, faults>>

(* _load_work, a transaction of its own, reads the applied set. *)
LoadWork(w) ==
    /\ At(w, "load")
    /\ work' = [Goto(w, "preflight") EXCEPT ![w].previous = sync.applied]
    /\ UNCHANGED <<cluster, commitVars, sync, torn, faults>>

(* _phase: fails if the claim token was taken over, else renews the lease. *)
EnterPhase(w) ==
    /\ work[w].step \in PhasedSteps
    /\ ~work[w].fenced
    /\ RowFree(w)
    /\ IF sync.token = w
         THEN /\ work' = [work EXCEPT ![w].fenced = TRUE]
              /\ sync' = [sync EXCEPT !.leased = TRUE]
         ELSE /\ work' = Goto(w, OnError(w))
              /\ UNCHANGED sync
    /\ UNCHANGED <<cluster, commitVars, torn, faults>>

-------------------------------------------------------------------------------
(* Applying the claimed set: run_once. *)

(* Digests are cached on the node, credentials decrypt, inputs are built. *)
Preflight(w) ==
    /\ Ready(w, "preflight")
    /\ work' = Goto(w, "secrets")
    /\ UNCHANGED <<cluster, commitVars, sync, torn, faults>>

(* Mutant: inputs are written only when the camera sources change. *)
ApplyChangedSecrets(w) ==
    /\ Ready(w, "secrets")
    /\ cluster' = IF CredentialOf(work[w].set) = CredentialOf(work[w].previous)
                    THEN cluster ELSE ApplyInputs(cluster, work[w].set)
    /\ work' = [Goto(w, "bundle") EXCEPT ![w].mutated = TRUE]
    /\ UNCHANGED <<commitVars, sync, torn, faults>>

ApplySecrets(w) ==
    /\ Ready(w, "secrets")
    /\ cluster' = ApplyInputs(cluster, work[w].set)
    /\ work' = [Goto(w, "bundle") EXCEPT ![w].mutated = TRUE]
    /\ UNCHANGED <<commitVars, sync, torn, faults>>

(* A live-reload candidate leaves the bundle's objects as they are. *)
ApplyBundle(w) ==
    /\ Ready(w, "bundle")
    /\ IF LiveReloadCandidate(w)
         THEN /\ work' = Goto(w, IF BundleOf(work[w].set).replicas = 0
                                   THEN "record" ELSE "wait")
              /\ UNCHANGED cluster
         ELSE /\ cluster' = ApplyTemplate(cluster, BundleOf(work[w].set))
              /\ work' = Goto(w, AfterBundle(w))
    /\ UNCHANGED <<commitVars, sync, torn, faults>>

AwaitRuntime(w) ==
    /\ Ready(w, "wait")
    /\ Acknowledges(cluster, work[w].set)
    /\ work' = Goto(w, "record")
    /\ UNCHANGED <<cluster, commitVars, sync, torn, faults>>

(* No acknowledgement in time: apply the full bundle after all. *)
FallBack(w) ==
    /\ Ready(w, "wait")
    /\ cluster' = ApplyTemplate(cluster, BundleOf(work[w].set))
    /\ work' = Goto(w, AfterBundle(w))
    /\ UNCHANGED <<commitVars, sync, torn, faults>>

RestartDeployment(w) ==
    /\ Ready(w, "restart")
    /\ cluster' = RestartPods(cluster)
    /\ work' = [Goto(w, "status") EXCEPT ![w].restarted = TRUE]
    /\ UNCHANGED <<commitVars, sync, torn, faults>>

AwaitRollout(w) ==
    /\ Ready(w, "rollout") \/ Ready(w, "status")
    /\ RolledOut(cluster)
    /\ work' = Goto(w, "record")
    /\ UNCHANGED <<cluster, commitVars, sync, torn, faults>>

-------------------------------------------------------------------------------
(* Undoing it: _restore_previous. *)

(* Mutant: the previous inputs are not written back. *)
RestoreWithoutSecrets(w) ==
    /\ Ready(w, "restoreSecrets")
    /\ work' = Goto(w, "restoreBundle")
    /\ UNCHANGED <<cluster, commitVars, sync, torn, faults>>

RestoreSecrets(w) ==
    /\ Ready(w, "restoreSecrets")
    /\ cluster' = ApplyInputs(cluster, work[w].previous)
    /\ work' = Goto(w, "restoreBundle")
    /\ UNCHANGED <<commitVars, sync, torn, faults>>

RestoreBundle(w) ==
    /\ Ready(w, "restoreBundle")
    /\ LET b == BundleOf(work[w].previous)
           c == ApplyTemplate(cluster, b)
       IN  IF b.replicas = 0
             THEN /\ cluster' = c
                  /\ work' = [Goto(w, "giveup") EXCEPT ![w].recovered = TRUE]
             ELSE /\ cluster' = RestartPods(c)
                  /\ work' = Goto(w, "restoreStatus")
    /\ UNCHANGED <<commitVars, sync, torn, faults>>

AwaitRestored(w) ==
    /\ Ready(w, "restoreStatus")
    /\ RolledOut(cluster)
    /\ work' = [Goto(w, "giveup") EXCEPT ![w].recovered = TRUE]
    /\ UNCHANGED <<cluster, commitVars, sync, torn, faults>>

-------------------------------------------------------------------------------
(* Failures. *)

(* What the command of the worker's current step does to the cluster. *)
CommandEffect(w) ==
    LET next == BundleOf(work[w].set)
        prev == BundleOf(work[w].previous)
    IN  CASE At(w, "secrets") -> ApplyInputs(cluster, work[w].set)
          [] At(w, "bundle") /\ ~LiveReloadCandidate(w) ->
               ApplyTemplate(cluster, next)
          [] At(w, "wait") -> ApplyTemplate(cluster, next)
          [] At(w, "restart") -> RestartPods(cluster)
          [] At(w, "restoreSecrets") ->
               ApplyInputs(cluster, work[w].previous)
          [] At(w, "restoreBundle") -> ApplyTemplate(cluster, prev)
          [] OTHER -> cluster

(***************************************************************************)
(* A command fails or times out, with or without having had its effect.    *)
(* A failed Secret apply does not set mutation_started, so what it did     *)
(* write stays.                                                            *)
(***************************************************************************)
CommandFails(w) ==
    /\ \E step \in CommandSteps : Ready(w, step)
    /\ Fault
    /\ cluster' \in {cluster, CommandEffect(w)}
    /\ work' = Goto(w, OnError(w))
    /\ torn' = (torn \/ (At(w, "secrets") /\ cluster' # cluster))
    /\ UNCHANGED <<commitVars, sync>>

(* The process ends anywhere in the attempt; a new one starts idle. *)
Crash(w) ==
    /\ ~At(w, "idle")
    /\ Fault
    /\ \/ UNCHANGED cluster
       \/ /\ \E step \in CommandSteps : Ready(w, step)
          /\ cluster' = CommandEffect(w)
    /\ work' = [work EXCEPT ![w] = Idle]
    /\ torn' = (torn \/ work[w].mutated \/ cluster' # cluster)
    /\ UNCHANGED <<commitVars, sync>>

-------------------------------------------------------------------------------
(***************************************************************************)
(* Recording.  The ORM reads the row at the start of the transaction and   *)
(* writes at its end the columns whose values it changed, so a column that *)
(* another transaction has committed in between is overwritten only if     *)
(* this one changed it.                                                    *)
(***************************************************************************)
Written(w, state) == IF state = work[w].seen.state THEN sync.state ELSE state

ReadRow(w, step) ==
    /\ RowFree(w)
    /\ sync.token = w
    /\ work' = [Goto(w, step) EXCEPT
                  ![w].seen = [desired |-> sync.desired, state |-> sync.state]]

(* Mutant: the claim token is not compared. *)
BeginSuccessUnfenced(w) ==
    /\ At(w, "record")
    /\ RowFree(w)
    /\ work' = [Goto(w, "succeeding") EXCEPT
                  ![w].seen = [desired |-> sync.desired, state |-> sync.state]]
    /\ UNCHANGED <<cluster, commitVars, sync, torn, faults>>

BeginSuccess(w) ==
    /\ At(w, "record")
    /\ ReadRow(w, "succeeding")
    /\ UNCHANGED <<cluster, commitVars, sync, torn, faults>>

(* "stale worker cannot complete synchronization" *)
RejectSuccess(w) ==
    /\ At(w, "record")
    /\ sync.token # w
    /\ work' = Goto(w, OnError(w))
    /\ UNCHANGED <<cluster, commitVars, sync, torn, faults>>

(* Mutant: a newer desired set is not noticed. *)
SuccessStateAlways(w) == "applied"

SuccessState(w) ==
    IF work[w].seen.desired = work[w].set THEN "applied" ELSE "pending"

RecordSuccess(w) ==
    /\ At(w, "succeeding")
    /\ sync' = [sync EXCEPT
                  !.applied = work[w].set,
                  !.state = Written(w, SuccessState(w)),
                  !.token = None,
                  !.leased = FALSE]
    /\ torn' = (torn /\ ~work[w].restarted)
    /\ work' = [work EXCEPT ![w] = Idle]
    /\ UNCHANGED <<cluster, commitVars, faults>>

BeginFailure(w) ==
    /\ At(w, "giveup")
    /\ ReadRow(w, "failing")
    /\ UNCHANGED <<cluster, commitVars, sync, torn, faults>>

(* _record_failure returns silently when the claim was taken over. *)
AbandonFailure(w) ==
    /\ At(w, "giveup")
    /\ sync.token # w
    /\ work' = [work EXCEPT ![w] = Idle]
    /\ torn' = (torn \/ work[w].mutated)
    /\ UNCHANGED <<cluster, commitVars, sync, faults>>

(* Mutant: every undone change waits for an operator. *)
OperatorRequiredAlways(w) == work[w].recovered

OperatorRequired(w) == work[w].recovered /\ ImageChanged(w)

FailureState(w) ==
    IF work[w].seen.desired # work[w].set THEN "pending"
    ELSE IF OperatorRequired(w) THEN "operator_required" ELSE "failed"

RecordFailure(w) ==
    /\ At(w, "failing")
    /\ sync' = [sync EXCEPT
                  !.state = Written(w, FailureState(w)),
                  !.due = IF FailureState(w) = "failed" THEN FALSE ELSE @,
                  !.token = None,
                  !.leased = FALSE]
    /\ torn' = (~work[w].recovered /\ (torn \/ work[w].mutated))
    /\ work' = [work EXCEPT ![w] = Idle]
    /\ UNCHANGED <<cluster, commitVars, faults>>

-------------------------------------------------------------------------------
(* The passing of time, and the rest of the system. *)

LeaseExpires ==
    /\ sync.leased
    /\ sync' = [sync EXCEPT !.leased = FALSE]
    /\ UNCHANGED <<cluster, commitVars, work, torn, faults>>

RetryDue ==
    /\ ~sync.due
    /\ sync' = [sync EXCEPT !.due = TRUE]
    /\ UNCHANGED <<cluster, commitVars, work, torn, faults>>

ManagementCommit ==
    /\ NoRecordOpen
    /\ Commit
    /\ UNCHANGED <<cluster, work, torn, faults>>

ClusterStep ==
    /\ ClusterNext
    /\ UNCHANGED <<commitVars, sync, work, torn, faults>>

(* What a running process does when nothing fails. *)
Progress(w) ==
    \/ Claim(w) \/ LoadWork(w) \/ EnterPhase(w)
    \/ Preflight(w) \/ ApplySecrets(w) \/ ApplyBundle(w)
    \/ AwaitRuntime(w) \/ FallBack(w)
    \/ RestartDeployment(w) \/ AwaitRollout(w)
    \/ RestoreSecrets(w) \/ RestoreBundle(w) \/ AwaitRestored(w)
    \/ BeginSuccess(w) \/ RejectSuccess(w) \/ RecordSuccess(w)
    \/ BeginFailure(w) \/ AbandonFailure(w) \/ RecordFailure(w)

Next ==
    \/ \E w \in Workers : Progress(w) \/ CommandFails(w) \/ Crash(w)
    \/ ManagementCommit
    \/ ClusterStep
    \/ LeaseExpires
    \/ RetryDue

Spec == Init /\ [][Next]_vars

(***************************************************************************)
(* systemd keeps the process running and its loop calls run_once for ever; *)
(* Kubernetes keeps reconciling; clocks advance.  Commits and faults are   *)
(* never forced.                                                           *)
(***************************************************************************)
Fairness ==
    /\ \A w \in Workers : WF_vars(Progress(w))
    /\ WF_vars(ClusterStep)
    /\ WF_vars(LeaseExpires)
    /\ WF_vars(RetryDue)

FairSpec == Spec /\ Fairness
-------------------------------------------------------------------------------
(* Properties. *)

(* No attempt is running: the worker processes are between two cycles. *)
Quiet == \A w \in Workers : At(w, "idle")

Applied == Quiet /\ sync.state = "applied"

(***************************************************************************)
(* A deployment reported as applied has no newer desired revision waiting: *)
(* claim never looks at an applied row again, so a commit that ended up    *)
(* under that state would be lost (_record_success against _set_desired).  *)
(***************************************************************************)
AppliedIsDesired ==
    sync.state = "applied" => sync.applied = sync.desired /\ sync.token = None

(***************************************************************************)
(* A deployment waits for an operator only because an image upgrade was    *)
(* undone: the desired set pins another image than the applied one.        *)
(***************************************************************************)
HeldIsUpgrade ==
    sync.state = "operator_required" =>
        /\ sync.applied # 0
        /\ BundleOf(sync.desired).image # BundleOf(sync.applied).image

(***************************************************************************)
(* While an operator is awaited the cluster serves the applied set in      *)
(* full, whatever earlier attempts left behind: _restore_previous rewrote  *)
(* inputs and bundle and restarted the Pods.                               *)
(***************************************************************************)
HeldServesApplied ==
    Quiet /\ sync.state = "operator_required" =>
        LET b == BundleOf(sync.applied)
        IN  /\ cluster.inputs = sync.applied
            /\ cluster.template = b
            /\ b.replicas = 1 =>
                 /\ cluster.pods.bundle = b
                 /\ cluster.pods.mount = sync.applied
                 /\ cluster.pods.config = sync.applied

(***************************************************************************)
(* The ConfigMap and the Secret of an applied deployment are those of the  *)
(* applied revision, through crashes, retries and failed restorations.     *)
(***************************************************************************)
AppliedInputs == Applied => cluster.inputs = sync.applied

(* The Deployment and its Pods are those of the bundle, digest aside. *)
RunsResourcesOf(b) ==
    /\ Resources(cluster.template) = Resources(b)
    /\ b.replicas = 1 => /\ cluster.pods.status = "ready"
                         /\ Resources(cluster.pods.bundle) = Resources(b)

(***************************************************************************)
(* An applied deployment runs the image it records, unless an attempt that *)
(* neither finished nor restored left other objects in the cluster.        *)
(***************************************************************************)
AppliedResources ==
    Applied /\ ~torn => RunsResourcesOf(BundleOf(sync.applied))

(***************************************************************************)
(* "applied_revision means the Secrets and bundle were accepted": the      *)
(* bundle of an applied deployment is the one the cluster runs.            *)
(***************************************************************************)
AppliedBundleAccepted == Applied => RunsResourcesOf(BundleOf(sync.applied))

(***************************************************************************)
(* The Pods of an applied deployment mount the camera sources of the       *)
(* applied set: "a successful camera-source Secret change is followed by a *)
(* controlled Deployment rollout restart".  Attempts that left their       *)
(* writes behind are not even considered.                                  *)
(***************************************************************************)
AppliedSourcesMounted ==
    Applied /\ ~torn /\ BundleOf(sync.applied).replicas = 1 =>
        CredentialOf(cluster.pods.mount) = CredentialOf(sync.applied)

(***************************************************************************)
(* "the claim must remain fenced for the entire rollout": while a worker   *)
(* is inside a step that its last _phase fenced and the lease that _phase  *)
(* renewed has not run out, no other worker is inside one.                 *)
(***************************************************************************)
ClaimFencesRollout ==
    \A v, w \in Workers :
        work[v].fenced /\ work[w].fenced /\ sync.leased => v = w

(* Synchronization implements what it promises to the operator. *)
Phase == CASE sync.state = "applied" -> "settled"
           [] sync.state = "operator_required" -> "held"
           [] OTHER -> "converging"

Abstract == INSTANCE DesiredState
              WITH desired <- sync.desired,
                   applied <- sync.applied,
                   phase   <- Phase

(***************************************************************************)
(* The row only ever moves as DesiredState allows: the applied revision    *)
(* never regresses or skips past a commit, nothing is settled early, and   *)
(* only a commit releases a held deployment.                               *)
(***************************************************************************)
ImplementsDesiredState == Abstract!Promise

(***************************************************************************)
(* When commits and faults cease, the deployment comes to rest: applied at *)
(* its newest revision, or waiting for an operator.  A crashed attempt is  *)
(* reclaimed once its lease is over, a failed one once its retry is due.   *)
(***************************************************************************)
Converges ==
    Deployed ~> [](\/ sync.state = "applied" /\ sync.applied = sync.desired
                   \/ sync.state = "operator_required")

===============================================================================
