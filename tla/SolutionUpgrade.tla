---------------------------- MODULE SolutionUpgrade ----------------------------
(***************************************************************************)
(* One operation of the solution upgrader                                  *)
(* (src/scripts/lib/tvt-solution-upgrade.py): prepare stages a delivery     *)
(* and previews the upgrade, activate commits it and waits for the         *)
(* synchronizer, rollback commits the source bundle again.  The commands   *)
(* run one at a time under the host lock; between two steps a command may  *)
(* die, and what survives is the operation's state file, the host's active *)
(* pipeline files and the deployment.                                      *)
(*                                                                         *)
(* The deployment is reduced to its committed sets and the row of the      *)
(* synchronizer; DeploymentCommits and DeploymentSync model both in full.  *)
(***************************************************************************)
EXTENDS Naturals, Sequences

CONSTANT MaxSets        \* bound: assignment sets of the deployment

VARIABLES
    sets,       \* committed assignment sets, in desired_revision order
    row,        \* the synchronizer's row: applied set and state
    accepted,   \* bundles the synchronizer has applied so far (history)
    op,         \* the operation's state.json
    files,      \* the host's active pipeline files
    step        \* step of the command that is running

deploymentVars == <<sets, row, accepted>>
solutionVars == <<sets, row, accepted, op, files, step>>

(* A bundle is named by the revision that stored it and its image. *)
Bundle == [sha : 1..(MaxSets + 1), image : {"old", "new"}]

NoBundle == [sha |-> 0, image |-> "none"]

AssignmentSet == [bundle : Bundle, upgrade : BOOLEAN]

OpStatus == {"none", "preparing", "prepared", "activating", "finalizing",
             "applied", "activation_timeout", "activation_failed",
             "rolling_back", "rollback_failed", "rollback_timeout",
             "rolled_back"}

Operation == [status  : OpStatus,
              source  : Bundle \cup {NoBundle},
              target  : Bundle \cup {NoBundle},
              started : BOOLEAN]

Files == {"old", "mixed", "new"}

CommandStep ==
    {"idle", "staging", "previewing", "posting", "recording", "waiting",
     "installing", "closing", "reverting", "recordingRollback",
     "waitingRollback", "restoring"}

Desired == sets[Len(sets)].bundle

AppliedBundle == sets[row.applied].bundle

(* _applied_catalog_snapshot: one stable applied revision. *)
Stable == row.state = "applied" /\ row.applied = Len(sets)

SolutionInit ==
    /\ sets = <<[bundle |-> [sha |-> 1, image |-> "old"], upgrade |-> FALSE]>>
    /\ row = [applied |-> 1, state |-> "applied"]
    /\ accepted = {[sha |-> 1, image |-> "old"]}
    /\ op = [status |-> "none", source |-> NoBundle, target |-> NoBundle,
             started |-> FALSE]
    /\ files = "old"
    /\ step = "idle"

CommitSet(bundle, upgrade) ==
    /\ Len(sets) < MaxSets
    /\ sets' = Append(sets, [bundle |-> bundle, upgrade |-> upgrade])
    /\ row' = [row EXCEPT !.state = "pending"]

-------------------------------------------------------------------------------
(* The deployment's other actors. *)

(* An operator's edit stores a new bundle of the desired image. *)
Edit ==
    /\ CommitSet([sha |-> Len(sets) + 1, image |-> Desired.image], FALSE)
    /\ UNCHANGED <<accepted, op, files, step>>

SyncApplied ==
    /\ row.state \in {"pending", "failed"}
    /\ row' = [applied |-> Len(sets), state |-> "applied"]
    /\ accepted' = accepted \cup {Desired}
    /\ UNCHANGED <<sets, op, files, step>>

(* A failed attempt is retried; a rejected image waits for the operator. *)
SyncFailed ==
    /\ row.state \in {"pending", "failed"}
    /\ \E state \in {"failed", "operator_required"} :
         row' = [row EXCEPT !.state = state]
    /\ UNCHANGED <<sets, accepted, op, files, step>>

Deployment == Edit \/ SyncApplied \/ SyncFailed

-------------------------------------------------------------------------------
(* prepare *)

PrepareStart ==
    /\ step = "idle"
    /\ op.status \in {"none", "preparing"}
    /\ step' = IF op.status = "none" THEN "staging" ELSE "previewing"
    /\ UNCHANGED <<deploymentVars, op, files>>

(* Copies the delivery and backs up the active files, then writes the state. *)
Stage ==
    /\ step = "staging"
    /\ op' = [op EXCEPT !.status = "preparing"]
    /\ step' = "previewing"
    /\ UNCHANGED <<deploymentVars, files>>

(* preview_catalog_upgrade: the applied configuration under the new image;  *)
(* the bundle carries the next revision.                                    *)
Candidate == [sha |-> Len(sets) + 1, image |-> "new"]

Preview ==
    /\ step = "previewing"
    /\ Stable
    /\ op' = [op EXCEPT !.status = "prepared",
                        !.source = AppliedBundle,
                        !.target = Candidate]
    /\ step' = "idle"
    /\ UNCHANGED <<deploymentVars, files>>

-------------------------------------------------------------------------------
(* activate *)

ActivateStart ==
    /\ step = "idle"
    /\ op.status \in {"prepared", "activating", "finalizing"}
    /\ step' = "posting"
    /\ UNCHANGED <<deploymentVars, op, files>>

(* Mutant: only the source digest is compared. *)
CandidateUnchangedSourceOnly == AppliedBundle = op.source

(***************************************************************************)
(* commit_catalog_deployment: the applied revision is stable and still the *)
(* previewed one, and the candidate, which carries the next revision, has  *)
(* the previewed digest.                                                   *)
(***************************************************************************)
CandidateUnchanged ==
    /\ Stable
    /\ AppliedBundle = op.source
    /\ op.target.sha = Len(sets) + 1

(* An idempotency key that is already known answers with its set. *)
PostUpgrade ==
    /\ step = "posting"
    /\ \/ /\ \E i \in 1..Len(sets) : sets[i].upgrade
          /\ UNCHANGED <<sets, row>>
       \/ /\ \A i \in 1..Len(sets) : ~sets[i].upgrade
          /\ CandidateUnchanged
          /\ CommitSet(op.target, TRUE)
    /\ step' = "recording"
    /\ UNCHANGED <<accepted, op, files>>

RecordActivating ==
    /\ step = "recording"
    /\ op' = [op EXCEPT !.status = "activating"]
    /\ step' = "waiting"
    /\ UNCHANGED <<deploymentVars, files>>

(* Mutant: every final answer of the wait goes on to the installation. *)
TargetAppliedOrTimeout(bundle) == TRUE

(* wait_for_bundle, the outcome "applied". *)
IsApplied(bundle) == row.state = "applied" /\ AppliedBundle = bundle

Refused == row.state \in {"failed", "operator_required"}

ActivationApplied ==
    /\ step = "waiting"
    /\ IsApplied(op.target)
    /\ op' = [op EXCEPT !.status = "finalizing", !.started = TRUE]
    /\ step' = "installing"
    /\ UNCHANGED <<deploymentVars, files>>

ActivationRefused ==
    /\ step = "waiting"
    /\ Refused
    /\ op' = [op EXCEPT !.status = "activation_failed"]
    /\ step' = "reverting"
    /\ UNCHANGED <<deploymentVars, files>>

ActivationTimeout ==
    /\ step = "waiting"
    /\ ~IsApplied(op.target)
    /\ op' = [op EXCEPT !.status = "activation_timeout"]
    /\ step' = "idle"
    /\ UNCHANGED <<deploymentVars, files>>

(* The pipeline's files are replaced one after the other. *)
InstallPipeline ==
    /\ step \in {"installing", "closing"}
    /\ files' = IF step = "installing" THEN "mixed" ELSE "new"
    /\ op' = IF step = "installing" THEN op
             ELSE [op EXCEPT !.status = "applied"]
    /\ step' = IF step = "installing" THEN "closing" ELSE "idle"
    /\ UNCHANGED deploymentVars

-------------------------------------------------------------------------------
(* rollback *)

RollbackStart ==
    /\ step = "idle"
    /\ op.status # "rolled_back"
    /\ op.source # NoBundle
    /\ step' = "reverting"
    /\ UNCHANGED <<deploymentVars, op, files>>

(* Posted again unless the state file says that it is under way. *)
PostRollback ==
    /\ step = "reverting"
    /\ IF op.status = "rolling_back"
       THEN /\ step' = "waitingRollback"
            /\ UNCHANGED <<sets, row>>
       ELSE /\ CommitSet(op.source, FALSE)
            /\ step' = "recordingRollback"
    /\ UNCHANGED <<accepted, op, files>>

RecordRollback ==
    /\ step = "recordingRollback"
    /\ op' = [op EXCEPT !.status = "rolling_back"]
    /\ step' = "waitingRollback"
    /\ UNCHANGED <<deploymentVars, files>>

RollbackApplied ==
    /\ step = "waitingRollback"
    /\ IsApplied(op.source)
    /\ step' = "restoring"
    /\ UNCHANGED <<deploymentVars, op, files>>

RollbackNotApplied ==
    /\ step = "waitingRollback"
    /\ ~IsApplied(op.source)
    /\ op' = [op EXCEPT !.status = IF Refused THEN "rollback_failed"
                                   ELSE "rollback_timeout"]
    /\ step' = "idle"
    /\ UNCHANGED <<deploymentVars, files>>

RestoreFiles ==
    /\ step = "restoring"
    /\ files' = IF op.started THEN "old" ELSE files
    /\ op' = [op EXCEPT !.status = "rolled_back"]
    /\ step' = "idle"
    /\ UNCHANGED deploymentVars

(***************************************************************************)
(* A step that raises, a refused request and a killed process all end the  *)
(* command with the state file as it is.  A crash may also lose the record *)
(* of a restoration that already happened.                                 *)
(***************************************************************************)
CommandDies ==
    /\ step # "idle"
    /\ step' = "idle"
    /\ \/ UNCHANGED files
       \/ step = "restoring" /\ op.started /\ files' \in {"mixed", "old"}
    /\ UNCHANGED <<deploymentVars, op>>

SolutionStep ==
    \/ Stage
    \/ Preview
    \/ PostUpgrade
    \/ RecordActivating
    \/ ActivationApplied
    \/ ActivationRefused
    \/ ActivationTimeout
    \/ InstallPipeline
    \/ PostRollback
    \/ RecordRollback
    \/ RollbackApplied
    \/ RollbackNotApplied
    \/ RestoreFiles

-------------------------------------------------------------------------------
SolutionType ==
    /\ sets \in Seq(AssignmentSet)
    /\ Len(sets) \in 1..MaxSets
    /\ row \in [applied : 1..MaxSets,
                state : {"pending", "applied", "failed", "operator_required"}]
    /\ row.applied <= Len(sets)
    /\ accepted \subseteq Bundle
    /\ op \in Operation
    /\ files \in Files
    /\ step \in CommandStep

(***************************************************************************)
(* The upgrade is committed directly on top of the set that was applied    *)
(* when it was previewed: an edit committed in between is never undone by  *)
(* an activation, however often activation is interrupted and repeated.    *)
(***************************************************************************)
UpgradeExtendsSource ==
    \A i \in 1..Len(sets) :
        sets[i].upgrade => i > 1 /\ sets[i - 1].bundle = op.source

(***************************************************************************)
(* The host's image synchronization is switched to the new delivery only   *)
(* after the runtime has accepted the upgraded bundle.                     *)
(***************************************************************************)
FilesFollowRuntime == files # "old" => op.target \in accepted

(***************************************************************************)
(* An operation recorded as rolled back has left the host's files as they  *)
(* were before it, wherever its commands died.                             *)
(***************************************************************************)
RolledBackFiles == op.status = "rolled_back" => files = "old"

===============================================================================
