----------------------------- MODULE ReleaseUpgrade -----------------------------
(***************************************************************************)
(* The coordinator of one release upgrade                                  *)
(* (src/scripts/lib/tvt-release-upgrade.py).  It stages the release,        *)
(* prepares the platform, activates platform components, the application   *)
(* and the solution in that order, and rolls back in the reverse order.    *)
(* The solution upgrader runs as a child process with a state file of its  *)
(* own: its steps are those of SolutionUpgrade, and the coordinator goes   *)
(* on when the child has ended.                                            *)
(***************************************************************************)
EXTENDS SolutionUpgrade

VARIABLES
    plan,       \* what the target release changes (build_plan)
    rel,        \* the release operation's state.json
    host,       \* what is installed on the host
    at,         \* step of the running command
    child       \* command of the solution upgrader that is awaited

releaseVars == <<plan, rel, host, at, child>>
upgradeVars == <<solutionVars, releaseVars>>

(* The parts of a release whose files are compared, one by one. *)
Component == {"host_application", "host_resources_and_units", "dashboard",
              "node_management", "cv_solution", "local_registry", "k3s",
              "host_packages_or_drivers"}

Changes == SUBSET Component

Plan == [platform : {"none", "components", "host"},
         solution : BOOLEAN,
         compatible : BOOLEAN]

(***************************************************************************)
(* What the changes ask for: "host" is a reboot before the activation,     *)
(* "components" a maintenance without one.  compatible is the release's    *)
(* upgrade policy for the database.                                        *)
(***************************************************************************)
BuildPlan(changes, compatible) ==
    [platform   |-> IF "host_packages_or_drivers" \in changes THEN "host"
                    ELSE IF changes \cap {"local_registry", "k3s"} # {}
                           THEN "components" ELSE "none",
     solution   |-> "cv_solution" \in changes,
     compatible |-> compatible]

MigratesOffline(changes, compatible) ==
    "host_application" \in changes /\ ~compatible

RelStatus == {"none", "preparing", "platform_reboot_required", "prepared",
              "activating", "operator_required", "applied", "rolled_back"}

Release == [status : RelStatus,
            components : BOOLEAN,     \* platform_components_applied
            application : BOOLEAN,    \* application_applied
            solution : BOOLEAN]       \* solution_applied

Host == [staged : {"absent", "partial", "staged"},
         preparation : {"none", "reboot_required", "prepared"},
         rebooted : BOOLEAN,
         components : {"old", "new"},
         link : {"old", "new"},       \* /opt/tvt/current
         report : BOOLEAN]            \* application-upgrade-report of the target

At == {"idle", "staging", "building", "publishing", "solutionPrepare",
       "platformPrepare", "begin", "components", "recordComponents",
       "application", "checkReport", "solution", "complete",
       "undoSolution", "undoApplication", "recordUndo", "undone"}

(***************************************************************************)
(* prepare refuses a forward-only migration of a changed application, and  *)
(* upgrade-application every release that is not rollback compatible.      *)
(***************************************************************************)
UpgradeInit ==
    /\ SolutionInit
    /\ \E changes \in Changes, compatible \in BOOLEAN :
         /\ ~MigratesOffline(changes, compatible)
         /\ plan = BuildPlan(changes, compatible)
    /\ rel = [status |-> "none", components |-> FALSE, application |-> FALSE,
              solution |-> FALSE]
    /\ host = [staged |-> "absent", preparation |-> "none", rebooted |-> FALSE,
               components |-> "old", link |-> "old", report |-> FALSE]
    /\ at = "idle"
    /\ child = "none"

Ended == child # "none" /\ step = "idle"

(* command(...) on the solution upgrader; a refused command ends at once. *)
Launch(command, startable, Start) ==
    /\ child = "none"
    /\ child' = command
    /\ IF startable THEN Start ELSE UNCHANGED solutionVars

-------------------------------------------------------------------------------
(* prepare *)

PrepareRelease ==
    /\ at = "idle"
    /\ host.link = "old"
    /\ rel.status \in {"none", "preparing"}
    /\ rel' = [rel EXCEPT !.status = "preparing"]
    /\ at' = "staging"
    /\ UNCHANGED <<solutionVars, plan, host, child>>

(* A staged release is kept; a partial one of this bundle is built again. *)
StageRelease ==
    /\ at = "staging"
    /\ IF host.staged = "staged"
       THEN at' = "publishing" /\ UNCHANGED host
       ELSE at' = "building" /\ host' = [host EXCEPT !.staged = "partial"]
    /\ UNCHANGED <<solutionVars, plan, rel, child>>

FinishStaging ==
    /\ at = "building"
    /\ host' = [host EXCEPT !.staged = "staged"]
    /\ at' = "publishing"
    /\ UNCHANGED <<solutionVars, plan, rel, child>>

AfterSolution == IF plan.platform = "host" THEN "platformPrepare" ELSE "begin"

(* Publishes the dashboard and node images to the local registry. *)
PublishImages ==
    /\ at = "publishing"
    /\ at' = IF plan.solution THEN "solutionPrepare" ELSE AfterSolution
    /\ UNCHANGED <<solutionVars, plan, rel, host, child>>

PrepareSolution ==
    /\ at = "solutionPrepare"
    /\ Launch("prepare", op.status \in {"none", "preparing"}, PrepareStart)
    /\ UNCHANGED <<plan, rel, host, at>>

SolutionPrepared ==
    /\ at = "solutionPrepare"
    /\ Ended
    /\ child' = "none"
    /\ at' = IF op.status = "prepared" THEN AfterSolution ELSE "idle"
    /\ UNCHANGED <<solutionVars, plan, rel, host>>

PreparePlatform ==
    /\ at = "platformPrepare"
    /\ host' = [host EXCEPT !.preparation = "reboot_required",
                            !.rebooted = FALSE]
    /\ rel' = [rel EXCEPT !.status = "platform_reboot_required"]
    /\ at' = "idle"
    /\ UNCHANGED <<solutionVars, plan, child>>

RecordPrepared ==
    /\ at = "begin"
    /\ rel.status = "preparing"
    /\ rel' = [rel EXCEPT !.status = "prepared"]
    /\ at' = "idle"
    /\ UNCHANGED <<solutionVars, plan, host, child>>

-------------------------------------------------------------------------------
(* activate *)

(* Mutant: the platform is not prepared again after the reboot. *)
VerifyPlatformUnchecked ==
    /\ at = "idle"
    /\ rel.status = "platform_reboot_required"
    /\ rel' = [rel EXCEPT !.status = "prepared"]
    /\ at' = "begin"
    /\ UNCHANGED <<solutionVars, plan, host, child>>

(* The preparation refuses to go on before the host was rebooted. *)
VerifyPlatform ==
    /\ at = "idle"
    /\ rel.status = "platform_reboot_required"
    /\ host.rebooted
    /\ host' = [host EXCEPT !.preparation = "prepared"]
    /\ rel' = [rel EXCEPT !.status = "prepared"]
    /\ at' = "begin"
    /\ UNCHANGED <<solutionVars, plan, child>>

ActivateRelease ==
    /\ at \in {"idle", "begin"}
    /\ rel.status \in {"prepared", "activating", "operator_required"}
    /\ rel' = [rel EXCEPT !.status = "activating"]
    /\ at' = IF plan.platform # "none" /\ ~rel.components THEN "components"
             ELSE "application"
    /\ UNCHANGED <<solutionVars, plan, host, child>>

(* Mutant: a status the other commands do not know. *)
NeedsOperatorUnknown ==
    /\ rel' = [rel EXCEPT !.status = "failed"]
    /\ at' = "idle"

NeedsOperator ==
    /\ rel' = [rel EXCEPT !.status = "operator_required"]
    /\ at' = "idle"

ApplyComponents ==
    /\ at = "components"
    /\ \/ /\ host' = [host EXCEPT !.components = "new"]
          /\ at' = "recordComponents"
          /\ UNCHANGED rel
       \/ NeedsOperator /\ UNCHANGED host
    /\ UNCHANGED <<solutionVars, plan, child>>

RecordComponents ==
    /\ at = "recordComponents"
    /\ rel' = [rel EXCEPT !.components = TRUE]
    /\ at' = "application"
    /\ UNCHANGED <<solutionVars, plan, host, child>>

(* Nothing is upgraded when it is recorded, or when the link is there. *)
SkipApplication ==
    /\ at = "application"
    /\ rel.application \/ host.link = "new"
    /\ at' = IF rel.application THEN "solution" ELSE "checkReport"
    /\ UNCHANGED <<solutionVars, plan, rel, host, child>>

(***************************************************************************)
(* upgrade-application.  A failing command restores the previous release,  *)
(* but one of its own final checks ends it without that restoration.       *)
(***************************************************************************)
UpgradeApplication ==
    /\ at = "application"
    /\ ~rel.application
    /\ host.link = "old"
    /\ \/ /\ plan.compatible
          /\ host' = [host EXCEPT !.link = "new", !.report = TRUE]
          /\ at' = "checkReport"
          /\ UNCHANGED rel
       \/ /\ NeedsOperator
          /\ \E link \in IF plan.compatible THEN {"old", "new"} ELSE {"old"} :
               host' = [host EXCEPT !.link = link]
    /\ UNCHANGED <<solutionVars, plan, child>>

CheckReport ==
    /\ at = "checkReport"
    /\ IF host.report
       THEN /\ rel' = [rel EXCEPT !.application = TRUE]
            /\ at' = "solution"
       ELSE at' = "idle" /\ UNCHANGED rel
    /\ UNCHANGED <<solutionVars, plan, host, child>>

SolutionPending == plan.solution /\ ~rel.solution

ActivateSolution ==
    /\ at = "solution"
    /\ SolutionPending
    /\ Launch("activate",
              op.status \in {"prepared", "activating", "finalizing"},
              ActivateStart)
    /\ UNCHANGED <<plan, rel, host, at>>

ActivationDone == op.status = "applied"

SolutionActivated ==
    /\ at = "solution"
    /\ Ended
    /\ child' = "none"
    /\ IF ActivationDone
       THEN /\ rel' = [rel EXCEPT !.solution = TRUE]
            /\ at' = "complete"
       ELSE NeedsOperator
    /\ UNCHANGED <<solutionVars, plan, host>>

CompleteRelease ==
    /\ at = "complete" \/ (at = "solution" /\ ~SolutionPending)
    /\ rel' = [rel EXCEPT !.status = "applied"]
    /\ at' = "idle"
    /\ UNCHANGED <<solutionVars, plan, host, child>>

-------------------------------------------------------------------------------
(* rollback *)

RollbackRelease ==
    /\ at = "idle"
    /\ rel.status \notin {"none", "rolled_back"}
    /\ at' = IF rel.solution THEN "undoSolution" ELSE "undoApplication"
    /\ UNCHANGED <<solutionVars, plan, rel, host, child>>

RollbackSolution ==
    /\ at = "undoSolution"
    /\ Launch("rollback", op.status # "rolled_back", RollbackStart)
    /\ UNCHANGED <<plan, rel, host, at>>

SolutionRolledBack ==
    /\ at = "undoSolution"
    /\ Ended
    /\ child' = "none"
    /\ IF op.status = "rolled_back"
       THEN /\ rel' = [rel EXCEPT !.solution = FALSE]
            /\ at' = "undoApplication"
       ELSE at' = "idle" /\ UNCHANGED rel
    /\ UNCHANGED <<solutionVars, plan, host>>

(* Only a compatible release can have been recorded as applied. *)
RestoreApplication ==
    /\ at = "undoApplication"
    /\ IF rel.application
       THEN at' = "recordUndo" /\ host' = [host EXCEPT !.link = "old"]
       ELSE at' = "undone" /\ UNCHANGED host
    /\ UNCHANGED <<solutionVars, plan, rel, child>>

RecordRestored ==
    /\ at = "recordUndo"
    /\ rel' = [rel EXCEPT !.application = FALSE]
    /\ at' = "undone"
    /\ UNCHANGED <<solutionVars, plan, host, child>>

RecordRolledBack ==
    /\ at = "undone"
    /\ rel' = [rel EXCEPT !.status = "rolled_back"]
    /\ at' = "idle"
    /\ UNCHANGED <<solutionVars, plan, host, child>>

-------------------------------------------------------------------------------
(* The coordinator and its child die together, at any step. *)
Crash ==
    /\ at # "idle"
    /\ at' = "idle"
    /\ child' = "none"
    /\ step' = "idle"
    /\ \/ UNCHANGED host
       \/ at = "application" /\ ~rel.application /\ plan.compatible
          /\ host' = [host EXCEPT !.link = "new"]
    /\ UNCHANGED <<deploymentVars, op, files, plan, rel>>

RebootHost ==
    /\ at = "idle"
    /\ host.preparation = "reboot_required"
    /\ ~host.rebooted
    /\ host' = [host EXCEPT !.rebooted = TRUE]
    /\ UNCHANGED <<solutionVars, plan, rel, at, child>>

ChildStep ==
    /\ child # "none"
    /\ SolutionStep \/ CommandDies
    /\ UNCHANGED releaseVars

Others == Deployment /\ UNCHANGED releaseVars

UpgradeNext ==
    \/ PrepareRelease \/ StageRelease \/ FinishStaging \/ PublishImages
    \/ PrepareSolution \/ SolutionPrepared \/ PreparePlatform
    \/ RecordPrepared
    \/ VerifyPlatform \/ ActivateRelease
    \/ ApplyComponents \/ RecordComponents
    \/ SkipApplication \/ UpgradeApplication \/ CheckReport
    \/ ActivateSolution \/ SolutionActivated \/ CompleteRelease
    \/ RollbackRelease \/ RollbackSolution \/ SolutionRolledBack
    \/ RestoreApplication \/ RecordRestored \/ RecordRolledBack
    \/ ChildStep
    \/ Others
    \/ Crash
    \/ RebootHost

UpgradeSpec == UpgradeInit /\ [][UpgradeNext]_upgradeVars

-------------------------------------------------------------------------------
UpgradeType ==
    /\ SolutionType
    /\ plan \in Plan
    /\ rel \in Release
    /\ host \in Host
    /\ at \in At
    /\ child \in {"none", "prepare", "activate", "rollback"}

(***************************************************************************)
(* No component is activated on a host whose changed packages and drivers  *)
(* were not verified after the reboot they asked for.                      *)
(***************************************************************************)
ActivatedOnPreparedPlatform ==
    rel.status \in {"prepared", "activating", "operator_required", "applied"}
      /\ plan.platform = "host"
    => host.preparation = "prepared"

(***************************************************************************)
(* A release never records the solution as applied unless the runtime      *)
(* accepted its bundle: not after an automatic rollback, not after a child *)
(* that died, not after a repeated activation.                             *)
(***************************************************************************)
SolutionRecorded == rel.solution => op.target \in accepted

(***************************************************************************)
(* The application is only ever linked to a completely staged release,     *)
(* whatever interrupted staging leaves behind.                             *)
(***************************************************************************)
LinkedReleaseStaged == host.link = "new" => host.staged = "staged"

(***************************************************************************)
(* What the two operation files record is true of the host and of the      *)
(* runtime, wherever the commands and their children died.                 *)
(***************************************************************************)
RecordsHold ==
    /\ FilesFollowRuntime
    /\ RolledBackFiles
    /\ SolutionRecorded
    /\ LinkedReleaseStaged

(***************************************************************************)
(* DEPLOYMENT.md: a rollback restores the previous application and         *)
(* workloads.                                                              *)
(***************************************************************************)
RolledBackRestored ==
    rel.status = "rolled_back" => host.link = "old" /\ Desired.image = "old"

===============================================================================
