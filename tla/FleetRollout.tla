----------------------------- MODULE FleetRollout -----------------------------
(***************************************************************************)
(* The fleet controller on the workstation                                 *)
(* (src/scripts/tvt-edge-fleet.py).  A run probes the edges, builds one     *)
(* bundle per compatibility group and deploys the edges in a pool of       *)
(* worker threads, each edge through the same chain of remote commands.    *)
(* The fleet state file is written at every change of an edge; a run may   *)
(* die anywhere and be resumed from it.  The scripts on the edge are       *)
(* modelled from the exit status and the files that the controller reads.  *)
(***************************************************************************)
EXTENDS Naturals, FiniteSets

CONSTANTS
    Edges,          \* edges of the fleet manifest
    Groups,         \* compatibility keys of the hardware
    NoGroup,        \* group_id is None
    Hardware,       \* the compatibility key of each edge
    Concurrency,    \* worker threads
    MaxFleetFaults  \* bound: failing commands, lost connections and crashes

ASSUME FleetAssumption ==
    /\ Hardware \in [Edges -> Groups]
    /\ NoGroup \notin Groups
    /\ MaxFleetFaults \in Nat

VARIABLES
    phase,      \* what the controller is doing
    left,       \* groups this run has still to build
    stage,      \* step of each edge's worker thread
    edge,       \* the edges of fleet-state.json
    group,      \* status of the groups of fleet-state.json
    directory,  \* the bundle directory of each group
    edgeHost,   \* the edges themselves
    fleetFaults

fleetVars == <<phase, left, stage, edge, group, directory, edgeHost, fleetFaults>>

Status == {"pending", "grouped", "probe_failed", "bundle_failed",
           "transferring", "transfer_failed", "transferred", "prepare_failed",
           "reboot_required", "reboot_failed", "installing", "install_failed",
           "verify_failed", "verified"}

(* A reboot that an earlier run left to be done is a stage of its own. *)
DeployStage == {"waiting", "transfer", "readState", "pendingReboot",
                "pendingOffline", "prepare", "reboot", "offline", "install",
                "verify", "finished"}

(* driver: the preparation's state; booted: the host was rebooted since. *)
EdgeHost == [driver : {"none", "reboot_required", "prepared"},
             booted : BOOLEAN,
             bundle : Groups \cup {NoGroup},
             installed : {"no", "partial", "complete"}]

FleetInit ==
    /\ phase = "idle"
    /\ left = {}
    /\ stage = [e \in Edges |-> "finished"]
    /\ edge = [e \in Edges |-> [status |-> "pending", group |-> NoGroup]]
    /\ group = [g \in Groups |-> "pending"]
    /\ directory = [g \in Groups |-> "absent"]
    /\ edgeHost = [e \in Edges |-> [driver |-> "none", booted |-> FALSE,
                                    bundle |-> NoGroup, installed |-> "no"]]
    /\ fleetFaults = 0

FleetFault == fleetFaults < MaxFleetFaults /\ fleetFaults' = fleetFaults + 1

UpdateEdge(e, status) == edge' = [edge EXCEPT ![e].status = status]

NextStage(e, step) == stage' = [stage EXCEPT ![e] = step]

(* The edges that deploy_all and deploy_one go on with. *)
Unfinished(e) == edge[e].status # "verified" /\ edge[e].group # NoGroup

Working == {e \in Edges : stage[e] \notin {"waiting", "finished"}}

AllVerified == \A e \in Edges : edge[e].status = "verified"

-------------------------------------------------------------------------------
(* A run: install the first time, resume from the state file afterwards. *)
StartRun ==
    /\ phase = "idle"
    /\ ~AllVerified
    /\ phase' = "probing"
    /\ stage' = [e \in Edges |-> IF edge[e].status = "verified" THEN "finished"
                                 ELSE "waiting"]
    /\ UNCHANGED <<left, edge, group, directory, edgeHost, fleetFaults>>

(* Mutant: a group that failed to build is not looked at again. *)
NeededOnce(g) ==
    /\ group[g] = "pending"
    /\ \E e \in Edges : edge[e].group = g

(* The groups that build_groups goes through: those of probed edges. *)
Needed(g) ==
    \E e \in Edges : edge[e].group = g /\ edge[e].status # "probe_failed"

ProbeFailure == "probe_failed"

(* An edge that was grouped keeps its inventory. *)
ProbeOne(e) ==
    /\ phase = "probing"
    /\ stage[e] = "waiting"
    /\ \/ /\ edge[e].status \notin {"pending", "probe_failed"}
          /\ UNCHANGED <<edge, fleetFaults>>
       \/ /\ edge[e].status \in {"pending", "probe_failed"}
          /\ \/ /\ edge' = [edge EXCEPT ![e] = [status |-> "grouped",
                                               group |-> Hardware[e]]]
                /\ UNCHANGED fleetFaults
             \/ FleetFault /\ UpdateEdge(e, ProbeFailure)
    /\ NextStage(e, "finished")
    /\ UNCHANGED <<phase, left, group, directory, edgeHost>>

ProbesDone ==
    /\ phase = "probing"
    /\ \A e \in Edges : stage[e] = "finished"
    /\ phase' = "building"
    /\ left' = {g \in Groups : Needed(g)}
    /\ UNCHANGED <<stage, edge, group, directory, edgeHost, fleetFaults>>

(***************************************************************************)
(* A directory with its checksums is taken as it is.  The builder refuses  *)
(* a directory that is not empty; when it fails it has left nothing, a     *)
(* part of the bundle, or a bundle that did not pass its verification.     *)
(***************************************************************************)
BuildGroup(g) ==
    /\ phase = "building"
    /\ g \in left
    /\ left' = left \ {g}
    /\ \/ /\ directory[g] \in {"unverified", "complete"}
          /\ group' = [group EXCEPT ![g] = "bundle_ready"]
          /\ UNCHANGED <<directory, fleetFaults>>
       \/ /\ directory[g] = "absent"
          /\ group' = [group EXCEPT ![g] = "bundle_ready"]
          /\ directory' = [directory EXCEPT ![g] = "complete"]
          /\ UNCHANGED fleetFaults
       \/ /\ directory[g] = "absent"
          /\ FleetFault
          /\ group' = [group EXCEPT ![g] = "bundle_failed"]
          /\ \E remains \in {"absent", "partial", "unverified"} :
               directory' = [directory EXCEPT ![g] = remains]
       \/ /\ directory[g] = "partial"
          /\ group' = [group EXCEPT ![g] = "bundle_failed"]
          /\ UNCHANGED <<directory, fleetFaults>>
    /\ UNCHANGED <<phase, stage, edge, edgeHost>>

GroupsBuilt ==
    /\ phase = "building"
    /\ left = {}
    /\ phase' = "deploying"
    /\ stage' = [e \in Edges |-> IF Unfinished(e) THEN "waiting" ELSE "finished"]
    /\ UNCHANGED <<left, edge, group, directory, edgeHost, fleetFaults>>

-------------------------------------------------------------------------------
(* deploy_one *)

FailEdge(e, status) ==
    /\ FleetFault
    /\ UpdateEdge(e, status)
    /\ NextStage(e, "finished")
    /\ UNCHANGED edgeHost

Deploying(e, step) == phase = "deploying" /\ stage[e] = step

BeginDeploy(e) ==
    /\ Deploying(e, "waiting")
    /\ Cardinality(Working) < Concurrency
    /\ IF group[edge[e].group] = "bundle_ready"
       THEN UpdateEdge(e, "transferring") /\ NextStage(e, "transfer")
       ELSE UpdateEdge(e, "bundle_failed") /\ NextStage(e, "finished")
    /\ UNCHANGED <<phase, left, group, directory, edgeHost, fleetFaults>>

Transfer(e) ==
    /\ Deploying(e, "transfer")
    /\ \/ /\ edgeHost' = [edgeHost EXCEPT ![e].bundle = edge[e].group]
          /\ UpdateEdge(e, "transferred")
          /\ NextStage(e, "readState")
          /\ UNCHANGED fleetFaults
       \/ FailEdge(e, "transfer_failed")
    /\ UNCHANGED <<phase, left, group, directory>>

(* remote_prepare_state; an unreadable state counts as none. *)
ReadPrepareState(e) ==
    /\ Deploying(e, "readState")
    /\ \/ /\ NextStage(e, CASE edgeHost[e].driver = "none" -> "prepare"
                            [] edgeHost[e].driver = "reboot_required" -> "pendingReboot"
                            [] OTHER -> "install")
          /\ UNCHANGED fleetFaults
       \/ FleetFault /\ NextStage(e, "prepare")
    /\ UpdateEdge(e, IF stage'[e] = "install" THEN "installing" ELSE edge[e].status)
    /\ UNCHANGED <<phase, left, group, directory, edgeHost>>

(* The preparation's state is read again after it, or cannot be read. *)
PrepareEnds(e, status, step) ==
    \/ UpdateEdge(e, status) /\ NextStage(e, step) /\ UNCHANGED fleetFaults
    \/ FleetFault /\ UpdateEdge(e, "prepare_failed") /\ NextStage(e, "finished")

(***************************************************************************)
(* prepare-tvt-edge-host.sh: the first stage installs drivers and asks for *)
(* a reboot, the second verifies the host after it and refuses without.    *)
(***************************************************************************)
Prepare(e) ==
    /\ Deploying(e, "prepare")
    /\ \/ /\ edgeHost[e].driver = "none"
          /\ edgeHost' = [edgeHost EXCEPT ![e].driver = "reboot_required",
                                          ![e].booted = FALSE]
          /\ PrepareEnds(e, edge[e].status, "reboot")
       \/ /\ edgeHost[e].driver = "prepared" \/ edgeHost[e].booted
          /\ edgeHost' = [edgeHost EXCEPT ![e].driver = "prepared"]
          /\ PrepareEnds(e, "installing", "install")
       \/ FailEdge(e, "prepare_failed")
       \/ /\ edgeHost[e].driver = "reboot_required" /\ ~edgeHost[e].booted
          /\ UpdateEdge(e, "prepare_failed")
          /\ NextStage(e, "finished")
          /\ UNCHANGED <<edgeHost, fleetFaults>>
    /\ UNCHANGED <<phase, left, group, directory>>

(* The exit status of the reboot command is ignored. *)
RebootEdge(e) ==
    /\ \/ Deploying(e, "reboot") /\ NextStage(e, "offline")
       \/ Deploying(e, "pendingReboot") /\ NextStage(e, "pendingOffline")
    /\ UpdateEdge(e, "reboot_required")
    /\ \/ edgeHost' = [edgeHost EXCEPT ![e].booted = TRUE] /\ UNCHANGED fleetFaults
       \/ FleetFault /\ UNCHANGED edgeHost
    /\ UNCHANGED <<phase, left, group, directory>>

(***************************************************************************)
(* wait_for_ssh needs one failed connection before it takes an answer for  *)
(* a completed reboot.  A connection may also fail without a reboot.  The  *)
(* installer runs after a reboot that the preparation asked for; after one *)
(* that was pending, the preparation runs first.                           *)
(***************************************************************************)
BackOnline(e) ==
    /\ \/ /\ Deploying(e, "offline")
          /\ UpdateEdge(e, "installing")
          /\ NextStage(e, "install")
       \/ /\ Deploying(e, "pendingOffline")
          /\ NextStage(e, "prepare")
          /\ UNCHANGED edge
    /\ \/ edgeHost[e].booted /\ UNCHANGED fleetFaults
       \/ FleetFault
    /\ UNCHANGED <<phase, left, group, directory, edgeHost>>

(* No disconnection was seen: the reboot failed, or was over too soon. *)
RebootTimeout(e) ==
    /\ Deploying(e, "offline") \/ Deploying(e, "pendingOffline")
    /\ UpdateEdge(e, "reboot_failed")
    /\ \/ ~edgeHost[e].booted /\ UNCHANGED fleetFaults
       \/ edgeHost[e].booted /\ FleetFault
    /\ NextStage(e, "finished")
    /\ UNCHANGED <<phase, left, group, directory, edgeHost>>

RunsInstaller(e, after) ==
    /\ Deploying(e, "install")
    /\ LET ready == edgeHost[e].driver = "prepared" \/ edgeHost[e].booted
       IN \/ /\ ready
             /\ edgeHost' = [edgeHost EXCEPT ![e].driver = "prepared",
                                             ![e].installed = "complete"]
             /\ NextStage(e, "verify")
             /\ UNCHANGED <<edge, fleetFaults>>
          \/ /\ ~ready
             /\ UpdateEdge(e, "install_failed")
             /\ NextStage(e, after)
             /\ UNCHANGED <<edgeHost, fleetFaults>>
          \/ /\ ready
             /\ FleetFault
             /\ edgeHost' = [edgeHost EXCEPT ![e].driver = "prepared",
                                             ![e].installed = "partial"]
             /\ UpdateEdge(e, "install_failed")
             /\ NextStage(e, after)
    /\ UNCHANGED <<phase, left, group, directory>>

(* Mutant: the exit status of the installer is ignored. *)
InstallUnchecked(e) == RunsInstaller(e, "verify")

(***************************************************************************)
(* install-tvt-edge-host.sh completes the preparation itself when the host *)
(* was rebooted, and refuses otherwise.                                    *)
(***************************************************************************)
Install(e) == RunsInstaller(e, "finished")

Verify(e) ==
    /\ Deploying(e, "verify")
    /\ \/ /\ UpdateEdge(e, "verified")
          /\ NextStage(e, "finished")
          /\ UNCHANGED <<edgeHost, fleetFaults>>
       \/ FailEdge(e, "verify_failed")
    /\ UNCHANGED <<phase, left, group, directory>>

RunEnds ==
    /\ phase = "deploying"
    /\ \A e \in Edges : stage[e] = "finished"
    /\ phase' = "idle"
    /\ UNCHANGED <<left, stage, edge, group, directory, edgeHost, fleetFaults>>

(* The controller dies; a builder that runs leaves a part of its bundle. *)
ControllerDies ==
    /\ phase # "idle"
    /\ FleetFault
    /\ phase' = "idle"
    /\ left' = {}
    /\ stage' = [e \in Edges |-> "finished"]
    /\ \/ UNCHANGED directory
       \/ /\ phase = "building"
          /\ \E g \in Groups :
               /\ g \in left
               /\ directory[g] = "absent"
               /\ directory' = [directory EXCEPT ![g] = "partial"]
    /\ UNCHANGED <<edge, group, edgeHost>>

EdgeStep(e) ==
    \/ ProbeOne(e)
    \/ BeginDeploy(e)
    \/ Transfer(e)
    \/ ReadPrepareState(e)
    \/ Prepare(e)
    \/ RebootEdge(e)
    \/ BackOnline(e)
    \/ RebootTimeout(e)
    \/ Install(e)
    \/ Verify(e)

Controller ==
    \/ StartRun
    \/ ProbesDone
    \/ \E g \in Groups : BuildGroup(g)
    \/ GroupsBuilt
    \/ RunEnds

FleetNext ==
    \/ \E e \in Edges : EdgeStep(e)
    \/ Controller
    \/ ControllerDies

(***************************************************************************)
(* Threads run, commands end, and the operator resumes a fleet that is not *)
(* verified.                                                               *)
(***************************************************************************)
FleetSpec ==
    /\ FleetInit
    /\ [][FleetNext]_fleetVars
    /\ \A e \in Edges : WF_fleetVars(EdgeStep(e))
    /\ WF_fleetVars(Controller)

-------------------------------------------------------------------------------
FleetType ==
    /\ left \subseteq Groups
    /\ phase \in {"idle", "probing", "building", "deploying"}
    /\ stage \in [Edges -> DeployStage]
    /\ edge \in [Edges -> [status : Status, group : Groups \cup {NoGroup}]]
    /\ group \in [Groups -> {"pending", "bundle_ready", "bundle_failed"}]
    /\ directory \in [Groups -> {"absent", "partial", "unverified", "complete"}]
    /\ edgeHost \in [Edges -> EdgeHost]
    /\ fleetFaults \in 0..MaxFleetFaults

(***************************************************************************)
(* A verified edge runs a complete installation of the bundle of its own   *)
(* hardware, on a host that was rebooted after its drivers were installed. *)
(***************************************************************************)
VerifiedIsInstalled ==
    \A e \in Edges : edge[e].status = "verified" =>
        /\ edgeHost[e].installed = "complete"
        /\ edgeHost[e].bundle = Hardware[e]
        /\ edgeHost[e].driver = "prepared"
        /\ edgeHost[e].booted

(***************************************************************************)
(* When faults cease, resuming verifies every edge, except those whose     *)
(* group has a half-built bundle directory, which the builder refuses.     *)
(***************************************************************************)
Completed ==
    \A e \in Edges : \/ edge[e].status = "verified"
                     \/ directory[Hardware[e]] = "partial"

===============================================================================
