----------------------------- MODULE MCSiteServices -----------------------------
(***************************************************************************)
(* The services of a site that share no state with each other, for model   *)
(* checking in one run.  An initial state chooses the service it is about  *)
(* (focus); the others stand still, which takes no behaviour away from it, *)
(* and keep one of their initial values.                                   *)
(***************************************************************************)
EXTENDS ReleaseUpgrade, DailyReport, K3sWatchdog, StorageFailover,
        EnrollmentWindows, NodeStatus, FleetRollout, SiteSessions,
        TelemetryStore, CameraGeometry, Qualification

CONSTANTS
    Services,       \* the services that a run looks at
    i1, i2, e1, e2, e3, g1, g2

VARIABLE focus

-------------------------------------------------------------------------------
(* What a camera and a counter of the site send: a visit whose last exit   *)
(* arrives late, a vehicle with a detection that no gate made, a threshold *)
(* that is crossed twice.                                                  *)
Face(role, time) == [kind |-> "face", who |-> "p", plate |-> "-", gate |-> "g",
                     role |-> role, time |-> time, over |-> FALSE]

Plate(role, time) == [kind |-> "plate", who |-> "v", plate |-> "V", gate |-> "g",
                      role |-> role, time |-> time, over |-> FALSE]

Count(over) == [kind |-> "count", who |-> "-", plate |-> "-", gate |-> "g",
                role |-> "none", time |-> 0, over |-> over]

SentEvents ==
    <<Face("entry", 1), Face("exit", 2), Face("entry", 3), Face("exit", 0),
      Plate("entry", 1), Plate("exit", 4), Plate("none", 0), Plate("entry", 2),
      Count(TRUE), Count(FALSE), Count(TRUE), Count(FALSE)>>

SentNumbers == DOMAIN SentEvents

SentBatches == {1..4, 5..8, 9..12}

(* Two of three edges share the bundle of a group. *)
SharedBundle == [e \in {e1, e2, e3} |-> IF e = e3 THEN g2 ELSE g1]

(* Contents that events share; an event with b exceeds the budget alone.   *)
SnapshotSizes == [c \in {"a", "b"} |-> IF c = "b" THEN 9 ELSE 3]

(* The second of three events shares a content with each of the others.   *)
AttachedContents == <<{"a"}, {"a", "b"}, {"b"}>>

SnapshotContents == DOMAIN SnapshotSizes

StoredNumbers == DOMAIN AttachedContents

-------------------------------------------------------------------------------
(* Another service is looked at: a release that changes nothing.           *)
NoUpgrade == plan = BuildPlan({}, TRUE)

Init ==
    /\ focus \in Services
    /\ ReportInit /\ WatchdogInit /\ UpgradeInit
    /\ FailoverInit /\ WindowInit /\ NodeInit /\ FleetInit
    /\ SessionInit /\ TelemetryInit /\ GeometryInit /\ QualInit
    /\ focus = "upgrade" \/ NoUpgrade
    /\ focus = "sessions" \/ offered = 1..4
    \* The images are interchangeable.
    /\ deployed = i1

-------------------------------------------------------------------------------
vars == <<focus, reportVars, watchdogVars, upgradeVars, sessionVars,
          telemetryVars, failoverVars, windowVars,
          geometryVars, nodeVars, qualVars, fleetVars>>

UpgradeStep ==
    /\ focus = "upgrade" /\ UpgradeNext
    /\ UNCHANGED <<focus, sessionVars, telemetryVars, watchdogVars,
                   reportVars, failoverVars, windowVars,
                   geometryVars, nodeVars, qualVars, fleetVars>>

SessionStep ==
    /\ focus = "sessions" /\ SessionNext
    /\ UNCHANGED <<focus, upgradeVars, telemetryVars, watchdogVars,
                   reportVars, failoverVars, windowVars,
                   geometryVars, nodeVars, qualVars, fleetVars>>

TelemetryStep ==
    /\ focus = "telemetry" /\ TelemetryNext
    /\ UNCHANGED <<focus, upgradeVars, sessionVars, watchdogVars, reportVars,
                   failoverVars, windowVars,
                   geometryVars, nodeVars, qualVars, fleetVars>>

WatchdogStep ==
    /\ focus = "watchdog" /\ WatchdogNext
    /\ UNCHANGED <<focus, upgradeVars, sessionVars, telemetryVars,
                   reportVars, failoverVars, windowVars,
                   geometryVars, nodeVars, qualVars, fleetVars>>

MailStep ==
    /\ focus = "mail" /\ ReportNext
    /\ UNCHANGED <<focus, upgradeVars, sessionVars, telemetryVars,
                   watchdogVars, failoverVars, windowVars,
                   geometryVars, nodeVars, qualVars, fleetVars>>

FailoverStep ==
    /\ focus = "failover" /\ FailoverNext
    /\ UNCHANGED <<focus, upgradeVars, sessionVars, telemetryVars,
                   watchdogVars, reportVars, windowVars,
                   geometryVars, nodeVars, qualVars, fleetVars>>

WindowStep ==
    /\ focus = "windows" /\ WindowNext
    /\ UNCHANGED <<focus, upgradeVars, sessionVars, telemetryVars,
                   watchdogVars, reportVars, failoverVars,
                   geometryVars, nodeVars, qualVars, fleetVars>>

GeometryStep ==
    /\ focus = "geometry" /\ GeometryNext
    /\ UNCHANGED <<focus, upgradeVars, sessionVars, telemetryVars,
                   watchdogVars, reportVars, failoverVars,
                   windowVars, nodeVars, qualVars, fleetVars>>

NodeStep ==
    /\ focus = "node" /\ NodeNext
    /\ UNCHANGED <<focus, upgradeVars, sessionVars, telemetryVars,
                   watchdogVars, reportVars, failoverVars,
                   windowVars, geometryVars, qualVars, fleetVars>>

SuiteStep ==
    /\ focus = "suite" /\ QualNext
    /\ UNCHANGED <<focus, upgradeVars, sessionVars, telemetryVars,
                   watchdogVars, reportVars, failoverVars,
                   windowVars, geometryVars, nodeVars, fleetVars>>

FleetStep ==
    /\ focus = "fleet" /\ FleetNext
    /\ UNCHANGED <<focus, upgradeVars, sessionVars, telemetryVars, watchdogVars,
                   reportVars, failoverVars, windowVars, geometryVars, nodeVars,
                   qualVars>>

Next ==
    \/ UpgradeStep
    \/ SessionStep
    \/ TelemetryStep
    \/ WatchdogStep
    \/ MailStep
    \/ FailoverStep
    \/ WindowStep
    \/ GeometryStep
    \/ NodeStep
    \/ SuiteStep
    \/ FleetStep

(* The fairness of the fleet's controller and its threads. *)
Spec ==
    /\ Init
    /\ [][Next]_vars
    /\ \A e \in Edges :
         WF_fleetVars(focus = "fleet" /\ EdgeStep(e))
    /\ WF_fleetVars(focus = "fleet" /\ Controller)

-------------------------------------------------------------------------------
TypeOK ==
    /\ ReportType /\ WatchdogType /\ UpgradeType
    /\ FailoverType /\ WindowType /\ NodeType /\ FleetType
    /\ SessionType /\ TelemetryType /\ GeometryType /\ QualType

(* Resuming verifies every edge whose bundle directory is not half-built.  *)
ResumingCompletes == <>(focus = "fleet" => Completed)

===============================================================================
