------------------------------- MODULE NodeStatus -------------------------------
(***************************************************************************)
(* How a node comes to be labelled as qualified for the solutions, and     *)
(* loses the label: the reporter on every node writes an ApexNodeStatus    *)
(* (node_management/reporter/reporter.py), and the status controller       *)
(* compares reports with nodes and labels the nodes                        *)
(* (node_management/status_controller/controller.py).                      *)
(*                                                                         *)
(* Of a report's capabilities it matters whether they satisfy what the     *)
(* controller wants of the node (architecture, devices of the profile).    *)
(* A pass of the controller takes no time on the clock, but everything     *)
(* else may happen between its calls.                                      *)
(***************************************************************************)
EXTENDS Integers

CONSTANTS
    ClusterNodes,   \* names of nodes
    NoName,         \* no node is being labelled
    Stale,          \* STALE_SECONDS
    Interval,       \* INTERVAL of the controller, in the same unit
    MaxNodeTime,    \* bound on the clock
    MaxFailedPasses \* bound on the passes of the controller that fail

ASSUME NodeAssumption ==
    /\ {Stale, Interval, MaxNodeTime, MaxFailedPasses} \subseteq Nat
    /\ NoName \notin ClusterNodes

VARIABLES
    nodeClock,
    node,           \* the Kubernetes nodes
    report,         \* the ApexNodeStatus resources
    controller,     \* the controller's pass
    last,           \* when the controller's last pass began
    failedPasses    \* history: passes of the controller that failed

nodeVars == <<nodeClock, node, report, controller, last, failedPasses>>

Label == {"none", "true", "false"}

(* since: when the node stopped to be ready, 0 while it is. *)
Node == [joined : BOOLEAN, ready : BOOLEAN, since : 0..MaxNodeTime,
         qualified : Label]

Report == [present : BOOLEAN, observed : 0..MaxNodeTime, sound : BOOLEAN,
           accepted : Label]

NoReport ==
    [present |-> FALSE, observed |-> 0, sound |-> FALSE, accepted |-> "none"]

(* reports, nodes: what was read; left: reports not handled yet; current:  *)
(* the node labelled last, whose report's status is not written yet.       *)
SeenReport == [name : ClusterNodes, observed : 0..MaxNodeTime, sound : BOOLEAN]

SeenNode == [name : ClusterNodes, ready : BOOLEAN]

ControllerPass == [reports : SUBSET SeenReport, nodes : SUBSET SeenNode,
                   step : {"idle", "nodes", "label", "status"},
                   current : ClusterNodes \cup {NoName}, verdict : BOOLEAN]

IdleController == [step |-> "idle", reports |-> {}, nodes |-> {},
                   current |-> NoName, verdict |-> FALSE]

NodeType ==
    /\ nodeClock \in 0..MaxNodeTime /\ last \in 0..MaxNodeTime
    /\ node \in [ClusterNodes -> Node]
    /\ report \in [ClusterNodes -> Report]
    /\ controller \in ControllerPass
    /\ failedPasses \in 0..MaxFailedPasses

NodeInit ==
    /\ nodeClock = 0 /\ last = 0
    /\ node = [n \in ClusterNodes |-> [joined |-> TRUE, ready |-> TRUE,
                                       since |-> 0, qualified |-> "none"]]
    /\ report = [n \in ClusterNodes |-> NoReport]
    /\ controller = IdleController
    /\ failedPasses = 0

Joined == {n \in ClusterNodes : node[n].joined}

-------------------------------------------------------------------------------
(* report_once: patched, or posted after a 404; the status is kept.  A     *)
(* failing report is written by the next cycle.                            *)
ReportOnce(n) ==
    /\ node[n].joined
    /\ \E sound \in BOOLEAN :
         report' = [report EXCEPT ![n] =
                      [@ EXCEPT !.present = TRUE, !.observed = nodeClock,
                                !.sound = sound]]
    /\ UNCHANGED <<nodeClock, node, controller, last, failedPasses>>

-------------------------------------------------------------------------------
(* The status controller. *)

(* Mutant: the age of the report is not looked at. *)
AcceptedAtAnyAge(seen, host) == host.ready /\ seen.sound

(* report_labels: fresh, ready, and the capabilities that are wanted. *)
Accepted(seen, host) ==
    host.ready /\ seen.sound /\ nodeClock - seen.observed <= Stale

ReadReports ==
    /\ controller.step = "idle"
    /\ nodeClock - last >= Interval \/ nodeClock = 0
    /\ controller' = [IdleController EXCEPT
                  !.step = "nodes",
                  !.reports = {[name |-> n, observed |-> report[n].observed,
                                sound |-> report[n].sound] :
                                 n \in {m \in ClusterNodes : report[m].present}}]
    /\ last' = nodeClock
    /\ UNCHANGED <<nodeClock, node, report, failedPasses>>

ListNodes ==
    /\ controller.step = "nodes"
    /\ controller' = [controller EXCEPT
                  !.step = "label",
                  !.nodes = {[name |-> n, ready |-> node[n].ready] : n \in Joined}]
    /\ UNCHANGED <<nodeClock, node, report, last, failedPasses>>

(* The label first, then the report's status; reports without a node are   *)
(* passed over.                                                            *)
LabelNode ==
    /\ controller.step = "label"
    /\ \E seen \in controller.reports, host \in controller.nodes :
         /\ seen.name = host.name
         /\ node[host.name].joined
         /\ node' = [node EXCEPT ![host.name].qualified =
                       IF Accepted(seen, host) THEN "true" ELSE "false"]
         /\ controller' = [controller EXCEPT
                             !.step = "status", !.current = host.name,
                             !.verdict = Accepted(seen, host),
                             !.reports = @ \ {seen}]
    /\ UNCHANGED <<nodeClock, report, last, failedPasses>>

WriteStatus ==
    /\ controller.step = "status"
    /\ report[controller.current].present
    /\ report' = [report EXCEPT ![controller.current].accepted =
                    IF controller.verdict THEN "true" ELSE "false"]
    /\ controller' = [controller EXCEPT !.step = "label", !.current = NoName]
    /\ UNCHANGED <<nodeClock, node, last, failedPasses>>

EndPass ==
    /\ controller.step = "label"
    /\ ~\E seen \in controller.reports, host \in controller.nodes :
          seen.name = host.name
    /\ controller' = IdleController
    /\ UNCHANGED <<nodeClock, node, report, last, failedPasses>>

(* Any call may fail, as it does for what is gone meanwhile; the rest of   *)
(* the reports waits for the next pass.                                    *)
PassFails ==
    /\ controller.step # "idle"
    /\ failedPasses < MaxFailedPasses
    /\ failedPasses' = failedPasses + 1
    /\ controller' = IdleController
    /\ UNCHANGED <<nodeClock, node, report, last>>

-------------------------------------------------------------------------------
(* The cluster, the operator and the clock. *)

NodeReadinessChanges(n) ==
    /\ node[n].joined
    /\ node' = [node EXCEPT ![n].ready = ~@,
                              ![n].since = IF node[n].ready THEN nodeClock ELSE 0]
    /\ UNCHANGED <<nodeClock, report, controller, last, failedPasses>>

(* A node that joins again has no labels; its report is still there. *)
NodeLeavesOrJoins(n) ==
    /\ node' = [node EXCEPT
                  ![n] = [joined |-> ~@.joined, ready |-> TRUE, since |-> 0,
                          qualified |-> "none"]]
    /\ UNCHANGED <<nodeClock, report, controller, last, failedPasses>>

DeleteReport(n) ==
    /\ report[n].present
    /\ report' = [report EXCEPT ![n] = NoReport]
    /\ UNCHANGED <<nodeClock, node, controller, last, failedPasses>>

(* The controller begins a pass every Interval. *)
Tick ==
    /\ nodeClock < MaxNodeTime
    /\ controller.step = "idle"
    /\ nodeClock - last < Interval
    /\ nodeClock' = nodeClock + 1
    /\ UNCHANGED <<node, report, controller, last, failedPasses>>

NodeNext ==
    \/ \E n \in ClusterNodes :
         \/ ReportOnce(n) \/ DeleteReport(n)
         \/ NodeReadinessChanges(n) \/ NodeLeavesOrJoins(n)
    \/ ReadReports \/ ListNodes \/ LabelNode \/ WriteStatus \/ EndPass
    \/ PassFails
    \/ Tick

-------------------------------------------------------------------------------
(* Properties. *)

(***************************************************************************)
(* A node is labelled as qualified on a report that is, or was one pass    *)
(* ago, fresh, and of a node that was ready then; every failed pass of the *)
(* controller adds one interval.  Without a report that the controller has *)
(* judged nothing takes the label away.                                    *)
(***************************************************************************)
QualifiedIsRecent ==
    \A n \in ClusterNodes :
      LET slack == Interval * (1 + failedPasses)
      IN node[n].qualified = "true" /\ report[n].accepted # "none" =>
           /\ nodeClock - report[n].observed <= Stale + slack
           /\ ~node[n].ready => nodeClock - node[n].since <= slack

===============================================================================
