---------------------------- MODULE StorageFailover ----------------------------
(***************************************************************************)
(* Failover of a Deployment whose volume is a node-local claim             *)
(* (src/apexfabric/control_plane/storage_failover.py).  A pass reads the   *)
(* cluster in four commands; when a Pod is stranded on a node that has     *)
(* been unready for the grace period, and another node is eligible, it     *)
(* creates a fresh claim, points the Deployment at it and deletes the      *)
(* stranded Pods by force.  Beside it Kubernetes runs one Pod of the       *)
(* newest template, on the node its claim is bound to.                     *)
(***************************************************************************)
EXTENDS Integers, FiniteSets

CONSTANTS
    Nodes,
    MaxClaims,      \* bound on the claims that are created
    MaxFaults       \* bound on the node failures, crashes and failing deletions

ASSUME FailoverAssumption ==
    /\ MaxClaims \in Nat \ {0}
    /\ MaxFaults \in Nat

VARIABLES
    health,         \* of each node: "ready", "unready" or "overdue", which is
                    \* unready for longer than the grace period
    claims,         \* the node each claim is bound to, NoNode before its first Pod
    template,       \* the claim the Deployment's template names
    pods,           \* Pods that the API server lists: claim and node
    pass,           \* the pass that is running
    interrupted,    \* history: a pass crashed or a deletion failed
    failures        \* number of faults so far

failoverVars == <<health, claims, template, pods, pass, interrupted, failures>>

NoNode == "none"

NodeHealth == {"ready", "unready", "overdue"}

Claims == 1..MaxClaims

Pod == [claim : Claims, node : Nodes]

PassStep == {"idle", "deployment", "pods", "apply", "patch", "delete"}

Pass == [step : PassStep, health : [Nodes -> NodeHealth], claim : Claims,
         new : Claims, stranded : SUBSET Pod]

FailoverType ==
    /\ health \in [Nodes -> NodeHealth]
    /\ \E n \in Claims : claims \in [1..n -> Nodes \cup {NoNode}]
    /\ template \in DOMAIN claims
    /\ pods \subseteq Pod
    /\ pass \in Pass
    /\ interrupted \in BOOLEAN
    /\ failures \in 0..MaxFaults

FailoverInit ==
    /\ health = [n \in Nodes |-> "ready"]
    /\ claims = [c \in {1} |-> NoNode]
    /\ template = 1
    /\ pods = {}
    /\ pass = [step |-> "idle", health |-> health, claim |-> 1, new |-> 1, stranded |-> {}]
    /\ interrupted = FALSE
    /\ failures = 0

-------------------------------------------------------------------------------
Fault == failures < MaxFaults /\ failures' = failures + 1

ReadNodes ==
    /\ pass.step = "idle"
    /\ pass' = [pass EXCEPT !.step = "deployment", !.health = health]
    /\ UNCHANGED <<health, claims, template, pods, interrupted, failures>>

ReadDeployment ==
    /\ pass.step = "deployment"
    /\ pass' = [pass EXCEPT !.step = "pods", !.claim = template]
    /\ UNCHANGED <<health, claims, template, pods, interrupted, failures>>

(* Mutant: the age of the last transition is taken, whatever it led to. *)
UnavailableTransition(h) == h \in {"ready", "overdue"}

(* _unavailable_for, compared with the grace period. *)
Unavailable(h) == h = "overdue"

Stranded == {p \in pods : Unavailable(pass.health[p.node])}

(* Some eligible node is left. *)
Replaceable(stranded) ==
    /\ stranded # {}
    /\ \E n \in Nodes : pass.health[n] = "ready" /\ \A p \in stranded : p.node # n

ReadPods ==
    /\ pass.step = "pods"
    /\ pass' = [pass EXCEPT !.step = IF Replaceable(Stranded) THEN "apply" ELSE "idle",
                            !.stranded = Stranded]
    /\ UNCHANGED <<health, claims, template, pods, interrupted, failures>>

(* The new claim's name has the time in it. *)
ApplyClaim ==
    /\ pass.step = "apply"
    /\ Cardinality(DOMAIN claims) < MaxClaims
    /\ LET new == Cardinality(DOMAIN claims) + 1
       IN /\ claims' = [c \in 1..new |-> IF c = new THEN NoNode ELSE claims[c]]
          /\ pass' = [pass EXCEPT !.step = "patch", !.new = new]
    /\ UNCHANGED <<health, template, pods, interrupted, failures>>

PatchDeployment ==
    /\ pass.step = "patch"
    /\ template' = pass.new
    /\ pass' = [pass EXCEPT !.step = "delete"]
    /\ UNCHANGED <<health, claims, pods, interrupted, failures>>

(* The stranded Pods are deleted by force; the outcome is not looked at.   *)
DeletePods ==
    /\ pass.step = "delete"
    /\ pass' = [pass EXCEPT !.step = "idle", !.stranded = {}]
    /\ \/ pods' = pods \ pass.stranded /\ UNCHANGED <<interrupted, failures>>
       \/ pods' = pods /\ interrupted' = TRUE /\ Fault
    /\ UNCHANGED <<health, claims, template>>

(* A failing command ends the pass, and so does a crash of the server; the *)
(* patch may have been applied all the same.                               *)
Interrupt ==
    /\ pass.step # "idle"
    /\ pass' = [pass EXCEPT !.step = "idle", !.stranded = {}]
    /\ \/ UNCHANGED template
       \/ pass.step = "patch" /\ template' = pass.new
    /\ interrupted' = (interrupted \/ pass.step = "delete" \/ template' # template)
    /\ Fault
    /\ UNCHANGED <<health, claims, pods>>

FailoverPass ==
    \/ ReadNodes \/ ReadDeployment \/ ReadPods
    \/ ApplyClaim \/ PatchDeployment \/ DeletePods
    \/ Interrupt

-------------------------------------------------------------------------------
(* Kubernetes: one Pod of the newest template; a claim is bound to the     *)
(* node of its first Pod.  Pods of older templates end on ready nodes.     *)
RunPod ==
    \E n \in Nodes :
        /\ health[n] = "ready"
        /\ claims[template] \in {NoNode, n}
        /\ \A p \in pods : p.claim # template
        /\ pods' = pods \cup {[claim |-> template, node |-> n]}
        /\ claims' = [claims EXCEPT ![template] = n]
        /\ UNCHANGED <<health, template, pass, interrupted, failures>>

EndPod ==
    \E p \in pods :
        /\ p.claim # template
        /\ health[p.node] = "ready"
        /\ pods' = pods \ {p}
        /\ UNCHANGED <<health, claims, template, pass, interrupted, failures>>

NodeFails(n) ==
    /\ health[n] = "ready"
    /\ health' = [health EXCEPT ![n] = "unready"]
    /\ Fault
    /\ UNCHANGED <<claims, template, pods, pass, interrupted>>

GraceEnds(n) ==
    /\ health[n] = "unready"
    /\ health' = [health EXCEPT ![n] = "overdue"]
    /\ UNCHANGED <<claims, template, pods, pass, interrupted, failures>>

NodeReturns(n) ==
    /\ health[n] # "ready"
    /\ health' = [health EXCEPT ![n] = "ready"]
    /\ UNCHANGED <<claims, template, pods, pass, interrupted, failures>>

FailoverNext ==
    \/ FailoverPass
    \/ RunPod
    \/ EndPod
    \/ \E n \in Nodes : NodeFails(n) \/ GraceEnds(n) \/ NodeReturns(n)

-------------------------------------------------------------------------------
(***************************************************************************)
(* A claim with data is left behind only for a node that was overdue when  *)
(* the pass looked, and only once: the claim that replaced it is not       *)
(* replaced in turn while its node is well.  A pass that was cut off, or   *)
(* whose deletion failed, leaves stranded Pods that make the next pass     *)
(* replace the fresh claim again.                                          *)
(***************************************************************************)
LeavesOverdue ==
    template' # template /\ ~interrupted =>
        \/ claims[template] = NoNode
        \/ pass.health[claims[template]] = "overdue"

LeavesFailedNode == [][LeavesOverdue]_failoverVars

===============================================================================
