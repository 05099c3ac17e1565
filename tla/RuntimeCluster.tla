---------------------------- MODULE RuntimeCluster ----------------------------
(***************************************************************************)
(* The part of Kubernetes that one camera deployment occupies, as the sync *)
(* worker of src/tvt_edge/cluster/sync.py sees it through kubectl.         *)
(*                                                                         *)
(* The desired-state ConfigMap and the camera-source Secret are written by *)
(* one apply; cluster.inputs is the desired revision they were built from. *)
(* cluster.template is the bundle whose Deployment object is stored.  The  *)
(* Deployment controller replaces the Pods when the Pod template changes   *)
(* or a restart is requested.  New Pods mount the Secret of that moment    *)
(* (a subPath mount, never refreshed), while the projected ConfigMap is    *)
(* refreshed in place.  The code is not under src/: the module models what *)
(* the worker relies on.                                                   *)
(***************************************************************************)
EXTENDS Integers

CONSTANTS
    MaxRevision,    \* bound on the desired revisions committed in a behaviour
    Images,         \* immutable image references of the solution catalog
    NoImage         \* the image of a deployment that was never applied

ASSUME RevisionAssumption == MaxRevision \in Nat

ASSUME ImageAssumption == NoImage \notin Images

VARIABLE cluster

Revision == 1..MaxRevision

(***************************************************************************)
(* A deployment bundle, reduced to what the worker compares: the image it  *)
(* pins, the replica count its lifecycle asks for, and                     *)
(* configuration.desired_state_sha256, named by the revision it hashes.    *)
(***************************************************************************)
Bundle == [image : Images, replicas : {0, 1}, sha : Revision]

Absent == [image |-> NoImage, replicas |-> 0, sha |-> 0]

(* Everything of a bundle except configuration.desired_state_sha256. *)
Resources(b) == <<b.image, b.replicas>>

Pods == [status : {"none", "starting", "ready"},
         bundle : Bundle \cup {Absent},
         mount  : Revision \cup {0},      \* revision whose Secret is mounted
         config : Revision \cup {0}]      \* revision the runtime has loaded

NoPods == [status |-> "none", bundle |-> Absent, mount |-> 0, config |-> 0]

Cluster == [inputs   : Revision \cup {0},
            template : Bundle \cup {Absent},
            rolling  : BOOLEAN,         \* a rollout is requested, not begun
            pods     : Pods]

ClusterType == cluster \in Cluster

ClusterInit ==
    cluster = [inputs |-> 0, template |-> Absent, rolling |-> FALSE,
               pods |-> NoPods]

-------------------------------------------------------------------------------
(* Effects of the commands the worker issues. *)

ApplyInputs(c, r) == [c EXCEPT !.inputs = r]

(* Server-side apply of an identical Pod template starts no rollout. *)
ApplyTemplate(c, b) ==
    [c EXCEPT !.template = b, !.rolling = c.rolling \/ c.template # b]

RestartPods(c) == [c EXCEPT !.rolling = TRUE]

(* kubectl rollout status returns: the latest rollout is complete. *)
RolledOut(c) == ~c.rolling /\ c.pods.status = "ready"

(* The newest running Pod answers /readyz with this desired revision. *)
Acknowledges(c, r) == c.pods.status = "ready" /\ c.pods.config = r

-------------------------------------------------------------------------------
(* Steps of the Deployment controller and of the kubelet. *)

RollPods ==
    /\ cluster.rolling
    /\ cluster' =
         [cluster EXCEPT
            !.rolling = FALSE,
            !.pods = IF cluster.template.replicas = 0
                       THEN NoPods
                       ELSE [status |-> "starting",
                             bundle |-> cluster.template,
                             mount  |-> cluster.inputs,
                             config |-> cluster.inputs]]

PodsReady ==
    /\ cluster.pods.status = "starting"
    /\ cluster' = [cluster EXCEPT !.pods.status = "ready"]

(* The kubelet refreshes the projected ConfigMap of running Pods. *)
RefreshConfig ==
    /\ cluster.pods.status # "none"
    /\ cluster.pods.config # cluster.inputs
    /\ cluster' = [cluster EXCEPT !.pods.config = cluster.inputs]

ClusterNext == RollPods \/ PodsReady \/ RefreshConfig

===============================================================================
