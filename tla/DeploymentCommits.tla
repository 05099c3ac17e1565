--------------------------- MODULE DeploymentCommits ---------------------------
(***************************************************************************)
(* The management service's commits of one solution deployment             *)
(* (src/tvt_edge/service.py).  Every commit runs in one transaction, adds  *)
(* an immutable assignment set under the next desired revision and points  *)
(* the deployment's synchronization row at it.                             *)
(*                                                                         *)
(* The sets of a deployment are numbered by their desired revision, so a   *)
(* set is named by its index in sets.  Of a set's cameras only the version *)
(* of their credentials matters here: it decides the camera-source Secret. *)
(***************************************************************************)
EXTENDS RuntimeCluster, Sequences

CONSTANTS
    Workers,    \* sync worker processes
    None        \* no claim token

ASSUME WorkerAssumption == None \notin Workers

VARIABLES
    sets,           \* deployment_assignment_sets, in desired_revision order
    credential,     \* number of the active camera credential version
    intent,         \* solution_deployments.lifecycle_intent, as replicas
    sync            \* the deployment_sync_state row

commitVars == <<sets, credential, intent>>

AssignmentSet == [bundle : Bundle, credential : Nat]

(***************************************************************************)
(* A claim token is a fresh UUID.  A process runs one attempt at a time, so *)
(* the identity of the claiming process stands for it.  due abstracts      *)
(* next_attempt_at (null or passed), leased abstracts claim_until (in the  *)
(* future).  desired = 0 means that the row does not exist yet.            *)
(***************************************************************************)
SyncState == {"pending", "applying", "applied", "failed", "operator_required"}

SyncRow == [desired : Revision \cup {0},
            applied : Revision \cup {0},
            state   : SyncState,
            token   : Workers \cup {None},
            leased  : BOOLEAN,
            due     : BOOLEAN]

CommitType ==
    /\ sets \in Seq(AssignmentSet)
    /\ Len(sets) <= MaxRevision
    /\ credential \in Nat
    /\ intent \in {0, 1}
    /\ sync \in SyncRow

CommitInit ==
    /\ sets = <<>>
    /\ credential = 1
    /\ intent = 1
    /\ sync = [desired |-> 0, applied |-> 0, state |-> "pending",
               token |-> None, leased |-> FALSE, due |-> TRUE]

BundleOf(r) == IF r = 0 THEN Absent ELSE sets[r].bundle

CredentialOf(r) == IF r = 0 THEN 0 ELSE sets[r].credential

NextRevision == Len(sets) + 1

Deployed == sync.desired # 0

-------------------------------------------------------------------------------
(* Points the row at a set; the claim columns keep their values. *)
SetDesired(r) ==
    sync' = [sync EXCEPT !.desired = r, !.state = "pending", !.due = TRUE]

AddSet(b, c) ==
    /\ NextRevision \in Revision
    /\ sets' = Append(sets, [bundle |-> b, credential |-> c])
    /\ SetDesired(NextRevision)

(***************************************************************************)
(* commit_catalog_deployment: any catalog image, the deployment's          *)
(* lifecycle intent, the active credentials.  The desired state carries    *)
(* the revision number, so its digest is new.                              *)
(***************************************************************************)
CommitCatalogDeployment ==
    /\ \E image \in Images :
         AddSet([image |-> image, replicas |-> intent, sha |-> NextRevision],
                credential)
    /\ UNCHANGED <<credential, intent>>

(* A saved camera geometry clones the desired set under a new digest. *)
QueueCameraGeometry ==
    /\ Deployed
    /\ AddSet([BundleOf(sync.desired) EXCEPT !.sha = NextRevision],
              CredentialOf(sync.desired))
    /\ UNCHANGED <<credential, intent>>

(* A rotated credential clones the desired set; the bundle is reused. *)
RotateCredentials ==
    /\ Deployed
    /\ AddSet(BundleOf(sync.desired), credential + 1)
    /\ credential' = credential + 1
    /\ UNCHANGED intent

SetLifecycle ==
    /\ Deployed
    /\ \E replicas \in {0, 1} :
         /\ AddSet([BundleOf(sync.desired) EXCEPT !.replicas = replicas],
                   CredentialOf(sync.desired))
         /\ intent' = replicas
    /\ UNCHANGED credential

(* Any stored bundle of an earlier set, with the credentials now active. *)
Rollback ==
    /\ \E r \in 1..Len(sets) : AddSet(BundleOf(r), credential)
    /\ UNCHANGED <<credential, intent>>

Commit ==
    \/ CommitCatalogDeployment
    \/ QueueCameraGeometry
    \/ RotateCredentials
    \/ SetLifecycle
    \/ Rollback

===============================================================================
