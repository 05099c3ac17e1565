--------------------------- MODULE CameraCredentials ---------------------------
(***************************************************************************)
(* Cameras, their credential versions and the assignment sets that pin     *)
(* them: the camera operations of src/tvt_edge/service.py.  A rotation     *)
(* supersedes the active version and clones the desired set of a           *)
(* deployment that uses the camera; deleting a camera or clearing its      *)
(* credentials destroys the material unless a live set uses it; retention  *)
(* destroys what has been superseded for long enough.                      *)
(*                                                                         *)
(* One deployment.  Of a camera's stream the endpoint is kept, of an       *)
(* assignment set the credential version pinned for each of its cameras.   *)
(***************************************************************************)
EXTENDS Integers, Sequences

CONSTANTS
    Cameras,        \* camera keys
    Docs,           \* credential documents
    Streams,        \* stream endpoints
    None,
    Serialized      \* no operation runs between a commit's reads and writes

ASSUME CameraAssumption ==
    /\ None \notin Docs \cup Streams
    /\ Serialized \in BOOLEAN

VARIABLES
    camera,         \* the cameras row of each key, with its selected stream
    versions,       \* camera_credential_versions, in version order
    requests,       \* documents whose rotation request is in the audit log
    sets,           \* deployment_assignment_sets, in desired_revision order
    desired,        \* desired_assignment_set_id, 0 before the first commit
    applied,        \* applied_assignment_set_id, 0 before the first
    syncing,        \* the set that the sync worker is applying, 0 when idle
    txn             \* the set that an open commit is about to add

cameraVars == <<camera, versions, requests>>
setVars == <<sets, desired, applied, syncing, txn>>

Camera == [status  : {"absent", "present", "deleted"},
           enabled : BOOLEAN,
           stream  : Streams \cup {None},
           creator : {"operator", "inventory"}]

(* age: 1 once purge_after has passed, 2 after 90 days as superseded.      *)
(* Material is destroyed exactly when a version becomes revoked.           *)
Version == [doc   : Docs,
            state : {"active", "superseded", "revoked"},
            age   : 0..2]

(* The cameras of a set, each with the number of the version it pins.      *)
VersionNumber == UNION {0..Len(versions[c]) : c \in Cameras}

AssignmentSet == UNION {[used -> VersionNumber] : used \in SUBSET Cameras}

(* A set pins versions that exist, 0 for a camera without credentials. *)
PinsExist(set) == \A c \in DOMAIN set : set[c] \in 0..Len(versions[c])

CameraType ==
    /\ camera \in [Cameras -> Camera]
    /\ versions \in [Cameras -> Seq(Version)]
    /\ requests \subseteq Cameras \X Docs
    /\ sets \in Seq(AssignmentSet)
    /\ \A s \in DOMAIN sets : PinsExist(sets[s])
    /\ desired \in 0..Len(sets)
    /\ applied \in 0..Len(sets)
    /\ syncing \in 0..Len(sets)
    /\ txn \in AssignmentSet \cup {None}
    /\ txn # None => PinsExist(txn)

CameraInit ==
    /\ camera = [c \in Cameras |-> [status |-> "absent", enabled |-> FALSE,
                                    stream |-> None, creator |-> "operator"]]
    /\ versions = [c \in Cameras |-> <<>>]
    /\ requests = {}
    /\ sets = <<>>
    /\ desired = 0
    /\ applied = 0
    /\ syncing = 0
    /\ txn = None

-------------------------------------------------------------------------------
Present(c) == camera[c].status = "present"

Active(c) == {i \in DOMAIN versions[c] : versions[c][i].state = "active"}

(* The version a new set pins: a camera may have no credentials. *)
ActiveVersion(c) == IF Active(c) = {} THEN 0 ELSE CHOOSE i \in Active(c) : TRUE

Uses(s) == IF s = 0 THEN {} ELSE DOMAIN sets[s]

InUse(c) == c \in Uses(desired) \cup Uses(applied)

Pinned(c, i) ==
    \E s \in {desired, applied} : c \in Uses(s) /\ sets[s][c] = i

(* With Serialized an open commit excludes the other operations. *)
NoOpenCommit == Serialized => txn = None

(* Deleted rows keep their key, which is unique: creating one again fails. *)
CreateCamera(c, by) ==
    /\ camera[c].status = "absent"
    /\ camera' = [camera EXCEPT ![c].status = "present", ![c].creator = by]
    /\ UNCHANGED <<versions, requests, setVars>>

ConfigureStream(c, s) ==
    /\ Present(c)
    /\ camera' = [camera EXCEPT ![c].stream = s]
    /\ UNCHANGED <<versions, requests, setVars>>

SetCameraEnabled(c, enabled) ==
    /\ Present(c)
    /\ enabled => camera[c].stream # None
    /\ camera' = [camera EXCEPT ![c].enabled = enabled]
    /\ UNCHANGED <<versions, requests, setVars>>

(* A set that starts from s and pins another version for one camera. *)
Requeue(s, c, i) ==
    /\ sets' = Append(sets, [sets[s] EXCEPT ![c] = i])
    /\ desired' = Len(sets) + 1
    /\ UNCHANGED <<applied, syncing, txn>>

(* An open commit holds the deployment row that a requeue has to update.   *)
(* The first credentials of a camera are not requeued.                     *)
NewVersion(c, doc) ==
    /\ versions' = [versions EXCEPT ![c] =
         Append([i \in DOMAIN @ |->
                   IF i \in Active(c) THEN [@[i] EXCEPT !.state = "superseded"]
                   ELSE @[i]],
                [doc |-> doc, state |-> "active", age |-> 0])]
    /\ IF Active(c) # {} /\ c \in Uses(desired)
         THEN txn = None /\ Requeue(desired, c, Len(versions[c]) + 1)
         ELSE UNCHANGED setVars

RotateCredentials(c, doc) ==
    /\ NoOpenCommit
    /\ Present(c)
    /\ NewVersion(c, doc)
    /\ UNCHANGED <<camera, requests>>

Destroyed(c, chosen) ==
    [i \in DOMAIN versions[c] |->
       IF i \in chosen THEN [versions[c][i] EXCEPT !.state = "revoked"]
       ELSE versions[c][i]]

(* Both operations refuse while a desired or an applied set has the camera. *)
DestroyCredentials(c, status) ==
    /\ NoOpenCommit
    /\ Present(c)
    /\ ~InUse(c)
    /\ versions' = [versions EXCEPT ![c] = Destroyed(c, DOMAIN @)]
    /\ camera' = [camera EXCEPT ![c].status = status, ![c].enabled = FALSE]
    /\ UNCHANGED <<requests, setVars>>

DeleteCamera(c) == DestroyCredentials(c, "deleted")

ClearCredentials(c) == DestroyCredentials(c, "present")

-------------------------------------------------------------------------------
(* Commits lock the deployment row and so exclude each other. *)
OpenCommit(set) ==
    /\ txn = None
    /\ txn' = set
    /\ UNCHANGED <<cameraVars, sets, desired, applied, syncing>>

(* Mutant: the versions that the earlier set pinned are taken over. *)
RollbackPinned ==
    \E s \in DOMAIN sets :
        /\ \A c \in Uses(s) : Present(c) /\ camera[c].enabled
        /\ OpenCommit(sets[s])

(* _catalog_deployment_candidate. *)
CommitDeployment ==
    \E used \in SUBSET Cameras \ {{}} :
        /\ \A c \in used : /\ Present(c)
                           /\ camera[c].enabled
                           /\ camera[c].stream # None
        /\ OpenCommit([c \in used |-> ActiveVersion(c)])

(* Any earlier set, with the credentials that are active now. *)
Rollback ==
    \E s \in DOMAIN sets :
        /\ \A c \in Uses(s) : /\ Present(c)
                              /\ camera[c].enabled
                              /\ sets[s][c] # 0 => Active(c) # {}
        /\ OpenCommit([c \in Uses(s) |-> ActiveVersion(c)])

(* Lifecycle and geometry commits copy the desired set. *)
CloneDesired == desired # 0 /\ OpenCommit(sets[desired])

FinishCommit ==
    /\ txn # None
    /\ sets' = Append(sets, txn)
    /\ desired' = Len(sets) + 1
    /\ txn' = None
    /\ UNCHANGED <<cameraVars, applied, syncing>>

(* Mutant: a new desired set does not make an applied deployment due. *)
StartSyncOnce ==
    /\ syncing = 0
    /\ applied = 0
    /\ desired # 0
    /\ syncing' = desired
    /\ UNCHANGED <<cameraVars, sets, desired, applied, txn>>

(* The sync worker decrypts every pinned credential before it applies. *)
StartSync ==
    /\ syncing = 0
    /\ desired # applied
    /\ \A c \in Uses(desired) :
         sets[desired][c] # 0 =>
           versions[c][sets[desired][c]].state # "revoked"
    /\ syncing' = desired
    /\ UNCHANGED <<cameraVars, sets, desired, applied, txn>>

FinishSync ==
    /\ syncing # 0
    /\ applied' = syncing
    /\ syncing' = 0
    /\ UNCHANGED <<cameraVars, sets, desired, txn>>

-------------------------------------------------------------------------------
(* Thirty, then ninety days after a version was superseded. *)
TimePasses ==
    /\ txn = None
    /\ versions' =
         [c \in Cameras |->
            [i \in DOMAIN versions[c] |->
               IF versions[c][i].state = "superseded" /\ versions[c][i].age < 2
                 THEN [versions[c][i] EXCEPT !.age = @ + 1]
                 ELSE versions[c][i]]]
    /\ UNCHANGED <<camera, requests, setVars>>

Expired(c, i) ==
    /\ versions[c][i].state = "superseded"
    /\ versions[c][i].age >= 1
    /\ Pinned(c, i) => versions[c][i].age = 2

(* forgotten: rotation requests whose audit event is a year old. *)
ApplyRetention(forgotten) ==
    /\ NoOpenCommit
    /\ versions' = [c \in Cameras |->
                      Destroyed(c, {i \in DOMAIN versions[c] : Expired(c, i)})]
    /\ requests' = requests \ forgotten
    /\ UNCHANGED <<camera, setVars>>

===============================================================================
