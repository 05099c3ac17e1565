---------------------------- MODULE CameraInventory ----------------------------
(***************************************************************************)
(* The worker that mirrors the control plane's camera inventory into the   *)
(* management database (src/tvt_edge/cluster/camera_inventory_sync.py).    *)
(* A pass reads the inventory once, reconciles camera by camera, each from *)
(* one view and in several transactions, and then deletes what is not      *)
(* listed.  Operators, commits, the deployment synchronizer and time move  *)
(* between any two of its transactions.                                    *)
(***************************************************************************)
EXTENDS CameraCredentials

CONSTANTS
    Listings,           \* inventory entries, a subset of Entry
    FirstListing,       \* the inventory at the beginning
    MaxDisturbances     \* bound on operator calls, commits, changes, faults

VARIABLES
    inventory,      \* ConfigMap and Secret of the control plane, per camera
    worker,         \* the mirroring process
    disturbed       \* number of disturbances so far

vars == <<cameraVars, setVars, inventory, worker, disturbed>>

(* An entry may lack its source in the Secret, or have one that is no      *)
(* RTSP address.  A source embeds its credentials or has none.             *)
Entry == [source : {"unlisted", "missing", "malformed", "valid"},
          stream : Streams \cup {None},
          doc    : Docs \cup {None}]

Without(kind) == [source |-> kind, stream |-> None, doc |-> None]

Source(stream, doc) == [source |-> "valid", stream |-> stream, doc |-> doc]

ASSUME InventoryAssumption ==
    /\ Listings \subseteq Entry
    /\ FirstListing \in [Cameras -> Entry]
    /\ MaxDisturbances \in Nat

Listed(c, listing) == listing[c].source # "unlisted"

Worker == [pc      : {"idle", "view", "create", "stream", "rotate", "enable",
                      "delete"},
           seen    : [Cameras -> Entry],
           todo    : SUBSET Cameras,
           cam     : Cameras \cup {None},
           enabled : BOOLEAN,               \* of the view
           stream  : Streams \cup {None}]   \* of the view

(* Every variable holds a value of its kind. *)
TypeOK ==
    /\ CameraType
    /\ inventory \in [Cameras -> Entry]
    /\ worker \in Worker
    /\ disturbed \in 0..MaxDisturbances

Idle == [pc |-> "idle", seen |-> [c \in Cameras |-> Without("unlisted")],
         todo |-> {}, cam |-> None, enabled |-> FALSE, stream |-> None]

Init ==
    /\ CameraInit
    /\ inventory = FirstListing
    /\ worker = Idle
    /\ disturbed = 0

-------------------------------------------------------------------------------
(* A failing kubectl reads as no cameras, or as no sources. *)
Readings == {inventory,
             [c \in Cameras |-> Without("unlisted")],
             [c \in Cameras |-> IF Listed(c, inventory) THEN Without("missing")
                                ELSE inventory[c]]}

ReadInventory ==
    /\ worker.pc = "idle"
    /\ \E seen \in Readings :
         /\ disturbed' = IF seen = inventory THEN disturbed ELSE disturbed + 1
         /\ disturbed' <= MaxDisturbances
         /\ worker' = [Idle EXCEPT !.pc = "view", !.seen = seen,
                         !.todo = {c \in Cameras : Listed(c, seen)}]
    /\ UNCHANGED <<cameraVars, setVars, inventory>>

Seen == worker.seen[worker.cam]

(* get_camera, or the defaults of a camera that has no row. *)
View ==
    /\ worker.pc = "view"
    /\ \E c \in worker.todo :
         worker' = [worker EXCEPT !.todo = @ \ {c}, !.cam = c,
                      !.pc = IF Present(c) THEN "stream" ELSE "create",
                      !.enabled = Present(c) /\ camera[c].enabled,
                      !.stream = IF Present(c) THEN camera[c].stream ELSE None]
    /\ UNCHANGED <<cameraVars, setVars, inventory, disturbed>>

(* The next stage, or the next camera when a ValueError skips this one. *)
GoTo(pc) == worker' = [worker EXCEPT !.pc = pc]

(* A key that exists already ends the pass: no ValueError but a database   *)
(* error.                                                                  *)
Create ==
    /\ worker.pc = "create"
    /\ \/ CreateCamera(worker.cam, "inventory") /\ GoTo("stream")
       \/ /\ camera[worker.cam].status # "absent"
          /\ worker' = Idle
          /\ UNCHANGED <<cameraVars, setVars>>
    /\ UNCHANGED <<inventory, disturbed>>

(* _split_source refuses a malformed source. *)
Stream ==
    /\ worker.pc = "stream"
    /\ \/ /\ Seen.source = "valid"
          /\ Seen.stream # worker.stream
          /\ ConfigureStream(worker.cam, Seen.stream)
          /\ GoTo("rotate")
       \/ /\ GoTo(IF Seen.source = "valid" /\ Seen.stream = worker.stream
                    THEN "rotate" ELSE "view")
          /\ \/ Seen.source # "valid"
             \/ Seen.stream = worker.stream
             \/ ~Present(worker.cam)
          /\ UNCHANGED <<cameraVars, setVars>>
    /\ UNCHANGED <<inventory, disturbed>>

Requested == <<worker.cam, Seen.doc>> \in requests

(* The request id is made of the document, so one document is rotated in   *)
(* once; a repeated request returns the version that is active.            *)
Rotate ==
    /\ worker.pc = "rotate"
    /\ \/ /\ Seen.doc # None
          /\ ~Requested
          /\ NoOpenCommit
          /\ Present(worker.cam)
          /\ NewVersion(worker.cam, Seen.doc)
          /\ requests' = requests \cup {<<worker.cam, Seen.doc>>}
          /\ GoTo("enable")
          /\ UNCHANGED camera
       \/ /\ Seen.doc = None \/ (Present(worker.cam) /\ Requested)
          /\ GoTo(IF Seen.doc # None /\ Active(worker.cam) = {}
                    THEN "view" ELSE "enable")
          /\ UNCHANGED <<cameraVars, setVars>>
       \/ /\ Seen.doc # None /\ ~Present(worker.cam)
          /\ GoTo("view")
          /\ UNCHANGED <<cameraVars, setVars>>
    /\ UNCHANGED <<inventory, disturbed>>

Enable ==
    /\ worker.pc = "enable"
    /\ IF ~worker.enabled /\ Present(worker.cam)
         THEN SetCameraEnabled(worker.cam, TRUE)
         ELSE UNCHANGED <<cameraVars, setVars>>
    /\ GoTo("view")
    /\ UNCHANGED <<inventory, disturbed>>

(* list_cameras, once. *)
ListForDeletion ==
    /\ worker.pc = "view"
    /\ worker.todo = {}
    /\ worker' = [worker EXCEPT !.pc = "delete", !.cam = None,
                    !.todo = {c \in Cameras : Present(c)
                                              /\ ~Listed(c, worker.seen)}]
    /\ UNCHANGED <<cameraVars, setVars, inventory, disturbed>>

(* Mutant: the pass stops at the first camera that cannot be deleted. *)
DeleteUntilRefused ==
    /\ worker.pc = "delete"
    /\ worker.todo # {}
    /\ \E c \in worker.todo :
         \/ /\ DeleteCamera(c)
            /\ worker' = [worker EXCEPT !.todo = @ \ {c}]
         \/ /\ ~Present(c) \/ InUse(c)
            /\ worker' = Idle
            /\ UNCHANGED <<cameraVars, setVars>>
    /\ UNCHANGED <<inventory, disturbed>>

(* A refused deletion is skipped. *)
Delete ==
    /\ worker.pc = "delete"
    /\ worker.todo # {}
    /\ \E c \in worker.todo :
         /\ worker' = [worker EXCEPT !.todo = @ \ {c}]
         /\ \/ DeleteCamera(c)
            \/ /\ ~Present(c) \/ InUse(c)
               /\ UNCHANGED <<cameraVars, setVars>>
    /\ UNCHANGED <<inventory, disturbed>>

EndPass ==
    /\ worker.pc = "delete"
    /\ worker.todo = {}
    /\ worker' = Idle
    /\ UNCHANGED <<cameraVars, setVars, inventory, disturbed>>

Pass ==
    \/ ReadInventory \/ View \/ Create \/ Stream \/ Rotate \/ Enable
    \/ ListForDeletion \/ Delete \/ EndPass

-------------------------------------------------------------------------------
Operator ==
    \E c \in Cameras :
        \/ CreateCamera(c, "operator")
        \/ \E s \in Streams : ConfigureStream(c, s)
        \/ \E doc \in Docs : RotateCredentials(c, doc)
        \/ \E enabled \in BOOLEAN : SetCameraEnabled(c, enabled)
        \/ DeleteCamera(c)
        \/ ClearCredentials(c)

Commit == CommitDeployment \/ Rollback \/ CloneDesired

ForgetRequests == \E old \in SUBSET requests \ {{}} : ApplyRetention(old)

Disturbance ==
    /\ disturbed < MaxDisturbances
    /\ disturbed' = disturbed + 1
    /\ \/ (Operator \/ Commit \/ ForgetRequests) /\ UNCHANGED <<inventory, worker>>
       \/ /\ \E c \in Cameras, e \in Listings :
               inventory' = [inventory EXCEPT ![c] = e]
          /\ UNCHANGED <<cameraVars, setVars, worker>>
       \/ /\ worker.pc # "idle"
          /\ worker' = Idle
          /\ UNCHANGED <<cameraVars, setVars, inventory>>

(* The database and the synchronizer at work. *)
Background ==
    /\ FinishCommit \/ StartSync \/ FinishSync \/ TimePasses \/ ApplyRetention({})
    /\ UNCHANGED <<inventory, worker, disturbed>>

Next == Pass \/ Disturbance \/ Background

Spec == Init /\ [][Next]_vars

(* The sync service runs both workers in a loop, and a request ends. *)
FairSpec ==
    /\ Spec
    /\ WF_vars(Pass)
    /\ WF_vars(FinishCommit /\ UNCHANGED <<inventory, worker, disturbed>>)
    /\ WF_vars((StartSync \/ FinishSync)
               /\ UNCHANGED <<inventory, worker, disturbed>>)

-------------------------------------------------------------------------------
(***************************************************************************)
(* The desired set can always be rendered: its cameras exist and the       *)
(* credential versions it pins are the active ones, whatever rotations,    *)
(* deletions, rollbacks and retention did since it was committed.          *)
(***************************************************************************)
DesiredServable ==
    \A c \in Uses(desired) :
        /\ Present(c)
        /\ sets[desired][c] # 0 => sets[desired][c] \in Active(c)

(* A credential that was rotated while in use reaches the runtime: in the  *)
(* end no applied set pins a superseded version.                           *)
CredentialsReachRuntime ==
    <>[](\A c \in Uses(applied) :
            sets[applied][c] \in {0} \cup Active(c))

(***************************************************************************)
(* What keeps the mirror from working: a listed camera whose key belongs   *)
(* to a deleted row ends every pass; a camera whose credentials were       *)
(* cleared after its document had been rotated in is skipped.              *)
(***************************************************************************)
Relisted(c) == Listed(c, inventory) /\ camera[c].status = "deleted"

Cleared(c) == <<c, inventory[c].doc>> \in requests /\ Active(c) = {}

Mirrored(c) ==
    /\ Present(c)
    /\ camera[c].enabled
    /\ camera[c].stream = inventory[c].stream

(* Whatever was disturbed before, once the inventory is at rest each of    *)
(* its cameras is enabled on its stream, and an unlisted camera that no    *)
(* live set uses is gone.                                                  *)
MirrorConverges ==
    <>[](\A c \in Cameras : ~Relisted(c)) =>
        \A c \in Cameras :
            /\ <>[](inventory[c].source = "valid" /\ ~Cleared(c))
                 => <>[]Mirrored(c)
            /\ <>[](~Listed(c, inventory) /\ ~InUse(c)) => <>[](~Present(c))

(* "It only ever deletes a camera that this worker itself would have       *)
(* created": a pass leaves the cameras that operators created.             *)
OnlyMirroredDeleted ==
    [][\A c \in Cameras :
          /\ worker' # worker
          /\ Present(c)
          /\ camera'[c].status = "deleted"
          => camera[c].creator = "inventory"]_vars

===============================================================================
