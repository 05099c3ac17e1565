----------------------------- MODULE CameraGeometry -----------------------------
(***************************************************************************)
(* The zones and lines drawn for one camera and their way into the         *)
(* deployments that serve it (src/tvt_edge/service.py): every saved shape  *)
(* raises the camera's geometry revision and clones the desired set of     *)
(* every deployment with the camera, unless an enrollment window has       *)
(* borrowed it; then the configuration kept for its return is changed.     *)
(* Catalog commits, rollbacks and windows write sets of their own.         *)
(*                                                                         *)
(* Points and names are left out: the revision at which a shape was last   *)
(* saved stands for them.  Of a configuration only the camera's geometry   *)
(* matters.  Enrollment sessions are in EnrollmentCamera; here the older   *)
(* windows of the same service borrow the camera.  A transaction is one    *)
(* step; a method with several transactions takes several.                 *)
(***************************************************************************)
EXTENDS Integers, Sequences

CONSTANTS
    Deployments,    \* catalog deployments of the pilot solution
    Shapes,         \* camera_geometry_shapes rows that may be created
    ZoneNames,      \* slugs of the zone names that operators use
    MaxRevision,    \* bound on the number of saved changes
    MaxGeometrySets \* bound on the sets of a deployment

ASSUME GeometryAssumption ==
    MaxRevision \in Nat /\ MaxGeometrySets \in Nat \ {0}

VARIABLES
    shapes,     \* per row, its shape, NoShape before creation, or deleted
    revision,   \* cameras.geometry_revision
    saved,      \* history: the compiled geometry of every revision from 0 on
    assigned,   \* per deployment, its assignment sets; the last is desired
    window,     \* per deployment, the latest enrollment window
    request,    \* per deployment and kind, a thread after its first transaction
    overwritten \* history: deployments that a commit took back to older shapes

geometryVars ==
    <<shapes, revision, saved, assigned, window, request, overwritten>>

(* The lines of the one gate; a zone may be named like one of them. *)
LineKeys == {<<"gate_entry", 1>>, <<"gate_exit", 1>>}

ShapeKey == LineKeys \cup (ZoneNames \X (1..MaxRevision))

Shape == [kind : {"zone", "line"}, key : ShapeKey, saved : 1..MaxRevision,
          deleted : BOOLEAN]

NoShape == [kind |-> "none", key |-> <<>>, saved |-> 0, deleted |-> FALSE]

Drawn == [kind : {"zone", "line"}, key : ShapeKey, saved : 1..MaxRevision]

(* The lines and anpr zones in a camera's configuration. *)
Geometry == SUBSET Drawn

(* claims: camera_deployment_assignments.geometry_revision. *)
GeometrySet == [apps : {"face_recognition", "face_enrollment", "unassigned"},
                geometry : Geometry, claims : 0..MaxRevision]

BorrowWindow == [active : BOOLEAN, prior : Geometry]

Request == [step : {"idle", "commit"}, prior : Geometry, seen : 0..MaxGeometrySets]

IdleRequest == [step |-> "idle", prior |-> {}, seen |-> 0]

RequestKind == {"start", "stop"}

GeometryType ==
    /\ shapes \in [Shapes -> Shape \cup {NoShape}]
    /\ revision \in 0..MaxRevision
    /\ saved \in Seq(Geometry) /\ Len(saved) = revision + 1
    /\ assigned \in [Deployments -> Seq(GeometrySet)]
    /\ window \in [Deployments -> BorrowWindow]
    /\ request \in [Deployments \X RequestKind -> Request]
    /\ overwritten \subseteq Deployments

GeometryInit ==
    /\ shapes = [s \in Shapes |-> NoShape]
    /\ revision = 0
    /\ saved = <<{}>>
    /\ assigned = [d \in Deployments |-> <<[apps |-> "face_recognition",
                                         geometry |-> {}, claims |-> 0]>>]
    /\ window = [d \in Deployments |-> [active |-> FALSE, prior |-> {}]]
    /\ request = [t \in Deployments \X RequestKind |-> IdleRequest]
    /\ overwritten = {}

Latest(d) == assigned[d][Len(assigned[d])]

Serves(d) == Latest(d).apps # "unassigned"

-------------------------------------------------------------------------------
(* Shapes. *)

Live(s) == shapes[s] # NoShape /\ ~shapes[s].deleted

UsedKeys == {shapes[s].key : s \in {t \in Shapes : Live(t)}}

(* compile_camera_config of the rows that are not deleted. *)
Compile(rows) ==
    {[kind |-> rows[s].kind, key |-> rows[s].key, saved |-> rows[s].saved] :
       s \in {t \in Shapes : rows[t] # NoShape /\ ~rows[t].deleted}}

(* What the camera's configuration should be now. *)
Current == saved[revision + 1]

(* The slug of the name, with the first free suffix from 2 on. *)
FreeZoneKey(name) ==
    <<name, CHOOSE n \in 1..MaxRevision :
              /\ <<name, n>> \notin UsedKeys
              /\ \A m \in 1..(n - 1) : <<name, m>> \in UsedKeys>>

MayQueue(d) == Serves(d) /\ ~window[d].active

(***************************************************************************)
(* _queue_camera_geometry_deployments, in the transaction that changed the *)
(* shapes.  A window's row is found through the desired set: when the      *)
(* camera was taken out of it meanwhile, what is kept for it is not        *)
(* changed.                                                                *)
(***************************************************************************)
QueueDeployments(geometry, r) ==
    /\ assigned' = [d \in Deployments |->
                      IF MayQueue(d)
                        THEN Append(assigned[d],
                               [Latest(d) EXCEPT !.geometry = geometry, !.claims = r])
                        ELSE assigned[d]]
    /\ window' = [d \in Deployments |->
                    IF Serves(d) /\ window[d].active
                      THEN [window[d] EXCEPT !.prior = geometry] ELSE window[d]]
    /\ overwritten' = (overwritten \ {d \in Deployments : Serves(d)})
                        \cup {d \in Deployments : ~Serves(d) /\ window[d].active}

(* The table's unique constraint counts the deleted rows too, which no      *)
(* operation looks at: the key of a deleted shape cannot be given again.   *)
Unique(s, shape) ==
    \A t \in Shapes \ {s} : shapes[t] # NoShape => shapes[t].key # shape.key

SaveShape(s, shape) ==
    /\ Unique(s, shape)
    /\ revision < MaxRevision
    /\ \A d \in Deployments : Len(assigned[d]) < MaxGeometrySets
    /\ shapes' = [shapes EXCEPT ![s] = [shape EXCEPT !.saved = revision + 1]]
    /\ revision' = revision + 1
    /\ saved' = Append(saved, Compile(shapes'))
    /\ QueueDeployments(Compile(shapes'), revision + 1)
    /\ UNCHANGED request

CreateCameraZone(s, name) ==
    /\ shapes[s] = NoShape
    /\ SaveShape(s, [kind |-> "zone", key |-> FreeZoneKey(name),
                     saved |-> 0, deleted |-> FALSE])

CreateCameraLine(s, key) ==
    /\ shapes[s] = NoShape
    /\ key \notin UsedKeys
    /\ SaveShape(s, [kind |-> "line", key |-> key, saved |-> 0, deleted |-> FALSE])

(* A zone keeps its key; a line's follows its direction. *)
UpdateZone(s) ==
    /\ Live(s) /\ shapes[s].kind = "zone"
    /\ SaveShape(s, shapes[s])

UpdateLine(s, key) ==
    /\ Live(s) /\ shapes[s].kind = "line"
    /\ \A t \in Shapes \ {s} : Live(t) => shapes[t].key # key
    /\ SaveShape(s, [shapes[s] EXCEPT !.key = key])

DeleteShape(s) ==
    /\ Live(s)
    /\ SaveShape(s, [shapes[s] EXCEPT !.deleted = TRUE])

-------------------------------------------------------------------------------
(* Sets that other operations commit. *)

(***************************************************************************)
(* A commit of other shapes than the current ones takes the camera back.   *)
(* What a window keeps is not repaired by a commit.                        *)
(***************************************************************************)
UpToDate(g, claims) == g = Current /\ claims = revision

Note(d, apps, g, claims) ==
    overwritten' =
      IF apps = "unassigned" \/ (window[d].active /\ (UpToDate(g, claims) \/ g = {}))
        THEN overwritten
        ELSE IF UpToDate(g, claims) THEN overwritten \ {d}
                                    ELSE overwritten \cup {d}

AppendSet(d, apps, g, claims) ==
    /\ Len(assigned[d]) < MaxGeometrySets
    /\ assigned' = [assigned EXCEPT
                      ![d] = Append(@, [apps |-> apps, geometry |-> g,
                                        claims |-> claims])]
    /\ Note(d, apps, g, claims)

(***************************************************************************)
(* The form was filled from the shapes of any earlier moment.  The bundle  *)
(* contains the set's number, so a commit whose preview was followed by    *)
(* another set fails and changes nothing; a shape saved meanwhile does not *)
(* by itself make it fail.                                                 *)
(***************************************************************************)
CommitCatalogDeployment(d) ==
    /\ \/ \E r \in 1..Len(saved) :
            AppendSet(d, "face_recognition", saved[r], revision)
       \/ AppendSet(d, "unassigned", {}, revision)
    /\ UNCHANGED <<shapes, revision, saved, window, request>>

(* set_lifecycle, rotate_credentials: the clone keeps the configuration. *)
CloneDesired(d) ==
    /\ Len(assigned[d]) < MaxGeometrySets
    /\ assigned' = [assigned EXCEPT ![d] = Append(@, Latest(d))]
    /\ UNCHANGED <<shapes, revision, saved, window, request, overwritten>>

(* rollback: an earlier set with its configuration and what it claimed. *)
Rollback(d) ==
    /\ \E r \in 1..Len(assigned[d]) :
         LET source == assigned[d][r]
         IN AppendSet(d, source.apps, source.geometry, source.claims)
    /\ UNCHANGED <<shapes, revision, saved, window, request>>

-------------------------------------------------------------------------------
(* start_enrollment, stop_enrollment: the row first, the set later. *)

StartEnrollment(d) ==
    /\ request[<<d, "start">>] = IdleRequest
    /\ ~window[d].active
    /\ Latest(d).apps = "face_recognition"
    /\ window' = [window EXCEPT ![d] = [active |-> TRUE,
                                        prior |-> Latest(d).geometry]]
    /\ request' = [request EXCEPT ![<<d, "start">>] = [step |-> "commit", prior |-> {},
                                                   seen |-> Len(assigned[d])]]
    /\ overwritten' = IF Latest(d).geometry = Current THEN overwritten
                                                       ELSE overwritten \cup {d}
    /\ UNCHANGED <<shapes, revision, saved, assigned>>

(* Mutant: the configuration is kept where a saved shape does not reach it. *)
StopEnrollmentFromStart(d) ==
    /\ request[<<d, "stop">>] = IdleRequest
    /\ window[d].active
    /\ window' = [window EXCEPT ![d].active = FALSE]
    /\ request' = [request EXCEPT
                     ![<<d, "stop">>] = [step |-> "commit", seen |-> Len(assigned[d]),
                                     prior |-> Latest(d).geometry]]
    /\ UNCHANGED <<shapes, revision, saved, assigned, overwritten>>

StopEnrollment(d) ==
    /\ request[<<d, "stop">>] = IdleRequest
    /\ window[d].active
    /\ window' = [window EXCEPT ![d].active = FALSE]
    /\ request' = [request EXCEPT
                     ![<<d, "stop">>] = [step |-> "commit", seen |-> Len(assigned[d]),
                                     prior |-> window[d].prior]]
    /\ UNCHANGED <<shapes, revision, saved, assigned, overwritten>>

(* A stop that is not carried out leaves the camera as the window had it. *)
Abandoned(d, kind) ==
    IF kind = "stop" /\ request[<<d, kind>>].step # "idle"
         /\ ~UpToDate(Latest(d).geometry, Latest(d).claims)
      THEN {d} ELSE {}

(* A set committed between this request's preview and its commit, hence    *)
(* after its first transaction, makes it fail.                             *)
CommitEnrollment(d, kind) ==
    /\ request[<<d, kind>>].step = "commit"
    /\ AppendSet(d, IF kind = "start" THEN "face_enrollment" ELSE "face_recognition",
                 request[<<d, kind>>].prior, revision)
    /\ request' = [request EXCEPT ![<<d, kind>>] = IdleRequest]
    /\ UNCHANGED <<shapes, revision, saved, window>>

EnrollmentFails(d, kind) ==
    /\ request[<<d, kind>>].step = "commit"
    /\ request[<<d, kind>>].seen < Len(assigned[d])
    /\ overwritten' = overwritten \cup Abandoned(d, kind)
    /\ request' = [request EXCEPT ![<<d, kind>>] = IdleRequest]
    /\ UNCHANGED <<shapes, revision, saved, assigned, window>>

(* The API process ends with the requests it was serving. *)
Restart ==
    /\ \E t \in DOMAIN request : request[t] # IdleRequest
    /\ request' = [t \in DOMAIN request |-> IdleRequest]
    /\ overwritten' = overwritten \cup
                        UNION {Abandoned(d, "stop") : d \in Deployments}
    /\ UNCHANGED <<shapes, revision, saved, assigned, window>>

-------------------------------------------------------------------------------

GeometryNext ==
    \/ \E s \in Shapes :
         \/ \E name \in ZoneNames : CreateCameraZone(s, name)
         \/ \E key \in LineKeys : CreateCameraLine(s, key) \/ UpdateLine(s, key)
         \/ UpdateZone(s)
         \/ DeleteShape(s)
    \/ \E d \in Deployments :
         \/ CommitCatalogDeployment(d) \/ CloneDesired(d) \/ Rollback(d)
         \/ StartEnrollment(d) \/ StopEnrollment(d)
         \/ \E kind \in RequestKind :
              CommitEnrollment(d, kind) \/ EnrollmentFails(d, kind)
    \/ Restart

-------------------------------------------------------------------------------
(* Properties. *)

(* What becomes of the camera's configuration on this deployment. *)
KeptFor(d) ==
    IF window[d].active THEN {window[d].prior}
    ELSE {Latest(d).geometry} \cup
           (IF request[<<d, "stop">>] # IdleRequest THEN {request[<<d, "stop">>].prior}
                                                ELSE {})

(***************************************************************************)
(* A saved shape is on its way to every deployment with the camera: what   *)
(* the shapes compile to now is in the desired set or kept for the end of  *)
(* the enrollment that borrowed the camera, and no shape displaces another *)
(* one.  Excepted are the deployments that a commit took back to other     *)
(* shapes and that no saved change has reached since.                      *)
(***************************************************************************)
SavedShapesServed ==
    \A d \in Deployments \ overwritten :
      Serves(d) =>
        /\ Compile(shapes) \in KeptFor(d)
        /\ \A x, y \in Compile(shapes) : x.key = y.key => x = y

===============================================================================
