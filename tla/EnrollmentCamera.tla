---------------------------- MODULE EnrollmentCamera ----------------------------
(***************************************************************************)
(* Face enrollment borrows a camera: src/tvt_edge/service.py, the          *)
(* operations on enrollment_sessions.  A session commits an assignment set *)
(* in which its camera runs face_enrollment, waits until it is applied,    *)
(* captures, commits a set with the prior settings and ends when that one  *)
(* is applied.  Requests, the reconciler of the API process and every      *)
(* other commit on the deployment interleave.                              *)
(*                                                                         *)
(* One deployment with one designated camera and one more camera ("peer")  *)
(* is modelled.  The sync worker appears only as DesiredState promises.    *)
(***************************************************************************)
EXTENDS Integers, Sequences

CONSTANTS
    Sessions,           \* enrollment_sessions rows that may be created
    None,
    Disturbances,       \* what else happens during a session, see below
    MaxDisturbances     \* bound on the number of such events

ResultCode == {"ok", "timed_out", "cancelled", "activation_failed"}

(***************************************************************************)
(* "edit": another camera is reassigned; "rotate": a commit that copies    *)
(* the desired set (credentials, lifecycle); "rollback": an older set is   *)
(* committed again; "geometry": the camera's geometry is saved;            *)
(* "restart": the API process ends; "overtake": a session is cancelled or  *)
(* times out while the request that starts it is still running.            *)
(***************************************************************************)
ASSUME EnrollmentAssumption ==
    /\ Sessions # {}
    /\ None \notin {"activate", "restore"} \X Sessions
    /\ None \notin Sessions \cup ResultCode
    /\ Disturbances \subseteq
         {"edit", "rotate", "rollback", "geometry", "restart", "overtake"}
    /\ MaxDisturbances \in Nat

VARIABLES
    sets,       \* deployment_assignment_sets in desired_revision order
    applied,    \* revision that the runtime runs
    geometry,   \* cameras.geometry_revision of the borrowed camera
    edits,      \* history: newest settings committed for the peer camera
    rows,       \* enrollment_sessions
    starts,     \* per session, the API request that started it
    tick,       \* the reconciler
    disturbed   \* number of disturbances so far

setVars == <<sets, applied, geometry, edits>>
vars == <<sets, applied, geometry, edits, rows, starts, tick, disturbed>>

Revision == Nat \ {0}

Key == {"activate", "restore"} \X Sessions

(* geometry is the geometry revision that the camera's config was built    *)
(* from, 0 for the empty config of face_enrollment.                        *)
AssignmentSet == [apps     : {"prior", "face_enrollment"},
                  geometry : Nat,
                  peer     : Nat,
                  key      : Key \cup {None}]

Active == {"activating", "capturing", "restoring"}
Terminal == {"completed", "timed_out", "cancelled", "failed"}

(* RESULT_CODE_TERMINAL_STATUS *)
TerminalStatus == [ok |-> "completed", timed_out |-> "timed_out",
                   cancelled |-> "cancelled", activation_failed |-> "failed"]

Row == [status      : {"none"} \cup Active \cup Terminal,
        result      : ResultCode \cup {None},
        prior       : Nat,      \* geometry of prior_config
        activation  : Nat,      \* activation_revision, 0 for null
        restoration : Nat,      \* restoration_revision, 0 for null
        overdue     : BOOLEAN]  \* its timeout or capture deadline has passed

(* A thread inside _apply_enrollment_target, or around it. *)
Thread == [step    : {"idle", "poll", "read", "preview", "commit", "record",
                      "fail"},
           session : Sessions \cup {None},
           prior   : Nat,       \* the geometry it is about to commit
           peer    : Nat,       \* the peer camera's settings as read
           seen    : Nat]       \* revision at preview, then of the commit

IdleThread ==
    [step |-> "idle", session |-> None, prior |-> 0, peer |-> 0, seen |-> 0]

(***************************************************************************)
(* Rows, threads and committed sets stay within their types, and nothing   *)
(* is applied that was not committed.                                      *)
(***************************************************************************)
TypeOK ==
    /\ sets \in Seq(AssignmentSet)
    /\ applied \in 1..Len(sets)
    /\ geometry \in Nat
    /\ edits \in Nat
    /\ rows \in [Sessions -> Row]
    /\ starts \in [Sessions -> Thread]
    /\ tick \in Thread
    /\ disturbed \in 0..MaxDisturbances

Init ==
    /\ sets = <<[apps |-> "prior", geometry |-> 0, peer |-> 0, key |-> None]>>
    /\ applied = 1
    /\ geometry = 0
    /\ edits = 0
    /\ rows = [s \in Sessions |->
                 [status |-> "none", result |-> None, prior |-> 0,
                  activation |-> 0, restoration |-> 0, overdue |-> FALSE]]
    /\ starts = [s \in Sessions |-> IdleThread]
    /\ tick = IdleThread
    /\ disturbed = 0

-------------------------------------------------------------------------------
(* Helpers. *)

Current == sets[Len(sets)]

IsActive(s) == rows[s].status \in Active

(* Mutant: any revision from the wanted one on will do. *)
IsRevisionAppliedOrNewer(r) == r # 0 /\ applied = Len(sets) /\ applied >= r

(* The sync row is in state applied, and at exactly this revision. *)
IsRevisionApplied(r) == r # 0 /\ applied = Len(sets) /\ applied = r

(* Mutant: a session is blocked by itself. *)
ConflictsEven(s, apps) ==
    apps # "face_enrollment" /\ \E o \in Sessions : IsActive(o)

(* _block_enrollment_conflicts: sessions other than s own the camera. *)
Conflicts(s, apps) ==
    apps # "face_enrollment" /\ \E o \in Sessions \ {s} : IsActive(o)

(* What a running _apply_enrollment_target does up to its commit. *)
ReadTarget(t) == [t EXCEPT !.step = "preview", !.peer = Current.peer]

PreviewTarget(t) == [t EXCEPT !.step = "commit", !.seen = Len(sets)]

(***************************************************************************)
(* commit_catalog_deployment returns the set of an earlier call with the   *)
(* same idempotency key, or adds one, or raises: the bundle contains the   *)
(* revision, so every commit since the preview makes it fail.              *)
(***************************************************************************)
Committed(key) == {r \in 1..Len(sets) : sets[r].key = key}

Accepted(t, s, apps) == t.seen = Len(sets) /\ ~Conflicts(s, apps)

Recorded(t, r) == [t EXCEPT !.step = "record", !.seen = r]

CommitTarget(t, key, apps) ==
    IF Committed(key) # {} THEN UNCHANGED sets
    ELSE /\ Accepted(t, key[2], apps)
         /\ sets' = Append(sets, [apps |-> apps, geometry |-> t.prior,
                                  peer |-> t.peer, key |-> key])

CommittedRevision(key) ==
    IF Committed(key) # {} THEN CHOOSE r \in Committed(key) : TRUE
    ELSE Len(sets) + 1

CommitRaises(t, key, apps) ==
    Committed(key) = {} /\ ~Accepted(t, key[2], apps)

ActivateKey(s) == <<"activate", s>>
RestoreKey(s) == <<"restore", s>>

Disturb(kind) ==
    /\ kind \in Disturbances
    /\ disturbed < MaxDisturbances
    /\ disturbed' = disturbed + 1

-------------------------------------------------------------------------------
(* start_enrollment_session. *)

StartSession(s) ==
    /\ rows[s].status = "none"
    /\ \A o \in Sessions : ~IsActive(o)
    /\ Current.apps # "face_enrollment"
    /\ rows' = [rows EXCEPT ![s].status = "activating",
                            ![s].prior = Current.geometry]
    /\ starts' = [starts EXCEPT ![s].step = "read", ![s].session = s]
    /\ UNCHANGED <<setVars, tick, disturbed>>

StartReads(s) ==
    /\ starts[s].step = "read"
    /\ starts' = [starts EXCEPT ![s] = ReadTarget(starts[s])]
    /\ UNCHANGED <<setVars, rows, tick, disturbed>>

StartPreviews(s) ==
    /\ starts[s].step = "preview"
    /\ starts' = [starts EXCEPT ![s] = PreviewTarget(starts[s])]
    /\ UNCHANGED <<setVars, rows, tick, disturbed>>

StartCommits(s) ==
    /\ starts[s].step = "commit"
    /\ CommitTarget(starts[s], ActivateKey(s), "face_enrollment")
    /\ starts' = [starts EXCEPT
                    ![s] = Recorded(@, CommittedRevision(ActivateKey(s)))]
    /\ UNCHANGED <<applied, geometry, edits, rows, tick, disturbed>>

StartRaises(s) ==
    /\ starts[s].step = "commit"
    /\ CommitRaises(starts[s], ActivateKey(s), "face_enrollment")
    /\ starts' = [starts EXCEPT ![s].step = "fail"]
    /\ UNCHANGED <<setVars, rows, tick, disturbed>>

StartRecords(s) ==
    /\ starts[s].step = "record"
    /\ rows' = IF rows[s].status = "activating"
                 THEN [rows EXCEPT ![s].activation = starts[s].seen]
                 ELSE rows
    /\ starts' = [starts EXCEPT ![s] = IdleThread]
    /\ UNCHANGED <<setVars, tick, disturbed>>

StartFails(s) ==
    /\ starts[s].step = "fail"
    /\ rows' = IF rows[s].status = "activating"
                 THEN [rows EXCEPT ![s].status = "failed",
                                   ![s].result = "activation_failed"]
                 ELSE rows
    /\ starts' = [starts EXCEPT ![s] = IdleThread]
    /\ UNCHANGED <<setVars, tick, disturbed>>

StartStep(s) ==
    \/ StartReads(s) \/ StartPreviews(s) \/ StartCommits(s) \/ StartRaises(s)
    \/ StartRecords(s) \/ StartFails(s)

(* The request that started the session may be overtaken. *)
Overtakes(s) == starts[s].step = "idle" \/ "overtake" \in Disturbances

(* cancel_enrollment_session while the camera is borrowed. *)
CancelSession(s) ==
    /\ rows[s].status \in {"activating", "capturing"}
    /\ Overtakes(s)
    /\ rows' = [rows EXCEPT ![s].status = "restoring",
                            ![s].result = "cancelled"]
    /\ UNCHANGED <<setVars, starts, tick, disturbed>>

-------------------------------------------------------------------------------
(* The reconciler: reconcile_enrollment_sessions. *)

Restoring(s) ==
    [IdleThread EXCEPT !.step = "read", !.session = s, !.prior = rows[s].prior]

BeginCapture(s) ==
    /\ tick.step = "idle"
    /\ rows[s].status = "activating"
    /\ IsRevisionApplied(rows[s].activation)
    /\ rows' = [rows EXCEPT ![s].status = "capturing", ![s].overdue = FALSE]
    /\ UNCHANGED <<setVars, starts, tick, disturbed>>

(* Mutant: nothing is restored when the activation timed out. *)
ActivationEnds(s) ==
    /\ tick.step = "idle"
    /\ rows[s].status = "activating"
    /\ ~IsRevisionApplied(rows[s].activation)
    /\ rows[s].overdue
    /\ rows' = [rows EXCEPT ![s].status = "failed",
                            ![s].result = "activation_failed"]
    /\ UNCHANGED <<setVars, starts, tick, disturbed>>

ActivationTimesOut(s) ==
    /\ tick.step = "idle"
    /\ rows[s].status = "activating"
    /\ ~IsRevisionApplied(rows[s].activation)
    /\ rows[s].overdue
    /\ rows' = [rows EXCEPT ![s].status = "restoring",
                            ![s].result = "activation_failed"]
    /\ tick' = Restoring(s)
    /\ UNCHANGED <<setVars, starts, disturbed>>

BeginPoll(s) ==
    /\ tick.step = "idle"
    /\ rows[s].status = "capturing"
    /\ tick' = [IdleThread EXCEPT !.step = "poll", !.session = s]
    /\ UNCHANGED <<setVars, rows, starts, disturbed>>

(* Too few faces and time is left, or the session was cancelled meanwhile. *)
PollNothing(s) ==
    /\ tick.step = "poll" /\ tick.session = s
    /\ rows[s].status # "capturing" \/ ~rows[s].overdue
    /\ tick' = IdleThread
    /\ UNCHANGED <<setVars, rows, starts, disturbed>>

(* Faces were captured (no result yet), or the deadline passed without any: *)
(* restore the camera.                                                      *)
PollEnds(s, result) ==
    /\ tick.step = "poll" /\ tick.session = s
    /\ rows[s].status = "capturing"
    /\ result = "timed_out" => rows[s].overdue
    /\ rows' = [rows EXCEPT ![s].status = "restoring", ![s].result = result]
    /\ tick' = Restoring(s)
    /\ UNCHANGED <<setVars, starts, disturbed>>

BeginRestore(s) ==
    /\ tick.step = "idle"
    /\ rows[s].status = "restoring"
    /\ rows[s].restoration = 0
    /\ tick' = Restoring(s)
    /\ UNCHANGED <<setVars, rows, starts, disturbed>>

TickReads ==
    /\ tick.step = "read"
    /\ tick' = ReadTarget(tick)
    /\ UNCHANGED <<setVars, rows, starts, disturbed>>

TickPreviews ==
    /\ tick.step = "preview"
    /\ tick' = PreviewTarget(tick)
    /\ UNCHANGED <<setVars, rows, starts, disturbed>>

TickCommits(s) ==
    /\ tick.step = "commit" /\ tick.session = s
    /\ CommitTarget(tick, RestoreKey(s), "prior")
    /\ tick' = Recorded(tick, CommittedRevision(RestoreKey(s)))
    /\ UNCHANGED <<applied, geometry, edits, rows, starts, disturbed>>

(* ENROLLMENT_RESTORE_DEGRADED: the next tick retries. *)
TickRaises(s) ==
    /\ tick.step = "commit" /\ tick.session = s
    /\ CommitRaises(tick, RestoreKey(s), "prior")
    /\ tick' = IdleThread
    /\ UNCHANGED <<setVars, rows, starts, disturbed>>

TickRecords(s) ==
    /\ tick.step = "record" /\ tick.session = s
    /\ rows' = IF rows[s].status = "restoring"
                 THEN [rows EXCEPT ![s].restoration = tick.seen]
                 ELSE rows
    /\ tick' = IdleThread
    /\ UNCHANGED <<setVars, starts, disturbed>>

(* Mutant: the restoring set needs only to be committed. *)
EndSessionUnapplied(s) ==
    /\ tick.step = "idle"
    /\ rows[s].status = "restoring"
    /\ rows[s].restoration # 0
    /\ LET result == IF rows[s].result = None THEN "ok" ELSE rows[s].result
       IN  rows' = [rows EXCEPT ![s].result = result,
                                ![s].status = TerminalStatus[result]]
    /\ UNCHANGED <<setVars, starts, tick, disturbed>>

EndSession(s) ==
    /\ tick.step = "idle"
    /\ rows[s].status = "restoring"
    /\ IsRevisionApplied(rows[s].restoration)
    /\ LET result == IF rows[s].result = None THEN "ok" ELSE rows[s].result
       IN  rows' = [rows EXCEPT ![s].result = result,
                                ![s].status = TerminalStatus[result]]
    /\ UNCHANGED <<setVars, starts, tick, disturbed>>

TickStep ==
    \/ TickReads \/ TickPreviews
    \/ \E s \in Sessions :
         \/ BeginCapture(s) \/ ActivationTimesOut(s) \/ BeginPoll(s)
         \/ PollNothing(s) \/ BeginRestore(s)
         \/ \E result \in {None, "timed_out"} : PollEnds(s, result)
         \/ TickCommits(s) \/ TickRaises(s) \/ TickRecords(s) \/ EndSession(s)

-------------------------------------------------------------------------------
(* The rest of the system. *)

(* The sync worker, as specified by DesiredState; no image changes here. *)
Sync == INSTANCE DesiredState
          WITH desired <- Len(sets),
               phase   <- IF applied = Len(sets) THEN "settled"
                          ELSE "converging"

Synchronize ==
    /\ UNCHANGED <<sets, geometry, edits, rows, starts, tick, disturbed>>
    /\ Sync!RecordApplied

Clock(s) ==
    /\ \/ rows[s].status = "capturing"
       \/ rows[s].status = "activating" /\ Overtakes(s)
    /\ ~rows[s].overdue
    /\ rows' = [rows EXCEPT ![s].overdue = TRUE]
    /\ UNCHANGED <<setVars, starts, tick, disturbed>>

(* commit_catalog_deployment for an operator who changes the peer camera. *)
EditPeer ==
    /\ Disturb("edit")
    /\ ~Conflicts(None, Current.apps)
    /\ edits' = edits + 1
    /\ sets' = Append(sets, [Current EXCEPT !.peer = edits + 1, !.key = None])
    /\ UNCHANGED <<applied, geometry, rows, starts, tick>>

(* rotate_credentials, set_lifecycle *)
CopyDesired ==
    /\ Disturb("rotate")
    /\ sets' = Append(sets, [Current EXCEPT !.key = None])
    /\ UNCHANGED <<applied, geometry, edits, rows, starts, tick>>

Rollback(r) ==
    /\ Disturb("rollback")
    /\ sets' = Append(sets, [sets[r] EXCEPT !.key = None])
    /\ UNCHANGED <<applied, geometry, edits, rows, starts, tick>>

(***************************************************************************)
(* A saved geometry goes into the prior_config of active sessions.  It is  *)
(* committed at once unless a session has the camera, and the commit then  *)
(* counts as the restoration of the sessions that are already restoring.   *)
(***************************************************************************)
SaveGeometry ==
    LET merged(s) ==
          IF ~IsActive(s) THEN rows[s]
          ELSE [rows[s] EXCEPT !.prior = geometry + 1]
        deferred == \E s \in Sessions :
                      rows[s].status \in {"activating", "capturing"}
    IN  /\ Disturb("geometry")
        /\ geometry' = geometry + 1
        /\ IF deferred
             THEN /\ rows' = [s \in Sessions |-> merged(s)]
                  /\ UNCHANGED sets
             ELSE /\ rows' = [s \in Sessions |->
                       IF IsActive(s)
                         THEN [merged(s) EXCEPT !.restoration = Len(sets) + 1]
                         ELSE merged(s)]
                  /\ sets' = Append(sets, [Current EXCEPT
                                             !.geometry = geometry + 1,
                                             !.key = None])
        /\ UNCHANGED <<applied, edits, starts, tick>>

(* The API process ends; its requests and its reconciler are gone. *)
Restart ==
    /\ Disturb("restart")
    /\ starts' = [s \in Sessions |-> IdleThread]
    /\ tick' = IdleThread
    /\ UNCHANGED <<setVars, rows>>

Next ==
    \/ \E s \in Sessions :
         StartSession(s) \/ StartStep(s) \/ CancelSession(s) \/ Clock(s)
    \/ TickStep
    \/ Synchronize
    \/ EditPeer
    \/ CopyDesired
    \/ \E r \in 1..Len(sets) : Rollback(r)
    \/ SaveGeometry
    \/ Restart

Spec == Init /\ [][Next]_vars

(***************************************************************************)
(* Requests run to their end, the reconciler ticks every two seconds, the  *)
(* sync worker converges and clocks advance.                               *)
(***************************************************************************)
Fairness ==
    /\ \A s \in Sessions : WF_vars(StartStep(s)) /\ WF_vars(Clock(s))
    /\ WF_vars(TickStep)
    /\ WF_vars(Synchronize)

FairSpec == Spec /\ Fairness
-------------------------------------------------------------------------------
(* Properties. *)

Idle == /\ \A s \in Sessions : ~IsActive(s) /\ starts[s].step = "idle"
        /\ tick.step = "idle"

(***************************************************************************)
(* Capturing begins only when the runtime runs face_enrollment and nothing *)
(* newer is waiting, whatever was committed since the activation.          *)
(***************************************************************************)
CapturesInEnrollment ==
    [][\A s \in Sessions :
         rows[s].status # "capturing" /\ rows'[s].status = "capturing" =>
           applied = Len(sets) /\ sets[applied].apps = "face_enrollment"]_vars

(***************************************************************************)
(* "a session reaches its terminal status once the camera is confirmed     *)
(* restored": the runtime then runs the prior applications.                *)
(***************************************************************************)
RestoredOnTerminal ==
    [][\A s \in Sessions :
         rows[s].status = "restoring" /\ rows'[s].status \in Terminal =>
           applied = Len(sets) /\ sets[applied].apps = "prior"]_vars

(***************************************************************************)
(* "restore the camera's prior apps/config/fps -- server-side, independent *)
(* of the browser": with no session left the camera is not in enrollment.  *)
(***************************************************************************)
CameraReturned == Idle => Current.apps = "prior"

(***************************************************************************)
(* "geometry mutations update the durable restoration configuration": a    *)
(* returned camera has the geometry that was saved last.                   *)
(***************************************************************************)
GeometryKept ==
    Idle /\ Current.apps = "prior" => Current.geometry = geometry

(***************************************************************************)
(* A session replays the current assignments "with one camera's apps       *)
(* swapped": what was committed for the other camera stays committed.      *)
(***************************************************************************)
PeerKept == Current.peer = edits

(***************************************************************************)
(* Every session comes to an end, through cancellation, timeouts and       *)
(* restarts of the API process.                                            *)
(***************************************************************************)
SessionEnds ==
    \A s \in Sessions :
      rows[s].status = "activating" ~> rows[s].status \in Terminal

===============================================================================
