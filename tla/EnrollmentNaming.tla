---------------------------- MODULE EnrollmentNaming ----------------------------
(***************************************************************************)
(* From captured faces to a named person: naming_status of the enrollment  *)
(* sessions (src/tvt_edge/service.py, management database) against the     *)
(* staged captures and persons of src/apexfabric/control_plane/identity.py *)
(* (SQLite of the control plane).  The two are joined by HTTP calls only:  *)
(* a call may fail, its answer may be lost, and it may be executed after   *)
(* its caller has given up.                                                *)
(*                                                                         *)
(* Similarity of face vectors is a constant relation; the naming timeout   *)
(* and the age limit of captures are flags that a clock may raise.         *)
(***************************************************************************)
EXTENDS Integers, Sequences, FiniteSets

CONSTANTS
    Sessions,       \* enrollment sessions, with their captures
    Requests,       \* threads that serve name_enrollment_session
    Faces,
    Similar,        \* pairs of faces at or above match_threshold
    MaxCaptures,    \* captures that a session may stage
    None

ASSUME NamingAssumption ==
    /\ MaxCaptures \in Nat \ {0}
    /\ None \notin Sessions \cup Faces
    /\ Similar \subseteq Faces \X Faces
    /\ \A f \in Faces : <<f, f>> \in Similar
    /\ \A f, g \in Faces : <<f, g>> \in Similar => <<g, f>> \in Similar

VARIABLES
    rows,       \* enrollment_sessions, columns about the capture
    aged,       \* sessions whose captures exceed the age limit of captures
    staged,     \* enrollment_captures
    persons,    \* named persons in the order of their creation
    requests,   \* requests inside name_enrollment_session
    late,       \* enroll calls whose caller has given up
    discards    \* discard calls on their way

vars == <<rows, aged, staged, persons, requests, late, discards>>
apexVars == <<staged, persons>>

Captures == Sessions \X (1..MaxCaptures)

Capture == [state : {"unseen", "staged", "gone"},
            face  : Faces \cup {None},
            match : Nat]                \* matched_person_id, 0 for null

UnseenCapture == [state |-> "unseen", face |-> None, match |-> 0]
GoneCapture == [state |-> "gone", face |-> None, match |-> 0]

Row == [open    : BOOLEAN,              \* the session is capturing
        naming  : {"not_applicable", "pending_name", "named", "discarded"},
        ids     : SUBSET Captures,      \* capture_event_ids
        person  : Nat,                  \* person_id, 0 for null
        overdue : BOOLEAN]              \* naming timeout has passed

Person == [captures : SUBSET Captures, faces : SUBSET Faces]

Request == [step    : {"idle", "sent", "created", "duplicate", "unknown"},
            session : Sessions \cup {None},
            person  : Nat]

IdleRequest == [step |-> "idle", session |-> None, person |-> 0]

(***************************************************************************)
(* Rows, captures, persons and requests stay within their types.           *)
(***************************************************************************)
TypeOK ==
    /\ rows \in [Sessions -> Row]
    /\ aged \subseteq Sessions
    /\ staged \in [Captures -> Capture]
    /\ persons \in Seq(Person)
    /\ requests \in [Requests -> Request]
    /\ late \subseteq SUBSET Captures
    /\ discards \subseteq SUBSET Captures

Init ==
    /\ rows = [s \in Sessions |->
                 [open |-> TRUE, naming |-> "not_applicable", ids |-> {},
                  person |-> 0, overdue |-> FALSE]]
    /\ aged = {}
    /\ staged = [c \in Captures |-> UnseenCapture]
    /\ persons = <<>>
    /\ requests = [r \in Requests |-> IdleRequest]
    /\ late = {}
    /\ discards = {}

-------------------------------------------------------------------------------
(* The control plane.  Every operation runs under the telemetry lock.      *)

Present(c) == staged[c].state = "staged"

(* purge_expired_captures *)
Purged ==
    [c \in Captures |-> IF Present(c) /\ c[1] \in aged THEN GoneCapture
                        ELSE staged[c]]

Kept(c) == Purged[c].state = "staged"

(* _best_named_match at the threshold *)
MatchesOf(face) ==
    {p \in 1..Len(persons) : \E f \in persons[p].faces : <<face, f>> \in Similar}

(* An enrollment_capture_event is ingested, whatever its session does. *)
StageCapture(c, face) ==
    /\ staged[c].state = "unseen"
    /\ c[1] \notin aged
    /\ \E match \in IF MatchesOf(face) = {} THEN {0} ELSE MatchesOf(face) :
         staged' = [Purged EXCEPT ![c] = [state |-> "staged", face |-> face,
                                  match |-> match]]
    /\ UNCHANGED <<rows, aged, persons, requests, late, discards>>

UnknownCapture(ids) == \E c \in ids : ~Kept(c)

(* Mutant: the match found when the capture was staged still holds. *)
KnownPersonWhenStaged(ids) == \E c \in ids : staged[c].match # 0

KnownPerson(ids) == \E c \in ids : MatchesOf(staged[c].face) # {}

(* PersonStore.enroll: one transaction, a rejection undoes its purge too.  *)
Enroll(ids) ==
    IF UnknownCapture(ids) \/ KnownPerson(ids) THEN UNCHANGED apexVars
    ELSE /\ persons' = Append(persons, [captures |-> ids,
                                        faces |-> {staged[c].face : c \in ids}])
         /\ staged' = [c \in Captures |->
                         IF c \in ids THEN GoneCapture ELSE Purged[c]]

EnrollAnswer(ids) ==
    IF UnknownCapture(ids) THEN "unknown"
    ELSE IF KnownPerson(ids) THEN "duplicate" ELSE "created"

(* discard_captures *)
DiscardCaptures(ids) ==
    /\ ids \in discards
    /\ staged' = [c \in Captures |->
                    IF c \in ids /\ Present(c) THEN GoneCapture
                    ELSE staged[c]]
    /\ discards' = discards \ {ids}
    /\ UNCHANGED <<rows, aged, persons, requests, late>>

(* A discard is a best effort: nobody repeats it. *)
LoseDiscard(ids) ==
    /\ ids \in discards
    /\ discards' = discards \ {ids}
    /\ UNCHANGED <<rows, aged, apexVars, requests, late>>

-------------------------------------------------------------------------------
(* Capturing: _poll_enrollment_capture and cancel_enrollment_session. *)

CapturesOf(s) == {c \in Captures : c[1] = s}

Collect(s) ==
    LET accepted == {c \in CapturesOf(s) : Kept(c)}
        known == {c \in accepted : Purged[c].match # 0}
    IN  /\ rows[s].open
        /\ accepted # {}
        /\ staged' = Purged
        /\ IF known # {}
             THEN \E c \in known :
                    /\ rows' = [rows EXCEPT ![s].open = FALSE,
                                            ![s].person = Purged[c].match]
                    /\ discards' = discards \cup {accepted}
             ELSE /\ rows' = [rows EXCEPT ![s].open = FALSE,
                                          ![s].ids = accepted,
                                          ![s].naming = "pending_name"]
                  /\ UNCHANGED discards
        /\ UNCHANGED <<aged, persons, requests, late>>

CancelCapture(s) ==
    /\ rows[s].open
    /\ rows' = [rows EXCEPT ![s].open = FALSE]
    /\ discards' = discards \cup ({{c \in CapturesOf(s) : Present(c)}} \ {{}})
    /\ UNCHANGED <<aged, apexVars, requests, late>>

(* _time_out_enrollment_capture: no face was seen, or polls fail *)
TimeOutCapture(s) ==
    /\ rows[s].open
    /\ rows' = [rows EXCEPT ![s].open = FALSE]
    /\ UNCHANGED <<aged, apexVars, requests, late, discards>>

-------------------------------------------------------------------------------
(* name_enrollment_session. *)

NameCalls(r, s) ==
    /\ requests[r].step = "idle"
    /\ rows[s].naming = "pending_name"
    /\ rows[s].ids # {}
    /\ requests' = [requests EXCEPT ![r].step = "sent", ![r].session = s]
    /\ UNCHANGED <<rows, aged, apexVars, late, discards>>

ServeEnroll(r) ==
    LET ids == rows[requests[r].session].ids
    IN  /\ requests[r].step = "sent"
        /\ Enroll(ids)
        /\ requests' = [requests EXCEPT
                          ![r].step = EnrollAnswer(ids),
                          ![r].person = IF EnrollAnswer(ids) = "created"
                                          THEN Len(persons) + 1 ELSE 0]
        /\ UNCHANGED <<rows, aged, late, discards>>

ServeLate(ids) ==
    /\ ids \in late
    /\ Enroll(ids)
    /\ late' = late \ {ids}
    /\ UNCHANGED <<rows, aged, requests, discards>>

(* Timeout, lost answer or restart: the row is left as it is. *)
NameFails(r) ==
    /\ requests[r].step # "idle"
    /\ requests' = [requests EXCEPT ![r] = IdleRequest]
    /\ late' = IF requests[r].step = "sent"
                 THEN late \cup {rows[requests[r].session].ids} ELSE late
    /\ UNCHANGED <<rows, aged, apexVars, discards>>

Discard(s) == [rows EXCEPT ![s].naming = IF @ = "pending_name"
                                           THEN "discarded" ELSE @]

(* Mutant: the status is not read again. *)
NameRecordsLast(r) ==
    LET s == requests[r].session
    IN  /\ requests[r].step = "created"
        /\ rows' = [rows EXCEPT ![s].naming = "named",
                                ![s].person = requests[r].person]
        /\ requests' = [requests EXCEPT ![r] = IdleRequest]
        /\ UNCHANGED <<aged, apexVars, late, discards>>

NameRecords(r) ==
    LET s == requests[r].session
    IN  /\ requests[r].step = "created"
        /\ rows' = IF rows[s].naming = "pending_name"
                     THEN [rows EXCEPT ![s].naming = "named",
                                       ![s].person = requests[r].person]
                     ELSE rows
        /\ requests' = [requests EXCEPT ![r] = IdleRequest]
        /\ UNCHANGED <<aged, apexVars, late, discards>>

(* Mutant: consumed captures are taken for a name given before. *)
NameRejectedAsNamed(r) ==
    LET s == requests[r].session
    IN  /\ requests[r].step \in {"duplicate", "unknown"}
        /\ rows' = IF requests[r].step = "duplicate" THEN Discard(s)
                   ELSE [rows EXCEPT ![s].naming = IF @ = "pending_name"
                                                     THEN "named" ELSE @]
        /\ discards' = IF requests[r].step = "duplicate"
                         THEN discards \cup {rows[s].ids} ELSE discards
        /\ requests' = [requests EXCEPT ![r] = IdleRequest]
        /\ UNCHANGED <<aged, apexVars, late>>

NameRejected(r) ==
    LET s == requests[r].session
    IN  /\ requests[r].step \in {"duplicate", "unknown"}
        /\ rows' = Discard(s)
        /\ discards' = IF requests[r].step = "duplicate"
                         THEN discards \cup {rows[s].ids} ELSE discards
        /\ requests' = [requests EXCEPT ![r] = IdleRequest]
        /\ UNCHANGED <<aged, apexVars, late>>

(* cancel_enrollment_session after the capture *)
CancelNaming(s) ==
    /\ rows[s].naming = "pending_name"
    /\ rows' = Discard(s)
    /\ discards' = discards \cup {rows[s].ids}
    /\ UNCHANGED <<aged, apexVars, requests, late>>

(* Mutant: only sessions that still capture are swept. *)
ExpireOpen(s) ==
    /\ rows[s].open
    /\ rows[s].naming = "pending_name"
    /\ rows[s].overdue
    /\ rows' = Discard(s)
    /\ discards' = discards \cup {rows[s].ids}
    /\ UNCHANGED <<aged, apexVars, requests, late>>

(* _expire_unnamed_sessions *)
Expire(s) ==
    /\ rows[s].naming = "pending_name"
    /\ rows[s].overdue
    /\ rows' = Discard(s)
    /\ discards' = discards \cup {rows[s].ids}
    /\ UNCHANGED <<aged, apexVars, requests, late>>

NamingTimeout(s) ==
    /\ rows[s].naming = "pending_name"
    /\ ~rows[s].overdue
    /\ rows' = [rows EXCEPT ![s].overdue = TRUE]
    /\ UNCHANGED <<aged, apexVars, requests, late, discards>>

(* The age limit of captures is twice the naming timeout: it passes after  *)
(* that one, or while polls fail.                                          *)
CapturesAge(s) ==
    /\ s \notin aged
    /\ rows[s].naming = "pending_name" => rows[s].overdue
    /\ aged' = aged \cup {s}
    /\ UNCHANGED <<rows, apexVars, requests, late, discards>>

Next ==
    \/ \E c \in Captures, face \in Faces : StageCapture(c, face)
    \/ \E s \in Sessions :
         \/ Collect(s) \/ CancelCapture(s) \/ TimeOutCapture(s)
         \/ CancelNaming(s) \/ Expire(s) \/ NamingTimeout(s) \/ CapturesAge(s)
    \/ \E r \in Requests :
         \/ \E s \in Sessions : NameCalls(r, s)
         \/ ServeEnroll(r) \/ NameFails(r) \/ NameRecords(r) \/ NameRejected(r)
    \/ \E ids \in late : ServeLate(ids)
    \/ \E ids \in discards : DiscardCaptures(ids) \/ LoseDiscard(ids)

Spec == Init /\ [][Next]_vars

(* Clocks advance and the reconciler sweeps unnamed sessions every tick.   *)
Fairness ==
    \A s \in Sessions : /\ WF_vars(NamingTimeout(s))
                        /\ WF_vars(Expire(s))
                        /\ WF_vars(CapturesAge(s))

FairSpec == Spec /\ Fairness
-------------------------------------------------------------------------------
(* Properties. *)

(***************************************************************************)
(* A face that is already enrolled is refused: no two persons are similar, *)
(* whichever sessions, requests and late calls created them.               *)
(***************************************************************************)
NoTwoPersonsAlike ==
    \A p, q \in 1..Len(persons) :
      (\E f \in persons[p].faces, g \in persons[q].faces : <<f, g>> \in Similar)
        => p = q

(***************************************************************************)
(* A session that counts as named points at the person that was created    *)
(* from its own captures.                                                  *)
(***************************************************************************)
NamedHasPerson ==
    \A s \in Sessions :
      rows[s].naming = "named" =>
        /\ rows[s].person \in 1..Len(persons)
        /\ persons[rows[s].person].captures = rows[s].ids

(***************************************************************************)
(* A named session stays named and keeps its person, and a discarded one   *)
(* is never named by an answer that arrives later.                         *)
(***************************************************************************)
NamingIsFinal ==
    [][\A s \in Sessions :
         rows[s].naming \in {"named", "discarded"} =>
           /\ rows'[s].naming = rows[s].naming
           /\ rows'[s].person = rows[s].person]_vars

(***************************************************************************)
(* Nothing waits for a name for ever.                                      *)
(***************************************************************************)
NamingEnds ==
    \A s \in Sessions :
      rows[s].naming = "pending_name" ~> rows[s].naming \in {"named", "discarded"}

(***************************************************************************)
(* "Either way no person record is created": the captures of a discarded   *)
(* session belong to nobody.                                               *)
(***************************************************************************)
DiscardedHasNoPerson ==
    \A s \in Sessions, p \in 1..Len(persons) :
      rows[s].naming = "discarded" =>
        persons[p].captures \cap rows[s].ids = {}

(***************************************************************************)
(* "Staged captures also expire there on their own": the faces of a        *)
(* discarded session leave the control plane.                              *)
(***************************************************************************)
DiscardedFacesGone ==
    \A s \in Sessions :
      rows[s].naming = "discarded" ~> \A c \in rows[s].ids : ~Present(c)

===============================================================================
