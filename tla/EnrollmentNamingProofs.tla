------------------------- MODULE EnrollmentNamingProofs -------------------------
(***************************************************************************)
(* Persons stay apart, named sessions own theirs and keep their names, for *)
(* every number of sessions, requests and captures and every similarity of *)
(* faces.                                                                  *)
(***************************************************************************)
EXTENDS EnrollmentNaming, TLAPS

(* A staged capture has a face. *)
StagedInv == \A c \in Captures : Present(c) => staged[c].face \in Faces

(* A row that may be named has its captures. *)
RowInv == \A s \in Sessions : rows[s].open => rows[s].naming = "not_applicable"

(* A request serves a session whose captures are settled, and the answer   *)
(* that it carries names a person made of them.                            *)
RequestInv ==
    \A r \in Requests :
      /\ requests[r].step # "idle" =>
           /\ requests[r].session \in Sessions
           /\ rows[requests[r].session].naming # "not_applicable"
      /\ requests[r].step = "created" =>
           /\ requests[r].person \in 1..Len(persons)
           /\ persons[requests[r].person].captures =
                rows[requests[r].session].ids

NamingInv ==
    TypeOK /\ StagedInv /\ RowInv /\ RequestInv /\ NamedHasPerson
    /\ NoTwoPersonsAlike

-------------------------------------------------------------------------------
(* The control plane's steps. *)

(* purge_expired_captures only removes. *)
LEMMA PurgedType ==
    ASSUME TypeOK, StagedInv
    PROVE  /\ Purged \in [Captures -> Capture]
           /\ \A c \in Captures :
                /\ Kept(c) => staged[c].face \in Faces /\ Purged[c] = staged[c]
                /\ Purged[c].state = "staged" => Purged[c].face \in Faces
<1>1. staged \in [Captures -> Capture] /\ GoneCapture \in Capture
      /\ GoneCapture.state # "staged"
  BY DEF TypeOK, GoneCapture, Capture
<1>2. \A c \in Captures : Purged[c] = staged[c] \/ Purged[c] = GoneCapture
  BY DEF Purged
<1>3. Purged = [c \in Captures |-> Purged[c]]
  BY DEF Purged
<1>. QED
  BY <1>1, <1>2, <1>3 DEF Kept, StagedInv, Present

(***************************************************************************)
(* PersonStore.enroll leaves earlier persons alone; the person it adds is  *)
(* like none of them and is made of the captures it was asked for.         *)
(***************************************************************************)
LEMMA EnrollKeeps ==
    ASSUME NamingInv, NEW ids \in SUBSET Captures, Enroll(ids)
    PROVE  /\ staged' \in [Captures -> Capture] /\ StagedInv'
           /\ persons' \in Seq(Person) /\ NoTwoPersonsAlike'
           /\ \A p \in 1..Len(persons) :
                p \in 1..Len(persons') /\ persons'[p] = persons[p]
           /\ EnrollAnswer(ids) = "created" =>
                /\ Len(persons) + 1 \in 1..Len(persons')
                /\ persons'[Len(persons) + 1].captures = ids
<1>. USE DEF NamingInv
<1>0. staged \in [Captures -> Capture] /\ persons \in Seq(Person)
      /\ Len(persons) \in Nat
  BY DEF TypeOK
<1>1. CASE UnknownCapture(ids) \/ KnownPerson(ids)
  <2>1. UNCHANGED <<staged, persons>> /\ EnrollAnswer(ids) # "created"
    BY <1>1 DEF Enroll, EnrollAnswer, apexVars
  <2>. QED
    <3>1. StagedInv'
      BY <2>1 DEF StagedInv, Present
    <3>2. NoTwoPersonsAlike'
      BY <2>1 DEF NoTwoPersonsAlike
    <3>. QED
      BY <1>0, <2>1, <3>1, <3>2
<1>2. CASE ~UnknownCapture(ids) /\ ~KnownPerson(ids)
  <2>. DEFINE new == [captures |-> ids, faces |-> {staged[c].face : c \in ids}]
  <2>1. /\ persons' = Append(persons, new)
        /\ staged' = [c \in Captures |->
                        IF c \in ids THEN GoneCapture ELSE Purged[c]]
    BY <1>2 DEF Enroll
  <2>2. \A c \in ids : staged[c].face \in Faces
    BY <1>2, PurgedType DEF UnknownCapture
  <2>3. new \in Person
    BY <2>2 DEF Person
  <2>4. \A p \in 1..Len(persons), c \in ids : \A f \in persons[p].faces :
          <<staged[c].face, f>> \notin Similar
    BY <1>2 DEF KnownPerson, MatchesOf
  <2>5. staged' \in [Captures -> Capture] /\ StagedInv'
    <3>1. GoneCapture \in Capture /\ GoneCapture.state # "staged"
      BY DEF GoneCapture, Capture
    <3>. QED
      BY <2>1, <3>1, PurgedType DEF StagedInv, Present
  <2>6. new.captures = ids /\ \A g \in new.faces : \E c \in ids : g = staged[c].face
    OBVIOUS
  <2>. HIDE DEF new
  <2>7. /\ persons' \in Seq(Person) /\ Len(persons') = Len(persons) + 1
        /\ persons'[Len(persons) + 1] = new
        /\ \A p \in 1..Len(persons) :
             p \in 1..Len(persons') /\ persons'[p] = persons[p]
    BY <1>0, <2>1, <2>3
  <2>8. NoTwoPersonsAlike'
    <3>. SUFFICES ASSUME NEW p \in 1..Len(persons'), NEW q \in 1..Len(persons'),
                         NEW f \in persons'[p].faces, NEW g \in persons'[q].faces,
                         <<f, g>> \in Similar
                  PROVE  p = q
      BY DEF NoTwoPersonsAlike
    <3>1. persons'[p] \in Person /\ persons'[q] \in Person
      BY <2>7
    <3>2. <<g, f>> \in Similar
      BY <3>1, NamingAssumption DEF Person
    <3>3. CASE p \in 1..Len(persons) /\ q \in 1..Len(persons)
      BY <2>7, <3>3 DEF NoTwoPersonsAlike
    <3>4. CASE p = Len(persons) + 1 /\ q \in 1..Len(persons)
      BY <2>4, <2>6, <2>7, <3>4
    <3>5. CASE q = Len(persons) + 1 /\ p \in 1..Len(persons)
      BY <2>4, <2>6, <2>7, <3>2, <3>5
    <3>. QED
      BY <1>0, <2>7, <3>3, <3>4, <3>5
  <2>. QED
    BY <1>0, <2>5, <2>6, <2>7, <2>8
<1>. QED
  BY <1>1, <1>2

(* What rows and requests say holds on while persons are only added. *)
LEMMA PersonsAdded ==
    ASSUME NamingInv, UNCHANGED rows,
           \A p \in 1..Len(persons) :
             p \in 1..Len(persons') /\ persons'[p] = persons[p]
    PROVE  /\ NamedHasPerson'
           /\ \A r \in Requests : requests'[r] = requests[r] =>
                /\ requests'[r].step # "idle" =>
                     /\ requests'[r].session \in Sessions
                     /\ rows'[requests'[r].session].naming # "not_applicable"
                /\ requests'[r].step = "created" =>
                     /\ requests'[r].person \in 1..Len(persons')
                     /\ persons'[requests'[r].person].captures =
                          rows'[requests'[r].session].ids
  BY DEF NamingInv, NamedHasPerson, RequestInv

-------------------------------------------------------------------------------
(* The invariant. *)

LEMMA InitNaming == Init => NamingInv
<1>. SUFFICES ASSUME Init PROVE NamingInv
  OBVIOUS
<1>1. rows \in [Sessions -> Row] /\ staged \in [Captures -> Capture]
      /\ requests \in [Requests -> Request]
  BY DEF Init, Row, Capture, UnseenCapture, Request, IdleRequest
<1>2. TypeOK
  BY <1>1 DEF Init, TypeOK
<1>3. StagedInv /\ RowInv /\ RequestInv
  BY DEF Init, StagedInv, Present, UnseenCapture, RowInv, RequestInv, IdleRequest
<1>4. NamedHasPerson /\ NoTwoPersonsAlike
  BY DEF Init, NamedHasPerson, NoTwoPersonsAlike
<1>. QED
  BY <1>2, <1>3, <1>4 DEF NamingInv

(* Steps of the control plane that create no person. *)
LEMMA CaptureSteps ==
    ASSUME NamingInv,
           \/ \E c \in Captures, face \in Faces : StageCapture(c, face)
           \/ \E ids \in discards : DiscardCaptures(ids) \/ LoseDiscard(ids)
    PROVE  NamingInv'
<1>. USE DEF NamingInv
<1>1. /\ UNCHANGED <<rows, aged, persons, requests, late>>
      /\ discards' \subseteq SUBSET Captures
  BY DEF StageCapture, DiscardCaptures, LoseDiscard, apexVars, TypeOK
<1>2. staged' \in [Captures -> Capture] /\ StagedInv'
  <2>1. ASSUME NEW c \in Captures, NEW face \in Faces, StageCapture(c, face)
        PROVE  staged' \in [Captures -> Capture] /\ StagedInv'
    <3>1. \A m \in MatchesOf(face) : m \in Nat
      BY DEF MatchesOf, TypeOK
    <3>2. PICK match \in Nat :
            staged' = [Purged EXCEPT ![c] = [state |-> "staged", face |-> face,
                                             match |-> match]]
      BY <2>1, <3>1 DEF StageCapture
    <3>3. [state |-> "staged", face |-> face, match |-> match] \in Capture
      BY DEF Capture
    <3>. QED
      BY <3>2, <3>3, PurgedType DEF StagedInv, Present
  <2>2. ASSUME NEW ids \in discards, DiscardCaptures(ids)
        PROVE  staged' \in [Captures -> Capture] /\ StagedInv'
    <3>1. GoneCapture \in Capture /\ GoneCapture.state # "staged"
      BY DEF GoneCapture, Capture
    <3>. QED
      BY <2>2, <3>1 DEF DiscardCaptures, TypeOK, StagedInv, Present
  <2>3. ASSUME NEW ids \in discards, LoseDiscard(ids)
        PROVE  staged' \in [Captures -> Capture] /\ StagedInv'
    BY <2>3 DEF LoseDiscard, apexVars, TypeOK, StagedInv, Present
  <2>. QED
    BY <2>1, <2>2, <2>3
<1>3. TypeOK'
  BY <1>1, <1>2 DEF TypeOK
<1>4. RowInv' /\ RequestInv'
  BY <1>1 DEF RowInv, RequestInv
<1>5. NamedHasPerson'
  BY <1>1 DEF NamedHasPerson
<1>6. NoTwoPersonsAlike'
  BY <1>1 DEF NoTwoPersonsAlike
<1>. QED
  BY <1>2, <1>3, <1>4, <1>5, <1>6

(***************************************************************************)
(* Rows close, wait for a name and are named or discarded, in this order,  *)
(* and requests end: nothing that was said of the others is lost.          *)
(***************************************************************************)
LEMMA RowsMove ==
    ASSUME NamingInv, UNCHANGED persons,
           \A s \in Sessions :
             /\ rows'[s].open => rows[s].open /\ rows'[s] = rows[s]
             /\ rows[s].naming # "not_applicable" =>
                  /\ rows'[s].naming # "not_applicable"
                  /\ rows'[s].ids = rows[s].ids
             /\ rows'[s].naming = "named" =>
                  \/ rows[s].naming = "named" /\ rows'[s].person = rows[s].person
                  \/ /\ rows'[s].person \in 1..Len(persons)
                     /\ persons[rows'[s].person].captures = rows'[s].ids,
           \A r \in Requests :
             requests'[r].step # "idle" => requests'[r] = requests[r]
    PROVE  RowInv' /\ RequestInv' /\ NamedHasPerson' /\ NoTwoPersonsAlike'
<1>. USE DEF NamingInv
<1>1. RowInv'
  BY DEF RowInv
<1>2. RequestInv'
  BY DEF RequestInv
<1>3. NamedHasPerson'
  BY DEF NamedHasPerson
<1>4. NoTwoPersonsAlike'
  BY DEF NoTwoPersonsAlike
<1>. QED
  BY <1>1, <1>2, <1>3, <1>4

(* Steps of a session outside name_enrollment_session. *)
LEMMA SessionSteps ==
    ASSUME NamingInv, NEW s \in Sessions,
           \/ Collect(s) \/ CancelCapture(s) \/ TimeOutCapture(s)
           \/ CancelNaming(s) \/ Expire(s) \/ NamingTimeout(s) \/ CapturesAge(s)
    PROVE  NamingInv'
<1>. USE DEF NamingInv
<1>1. UNCHANGED <<persons, requests, late>> /\ aged' \subseteq Sessions
  BY DEF Collect, CancelCapture, TimeOutCapture, CancelNaming, Expire,
         NamingTimeout, CapturesAge, apexVars, TypeOK
<1>2. rows \in [Sessions -> Row] /\ rows[s] \in Row
      /\ staged \in [Captures -> Capture] /\ discards \subseteq SUBSET Captures
  BY DEF TypeOK
<1>3. staged' \in [Captures -> Capture] /\ StagedInv'
  <2>1. CASE Collect(s)
    BY <2>1, PurgedType DEF Collect, StagedInv, Present
  <2>2. CASE UNCHANGED staged
    BY <1>2, <2>2 DEF StagedInv, Present
  <2>. QED
    BY <2>1, <2>2 DEF CancelCapture, TimeOutCapture, CancelNaming, Expire,
                      NamingTimeout, CapturesAge, apexVars
<1>4. discards' \subseteq SUBSET Captures
  <2>1. CapturesOf(s) \subseteq Captures
    BY DEF CapturesOf
  <2>2. CASE Collect(s)
    <3>1. {c \in CapturesOf(s) : Kept(c)} \in SUBSET Captures
      BY <2>1
    <3>. QED
      BY <1>2, <2>2, <3>1 DEF Collect
  <2>4. CASE CancelCapture(s)
    <3>1. {c \in CapturesOf(s) : Present(c)} \in SUBSET Captures
      BY <2>1
    <3>. QED
      BY <1>2, <2>4, <3>1 DEF CancelCapture
  <2>3. CASE CancelNaming(s) \/ Expire(s)
    BY <1>2, <2>3 DEF CancelNaming, Expire, Row
  <2>. QED
    BY <1>2, <2>2, <2>3, <2>4 DEF TimeOutCapture, NamingTimeout, CapturesAge
<1>5. rows' \in [Sessions -> Row]
      /\ \A o \in Sessions :
           /\ rows'[o].open => rows[o].open /\ rows'[o] = rows[o]
           /\ rows[o].naming # "not_applicable" =>
                /\ rows'[o].naming # "not_applicable"
                /\ rows'[o].ids = rows[o].ids
           /\ rows'[o].naming = "named" =>
                rows[o].naming = "named" /\ rows'[o].person = rows[o].person
  <2>. DEFINE Moves == rows' \in [Sessions -> Row]
      /\ \A o \in Sessions :
           /\ rows'[o].open => rows[o].open /\ rows'[o] = rows[o]
           /\ rows[o].naming # "not_applicable" =>
                /\ rows'[o].naming # "not_applicable"
                /\ rows'[o].ids = rows[o].ids
           /\ rows'[o].naming = "named" =>
                rows[o].naming = "named" /\ rows'[o].person = rows[o].person
  <2>0. rows[s].open => rows[s].naming = "not_applicable"
    BY DEF RowInv
  <2>1. ASSUME NEW row \in Row, rows' = [rows EXCEPT ![s] = row], ~row.open,
               \/ rows[s].open /\ row.naming # "named"
               \/ rows[s].naming = "pending_name" /\ row.ids = rows[s].ids
                  /\ row.naming \in {"pending_name", "discarded"}
        PROVE  Moves
    BY <1>2, <2>0, <2>1
  <2>2. CASE Collect(s)
    <3>1. CapturesOf(s) \subseteq Captures
      BY DEF CapturesOf
    <3>2. \A c \in Captures : Purged[c].match \in Nat
      BY PurgedType DEF Capture
    <3>. DEFINE accepted == {c \in CapturesOf(s) : Kept(c)}
                matched(m) == [rows[s] EXCEPT !.open = FALSE, !.person = m]
                waiting == [rows[s] EXCEPT !.open = FALSE, !.ids = accepted,
                                           !.naming = "pending_name"]
    <3>3. waiting \in Row /\ ~waiting.open /\ waiting.naming # "named"
      BY <1>2, <3>1 DEF Row
    <3>4. \A m \in Nat : matched(m) \in Row /\ ~matched(m).open
                         /\ matched(m).naming # "named"
      BY <1>2, <2>0, <2>2 DEF Row, Collect
    <3>5. \/ \E c \in Captures :
               rows' = [rows EXCEPT ![s] = matched(Purged[c].match)]
          \/ rows' = [rows EXCEPT ![s] = waiting]
      BY <1>2, <2>2, <3>1 DEF Collect
    <3>6. rows[s].open
      BY <2>2 DEF Collect
    <3>. HIDE DEF matched, waiting
    <3>. QED
      BY <2>1, <3>2, <3>3, <3>4, <3>5, <3>6
  <2>3. CASE CancelCapture(s) \/ TimeOutCapture(s)
    <3>. DEFINE row == [rows[s] EXCEPT !.open = FALSE]
    <3>1. row \in Row /\ rows' = [rows EXCEPT ![s] = row] /\ ~row.open
          /\ rows[s].open /\ row.naming # "named"
      BY <1>2, <2>0, <2>3 DEF CancelCapture, TimeOutCapture, Row
    <3>. QED
      BY <2>1, <3>1
  <2>4. CASE CancelNaming(s) \/ Expire(s)
    <3>. DEFINE row == [rows[s] EXCEPT !.naming = "discarded"]
    <3>1. row \in Row /\ rows' = [rows EXCEPT ![s] = row] /\ ~row.open
          /\ rows[s].naming = "pending_name" /\ row.ids = rows[s].ids
          /\ row.naming = "discarded"
      BY <1>2, <2>0, <2>4 DEF CancelNaming, Expire, Discard, Row
    <3>. QED
      BY <2>1, <3>1
  <2>5. CASE NamingTimeout(s)
    <3>. DEFINE row == [rows[s] EXCEPT !.overdue = TRUE]
    <3>1. row \in Row /\ rows' = [rows EXCEPT ![s] = row] /\ ~row.open
          /\ rows[s].naming = "pending_name" /\ row.ids = rows[s].ids
          /\ row.naming = "pending_name"
      BY <1>2, <2>0, <2>5 DEF NamingTimeout, Row
    <3>. QED
      BY <2>1, <3>1
  <2>6. CASE CapturesAge(s)
    BY <1>2, <2>6 DEF CapturesAge
  <2>. QED
    BY <2>2, <2>3, <2>4, <2>5, <2>6
<1>6. TypeOK'
  BY <1>1, <1>3, <1>4, <1>5 DEF TypeOK
<1>7. RowInv' /\ RequestInv' /\ NamedHasPerson' /\ NoTwoPersonsAlike'
  BY <1>1, <1>5, RowsMove
<1>. QED
  BY <1>3, <1>6, <1>7

(* A request calls the control plane, or its call is executed. *)
LEMMA CallSteps ==
    ASSUME NamingInv,
           \/ \E r \in Requests, s \in Sessions : NameCalls(r, s)
           \/ \E r \in Requests : ServeEnroll(r)
           \/ \E ids \in late : ServeLate(ids)
    PROVE  NamingInv'
<1>. USE DEF NamingInv
<1>1. requests \in [Requests -> Request] /\ rows \in [Sessions -> Row]
      /\ Len(persons) \in Nat /\ late \subseteq SUBSET Captures
  BY DEF TypeOK
<1>2. ASSUME NEW r \in Requests, NEW s \in Sessions, NameCalls(r, s)
      PROVE  NamingInv'
  <2>1. /\ UNCHANGED <<rows, aged, staged, persons, late, discards>>
        /\ requests' = [requests EXCEPT ![r].step = "sent", ![r].session = s]
        /\ rows[s].naming = "pending_name"
    BY <1>2 DEF NameCalls, apexVars
  <2>2. requests' \in [Requests -> Request]
    BY <1>1, <2>1 DEF Request
  <2>3. RequestInv'
    BY <1>1, <2>1 DEF RequestInv, Request
  <2>4. TypeOK'
    BY <2>1, <2>2 DEF TypeOK
  <2>5. StagedInv' /\ RowInv' /\ NamedHasPerson'
    BY <2>1 DEF StagedInv, Present, RowInv, NamedHasPerson
  <2>6. NoTwoPersonsAlike'
    BY <2>1 DEF NoTwoPersonsAlike
  <2>. QED
    BY <2>3, <2>4, <2>5, <2>6
<1>3. ASSUME NEW r \in Requests, ServeEnroll(r)
      PROVE  NamingInv'
  <2>. DEFINE s == requests[r].session
              ids == rows[s].ids
  <2>1. /\ requests[r].step = "sent" /\ Enroll(ids)
        /\ UNCHANGED <<rows, aged, late, discards>>
        /\ requests' = [requests EXCEPT
                          ![r].step = EnrollAnswer(ids),
                          ![r].person = IF EnrollAnswer(ids) = "created"
                                          THEN Len(persons) + 1 ELSE 0]
    BY <1>3 DEF ServeEnroll
  <2>2. s \in Sessions /\ rows[s].naming # "not_applicable"
        /\ ids \in SUBSET Captures
    BY <1>1, <2>1 DEF RequestInv, Row
  <2>3. /\ staged' \in [Captures -> Capture] /\ StagedInv'
        /\ persons' \in Seq(Person) /\ NoTwoPersonsAlike'
        /\ \A p \in 1..Len(persons) :
             p \in 1..Len(persons') /\ persons'[p] = persons[p]
        /\ EnrollAnswer(ids) = "created" =>
             /\ Len(persons) + 1 \in 1..Len(persons')
             /\ persons'[Len(persons) + 1].captures = ids
    BY <2>1, <2>2, EnrollKeeps
  <2>4. EnrollAnswer(ids) \in {"unknown", "duplicate", "created"}
    BY DEF EnrollAnswer
  <2>5. /\ requests' \in [Requests -> Request]
        /\ requests'[r].session = s
        /\ requests'[r].step = EnrollAnswer(ids)
        /\ EnrollAnswer(ids) = "created" =>
             requests'[r].person = Len(persons) + 1
        /\ \A q \in Requests \ {r} : requests'[q] = requests[q]
    <3>1. PICK answer, n :
            /\ answer = EnrollAnswer(ids)
            /\ n = IF EnrollAnswer(ids) = "created" THEN Len(persons) + 1 ELSE 0
      OBVIOUS
    <3>. DEFINE new == [requests[r] EXCEPT !.step = answer, !.person = n]
    <3>2. n \in Nat /\ answer \in {"unknown", "duplicate", "created"}
      BY <1>1, <2>4, <3>1
    <3>3. requests' = [requests EXCEPT ![r] = new]
      BY <1>1, <2>1, <3>1
    <3>4. new \in Request /\ new.session = s /\ new.step = answer /\ new.person = n
      BY <1>1, <3>2 DEF Request
    <3>. HIDE DEF new
    <3>. QED
      BY <1>1, <3>1, <3>3, <3>4
  <2>6. TypeOK'
    BY <2>1, <2>3, <2>5 DEF TypeOK
  <2>7. RowInv'
    BY <2>1 DEF RowInv
  <2>8. RequestInv'
    <3>. SUFFICES ASSUME NEW q \in Requests
                  PROVE  /\ requests'[q].step # "idle" =>
                              /\ requests'[q].session \in Sessions
                              /\ rows'[requests'[q].session].naming
                                   # "not_applicable"
                         /\ requests'[q].step = "created" =>
                              /\ requests'[q].person \in 1..Len(persons')
                              /\ persons'[requests'[q].person].captures =
                                   rows'[requests'[q].session].ids
      BY DEF RequestInv
    <3>1. CASE q = r
      <4>. HIDE DEF s, ids
      <4>1. rows'[s].ids = ids
        BY <2>1 DEF ids
      <4>. QED
        BY <2>1, <2>2, <2>3, <2>5, <3>1, <4>1
    <3>2. CASE q # r
      BY <2>1, <2>3, <2>5, <3>2, PersonsAdded
    <3>. QED
      BY <3>1, <3>2
  <2>9. NamedHasPerson'
    BY <2>1, <2>3, PersonsAdded
  <2>. QED
    BY <2>3, <2>6, <2>7, <2>8, <2>9
<1>4. ASSUME NEW ids \in late, ServeLate(ids)
      PROVE  NamingInv'
  <2>1. /\ UNCHANGED <<rows, aged, requests, discards>> /\ late' \subseteq late
        /\ Enroll(ids) /\ ids \in SUBSET Captures
    BY <1>1, <1>4 DEF ServeLate
  <2>2. /\ staged' \in [Captures -> Capture] /\ StagedInv'
        /\ persons' \in Seq(Person) /\ NoTwoPersonsAlike'
        /\ \A p \in 1..Len(persons) :
             p \in 1..Len(persons') /\ persons'[p] = persons[p]
    BY <2>1, EnrollKeeps
  <2>3. TypeOK'
    BY <1>1, <2>1, <2>2 DEF TypeOK
  <2>4. NamedHasPerson' /\ RequestInv'
    BY <2>1, <2>2, PersonsAdded DEF RequestInv
  <2>5. RowInv'
    BY <2>1 DEF RowInv
  <2>. QED
    BY <2>2, <2>3, <2>4, <2>5
<1>. QED
  BY <1>2, <1>3, <1>4

(* A request ends, with or without an answer. *)
LEMMA AnswerSteps ==
    ASSUME NamingInv, NEW r \in Requests,
           NameFails(r) \/ NameRecords(r) \/ NameRejected(r)
    PROVE  NamingInv'
<1>. DEFINE s == requests[r].session
<1>. USE DEF NamingInv
<1>1. /\ UNCHANGED <<aged, staged, persons>>
      /\ requests' = [requests EXCEPT ![r] = IdleRequest]
      /\ requests[r].step # "idle"
  BY DEF NameFails, NameRecords, NameRejected, apexVars
<1>2. /\ requests \in [Requests -> Request] /\ rows \in [Sessions -> Row]
      /\ discards \subseteq SUBSET Captures /\ late \subseteq SUBSET Captures
  BY DEF TypeOK
<1>3. /\ s \in Sessions /\ rows[s] \in Row
      /\ rows[s].open => rows[s].naming = "not_applicable"
      /\ rows[s].naming # "not_applicable"
  BY <1>1, <1>2 DEF RequestInv, RowInv
<1>4. IdleRequest \in Request /\ IdleRequest.step = "idle"
  BY DEF IdleRequest, Request
<1>5. requests' \in [Requests -> Request]
      /\ \A q \in Requests :
           requests'[q].step # "idle" => requests'[q] = requests[q]
  BY <1>1, <1>2, <1>4
<1>6. rows[s].ids \in SUBSET Captures
  BY <1>3 DEF Row
<1>7. late' \subseteq SUBSET Captures /\ discards' \subseteq SUBSET Captures
  <2>1. late' = late \/ late' = late \cup {rows[s].ids}
    BY DEF NameFails, NameRecords, NameRejected
  <2>2. discards' = discards \/ discards' = discards \cup {rows[s].ids}
    BY DEF NameFails, NameRecords, NameRejected
  <2>. QED
    BY <1>2, <1>6, <2>1, <2>2
<1>8. /\ rows' \in [Sessions -> Row]
      /\ \A o \in Sessions :
           /\ rows'[o].open => rows[o].open /\ rows'[o] = rows[o]
           /\ rows[o].naming # "not_applicable" =>
                /\ rows'[o].naming # "not_applicable"
                /\ rows'[o].ids = rows[o].ids
           /\ rows'[o].naming = "named" =>
                \/ rows[o].naming = "named" /\ rows'[o].person = rows[o].person
                \/ /\ rows'[o].person \in 1..Len(persons)
                   /\ persons[rows'[o].person].captures = rows'[o].ids
  <2>1. CASE rows' = rows
    BY <1>2, <2>1
  <2>2. CASE NameRecords(r) /\ rows' # rows
    <3>. DEFINE row == [rows[s] EXCEPT !.naming = "named",
                                       !.person = requests[r].person]
    <3>1. /\ requests[r].person \in 1..Len(persons)
          /\ persons[requests[r].person].captures = rows[s].ids
      BY <2>2 DEF NameRecords, RequestInv
    <3>2. requests[r].person \in Nat
      BY <1>2 DEF Request
    <3>3. rows' = [rows EXCEPT ![s] = row]
      BY <1>2, <1>3, <2>2 DEF NameRecords
    <3>4. /\ row \in Row /\ ~row.open /\ row.naming = "named"
          /\ row.ids = rows[s].ids /\ row.person = requests[r].person
      BY <1>3, <3>2 DEF Row
    <3>. HIDE DEF row, s
    <3>. QED
      BY <1>2, <1>3, <3>1, <3>3, <3>4
  <2>3. CASE NameRejected(r) /\ rows' # rows
    <3>. DEFINE row == [rows[s] EXCEPT !.naming = "discarded"]
    <3>1. rows' = Discard(s)
      BY <2>3 DEF NameRejected
    <3>. HIDE DEF s
    <3>2. rows' = [rows EXCEPT ![s] = row]
      <4>1. rows[s].naming = "pending_name" \/ Discard(s) = rows
        BY <1>2, <1>3 DEF Discard, Row
      <4>. QED
        BY <1>2, <1>3, <2>3, <3>1, <4>1 DEF Discard
    <3>3. /\ row \in Row /\ ~row.open /\ row.naming = "discarded"
          /\ row.ids = rows[s].ids
      BY <1>3 DEF Row
    <3>. HIDE DEF row, s
    <3>. QED
      BY <1>2, <1>3, <3>2, <3>3
  <2>. QED
    BY <2>1, <2>2, <2>3 DEF NameFails
<1>9. TypeOK'
  BY <1>1, <1>5, <1>7, <1>8 DEF TypeOK
<1>10. RowInv' /\ RequestInv' /\ NamedHasPerson' /\ NoTwoPersonsAlike'
  BY <1>1, <1>5, <1>8, RowsMove
<1>11. StagedInv'
  BY <1>1 DEF StagedInv, Present
<1>. QED
  BY <1>9, <1>10, <1>11

LEMMA NextNaming == NamingInv /\ [Next]_vars => NamingInv'
<1>. SUFFICES ASSUME NamingInv, [Next]_vars PROVE NamingInv'
  OBVIOUS
<1>1. CASE UNCHANGED vars
  <2>1. TypeOK' /\ StagedInv' /\ RowInv'
    BY <1>1 DEF vars, NamingInv, TypeOK, StagedInv, Present, RowInv
  <2>2. RequestInv' /\ NamedHasPerson'
    BY <1>1 DEF vars, NamingInv, RequestInv, NamedHasPerson
  <2>3. NoTwoPersonsAlike'
    BY <1>1 DEF vars, NamingInv, NoTwoPersonsAlike
  <2>. QED
    BY <2>1, <2>2, <2>3 DEF NamingInv
<1>2. CASE Next
  BY <1>2, CaptureSteps, SessionSteps, CallSteps, AnswerSteps DEF Next
<1>. QED
  BY <1>1, <1>2

LEMMA NamingInvariant == Spec => []NamingInv
<1>1. Init => NamingInv
  BY InitNaming
<1>2. NamingInv /\ [Next]_vars => NamingInv'
  BY NextNaming
<1>. QED
  BY <1>1, <1>2, PTL DEF Spec

-------------------------------------------------------------------------------
(* The theorems. *)

(***************************************************************************)
(* Rows, captures and persons keep to their types through lost and late    *)
(* calls between the two databases.                                        *)
(***************************************************************************)
THEOREM NamingTypes == Spec => []TypeOK
<1>1. NamingInv => TypeOK
  BY DEF NamingInv
<1>. QED
  BY <1>1, NamingInvariant, PTL

(***************************************************************************)
(* PersonStore.enroll compares captures with every person in the           *)
(* transaction that creates one, so no two persons are similar, even when  *)
(* a call is executed after its caller has given up.                       *)
(***************************************************************************)
THEOREM PersonsApart == Spec => []NoTwoPersonsAlike
<1>1. NamingInv => NoTwoPersonsAlike
  BY DEF NamingInv
<1>. QED
  BY <1>1, NamingInvariant, PTL

(***************************************************************************)
(* name_enrollment_session records the person that its own call created:   *)
(* a named session points at the person made from its own captures.        *)
(***************************************************************************)
THEOREM NamedPersons == Spec => []NamedHasPerson
<1>1. NamingInv => NamedHasPerson
  BY DEF NamingInv
<1>. QED
  BY <1>1, NamingInvariant, PTL

-------------------------------------------------------------------------------
(* The theorem about single steps. *)

Settled(s) == rows[s].naming \in {"named", "discarded"}

LEMMA SettledStays ==
    ASSUME NamingInv, [Next]_vars, NEW s \in Sessions, Settled(s)
    PROVE  rows'[s].naming = rows[s].naming /\ rows'[s].person = rows[s].person
<1>1. rows \in [Sessions -> Row] /\ rows[s] \in Row
      /\ (rows[s].open => rows[s].naming = "not_applicable")
  BY DEF NamingInv, TypeOK, RowInv
<1>2. ASSUME NEW o \in Sessions, Collect(o) \/ CancelCapture(o) \/ TimeOutCapture(o)
      PROVE  rows'[s].naming = rows[s].naming /\ rows'[s].person = rows[s].person
  <2>1. rows[o].open /\ o # s
    BY <1>1, <1>2 DEF Collect, CancelCapture, TimeOutCapture, Settled
  <2>. QED
    BY <1>1, <1>2, <2>1 DEF Collect, CancelCapture, TimeOutCapture
<1>3. ASSUME NEW o \in Sessions, CancelNaming(o) \/ Expire(o) \/ NamingTimeout(o)
      PROVE  rows'[s].naming = rows[s].naming /\ rows'[s].person = rows[s].person
  <2>1. rows[o].naming = "pending_name" /\ o # s
    BY <1>3 DEF CancelNaming, Expire, NamingTimeout, Settled
  <2>. QED
    BY <1>1, <1>3, <2>1 DEF CancelNaming, Expire, NamingTimeout, Discard
<1>4. ASSUME NEW r \in Requests, NameRecords(r)
      PROVE  rows'[s].naming = rows[s].naming /\ rows'[s].person = rows[s].person
  <2>. DEFINE o == requests[r].session
  <2>1. \/ rows' = rows
        \/ /\ rows[o].naming = "pending_name"
           /\ rows' = [rows EXCEPT ![o].naming = "named",
                                   ![o].person = requests[r].person]
    BY <1>4 DEF NameRecords
  <2>2. rows[o].naming = "pending_name" => o # s
    BY DEF Settled
  <2>. HIDE DEF o
  <2>. QED
    BY <1>1, <2>1, <2>2
<1>5. ASSUME NEW r \in Requests, NameRejected(r)
      PROVE  rows'[s].naming = rows[s].naming /\ rows'[s].person = rows[s].person
  <2>1. rows' = Discard(requests[r].session)
    BY <1>5 DEF NameRejected
  <2>. QED
    BY <1>1, <2>1 DEF Discard, Settled
<1>6. ASSUME UNCHANGED rows
      PROVE  rows'[s].naming = rows[s].naming /\ rows'[s].person = rows[s].person
  BY <1>6
<1>. QED
  BY <1>2, <1>3, <1>4, <1>5, <1>6 DEF Next, vars, StageCapture, CapturesAge,
     NameCalls, ServeEnroll, NameFails, ServeLate, DiscardCaptures, LoseDiscard

(***************************************************************************)
(* name_enrollment_session reads the status again before it records, so an *)
(* answer that arrives late neither names a discarded session nor renames  *)
(* a named one; sweeps and cancellations only touch unnamed sessions.      *)
(***************************************************************************)
THEOREM NamesAreFinal == Spec => NamingIsFinal
<1>1. NamingInv /\ [Next]_vars =>
        [\A s \in Sessions :
           rows[s].naming \in {"named", "discarded"} =>
             /\ rows'[s].naming = rows[s].naming
             /\ rows'[s].person = rows[s].person]_vars
  BY SettledStays DEF Settled
<1>. QED
  BY <1>1, NamingInvariant, PTL DEF Spec, NamingIsFinal

===============================================================================
