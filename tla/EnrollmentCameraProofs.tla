------------------------- MODULE EnrollmentCameraProofs -------------------------
(***************************************************************************)
(* What a session waits for is what it takes it for, for every number of   *)
(* sessions and disturbances: a recorded activation borrows the camera, a  *)
(* recorded restoration returns it unless geometries are saved meanwhile.  *)
(* Without the disturbances named below, the camera of ended sessions is   *)
(* back at its prior applications.                                         *)
(***************************************************************************)
EXTENDS EnrollmentCamera, TLAPS

Borrows(r) == r \in 1..Len(sets) /\ sets[r].apps = "face_enrollment"
Returns(r) == r \in 1..Len(sets) /\ sets[r].apps = "prior"

(* A set that answers to a session's key has the applications asked for.   *)
KeysInv ==
    \A r \in 1..Len(sets), s \in Sessions :
      /\ sets[r].key = ActivateKey(s) => sets[r].apps = "face_enrollment"
      /\ sets[r].key = RestoreKey(s) => sets[r].apps = "prior"

(* The revisions that sessions and running requests refer to. *)
ActivationInv ==
    \A s \in Sessions :
      /\ rows[s].activation # 0 => Borrows(rows[s].activation)
      /\ starts[s].step = "record" => Borrows(starts[s].seen)

RestorationInv ==
    /\ "geometry" \notin Disturbances =>
         \A s \in Sessions :
           rows[s].restoration # 0 => Returns(rows[s].restoration)
    /\ tick.step = "record" => Returns(tick.seen)

CameraInv == TypeOK /\ KeysInv /\ ActivationInv /\ RestorationInv

-------------------------------------------------------------------------------
(* Appended sets. *)

(* An appended set leaves the earlier ones in place. *)
LEMMA AppendSet ==
    ASSUME sets \in Seq(AssignmentSet), NEW e \in AssignmentSet,
           sets' = Append(sets, e)
    PROVE  /\ sets' \in Seq(AssignmentSet)
           /\ Len(sets) \in Nat
           /\ Len(sets') = Len(sets) + 1
           /\ \A r \in 1..Len(sets) : sets'[r] = sets[r]
           /\ sets'[Len(sets) + 1] = e
  OBVIOUS

(* The keys of activations and restorations differ from each other and     *)
(* from the missing key of every other commit.                             *)
LEMMA KeysDiffer ==
    ASSUME NEW s \in Sessions, NEW o \in Sessions
    PROVE  /\ ActivateKey(s) # RestoreKey(o)
           /\ ActivateKey(s) \in Key /\ RestoreKey(s) \in Key
           /\ ActivateKey(s) # None /\ RestoreKey(s) # None
  BY EnrollmentAssumption DEF ActivateKey, RestoreKey, Key

(* Every commit keeps what was said of the earlier sets, and of the rows   *)
(* and threads as long as these stay as they are.                          *)
LEMMA AppendKeeps ==
    ASSUME CameraInv, NEW e \in AssignmentSet, sets' = Append(sets, e),
           \A s \in Sessions :
             /\ e.key = ActivateKey(s) => e.apps = "face_enrollment"
             /\ e.key = RestoreKey(s) => e.apps = "prior"
    PROVE  /\ KeysInv'
           /\ \A r \in Nat : Borrows(r) => Borrows(r)'
           /\ \A r \in Nat : Returns(r) => Returns(r)'
           /\ Len(sets') = Len(sets) + 1
           /\ sets'[Len(sets')] = e
           /\ sets' \in Seq(AssignmentSet)
           /\ Len(sets) \in Nat
<1>1. /\ sets' \in Seq(AssignmentSet)
      /\ Len(sets) \in Nat
      /\ Len(sets') = Len(sets) + 1
      /\ \A r \in 1..Len(sets) : sets'[r] = sets[r]
      /\ sets'[Len(sets) + 1] = e
  BY AppendSet DEF CameraInv, TypeOK
<1>2. KeysInv'
  <2>. SUFFICES ASSUME NEW r \in 1..Len(sets'), NEW s \in Sessions
                PROVE  /\ sets'[r].key = ActivateKey(s) =>
                            sets'[r].apps = "face_enrollment"
                       /\ sets'[r].key = RestoreKey(s) => sets'[r].apps = "prior"
    BY DEF KeysInv, ActivateKey, RestoreKey
  <2>1. CASE r = Len(sets) + 1
    BY <2>1, <1>1
  <2>2. CASE r \in 1..Len(sets)
    BY <2>2, <1>1 DEF CameraInv, KeysInv
  <2>. QED
    BY <1>1, <2>1, <2>2
<1>3. \A r \in Nat : Borrows(r) => Borrows(r)'
  BY <1>1 DEF Borrows
<1>4. \A r \in Nat : Returns(r) => Returns(r)'
  BY <1>1 DEF Returns
<1>. QED
  BY <1>1, <1>2, <1>3, <1>4

-------------------------------------------------------------------------------
(* The steps. *)

(* A step that commits nothing. *)
LEMMA SameSets ==
    ASSUME CameraInv, UNCHANGED sets
    PROVE  /\ KeysInv'
           /\ \A r : Borrows(r)' <=> Borrows(r)
           /\ \A r : Returns(r)' <=> Returns(r)
  BY DEF CameraInv, KeysInv, Borrows, Returns, ActivateKey, RestoreKey

LEMMA CurrentSet ==
    ASSUME TypeOK
    PROVE  /\ Len(sets) \in Nat /\ 1 <= Len(sets)
           /\ Current \in AssignmentSet
  BY DEF TypeOK, Current

LEMMA Disturbed ==
    ASSUME TypeOK, NEW kind, Disturb(kind)
    PROVE  kind \in Disturbances /\ disturbed' \in 0..MaxDisturbances
<1>1. MaxDisturbances \in Nat /\ disturbed \in 0..MaxDisturbances
  BY EnrollmentAssumption DEF TypeOK
<1>. QED
  BY <1>1 DEF Disturb

LEMMA IdleIsThread == IdleThread \in Thread
  BY DEF IdleThread, Thread

LEMMA InitCamera == Init => CameraInv
<1>. SUFFICES ASSUME Init PROVE CameraInv
  OBVIOUS
<1>1. [apps |-> "prior", geometry |-> 0, peer |-> 0, key |-> None]
         \in AssignmentSet
  BY DEF AssignmentSet
<1>2. sets \in Seq(AssignmentSet) /\ Len(sets) = 1 /\ sets[1].key = None
  BY <1>1 DEF Init
<1>3. starts \in [Sessions -> Thread] /\ tick \in Thread
  BY IdleIsThread DEF Init
<1>4. rows \in [Sessions -> Row]
  BY DEF Init, Row
<1>5. TypeOK
  <2>1. applied \in 1..Len(sets) /\ geometry \in Nat /\ edits \in Nat
    BY <1>2 DEF Init
  <2>2. disturbed \in 0..MaxDisturbances
    BY EnrollmentAssumption DEF Init
  <2>. QED
    BY <1>2, <1>3, <1>4, <2>1, <2>2 DEF TypeOK
<1>6. KeysInv
  <2>. SUFFICES ASSUME NEW r \in 1..Len(sets), NEW s \in Sessions
                PROVE  /\ sets[r].key # ActivateKey(s)
                       /\ sets[r].key # RestoreKey(s)
    BY DEF KeysInv
  <2>1. sets[r].key = None
    BY <1>2
  <2>. QED
    BY <2>1, KeysDiffer
<1>7. ActivationInv /\ RestorationInv
  BY DEF Init, ActivationInv, RestorationInv, IdleThread
<1>. QED
  BY <1>5, <1>6, <1>7 DEF CameraInv

(* A request that starts a session, up to its commit. *)
LEMMA StartKeeps ==
    ASSUME CameraInv, NEW s \in Sessions,
           \/ StartSession(s) \/ StartReads(s) \/ StartPreviews(s)
           \/ StartRaises(s) \/ StartRecords(s) \/ StartFails(s)
    PROVE  CameraInv'
<1>. USE DEF CameraInv
<1>1. /\ UNCHANGED <<setVars, tick>>
      /\ disturbed' = disturbed
  BY DEF StartSession, StartReads, StartPreviews, StartRaises, StartRecords,
         StartFails
<1>2. KeysInv' /\ (\A r : Borrows(r)' <=> Borrows(r))
      /\ (\A r : Returns(r)' <=> Returns(r))
  BY <1>1, SameSets DEF setVars
<1>3. /\ Current.geometry \in Nat /\ Current.peer \in Nat
      /\ Len(sets) \in Nat
  BY CurrentSet DEF AssignmentSet
<1>4. rows' \in [Sessions -> Row]
      /\ \A o \in Sessions :
           /\ rows'[o].restoration = rows[o].restoration
           /\ rows'[o].activation # rows[o].activation =>
                o = s /\ starts[s].step = "record"
                /\ rows'[s].activation = starts[s].seen
  <2>1. CASE StartSession(s)
    BY <2>1, <1>3 DEF StartSession, TypeOK, Row, Active
  <2>2. CASE StartReads(s) \/ StartPreviews(s) \/ StartRaises(s)
    BY <2>2 DEF StartReads, StartPreviews, StartRaises, TypeOK
  <2>3. CASE StartRecords(s)
    BY <2>3 DEF StartRecords, TypeOK, Row, Thread
  <2>4. CASE StartFails(s)
    BY <2>4 DEF StartFails, TypeOK, Row, Terminal, ResultCode
  <2>. QED
    BY <2>1, <2>2, <2>3, <2>4
<1>5. starts' \in [Sessions -> Thread]
      /\ \A o \in Sessions :
           starts'[o].step = "record" => starts'[o] = starts[o]
  <2>1. CASE StartSession(s)
    BY <2>1 DEF StartSession, TypeOK, Thread
  <2>2. CASE StartReads(s)
    BY <2>2, <1>3 DEF StartReads, ReadTarget, TypeOK, Thread
  <2>3. CASE StartPreviews(s)
    BY <2>3, <1>3 DEF StartPreviews, PreviewTarget, TypeOK, Thread
  <2>4. CASE StartRaises(s)
    BY <2>4 DEF StartRaises, TypeOK, Thread
  <2>5. CASE StartRecords(s) \/ StartFails(s)
    <3>1. starts' = [starts EXCEPT ![s] = IdleThread]
      BY <2>5 DEF StartRecords, StartFails
    <3>2. IdleThread.step # "record"
      BY DEF IdleThread
    <3>. QED
      BY <3>1, <3>2, IdleIsThread DEF TypeOK
  <2>. QED
    BY <2>1, <2>2, <2>3, <2>4, <2>5
<1>6. TypeOK'
  BY <1>1, <1>4, <1>5 DEF TypeOK, setVars
<1>7. ActivationInv'
  BY <1>2, <1>4, <1>5 DEF ActivationInv
<1>8. RestorationInv'
  BY <1>1, <1>2, <1>4 DEF RestorationInv
<1>. QED
  BY <1>2, <1>6, <1>7, <1>8

(***************************************************************************)
(* A commit with a session's key, new or found under it, gives a revision  *)
(* that has the applications asked for, and keeps what was said before.    *)
(***************************************************************************)
LEMMA CommitLands ==
    ASSUME CameraInv, NEW t \in Thread, NEW s \in Sessions,
           NEW key, NEW apps,
           \/ key = ActivateKey(s) /\ apps = "face_enrollment"
           \/ key = RestoreKey(s) /\ apps = "prior",
           CommitTarget(t, key, apps)
    PROVE  /\ KeysInv' /\ sets' \in Seq(AssignmentSet)
           /\ Len(sets) <= Len(sets')
           /\ \A n \in Nat : Borrows(n) => Borrows(n)'
           /\ \A n \in Nat : Returns(n) => Returns(n)'
           /\ CommittedRevision(key) \in 1..Len(sets')
           /\ sets'[CommittedRevision(key)].apps = apps
<1>. USE DEF CameraInv
<1>0. Len(sets) \in Nat
  BY CurrentSet
<1>1. CASE Committed(key) # {}
  <2>1. PICK r \in Nat : r = CommittedRevision(key) /\ r \in Committed(key)
    BY <1>0, <1>1 DEF CommittedRevision, Committed
  <2>2. r \in 1..Len(sets) /\ sets[r].key = key
    BY <2>1 DEF Committed
  <2>3. sets[r].apps = apps
    BY <2>2 DEF KeysInv
  <2>4. UNCHANGED sets
    BY <1>1 DEF CommitTarget
  <2>5. sets' \in Seq(AssignmentSet) /\ Len(sets') = Len(sets)
    BY <2>4 DEF TypeOK
  <2>6. r \in 1..Len(sets') /\ sets'[r].apps = apps
    BY <2>2, <2>3, <2>4
  <2>. QED
    BY <1>0, <2>1, <2>4, <2>5, <2>6, SameSets
<1>2. CASE Committed(key) = {}
  <2>. DEFINE e == [apps |-> apps, geometry |-> t.prior,
                    peer |-> t.peer, key |-> key]
  <2>1. sets' = Append(sets, e) /\ CommittedRevision(key) = Len(sets) + 1
    BY <1>2 DEF CommitTarget, CommittedRevision
  <2>2. e \in AssignmentSet
    BY KeysDiffer DEF AssignmentSet, Thread
  <2>3. \A o \in Sessions :
          /\ e.key = ActivateKey(o) => e.apps = "face_enrollment"
          /\ e.key = RestoreKey(o) => e.apps = "prior"
    BY KeysDiffer
  <2>4. e.apps = apps
    OBVIOUS
  <2>. HIDE DEF e
  <2>5. /\ KeysInv' /\ sets' \in Seq(AssignmentSet)
        /\ \A n \in Nat : Borrows(n) => Borrows(n)'
        /\ \A n \in Nat : Returns(n) => Returns(n)'
        /\ Len(sets') = Len(sets) + 1
        /\ sets'[Len(sets')] = e
    BY <2>1, <2>2, <2>3, AppendKeeps
  <2>. QED
    BY <1>0, <2>1, <2>4, <2>5
<1>. QED
  BY <1>1, <1>2

(* The commit of an activation. *)
LEMMA StartCommitKeeps ==
    ASSUME CameraInv, NEW s \in Sessions, StartCommits(s)
    PROVE  CameraInv'
<1>. USE DEF CameraInv
<1>1. PICK r : r = CommittedRevision(ActivateKey(s))
  OBVIOUS
<1>2. /\ starts' = [starts EXCEPT ![s] = Recorded(starts[s], r)]
      /\ UNCHANGED <<applied, geometry, edits, rows, tick, disturbed>>
      /\ CommitTarget(starts[s], ActivateKey(s), "face_enrollment")
  BY <1>1 DEF StartCommits
<1>3. starts \in [Sessions -> Thread] /\ starts[s] \in Thread
      /\ Len(sets) \in Nat /\ rows \in [Sessions -> Row] /\ tick \in Thread
  BY CurrentSet DEF TypeOK
<1>4. /\ KeysInv' /\ sets' \in Seq(AssignmentSet) /\ Len(sets) <= Len(sets')
      /\ \A n \in Nat : Borrows(n) => Borrows(n)'
      /\ \A n \in Nat : Returns(n) => Returns(n)'
      /\ r \in 1..Len(sets') /\ sets'[r].apps = "face_enrollment"
  BY <1>1, <1>2, <1>3, CommitLands
<1>5. r \in Nat /\ Borrows(r)' /\ Len(sets') \in Nat
  BY <1>4 DEF Borrows
<1>6. starts' \in [Sessions -> Thread] /\ starts'[s].seen = r
      /\ \A o \in Sessions \ {s} : starts'[o] = starts[o]
  BY <1>2, <1>3, <1>5 DEF Recorded, Thread
<1>7. TypeOK'
  BY <1>2, <1>3, <1>4, <1>5, <1>6 DEF TypeOK
<1>8. ActivationInv'
  <2>. SUFFICES ASSUME NEW o \in Sessions
                PROVE  /\ rows'[o].activation # 0 =>
                            Borrows(rows[o].activation)'
                       /\ starts'[o].step = "record" => Borrows(starts[o].seen)'
    BY DEF ActivationInv
  <2>1. rows[o].activation \in Nat /\ rows'[o] = rows[o]
    BY <1>2, <1>3 DEF Row
  <2>2. rows'[o].activation # 0 => Borrows(rows[o].activation)'
    BY <1>4, <2>1 DEF ActivationInv, Borrows
  <2>3. CASE o = s
    BY <1>4, <1>6, <2>2, <2>3 DEF Borrows
  <2>4. CASE o # s
    <3>1. starts'[o] = starts[o] /\ starts[o].seen \in Nat
      BY <1>3, <1>6, <2>4 DEF Thread
    <3>. QED
      BY <1>4, <2>2, <3>1 DEF ActivationInv, Borrows
  <2>. QED
    BY <2>3, <2>4
<1>9. RestorationInv'
  BY <1>2, <1>3, <1>4 DEF RestorationInv, Returns, Row, Thread
<1>. QED
  BY <1>4, <1>7, <1>8, <1>9

(* The commit of a restoration. *)
LEMMA TickCommitKeeps ==
    ASSUME CameraInv, NEW s \in Sessions, TickCommits(s)
    PROVE  CameraInv'
<1>. USE DEF CameraInv
<1>1. PICK r : r = CommittedRevision(RestoreKey(s))
  OBVIOUS
<1>2. /\ tick' = Recorded(tick, r)
      /\ UNCHANGED <<applied, geometry, edits, rows, starts, disturbed>>
      /\ CommitTarget(tick, RestoreKey(s), "prior")
  BY <1>1 DEF TickCommits
<1>3. starts \in [Sessions -> Thread] /\ Len(sets) \in Nat
      /\ rows \in [Sessions -> Row] /\ tick \in Thread
  BY CurrentSet DEF TypeOK
<1>4. /\ KeysInv' /\ sets' \in Seq(AssignmentSet) /\ Len(sets) <= Len(sets')
      /\ \A n \in Nat : Borrows(n) => Borrows(n)'
      /\ \A n \in Nat : Returns(n) => Returns(n)'
      /\ r \in 1..Len(sets') /\ sets'[r].apps = "prior"
  BY <1>1, <1>2, <1>3, CommitLands
<1>5. r \in Nat /\ Len(sets') \in Nat
  BY <1>4
<1>6. tick' \in Thread /\ tick'.seen = r
  BY <1>2, <1>3, <1>5 DEF Recorded, Thread
<1>7. TypeOK'
  BY <1>2, <1>3, <1>4, <1>5, <1>6 DEF TypeOK
<1>8. ActivationInv'
  BY <1>2, <1>3, <1>4 DEF ActivationInv, Borrows, Row, Thread
<1>9. RestorationInv'
  BY <1>2, <1>3, <1>4, <1>6 DEF RestorationInv, Returns, Row
<1>. QED
  BY <1>4, <1>7, <1>8, <1>9

(* The steps of the reconciler that commit nothing. *)
LEMMA TickKeeps ==
    ASSUME CameraInv, NEW s \in Sessions,
           \/ TickReads \/ TickPreviews \/ BeginCapture(s)
           \/ ActivationTimesOut(s) \/ BeginPoll(s) \/ PollNothing(s)
           \/ \E result \in {None, "timed_out"} : PollEnds(s, result)
           \/ BeginRestore(s) \/ TickRaises(s) \/ TickRecords(s)
           \/ EndSession(s)
    PROVE  CameraInv'
<1>. USE DEF CameraInv
<1>1. UNCHANGED <<setVars, starts>> /\ disturbed' = disturbed
  BY DEF TickReads, TickPreviews, BeginCapture, ActivationTimesOut, BeginPoll,
         PollNothing, PollEnds, BeginRestore, TickRaises, TickRecords,
         EndSession
<1>2. KeysInv' /\ (\A r : Borrows(r)' <=> Borrows(r))
      /\ (\A r : Returns(r)' <=> Returns(r))
  BY <1>1, SameSets DEF setVars
<1>3. rows[s] \in Row /\ Len(sets) \in Nat /\ Current.peer \in Nat
      /\ tick \in Thread /\ rows \in [Sessions -> Row]
  BY CurrentSet DEF TypeOK, AssignmentSet
<1>4. Restoring(s) \in Thread /\ Restoring(s).step # "record"
  BY <1>3 DEF Restoring, IdleThread, Thread, Row
<1>5. rows' \in [Sessions -> Row]
      /\ \A o \in Sessions :
           /\ rows'[o].activation = rows[o].activation
           /\ rows'[o].restoration # rows[o].restoration =>
                tick.step = "record" /\ rows'[o].restoration = tick.seen
  <2>1. CASE TickReads \/ TickPreviews \/ BeginPoll(s) \/ PollNothing(s)
             \/ BeginRestore(s) \/ TickRaises(s)
    BY <1>3, <2>1 DEF TickReads, TickPreviews, BeginPoll, PollNothing,
                      BeginRestore, TickRaises
  <2>2. CASE BeginCapture(s)
    BY <1>3, <2>2 DEF BeginCapture, Row, Active
  <2>3. CASE ActivationTimesOut(s)
    BY <1>3, <2>3 DEF ActivationTimesOut, Row, Active, ResultCode
  <2>4. ASSUME NEW result \in {None, "timed_out"}, PollEnds(s, result)
        PROVE  rows' \in [Sessions -> Row]
               /\ \A o \in Sessions :
                    /\ rows'[o].activation = rows[o].activation
                    /\ rows'[o].restoration = rows[o].restoration
    BY <1>3, <2>4 DEF PollEnds, Row, Active, ResultCode
  <2>5. CASE TickRecords(s)
    BY <1>3, <2>5 DEF TickRecords, Row, Thread
  <2>6. CASE EndSession(s)
    <3>. DEFINE result == IF rows[s].result = None THEN "ok" ELSE rows[s].result
    <3>1. result \in ResultCode
      BY <1>3 DEF Row, ResultCode
    <3>2. TerminalStatus[result] \in Terminal
      BY <3>1 DEF TerminalStatus, Terminal, ResultCode
    <3>3. rows' = [rows EXCEPT ![s].result = result,
                               ![s].status = TerminalStatus[result]]
      BY <2>6 DEF EndSession
    <3>. HIDE DEF result
    <3>. QED
      BY <1>3, <3>1, <3>2, <3>3 DEF Row
  <2>. QED
    BY <2>1, <2>2, <2>3, <2>4, <2>5, <2>6
<1>6. tick' \in Thread /\ (tick'.step = "record" => tick' = tick)
  <2>1. CASE TickReads
    BY <1>3, <2>1 DEF TickReads, ReadTarget, Thread
  <2>2. CASE TickPreviews
    BY <1>3, <2>2 DEF TickPreviews, PreviewTarget, Thread
  <2>3. CASE BeginCapture(s) \/ EndSession(s)
    BY <1>3, <2>3 DEF BeginCapture, EndSession
  <2>4. CASE tick' = Restoring(s)
    BY <1>4, <2>4
  <2>5. CASE BeginPoll(s)
    BY <2>5 DEF BeginPoll, IdleThread, Thread
  <2>6. CASE tick' = IdleThread
    BY <2>6, IdleIsThread DEF IdleThread
  <2>. QED
    BY <2>1, <2>2, <2>3, <2>4, <2>5, <2>6
       DEF ActivationTimesOut, PollNothing, PollEnds, BeginRestore,
           TickRaises, TickRecords
<1>7. TypeOK'
  BY <1>1, <1>5, <1>6 DEF TypeOK, setVars
<1>8. ActivationInv'
  BY <1>1, <1>2, <1>5 DEF ActivationInv
<1>9. RestorationInv'
  BY <1>2, <1>5, <1>6 DEF RestorationInv
<1>. QED
  BY <1>2, <1>7, <1>8, <1>9

(* Requests and events that change neither sets nor revisions in rows. *)
LEMMA EventKeeps ==
    ASSUME CameraInv,
           \/ \E s \in Sessions : CancelSession(s) \/ Clock(s)
           \/ Restart
           \/ UNCHANGED vars
    PROVE  CameraInv'
<1>. USE DEF CameraInv
<1>1. UNCHANGED setVars /\ disturbed' \in 0..MaxDisturbances
  <2>1. CASE Restart
    BY <2>1, EnrollmentAssumption DEF Restart, Disturb, TypeOK
  <2>. QED
    BY <2>1 DEF CancelSession, Clock, vars, setVars, TypeOK
<1>2. KeysInv' /\ (\A r : Borrows(r)' <=> Borrows(r))
      /\ (\A r : Returns(r)' <=> Returns(r))
  BY <1>1, SameSets DEF setVars
<1>3. rows \in [Sessions -> Row]
  BY DEF TypeOK
<1>4. rows' \in [Sessions -> Row]
      /\ \A o \in Sessions : /\ rows'[o].activation = rows[o].activation
                             /\ rows'[o].restoration = rows[o].restoration
  <2>1. ASSUME NEW s \in Sessions, CancelSession(s)
        PROVE  rows' \in [Sessions -> Row]
               /\ \A o \in Sessions :
                    /\ rows'[o].activation = rows[o].activation
                    /\ rows'[o].restoration = rows[o].restoration
    BY <1>3, <2>1 DEF CancelSession, Row, Active, ResultCode
  <2>2. ASSUME NEW s \in Sessions, Clock(s)
        PROVE  rows' \in [Sessions -> Row]
               /\ \A o \in Sessions :
                    /\ rows'[o].activation = rows[o].activation
                    /\ rows'[o].restoration = rows[o].restoration
    BY <1>3, <2>2 DEF Clock, Row
  <2>3. CASE Restart \/ UNCHANGED vars
    BY <1>3, <2>3 DEF Restart, vars
  <2>. QED
    BY <2>1, <2>2, <2>3
<1>5. starts' \in [Sessions -> Thread] /\ tick' \in Thread
      /\ (tick'.step = "record" => tick' = tick)
      /\ \A o \in Sessions :
           starts'[o].step = "record" => starts'[o] = starts[o]
  <2>1. CASE Restart
    BY <2>1, IdleIsThread DEF Restart, IdleThread
  <2>. QED
    BY <2>1 DEF CancelSession, Clock, vars, TypeOK
<1>6. TypeOK'
  BY <1>1, <1>4, <1>5 DEF TypeOK, setVars
<1>7. ActivationInv'
  BY <1>2, <1>4, <1>5 DEF ActivationInv
<1>8. RestorationInv'
  BY <1>2, <1>4, <1>5 DEF RestorationInv
<1>. QED
  BY <1>2, <1>6, <1>7, <1>8

(* The sync worker applies what was committed. *)
LEMMA SynchronizeKeeps ==
    ASSUME CameraInv, Synchronize
    PROVE  CameraInv'
<1>. USE DEF CameraInv
<1>1. UNCHANGED <<sets, geometry, edits, rows, starts, tick, disturbed>>
  BY DEF Synchronize
<1>2. applied' \in 1..Len(sets)
  BY CurrentSet DEF Synchronize, Sync!RecordApplied, TypeOK
<1>3. TypeOK'
  BY <1>1, <1>2 DEF TypeOK
<1>4. KeysInv' /\ (\A r : Borrows(r)' <=> Borrows(r))
      /\ (\A r : Returns(r)' <=> Returns(r))
  BY <1>1, SameSets
<1>5. ActivationInv' /\ RestorationInv'
  BY <1>1, <1>4 DEF ActivationInv, RestorationInv
<1>. QED
  BY <1>3, <1>4, <1>5

(* A commit that answers to no session. *)
LEMMA OtherCommitKeeps ==
    ASSUME CameraInv, EditPeer \/ CopyDesired \/ \E r \in 1..Len(sets) : Rollback(r)
    PROVE  CameraInv'
<1>. USE DEF CameraInv
<1>1. PICK e \in AssignmentSet : e.key = None /\ sets' = Append(sets, e)
  <2>1. CASE EditPeer
    <3>. DEFINE e == [Current EXCEPT !.peer = edits + 1, !.key = None]
    <3>1. edits + 1 \in Nat
      BY DEF TypeOK
    <3>2. e \in AssignmentSet /\ e.key = None
      BY <3>1, CurrentSet DEF AssignmentSet
    <3>. QED
      BY <2>1, <3>2 DEF EditPeer
  <2>2. CASE CopyDesired
    BY <2>2, CurrentSet DEF CopyDesired, AssignmentSet
  <2>3. ASSUME NEW r \in 1..Len(sets), Rollback(r)
        PROVE  \E e \in AssignmentSet : e.key = None /\ sets' = Append(sets, e)
    <3>1. sets[r] \in AssignmentSet
      BY DEF TypeOK
    <3>. QED
      BY <2>3, <3>1 DEF Rollback, AssignmentSet
  <2>. QED
    BY <2>1, <2>2, <2>3
<1>2. UNCHANGED <<applied, geometry, rows, starts, tick>>
      /\ edits' \in Nat /\ disturbed' \in 0..MaxDisturbances
  <2>1. edits \in Nat /\ edits + 1 \in Nat
    BY DEF TypeOK
  <2>2. CASE EditPeer
    BY <2>1, <2>2, Disturbed DEF EditPeer
  <2>3. CASE CopyDesired
    BY <2>1, <2>3, Disturbed DEF CopyDesired
  <2>4. ASSUME NEW r \in 1..Len(sets), Rollback(r) PROVE  /\ UNCHANGED <<applied, geometry, rows, starts, tick>>
               /\ edits' \in Nat /\ disturbed' \in 0..MaxDisturbances
    BY <2>1, <2>4, Disturbed DEF Rollback
  <2>. QED
    BY <2>2, <2>3, <2>4
<1>3. /\ KeysInv'
      /\ \A n \in Nat : Borrows(n) => Borrows(n)'
      /\ \A n \in Nat : Returns(n) => Returns(n)'
      /\ Len(sets') = Len(sets) + 1
      /\ sets' \in Seq(AssignmentSet) /\ Len(sets) \in Nat
  BY <1>1, KeysDiffer, AppendKeeps
<1>4. TypeOK'
  BY <1>2, <1>3 DEF TypeOK
<1>5. ActivationInv'
  BY <1>2, <1>3 DEF ActivationInv, Borrows
<1>6. RestorationInv'
  BY <1>2, <1>3 DEF RestorationInv, Returns
<1>. QED
  BY <1>3, <1>4, <1>5, <1>6

(* A saved geometry changes only prior_config and restorations. *)
LEMMA GeometryRows ==
    ASSUME TypeOK, SaveGeometry
    PROVE  /\ rows' \in [Sessions -> Row]
           /\ \A o \in Sessions : /\ rows'[o].activation = rows[o].activation
                                  /\ rows'[o].status = rows[o].status
<1>. DEFINE deferred == \E s \in Sessions :
                          rows[s].status \in {"activating", "capturing"}
            merged(o) == IF ~IsActive(o) THEN rows[o]
                         ELSE [rows[o] EXCEPT !.prior = geometry + 1]
<1>1. /\ rows \in [Sessions -> Row] /\ geometry + 1 \in Nat
      /\ Len(sets) + 1 \in Nat
  BY CurrentSet DEF TypeOK
<1>2. \A o \in Sessions : /\ merged(o) \in Row
                         /\ merged(o).activation = rows[o].activation
                         /\ merged(o).status = rows[o].status
  BY <1>1 DEF Row
<1>3. CASE deferred
  <2>1. rows' = [o \in Sessions |-> merged(o)]
    BY <1>3 DEF SaveGeometry
  <2>. QED
    BY <1>2, <2>1
<1>4. CASE ~deferred
  <2>1. rows' = [o \in Sessions |->
                   IF IsActive(o)
                     THEN [merged(o) EXCEPT !.restoration = Len(sets) + 1]
                     ELSE merged(o)]
    BY <1>4 DEF SaveGeometry
  <2>2. \A o \in Sessions :
          LET m == [merged(o) EXCEPT !.restoration = Len(sets) + 1]
          IN  m \in Row /\ m.activation = rows[o].activation
              /\ m.status = rows[o].status
    BY <1>1, <1>2 DEF Row
  <2>. HIDE DEF merged
  <2>. QED
    BY <1>2, <2>1, <2>2
<1>. QED
  BY <1>3, <1>4

(* A saved geometry leaves every activation alone. *)
LEMMA GeometryKeeps ==
    ASSUME CameraInv, SaveGeometry
    PROVE  CameraInv'
<1>. USE DEF CameraInv
<1>1. /\ "geometry" \in Disturbances /\ geometry' \in Nat
      /\ disturbed' \in 0..MaxDisturbances
      /\ UNCHANGED <<applied, edits, starts, tick>>
  <2>1. Disturb("geometry") /\ geometry' = geometry + 1
        /\ UNCHANGED <<applied, edits, starts, tick>>
    BY DEF SaveGeometry
  <2>2. geometry \in Nat
    BY DEF TypeOK
  <2>. QED
    BY <2>1, <2>2, Disturbed
<1>2. /\ rows \in [Sessions -> Row] /\ geometry + 1 \in Nat
      /\ Len(sets) + 1 \in Nat /\ Len(sets) \in Nat
  BY CurrentSet DEF TypeOK
<1>3. rows' \in [Sessions -> Row]
      /\ \A o \in Sessions : rows'[o].activation = rows[o].activation
  BY GeometryRows
<1>4. /\ KeysInv'
      /\ \A n \in Nat : Borrows(n) => Borrows(n)'
      /\ \A n \in Nat : Returns(n) => Returns(n)'
      /\ sets' \in Seq(AssignmentSet) /\ Len(sets) <= Len(sets')
  <2>1. CASE UNCHANGED sets
    BY <1>2, <2>1, SameSets DEF TypeOK
  <2>2. CASE ~UNCHANGED sets
    <3>. DEFINE e == [Current EXCEPT !.geometry = geometry + 1, !.key = None]
    <3>1. sets' = Append(sets, e)
      BY <2>2 DEF SaveGeometry
    <3>2. e \in AssignmentSet /\ e.key = None
      BY <1>2, CurrentSet DEF AssignmentSet
    <3>. HIDE DEF e
    <3>. QED
      BY <1>2, <3>1, <3>2, KeysDiffer, AppendKeeps
  <2>. QED
    BY <2>1, <2>2
<1>5. TypeOK'
  BY <1>1, <1>2, <1>3, <1>4 DEF TypeOK
<1>6. ActivationInv'
  BY <1>1, <1>3, <1>4 DEF ActivationInv, Borrows
<1>7. RestorationInv'
  BY <1>1, <1>4 DEF RestorationInv, Returns
<1>. QED
  BY <1>4, <1>5, <1>6, <1>7

LEMMA NextKeeps == CameraInv /\ [Next]_vars => CameraInv'
<1>. SUFFICES ASSUME CameraInv, [Next]_vars PROVE CameraInv'
  OBVIOUS
<1>1. ASSUME NEW s \in Sessions,
             StartSession(s) \/ StartStep(s) \/ CancelSession(s) \/ Clock(s)
      PROVE  CameraInv'
  BY <1>1, StartKeeps, StartCommitKeeps, EventKeeps DEF StartStep
<1>2. CASE TickStep
  <2>1. PICK s \in Sessions : TRUE
    BY EnrollmentAssumption
  <2>2. CASE TickReads \/ TickPreviews
    BY <2>1, <2>2, TickKeeps
  <2>. QED
    BY <1>2, <2>2, TickKeeps, TickCommitKeeps DEF TickStep
<1>3. CASE Synchronize \/ Restart \/ UNCHANGED vars
  BY <1>3, SynchronizeKeeps, EventKeeps
<1>4. CASE EditPeer \/ CopyDesired \/ (\E r \in 1..Len(sets) : Rollback(r))
           \/ SaveGeometry
  BY <1>4, OtherCommitKeeps, GeometryKeeps
<1>. QED
  BY <1>1, <1>2, <1>3, <1>4 DEF Next

LEMMA CameraInvariant == Spec => []CameraInv
<1>1. Init => CameraInv
  BY InitCamera
<1>2. CameraInv /\ [Next]_vars => CameraInv'
  BY NextKeeps
<1>. QED
  BY <1>1, <1>2, PTL DEF Spec

(***************************************************************************)
(* Whatever interrupts sessions, their rows keep to the columns' types and *)
(* the runtime runs one of the committed sets.                             *)
(***************************************************************************)
THEOREM CameraTypes == Spec => []TypeOK
<1>1. CameraInv => TypeOK
  BY DEF CameraInv
<1>. QED
  BY <1>1, CameraInvariant, PTL

-------------------------------------------------------------------------------
(* The theorems about single steps. *)

Unremarkable(s) ==
    \/ rows'[s].status = rows[s].status
    \/ rows'[s].status \in {"activating", "restoring"}
    \/ rows[s].status = "activating" /\ rows'[s].status = "failed"

(***************************************************************************)
(* Only begin_enrollment_capture and the end of a session make a row       *)
(* capturing or end one that was restoring.                                *)
(***************************************************************************)
LEMMA StatusSteps ==
    ASSUME TypeOK, [Next]_vars, NEW s \in Sessions
    PROVE  \/ Unremarkable(s)
           \/ BeginCapture(s)
           \/ EndSession(s)
<1>1. rows \in [Sessions -> Row] /\ rows[s] \in Row
  BY DEF TypeOK
<1>2. ASSUME rows' = rows PROVE Unremarkable(s)
  BY <1>2 DEF Unremarkable
<1>3. ASSUME NEW o \in Sessions,
             \/ StartSession(o) \/ StartRecords(o) \/ StartFails(o)
             \/ CancelSession(o) \/ Clock(o) \/ ActivationTimesOut(o)
             \/ \E result \in {None, "timed_out"} : PollEnds(o, result)
             \/ TickRecords(o) \/ EndSession(o) \/ BeginCapture(o)
      PROVE  o = s \/ Unremarkable(s)
  BY <1>1, <1>3 DEF Unremarkable, StartSession, StartRecords, StartFails,
       CancelSession, Clock, ActivationTimesOut, PollEnds, TickRecords,
       EndSession, BeginCapture
<1>4. CASE StartSession(s) \/ StartRecords(s) \/ StartFails(s)
  BY <1>1, <1>4 DEF Unremarkable, StartSession, StartRecords, StartFails, Row
<1>5. CASE CancelSession(s) \/ Clock(s)
  BY <1>1, <1>5 DEF Unremarkable, CancelSession, Clock, Row
<1>6. CASE ActivationTimesOut(s) \/ TickRecords(s)
           \/ \E result \in {None, "timed_out"} : PollEnds(s, result)
  BY <1>1, <1>6 DEF Unremarkable, ActivationTimesOut, TickRecords, PollEnds, Row
<1>7. ASSUME NEW o \in Sessions,
             StartReads(o) \/ StartPreviews(o) \/ StartCommits(o)
             \/ StartRaises(o) \/ BeginPoll(o) \/ PollNothing(o)
             \/ BeginRestore(o) \/ TickCommits(o) \/ TickRaises(o)
      PROVE  Unremarkable(s)
  BY <1>2, <1>7 DEF StartReads, StartPreviews, StartCommits, StartRaises,
       BeginPoll, PollNothing, BeginRestore, TickCommits, TickRaises
<1>8. ASSUME \/ TickReads \/ TickPreviews \/ Synchronize \/ EditPeer
             \/ CopyDesired \/ Restart \/ UNCHANGED vars
             \/ \E r \in 1..Len(sets) : Rollback(r)
      PROVE  Unremarkable(s)
  BY <1>2, <1>8 DEF TickReads, TickPreviews, Synchronize, EditPeer,
       CopyDesired, Restart, Rollback, vars
<1>9. CASE SaveGeometry
  BY <1>9, GeometryRows DEF Unremarkable
<1>. QED
  BY <1>3, <1>4, <1>5, <1>6, <1>7, <1>8, <1>9
     DEF Next, TickStep, StartStep

(***************************************************************************)
(* begin_enrollment_capture sees the activation applied at exactly its     *)
(* revision, so faces are captured only while the runtime runs             *)
(* face_enrollment on the camera.                                          *)
(***************************************************************************)
THEOREM CapturesOnlyInEnrollment == Spec => CapturesInEnrollment
<1>1. ASSUME CameraInv, [Next]_vars, NEW s \in Sessions,
             rows[s].status # "capturing", rows'[s].status = "capturing"
      PROVE  applied = Len(sets) /\ sets[applied].apps = "face_enrollment"
  <2>1. ~EndSession(s)
    <3>1. \A result \in ResultCode : TerminalStatus[result] # "capturing"
      BY DEF ResultCode, TerminalStatus
    <3>2. rows \in [Sessions -> Row] /\ rows[s] \in Row
      BY <1>1 DEF CameraInv, TypeOK
    <3>3. ASSUME EndSession(s) PROVE FALSE
      <4>1. PICK result \in ResultCode :
              rows' = [rows EXCEPT ![s].result = result,
                                   ![s].status = TerminalStatus[result]]
        BY <3>2, <3>3 DEF EndSession, Row, ResultCode
      <4>. QED
        BY <1>1, <3>1, <3>2, <4>1 DEF Row
    <3>. QED
      BY <3>3
  <2>2. BeginCapture(s)
    BY <1>1, <2>1, StatusSteps DEF CameraInv, Unremarkable
  <2>. QED
    BY <1>1, <2>2
       DEF BeginCapture, IsRevisionApplied, CameraInv, ActivationInv, Borrows
<1>2. CameraInv /\ [Next]_vars =>
        [\A s \in Sessions :
           rows[s].status # "capturing" /\ rows'[s].status = "capturing" =>
             applied = Len(sets) /\ sets[applied].apps = "face_enrollment"]_vars
  BY <1>1
<1>. QED
  BY <1>2, CameraInvariant, PTL DEF Spec, CapturesInEnrollment

(***************************************************************************)
(* reconcile_enrollment_sessions ends a session once its restoration is    *)
(* applied, and the camera then runs the prior applications, unless saved  *)
(* geometries replaced the restoration by a set of their own.              *)
(***************************************************************************)
THEOREM RestoredAtTheEnd ==
    ASSUME "geometry" \notin Disturbances
    PROVE  Spec => RestoredOnTerminal
<1>1. ASSUME CameraInv, [Next]_vars, NEW s \in Sessions,
             rows[s].status = "restoring", rows'[s].status \in Terminal
      PROVE  applied = Len(sets) /\ sets[applied].apps = "prior"
  <2>1. EndSession(s)
    BY <1>1, StatusSteps DEF CameraInv, Unremarkable, BeginCapture, Terminal
  <2>. QED
    BY <1>1, <2>1
       DEF EndSession, IsRevisionApplied, CameraInv, RestorationInv, Returns
<1>2. CameraInv /\ [Next]_vars =>
        [\A s \in Sessions :
           rows[s].status = "restoring" /\ rows'[s].status \in Terminal =>
             applied = Len(sets) /\ sets[applied].apps = "prior"]_vars
  BY <1>1
<1>. QED
  BY <1>2, CameraInvariant, PTL DEF Spec, RestoredOnTerminal

-------------------------------------------------------------------------------
(* A camera that no session owns is back at its prior applications.  This  *)
(* fails when a session is cancelled or swept under its own start request, *)
(* an older set is committed again or a geometry is committed during a     *)
(* restoration, so none of these happens here; edits of other cameras,     *)
(* commits that copy the desired set and restarts of the API process do.   *)
Undisturbed == Disturbances \cap {"overtake", "rollback", "geometry"} = {}

Starting(s) == starts[s].step # "idle"

(* The request has not committed its set, and perhaps never will. *)
Uncommitted(s) == starts[s].step \in {"read", "preview", "commit", "fail"}

Restored(s) == \E r \in 1..Len(sets) : sets[r].key = RestoreKey(s)

Recording(s) == tick.session = s /\ tick.step = "record"

Returning(s) == rows[s].status \in {"restoring"} \cup Terminal

(* Nothing else ends a session before the request that started it ends.    *)
SessionInv(s) ==
    /\ Starting(s) => /\ rows[s].status = "activating"
                      /\ ~rows[s].overdue
                      /\ rows[s].activation = 0
    /\ Uncommitted(s) => Current.apps = "prior"
    /\ rows[s].status = "none" => ~rows[s].overdue /\ rows[s].activation = 0
    /\ Restored(s) \/ rows[s].restoration # 0 => Returning(s)
    /\ IsActive(s) /\ (Restored(s) \/ rows[s].restoration # 0 \/ Recording(s))
         => Current.apps = "prior"

OneActive ==
    \A s, o \in Sessions : IsActive(s) /\ IsActive(o) => s = o

NoneActive == \A s \in Sessions : ~IsActive(s)

TickInv ==
    tick.step \in {"read", "preview", "commit", "record"} =>
      tick.session \in Sessions /\ rows[tick.session].status = "restoring"

ReturnInv ==
    /\ OneActive
    /\ TickInv
    /\ \A s \in Sessions : SessionInv(s)
    /\ NoneActive => Current.apps = "prior"

(* What a step does to the sets, as far as sessions can tell.              *)
LEMMA SetsSame ==
    ASSUME UNCHANGED sets
    PROVE  /\ Current' = Current
           /\ \A s \in Sessions : Restored(s)' <=> Restored(s)
  BY DEF Current, Restored, RestoreKey

LEMMA SetsGrow ==
    ASSUME TypeOK, NEW e \in AssignmentSet, sets' = Append(sets, e)
    PROVE  /\ Current' = e
           /\ \A s \in Sessions :
                Restored(s)' <=> Restored(s) \/ e.key = RestoreKey(s)
<1>1. /\ Len(sets) \in Nat
      /\ Len(sets') = Len(sets) + 1
      /\ \A r \in 1..Len(sets) : sets'[r] = sets[r]
      /\ sets'[Len(sets) + 1] = e
  BY AppendSet DEF TypeOK
<1>2. Current' = e
  BY <1>1 DEF Current
<1>3. ASSUME NEW s \in Sessions
      PROVE  Restored(s)' <=> Restored(s) \/ e.key = RestoreKey(s)
  <2>1. RestoreKey(s)' = RestoreKey(s)
    BY DEF RestoreKey
  <2>2. \A r \in 1..Len(sets') : r \in 1..Len(sets) \/ r = Len(sets) + 1
    BY <1>1
  <2>3. \A r \in 1..Len(sets) : r \in 1..Len(sets')
    BY <1>1
  <2>4. Len(sets) + 1 \in 1..Len(sets')
    BY <1>1
  <2>. QED
    BY <1>1, <2>1, <2>2, <2>3, <2>4 DEF Restored
<1>. QED
  BY <1>2, <1>3

(* A session whose row and request stand still. *)
LEMMA SessionKept ==
    ASSUME NEW s \in Sessions, SessionInv(s), rows'[s] = rows[s],
           starts'[s] = starts[s],
           \/ Current'.apps \in {Current.apps, "prior"}
           \/ ~IsActive(s),
           Restored(s)' => Restored(s)
                           \/ (Returning(s) /\ Current'.apps = "prior"),
           Recording(s)' => Recording(s) \/ Current'.apps = "prior"
    PROVE  SessionInv(s)'
<1>1. /\ (Starting(s)' <=> Starting(s)) /\ (Uncommitted(s)' <=> Uncommitted(s))
      /\ (Returning(s)' <=> Returning(s)) /\ (IsActive(s)' <=> IsActive(s))
  BY DEF Starting, Uncommitted, Returning, IsActive
<1>2. Uncommitted(s) => IsActive(s)
  BY DEF SessionInv, Uncommitted, Starting, IsActive, Active
<1>. QED
  BY <1>1, <1>2 DEF SessionInv

LEMMA ActiveStatus ==
    ASSUME NEW s \in Sessions
    PROVE  /\ IsActive(s) =>
                rows[s].status \in {"activating", "capturing", "restoring"}
           /\ rows[s].status \in {"activating", "capturing", "restoring"}
                => IsActive(s)
           /\ Returning(s) /\ IsActive(s) => rows[s].status = "restoring"
  BY DEF IsActive, Active, Returning, Terminal

LEMMA InitReturn == ASSUME Init PROVE ReturnInv
<1>1. Len(sets) = 1 /\ Current.apps = "prior" /\ sets[1].key = None
  BY DEF Init, Current
<1>2. \A s \in Sessions : /\ ~IsActive(s) /\ ~Starting(s) /\ ~Uncommitted(s)
                          /\ rows[s].restoration = 0
                          /\ ~rows[s].overdue /\ rows[s].activation = 0
  BY DEF Init, IsActive, Active, Starting, Uncommitted, IdleThread
<1>3. \A s \in Sessions : ~Restored(s)
  <2>. SUFFICES ASSUME NEW s \in Sessions, NEW r \in 1..Len(sets)
                PROVE  sets[r].key # RestoreKey(s)
    BY DEF Restored
  <2>1. r = 1
    BY <1>1
  <2>. QED
    BY <1>1, <2>1, KeysDiffer
<1>4. TickInv
  BY DEF Init, TickInv, IdleThread
<1>. QED
  BY <1>1, <1>2, <1>3, <1>4 DEF ReturnInv, OneActive, SessionInv

(* A step of one session that keeps the sets: what is left to show of it.  *)
LEMMA SessionStep ==
    ASSUME ReturnInv, NEW s \in Sessions, UNCHANGED sets,
           \A o \in Sessions \ {s} :
             rows'[o] = rows[o] /\ starts'[o] = starts[o],
           \A o \in Sessions : Recording(o)' => Recording(o),
           IsActive(s)' => IsActive(s),
           ~IsActive(s)' => ~IsActive(s) \/ Current.apps = "prior",
           SessionInv(s)', TickInv'
    PROVE  ReturnInv'
<1>1. Current' = Current /\ \A o \in Sessions : Restored(o)' <=> Restored(o)
  BY SetsSame
<1>2. \A o \in Sessions \ {s} : SessionInv(o)'
  BY <1>1, SessionKept DEF ReturnInv
<1>3. \A o \in Sessions \ {s} : IsActive(o)' <=> IsActive(o)
  BY DEF IsActive
<1>4. OneActive'
  BY <1>3 DEF ReturnInv, OneActive
<1>5. NoneActive' => Current'.apps = "prior"
  BY <1>1, <1>3 DEF ReturnInv, NoneActive
<1>. QED
  BY <1>2, <1>4, <1>5 DEF ReturnInv

(* A step that keeps rows and requests. *)
LEMMA RowsStand ==
    ASSUME ReturnInv, UNCHANGED <<rows, starts>>,
           Current'.apps \in {Current.apps, "prior"},
           \A s \in Sessions :
             /\ Restored(s)' => Restored(s)
                                \/ (Returning(s) /\ Current'.apps = "prior")
             /\ Recording(s)' => Recording(s) \/ Current'.apps = "prior",
           TickInv'
    PROVE  ReturnInv'
<1>1. \A s \in Sessions : SessionInv(s)'
  BY SessionKept DEF ReturnInv
<1>2. \A s \in Sessions : IsActive(s)' <=> IsActive(s)
  BY DEF IsActive
<1>3. OneActive' /\ (NoneActive' => Current'.apps = "prior")
  BY <1>2 DEF ReturnInv, OneActive, NoneActive
<1>. QED
  BY <1>1, <1>3 DEF ReturnInv

(* Before the restoration begins nothing has been restored. *)
LEMMA NotReturning ==
    ASSUME ReturnInv, NEW s \in Sessions, ~Returning(s)
    PROVE  ~Restored(s) /\ rows[s].restoration = 0 /\ ~Recording(s)
<1>1. rows[s].status # "restoring"
  BY DEF Returning
<1>. QED
  BY <1>1 DEF ReturnInv, SessionInv, TickInv, Recording

LEMMA StartSessionReturns ==
    ASSUME TypeOK, ReturnInv, NEW s \in Sessions, StartSession(s)
    PROVE  ReturnInv'
<1>1. /\ rows[s].status = "none" /\ NoneActive /\ Current.apps = "prior"
      /\ UNCHANGED <<sets, tick>>
  BY DEF StartSession, NoneActive, ReturnInv, setVars
<1>2. rows[s] \in Row /\ starts[s] \in Thread
  BY DEF TypeOK
<1>3. /\ rows'[s].status = "activating"
      /\ rows'[s].overdue = rows[s].overdue
      /\ rows'[s].activation = rows[s].activation
      /\ rows'[s].restoration = rows[s].restoration
      /\ starts'[s].step = "read"
      /\ \A o \in Sessions \ {s} :
           rows'[o] = rows[o] /\ starts'[o] = starts[o]
  BY <1>2 DEF StartSession, TypeOK, Row, Thread
<1>4. ~Returning(s)
  BY <1>1 DEF Returning, Terminal
<1>5. Current' = Current /\ \A o \in Sessions : Restored(o)' <=> Restored(o)
  BY <1>1, SetsSame
<1>6. \A o \in Sessions : Recording(o)' <=> Recording(o)
  BY <1>1 DEF Recording
<1>7. \A o \in Sessions \ {s} : SessionInv(o)' /\ ~IsActive(o)'
  BY <1>1, <1>3, <1>5, <1>6, SessionKept DEF ReturnInv, NoneActive, IsActive
<1>8. SessionInv(s)'
  <2>1. ~Restored(s) /\ rows[s].restoration = 0 /\ ~Recording(s)
    BY <1>4, NotReturning
  <2>2. ~rows[s].overdue /\ rows[s].activation = 0
    BY <1>1 DEF ReturnInv, SessionInv
  <2>. QED
    BY <1>1, <1>3, <1>5, <1>6, <2>1, <2>2 DEF SessionInv
<1>9. TickInv'
  <2>1. tick.session = s => rows[tick.session].status # "restoring"
    BY <1>1
  <2>. QED
    BY <1>1, <1>3, <2>1 DEF ReturnInv, TickInv
<1>10. OneActive' /\ ~NoneActive'
  <2>1. IsActive(s)'
    BY <1>3 DEF IsActive, Active
  <2>. QED
    BY <1>7, <2>1 DEF OneActive, NoneActive
<1>. QED
  BY <1>7, <1>8, <1>9, <1>10 DEF ReturnInv

LEMMA StartReturns ==
    ASSUME TypeOK, ReturnInv, NEW s \in Sessions,
           StartReads(s) \/ StartPreviews(s) \/ StartRaises(s)
    PROVE  ReturnInv'
<1>1. starts[s] \in Thread
  BY DEF TypeOK
<1>2. /\ UNCHANGED <<sets, rows, tick>>
      /\ Uncommitted(s)
      /\ starts'[s].step \in {"preview", "commit", "fail"}
      /\ \A o \in Sessions \ {s} : starts'[o] = starts[o]
  <2>1. CASE StartReads(s)
    BY <1>1, <2>1 DEF StartReads, setVars, Uncommitted, ReadTarget, TypeOK, Thread
  <2>2. CASE StartPreviews(s)
    BY <1>1, <2>2
       DEF StartPreviews, setVars, Uncommitted, PreviewTarget, TypeOK, Thread
  <2>3. CASE StartRaises(s)
    BY <1>1, <2>3 DEF StartRaises, setVars, Uncommitted, TypeOK, Thread
  <2>. QED
    BY <2>1, <2>2, <2>3
<1>3. Current' = Current /\ \A o \in Sessions : Restored(o)' <=> Restored(o)
  BY <1>2, SetsSame
<1>4. SessionInv(s)'
  <2>1. Starting(s) /\ SessionInv(s)
    BY <1>2 DEF Uncommitted, Starting, ReturnInv
  <2>. QED
    BY <1>2, <1>3, <2>1
       DEF SessionInv, Recording, Returning, IsActive
<1>5. TickInv'
  BY <1>2 DEF ReturnInv, TickInv
<1>6. /\ IsActive(s)' <=> IsActive(s)
      /\ \A o \in Sessions : Recording(o)' <=> Recording(o)
  BY <1>2 DEF IsActive, Recording
<1>. QED
  BY <1>2, <1>4, <1>5, <1>6, SessionStep

LEMMA StartEndReturns ==
    ASSUME TypeOK, ReturnInv, NEW s \in Sessions,
           StartRecords(s) \/ StartFails(s)
    PROVE  ReturnInv'
<1>1. starts[s] \in Thread /\ rows[s] \in Row
  BY DEF TypeOK
<1>2. /\ UNCHANGED <<sets, tick>>
      /\ Starting(s)
      /\ starts'[s].step = "idle"
      /\ \A o \in Sessions \ {s} :
           starts'[o] = starts[o] /\ rows'[o] = rows[o]
  BY <1>1 DEF StartRecords, StartFails, setVars, Starting, IdleThread, TypeOK
<1>3. Current' = Current /\ \A o \in Sessions : Restored(o)' <=> Restored(o)
  BY <1>2, SetsSame
<1>4. rows[s].status = "activating"
  BY <1>2 DEF ReturnInv, SessionInv
<1>5. /\ rows'[s].status \in {"activating", "failed"}
      /\ rows'[s].restoration = rows[s].restoration
      /\ rows'[s].status = "failed" => Uncommitted(s)
  BY <1>1, <1>4 DEF StartRecords, StartFails, Uncommitted, TypeOK, Row
<1>6. ~Restored(s) /\ rows[s].restoration = 0 /\ ~Recording(s)
  BY <1>4, NotReturning DEF Returning, Terminal
<1>7. \A o \in Sessions : Recording(o)' <=> Recording(o)
  BY <1>2 DEF Recording
<1>8. SessionInv(s)'
  BY <1>2, <1>3, <1>5, <1>6, <1>7 DEF SessionInv, Starting, Uncommitted
<1>9. TickInv'
  BY <1>2, <1>4 DEF ReturnInv, TickInv
<1>10. /\ IsActive(s)
       /\ ~IsActive(s)' => Current.apps = "prior"
  BY <1>4, <1>5 DEF IsActive, Active, ReturnInv, SessionInv
<1>. QED
  BY <1>2, <1>7, <1>8, <1>9, <1>10, SessionStep

(* The commit of a request: the camera goes to a session that is active.   *)
LEMMA StartCommitReturns ==
    ASSUME TypeOK, ReturnInv, NEW s \in Sessions, StartCommits(s)
    PROVE  ReturnInv'
<1>1. starts[s] \in Thread
  BY DEF TypeOK
<1>2. /\ UNCHANGED <<rows, tick>>
      /\ Starting(s)
      /\ starts'[s].step = "record"
      /\ \A o \in Sessions \ {s} : starts'[o] = starts[o]
  BY <1>1 DEF StartCommits, Recorded, Starting, TypeOK, Thread
<1>3. rows[s].status = "activating" /\ IsActive(s)
  BY <1>2 DEF ReturnInv, SessionInv, IsActive, Active
<1>4. ~Restored(s) /\ rows[s].restoration = 0 /\ ~Recording(s)
  BY <1>3, NotReturning DEF Returning, Terminal
<1>5. \A o \in Sessions : /\ Recording(o)' <=> Recording(o)
                          /\ IsActive(o)' <=> IsActive(o)
  BY <1>2 DEF Recording, IsActive
<1>6. TickInv'
  BY <1>2 DEF ReturnInv, TickInv
<1>7. \A o \in Sessions : Restored(o)' <=> Restored(o)
  <2>1. CASE UNCHANGED sets
    BY <2>1, SetsSame
  <2>2. CASE ~UNCHANGED sets
    <3>1. PICK e \in AssignmentSet :
            sets' = Append(sets, e) /\ e.key = ActivateKey(s)
      <4>1. [apps |-> "face_enrollment", geometry |-> starts[s].prior,
             peer |-> starts[s].peer, key |-> ActivateKey(s)] \in AssignmentSet
        BY <1>1, KeysDiffer DEF AssignmentSet, Thread
      <4>. QED
        BY <2>2, <4>1 DEF StartCommits, CommitTarget
    <3>. QED
      BY <3>1, SetsGrow, KeysDiffer
  <2>. QED
    BY <2>1, <2>2
<1>8. \A o \in Sessions \ {s} : ~IsActive(o)
  BY <1>3 DEF ReturnInv, OneActive
<1>9. \A o \in Sessions \ {s} : SessionInv(o)'
  BY <1>2, <1>5, <1>7, <1>8, SessionKept DEF ReturnInv
<1>10. SessionInv(s)'
  <2>1. ~rows[s].overdue /\ rows[s].activation = 0
    BY <1>2 DEF ReturnInv, SessionInv
  <2>. QED
    BY <1>2, <1>3, <1>4, <1>5, <1>7, <2>1 DEF SessionInv, Uncommitted
<1>11. OneActive' /\ ~NoneActive'
  BY <1>3, <1>5 DEF ReturnInv, OneActive, NoneActive
<1>. QED
  BY <1>6, <1>9, <1>10, <1>11 DEF ReturnInv

(* The row of a session whose request has ended. *)
LEMMA RowReturns ==
    ASSUME TypeOK, ReturnInv, Undisturbed, NEW s \in Sessions,
           CancelSession(s) \/ Clock(s) \/ BeginCapture(s)
           \/ ActivationTimesOut(s)
           \/ \E result \in {None, "timed_out"} : PollEnds(s, result)
    PROVE  ReturnInv'
<1>1. rows[s] \in Row /\ tick \in Thread /\ rows \in [Sessions -> Row]
  BY DEF TypeOK
<1>2. /\ UNCHANGED <<sets, starts>>
      /\ rows[s].status \in {"activating", "capturing"}
      /\ ~Starting(s)
      /\ rows'[s].status \in {"activating", "capturing", "restoring"}
      /\ rows'[s].restoration = rows[s].restoration
      /\ \A o \in Sessions \ {s} : rows'[o] = rows[o]
      /\ \/ tick' = tick
         \/ tick'.step = "read" /\ tick'.session = s
            /\ rows'[s].status = "restoring"
  <2>1. CASE CancelSession(s)
    BY <1>1, <2>1
       DEF CancelSession, Overtakes, Undisturbed, Starting, setVars, Row
  <2>2. CASE Clock(s)
    <3>1. UNCHANGED <<sets, starts, tick>>
      BY <2>2 DEF Clock, setVars
    <3>2. rows[s].status \in {"activating", "capturing"}
      BY <2>2 DEF Clock
    <3>3. ~Starting(s)
      BY <2>2 DEF Clock, Overtakes, Undisturbed, Starting, ReturnInv, SessionInv
    <3>4. rows' = [rows EXCEPT ![s].overdue = TRUE]
      BY <2>2 DEF Clock
    <3>5. rows'[s].status = rows[s].status
          /\ rows'[s].restoration = rows[s].restoration
          /\ \A o \in Sessions \ {s} : rows'[o] = rows[o]
      BY <1>1, <3>4 DEF Row
    <3>. QED
      BY <3>1, <3>2, <3>3, <3>5
  <2>3. CASE BeginCapture(s)
    <3>1. /\ UNCHANGED <<sets, starts, tick>>
          /\ rows[s].status = "activating"
          /\ rows[s].activation # 0
      BY <2>3 DEF BeginCapture, IsRevisionApplied, setVars
    <3>2. ~Starting(s)
      BY <3>1 DEF ReturnInv, SessionInv
    <3>3. rows' = [rows EXCEPT ![s].status = "capturing", ![s].overdue = FALSE]
      BY <2>3 DEF BeginCapture
    <3>4. rows'[s].status = "capturing"
          /\ rows'[s].restoration = rows[s].restoration
          /\ \A o \in Sessions \ {s} : rows'[o] = rows[o]
      BY <1>1, <3>3 DEF Row
    <3>. QED
      BY <3>1, <3>2, <3>4
  <2>4. CASE ActivationTimesOut(s)
    <3>1. UNCHANGED <<sets, starts>> /\ tick' = Restoring(s)
          /\ rows[s].status = "activating" /\ rows[s].overdue
      BY <2>4 DEF ActivationTimesOut, setVars
    <3>2. ~Starting(s)
      BY <3>1 DEF ReturnInv, SessionInv
    <3>3. tick'.step = "read" /\ tick'.session = s
      BY <3>1 DEF Restoring, IdleThread
    <3>4. rows'[s].status = "restoring"
          /\ rows'[s].restoration = rows[s].restoration
          /\ \A o \in Sessions \ {s} : rows'[o] = rows[o]
      BY <1>1, <2>4 DEF ActivationTimesOut, Row
    <3>. QED
      BY <3>1, <3>2, <3>3, <3>4
  <2>5. CASE \E result \in {None, "timed_out"} : PollEnds(s, result)
    <3>1. UNCHANGED <<sets, starts>> /\ tick' = Restoring(s)
          /\ rows[s].status = "capturing"
      BY <2>5 DEF PollEnds, setVars
    <3>2. ~Starting(s)
      BY <3>1 DEF ReturnInv, SessionInv
    <3>3. tick'.step = "read" /\ tick'.session = s
      BY <3>1 DEF Restoring, IdleThread
    <3>4. rows'[s].status = "restoring"
          /\ rows'[s].restoration = rows[s].restoration
          /\ \A o \in Sessions \ {s} : rows'[o] = rows[o]
      BY <1>1, <2>5 DEF PollEnds, Row
    <3>. QED
      BY <3>1, <3>2, <3>3, <3>4
  <2>. QED
    BY <2>1, <2>2, <2>3, <2>4, <2>5
<1>3. Current' = Current /\ \A o \in Sessions : Restored(o)' <=> Restored(o)
  BY <1>2, SetsSame
<1>4. ~Restored(s) /\ rows[s].restoration = 0 /\ ~Recording(s)
  BY <1>2, NotReturning DEF Returning, Terminal
<1>5. \A o \in Sessions : Recording(o)' => Recording(o)
  BY <1>2 DEF Recording
<1>6. ~Starting(s)' /\ ~Uncommitted(s)'
  BY <1>2 DEF Starting, Uncommitted
<1>7. SessionInv(s)'
  BY <1>2, <1>3, <1>4, <1>5, <1>6 DEF SessionInv
<1>8. TickInv'
  BY <1>2 DEF ReturnInv, TickInv
<1>9. IsActive(s) /\ IsActive(s)'
  BY <1>2 DEF IsActive, Active
<1>. QED
  BY <1>2, <1>5, <1>7, <1>8, <1>9, SessionStep

(* The reconciler between its commits. *)
LEMMA TickReturns ==
    ASSUME TypeOK, ReturnInv, NEW s \in Sessions,
           \/ BeginPoll(s) \/ PollNothing(s) \/ BeginRestore(s)
           \/ TickReads \/ TickPreviews \/ TickRaises(s)
    PROVE  ReturnInv'
<1>1. tick \in Thread
  BY DEF TypeOK
<1>2. UNCHANGED <<sets, rows, starts>>
  BY DEF BeginPoll, PollNothing, BeginRestore, TickReads, TickPreviews,
     TickRaises, setVars
<1>3. \/ tick'.step \in {"idle", "poll"}
      \/ tick'.step = "read" /\ tick'.session = s
         /\ rows[s].status = "restoring"
      \/ /\ tick.step \in {"read", "preview"}
         /\ tick'.step \in {"preview", "commit"}
         /\ tick'.session = tick.session
  <2>1. CASE BeginPoll(s) \/ PollNothing(s) \/ TickRaises(s)
    <3>1. CASE BeginPoll(s)
      BY <3>1 DEF BeginPoll, IdleThread
    <3>2. CASE PollNothing(s) \/ TickRaises(s)
      BY <3>2 DEF PollNothing, TickRaises, IdleThread
    <3>. QED
      BY <2>1, <3>1, <3>2
  <2>2. CASE BeginRestore(s)
    BY <2>2 DEF BeginRestore, Restoring, IdleThread
  <2>3. CASE TickReads
    BY <1>1, <2>3 DEF TickReads, ReadTarget, Thread
  <2>4. CASE TickPreviews
    BY <1>1, <2>4 DEF TickPreviews, PreviewTarget, Thread
  <2>. QED
    BY <2>1, <2>2, <2>3, <2>4
<1>4. TickInv'
  BY <1>2, <1>3 DEF ReturnInv, TickInv
<1>5. \A o \in Sessions : ~Recording(o)'
  BY <1>3 DEF Recording
<1>6. Current' = Current /\ \A o \in Sessions : Restored(o)' <=> Restored(o)
  BY <1>2, SetsSame
<1>. QED
  BY <1>2, <1>4, <1>5, <1>6, RowsStand

(* The commit of a restoration. *)
LEMMA TickCommitReturns ==
    ASSUME TypeOK, ReturnInv, NEW s \in Sessions, TickCommits(s)
    PROVE  ReturnInv'
<1>1. tick \in Thread
  BY DEF TypeOK
<1>2. /\ UNCHANGED <<rows, starts>>
      /\ tick.step = "commit" /\ tick.session = s
      /\ tick'.step = "record" /\ tick'.session = s
  BY <1>1 DEF TickCommits, Recorded, Thread
<1>3. rows[s].status = "restoring"
  BY <1>2 DEF ReturnInv, TickInv
<1>4. TickInv'
  BY <1>2, <1>3 DEF TickInv
<1>5. /\ Current'.apps = "prior"
      /\ \A o \in Sessions : Restored(o)' => Restored(o) \/ o = s
  <2>1. CASE Committed(RestoreKey(s)) # {}
    <3>1. UNCHANGED sets
      BY <2>1 DEF TickCommits, CommitTarget
    <3>2. Restored(s) /\ IsActive(s)
      BY <1>3, <2>1 DEF Committed, Restored, IsActive, Active
    <3>. QED
      BY <3>1, <3>2, SetsSame DEF ReturnInv, SessionInv
  <2>2. CASE Committed(RestoreKey(s)) = {}
    <3>1. PICK e \in AssignmentSet :
            /\ sets' = Append(sets, e)
            /\ e.key = RestoreKey(s) /\ e.apps = "prior"
      <4>1. [apps |-> "prior", geometry |-> tick.prior, peer |-> tick.peer,
             key |-> RestoreKey(s)] \in AssignmentSet
        BY <1>1, KeysDiffer DEF AssignmentSet, Thread
      <4>. QED
        BY <2>2, <4>1 DEF TickCommits, CommitTarget
    <3>2. \A o \in Sessions : RestoreKey(o) = RestoreKey(s) => o = s
      BY DEF RestoreKey
    <3>. QED
      BY <3>1, <3>2, SetsGrow
  <2>. QED
    BY <2>1, <2>2
<1>6. \A o \in Sessions : Restored(o)' =>
        Restored(o) \/ (Returning(o) /\ Current'.apps = "prior")
  BY <1>3, <1>5 DEF Returning
<1>. QED
  BY <1>2, <1>4, <1>5, <1>6, RowsStand

LEMMA TickRecordReturns ==
    ASSUME TypeOK, ReturnInv, NEW s \in Sessions, TickRecords(s)
    PROVE  ReturnInv'
<1>1. rows[s] \in Row /\ rows \in [Sessions -> Row]
  BY DEF TypeOK
<1>2. /\ UNCHANGED <<sets, starts>> /\ Recording(s) /\ tick'.step = "idle"
  BY DEF TickRecords, setVars, Recording, IdleThread
<1>3. rows[s].status = "restoring" /\ IsActive(s)
  BY <1>2 DEF ReturnInv, TickInv, Recording, IsActive, Active
<1>4. rows' = [rows EXCEPT ![s].restoration = tick.seen]
  BY <1>3 DEF TickRecords
<1>5. /\ rows'[s].status = "restoring"
      /\ \A o \in Sessions \ {s} : rows'[o] = rows[o]
  BY <1>1, <1>3, <1>4 DEF Row
<1>6. Current.apps = "prior" /\ ~Starting(s)
  BY <1>2, <1>3 DEF ReturnInv, SessionInv
<1>7. Current' = Current
  BY <1>2, SetsSame
<1>8. ~Starting(s)' /\ ~Uncommitted(s)'
  BY <1>2, <1>6 DEF Starting, Uncommitted
<1>9. SessionInv(s)'
  BY <1>5, <1>6, <1>7, <1>8 DEF SessionInv, Returning
<1>10. TickInv' /\ \A o \in Sessions : ~Recording(o)'
  BY <1>2 DEF TickInv, Recording
<1>. QED
  BY <1>2, <1>3, <1>5, <1>6, <1>9, <1>10, SessionStep

LEMMA EndReturns ==
    ASSUME TypeOK, ReturnInv, NEW s \in Sessions, EndSession(s)
    PROVE  ReturnInv'
<1>1. rows[s] \in Row /\ rows \in [Sessions -> Row]
  BY DEF TypeOK
<1>2. /\ UNCHANGED <<sets, starts, tick>> /\ tick.step = "idle"
      /\ rows[s].status = "restoring" /\ rows[s].restoration # 0
  BY DEF EndSession, setVars, IsRevisionApplied
<1>3. Current.apps = "prior" /\ ~Starting(s)
  BY <1>2 DEF ReturnInv, SessionInv, IsActive, Active
<1>4. PICK result \in ResultCode :
        rows' = [rows EXCEPT ![s].result = result,
                             ![s].status = TerminalStatus[result]]
  BY <1>1 DEF EndSession, Row, ResultCode
<1>5. TerminalStatus[result] \in Terminal
  BY DEF TerminalStatus, Terminal, ResultCode
<1>6. /\ rows'[s].status \in Terminal
      /\ \A o \in Sessions \ {s} : rows'[o] = rows[o]
  BY <1>1, <1>4, <1>5 DEF Row
<1>7. Current' = Current
  BY <1>2, SetsSame
<1>8. ~Starting(s)' /\ ~Uncommitted(s)'
  BY <1>2, <1>3 DEF Starting, Uncommitted
<1>9. SessionInv(s)'
  BY <1>3, <1>6, <1>7, <1>8 DEF SessionInv, Returning, Terminal
<1>10. TickInv' /\ \A o \in Sessions : ~Recording(o)'
  BY <1>2 DEF TickInv, Recording
<1>11. IsActive(s)
  BY <1>2 DEF IsActive, Active
<1>. QED
  BY <1>2, <1>3, <1>6, <1>9, <1>10, <1>11, SessionStep

(* Commits that copy the desired set, and a restart. *)
LEMMA CopyReturns ==
    ASSUME TypeOK, ReturnInv, EditPeer \/ CopyDesired
    PROVE  ReturnInv'
<1>1. UNCHANGED <<rows, starts, tick>>
  BY DEF EditPeer, CopyDesired
<1>2. PICK e \in AssignmentSet :
        /\ sets' = Append(sets, e)
        /\ e.key = None /\ e.apps = Current.apps
  <2>1. Current \in AssignmentSet /\ edits \in Nat
    BY CurrentSet DEF TypeOK
  <2>2. CASE EditPeer
    <3>. DEFINE e == [Current EXCEPT !.peer = edits + 1, !.key = None]
    <3>1. edits + 1 \in Nat
      BY <2>1
    <3>2. e \in AssignmentSet /\ e.key = None /\ e.apps = Current.apps
      BY <2>1, <3>1 DEF AssignmentSet
    <3>. QED
      BY <2>2, <3>2 DEF EditPeer
  <2>3. CASE CopyDesired
    <3>1. sets' = Append(sets, [Current EXCEPT !.key = None])
      BY <2>3 DEF CopyDesired
    <3>. QED
      BY <2>1, <3>1 DEF AssignmentSet
  <2>. QED
    BY <2>2, <2>3
<1>3. Current'.apps = Current.apps
      /\ \A s \in Sessions : Restored(s)' <=> Restored(s)
  BY <1>2, SetsGrow, KeysDiffer
<1>4. TickInv' /\ \A s \in Sessions : Recording(s)' <=> Recording(s)
  BY <1>1 DEF ReturnInv, TickInv, Recording
<1>. QED
  BY <1>1, <1>3, <1>4, RowsStand

LEMMA RestartReturns ==
    ASSUME TypeOK, ReturnInv, Restart
    PROVE  ReturnInv'
<1>1. UNCHANGED <<sets, rows>> /\ tick'.step = "idle"
  BY DEF Restart, setVars, IdleThread
<1>2. \A s \in Sessions : /\ ~Starting(s)' /\ ~Uncommitted(s)'
                          /\ ~Recording(s)'
                          /\ IsActive(s)' <=> IsActive(s)
  BY DEF Restart, Starting, Uncommitted, Recording, IsActive, IdleThread
<1>3. Current' = Current /\ \A s \in Sessions : Restored(s)' <=> Restored(s)
  BY <1>1, SetsSame
<1>4. \A s \in Sessions : SessionInv(s)'
  BY <1>1, <1>2, <1>3 DEF ReturnInv, SessionInv, Returning
<1>5. TickInv'
  BY <1>1 DEF TickInv
<1>6. OneActive' /\ (NoneActive' => Current'.apps = "prior")
  BY <1>2, <1>3 DEF ReturnInv, OneActive, NoneActive
<1>. QED
  BY <1>4, <1>5, <1>6 DEF ReturnInv

LEMMA StandsReturns ==
    ASSUME ReturnInv, Synchronize \/ UNCHANGED vars
    PROVE  ReturnInv'
<1>1. UNCHANGED <<sets, rows, starts, tick>>
  BY DEF Synchronize, vars
<1>2. TickInv' /\ \A s \in Sessions : Recording(s)' <=> Recording(s)
  BY <1>1 DEF ReturnInv, TickInv, Recording
<1>. QED
  BY <1>1, <1>2, SetsSame, RowsStand

LEMMA NextReturns ==
    ASSUME TypeOK, ReturnInv, Undisturbed, [Next]_vars
    PROVE  ReturnInv'
<1>1. ASSUME NEW s \in Sessions,
             StartSession(s) \/ StartStep(s) \/ CancelSession(s) \/ Clock(s)
      PROVE  ReturnInv'
  BY <1>1, StartSessionReturns, StartReturns, StartEndReturns,
     StartCommitReturns, RowReturns DEF StartStep
<1>2. CASE TickStep
  <2>1. PICK s \in Sessions : TRUE
    BY EnrollmentAssumption
  <2>2. CASE TickReads \/ TickPreviews
    BY <2>1, <2>2, TickReturns
  <2>3. ASSUME NEW o \in Sessions,
               \/ BeginCapture(o) \/ ActivationTimesOut(o)
               \/ \E result \in {None, "timed_out"} : PollEnds(o, result)
        PROVE  ReturnInv'
    BY <2>3, RowReturns
  <2>4. ASSUME NEW o \in Sessions,
               \/ BeginPoll(o) \/ PollNothing(o) \/ BeginRestore(o)
               \/ TickCommits(o) \/ TickRaises(o) \/ TickRecords(o)
               \/ EndSession(o)
        PROVE  ReturnInv'
    BY <2>4, TickReturns, TickCommitReturns, TickRecordReturns, EndReturns
  <2>. QED
    BY <1>2, <2>2, <2>3, <2>4 DEF TickStep
<1>3. ~SaveGeometry /\ ~(\E r \in 1..Len(sets) : Rollback(r))
  BY DEF Undisturbed, SaveGeometry, Rollback, Disturb
<1>. QED
  BY <1>1, <1>2, <1>3, CopyReturns, RestartReturns, StandsReturns DEF Next

(***************************************************************************)
(* When no session is active and neither a request nor the reconciler is   *)
(* at work, the deployment's desired set runs the camera's prior           *)
(* applications: every way to end a session, a restart included, goes      *)
(* through the commit of a restoration or happens before the activation    *)
(* was committed.                                                          *)
(***************************************************************************)
THEOREM CameraIsReturned ==
    ASSUME Undisturbed
    PROVE  Spec => []CameraReturned
<1>1. Init => ReturnInv
  BY InitReturn
<1>2. TypeOK /\ ReturnInv /\ [Next]_vars => ReturnInv'
  BY NextReturns
<1>3. ReturnInv => CameraReturned
  BY DEF ReturnInv, NoneActive, CameraReturned, Idle
<1>. QED
  BY <1>1, <1>2, <1>3, CameraTypes, PTL DEF Spec

===============================================================================
