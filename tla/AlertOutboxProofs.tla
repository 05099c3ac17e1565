--------------------------- MODULE AlertOutboxProofs ---------------------------
(***************************************************************************)
(* The dispatcher keeps its contract for every number of workers, policies *)
(* and occurrences, whatever is repeated, lost, late or cut off.           *)
(***************************************************************************)
EXTENDS AlertOutbox, TLAPS

-------------------------------------------------------------------------------
(* What the operations do to the outbox. *)

(* Queueing keeps the rows that are there. *)
LEMMA QueueAdds ==
    ASSUME NEW messages, messages \subseteq Message, Queued \subseteq Message,
           outbox \in [Queued -> Row], Queue(messages)
    PROVE  /\ Queued' = Queued \cup messages
           /\ Queued' \subseteq Message
           /\ outbox' \in [Queued' -> Row]
           /\ \A m \in Queued : outbox'[m] = outbox[m]
           /\ \A m \in messages \ Queued : outbox'[m] = NewRow
<1>1. NewRow \in Row
  BY DEF NewRow, Row
<1>. QED
  BY <1>1 DEF Queue, Queued

LEMMA NoticesType ==
    ASSUME NEW e \in Event
    PROVE  Notices(e) \subseteq Message
<1>1. /\ e.status \in {"firing", "resolved"} /\ e.occ \in Occurrences
      /\ e.end \in Nat
  <2>1. CASE e \in [status : {"firing"}, occ : Occurrences, end : {0}]
    BY <2>1
  <2>2. CASE e \in [status : {"resolved"}, occ : Occurrences, end : Ends]
    BY <2>2, AlertAssumption DEF AlertAssumption
  <2>. QED
    BY <2>1, <2>2 DEF Event
<1>2. \A p \in Policies :
        [kind |-> e.status, occ |-> e.occ, end |-> e.end, policy |-> p, after |-> 0] \in Message
  BY <1>1 DEF Message
<1>. QED
  BY <1>2, AlertAssumption DEF Notices, AlertAssumption

LEMMA RemindersType ==
    ASSUME TypeOK
    PROVE  /\ DueReminders \subseteq Message
           /\ \A m \in DueReminders :
                /\ m.kind = "reminder" /\ m.occ = alert.occ /\ alert.state = "active"
                /\ m.end = 0 /\ m.policy \in Policies
                /\ \E n \in SentAbout(m.policy, m.occ) : m.after = outbox[n].sentAt
                /\ \A n \in SentAbout(m.policy, m.occ) : outbox[n].sentAt <= m.after
<1>. SUFFICES ASSUME NEW m \in DueReminders
              PROVE  /\ m \in Message
                     /\ m.kind = "reminder" /\ m.occ = alert.occ /\ alert.state = "active"
                     /\ m.end = 0 /\ m.policy \in Policies
                     /\ \E n \in SentAbout(m.policy, m.occ) : m.after = outbox[n].sentAt
                     /\ \A n \in SentAbout(m.policy, m.occ) : outbox[n].sentAt <= m.after
  OBVIOUS
<1>1. alert.state = "active"
  BY DEF DueReminders
<1>2. PICK p \in Repeating : \E n \in LastSent(p) : m = ReminderAfter(n)
  BY <1>1 DEF DueReminders
<1>. PICK n \in LastSent(p) : m = ReminderAfter(n)
  BY <1>2
<1>3. /\ n \in SentAbout(p, alert.occ) /\ n \in Queued
      /\ n.policy = p /\ n.occ = alert.occ
      /\ \A k \in SentAbout(p, alert.occ) : outbox[k].sentAt <= outbox[n].sentAt
  BY <1>2 DEF LastSent, SentAbout
<1>4. n \in Message /\ outbox[n].sentAt \in Nat
  BY <1>3 DEF TypeOK, Row
<1>. QED
  BY <1>1, <1>2, <1>3, <1>4 DEF ReminderAfter, Message

(* A row that is delivered stays a row. *)
LEMMA FinishedRow ==
    ASSUME TypeOK, NEW w \in Workers, worker[w].step = "answered",
           NEW result \in Results(w), worker[w].outcome # "none"
    PROVE  Finished(outbox[worker[w].message], result) \in Row
<1>. DEFINE row == outbox[worker[w].message]
<1>1. worker[w].message \in Queued /\ row \in Row /\ worker[w] \in Worker /\ sends \in Nat
  BY DEF TypeOK
<1>2. result \in Result /\ StateOf(result) \in {"pending", "sent", "failed", "expired"}
  BY <1>1 DEF Results, Result, Worker, StateOf
<1>3. row.attempts \in Nat /\ row.tried \in Seq([number : Nat, result : Result])
  BY <1>1 DEF Row
<1>4. Append(row.tried, [number |-> row.attempts, result |-> result])
        \in Seq([number : Nat, result : Result])
  BY <1>2, <1>3
<1>. HIDE DEF row
<1>5. \A s \in Nat : [row EXCEPT !.state = StateOf(result), !.claim = 0, !.ripe = FALSE,
                !.sentAt = s,
                !.tried = Append(row.tried, [number |-> row.attempts, result |-> result])] \in Row
  BY <1>1, <1>2, <1>4 DEF Row
<1>6. row.sentAt \in Nat /\ sends + 1 \in Nat
  BY <1>1 DEF Row
<1>. QED
  BY <1>5, <1>6 DEF Finished, row

-------------------------------------------------------------------------------
(* Type correctness. *)

(* A worker that has an answer knows what it is. *)
TypeInv == TypeOK /\ \A w \in Workers : worker[w].step = "answered" => worker[w].outcome # "none"

LEMMA AlertType ==
    ASSUME TypeOK, NEW e \in Event
    PROVE  /\ AlertAfter(e) \in [state : {"none", "active", "acknowledged", "resolved"},
                                 occ : Occurrences \cup {0}]
           /\ AlertAfter(e).state # "none"
BY DEF AlertAfter, Known, TypeOK, Event

LEMMA InitTypes == Init => TypeInv
<1>. SUFFICES ASSUME Init PROVE TypeInv
  OBVIOUS
<1>1. IdleWorker \in Worker /\ IdleWorker.step = "idle"
  BY DEF IdleWorker, Worker
<1>2. Queued = {} /\ outbox \in [Queued -> Row]
  BY DEF Init, Queued
<1>. QED
  BY <1>1, <1>2, AlertAssumption DEF Init, TypeInv, TypeOK, AlertAssumption

LEMMA TypeStep == TypeInv /\ [Next]_vars => TypeInv'
<1>. SUFFICES ASSUME TypeInv, [Next]_vars PROVE TypeInv'
  OBVIOUS
<1>. USE DEF TypeInv
<1>0. IdleWorker \in Worker /\ IdleWorker.step = "idle"
  BY DEF IdleWorker, Worker
<1>1. ASSUME NEW e \in Event, Ingest(e) PROVE TypeInv'
  <2>1. CASE e \in transitions
    BY <1>1, <2>1 DEF Ingest, TypeOK, Queued
  <2>2. CASE e \notin transitions
    <3>. DEFINE new == IF StateChanged(e) THEN Notices(e) ELSE {}
    <3>1. new \subseteq Message
      BY NoticesType
    <3>2. Queue(new) /\ alert' = AlertAfter(e) /\ transitions' = transitions \cup {e}
          /\ UNCHANGED <<sends, worker, accepted, crashes>>
      BY <1>1, <2>2 DEF Ingest
    <3>. HIDE DEF new
    <3>. QED
      BY <3>1, <3>2, QueueAdds, AlertType DEF TypeOK
  <2>. QED
    BY <2>1, <2>2
<1>2. CASE Acknowledge
  BY <1>2 DEF Acknowledge, TypeOK, Queued
<1>3. ASSUME NEW w \in Workers, EnqueueDueReminders(w) PROVE TypeInv'
  <2>. PICK due \in {DueReminders, {}} : Queue(due)
    BY <1>3 DEF EnqueueDueReminders
  <2>1. /\ worker' = [worker EXCEPT ![w].step = "reminded"]
        /\ UNCHANGED <<alert, transitions, sends, accepted, crashes>>
    BY <1>3 DEF EnqueueDueReminders
  <2>2. worker' \in [Workers -> Worker]
    BY <2>1 DEF TypeOK, Worker
  <2>3. \A v \in Workers : worker'[v].step \in {"claimed", "sending", "answered"}
          => worker'[v] = worker[v]
    BY <2>1 DEF TypeOK, Worker
  <2>. QED
    BY <2>1, <2>2, <2>3, QueueAdds, RemindersType DEF TypeOK
<1>4. ASSUME NEW w \in Workers, NothingToClaim(w) PROVE TypeInv'
  BY <1>0, <1>4 DEF NothingToClaim, TypeOK, Queued
<1>5. ASSUME NEW w \in Workers, Claim(w) PROVE TypeInv'
  <2>. PICK m \in Claimable :
         LET token == outbox[m].attempts + 1 IN
         /\ outbox' = [outbox EXCEPT ![m] = [@ EXCEPT !.state = "delivering", !.ripe = FALSE,
                                             !.attempts = token, !.claim = token]]
         /\ worker' = [worker EXCEPT ![w] = [step |-> "claimed", message |-> m,
                                             token |-> token, outcome |-> "none"]]
    BY <1>5 DEF Claim
  <2>1. m \in Queued /\ m \in Message /\ outbox[m] \in Row /\ outbox[m].attempts + 1 \in Nat
    <3>1. m \in Queued
      BY DEF Claimable
    <3>2. m \in Message /\ outbox[m] \in Row
      BY <3>1 DEF TypeOK
    <3>. QED
      BY <3>1, <3>2 DEF Row
  <2>2. Queued' = Queued /\ outbox' \in [Queued -> Row]
    BY <2>1 DEF TypeOK, Queued, Row
  <2>3. [step |-> "claimed", message |-> m, token |-> outbox[m].attempts + 1,
         outcome |-> "none"] \in Worker
    BY <2>1 DEF Worker
  <2>. QED
    BY <1>5, <2>1, <2>2, <2>3 DEF Claim, TypeOK
<1>6. ASSUME NEW w \in Workers, BeginDelivery(w) PROVE TypeInv'
  <2>. DEFINE new == IF ~Owns(w) THEN IdleWorker
                     ELSE IF outbox[worker[w].message].old
                          THEN [worker[w] EXCEPT !.step = "answered", !.outcome = "expired"]
                          ELSE [worker[w] EXCEPT !.step = "sending"]
  <2>1. worker' = [worker EXCEPT ![w] = new] /\ worker[w].step = "claimed"
        /\ UNCHANGED <<alert, transitions, outbox, sends, accepted, crashes>>
    BY <1>6 DEF BeginDelivery, TypeOK
  <2>2. /\ new \in Worker
        /\ new.step \in {"claimed", "sending", "answered"} => new.message \in Queued
        /\ new.step = "answered" => new.outcome # "none"
    BY <1>0, <2>1 DEF TypeOK, Worker, Result
  <2>. HIDE DEF new
  <2>. QED
    BY <2>1, <2>2 DEF TypeOK, Queued
<1>7. ASSUME NEW w \in Workers, Send(w) PROVE TypeInv'
  <2>. PICK outcome \in {"sent", "transient_failure", "permanent_failure"} :
         worker' = [worker EXCEPT ![w].step = "answered", ![w].outcome = outcome]
    BY <1>7 DEF Send
  <2>. DEFINE new == [worker[w] EXCEPT !.step = "answered", !.outcome = outcome]
  <2>1. worker' = [worker EXCEPT ![w] = new]
    BY DEF TypeOK, Worker
  <2>2. /\ new \in Worker /\ new.message = worker[w].message
        /\ new.outcome = outcome /\ worker[w].message \in Queued
    BY <1>7 DEF TypeOK, Worker, Result, Send
  <2>3. accepted' \subseteq accepted \cup {worker[w].message}
        /\ UNCHANGED <<alert, transitions, outbox, sends, crashes>>
    BY <1>7 DEF Send
  <2>. HIDE DEF new
  <2>. QED
    BY <2>1, <2>2, <2>3 DEF TypeOK, Queued
<1>8. ASSUME NEW w \in Workers, Finish(w) PROVE TypeInv'
  <2>1. CASE UNCHANGED <<outbox, sends>>
    BY <1>0, <1>8, <2>1 DEF Finish, TypeOK, Queued
  <2>2. ASSUME NEW result \in Results(w),
               outbox' = [outbox EXCEPT ![worker[w].message]
                            = Finished(outbox[worker[w].message], result)],
               sends' = IF result = "sent" THEN sends + 1 ELSE sends
        PROVE  TypeInv'
    <3>1. Finished(outbox[worker[w].message], result) \in Row
      BY <1>8, FinishedRow DEF Finish
    <3>2. Queued' = Queued
      BY <2>2 DEF Queued
    <3>3. outbox' \in [Queued -> Row]
      BY <2>2, <3>1 DEF TypeOK
    <3>4. sends' \in Nat
      BY <2>2 DEF TypeOK
    <3>. QED
      BY <1>0, <1>8, <3>2, <3>3, <3>4 DEF Finish, TypeOK
  <2>. QED
    BY <1>8, <2>1, <2>2 DEF Finish, TypeOK
<1>9. ASSUME NEW w \in Workers, Crash(w) PROVE TypeInv'
  BY <1>0, <1>9, AlertAssumption DEF Crash, TypeOK, Queued, AlertAssumption
<1>10. ASSUME NEW m \in Queued, Ripen(m) \/ Age(m) PROVE TypeInv'
  <2>1. Queued' = Queued
    BY <1>10 DEF Ripen, Age, Queued
  <2>2. [outbox[m] EXCEPT !.ripe = TRUE] \in Row /\ [outbox[m] EXCEPT !.old = TRUE] \in Row
    BY DEF TypeOK, Row
  <2>3. outbox' \in [Queued -> Row]
    BY <1>10, <2>2 DEF Ripen, Age, TypeOK
  <2>. QED
    BY <1>10, <2>1, <2>3 DEF Ripen, Age, TypeOK
<1>11. CASE UNCHANGED vars
  BY <1>11 DEF vars, TypeOK, Queued
<1>. QED
  BY <1>1, <1>2, <1>3, <1>4, <1>5, <1>6, <1>7, <1>8, <1>9, <1>10, <1>11
     DEF Next, RunOnce, TimePasses

(***************************************************************************)
(* Alert, transitions, rows and workers keep their types.                  *)
(***************************************************************************)
THEOREM DispatcherTypes == Spec => []TypeOK
<1>1. TypeInv => TypeOK
  BY DEF TypeInv
<1>. QED
  BY <1>1, InitTypes, TypeStep, PTL DEF Spec

-------------------------------------------------------------------------------
(* The contract. *)

FiringReached(p, o) == \E n \in accepted : n.kind = "firing" /\ n.policy = p /\ n.occ = o

Over(o) == o < alert.occ \/ (o = alert.occ /\ alert.state = "resolved")

(* What was queued is about occurrences that have begun; reminders and     *)
(* recoveries only for those whom the firing email has reached.            *)
MessagesInv ==
    /\ alert.state = "none" <=> alert.occ = 0
    /\ \A m \in Queued :
         /\ m.occ <= alert.occ
         /\ m.kind \in {"reminder", "resolved"} => FiringReached(m.policy, m.occ)
         /\ m.kind = "resolved" => Over(m.occ)
    /\ OneRecovery

(* What is or will be recorded as sent was accepted by the relay. *)
SentInv ==
    /\ \A m \in Queued : outbox[m].state = "sent" => m \in accepted
    /\ \A w \in Workers : worker[w].step = "answered" /\ worker[w].outcome = "sent"
                            => worker[w].message \in accepted

ContractInv == TypeInv /\ MessagesInv /\ SentInv

LEMMA Numbers == TypeOK => /\ alert.occ \in Nat
                           /\ \A m \in Queued : m.occ \in Nat /\ m.occ # 0
<1>1. \A o \in Occurrences : o \in Nat /\ o # 0
  BY AlertAssumption DEF AlertAssumption
<1>2. TypeOK => alert.occ \in Occurrences \cup {0}
  BY DEF TypeOK
<1>3. TypeOK => \A m \in Queued : m.occ \in Occurrences
  BY DEF TypeOK, Message
<1>. QED
  BY <1>1, <1>2, <1>3

(* Whoever was sent a firing or reminder email was reached by the firing one. *)
LEMMA SentIsReached ==
    ASSUME ContractInv, NEW p, NEW o, FiringWasSent(p, o)
    PROVE  FiringReached(p, o)
<1>1. PICK m \in SentAbout(p, o) : TRUE
  BY DEF FiringWasSent
<1>2. /\ m \in Queued /\ m.policy = p /\ m.occ = o /\ outbox[m].state = "sent"
      /\ m.kind \in {"firing", "reminder"}
  BY <1>1 DEF SentAbout
<1>. QED
  BY <1>2 DEF ContractInv, MessagesInv, SentInv, FiringReached

(* Steps that queue nothing and leave the alert alone. *)
LEMMA MessagesKept ==
    ASSUME MessagesInv, alert' = alert, Queued' = Queued, accepted \subseteq accepted'
    PROVE  MessagesInv'
BY DEF MessagesInv, OneRecovery, FiringReached, Over

(* An event moves the alert forward. *)
LEMMA AlertForward ==
    ASSUME TypeOK, MessagesInv, NEW e \in Event, alert' = AlertAfter(e)
    PROVE  /\ alert'.occ >= alert.occ /\ alert'.occ \in Nat
           /\ alert'.state # "none" /\ alert'.occ # 0
           /\ \A o \in Nat : Over(o) => Over(o)'
           /\ StateChanged(e) => /\ alert'.occ = e.occ
                                 /\ e.status = "resolved" => Over(e.occ)' /\ ~Over(e.occ)
<1>1. /\ e.occ \in Nat /\ e.occ # 0 /\ e.status \in {"firing", "resolved"}
      /\ alert \in [state : {"none", "active", "acknowledged", "resolved"}, occ : Nat]
  <2>1. \A o \in Occurrences : o \in Nat /\ o # 0
    BY AlertAssumption DEF AlertAssumption
  <2>2. e.occ \in Occurrences /\ e.status \in {"firing", "resolved"}
    BY DEF Event
  <2>. QED
    BY <2>1, <2>2 DEF TypeOK
<1>2. alert.state = "none" <=> alert.occ = 0
  BY DEF MessagesInv
<1>3. CASE alert.state = "none"
  BY <1>1, <1>2, <1>3 DEF AlertAfter, Known, Over, StateChanged
<1>4. CASE alert.state # "none"
  BY <1>1, <1>2, <1>4 DEF AlertAfter, Known, Over, StateChanged
<1>. QED
  BY <1>3, <1>4

LEMMA IngestMessages ==
    ASSUME ContractInv, NEW e \in Event, Ingest(e)
    PROVE  MessagesInv'
<1>. USE DEF ContractInv, TypeInv
<1>1. CASE e \in transitions
  BY <1>1, MessagesKept DEF Ingest, Queued
<1>2. CASE e \notin transitions
  <2>. DEFINE new == IF StateChanged(e) THEN Notices(e) ELSE {}
  <2>1. new \subseteq Message
    BY NoticesType
  <2>2. Queue(new) /\ alert' = AlertAfter(e) /\ accepted' = accepted
    BY <1>2 DEF Ingest
  <2>3. Queued' = Queued \cup new
    BY <2>1, <2>2, QueueAdds DEF TypeOK
  <2>4. \A m \in new : /\ m.occ = e.occ /\ StateChanged(e) /\ m.kind = e.status
                       /\ m.kind # "reminder" /\ m.end = e.end /\ m.after = 0
                       /\ m.kind = "resolved" => FiringReached(m.policy, m.occ)
    <3>1. e.status \in {"firing", "resolved"}
      BY DEF Event
    <3>2. SUFFICES ASSUME NEW p \in IF e.status = "firing" THEN Policies
                                    ELSE {q \in TellResolved : FiringWasSent(q, e.occ)},
                          e.status = "resolved"
                   PROVE  FiringReached(p, e.occ)
      BY <3>1 DEF Notices
    <3>. QED
      BY <3>2, SentIsReached
  <2>5. /\ \A m \in Message : m.policy \in Policies
        /\ \A m, n \in new : m.policy = n.policy => m = n
    BY <2>4 DEF Notices, Message
  <2>. HIDE DEF new
  <2>6. \A m \in Queued' : m.occ \in Nat
    BY <2>1, <2>3, Numbers, AlertAssumption DEF Message, AlertAssumption
  <2>7. \A m \in Queued' :
          /\ m.occ <= alert'.occ
          /\ m.kind \in {"reminder", "resolved"} => FiringReached(m.policy, m.occ)'
          /\ m.kind = "resolved" => Over(m.occ)'
    <3>. TAKE m \in Queued'
    <3>1. CASE m \in Queued
      BY <2>2, <2>6, <3>1, AlertForward, Numbers DEF MessagesInv, FiringReached
    <3>2. CASE m \in new
      BY <2>2, <2>4, <2>6, <3>2, AlertForward DEF FiringReached
    <3>. QED
      BY <2>3, <3>1, <3>2
  <2>8. OneRecovery'
    <3>. SUFFICES ASSUME NEW m \in Queued', NEW n \in Queued',
                         m.kind = "resolved", n.kind = "resolved",
                         m.policy = n.policy, m.occ = n.occ
                  PROVE  m = n
      BY DEF OneRecovery
    <3>1. \A k \in Queued, l \in new : k.kind = "resolved" /\ l.kind = "resolved" => k.occ # l.occ
      BY <2>2, <2>4, AlertForward DEF MessagesInv
    <3>. QED
      BY <2>3, <2>5, <3>1 DEF MessagesInv, OneRecovery
  <2>. QED
    BY <2>2, <2>7, <2>8, AlertForward DEF MessagesInv
<1>. QED
  BY <1>1, <1>2

LEMMA InitContract == Init => ContractInv
<1>. SUFFICES ASSUME Init PROVE ContractInv
  OBVIOUS
<1>1. Queued = {} /\ \A w \in Workers : worker[w].step = "idle"
  BY DEF Init, Queued, IdleWorker
<1>. QED
  BY <1>1, InitTypes DEF ContractInv, MessagesInv, SentInv, OneRecovery, Init

LEMMA ContractStep == ContractInv /\ [Next]_vars => ContractInv'
<1>. SUFFICES ASSUME ContractInv, [Next]_vars PROVE ContractInv'
  OBVIOUS
<1>. USE DEF ContractInv
<1>0. TypeInv' /\ TypeOK /\ TypeOK'
  BY TypeStep DEF TypeInv
<1>. SUFFICES MessagesInv' /\ SentInv'
  BY <1>0
<1>1. ASSUME NEW e \in Event, Ingest(e) PROVE MessagesInv' /\ SentInv'
  <2>1. \A m \in Queued' : (m \in Queued /\ outbox'[m] = outbox[m]) \/ outbox'[m] = NewRow
    <3>1. CASE e \in transitions
      BY <1>1, <3>1 DEF Ingest, Queued
    <3>2. CASE e \notin transitions
      BY <1>1, <3>2 DEF Ingest, Queue, Queued
    <3>. QED
      BY <3>1, <3>2
  <2>2. worker' = worker /\ accepted' = accepted /\ NewRow.state # "sent"
    BY <1>1 DEF Ingest, NewRow
  <2>. QED
    BY <1>1, <2>1, <2>2, IngestMessages DEF SentInv
<1>2. CASE Acknowledge
  <2>1. /\ alert.state = "active" /\ alert'.state = "acknowledged" /\ alert'.occ = alert.occ
        /\ UNCHANGED <<outbox, worker, accepted>> /\ Queued' = Queued
    BY <1>0, <1>2 DEF Acknowledge, TypeOK, Queued
  <2>. QED
    BY <2>1 DEF MessagesInv, SentInv, OneRecovery, FiringReached, Over
<1>3. ASSUME NEW w \in Workers, EnqueueDueReminders(w) PROVE MessagesInv' /\ SentInv'
  <2>. PICK due \in {DueReminders, {}} : Queue(due)
    BY <1>3 DEF EnqueueDueReminders
  <2>1. /\ worker' = [worker EXCEPT ![w].step = "reminded"]
        /\ UNCHANGED <<alert, accepted>>
    BY <1>3 DEF EnqueueDueReminders
  <2>2. /\ Queued' = Queued \cup due
        /\ \A m \in Queued : outbox'[m] = outbox[m]
        /\ \A m \in due \ Queued : outbox'[m] = NewRow
    BY <1>0, QueueAdds, RemindersType DEF TypeOK
  <2>3. \A m \in due : /\ m.kind = "reminder" /\ m.occ = alert.occ
                        /\ FiringReached(m.policy, m.occ)
    BY <1>0, RemindersType, SentIsReached DEF FiringWasSent
  <2>4. MessagesInv'
    BY <1>0, <2>1, <2>2, <2>3, Numbers DEF MessagesInv, OneRecovery, FiringReached, Over
  <2>5. \A v \in Workers : worker'[v] = worker[v] \/ worker'[v].step = "reminded"
    BY <1>0, <2>1 DEF TypeOK, Worker
  <2>6. NewRow.state # "sent"
    BY DEF NewRow
  <2>. QED
    BY <2>1, <2>2, <2>4, <2>5, <2>6 DEF SentInv
<1>4. ASSUME NEW w \in Workers, NothingToClaim(w) \/ Crash(w) PROVE MessagesInv' /\ SentInv'
  <2>1. /\ UNCHANGED <<alert, outbox, accepted>> /\ Queued' = Queued
        /\ \A v \in Workers : worker'[v] = worker[v] \/ worker'[v].step = "idle"
    BY <1>0, <1>4 DEF NothingToClaim, Crash, TypeOK, Queued, IdleWorker
  <2>. QED
    BY <2>1, MessagesKept DEF SentInv
<1>5. ASSUME NEW w \in Workers, Claim(w) PROVE MessagesInv' /\ SentInv'
  <2>1. /\ UNCHANGED <<alert, accepted>> /\ Queued' = Queued
        /\ \A m \in Queued : outbox'[m] = outbox[m] \/ outbox'[m].state = "delivering"
        /\ \A v \in Workers : worker'[v] = worker[v] \/ worker'[v].step = "claimed"
    BY <1>0, <1>5 DEF Claim, Claimable, TypeOK, Queued, Row
  <2>. QED
    BY <2>1, MessagesKept DEF SentInv
<1>6. ASSUME NEW w \in Workers, BeginDelivery(w) PROVE MessagesInv' /\ SentInv'
  <2>1. /\ UNCHANGED <<alert, outbox, accepted>> /\ Queued' = Queued
        /\ \A v \in Workers : \/ worker'[v] = worker[v]
                              \/ worker'[v].step # "answered"
                              \/ worker'[v].outcome = "expired"
    BY <1>0, <1>6 DEF BeginDelivery, TypeOK, Queued, IdleWorker, Worker
  <2>. QED
    BY <2>1, MessagesKept DEF SentInv
<1>7. ASSUME NEW w \in Workers, Send(w) PROVE MessagesInv' /\ SentInv'
  <2>1. /\ UNCHANGED <<alert, outbox>> /\ Queued' = Queued /\ accepted \subseteq accepted'
    BY <1>7 DEF Send, Queued
  <2>2. \A v \in Workers : \/ worker'[v] = worker[v]
                           \/ worker'[v].outcome = "sent" => worker'[v].message \in accepted'
    BY <1>0, <1>7 DEF Send, TypeOK, Worker
  <2>. QED
    BY <2>1, <2>2, MessagesKept DEF SentInv
<1>8. ASSUME NEW w \in Workers, Finish(w) PROVE MessagesInv' /\ SentInv'
  <2>1. /\ UNCHANGED <<alert, accepted>> /\ Queued' = Queued
        /\ \A v \in Workers : worker'[v] = worker[v] \/ worker'[v].step = "idle"
    BY <1>0, <1>8 DEF Finish, TypeOK, Queued, IdleWorker
  <2>2. \A m \in Queued : outbox'[m].state = "sent" => m \in accepted
    <3>1. CASE UNCHANGED outbox
      BY <3>1 DEF SentInv
    <3>2. ASSUME NEW result \in Results(w),
                 outbox' = [outbox EXCEPT ![worker[w].message]
                              = Finished(outbox[worker[w].message], result)]
          PROVE  \A m \in Queued : outbox'[m].state = "sent" => m \in accepted
      <4>1. worker[w].message \in Queued /\ worker[w].step = "answered"
            /\ outbox[worker[w].message] \in Row
        BY <1>0, <1>8 DEF Finish, TypeOK
      <4>2. Finished(outbox[worker[w].message], result).state = StateOf(result)
        BY <4>1 DEF Finished, Row
      <4>3. StateOf(result) = "sent" => worker[w].outcome = "sent"
        <5>1. worker[w].outcome \in Result
          BY <1>0, <4>1 DEF TypeOK, TypeInv, Worker
        <5>2. result \in Result /\ (result = "sent" => worker[w].outcome = "sent")
          BY <5>1 DEF Results, Result
        <5>. QED
          BY <5>2 DEF StateOf, Result
      <4>. QED
        BY <1>0, <3>2, <4>1, <4>2, <4>3 DEF SentInv, TypeOK
    <3>. QED
      BY <1>8, <3>1, <3>2 DEF Finish
  <2>. QED
    BY <2>1, <2>2, MessagesKept DEF SentInv
<1>9. ASSUME NEW m \in Queued, Ripen(m) \/ Age(m) PROVE MessagesInv' /\ SentInv'
  <2>1. /\ UNCHANGED <<alert, worker, accepted>> /\ Queued' = Queued
        /\ \A n \in Queued : outbox'[n].state = outbox[n].state
    <3>1. /\ UNCHANGED <<alert, worker, accepted>> /\ Queued' = Queued
          /\ \/ outbox' = [outbox EXCEPT ![m].ripe = TRUE]
             \/ outbox' = [outbox EXCEPT ![m].old = TRUE]
      BY <1>9 DEF Ripen, Age, Queued
    <3>2. \A r \in Row : /\ [r EXCEPT !.ripe = TRUE].state = r.state
                         /\ [r EXCEPT !.old = TRUE].state = r.state
      BY DEF Row
    <3>3. outbox \in [Queued -> Row]
      BY <1>0 DEF TypeOK
    <3>4. \A n \in Queued : outbox'[n].state = outbox[n].state
      BY <3>1, <3>2, <3>3
    <3>. QED
      BY <3>1, <3>4
  <2>. QED
    BY <2>1, MessagesKept DEF SentInv
<1>10. CASE UNCHANGED vars
  BY <1>10, MessagesKept DEF vars, SentInv, Queued
<1>. QED
  BY <1>1, <1>2, <1>3, <1>4, <1>5, <1>6, <1>7, <1>8, <1>9, <1>10
     DEF Next, RunOnce, TimePasses

LEMMA ContractInvariant == Spec => []ContractInv
BY InitContract, ContractStep, PTL DEF Spec

(***************************************************************************)
(* The end of an occurrence is announced at most once to a policy: a       *)
(* recovery is queued when the occurrence ends, and that is over already   *)
(* wherever one is queued.                                                 *)
(***************************************************************************)
THEOREM RecoveredOnce == Spec => []OneRecovery
<1>1. ContractInv => OneRecovery
  BY DEF ContractInv, MessagesInv
<1>. QED
  BY <1>1, ContractInvariant, PTL

(***************************************************************************)
(* Webhooks in any order, retries, lost answers, expired leases and        *)
(* crashes implement AlertContract.                                        *)
(***************************************************************************)
THEOREM KeepsContract == Spec => ImplementsContract
<1>. DEFINE told == {<<m.policy, m.kind, m.occ>> : m \in accepted}
<1>1. Init => Contract!Init
  BY DEF Init, Contract!Init
<1>2. ContractInv /\ [Next]_vars => [Contract!Next]_(Contract!vars)
  <2>. SUFFICES ASSUME ContractInv, [Next]_vars
                PROVE  Contract!Next \/ UNCHANGED Contract!vars
    OBVIOUS
  <2>. USE DEF ContractInv
  <2>0. TypeOK
    BY DEF TypeInv
  <2>1. ASSUME alert' = alert, accepted' = accepted
        PROVE  UNCHANGED Contract!vars
    BY <2>1 DEF Contract!vars
  <2>2. ASSUME NEW e \in Event, Ingest(e)
        PROVE  Contract!Next \/ UNCHANGED Contract!vars
    <3>1. CASE ~StateChanged(e) \/ e \in transitions
      BY <2>1, <2>2, <3>1 DEF Ingest, StateChanged
    <3>2. CASE StateChanged(e) /\ e \notin transitions
      <4>1. alert' = AlertAfter(e) /\ AlertAfter(e) # alert /\ accepted' = accepted
        BY <2>2, <3>2 DEF Ingest, StateChanged
      <4>2. /\ e.occ \in Occurrences /\ e.status \in {"firing", "resolved"}
            /\ alert.occ \in Nat /\ e.occ \in Nat /\ e.occ # 0
        BY <2>0, Numbers, AlertAssumption DEF Event, AlertAssumption
      <4>3. alert.state = "none" <=> alert.occ = 0
        BY DEF MessagesInv
      <4>4. CASE e.status = "firing"
        <5>1. Contract!Begin(e.occ)
          BY <2>0, <4>1, <4>2, <4>3, <4>4 DEF Contract!Begin, AlertAfter, Known, TypeOK
        <5>. QED
          BY <4>2, <5>1 DEF Contract!Next
      <4>5. CASE e.status = "resolved"
        <5>1. Contract!Resolve(e.occ)
          BY <2>0, <4>1, <4>2, <4>3, <4>5 DEF Contract!Resolve, AlertAfter, Known, TypeOK
        <5>. QED
          BY <4>2, <5>1 DEF Contract!Next
      <4>. QED
        BY <4>2, <4>4, <4>5
    <3>. QED
      BY <3>1, <3>2
  <2>3. CASE Acknowledge
    <3>1. Contract!Acknowledge
      BY <2>0, <2>3 DEF Acknowledge, Contract!Acknowledge, TypeOK
    <3>. QED
      BY <3>1 DEF Contract!Next
  <2>4. ASSUME NEW w \in Workers, Send(w)
        PROVE  Contract!Next \/ UNCHANGED Contract!vars
    <3>. PICK m : m = worker[w].message
      OBVIOUS
    <3>1. alert' = alert /\ (accepted' = accepted \/ accepted' = accepted \cup {m})
      BY <2>4 DEF Send
    <3>2. CASE accepted' = accepted
      BY <2>1, <3>1, <3>2
    <3>3. CASE accepted' = accepted \cup {m}
      <4>1. m \in Queued /\ m \in Message
        BY <2>0, <2>4 DEF Send, TypeOK
      <4>2. /\ m.policy \in Policies /\ m.occ \in Occurrences
            /\ m.kind \in {"firing", "reminder", "resolved"}
        BY <4>1 DEF Message
      <4>3. told' = told \cup {<<m.policy, m.kind, m.occ>>}
        BY <3>3
      <4>4. \A p, o : FiringReached(p, o) => <<p, "firing", o>> \in told
        BY DEF FiringReached
      <4>5. Contract!Tell(m.policy, m.kind, m.occ)
        <5>1. /\ m.occ <= alert.occ
              /\ m.kind \in {"reminder", "resolved"} => <<m.policy, "firing", m.occ>> \in told
              /\ m.kind = "resolved" => Contract!Over(m.occ)
          BY <4>1, <4>4 DEF Contract!Over, MessagesInv, Over
        <5>2. alert'.occ = alert.occ /\ alert'.state = alert.state
          BY <3>1
        <5>. QED
          BY <4>3, <5>1, <5>2 DEF Contract!Tell
      <4>6. ASSUME NEW p \in Policies, NEW o \in Occurrences,
                   NEW kind \in {"firing", "reminder", "resolved"}, Contract!Tell(p, kind, o)
            PROVE  Contract!Next
        BY <4>6 DEF Contract!Next
      <4>. HIDE DEF told
      <4>. QED
        BY <4>2, <4>5, <4>6
    <3>. QED
      BY <3>1, <3>2, <3>3
  <2>5. ASSUME NEW w \in Workers,
               \/ EnqueueDueReminders(w) \/ NothingToClaim(w) \/ Claim(w)
               \/ BeginDelivery(w) \/ Finish(w) \/ Crash(w)
        PROVE  UNCHANGED Contract!vars
    BY <2>1, <2>5 DEF EnqueueDueReminders, NothingToClaim, Claim, BeginDelivery, Finish, Crash
  <2>6. ASSUME NEW m \in Queued, Ripen(m) \/ Age(m)
        PROVE  UNCHANGED Contract!vars
    BY <2>1, <2>6 DEF Ripen, Age
  <2>7. CASE UNCHANGED vars
    BY <2>1, <2>7 DEF vars
  <2>. QED
    BY <2>2, <2>3, <2>4, <2>5, <2>6, <2>7 DEF Next, RunOnce, TimePasses
<1>. QED
  BY <1>1, <1>2, ContractInvariant, PTL DEF Spec, ImplementsContract, Contract!Spec

-------------------------------------------------------------------------------
(* The attempts of a row. *)

Done(state) == state \in {"sent", "failed", "expired"}

(* The attempts of a row that were recorded; a running one has a number of *)
(* its own, and the row holds its claim.                                   *)
RowInv(r) ==
    /\ r.claim # 0 <=> r.state = "delivering"
    /\ r.claim # 0 => r.claim = r.attempts
    /\ \A i \in 1..Len(r.tried) :
         /\ r.tried[i].number <= r.attempts
         /\ r.state = "delivering" => r.tried[i].number < r.attempts
         /\ i > 1 => r.tried[i - 1].number < r.tried[i].number
         /\ i < Len(r.tried) => r.tried[i].result = "transient_failure"
    /\ Done(r.state) => Len(r.tried) > 0 /\ StateOf(r.tried[Len(r.tried)].result) = r.state
    /\ ~Done(r.state) /\ Len(r.tried) > 0
         => r.tried[Len(r.tried)].result = "transient_failure"

AttemptsInv ==
    /\ TypeInv
    /\ \A m \in Queued : RowInv(outbox[m])
    /\ \A w \in Workers : worker[w].step \in {"claimed", "sending", "answered"}
                            => worker[w].token # 0

LEMMA NewRowInv == RowInv(NewRow)
BY DEF RowInv, NewRow, Done

LEMMA TriedElements ==
    ASSUME NEW r \in Row
    PROVE  /\ Len(r.tried) \in Nat /\ r.attempts \in Nat
           /\ \A i \in 1..Len(r.tried) : r.tried[i].number \in Nat
<1>. DEFINE Entry == [number : Nat, result : Result]
<1>1. r.tried \in Seq(Entry) /\ r.attempts \in Nat
  BY DEF Row
<1>. HIDE DEF Entry
<1>2. Len(r.tried) \in Nat /\ \A i \in 1..Len(r.tried) : r.tried[i] \in Entry
  BY <1>1
<1>. QED
  BY <1>1, <1>2 DEF Entry

(* A claim takes a number that no recorded attempt has. *)
LEMMA ClaimedRowInv ==
    ASSUME NEW r \in Row, RowInv(r), r.state \in {"pending", "delivering"}
    PROVE  RowInv([r EXCEPT !.state = "delivering", !.ripe = FALSE,
                            !.attempts = r.attempts + 1, !.claim = r.attempts + 1])
<1>. DEFINE new == [r EXCEPT !.state = "delivering", !.ripe = FALSE,
                             !.attempts = r.attempts + 1, !.claim = r.attempts + 1]
<1>1. /\ new.state = "delivering" /\ new.attempts = r.attempts + 1
      /\ new.claim = r.attempts + 1 /\ new.tried = r.tried /\ r.attempts \in Nat
      /\ r.tried \in Seq([number : Nat, result : Result])
  BY DEF Row
<1>2. /\ Len(r.tried) \in Nat
      /\ \A i \in 1..Len(r.tried) : r.tried[i].number \in Nat
  BY TriedElements
<1>. HIDE DEF new
<1>. QED
  BY <1>1, <1>2 DEF RowInv, Done, new

LEMMA FinishedRowInv ==
    ASSUME NEW r \in Row, RowInv(r), r.state = "delivering", NEW result \in Result
    PROVE  RowInv(Finished(r, result))
<1>. DEFINE new == Finished(r, result)
            n == Len(r.tried)
            entry == [number |-> r.attempts, result |-> result]
<1>1. /\ new.state = StateOf(result) /\ new.attempts = r.attempts
      /\ new.claim = 0 /\ new.tried = Append(r.tried, entry) /\ r.attempts \in Nat
      /\ r.tried \in Seq([number : Nat, result : Result])
  BY DEF Row, Finished
<1>2. /\ n \in Nat /\ Len(new.tried) = n + 1 /\ new.tried[n + 1] = entry
      /\ \A i \in 1..n : new.tried[i] = r.tried[i]
  BY <1>1
<1>3. \A i \in 1..n : r.tried[i].number < r.attempts /\ r.tried[i].result = "transient_failure"
  BY <1>2 DEF RowInv, Done
<1>4. \A i \in 1..n + 1 :
        /\ new.tried[i].number <= r.attempts
        /\ i > 1 => new.tried[i - 1].number < new.tried[i].number
        /\ i < n + 1 => new.tried[i].result = "transient_failure"
  <2>. TAKE i \in 1..n + 1
  <2>1. CASE i = n + 1
    <3>1. i > 1 => i - 1 \in 1..n
      BY <1>2, <2>1
    <3>. QED
      BY <1>1, <1>2, <1>3, <2>1, <3>1
  <2>2. CASE i # n + 1
    <3>1. i \in 1..n /\ (i > 1 => i - 1 \in 1..n)
      BY <1>2, <2>2
    <3>2. /\ r.tried[i].number < r.attempts /\ r.tried[i].result = "transient_failure"
          /\ r.tried[i].number \in Nat
      BY <1>3, <3>1, TriedElements
    <3>3. i > 1 => r.tried[i - 1].number < r.tried[i].number
      BY <3>1 DEF RowInv
    <3>. QED
      BY <1>1, <1>2, <3>1, <3>2, <3>3
  <2>. QED
    BY <2>1, <2>2
<1>5. /\ Done(StateOf(result)) <=> result # "transient_failure"
      /\ StateOf(result) # "delivering"
  BY DEF StateOf, Result, Done
<1>. HIDE DEF new, entry
<1>6. new.tried[n + 1].result = result
  BY <1>2 DEF entry
<1>. QED
  BY <1>1, <1>2, <1>4, <1>5, <1>6 DEF RowInv, new

LEMMA InitAttempts == Init => AttemptsInv
<1>. SUFFICES ASSUME Init PROVE AttemptsInv
  OBVIOUS
<1>1. Queued = {} /\ \A w \in Workers : worker[w].step = "idle"
  BY DEF Init, Queued, IdleWorker
<1>. QED
  BY <1>1, InitTypes DEF AttemptsInv

(***************************************************************************)
(* Whoever holds the claim of a row has the number of its last attempt; a  *)
(* worker that lost the claim records nothing.                             *)
(***************************************************************************)
LEMMA AttemptsStep == AttemptsInv /\ [Next]_vars => AttemptsInv'
<1>. SUFFICES ASSUME AttemptsInv, [Next]_vars PROVE AttemptsInv'
  OBVIOUS
<1>. USE DEF AttemptsInv
<1>0. TypeInv' /\ TypeOK /\ TypeOK' /\ outbox \in [Queued -> Row] /\ worker \in [Workers -> Worker]
  BY TypeStep DEF TypeInv, TypeOK
<1>. DEFINE Rows == \A m \in Queued : RowInv(outbox[m])
            Tokens == \A w \in Workers : worker[w].step \in {"claimed", "sending", "answered"}
                                           => worker[w].token # 0
<1>. SUFFICES Rows' /\ Tokens'
  BY <1>0
<1>1. ASSUME NEW e \in Event, Ingest(e) PROVE Rows' /\ Tokens'
  <2>1. \A m \in Queued' : (m \in Queued /\ outbox'[m] = outbox[m]) \/ outbox'[m] = NewRow
    <3>1. CASE e \in transitions
      BY <1>1, <3>1 DEF Ingest, Queued
    <3>2. CASE e \notin transitions
      BY <1>1, <3>2 DEF Ingest, Queue, Queued
    <3>. QED
      BY <3>1, <3>2
  <2>. QED
    BY <1>1, <2>1, NewRowInv DEF Ingest
<1>2. CASE Acknowledge
  BY <1>2 DEF Acknowledge, Queued
<1>3. ASSUME NEW w \in Workers, EnqueueDueReminders(w) PROVE Rows' /\ Tokens'
  <2>1. \A m \in Queued' : (m \in Queued /\ outbox'[m] = outbox[m]) \/ outbox'[m] = NewRow
    BY <1>3 DEF EnqueueDueReminders, Queue, Queued
  <2>2. \A v \in Workers : worker'[v] = worker[v] \/ worker'[v].step = "reminded"
    BY <1>0, <1>3 DEF EnqueueDueReminders, Worker
  <2>. QED
    BY <2>1, <2>2, NewRowInv
<1>4. ASSUME NEW w \in Workers, NothingToClaim(w) \/ Crash(w) PROVE Rows' /\ Tokens'
  <2>1. /\ outbox' = outbox /\ Queued' = Queued
        /\ \A v \in Workers : worker'[v] = worker[v] \/ worker'[v].step = "idle"
    BY <1>0, <1>4 DEF NothingToClaim, Crash, Queued, IdleWorker
  <2>. QED
    BY <2>1
<1>5. ASSUME NEW w \in Workers, Claim(w) PROVE Rows' /\ Tokens'
  <2>1. PICK m \in Claimable :
          /\ outbox' = [outbox EXCEPT ![m] =
                          [outbox[m] EXCEPT !.state = "delivering", !.ripe = FALSE,
                             !.attempts = outbox[m].attempts + 1,
                             !.claim = outbox[m].attempts + 1]]
          /\ worker' = [worker EXCEPT ![w] =
                          [step |-> "claimed", message |-> m,
                           token |-> outbox[m].attempts + 1, outcome |-> "none"]]
    BY <1>5 DEF Claim
  <2>2. m \in Queued /\ outbox[m].state \in {"pending", "delivering"}
    BY DEF Claimable
  <2>3. outbox[m] \in Row /\ outbox[m].attempts + 1 # 0 /\ Queued' = Queued
    <3>1. outbox[m] \in Row
      BY <1>0, <2>2
    <3>2. Queued' = Queued
      BY <2>1 DEF Queued
    <3>. QED
      BY <3>1, <3>2, TriedElements
  <2>4. RowInv(outbox'[m])
    BY <1>0, <2>1, <2>2, <2>3, ClaimedRowInv
  <2>5. Rows'
    BY <1>0, <2>1, <2>3, <2>4
  <2>6. Tokens'
    BY <1>0, <2>1, <2>3
  <2>. QED
    BY <2>5, <2>6
<1>6. ASSUME NEW w \in Workers, BeginDelivery(w) \/ Send(w) PROVE Rows' /\ Tokens'
  <2>1. outbox' = outbox /\ Queued' = Queued
        /\ worker[w].step \in {"claimed", "sending"}
    BY <1>6 DEF BeginDelivery, Send, Queued
  <2>2. \A v \in Workers : \/ worker'[v].token = worker[v].token /\ v = w
                           \/ worker'[v] = worker[v]
                           \/ worker'[v].step = "idle"
    <3>1. CASE BeginDelivery(w)
      <4>1. \A x \in Worker : /\ [x EXCEPT !.step = "sending"].token = x.token
                              /\ [x EXCEPT !.step = "answered", !.outcome = "expired"].token = x.token
        BY DEF Worker
      <4>. QED
        BY <1>0, <3>1, <4>1 DEF BeginDelivery, IdleWorker
    <3>2. CASE Send(w)
      BY <1>0, <3>2 DEF Send, Worker
    <3>. QED
      BY <1>6, <3>1, <3>2
  <2>. QED
    BY <2>1, <2>2
<1>7. ASSUME NEW w \in Workers, Finish(w) PROVE Rows' /\ Tokens'
  <2>1. \A v \in Workers : worker'[v] = worker[v] \/ worker'[v].step = "idle"
    BY <1>0, <1>7 DEF Finish, IdleWorker
  <2>2. CASE UNCHANGED outbox
    BY <2>1, <2>2 DEF Queued
  <2>3. ASSUME Owns(w), NEW result \in Results(w),
               outbox' = [outbox EXCEPT ![worker[w].message]
                            = Finished(outbox[worker[w].message], result)]
        PROVE  Rows'
    <3>1. /\ worker[w].message \in Queued /\ worker[w].step = "answered"
          /\ worker[w].token # 0 /\ worker[w].outcome \in Result
      BY <1>0, <1>7 DEF Finish, TypeOK, TypeInv, Worker
    <3>2. outbox[worker[w].message] \in Row /\ RowInv(outbox[worker[w].message])
      BY <1>0, <3>1
    <3>3. outbox[worker[w].message].state = "delivering"
      BY <2>3, <3>1, <3>2 DEF Owns, RowInv
    <3>4. result \in Result
      BY <2>3, <3>1 DEF Results, Result
    <3>5. RowInv(Finished(outbox[worker[w].message], result))
      BY <3>2, <3>3, <3>4, FinishedRowInv
    <3>6. Queued' = Queued
      BY <2>3 DEF Queued
    <3>. QED
      BY <1>0, <2>3, <3>1, <3>5, <3>6
  <2>. QED
    BY <1>7, <2>1, <2>2, <2>3 DEF Finish
<1>8. ASSUME NEW m \in Queued, Ripen(m) \/ Age(m) PROVE Rows' /\ Tokens'
  <2>1. /\ worker' = worker /\ Queued' = Queued
        /\ \/ outbox' = [outbox EXCEPT ![m].ripe = TRUE]
           \/ outbox' = [outbox EXCEPT ![m].old = TRUE]
    BY <1>8 DEF Ripen, Age, Queued
  <2>2. \A r \in Row :
          /\ [r EXCEPT !.ripe = TRUE].state = r.state /\ [r EXCEPT !.old = TRUE].state = r.state
          /\ [r EXCEPT !.ripe = TRUE].claim = r.claim /\ [r EXCEPT !.old = TRUE].claim = r.claim
          /\ [r EXCEPT !.ripe = TRUE].tried = r.tried /\ [r EXCEPT !.old = TRUE].tried = r.tried
          /\ [r EXCEPT !.ripe = TRUE].attempts = r.attempts
          /\ [r EXCEPT !.old = TRUE].attempts = r.attempts
    BY DEF Row
  <2>3. \A r \in Row : RowInv(r) => RowInv([r EXCEPT !.ripe = TRUE]) /\ RowInv([r EXCEPT !.old = TRUE])
    BY <2>2 DEF RowInv
  <2>. QED
    BY <1>0, <2>1, <2>3
<1>9. CASE UNCHANGED vars
  BY <1>9 DEF vars, Queued
<1>. QED
  BY <1>1, <1>2, <1>3, <1>4, <1>5, <1>6, <1>7, <1>8, <1>9
     DEF Next, RunOnce, TimePasses

(***************************************************************************)
(* Recorded attempts have different numbers and tell the state of the row. *)
(***************************************************************************)
THEOREM AttemptsAreTold == Spec => []AttemptsTellState
<1>1. AttemptsInv => AttemptsTellState
  BY DEF AttemptsInv, AttemptsTellState, RowInv, Done, Settled
<1>2. Spec => []AttemptsInv
  BY InitAttempts, AttemptsStep, PTL DEF Spec
<1>. QED
  BY <1>1, <1>2, PTL

-------------------------------------------------------------------------------
(* Reminders. *)

(* A reminder follows its firing email.  The one that waits is due after   *)
(* the last email that was sent, so that looking again finds it queued.    *)
ReminderInv ==
    /\ \A m \in Queued : /\ m.kind = "firing" => m.end = 0 /\ m.after = 0
                         /\ m.kind = "reminder" => m.end = 0
    /\ \A m \in Queued : m.kind = "reminder" =>
         /\ \E f \in SentAbout(m.policy, m.occ) : f.kind = "firing"
         /\ ~Settled(m) =>
              /\ \E n \in SentAbout(m.policy, m.occ) : outbox[n].sentAt = m.after
              /\ \A n \in SentAbout(m.policy, m.occ) : outbox[n].sentAt <= m.after
    /\ OneReminderOutstanding

LEMMA SameMessage ==
    ASSUME NEW m \in Message, NEW n \in Message, m.kind = n.kind, m.occ = n.occ,
           m.end = n.end, m.policy = n.policy, m.after = n.after
    PROVE  m = n
BY DEF Message

(* Steps that send nothing and unsettle nothing. *)
LEMMA RemindersKept ==
    ASSUME ReminderInv, Queued' = Queued,
           \A m \in Queued : /\ outbox'[m].state = "sent" <=> outbox[m].state = "sent"
                             /\ outbox[m].state = "sent" => outbox'[m].sentAt = outbox[m].sentAt
                             /\ Settled(m) => Settled(m)'
    PROVE  ReminderInv'
<1>1. \A p, o : SentAbout(p, o)' = SentAbout(p, o)
  BY DEF SentAbout
<1>2. \A p, o : \A n \in SentAbout(p, o) : outbox'[n].sentAt = outbox[n].sentAt
  BY DEF SentAbout
<1>3. OneReminderOutstanding'
  BY DEF ReminderInv, OneReminderOutstanding
<1>. QED
  BY <1>1, <1>2, <1>3 DEF ReminderInv

(* Steps that queue rows and leave the others alone. *)
LEMMA RemindersQueued ==
    ASSUME TypeOK, ReminderInv, NEW new, new \subseteq Message, Queue(new),
           \A m \in new : m.kind = "firing" => m.end = 0 /\ m.after = 0,
           \A m \in new : m.kind = "reminder" =>
             /\ m.end = 0
             /\ \E n \in SentAbout(m.policy, m.occ) : outbox[n].sentAt = m.after
             /\ \A n \in SentAbout(m.policy, m.occ) : outbox[n].sentAt <= m.after
    PROVE  ReminderInv'
<1>1. /\ Queued' = Queued \cup new /\ Queued' \subseteq Message
      /\ \A m \in Queued : outbox'[m] = outbox[m]
      /\ \A m \in new \ Queued : outbox'[m] = NewRow
  BY QueueAdds DEF TypeOK
<1>2. NewRow.state = "pending"
  BY DEF NewRow
<1>3. \A p, o : SentAbout(p, o)' = SentAbout(p, o)
  BY <1>1, <1>2 DEF SentAbout
<1>4. \A p, o : \A n \in SentAbout(p, o) : outbox'[n].sentAt = outbox[n].sentAt
  BY <1>1 DEF SentAbout
<1>5. \A m \in Queued : Settled(m)' <=> Settled(m)
  BY <1>1 DEF Settled
<1>6. \A m \in new : m.kind = "reminder" => \E f \in SentAbout(m.policy, m.occ) : f.kind = "firing"
  <2>. SUFFICES ASSUME NEW m \in new, m.kind = "reminder"
                PROVE  \E f \in SentAbout(m.policy, m.occ) : f.kind = "firing"
    OBVIOUS
  <2>1. PICK n \in SentAbout(m.policy, m.occ) : TRUE
    OBVIOUS
  <2>2. n \in Queued /\ n.kind \in {"firing", "reminder"} /\ n.policy = m.policy /\ n.occ = m.occ
    BY <2>1 DEF SentAbout
  <2>. QED
    BY <2>1, <2>2 DEF ReminderInv
<1>7. \A m \in Queued' : m.kind = "reminder" =>
        /\ m.end = 0
        /\ \E f \in SentAbout(m.policy, m.occ) : f.kind = "firing"
        /\ ~Settled(m)' =>
             /\ \E n \in SentAbout(m.policy, m.occ) : outbox[n].sentAt = m.after
             /\ \A n \in SentAbout(m.policy, m.occ) : outbox[n].sentAt <= m.after
  BY <1>1, <1>5, <1>6 DEF ReminderInv
<1>8. OneReminderOutstanding'
  <2>. SUFFICES ASSUME NEW m \in Queued', NEW n \in Queued',
                       m.kind = "reminder", n.kind = "reminder",
                       m.policy = n.policy, m.occ = n.occ, ~Settled(m)', ~Settled(n)'
                PROVE  m = n
    BY DEF OneReminderOutstanding
  <2>1. \A k \in SentAbout(m.policy, m.occ) : outbox[k].sentAt \in Nat
    BY DEF SentAbout, TypeOK, Row
  <2>2. m.after = n.after
    BY <1>7, <2>1
  <2>. QED
    BY <1>1, <1>7, <2>2, SameMessage
<1>9. \A m \in Queued' : m.kind = "firing" => m.end = 0 /\ m.after = 0
  BY <1>1 DEF ReminderInv
<1>10. \A m \in Queued' : m.kind = "reminder" =>
         /\ \E f \in SentAbout(m.policy, m.occ)' : f.kind = "firing"
         /\ ~Settled(m)' =>
              /\ \E n \in SentAbout(m.policy, m.occ)' : outbox'[n].sentAt = m.after
              /\ \A n \in SentAbout(m.policy, m.occ)' : outbox'[n].sentAt <= m.after
  BY <1>3, <1>4, <1>7
<1>. QED
  BY <1>7, <1>8, <1>9, <1>10 DEF ReminderInv

(* The recording of an email that was sent settles the only reminder that  *)
(* could be due after an earlier one.                                      *)
LEMMA RemindersSent ==
    ASSUME TypeOK, ReminderInv, NEW k \in Queued, outbox[k].state = "delivering",
           Queued' = Queued, outbox'[k].state = "sent",
           \A m \in Queued : m # k => outbox'[m] = outbox[m]
    PROVE  ReminderInv'
<1>1. \A p, o : SentAbout(p, o) \subseteq SentAbout(p, o)'
  BY DEF SentAbout
<1>2. \A m \in Queued : ~Settled(m)' => m # k /\ ~Settled(m)
  BY DEF Settled
<1>3. ~Settled(k)
  BY DEF Settled
<1>4. ASSUME NEW m \in Queued, m.kind = "reminder", ~Settled(m)'
      PROVE  k \notin SentAbout(m.policy, m.occ)'
  <2>. SUFFICES ASSUME k.policy = m.policy, k.occ = m.occ, k.kind \in {"firing", "reminder"}
                PROVE  FALSE
    BY DEF SentAbout
  <2>1. CASE k.kind = "reminder"
    BY <1>2, <1>3, <1>4, <2>1 DEF ReminderInv, OneReminderOutstanding
  <2>2. CASE k.kind = "firing"
    <3>1. PICK f \in SentAbout(m.policy, m.occ) : f.kind = "firing"
      BY <1>4 DEF ReminderInv
    <3>2. /\ f \in Queued /\ outbox[f].state = "sent" /\ f.policy = m.policy /\ f.occ = m.occ
          /\ f \in Message /\ k \in Message
      BY <3>1 DEF SentAbout, TypeOK
    <3>3. f = k
      BY <2>2, <3>1, <3>2, SameMessage DEF ReminderInv
    <3>. QED
      BY <3>2, <3>3
  <2>. QED
    BY <2>1, <2>2
<1>5. ASSUME NEW m \in Queued, m.kind = "reminder", ~Settled(m)'
      PROVE  /\ \E n \in SentAbout(m.policy, m.occ)' : outbox'[n].sentAt = m.after
             /\ \A n \in SentAbout(m.policy, m.occ)' : outbox'[n].sentAt <= m.after
  <2>1. \A n \in SentAbout(m.policy, m.occ)' :
          n \in SentAbout(m.policy, m.occ) /\ outbox'[n] = outbox[n]
    BY <1>4, <1>5 DEF SentAbout
  <2>2. \A n \in SentAbout(m.policy, m.occ) : n \in SentAbout(m.policy, m.occ)'
    BY <1>1
  <2>. QED
    BY <1>2, <1>5, <2>1, <2>2 DEF ReminderInv
<1>6. OneReminderOutstanding'
  BY <1>2 DEF ReminderInv, OneReminderOutstanding
<1>. QED
  BY <1>1, <1>5, <1>6 DEF ReminderInv

LEMMA RemindersStep == AttemptsInv /\ ReminderInv /\ [Next]_vars => ReminderInv'
<1>. SUFFICES ASSUME AttemptsInv, ReminderInv, [Next]_vars PROVE ReminderInv'
  OBVIOUS
<1>0. TypeOK /\ outbox \in [Queued -> Row] /\ worker \in [Workers -> Worker]
  BY DEF AttemptsInv, TypeInv, TypeOK
<1>1. ASSUME NEW e \in Event, Ingest(e) PROVE ReminderInv'
  <2>1. CASE e \in transitions
    BY <1>1, <2>1, RemindersKept DEF Ingest, Queued, Settled
  <2>2. CASE e \notin transitions
    <3>. DEFINE new == IF StateChanged(e) THEN Notices(e) ELSE {}
    <3>1. Queue(new)
      BY <1>1, <2>2 DEF Ingest
    <3>2. e.status \in {"firing", "resolved"} /\ (e.status = "firing" => e.end = 0)
      BY DEF Event
    <3>3. new \subseteq Message
      BY NoticesType
    <3>4. \A m \in new : /\ m.kind # "reminder"
                         /\ m.kind = "firing" => m.end = 0 /\ m.after = 0
      BY <3>2 DEF Notices
    <3>. HIDE DEF new
    <3>. QED
      BY <1>0, <3>1, <3>3, <3>4, RemindersQueued
  <2>. QED
    BY <2>1, <2>2
<1>2. ASSUME NEW w \in Workers, EnqueueDueReminders(w) PROVE ReminderInv'
  <2>1. PICK due \in {DueReminders, {}} : Queue(due)
    BY <1>2 DEF EnqueueDueReminders
  <2>2. CASE due = DueReminders
    BY <1>0, <2>1, <2>2, RemindersQueued, RemindersType
  <2>3. CASE due = {}
    BY <1>0, <2>1, <2>3, RemindersQueued
  <2>. QED
    BY <2>1, <2>2, <2>3
<1>3. ASSUME outbox' = outbox PROVE ReminderInv'
  BY <1>3, RemindersKept DEF Queued, Settled
<1>4. ASSUME NEW w \in Workers, Claim(w) PROVE ReminderInv'
  <2>1. PICK m \in Claimable :
          outbox' = [outbox EXCEPT ![m] =
                       [outbox[m] EXCEPT !.state = "delivering", !.ripe = FALSE,
                          !.attempts = outbox[m].attempts + 1,
                          !.claim = outbox[m].attempts + 1]]
    BY <1>4 DEF Claim
  <2>2. m \in Queued /\ outbox[m].state \in {"pending", "delivering"} /\ outbox[m] \in Row
    BY <1>0 DEF Claimable
  <2>3. Queued' = Queued
    BY <2>1 DEF Queued
  <2>4. outbox'[m].state = "delivering"
    BY <1>0, <2>1, <2>2 DEF Row
  <2>5. \A n \in Queued : n # m => outbox'[n] = outbox[n]
    BY <1>0, <2>1
  <2>. QED
    BY <2>2, <2>3, <2>4, <2>5, RemindersKept DEF Settled
<1>5. ASSUME NEW w \in Workers, Finish(w) PROVE ReminderInv'
  <2>. DEFINE k == worker[w].message
  <2>1. CASE UNCHANGED outbox
    BY <1>3, <2>1
  <2>2. ASSUME Owns(w), NEW result \in Results(w),
               outbox' = [outbox EXCEPT ![k] = Finished(outbox[k], result)]
        PROVE  ReminderInv'
    <3>1. k \in Queued /\ outbox[k] \in Row /\ worker[w].step = "answered" /\ worker[w].token # 0
      BY <1>0, <1>5 DEF Finish, TypeOK, AttemptsInv
    <3>2. outbox[k].state = "delivering"
      BY <2>2, <3>1 DEF Owns, AttemptsInv, RowInv
    <3>3. Queued' = Queued /\ \A m \in Queued : m # k => outbox'[m] = outbox[m]
      BY <1>0, <2>2 DEF Queued
    <3>4. outbox'[k].state = StateOf(result)
      BY <1>0, <2>2, <3>1 DEF Finished, Row
    <3>. HIDE DEF k
    <3>5. CASE outbox'[k].state = "sent"
      BY <1>0, <3>1, <3>2, <3>3, <3>5, RemindersSent
    <3>6. CASE outbox'[k].state # "sent"
      BY <3>1, <3>2, <3>3, <3>6, RemindersKept DEF Settled
    <3>. QED
      BY <3>5, <3>6
  <2>. QED
    BY <1>5, <2>1, <2>2 DEF Finish
<1>6. ASSUME NEW m \in Queued, Ripen(m) \/ Age(m) PROVE ReminderInv'
  <2>1. /\ Queued' = Queued
        /\ \/ outbox' = [outbox EXCEPT ![m].ripe = TRUE]
           \/ outbox' = [outbox EXCEPT ![m].old = TRUE]
    BY <1>6 DEF Ripen, Age, Queued
  <2>2. \A r \in Row :
          /\ [r EXCEPT !.ripe = TRUE].state = r.state /\ [r EXCEPT !.old = TRUE].state = r.state
          /\ [r EXCEPT !.ripe = TRUE].sentAt = r.sentAt /\ [r EXCEPT !.old = TRUE].sentAt = r.sentAt
    BY DEF Row
  <2>3. \A n \in Queued : outbox'[n].state = outbox[n].state /\ outbox'[n].sentAt = outbox[n].sentAt
    BY <1>0, <2>1, <2>2
  <2>. QED
    BY <2>1, <2>3, RemindersKept DEF Settled
<1>. QED
  BY <1>1, <1>2, <1>3, <1>4, <1>5, <1>6
     DEF Next, RunOnce, TimePasses, Acknowledge, NothingToClaim, BeginDelivery, Send, Crash, vars

(***************************************************************************)
(* At most one reminder of an occurrence waits for delivery per policy.    *)
(***************************************************************************)
THEOREM OneReminderWaits == Spec => []OneReminderOutstanding
<1>1. Init => AttemptsInv /\ ReminderInv
  <2>1. Init => Queued = {}
    BY DEF Init, Queued
  <2>. QED
    BY <2>1, InitAttempts DEF ReminderInv, OneReminderOutstanding
<1>2. ReminderInv => OneReminderOutstanding
  BY DEF ReminderInv
<1>. QED
  BY <1>1, <1>2, AttemptsStep, RemindersStep, PTL DEF Spec

===============================================================================
