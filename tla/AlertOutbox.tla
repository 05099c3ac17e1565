------------------------------ MODULE AlertOutbox ------------------------------
(***************************************************************************)
(* The alert dispatcher for one fingerprint: webhooks of Alertmanager      *)
(* become alert state and outbox rows in one transaction                   *)
(* (src/tvt_edge/alerting/service.py), and workers deliver the rows by     *)
(* email under leases (src/tvt_edge/alerting/outbox.py).                   *)
(*                                                                         *)
(* Times are abstracted to flags that a clock raises: "ripe" says that the *)
(* time a row waits for has come (next_attempt_at, claim_until, or         *)
(* sent_at plus the repeat interval, depending on its state), "old" that   *)
(* it has reached max_delivery_age.  A claim token is the number of the    *)
(* claim, which is as fresh as a uuid.                                     *)
(***************************************************************************)
EXTENDS Integers, Sequences, FiniteSets

CONSTANTS
    Workers,        \* processes that run OutboxWorker.run_once
    Policies,       \* enabled policies that match the alert
    Repeating,      \* those with a repeat interval
    TellResolved,   \* those with send_resolved
    Occurrences,    \* occurrences, numbered in the order of starts_at
    Ends,           \* different ends_at of one occurrence
    MaxEvents,      \* bound: different events that arrive
    MaxMessages,    \* bound: rows of the outbox
    MaxAttempts,    \* bound: attempts within the maximum delivery age
    MaxCrashes      \* bound: ends of a worker inside run_once

ASSUME AlertAssumption ==
    /\ Repeating \subseteq Policies /\ TellResolved \subseteq Policies
    /\ Occurrences \subseteq Nat \ {0} /\ Ends \subseteq Nat \ {0}
    /\ MaxEvents \in Nat /\ MaxMessages \in Nat /\ MaxAttempts \in Nat /\ MaxCrashes \in Nat

VARIABLES
    alert,          \* AlertInstance of the fingerprint
    transitions,    \* AlertTransition: events by idempotency key
    outbox,         \* NotificationOutbox: rows by message_id
    sends,          \* number of rows recorded as sent: the order of sent_at
    worker,         \* run_once of each worker
    accepted,       \* messages the SMTP relay has accepted
    crashes

vars == <<alert, transitions, outbox, sends, worker, accepted, crashes>>

(* source and fingerprint are the same for all events of one alert. *)
Event == [status : {"firing"}, occ : Occurrences, end : {0}]
           \cup [status : {"resolved"}, occ : Occurrences, end : Ends]

(* "after" stands for the suffix of a reminder: the send it is due after. *)
Message == [kind : {"firing", "reminder", "resolved"}, occ : Occurrences,
            end : Nat, policy : Policies, after : Nat]

Result == {"sent", "transient_failure", "permanent_failure", "expired"}

Row == [state   : {"pending", "delivering", "sent", "failed", "expired"},
        attempts : Nat,
        claim   : Nat,                  \* claim_token, 0 for null
        ripe    : BOOLEAN,
        old     : BOOLEAN,
        sentAt  : Nat,                  \* place in the order of sent_at
        tried   : Seq([number : Nat, result : Result])]  \* NotificationAttempt

NewRow == [state |-> "pending", attempts |-> 0, claim |-> 0, ripe |-> TRUE,
           old |-> FALSE, sentAt |-> 0, tried |-> <<>>]

NoMessage == [kind |-> "none", occ |-> 0, end |-> 0, policy |-> "none", after |-> 0]

Worker == [step    : {"idle", "reminded", "claimed", "sending", "answered"},
           message : Message \cup {NoMessage},
           token   : Nat,
           outcome : Result \cup {"none"}]

IdleWorker == [step |-> "idle", message |-> NoMessage, token |-> 0, outcome |-> "none"]

Queued == DOMAIN outbox
Settled(m) == outbox[m].state \in {"sent", "failed", "expired"}

(***************************************************************************)
(* Alert, transitions, rows and workers stay within their types.           *)
(***************************************************************************)
TypeOK ==
    /\ alert \in [state : {"none", "active", "acknowledged", "resolved"},
                  occ : Occurrences \cup {0}]
    /\ transitions \subseteq Event
    /\ Queued \subseteq Message
    /\ outbox \in [Queued -> Row]
    /\ sends \in Nat
    /\ worker \in [Workers -> Worker]
    /\ \A w \in Workers :
         worker[w].step \in {"claimed", "sending", "answered"} => worker[w].message \in Queued
    /\ accepted \subseteq Queued
    /\ crashes \in 0..MaxCrashes

Init ==
    /\ alert = [state |-> "none", occ |-> 0]
    /\ transitions = {}
    /\ outbox = [m \in {} |-> NewRow]
    /\ sends = 0
    /\ worker = [w \in Workers |-> IdleWorker]
    /\ accepted = {}
    /\ crashes = 0

-------------------------------------------------------------------------------
(* AlertingService                                                         *)

(* _queue: a message_id that exists already is not queued again. *)
Queue(messages) ==
    /\ Cardinality(Queued \cup messages) <= MaxMessages
    /\ outbox' = [m \in Queued \cup messages |->
                    IF m \in Queued THEN outbox[m] ELSE NewRow]

(* The emails that tell policy p that occurrence o goes on. *)
SentAbout(p, o) ==
    {m \in Queued : /\ m.policy = p /\ m.occ = o
                    /\ m.kind \in {"firing", "reminder"}
                    /\ outbox[m].state = "sent"}

(* Mutant: a queued firing email counts as sent. *)
FiringWasQueued(p, o) ==
    \E m \in Queued : m.policy = p /\ m.occ = o /\ m.kind = "firing"

FiringWasSent(p, o) == SentAbout(p, o) # {}

(* A first event creates the row with its own occurrence. *)
Known(e) == IF alert.state = "none" THEN [state |-> "active", occ |-> e.occ] ELSE alert

(* The state an event leaves the alert in: only a newer occurrence opens   *)
(* it, and only the current occurrence can be resolved.                    *)
AlertAfter(e) ==
    LET a == Known(e) IN
    CASE e.status = "firing" /\ e.occ > a.occ -> [state |-> "active", occ |-> e.occ]
      [] e.status = "resolved" /\ e.occ = a.occ -> [a EXCEPT !.state = "resolved"]
      [] OTHER -> a

(* Mutant: a resolved occurrence may be resolved again. *)
AnyResolution(e) == AlertAfter(e) # alert \/ e.status = "resolved"

StateChanged(e) == AlertAfter(e) # alert

Notices(e) ==
    {[kind |-> e.status, occ |-> e.occ, end |-> e.end, policy |-> p, after |-> 0] :
        p \in IF e.status = "firing" THEN Policies
              ELSE {q \in TellResolved : FiringWasSent(q, e.occ)}}

(* Webhooks are repeated and overtake each other. *)
Ingest(e) ==
    /\ \/ /\ e \in transitions
          /\ UNCHANGED <<alert, transitions, outbox>>
       \/ /\ e \notin transitions /\ Cardinality(transitions) < MaxEvents
          /\ transitions' = transitions \cup {e}
          /\ alert' = AlertAfter(e)
          /\ Queue(IF StateChanged(e) THEN Notices(e) ELSE {})
    /\ UNCHANGED <<sends, worker, accepted, crashes>>

Acknowledge ==
    /\ alert.state = "active"
    /\ alert' = [alert EXCEPT !.state = "acknowledged"]
    /\ UNCHANGED <<transitions, outbox, sends, worker, accepted, crashes>>

-------------------------------------------------------------------------------
(* OutboxWorker.  The lookups of _deliver that foreign keys make succeed    *)
(* are left out.                                                           *)

LastSent(p) ==
    {m \in SentAbout(p, alert.occ) :
        \A n \in SentAbout(p, alert.occ) : outbox[n].sentAt <= outbox[m].sentAt}

(* Mutant: the identity of a reminder counts the reminders queued. *)
NumberedReminder(m) ==
    [kind |-> "reminder", occ |-> m.occ, end |-> 0, policy |-> m.policy,
     after |-> Cardinality({n \in Queued : n.kind = "reminder"})]

ReminderAfter(m) ==
    [kind |-> "reminder", occ |-> m.occ, end |-> 0, policy |-> m.policy,
     after |-> outbox[m].sentAt]

DueReminders ==
    IF alert.state # "active" \/ ~\E e \in transitions : e.status = "firing" /\ e.occ = alert.occ
    THEN {}
    ELSE {ReminderAfter(m) : m \in {n \in UNION {LastSent(p) : p \in Repeating} : outbox[n].ripe}}

(* enqueue_due_reminders opens every pass of run_once.  It skips an alert  *)
(* that another transaction has locked.                                    *)
EnqueueDueReminders(w) ==
    /\ worker[w].step = "idle"
    /\ \E due \in {DueReminders, {}} : Queue(due)
    /\ worker' = [worker EXCEPT ![w].step = "reminded"]
    /\ UNCHANGED <<alert, transitions, sends, accepted, crashes>>

(* Mutant: rows whose worker has died are not claimed again. *)
PendingOnly == {m \in Queued : outbox[m].state = "pending" /\ outbox[m].ripe}

Claimable == {m \in Queued : outbox[m].state \in {"pending", "delivering"} /\ outbox[m].ripe}

NothingToClaim(w) ==
    /\ worker[w].step = "reminded"
    /\ Claimable = {}
    /\ worker' = [worker EXCEPT ![w] = IdleWorker]
    /\ UNCHANGED <<alert, transitions, outbox, sends, accepted, crashes>>

(* The order among claimable rows is left open. *)
Claim(w) ==
    /\ worker[w].step = "reminded"
    /\ \E m \in Claimable :
         LET token == outbox[m].attempts + 1 IN
         /\ outbox' = [outbox EXCEPT ![m] = [@ EXCEPT !.state = "delivering", !.ripe = FALSE,
                                             !.attempts = token, !.claim = token]]
         /\ worker' = [worker EXCEPT ![w] = [step |-> "claimed", message |-> m,
                                             token |-> token, outcome |-> "none"]]
    /\ UNCHANGED <<alert, transitions, sends, accepted, crashes>>

(* Mutant: whoever comes last records its result. *)
OwnsAnything(w) == worker[w].token > 0

Owns(w) == outbox[worker[w].message].claim = worker[w].token

(* _deliver up to the call of the sender *)
BeginDelivery(w) ==
    /\ worker[w].step = "claimed"
    /\ worker' = [worker EXCEPT ![w] =
                    IF ~Owns(w) THEN IdleWorker
                    ELSE IF outbox[worker[w].message].old
                         THEN [@ EXCEPT !.step = "answered", !.outcome = "expired"]
                         ELSE [@ EXCEPT !.step = "sending"]]
    /\ UNCHANGED <<alert, transitions, outbox, sends, accepted, crashes>>

(* The relay may accept a message and the answer may be lost. *)
Send(w) ==
    /\ worker[w].step = "sending"
    /\ \E outcome \in {"sent", "transient_failure", "permanent_failure"} :
         /\ worker' = [worker EXCEPT ![w].step = "answered", ![w].outcome = outcome]
         /\ \/ outcome # "permanent_failure" /\ accepted' = accepted \cup {worker[w].message}
            \/ outcome # "sent" /\ accepted' = accepted
    /\ UNCHANGED <<alert, transitions, outbox, sends, crashes>>

(* A transient failure is retried unless the row would be too old by then. *)
Results(w) ==
    LET row == outbox[worker[w].message] IN
    CASE worker[w].outcome # "transient_failure" -> {worker[w].outcome}
      [] row.old \/ row.attempts >= MaxAttempts -> {"expired"}
      [] OTHER -> {"transient_failure", "expired"}

StateOf(result) ==
    CASE result = "sent" -> "sent"
      [] result = "transient_failure" -> "pending"
      [] result = "permanent_failure" -> "failed"
      [] result = "expired" -> "expired"

Finished(row, result) ==
    [row EXCEPT !.state = StateOf(result), !.claim = 0, !.ripe = FALSE,
                !.sentAt = IF result = "sent" THEN sends + 1 ELSE @,
                !.tried = Append(@, [number |-> row.attempts, result |-> result])]

(* _finish, fenced by the token *)
Finish(w) ==
    /\ worker[w].step = "answered"
    /\ worker' = [worker EXCEPT ![w] = IdleWorker]
    /\ \/ /\ Owns(w)
          /\ \E result \in Results(w) :
               /\ outbox' = [outbox EXCEPT ![worker[w].message] = Finished(@, result)]
               /\ sends' = IF result = "sent" THEN sends + 1 ELSE sends
       \/ ~Owns(w) /\ UNCHANGED <<outbox, sends>>
    /\ UNCHANGED <<alert, transitions, accepted, crashes>>

(* The process ends, or an exception ends the pass: memory is lost. *)
Crash(w) ==
    /\ worker[w].step # "idle"
    /\ crashes < MaxCrashes
    /\ crashes' = crashes + 1
    /\ worker' = [worker EXCEPT ![w] = IdleWorker]
    /\ UNCHANGED <<alert, transitions, outbox, sends, accepted>>

-------------------------------------------------------------------------------
(* Time                                                                    *)

Held(m) == \E w \in Workers : worker[w].message = m /\ worker[w].token = outbox[m].claim

(* A lease may run out under a worker that is slow. *)
Ripen(m) ==
    /\ ~outbox[m].ripe
    /\ CASE outbox[m].state = "pending" -> TRUE
         [] outbox[m].state = "delivering" -> Held(m) => outbox[m].attempts < MaxAttempts
         [] outbox[m].state = "sent" -> m.kind # "resolved" /\ m.policy \in Repeating
         [] OTHER -> FALSE
    /\ outbox' = [outbox EXCEPT ![m].ripe = TRUE]
    /\ UNCHANGED <<alert, transitions, sends, worker, accepted, crashes>>

Age(m) ==
    /\ ~Settled(m) /\ ~outbox[m].old
    /\ outbox' = [outbox EXCEPT ![m].old = TRUE]
    /\ UNCHANGED <<alert, transitions, sends, worker, accepted, crashes>>

RunOnce(w) ==
    \/ EnqueueDueReminders(w) \/ NothingToClaim(w) \/ Claim(w)
    \/ BeginDelivery(w) \/ Send(w) \/ Finish(w)

TimePasses == \E m \in Queued : Ripen(m)

Next ==
    \/ \E e \in Event : Ingest(e)
    \/ Acknowledge
    \/ \E w \in Workers : RunOnce(w) \/ Crash(w)
    \/ TimePasses
    \/ \E m \in Queued : Age(m)

Spec == Init /\ [][Next]_vars

(* The receiver repeats run_once for ever, and time passes. *)
FairSpec == Spec /\ WF_vars(TimePasses) /\ \A w \in Workers : WF_vars(RunOnce(w))

-------------------------------------------------------------------------------
(* Properties                                                              *)

(***************************************************************************)
(* The attempts of a row tell its state, and their numbers differ as the   *)
(* unique constraint of NotificationAttempt asks: a row is sent, failed or *)
(* expired because its last attempt was, and nothing but transient         *)
(* failures precedes that.  A worker whose lease ran out must not record   *)
(* its result (_finish, the token).                                        *)
(***************************************************************************)
AttemptsTellState ==
    \A m \in Queued :
      LET tried == outbox[m].tried
          last == Len(tried) IN
      /\ \A i \in 1..last : /\ tried[i].number <= outbox[m].attempts
                            /\ i > 1 => tried[i - 1].number < tried[i].number
                            /\ i < last => tried[i].result = "transient_failure"
      /\ Settled(m) => last > 0 /\ StateOf(tried[last].result) = outbox[m].state
      /\ ~Settled(m) /\ last > 0 => tried[last].result = "transient_failure"

(***************************************************************************)
(* Of the reminders of one occurrence under one policy at most one waits   *)
(* for delivery, however often workers look for due reminders and however  *)
(* long a delivery is retried (the suffix of enqueue_due_reminders).       *)
(***************************************************************************)
OneReminderOutstanding ==
    \A m, n \in Queued :
      /\ m.kind = "reminder" /\ n.kind = "reminder"
      /\ m.policy = n.policy /\ m.occ = n.occ
      /\ ~Settled(m) /\ ~Settled(n)
      => m = n

(***************************************************************************)
(* The end of an occurrence is announced at most once to a policy, also    *)
(* when Alertmanager resolves it again with another end (_ingest).         *)
(***************************************************************************)
OneRecovery ==
    \A m, n \in Queued :
      m.kind = "resolved" /\ n.kind = "resolved" /\ m.policy = n.policy /\ m.occ = n.occ
      => m = n

(***************************************************************************)
(* Webhooks in any order, retries, lost answers and crashes implement      *)
(* AlertContract: an occurrence that is over stays over, and reminders and *)
(* recovery emails reach only those whom a firing email of the same        *)
(* occurrence has reached.                                                 *)
(***************************************************************************)
Contract == INSTANCE AlertContract WITH
    occurrence <- alert.occ,
    state <- alert.state,
    told <- {<<m.policy, m.kind, m.occ>> : m \in accepted}

ImplementsContract == Contract!Spec

(***************************************************************************)
(* When no more events arrive, every queued notification is sent, failed   *)
(* or expired in the end, whatever workers died over it (run_once).        *)
(***************************************************************************)
QueuedIsSettled == <>[](\A m \in Queued : Settled(m))

(***************************************************************************)
(* "Acknowledgement stops future reminders" (MONITORING.md): no delivery   *)
(* of a reminder begins while its occurrence is acknowledged.  The code    *)
(* delivers whatever is queued (_deliver).                                 *)
(***************************************************************************)
AcknowledgementStopsReminders ==
    [][\A w \in Workers :
         worker[w].step # "sending" /\ worker'[w].step = "sending" =>
           ~(/\ worker'[w].message.kind = "reminder"
             /\ worker'[w].message.occ = alert.occ
             /\ alert.state = "acknowledged")]_vars

===============================================================================
