------------------------------ MODULE SiteSessions ------------------------------
(***************************************************************************)
(* What an accepted camera event does to the site's aggregates, in the     *)
(* transaction that inserts it (src/apexfabric/control_plane): threshold   *)
(* alerts, attendance visits of resolved persons, vehicle sessions and the *)
(* daily span of a number plate.  Events arrive in any order, late, and    *)
(* again; the session sweep and retention run beside them.                 *)
(*                                                                         *)
(* An event stands for its id.  Payload gives its kind ("face", "plate" or *)
(* "count"), who was seen (a resolved person, or the text of a plate), the *)
(* normalized plate, the gate and role of the line that was crossed, the   *)
(* camera's clock (0 when it is not valid) and, for a count, whether the   *)
(* value is over the threshold of the alert rule.                          *)
(***************************************************************************)
EXTENDS Integers, SequencesExt, FiniteSetsExt

CONSTANTS
    SiteEvents,
    Payload,        \* [SiteEvents -> record]
    Batches,        \* the sets of events one of which a site sees
    DayLength,      \* of the clock, in ticks
    ReportHours,    \* ticks of a day in which detections count
    StaleAfter,     \* age after which the sweep closes an open session
    AlertCooldown,  \* of the alert rule
    MaxSessionTime, \* bound on the clock
    ReplayEvicted   \* the stream repeats an event that retention removed

ASSUME SessionAssumption ==
    /\ 0 \notin SiteEvents
    /\ Batches \subseteq SUBSET SiteEvents
    /\ MaxSessionTime \in Nat \ {0}
    /\ \A e \in SiteEvents :
         /\ Payload[e].kind \in {"face", "plate", "count"}
         /\ Payload[e].role \in {"entry", "exit", "none"}
         /\ Payload[e].kind = "count" => Payload[e].role = "none"
         /\ Payload[e].time \in Nat
         /\ Payload[e].over \in BOOLEAN

VARIABLES
    now,            \* the control plane's clock
    offered,        \* the events of this site
    received,       \* events table: received_at per event, 0 when absent
    visits,         \* attendance_sessions
    drives,         \* vehicle_sessions
    spans,          \* vehicle_daily_spans, per plate and day
    rule,           \* the alert rule's state row
    alerts,         \* received_at and position of the alerts of the rule
    arrivals,       \* history: every accepted event with its time of arrival
    counts          \* history: count events since the rule was saved

sessionVars ==
    <<now, offered, received, visits, drives, spans, rule, alerts, arrivals, counts>>

InTable(e) == received[e] # 0

Plates == {Payload[e].plate : e \in SiteEvents}

Days == 0..(MaxSessionTime \div DayLength)

NoSpan == [count |-> 0, first |-> 0, last |-> 0, start |-> 0, end |-> 0]

SessionInit ==
    /\ now = 1
    /\ offered \in Batches
    /\ received = [e \in SiteEvents |-> 0]
    /\ visits = <<>>
    /\ drives = <<>>
    /\ spans = [k \in Plates \X Days |-> NoSpan]
    /\ rule = [known |-> FALSE, active |-> FALSE, last |-> 0]
    /\ alerts = <<>>
    /\ arrivals = <<>>
    /\ counts = <<>>

SessionType ==
    /\ now \in 1..MaxSessionTime
    /\ offered \subseteq SiteEvents
    /\ received \in [SiteEvents -> 0..MaxSessionTime]
    /\ \A table \in {visits, drives} : \A i \in DOMAIN table :
         /\ table[i].status \in {"open", "closed", "forced_closed"}
         /\ {table[i].entry, table[i].exit} \subseteq SiteEvents \cup {0}
         /\ {table[i].start, table[i].end} \subseteq Nat
    /\ rule.last \in 0..MaxSessionTime

-------------------------------------------------------------------------------
(* The camera's clock if it is valid, else the time of arrival. *)
ObservedAt(e) == IF Payload[e].time = 0 THEN now ELSE Payload[e].time

OpenIn(table, key) ==
    {i \in DOMAIN table : table[i].key = key /\ table[i].status = "open"}

(* An entry while a session is open is a lingering re-entry. *)
Enter(table, key, e) ==
    IF OpenIn(table, key) # {} THEN table
    ELSE Append(table, [key |-> key, entry |-> e, exit |-> 0,
                        start |-> ObservedAt(e), end |-> 0, status |-> "open"])

OrphanExit(table, key, e) ==
    Append(table, [key |-> key, entry |-> 0, exit |-> e,
                   start |-> 0, end |-> ObservedAt(e), status |-> "closed"])

Close(table, i, e) ==
    [table EXCEPT ![i].exit = e, ![i].end = ObservedAt(e), ![i].status = "closed"]

(* Mutant: an exit that was overtaken by the next entry closes it. *)
LeaveUnordered(table, key, e) ==
    IF OpenIn(table, key) # {} THEN Close(table, Max(OpenIn(table, key)), e)
    ELSE OrphanExit(table, key, e)

(* A person's exit closes only a visit that began before it. *)
Leave(table, key, e) ==
    LET open == {i \in OpenIn(table, key) : table[i].start <= ObservedAt(e)}
    IN IF open # {} THEN Close(table, Max(open), e)
       ELSE OrphanExit(table, key, e)

(* A vehicle's exit closes the open session of its gate, however timed. *)
DriveOut(table, key, e) ==
    IF OpenIn(table, key) # {} THEN Close(table, Max(OpenIn(table, key)), e)
    ELSE OrphanExit(table, key, e)

(* evaluate_attendance: visits are keyed by person, across gates. *)
Attendance(e) ==
    IF Payload[e].kind # "face" \/ Payload[e].role = "none" THEN visits
    ELSE IF Payload[e].role = "entry" THEN Enter(visits, Payload[e].who, e)
    ELSE Leave(visits, Payload[e].who, e)

Traffic(e) ==
    LET key == <<Payload[e].who, Payload[e].gate>>
    IN IF Payload[e].kind # "plate" \/ Payload[e].role = "none" THEN drives
       ELSE IF Payload[e].role = "entry" THEN Enter(drives, key, e)
       ELSE DriveOut(drives, key, e)

(* Mutant: a late detection overwrites the last one. *)
WidenByArrival(span, e) ==
    [count |-> span.count + 1,
     first |-> IF span.count = 0 THEN e ELSE span.first,
     start |-> IF span.count = 0 THEN ObservedAt(e) ELSE span.start,
     last  |-> e,
     end   |-> ObservedAt(e)]

(* _record_vehicle_detection: the upsert of a daily span. *)
Widen(span, e) ==
    LET at == ObservedAt(e)
    IN [count |-> span.count + 1,
        first |-> IF span.count = 0 \/ at < span.start THEN e ELSE span.first,
        start |-> IF span.count = 0 \/ at < span.start THEN at ELSE span.start,
        last  |-> IF span.count = 0 \/ at > span.end THEN e ELSE span.last,
        end   |-> IF span.count = 0 \/ at > span.end THEN at ELSE span.end]

SpanOf(e) == <<Payload[e].plate, ObservedAt(e) \div DayLength>>

WithinReportWindow(at) == at % DayLength \in ReportHours

Detected(e) ==
    IF Payload[e].kind = "plate" /\ WithinReportWindow(ObservedAt(e))
      THEN [spans EXCEPT ![SpanOf(e)] = Widen(@, e)]
      ELSE spans

Armed(over, raised) == over

(* evaluate: a crossing raises an alert unless the last one is too recent. *)
Thresholds(e) ==
    LET over == Payload[e].over
        raised == /\ over
                  /\ ~rule.active
                  /\ \/ ~rule.known
                     \/ rule.last = 0
                     \/ now - rule.last >= AlertCooldown
    IN IF Payload[e].kind # "count" THEN UNCHANGED <<rule, alerts, counts>>
       ELSE /\ rule' = [known |-> TRUE, active |-> Armed(over, raised),
                        last |-> IF raised THEN now ELSE rule.last]
            /\ alerts' = IF raised THEN Append(alerts, Len(counts) + 1) ELSE alerts
            /\ counts' = Append(counts, [over |-> over, at |-> now])

(* ingest: an event that the table still holds is ignored. *)
Ingest(e) ==
    /\ e \in offered
    /\ ~InTable(e)
    /\ ReplayEvicted \/ \A i \in DOMAIN arrivals : arrivals[i].event # e
    /\ received' = [received EXCEPT ![e] = now]
    /\ Thresholds(e)
    /\ visits' = Attendance(e)
    /\ drives' = Traffic(e)
    /\ spans' = Detected(e)
    /\ arrivals' = Append(arrivals, [event |-> e, at |-> ObservedAt(e)])
    /\ UNCHANGED <<now, offered>>

Forced(table) ==
    [i \in DOMAIN table |->
       IF table[i].status = "open" /\ table[i].start < now - StaleAfter
         THEN [table[i] EXCEPT !.status = "forced_closed"] ELSE table[i]]

SweepStaleSessions ==
    /\ visits' = Forced(visits)
    /\ drives' = Forced(drives)
    /\ UNCHANGED <<now, offered, received, spans, rule, alerts, arrivals, counts>>

(* Retention removes the oldest events; the aggregates stay. *)
Evict ==
    \E e \in SiteEvents :
        /\ InTable(e)
        /\ \A other \in SiteEvents :
             InTable(other) => received[e] <= received[other]
        /\ received' = [received EXCEPT ![e] = 0]
        /\ UNCHANGED <<now, offered, visits, drives, spans, rule, alerts, arrivals,
                       counts>>

(* Saving the rule forgets its state. *)
SaveRule ==
    /\ rule.known
    /\ rule' = [known |-> FALSE, active |-> FALSE, last |-> 0]
    /\ alerts' = <<>>
    /\ counts' = <<>>
    /\ UNCHANGED <<now, offered, received, visits, drives, spans, arrivals>>

SessionTick ==
    /\ now < MaxSessionTime
    /\ now' = now + 1
    /\ UNCHANGED <<offered, received, visits, drives, spans, rule, alerts, arrivals, counts>>

SessionNext ==
    \/ \E e \in SiteEvents : Ingest(e)
    \/ SweepStaleSessions
    \/ Evict
    \/ SaveRule
    \/ SessionTick

-------------------------------------------------------------------------------
Ends(table, e) == {i \in DOMAIN table : e \in {table[i].entry, table[i].exit}}

(***************************************************************************)
(* However late and in whatever order its events arrive: a person has at   *)
(* most one open visit and a vehicle one open session per gate, no event   *)
(* is an end of two of them, a visit does not end before it begins, and no *)
(* exit is lost.                                                           *)
(***************************************************************************)
VisitsConsistent ==
    /\ \A table \in {visits, drives} :
         /\ \A i \in DOMAIN table : table[i].status = "open"
              => OpenIn(table, table[i].key) = {i}
         /\ \A e \in SiteEvents : Cardinality(Ends(table, e)) <= 1
    /\ \A i \in DOMAIN visits :
         visits[i].entry # 0 /\ visits[i].exit # 0
           => visits[i].start <= visits[i].end
    /\ \A i \in DOMAIN arrivals :
         LET e == arrivals[i].event
         IN Payload[e].role = "exit" => Ends(visits, e) \cup Ends(drives, e) # {}

Detections(k) ==
    {i \in DOMAIN arrivals :
       /\ Payload[arrivals[i].event].kind = "plate"
       /\ Payload[arrivals[i].event].plate = k[1]
       /\ WithinReportWindow(arrivals[i].at)
       /\ arrivals[i].at \div DayLength = k[2]}

(* A daily span is that of the set of its detections, in whatever order    *)
(* they arrived: their number, the earliest and the latest.                *)
DailySpanExact ==
    \A k \in Plates \X Days :
        LET times == {arrivals[i].at : i \in Detections(k)}
        IN /\ spans[k].count = Cardinality(Detections(k))
           /\ times # {} =>
                /\ spans[k].start = Min(times)
                /\ spans[k].end = Max(times)
                /\ \E i \in Detections(k) :
                     arrivals[i] = [event |-> spans[k].first, at |-> spans[k].start]
                /\ \E i \in Detections(k) :
                     arrivals[i] = [event |-> spans[k].last, at |-> spans[k].end]

(* Position n of a log of counts crosses the threshold, outside of the     *)
(* cooldown of the last alert before it.                                   *)
CrossesAt(log, before, n) ==
    /\ log[n].over
    /\ n = 1 \/ ~log[n - 1].over
    /\ before # {} => log[n].at - log[Max(before)].at >= AlertCooldown

(* Positions of the log that should have raised an alert. *)
Crossings(log) ==
    LET upTo[n \in 0..Len(log)] ==
          IF n = 0 THEN {}
          ELSE LET before == upTo[n - 1]
               IN IF CrossesAt(log, before, n) THEN before \cup {n} ELSE before
    IN upTo[Len(log)]

(* The rule raises an alert exactly where the value crosses the threshold  *)
(* outside the cooldown; a crossing inside it is not made up for later.    *)
AlertsAreCrossings == ToSet(alerts) = Crossings(counts)

(* What is derived from the events is what the definitions above compute   *)
(* from the accepted events, in whatever order they arrived.               *)
DerivedExact == DailySpanExact /\ AlertsAreCrossings

(* HLD 13: "duplicate event IDs do not alter the aggregate", which  *)
(* holds unless the stream repeats an event that retention removed.        *)
CountedOnce ==
    \A k \in Plates \X Days :
        spans[k].count = Cardinality({arrivals[i].event : i \in Detections(k)})

===============================================================================
