------------------------------ MODULE DailyReport ------------------------------
(***************************************************************************)
(* The daily report emails (src/tvt_edge/reporting).  A timer and          *)
(* operators invoke the command; every invocation stores the report of its *)
(* date unless another did, consumes the single delivery attempt of the    *)
(* date, and sends the stored report.  Reports of different kinds have     *)
(* rows of their own: this is one kind.                                    *)
(***************************************************************************)
EXTENDS Naturals

CONSTANTS
    Invocations,
    LastDate,       \* bound on the dates
    Figures,        \* what Apex answers for a date, it may change in between
    None

ASSUME ReportAssumption == LastDate \in Nat \ {0}

VARIABLES
    today,
    reports,        \* daily_reports: state and stored figures per date
    process,        \* the invocations
    mails           \* history: figures the relay accepted per date, and how often

reportVars == <<today, reports, process, mails>>

Dates == 1..LastDate

RowState == {"absent", "pending", "sending", "sent", "failed"}

ReportRow == [state : RowState, figures : Figures \cup {None}]

Step == {"waiting", "look", "fetched", "read", "claim", "send", "sent", "refused", "done"}

Process == [step : Step, date : Dates, figures : Figures \cup {None}]

Idle == [step |-> "waiting", date |-> 1, figures |-> None]

ReportType ==
    /\ today \in Dates
    /\ reports \in [Dates -> ReportRow]
    /\ process \in [Invocations -> Process]
    /\ mails \in [Dates -> [count : Nat, figures : Figures \cup {None}]]

ReportInit ==
    /\ today = 1
    /\ reports = [d \in Dates |-> [state |-> "absent", figures |-> None]]
    /\ process = [i \in Invocations |-> Idle]
    /\ mails = [d \in Dates |-> [count |-> 0, figures |-> None]]

-------------------------------------------------------------------------------
Row(i) == reports[process[i].date]

Goto(i, step) == process' = [process EXCEPT ![i].step = step]

(* send_daily_report takes its date from the clock, once. *)
Invoke(i) ==
    /\ process[i].step = "waiting"
    /\ process' = [process EXCEPT ![i] = [Idle EXCEPT !.step = "look", !.date = today]]
    /\ UNCHANGED <<today, reports, mails>>

(* The row that was read is used, and only a pending report goes on. *)
UseReport(i) ==
    process' = [process EXCEPT
      ![i].step = IF Row(i).state = "pending" THEN "claim" ELSE "done",
      ![i].figures = Row(i).figures]

(* ensure_*_report: an existing report is used as it is. *)
LookUp(i) ==
    /\ process[i].step = "look"
    /\ \/ Row(i).state # "absent" /\ UseReport(i)
       \/ /\ Row(i).state = "absent"
          /\ \E f \in Figures :
               process' = [process EXCEPT ![i].step = "fetched", ![i].figures = f]
       \/ Row(i).state = "absent" /\ Goto(i, "done")     \* Apex is unavailable
    /\ UNCHANGED <<today, reports, mails>>

(* Mutant: a report that was created in the meantime is replaced. *)
CreateReportReplacing(i) ==
    /\ process[i].step = "fetched"
    /\ reports' = [reports EXCEPT ![process[i].date] =
                     [state |-> "pending", figures |-> process[i].figures]]
    /\ Goto(i, "read")
    /\ UNCHANGED <<today, mails>>

(* create_report: INSERT OR IGNORE. *)
CreateReport(i) ==
    /\ process[i].step = "fetched"
    /\ reports' =
         IF Row(i).state # "absent" THEN reports
         ELSE [reports EXCEPT ![process[i].date] =
                 [state |-> "pending", figures |-> process[i].figures]]
    /\ Goto(i, "read")
    /\ UNCHANGED <<today, mails>>

(* create_report reads back what is stored now. *)
ReadReport(i) ==
    /\ process[i].step = "read"
    /\ UseReport(i)
    /\ UNCHANGED <<today, reports, mails>>

(* claim_delivery consumes the attempt. *)
ClaimDelivery(i) ==
    /\ process[i].step = "claim"
    /\ IF Row(i).state = "pending"
         THEN /\ reports' = [reports EXCEPT ![process[i].date].state = "sending"]
              /\ Goto(i, "send")
         ELSE UNCHANGED reports /\ Goto(i, "done")
    /\ UNCHANGED <<today, mails>>

(* The relay accepts the message, or not; either answer may be an error.   *)
Send(i) ==
    /\ process[i].step = "send"
    /\ \/ /\ mails' = [mails EXCEPT ![process[i].date] =
                         [count |-> @.count + 1, figures |-> process[i].figures]]
          /\ \E step \in {"sent", "refused"} : Goto(i, step)
       \/ UNCHANGED mails /\ Goto(i, "refused")
    /\ UNCHANGED <<today, reports>>

(* mark_sent and mark_failed. *)
Mark(i) ==
    /\ process[i].step \in {"sent", "refused"}
    /\ reports' =
         IF Row(i).state # "sending" THEN reports
         ELSE [reports EXCEPT ![process[i].date].state =
                 IF process[i].step = "sent" THEN "sent" ELSE "failed"]
    /\ Goto(i, "done")
    /\ UNCHANGED <<today, mails>>

(* A crash may come between any two steps. *)
Killed(i) ==
    /\ process[i].step \notin {"waiting", "done"}
    /\ Goto(i, "done")
    /\ UNCHANGED <<today, reports, mails>>

Midnight ==
    /\ today < LastDate
    /\ today' = today + 1
    /\ UNCHANGED <<reports, process, mails>>

ReportNext ==
    \/ \E i \in Invocations :
         \/ Invoke(i) \/ LookUp(i) \/ CreateReport(i) \/ ReadReport(i)
         \/ ClaimDelivery(i) \/ Send(i) \/ Mark(i) \/ Killed(i)
    \/ Midnight

-------------------------------------------------------------------------------
(***************************************************************************)
(* "a second invocation for the date cannot send a second logical email"   *)
(* (HLD.md): however invocations overlap and wherever they are killed, one *)
(* message of a date is accepted at most, it has the stored figures, and a *)
(* report that is recorded as sent was sent.                               *)
(***************************************************************************)
OneMailPerDate ==
    \A d \in Dates :
        /\ mails[d].count <= 1
        /\ mails[d].count = 1 => /\ mails[d].figures = reports[d].figures
                                 /\ reports[d].state \in {"sending", "sent", "failed"}
        /\ reports[d].state = "sent" => mails[d].count = 1

===============================================================================
