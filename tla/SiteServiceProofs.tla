--------------------------- MODULE SiteServiceProofs ---------------------------
(***************************************************************************)
(* Theorems about the services that keep their memory in a table, a file   *)
(* or the labels of Kubernetes, each by itself: the daily report, the      *)
(* watchdog of K3s, the failover of local storage, the enrollment windows  *)
(* of the legacy API, the status controller of the nodes, the fleet        *)
(* rollout, visits and drives, the telemetry store, the geometry of a      *)
(* camera and the qualification of a workload.  The end puts them, and the *)
(* upgrades, together as MCSiteServices does.                              *)
(***************************************************************************)
EXTENDS MCSiteServices, ReleaseUpgradeProofs, FiniteSetTheorems, TLAPS

-------------------------------------------------------------------------------
(***************************************************************************)
(* Induction over data, without an operator as a parameter: a set of       *)
(* naturals, or of subsets of a finite set, whose complement has no least  *)
(* member is the whole of them.  The proofs below define such a set for    *)
(* what a recursive function computes or a sum bounds, and cite these.     *)
(***************************************************************************)
LEMMA NatSetInduction ==
  ASSUME NEW S, 0 \in S, \A n \in Nat : n \in S => n + 1 \in S
  PROVE  Nat \subseteq S
<1>1. SUFFICES ASSUME Nat \ S # {} PROVE FALSE
  OBVIOUS
<1>2. PICK n \in Nat \ S : \A m \in Nat \ S : ~(<<m, n>> \in OpToRel(<, Nat))
  BY <1>1, NatLessThanWellFounded, WFMin, Zenon
<1>3. n \in Nat /\ n \notin S
  OBVIOUS
<1>5. n - 1 \in Nat /\ n - 1 < n
  BY <1>3
<1>4. <<n - 1, n>> \in OpToRel(<, Nat)
  BY <1>3, <1>5 DEF OpToRel
<1>6. n - 1 \in S
  BY <1>2, <1>4, <1>5
<1> QED  BY <1>3, <1>5, <1>6

LEMMA FiniteSetInduction ==
  ASSUME NEW S, IsFiniteSet(S), NEW P, {} \in P,
         \A T \in SUBSET S, x \in S : T \in P /\ x \notin T => T \cup {x} \in P
  PROVE  S \in P
<1>1. SUFFICES ASSUME S \notin P PROVE FALSE
  OBVIOUS
<1> DEFINE Bad == {T \in SUBSET S : T \notin P}
<1>2. Bad # {} /\ Bad \subseteq FiniteSubsetsOf(S)
  BY <1>1, FS_FiniteSubsetsOfFinite
<1>3. PICK T \in Bad : \A U \in Bad : ~(<<U, T>> \in StrictSubsetOrdering(S))
  <2> HIDE DEF Bad
  <2> QED  BY <1>2, FS_StrictSubsetOrderingWellFounded, WFMin
<1>4. PICK x : x \in T
  BY <1>3
<1>5. T \ {x} \in SUBSET S /\ T \ {x} \notin Bad
  BY <1>3, <1>4 DEF StrictSubsetOrdering
<1> QED  BY <1>3, <1>4, <1>5, (T \ {x}) \cup {x} = T

-------------------------------------------------------------------------------
(***************************************************************************)
(* Daily report: one mail per date, for any number of invocations and      *)
(* dates.  The claim of the delivery hands the date to one invocation,     *)
(* which is the only one that sends it.                                    *)
(***************************************************************************)
ReportSpec == ReportInit /\ [][ReportNext]_reportVars

(* Invocations that hold the delivery attempt of their date. *)
Delivers(i) == process[i].step \in {"send", "sent", "refused"}

(* A date is delivered by one invocation at most, after the claim. *)
HolderInv ==
    /\ \A i, j \in Invocations :
         Delivers(i) /\ Delivers(j) /\ process[i].date = process[j].date => i = j
    /\ \A i \in Invocations : Delivers(i) => Row(i).state = "sending"

(* What each step of an invocation knows of the row and of the mails. *)
ProcessInv ==
    \A i \in Invocations :
        /\ process[i].step \in {"read", "claim"} => Row(i).state # "absent"
        /\ process[i].step \in {"claim", "send"} => process[i].figures = Row(i).figures
        /\ process[i].step = "send" => mails[process[i].date].count = 0
        /\ process[i].step = "sent" => mails[process[i].date].count = 1

(* Before the claim nothing was sent. *)
UnsentInv ==
    \A d \in Dates : reports[d].state \in {"absent", "pending"} => mails[d].count = 0

ReportInv == ReportType /\ HolderInv /\ ProcessInv /\ UnsentInv /\ OneMailPerDate

-------------------------------------------------------------------------------
LEMMA ReportInitInv == ReportInit => ReportInv
  BY ReportAssumption
  DEF ReportInit, ReportInv, ReportType, HolderInv, ProcessInv, UnsentInv, OneMailPerDate,
      Delivers, Row, Dates, ReportRow, RowState, Process, Step, Idle

(* Steps of an invocation before it claims or after it marked. *)
LEMMA QuietStep ==
  ASSUME ReportInv, NEW i \in Invocations, UNCHANGED <<today, reports, mails>>,
         NEW p \in Process, process' = [process EXCEPT ![i] = p],
         p.step \in {"waiting", "look", "fetched", "read", "claim", "done"},
         p.step \in {"read", "claim"} => reports[p.date].state # "absent",
         p.step = "claim" => p.figures = reports[p.date].figures
  PROVE  ReportInv'
<1>1. process' \in [Invocations -> Process] /\ process'[i] = p
      /\ \A j \in Invocations \ {i} : process'[j] = process[j]
  BY DEF ReportInv, ReportType
<1>2. ReportType'
  BY <1>1 DEF ReportInv, ReportType
<1>3. HolderInv' /\ ProcessInv'
  BY <1>1 DEF ReportInv, HolderInv, ProcessInv, Delivers, Row
<1>4. UnsentInv' /\ OneMailPerDate'
  BY DEF ReportInv, UnsentInv, OneMailPerDate
<1> QED BY <1>2, <1>3, <1>4 DEF ReportInv

(* A step of one invocation that only goes on. *)
LEMMA StepOnly ==
  ASSUME ReportType, NEW i \in Invocations, NEW s \in Step, Goto(i, s)
  PROVE  /\ process' \in [Invocations -> Process]
         /\ process'[i].step = s /\ process'[i].date = process[i].date
         /\ process'[i].figures = process[i].figures
         /\ process[i].date \in Dates
         /\ \A j \in Invocations \ {i} : process'[j] = process[j]
  BY DEF ReportType, Goto, Process

LEMMA ReportPreserved == ReportInv /\ [ReportNext]_reportVars => ReportInv'
<1> SUFFICES ASSUME ReportInv, [ReportNext]_reportVars PROVE ReportInv'
  OBVIOUS
<1> USE DEF ReportInv, ReportType
<1>1. CASE UNCHANGED reportVars
  BY <1>1 DEF reportVars, HolderInv, ProcessInv, UnsentInv, OneMailPerDate, Delivers, Row
<1>2. ASSUME NEW i \in Invocations, Invoke(i) PROVE ReportInv'
  <2> DEFINE p == [Idle EXCEPT !.step = "look", !.date = today]
  <2>1. p \in Process /\ p.step = "look"
    BY ReportAssumption DEF Process, Idle, Step, Dates
  <2>2. process' = [process EXCEPT ![i] = p]
    BY <1>2 DEF Invoke
  <2> HIDE DEF p
  <2> QED BY <1>2, <2>1, <2>2, QuietStep DEF Invoke
<1>3. ASSUME NEW i \in Invocations, LookUp(i) PROVE ReportInv'
  <2>1. CASE Row(i).state # "absent" /\ UseReport(i)
    <3> DEFINE p == [process[i] EXCEPT
                       !.step = IF Row(i).state = "pending" THEN "claim" ELSE "done",
                       !.figures = Row(i).figures]
    <3>1. p \in Process /\ p.date = process[i].date /\ p.figures = Row(i).figures
          /\ p.step \in {"claim", "done"}
      BY DEF Process, Step, ReportRow, Row
    <3>2. process' = [process EXCEPT ![i] = p]
      BY <2>1 DEF UseReport
    <3> HIDE DEF p
    <3> QED BY <1>3, <2>1, <3>1, <3>2, QuietStep DEF LookUp, Row
  <2>2. ASSUME NEW f \in Figures,
               process' = [process EXCEPT ![i].step = "fetched", ![i].figures = f]
        PROVE  ReportInv'
    <3> DEFINE p == [process[i] EXCEPT !.step = "fetched", !.figures = f]
    <3>1. p \in Process /\ p.step = "fetched"
      BY DEF Process, Step
    <3>2. process' = [process EXCEPT ![i] = p]
      BY <2>2
    <3> HIDE DEF p
    <3> QED BY <1>3, <3>1, <3>2, QuietStep DEF LookUp
  <2>3. CASE Goto(i, "done")
    <3> DEFINE p == [process[i] EXCEPT !.step = "done"]
    <3>1. p \in Process /\ p.step = "done"
      BY DEF Process, Step
    <3>2. process' = [process EXCEPT ![i] = p]
      BY <2>3 DEF Goto
    <3> HIDE DEF p
    <3> QED BY <1>3, <3>1, <3>2, QuietStep DEF LookUp
  <2> QED BY <1>3, <2>1, <2>2, <2>3 DEF LookUp
<1>4. ASSUME NEW i \in Invocations, CreateReport(i) PROVE ReportInv'
  <2>1. /\ process' \in [Invocations -> Process]
        /\ process'[i].step = "read" /\ process'[i].date = process[i].date
        /\ process[i].date \in Dates
        /\ \A j \in Invocations \ {i} : process'[j] = process[j]
    BY <1>4, StepOnly DEF CreateReport, Step
  <2>2. /\ reports' \in [Dates -> ReportRow] /\ mails' = mails
        /\ reports'[process[i].date].state # "absent"
        /\ \A d \in Dates : reports[d].state # "absent" => reports'[d] = reports[d]
        /\ \A d \in Dates : reports[d].state = "absent" => reports'[d].state \in {"absent", "pending"}
    BY <1>4, <2>1 DEF CreateReport, Row, ReportRow, RowState, Process
  <2>3. ReportType'
    BY <1>4, <2>1, <2>2 DEF CreateReport
  <2>4. HolderInv'
    <3>1. \A j \in Invocations : Delivers(j)' => j # i /\ Delivers(j) /\ process'[j] = process[j]
      BY <2>1 DEF Delivers
    <3>2. \A j \in Invocations : Delivers(j) => process[j].date \in Dates
      BY DEF Process
    <3> QED BY <2>2, <3>1, <3>2 DEF HolderInv, Row
  <2>5. ProcessInv'
    <3>1. \A j \in Invocations : process[j].date \in Dates
      BY DEF Process
    <3>2. \A j \in Invocations : process[j].step \in {"claim", "send"} => reports[process[j].date].state # "absent"
      BY DEF ProcessInv, HolderInv, Delivers, Row
    <3> QED BY <2>1, <2>2, <3>1, <3>2 DEF ProcessInv, Row
  <2>6. UnsentInv' /\ OneMailPerDate'
    BY <2>2 DEF UnsentInv, OneMailPerDate, ReportRow, RowState
  <2> QED BY <2>3, <2>4, <2>5, <2>6
<1>5. ASSUME NEW i \in Invocations, ReadReport(i) PROVE ReportInv'
  <2> DEFINE p == [process[i] EXCEPT
                     !.step = IF Row(i).state = "pending" THEN "claim" ELSE "done",
                     !.figures = Row(i).figures]
  <2>1. p \in Process /\ p.date = process[i].date /\ p.figures = Row(i).figures
        /\ p.step \in {"claim", "done"}
    BY DEF Process, Step, ReportRow, Row
  <2>2. process' = [process EXCEPT ![i] = p] /\ Row(i).state # "absent"
    BY <1>5 DEF ReadReport, UseReport, ProcessInv
  <2> HIDE DEF p
  <2> QED BY <1>5, <2>1, <2>2, QuietStep DEF ReadReport, Row
<1>6. ASSUME NEW i \in Invocations, ClaimDelivery(i) PROVE ReportInv'
  <2> DEFINE d == process[i].date
  <2>0. process[i].step = "claim" /\ d \in Dates
    BY <1>6 DEF ClaimDelivery, Process
  <2>1. CASE reports[d].state # "pending"
    <3> DEFINE p == [process[i] EXCEPT !.step = "done"]
    <3>1. p \in Process /\ p.step = "done"
      BY DEF Process, Step
    <3>2. process' = [process EXCEPT ![i] = p] /\ UNCHANGED <<today, reports, mails>>
      BY <1>6, <2>1 DEF ClaimDelivery, Goto, Row
    <3> HIDE DEF p
    <3> QED BY <3>1, <3>2, QuietStep
  <2>2. CASE reports[d].state = "pending"
    <3>1. /\ process' \in [Invocations -> Process]
          /\ process'[i].step = "send" /\ process'[i].date = d
          /\ process'[i].figures = process[i].figures
          /\ \A j \in Invocations \ {i} : process'[j] = process[j]
      BY <1>6, <2>2, StepOnly DEF ClaimDelivery, Row, Step
    <3>2. /\ reports' \in [Dates -> ReportRow] /\ mails' = mails /\ today' = today
          /\ reports'[d].state = "sending" /\ reports'[d].figures = reports[d].figures
          /\ \A e \in Dates \ {d} : reports'[e] = reports[e]
      BY <1>6, <2>0, <2>2 DEF ClaimDelivery, Row, ReportRow, RowState
    <3>3. \A j \in Invocations : Delivers(j) => process[j].date # d
      BY <2>2 DEF HolderInv, Row
    <3> HIDE DEF d
    <3>4. \A j \in Invocations : process[j].date \in Dates
      BY DEF Process
    <3>5. HolderInv'
      BY <3>1, <3>2, <3>3, <3>4 DEF HolderInv, Delivers, Row
    <3>6. ProcessInv'
      <4>1. mails[d].count = 0 /\ process[i].figures = reports[d].figures
        BY <2>0, <2>2 DEF UnsentInv, ProcessInv, Row, d
      <4>2. ASSUME NEW j \in Invocations, j # i
            PROVE  /\ process[j].step \in {"read", "claim"} => reports'[process[j].date].state # "absent"
                   /\ process[j].step \in {"claim", "send"} => process[j].figures = reports'[process[j].date].figures
        BY <2>0, <3>2, <3>4 DEF ProcessInv, Row
      <4> QED BY <3>1, <3>2, <4>1, <4>2 DEF ProcessInv, Row
    <3>7. UnsentInv' /\ OneMailPerDate'
      BY <2>0, <2>2, <3>2 DEF UnsentInv, OneMailPerDate
    <3> QED BY <3>1, <3>2, <3>5, <3>6, <3>7
  <2> QED BY <2>1, <2>2
<1>7. ASSUME NEW i \in Invocations, Send(i) PROVE ReportInv'
  <2> DEFINE d == process[i].date
  <2>0. /\ process[i].step = "send" /\ d \in Dates /\ reports[d].state = "sending"
        /\ mails[d].count = 0 /\ process[i].figures = reports[d].figures
        /\ process[i].figures \in Figures \cup {None}
        /\ \A j \in Invocations \ {i} : Delivers(j) => process[j].date # d
    BY <1>7 DEF Send, Process, HolderInv, ProcessInv, Delivers, Row
  <2>1. /\ process' \in [Invocations -> Process]
        /\ process'[i].step \in {"sent", "refused"} /\ process'[i].date = d
        /\ process'[i].figures = process[i].figures
        /\ \A j \in Invocations \ {i} : process'[j] = process[j]
    BY <1>7, StepOnly DEF Send, Step
  <2>2. /\ mails' \in [Dates -> [count : Nat, figures : Figures \cup {None}]]
        /\ \A e \in Dates \ {d} : mails'[e] = mails[e]
        /\ \/ mails'[d].count = 1 /\ mails'[d].figures = reports[d].figures
           \/ mails'[d] = mails[d] /\ process'[i].step = "refused"
    <3>1. CASE mails' = [mails EXCEPT ![d] = [count |-> @.count + 1, figures |-> process[i].figures]]
      BY <2>0, <3>1
    <3>2. CASE UNCHANGED mails /\ Goto(i, "refused")
      BY <3>2 DEF Goto, Process
    <3> QED BY <1>7, <3>1, <3>2 DEF Send
  <2>3. today' = today /\ reports' = reports
    BY <1>7 DEF Send
  <2> HIDE DEF d
  <2>4. \A j \in Invocations : process[j].date \in Dates
    BY DEF Process
  <2>5. HolderInv'
    BY <2>0, <2>1, <2>3 DEF HolderInv, Delivers, Row
  <2>6. ProcessInv'
    <3>1. ASSUME NEW j \in Invocations, j # i
          PROVE  /\ process[j].step = "send" => mails'[process[j].date].count = 0
                 /\ process[j].step = "sent" => mails'[process[j].date].count = 1
      <4>1. Delivers(j) => mails'[process[j].date] = mails[process[j].date]
        BY <2>0, <2>2, <2>4, <3>1
      <4> QED BY <4>1 DEF ProcessInv, Delivers
    <3>2. process'[i].step = "sent" => mails'[d].count = 1
      BY <2>2
    <3> QED BY <2>1, <2>3, <3>1, <3>2 DEF ProcessInv, Row
  <2>7. UnsentInv' /\ OneMailPerDate'
    <3>1. ASSUME NEW e \in Dates, e # d PROVE mails'[e] = mails[e] /\ reports'[e] = reports[e]
      BY <2>2, <2>3, <3>1
    <3>2. /\ reports'[d] = reports[d] /\ reports[d].state = "sending"
          /\ mails'[d].count \in {0, 1}
          /\ mails'[d].count = 1 => mails'[d].figures = reports[d].figures
      BY <2>0, <2>2, <2>3
    <3>3. UnsentInv'
      BY <3>1, <3>2 DEF UnsentInv
    <3> QED BY <3>1, <3>2, <3>3 DEF OneMailPerDate
  <2> QED BY <2>1, <2>2, <2>3, <2>5, <2>6, <2>7
<1>8. ASSUME NEW i \in Invocations, Mark(i) PROVE ReportInv'
  <2> DEFINE d == process[i].date
  <2>0. /\ process[i].step \in {"sent", "refused"} /\ d \in Dates
        /\ reports[d].state = "sending"
        /\ process[i].step = "sent" => mails[d].count = 1
        /\ \A j \in Invocations \ {i} : Delivers(j) => process[j].date # d
    BY <1>8 DEF Mark, Process, HolderInv, ProcessInv, Delivers, Row
  <2>1. /\ process' \in [Invocations -> Process]
        /\ process'[i].step = "done"
        /\ \A j \in Invocations \ {i} : process'[j] = process[j]
    BY <1>8, StepOnly DEF Mark, Step
  <2>2. /\ reports' \in [Dates -> ReportRow] /\ mails' = mails /\ today' = today
        /\ \A e \in Dates \ {d} : reports'[e] = reports[e]
        /\ reports'[d].figures = reports[d].figures
        /\ reports'[d].state \in {"sent", "failed"}
        /\ reports'[d].state = "sent" => process[i].step = "sent"
    BY <1>8, <2>0 DEF Mark, Row, ReportRow, RowState
  <2> HIDE DEF d
  <2>3. \A j \in Invocations : process[j].date \in Dates
    BY DEF Process
  <2>4. HolderInv'
    BY <2>0, <2>1, <2>2, <2>3 DEF HolderInv, Delivers, Row
  <2>5. ProcessInv'
    <3>1. ASSUME NEW j \in Invocations, j # i
          PROVE  /\ process[j].step \in {"read", "claim"} => reports'[process[j].date].state # "absent"
                 /\ process[j].step \in {"claim", "send"} => process[j].figures = reports'[process[j].date].figures
      BY <2>2, <2>3 DEF ProcessInv, Row
    <3> QED BY <2>1, <2>2, <3>1 DEF ProcessInv, Row
  <2>6. UnsentInv' /\ OneMailPerDate'
    <3>1. ASSUME NEW e \in Dates, e # d PROVE mails'[e] = mails[e] /\ reports'[e] = reports[e]
      BY <2>2, <3>1
    <3>2. /\ mails'[d] = mails[d] /\ reports'[d].figures = reports[d].figures
          /\ reports'[d].state \in {"sent", "failed"}
          /\ reports'[d].state = "sent" => mails[d].count = 1
      BY <2>0, <2>2
    <3>3. UnsentInv'
      BY <3>1, <3>2 DEF UnsentInv
    <3> QED BY <2>0, <3>1, <3>2, <3>3 DEF OneMailPerDate
  <2> QED BY <2>1, <2>2, <2>4, <2>5, <2>6
<1>9. ASSUME NEW i \in Invocations, Killed(i) PROVE ReportInv'
  <2> DEFINE p == [process[i] EXCEPT !.step = "done"]
  <2>1. p \in Process /\ p.step = "done"
    BY DEF Process, Step
  <2>2. process' = [process EXCEPT ![i] = p]
    BY <1>9 DEF Killed, Goto
  <2> HIDE DEF p
  <2> QED BY <1>9, <2>1, <2>2, QuietStep DEF Killed
<1>10. CASE Midnight
  <2>1. /\ today' = today + 1 /\ today < LastDate
        /\ UNCHANGED <<reports, mails, process>>
    BY <1>10 DEF Midnight
  <2>2. ReportType'
    BY <2>1, ReportAssumption DEF ReportInv, ReportType, Dates
  <2>3. HolderInv' /\ ProcessInv'
    BY <2>1 DEF ReportInv, HolderInv, ProcessInv, Delivers, Row
  <2>4. UnsentInv' /\ OneMailPerDate'
    BY <2>1 DEF ReportInv, UnsentInv, OneMailPerDate
  <2> QED BY <2>2, <2>3, <2>4 DEF ReportInv
<1> QED
  BY <1>1, <1>2, <1>3, <1>4, <1>5, <1>6, <1>7, <1>8, <1>9, <1>10 DEF ReportNext

(***************************************************************************)
(* However many invocations overlap and wherever they are killed           *)
(* (send_daily_report), the relay accepts one message of a date at most,   *)
(* with the stored figures.                                                *)
(***************************************************************************)
THEOREM MailedOnce == ReportSpec => []OneMailPerDate
<1>1. ReportInv => OneMailPerDate
  BY DEF ReportInv
<1> QED BY <1>1, ReportInitInv, ReportPreserved, PTL DEF ReportSpec

-------------------------------------------------------------------------------
(***************************************************************************)
(* Watchdog: the restarts of K3s are bounded for any threshold, cooldown   *)
(* and number of runs, whatever the clock does.  The invariant says what   *)
(* the state file stands for: a failure it records began at a recorded run *)
(* and lasted since, under one boot id; a cooldown that a run left covers  *)
(* the recorded restarts from which it was handed on.  What the file has   *)
(* lost, it says nothing of.                                               *)
(***************************************************************************)
WatchdogSpec == WatchdogInit /\ [][WatchdogNext]_watchdogVars

(* From run i to run j the API failed, under one boot id. *)
Lasted(R, i, j) ==
    \A k \in i..j : R[k].result = "unhealthy" /\ R[k].state.boot = R[j].state.boot

(* Remembers(k) for every run after i, up to j. *)
HandedOn(R, i, j) ==
    \A k \in (i + 1)..j : /\ R[k].found = R[k - 1].state.until
                          /\ R[k].state.boot = R[k - 1].state.boot

(* The failure that run j left recorded began at run i and never paused. *)
Explained(R, j) ==
    R[j].state.since # Unset =>
        \E i \in 1..j : R[i].at = R[j].state.since /\ Lasted(R, i, j)

(* The cooldown that run j left recorded covers the restarts so far. *)
Cooled(R, j) ==
    \A i \in 1..j :
        R[i].restarted /\ HandedOn(R, i, j) => R[j].state.until >= R[i].at + Cooldown

(* RestartsBounded for run j. *)
Justified(R, j) ==
    R[j].restarted =>
        /\ \E i \in 1..(j - 1) : R[j].at - R[i].at >= Threshold /\ Lasted(R, i, j)
        /\ \A i \in 1..(j - 1) :
             R[i].restarted /\ HandedOn(R, i, j) => R[j].at - R[i].at >= Cooldown

Sound(R, j) == Explained(R, j) /\ Cooled(R, j) /\ Justified(R, j)

RunsSound(R) == \A j \in 1..Len(R) : Sound(R, j)

(* The failure in the state file, if there is one, is that which the last  *)
(* recorded run wrote there.                                               *)
FileInv ==
    stateFile.since # Unset =>
        /\ log # <<>>
        /\ stateFile.boot = log[Len(log)].state.boot
        /\ stateFile.since = log[Len(log)].state.since

(* So is its boot id, which decides whether a cooldown is read from it. *)
BootInv == log # <<>> => stateFile.boot = log[Len(log)].state.boot

WatchdogInv == WatchdogType /\ FileInv /\ BootInv /\ RunsSound(Runs)

-------------------------------------------------------------------------------
LEMMA NoRunIsNoEntry == NoRun \notin Entry
  BY DEF NoRun, Entry, CheckResult

LEMMA LoadType ==
  ASSUME WatchdogType, NEW id \in Unknown..MaxBoots
  PROVE  Load(id) \in State
  BY WatchdogAssumption DEF WatchdogType, Load, NewState, State, Unset, Unknown

(* What was said of a run holds in every history that begins alike. *)
LEMMA SoundPrefix ==
  ASSUME NEW R, NEW Q, NEW j \in Nat, \A k \in 1..j : R[k] = Q[k], Sound(R, j), j >= 1
  PROVE  Sound(Q, j)
<1>1. \A i \in 1..j : (Lasted(R, i, j) <=> Lasted(Q, i, j))
  BY DEF Lasted
<1>2. \A i \in 1..j : (HandedOn(R, i, j) <=> HandedOn(Q, i, j))
  <2> SUFFICES ASSUME NEW i \in 1..j PROVE HandedOn(R, i, j) <=> HandedOn(Q, i, j)
    OBVIOUS
  <2>1. \A k \in (i + 1)..j : k \in 1..j /\ k - 1 \in 1..j
    OBVIOUS
  <2> QED BY <2>1 DEF HandedOn
<1>3. R[j] = Q[j]
  OBVIOUS
<1>4. Explained(Q, j)
  BY <1>1, <1>3 DEF Sound, Explained
<1>5. Cooled(Q, j)
  BY <1>2, <1>3 DEF Sound, Cooled
<1>6. Justified(Q, j)
  <2> SUFFICES ASSUME Q[j].restarted
      PROVE  /\ \E i \in 1..(j - 1) : Q[j].at - Q[i].at >= Threshold /\ Lasted(Q, i, j)
             /\ \A i \in 1..(j - 1) :
                  Q[i].restarted /\ HandedOn(Q, i, j) => Q[j].at - Q[i].at >= Cooldown
    BY DEF Justified
  <2>1. \A i \in 1..(j - 1) : i \in 1..j /\ R[i] = Q[i]
    OBVIOUS
  <2> QED BY <1>1, <1>2, <1>3, <2>1 DEF Sound, Justified
<1> QED BY <1>4, <1>5, <1>6 DEF Sound

(* A run that is sound itself may follow. *)
LEMMA SoundAppend ==
  ASSUME NEW R \in Seq(Entry), NEW e \in Entry, RunsSound(R),
         Sound(Append(R, e), Len(R) + 1)
  PROVE  RunsSound(Append(R, e))
<1>1. ASSUME NEW j \in 1..Len(R) PROVE Sound(Append(R, e), j)
  <2> DEFINE Q == Append(R, e)
  <2>1. \A k \in 1..j : R[k] = Q[k]
    OBVIOUS
  <2>2. Sound(R, j) /\ j \in Nat /\ j >= 1
    BY DEF RunsSound
  <2> HIDE DEF Q
  <2>3. Sound(Q, j)
    BY <2>1, <2>2, SoundPrefix
  <2> QED BY <2>3 DEF Q
<1> QED BY <1>1 DEF RunsSound

LEMMA SoundLog ==
  ASSUME WatchdogType, RunsSound(Runs) PROVE RunsSound(log)
<1>1. CASE run = NoRun
  BY <1>1 DEF Runs
<1>2. CASE run # NoRun
  <2>1. run \in Entry /\ log \in Seq(Entry) /\ Runs = Append(log, run)
    BY <1>2 DEF WatchdogType, Runs
  <2>2. ASSUME NEW j \in 1..Len(log) PROVE Sound(log, j)
    <3>1. Sound(Runs, j) /\ \A k \in 1..j : Runs[k] = log[k]
      BY <2>1 DEF RunsSound
    <3> QED BY <3>1, SoundPrefix
  <2> QED BY <2>2 DEF RunsSound
<1> QED BY <1>1, <1>2

-------------------------------------------------------------------------------
LEMMA WatchdogInitInv == WatchdogInit => WatchdogInv
<1> SUFFICES ASSUME WatchdogInit PROVE WatchdogInv
  OBVIOUS
<1>1. WatchdogType /\ FileInv /\ BootInv
  BY WatchdogAssumption
  DEF WatchdogInit, WatchdogType, FileInv, BootInv, NewState, State, Unset, Unknown
<1>2. RunsSound(Runs)
  BY DEF WatchdogInit, RunsSound, Runs
<1> QED BY <1>1, <1>2 DEF WatchdogInv

(* A check, and the restart it decides on. *)
LEMMA CheckPreserves ==
  ASSUME WatchdogInv, NEW result \in CheckResult, NEW id \in {boot, Unknown},
         Check(result, id)
  PROVE  WatchdogInv'
<1> DEFINE n == Len(log) + 1
           R == Append(log, run')
<1>0. id \in Unknown..MaxBoots
  BY WatchdogAssumption DEF WatchdogInv, WatchdogType, Unknown
<1>1. /\ log \in Seq(Entry) /\ clock \in 0..MaxTime /\ boot \in 1..MaxBoots
      /\ Load(id) \in State /\ stateFile \in State /\ run = NoRun /\ log' = log
      /\ stateFile' = stateFile /\ boot' = boot /\ clock' = clock /\ Runs = log
  BY <1>0, LoadType DEF WatchdogInv, WatchdogType, Check, Runs
<1>2. /\ FailureSince(result, id) \in Unset..MaxTime
      /\ result # "unhealthy" => FailureSince(result, id) = Unset
      /\ result = "unhealthy" => FailureSince(result, id) # Unset
      /\ FailureSince(result, id) \in {Unset, clock, Load(id).since}
      /\ FailureSince(result, id) <= clock
  BY <1>1, WatchdogAssumption DEF FailureSince, State, Unset
<1>3. /\ run'.result = result /\ run'.at = clock
      /\ run'.restarted = Restarts(result, id) /\ run'.found = stateFile.until
      /\ run'.state.boot = id /\ run'.state.since = FailureSince(result, id)
      /\ run'.state.until = IF Restarts(result, id) THEN clock + Cooldown
                            ELSE Load(id).until
      /\ run' = [result |-> result, at |-> clock, restarted |-> Restarts(result, id),
                 found |-> stateFile.until,
                 state |-> [boot |-> id, since |-> FailureSince(result, id),
                            until |-> IF Restarts(result, id) THEN clock + Cooldown
                                      ELSE Load(id).until]]
  BY DEF Check
<1>4. run' \in Entry
  <2>1. run'.state.until \in Unset..(MaxTime + Cooldown)
    BY <1>1, <1>3, WatchdogAssumption DEF State, Unset
  <2>2. Restarts(result, id) \in BOOLEAN
    BY DEF Restarts
  <2>3. stateFile.until \in Unset..(MaxTime + Cooldown)
    BY <1>1 DEF State
  <2> HIDE DEF R, n
  <2> QED BY <1>0, <1>1, <1>2, <1>3, <2>1, <2>2, <2>3 DEF Entry, State
<1>5. Runs' = R
  BY <1>1, <1>4, NoRunIsNoEntry DEF Runs
<1>6. /\ n \in Nat \ {0} /\ R[n] = run' /\ Len(R) = n
      /\ \A k \in 1..(n - 1) : R[k] = log[k] /\ R[k] \in Entry
  BY <1>1, <1>4
<1>7. n > 1 => Sound(R, n - 1)
  <2>2. n > 1 => Sound(log, n - 1)
    BY <1>1 DEF WatchdogInv, RunsSound
  <2> HIDE DEF R, n
  <2> SUFFICES ASSUME n > 1 PROVE Sound(R, n - 1)
    OBVIOUS
  <2>3. n - 1 \in Nat /\ n - 1 >= 1 /\ \A k \in 1..(n - 1) : log[k] = R[k]
    BY <1>6
  <2> QED BY <2>2, <2>3, SoundPrefix
\* What the run loads is of the run before it.
<1>8. n > 1 => R[n - 1] = log[Len(log)] /\ log # <<>>
  BY <1>1
<1>9. Load(id).since # Unset =>
        /\ n > 1 /\ id = R[n - 1].state.boot
        /\ Load(id).since = R[n - 1].state.since
  <2> SUFFICES ASSUME Load(id).since # Unset
      PROVE n > 1 /\ id = R[n - 1].state.boot /\ Load(id).since = R[n - 1].state.since
    OBVIOUS
  <2>1. Load(id) = stateFile /\ stateFile.boot = id
    BY DEF Load, NewState
  <2>2. /\ log # <<>> /\ stateFile.boot = log[Len(log)].state.boot
        /\ stateFile.since = log[Len(log)].state.since
    BY <2>1 DEF WatchdogInv, FileInv
  <2>3. n > 1
    BY <1>1, <2>2
  <2> QED BY <1>8, <2>1, <2>2, <2>3
<1>10. n > 1 /\ id = R[n - 1].state.boot => Load(id).until = stateFile.until
  BY <1>8 DEF WatchdogInv, BootInv, Load
<1> HIDE DEF R, n
<1>11. Explained(R, n)
  <2> SUFFICES ASSUME R[n].state.since # Unset
      PROVE \E i \in 1..n : R[i].at = R[n].state.since /\ Lasted(R, i, n)
    BY DEF Explained
  <2>1. result = "unhealthy"
    BY <1>2, <1>3, <1>6
  <2>2. CASE FailureSince(result, id) = clock
    <3>1. Lasted(R, n, n)
      BY <1>3, <1>6, <2>1 DEF Lasted
    <3> QED BY <1>3, <1>6, <2>2, <3>1
  <2>3. CASE FailureSince(result, id) = Load(id).since
    <3>1. Load(id).since # Unset
      BY <1>3, <1>6, <2>3
    <3>2. n > 1 /\ id = R[n - 1].state.boot /\ Load(id).since = R[n - 1].state.since
      BY <1>9, <3>1
    <3>3. PICK i \in 1..(n - 1) : /\ R[i].at = R[n - 1].state.since
                                  /\ Lasted(R, i, n - 1)
      BY <1>6, <1>7, <3>1, <3>2 DEF Sound, Explained
    <3>4. Lasted(R, i, n)
      <4>1. ASSUME NEW k \in i..n
            PROVE R[k].result = "unhealthy" /\ R[k].state.boot = R[n].state.boot
        <5>1. CASE k = n
          BY <1>3, <1>6, <2>1, <5>1
        <5>2. CASE k # n
          <6>1. k \in i..(n - 1)
            BY <1>6, <5>2
          <6> QED BY <1>3, <1>6, <3>2, <3>3, <6>1 DEF Lasted
        <5> QED BY <5>1, <5>2
      <4> QED BY <4>1 DEF Lasted
    <3> QED BY <1>3, <1>6, <2>3, <3>2, <3>3, <3>4
  <2> QED BY <1>2, <1>3, <1>6, <2>2, <2>3
\* A cooldown that was handed on to this run covers the restarts before it.
<1>12. ASSUME NEW i \in 1..(n - 1), R[i].restarted, HandedOn(R, i, n)
       PROVE  /\ Load(id).until >= R[i].at + Cooldown
              /\ R[i].at \in Nat /\ Load(id).until \in Int
  <2>1. n > 1 /\ n \in (i + 1)..n /\ R[i] \in Entry
    BY <1>6
  <2>2. R[n].found = R[n - 1].state.until /\ R[n].state.boot = R[n - 1].state.boot
    BY <1>12, <2>1 DEF HandedOn
  <2>3. Load(id).until = R[n - 1].state.until
    BY <1>3, <1>6, <1>10, <2>1, <2>2
  <2>4. HandedOn(R, i, n - 1)
    BY <1>6, <1>12 DEF HandedOn
  <2>5. R[n - 1].state.until >= R[i].at + Cooldown
    BY <1>6, <1>7, <1>12, <2>1, <2>4 DEF Sound, Cooled
  <2>6. R[i].at \in Nat /\ Load(id).until \in Int
    BY <1>1, <2>1, WatchdogAssumption DEF Entry, State, Unset
  <2> QED BY <2>3, <2>5, <2>6
<1>13. Cooled(R, n)
  <2> SUFFICES ASSUME NEW i \in 1..n, R[i].restarted, HandedOn(R, i, n)
      PROVE R[n].state.until >= R[i].at + Cooldown
    BY DEF Cooled
  <2>1. CASE i = n
    BY <1>1, <1>3, <1>6, <2>1, WatchdogAssumption
  <2>2. CASE i # n
    <3>1. /\ Load(id).until >= R[i].at + Cooldown
          /\ R[i].at \in Nat /\ Load(id).until \in Int
      BY <1>6, <1>12, <2>2
    <3>2. Restarts(result, id) => clock >= Load(id).until
      BY DEF Restarts
    <3> QED BY <1>1, <1>3, <1>6, <3>1, <3>2, WatchdogAssumption
  <2> QED BY <2>1, <2>2
<1>14. Justified(R, n)
  <2> SUFFICES ASSUME R[n].restarted
      PROVE  /\ \E i \in 1..(n - 1) : R[n].at - R[i].at >= Threshold /\ Lasted(R, i, n)
             /\ \A i \in 1..(n - 1) :
                  R[i].restarted /\ HandedOn(R, i, n) => R[n].at - R[i].at >= Cooldown
    BY DEF Justified
  <2>1. /\ result = "unhealthy" /\ clock - FailureSince(result, id) >= Threshold
        /\ clock >= Load(id).until
    BY <1>3, <1>6 DEF Restarts
  <2>2. R[n].state.since = FailureSince(result, id) /\ FailureSince(result, id) # Unset
    BY <1>2, <1>3, <1>6, <2>1
  <2>3. PICK i \in 1..n : R[i].at = FailureSince(result, id) /\ Lasted(R, i, n)
    BY <1>11, <2>2 DEF Explained
  <2>4. i # n
    BY <1>1, <1>3, <1>6, <2>1, <2>3, WatchdogAssumption
  <2>5. \E h \in 1..(n - 1) : R[n].at - R[h].at >= Threshold /\ Lasted(R, h, n)
    <3>1. i \in 1..(n - 1)
      BY <1>6, <2>4
    <3>2. R[n].at - R[i].at >= Threshold
      BY <1>3, <1>6, <2>1, <2>3
    <3> QED BY <2>3, <3>1, <3>2
  <2>6. ASSUME NEW h \in 1..(n - 1), R[h].restarted, HandedOn(R, h, n)
        PROVE R[n].at - R[h].at >= Cooldown
    <3>1. /\ Load(id).until >= R[h].at + Cooldown
          /\ R[h].at \in Nat /\ Load(id).until \in Int
      BY <1>12, <2>6
    <3>2. /\ R[n].at = clock /\ clock \in Int /\ Cooldown \in Int
          /\ clock >= Load(id).until
      BY <1>1, <1>3, <1>6, <2>1, WatchdogAssumption
    <3> QED BY <3>1, <3>2
  <2> QED BY <2>5, <2>6
<1>15. RunsSound(Runs')
  <2>1. Sound(Append(log, run'), Len(log) + 1)
    BY <1>11, <1>13, <1>14 DEF Sound, R, n
  <2>2. RunsSound(log)
    BY <1>1 DEF WatchdogInv
  <2>3. RunsSound(Append(log, run'))
    BY <1>1, <1>4, <2>1, <2>2, SoundAppend
  <2> QED BY <1>5, <2>3 DEF R
<1>16. WatchdogType' /\ FileInv' /\ BootInv'
  BY <1>1, <1>4 DEF WatchdogInv, WatchdogType, FileInv, BootInv
<1> QED BY <1>15, <1>16 DEF WatchdogInv

LEMMA WatchdogPreserved == WatchdogInv /\ [WatchdogNext]_watchdogVars => WatchdogInv'
<1> SUFFICES ASSUME WatchdogInv, [WatchdogNext]_watchdogVars PROVE WatchdogInv'
  OBVIOUS
<1>1. CASE UNCHANGED watchdogVars
  BY <1>1 DEF watchdogVars, WatchdogInv, WatchdogType, FileInv, BootInv, Runs
<1>2. ASSUME NEW result \in CheckResult, NEW id \in {boot, Unknown}, Check(result, id)
      PROVE WatchdogInv'
  BY <1>2, CheckPreserves
<1>3. CASE Write
  <2>1. /\ run \in Entry /\ log \in Seq(Entry) /\ log' = Append(log, run)
        /\ run' = NoRun /\ stateFile' = run.state /\ boot' = boot /\ clock' = clock
    BY <1>3 DEF Write, WatchdogInv, WatchdogType
  <2>2. Runs' = Runs
    BY <1>3, <2>1 DEF Runs, Write
  <2>3. WatchdogType'
    BY <2>1 DEF WatchdogInv, WatchdogType, Entry
  <2>4. log' # <<>> /\ log'[Len(log')] = run
    BY <2>1
  <2>5. FileInv' /\ BootInv'
    BY <2>1, <2>4 DEF FileInv, BootInv
  <2> QED BY <2>2, <2>3, <2>5 DEF WatchdogInv
<1>4. CASE Lose
  <2>1. Runs' = log
    BY <1>4 DEF Lose, Runs
  <2>2. RunsSound(log)
    BY SoundLog DEF WatchdogInv
  <2> QED BY <1>4, <2>1, <2>2 DEF Lose, WatchdogInv, WatchdogType, FileInv, BootInv
<1>5. CASE SetClock
  BY <1>5 DEF SetClock, WatchdogInv, WatchdogType, FileInv, BootInv, Runs
<1>6. CASE DamageState
  <2>1. PICK since \in {stateFile.since, Unset}, until \in {stateFile.until, Unset} :
          stateFile' = [stateFile EXCEPT !.since = since, !.until = until]
    BY <1>6 DEF DamageState
  <2>2. stateFile \in State /\ UNCHANGED <<clock, boot, run, log>>
    BY <1>6 DEF DamageState, WatchdogInv, WatchdogType
  <2>3. since \in Unset..MaxTime /\ until \in Unset..(MaxTime + Cooldown)
    BY <2>1, <2>2, WatchdogAssumption DEF State, Unset
  <2>4. /\ stateFile'.boot = stateFile.boot /\ stateFile'.since = since
        /\ stateFile' \in State
    BY <2>1, <2>2, <2>3 DEF State
  <2> QED
    BY <2>1, <2>2, <2>4 DEF WatchdogInv, WatchdogType, FileInv, BootInv, Runs
<1>7. CASE Reboot
  <2>1. Runs' = log /\ log' = log /\ stateFile' = stateFile
    BY <1>7 DEF Reboot, Runs
  <2>2. WatchdogType'
    BY <1>7, WatchdogAssumption DEF Reboot, WatchdogInv, WatchdogType
  <2>3. RunsSound(Runs')
    BY <2>1, SoundLog DEF WatchdogInv
  <2> QED BY <2>1, <2>2, <2>3 DEF WatchdogInv, FileInv, BootInv
<1> QED BY <1>1, <1>2, <1>3, <1>4, <1>5, <1>6, <1>7 DEF WatchdogNext

(***************************************************************************)
(* Whatever happens to the clock, to the file and to the runs that are     *)
(* killed (run_once), a recorded restart follows recorded failures over    *)
(* the threshold, and by the cooldown every recorded restart whose         *)
(* cooldown was handed on to it: neither lost from the file nor left under *)
(* another boot id.                                                        *)
(***************************************************************************)
THEOREM RestartsAreBounded == WatchdogSpec => []RestartsBounded
<1>1. WatchdogInv => RestartsBounded
  <2> SUFFICES ASSUME WatchdogInv, NEW j \in DOMAIN Runs, Runs[j].restarted
      PROVE  /\ Sustained(j)
             /\ \A i \in 1..(j - 1) :
                  Runs[i].restarted /\ (\A k \in (i + 1)..j : Remembers(k))
                    => Runs[j].at - Runs[i].at >= Cooldown
    BY DEF RestartsBounded
  <2>1. j \in 1..Len(Runs)
    BY DEF WatchdogInv, WatchdogType, Runs
  <2>2. Justified(Runs, j)
    BY <2>1 DEF WatchdogInv, RunsSound, Sound
  <2> QED
    BY <2>2 DEF Justified, Sustained, Lasted, HandedOn, Remembers
<1> QED BY <1>1, WatchdogInitInv, WatchdogPreserved, PTL DEF WatchdogSpec

-------------------------------------------------------------------------------
(***************************************************************************)
(* Local storage failover: a claim is replaced only for a node that is     *)
(* overdue.  The invariant relates the pass, which looks at nodes, claims  *)
(* and Pods in turn, to what may change between its calls.                 *)
(***************************************************************************)
FailoverSpec == FailoverInit /\ [][FailoverNext]_failoverVars

(* A Pod runs where its claim is bound. *)
BoundInv ==
    \A p \in pods : p.claim \in DOMAIN claims /\ claims[p.claim] = p.node

(* A pass that decided to replace the claim saw the only Pod on a node that *)
(* was overdue; the Pods of earlier templates are gone or about to be.     *)
PassInv ==
    /\ pass.new \in DOMAIN claims
    /\ ~interrupted =>
         /\ pass.step \in {"idle", "deployment", "pods"} =>
              \A p \in pods : p.claim = template
         /\ pass.step \in {"apply", "patch"} =>
              /\ pass.stranded # {} /\ pods = pass.stranded
              /\ \A p \in pods : /\ p.claim = template
                                 /\ pass.health[p.node] = "overdue"
         /\ pass.step = "delete" =>
              \A p \in pods : p.claim = template \/ p \in pass.stranded

FailoverInv == FailoverType /\ BoundInv /\ PassInv

LEMMA ClaimsExist ==
  ASSUME FailoverType
  PROVE  template \in DOMAIN claims /\ DOMAIN claims \subseteq Claims
<1>1. PICK n \in Claims : claims \in [1..n -> Nodes \cup {NoNode}]
  BY DEF FailoverType
<1>2. 1..n \subseteq Claims
  BY FailoverAssumption DEF Claims
<1>. QED
  BY <1>1, <1>2 DEF FailoverType

LEMMA FailoverInitInv == FailoverInit => FailoverInv
<1>. SUFFICES ASSUME FailoverInit PROVE FailoverInv
  OBVIOUS
<1>1. claims \in [1..1 -> Nodes \cup {NoNode}] /\ 1 \in Claims /\ DOMAIN claims = {1}
  BY FailoverAssumption DEF FailoverInit, Claims
<1>2. health \in [Nodes -> NodeHealth]
  BY DEF FailoverInit, NodeHealth
<1>3. pass \in Pass
  BY <1>1, <1>2 DEF FailoverInit, Pass, PassStep
<1>4. \E n \in Claims : claims \in [1..n -> Nodes \cup {NoNode}]
  BY <1>1
<1>a. template \in DOMAIN claims /\ pods \subseteq Pod
  BY <1>1 DEF FailoverInit
<1>b. failures \in 0..MaxFaults
  BY FailoverAssumption DEF FailoverInit
<1>c. interrupted \in BOOLEAN
  BY DEF FailoverInit
<1>5. FailoverType
  BY <1>2, <1>3, <1>4, <1>a, <1>b, <1>c DEF FailoverType
<1>. QED
  BY <1>1, <1>5 DEF FailoverInit, FailoverInv, BoundInv, PassInv

(* The steps of a pass that only read: pods and claims are what they were. *)
LEMMA ReadingStep ==
  ASSUME FailoverInv, NEW p \in Pass, pass' = p, p.new = pass.new,
         UNCHANGED <<health, claims, template, pods, interrupted, failures>>,
         ~interrupted =>
           \/ p.step \in {"idle", "deployment", "pods"} /\ \A q \in pods : q.claim = template
           \/ /\ p.step = "apply" /\ p.stranded # {} /\ pods = p.stranded
              /\ \A q \in pods : q.claim = template /\ p.health[q.node] = "overdue"
  PROVE  FailoverInv'
<1>1. FailoverType'
  BY DEF FailoverInv, FailoverType
<1>2. BoundInv'
  BY DEF FailoverInv, BoundInv
<1>3. PassInv'
  BY DEF FailoverInv, PassInv
<1>. QED
  BY <1>1, <1>2, <1>3 DEF FailoverInv

LEMMA ReadNodesKeeps == FailoverInv /\ ReadNodes => FailoverInv'
<1>. SUFFICES ASSUME FailoverInv, ReadNodes PROVE FailoverInv'
  OBVIOUS
<1>. DEFINE p == [pass EXCEPT !.step = "deployment", !.health = health]
<1>1. p \in Pass /\ p.step = "deployment" /\ p.new = pass.new
  BY DEF FailoverInv, FailoverType, Pass, PassStep
<1>. QED
  BY <1>1, ReadingStep DEF ReadNodes, FailoverInv, PassInv

LEMMA ReadDeploymentKeeps == FailoverInv /\ ReadDeployment => FailoverInv'
<1>. SUFFICES ASSUME FailoverInv, ReadDeployment PROVE FailoverInv'
  OBVIOUS
<1>. DEFINE p == [pass EXCEPT !.step = "pods", !.claim = template]
<1>1. template \in Claims
  BY ClaimsExist DEF FailoverInv
<1>2. p \in Pass /\ p.step = "pods" /\ p.new = pass.new
  BY <1>1 DEF FailoverInv, FailoverType, Pass, PassStep
<1>. QED
  BY <1>2, ReadingStep DEF ReadDeployment, FailoverInv, PassInv

(* Before the decision the Deployment has one Pod at most, that of the     *)
(* template, on the node of its claim: either all Pods are stranded or     *)
(* none is.                                                                *)
LEMMA ReadPodsKeeps == FailoverInv /\ ReadPods => FailoverInv'
<1>. SUFFICES ASSUME FailoverInv, ReadPods PROVE FailoverInv'
  OBVIOUS
<1>1. Stranded \subseteq pods /\ Stranded \subseteq Pod
      /\ \A q \in Stranded : pass.health[q.node] = "overdue"
  BY DEF Stranded, Unavailable, FailoverInv, FailoverType
<1>2. pass \in Pass /\ pass.step = "pods"
  BY DEF FailoverInv, FailoverType, ReadPods
<1>3. CASE Replaceable(Stranded)
  <2>. DEFINE p == [pass EXCEPT !.step = "apply", !.stranded = Stranded]
  <2>1. /\ p \in Pass /\ p.step = "apply" /\ p.new = pass.new
        /\ p.stranded = Stranded /\ p.health = pass.health
    BY <1>1, <1>2 DEF Pass, PassStep
  <2>2. PICK s \in Stranded : TRUE
    BY <1>3 DEF Replaceable
  <2>3. ASSUME ~interrupted
        PROVE  pods = Stranded /\ \A q \in pods : q.claim = template
    <3>1. \A q \in pods : q.claim = template
      BY <1>2, <2>3 DEF FailoverInv, PassInv
    <3>2. \A q \in pods : q = s
      BY <1>1, <2>2, <3>1 DEF FailoverInv, FailoverType, BoundInv, Pod
    <3>. QED
      BY <1>1, <2>2, <3>1, <3>2
  <2>. QED
    BY <1>1, <1>3, <2>1, <2>2, <2>3, ReadingStep DEF ReadPods
<1>4. CASE ~Replaceable(Stranded)
  <2>. DEFINE p == [pass EXCEPT !.step = "idle", !.stranded = Stranded]
  <2>1. p \in Pass /\ p.step = "idle" /\ p.new = pass.new
    BY <1>1, <1>2 DEF Pass, PassStep
  <2>. QED
    BY <1>2, <1>4, <2>1, ReadingStep DEF ReadPods, FailoverInv, PassInv
<1>. QED
  BY <1>3, <1>4

LEMMA ApplyClaimKeeps == FailoverInv /\ ApplyClaim => FailoverInv'
<1>. SUFFICES ASSUME FailoverInv, ApplyClaim PROVE FailoverInv'
  OBVIOUS
<1>1. PICK n \in Claims : claims \in [1..n -> Nodes \cup {NoNode}]
  BY DEF FailoverInv, FailoverType
<1>2. n \in Nat /\ Cardinality(DOMAIN claims) = n
  BY <1>1, FailoverAssumption, FS_Interval DEF Claims
<1>3. n + 1 \in Claims
  BY <1>2, FailoverAssumption DEF ApplyClaim, Claims
<1>4. /\ claims' = [c \in 1..(n + 1) |-> IF c = n + 1 THEN NoNode ELSE claims[c]]
      /\ pass' = [pass EXCEPT !.step = "patch", !.new = n + 1]
      /\ UNCHANGED <<health, template, pods, interrupted, failures>>
      /\ pass.step = "apply"
  BY <1>2 DEF ApplyClaim
<1>5. /\ claims' \in [1..(n + 1) -> Nodes \cup {NoNode}]
      /\ \A c \in 1..n : c \in DOMAIN claims' /\ claims'[c] = claims[c]
      /\ n + 1 \in DOMAIN claims'
  BY <1>1, <1>2, <1>4
<1>6. /\ pass' \in Pass /\ pass'.step = "patch" /\ pass'.new = n + 1
      /\ pass'.health = pass.health /\ pass'.stranded = pass.stranded
  BY <1>3, <1>4 DEF FailoverInv, FailoverType, Pass, PassStep
<1>7. FailoverType'
  BY <1>1, <1>3, <1>4, <1>5, <1>6 DEF FailoverInv, FailoverType
<1>8. BoundInv'
  BY <1>1, <1>4, <1>5 DEF FailoverInv, BoundInv
<1>9. PassInv'
  BY <1>4, <1>5, <1>6 DEF FailoverInv, PassInv
<1>. QED
  BY <1>7, <1>8, <1>9 DEF FailoverInv

LEMMA PatchDeploymentKeeps == FailoverInv /\ PatchDeployment => FailoverInv'
<1>. SUFFICES ASSUME FailoverInv, PatchDeployment PROVE FailoverInv'
  OBVIOUS
<1>1. /\ pass.step = "patch" /\ template' = pass.new
      /\ UNCHANGED <<health, claims, pods, interrupted, failures>>
  BY DEF PatchDeployment
<1>2. /\ pass' \in Pass /\ pass'.step = "delete" /\ pass'.new = pass.new
      /\ pass'.stranded = pass.stranded
  BY DEF PatchDeployment, FailoverInv, FailoverType, Pass, PassStep
<1>3. FailoverType' /\ BoundInv'
  BY <1>1, <1>2 DEF FailoverInv, FailoverType, BoundInv, PassInv
<1>4. PassInv'
  BY <1>1, <1>2 DEF FailoverInv, PassInv
<1>. QED
  BY <1>3, <1>4 DEF FailoverInv

LEMMA DeletePodsKeeps == FailoverInv /\ DeletePods => FailoverInv'
<1>. SUFFICES ASSUME FailoverInv, DeletePods PROVE FailoverInv'
  OBVIOUS
<1>1. /\ pass.step = "delete"
      /\ UNCHANGED <<health, claims, template>>
      /\ \/ pods' = pods \ pass.stranded /\ UNCHANGED <<interrupted, failures>>
         \/ pods' = pods /\ interrupted' = TRUE /\ failures' \in 0..MaxFaults
  BY FailoverAssumption DEF DeletePods, Fault, FailoverInv, FailoverType
<1>2. pass' \in Pass /\ pass'.step = "idle" /\ pass'.new = pass.new
  BY DEF DeletePods, FailoverInv, FailoverType, Pass, PassStep
<1>3. FailoverType' /\ BoundInv'
  BY <1>1, <1>2 DEF FailoverInv, FailoverType, BoundInv
<1>4. PassInv'
  BY <1>1, <1>2 DEF FailoverInv, PassInv
<1>. QED
  BY <1>3, <1>4 DEF FailoverInv

LEMMA InterruptKeeps == FailoverInv /\ Interrupt => FailoverInv'
<1>. SUFFICES ASSUME FailoverInv, Interrupt PROVE FailoverInv'
  OBVIOUS
<1>a. failures' \in 0..MaxFaults
  BY FailoverAssumption DEF Interrupt, Fault, FailoverInv, FailoverType
<1>b. UNCHANGED <<health, claims, pods>> /\ pass.step # "idle"
  BY DEF Interrupt
<1>e. template' = template \/ (pass.step = "patch" /\ template' = pass.new)
  BY DEF Interrupt
<1>d. interrupted' = (interrupted \/ pass.step = "delete" \/ template' # template)
  BY DEF Interrupt
<1>c. interrupted' \in BOOLEAN
      /\ (~interrupted' => ~interrupted /\ pass.step # "delete" /\ template' = template)
  BY <1>d
<1>1. /\ UNCHANGED <<health, claims, pods>> /\ failures' \in 0..MaxFaults
      /\ template' = template \/ (pass.step = "patch" /\ template' = pass.new)
      /\ interrupted' \in BOOLEAN
      /\ ~interrupted' => ~interrupted /\ pass.step # "delete" /\ template' = template
      /\ pass.step # "idle"
  BY <1>a, <1>b, <1>c, <1>e
<1>2. pass' \in Pass /\ pass'.step = "idle" /\ pass'.new = pass.new
  BY DEF Interrupt, FailoverInv, FailoverType, Pass, PassStep
<1>3. FailoverType' /\ BoundInv'
  BY <1>1, <1>2 DEF FailoverInv, FailoverType, BoundInv, PassInv
<1>4. pass.step \in {"deployment", "pods", "apply", "patch", "delete"}
  BY <1>1 DEF FailoverInv, FailoverType, Pass, PassStep
<1>5. PassInv'
  BY <1>1, <1>2, <1>4 DEF FailoverInv, PassInv
<1>. QED
  BY <1>3, <1>5 DEF FailoverInv

(* Kubernetes starts a Pod only where the template has none, which is not  *)
(* the case between a decision and its patch.                              *)
LEMMA RunPodKeeps == FailoverInv /\ RunPod => FailoverInv'
<1>. SUFFICES ASSUME FailoverInv, RunPod PROVE FailoverInv'
  OBVIOUS
<1>1. PICK n \in Nodes :
        /\ claims[template] \in {NoNode, n}
        /\ \A p \in pods : p.claim # template
        /\ pods' = pods \cup {[claim |-> template, node |-> n]}
        /\ claims' = [claims EXCEPT ![template] = n]
        /\ UNCHANGED <<health, template, pass, interrupted, failures>>
  BY DEF RunPod
<1>2. PICK q : q = [claim |-> template, node |-> n]
  OBVIOUS
<1>3. template \in DOMAIN claims /\ template \in Claims
  BY ClaimsExist DEF FailoverInv
<1>4. q \in Pod /\ q.claim = template /\ q.node = n
  BY <1>2, <1>3 DEF Pod
<1>5. /\ DOMAIN claims' = DOMAIN claims /\ claims'[template] = n
      /\ \A c \in DOMAIN claims \ {template} : claims'[c] = claims[c]
  BY <1>1, <1>3
<1>6. FailoverType'
  BY <1>1, <1>2, <1>3, <1>4 DEF FailoverInv, FailoverType
<1>7. BoundInv'
  BY <1>1, <1>2, <1>3, <1>4, <1>5 DEF FailoverInv, BoundInv
<1>8. PassInv'
  BY <1>1, <1>2, <1>4, <1>5 DEF FailoverInv, PassInv
<1>. QED
  BY <1>6, <1>7, <1>8 DEF FailoverInv

LEMMA EndPodKeeps == FailoverInv /\ EndPod => FailoverInv'
<1>. SUFFICES ASSUME FailoverInv, EndPod PROVE FailoverInv'
  OBVIOUS
<1>1. PICK p \in pods : p.claim # template /\ pods' = pods \ {p}
                        /\ UNCHANGED <<health, claims, template, pass, interrupted, failures>>
  BY DEF EndPod
<1>2. FailoverType' /\ BoundInv'
  BY <1>1 DEF FailoverInv, FailoverType, BoundInv
<1>3. PassInv'
  BY <1>1 DEF FailoverInv, PassInv
<1>. QED
  BY <1>2, <1>3 DEF FailoverInv

LEMMA HealthKeeps ==
  ASSUME FailoverInv, NEW n \in Nodes, NodeFails(n) \/ GraceEnds(n) \/ NodeReturns(n)
  PROVE  FailoverInv'
<1>1. /\ UNCHANGED <<claims, template, pods, pass, interrupted>>
      /\ failures' \in 0..MaxFaults
      /\ \E h \in NodeHealth : health' = [health EXCEPT ![n] = h]
  BY FailoverAssumption
     DEF NodeFails, GraceEnds, NodeReturns, NodeHealth, Fault, FailoverInv, FailoverType
<1>2. health' \in [Nodes -> NodeHealth]
  BY <1>1 DEF FailoverInv, FailoverType
<1>. QED
  BY <1>1, <1>2 DEF FailoverInv, FailoverType, BoundInv, PassInv

LEMMA FailoverNextKeeps == FailoverInv /\ [FailoverNext]_failoverVars => FailoverInv'
<1>. SUFFICES ASSUME FailoverInv, [FailoverNext]_failoverVars PROVE FailoverInv'
  OBVIOUS
<1>1. CASE UNCHANGED failoverVars
  BY <1>1 DEF failoverVars, FailoverInv, FailoverType, BoundInv, PassInv
<1>2. CASE FailoverNext
  BY <1>2, ReadNodesKeeps, ReadDeploymentKeeps, ReadPodsKeeps, ApplyClaimKeeps,
     PatchDeploymentKeeps, DeletePodsKeeps, InterruptKeeps, RunPodKeeps, EndPodKeeps,
     HealthKeeps DEF FailoverNext, FailoverPass
<1>. QED
  BY <1>1, <1>2

(***************************************************************************)
(* Unless an earlier pass was cut off, reconcile_local_storage_failover    *)
(* points the Deployment away from a claim that has data only when the     *)
(* node of the data was overdue in the reading that the pass began with,   *)
(* whatever nodes and Pods did between its four commands.                  *)
(***************************************************************************)
THEOREM DataLeftForOverdueNodes == FailoverSpec => LeavesFailedNode
<1>1. FailoverInv /\ [FailoverNext]_failoverVars => [LeavesOverdue]_failoverVars
  <2>. SUFFICES ASSUME FailoverInv, FailoverNext, template' # template, ~interrupted
                PROVE  pass.health[claims[template]] = "overdue"
    BY DEF LeavesOverdue
  <2>1. PatchDeployment \/ Interrupt
    BY DEF FailoverNext, FailoverPass, ReadNodes, ReadDeployment, ReadPods, ApplyClaim,
           DeletePods, RunPod, EndPod, NodeFails, GraceEnds, NodeReturns
  <2>2. pass.step = "patch"
    BY <2>1 DEF PatchDeployment, Interrupt
  <2>3. /\ pass.stranded # {} /\ pods = pass.stranded
        /\ \A p \in pods : p.claim = template /\ pass.health[p.node] = "overdue"
    BY <2>2 DEF FailoverInv, PassInv
  <2>4. PICK p \in pods : p.claim = template /\ pass.health[p.node] = "overdue"
    BY <2>3
  <2>. QED
    BY <2>4 DEF FailoverInv, BoundInv
<1>. QED
  BY <1>1, FailoverInitInv, FailoverNextKeeps, PTL DEF FailoverSpec, LeavesFailedNode

-------------------------------------------------------------------------------
(***************************************************************************)
(* Enrollment windows of the legacy API: while an enrollment runs the      *)
(* camera's window is in the configuration.  The invariant says which of   *)
(* the jobs that read the file before can still write it, and that the     *)
(* revision stops the others.                                              *)
(***************************************************************************)
WindowSpec == WindowInit /\ [][WindowNext]_windowVars

(* A job that took the camera's window away and has still to restore it.   *)
Stopping(j) == job[j] # NoJob /\ job[j].kind = "stop" /\ job[j].step # "window"

(* The revision a start computed is used up: it will be refused, or will   *)
(* overwrite a revision that it has not seen.                              *)
Outdated(j) ==
    \/ job[j].step = "check" /\ config.revision >= job[j].new.revision
    \/ job[j].step = "apply" /\ config.revision > job[j].seen

Covered == Active # {} \/ \E j \in Jobs : Stopping(j)

StartInv(j) ==
    job[j] # NoJob /\ job[j].kind = "start" =>
      /\ job[j].step \in {"window", "check", "apply"}
      /\ job[j].old.apps = "recognition"
      /\ job[j].step # "window" =>
           /\ job[j].new.revision = job[j].old.revision + 1
           /\ overtaken \/ Covered \/ Outdated(j)

StopInv(j) ==
    job[j] # NoJob /\ job[j].kind = "stop" =>
      /\ job[j].window \in 1..Len(windows)
      /\ job[j].step \in {"check", "apply"} => job[j].new.apps = "recognition"

UpdateInv(j) ==
    job[j] # NoJob /\ job[j].kind = "update" =>
      job[j].step \in {"check", "apply"}

(* What a job read is of the past, as long as no job overtook another.     *)
ReadInv(j) ==
    job[j] # NoJob /\ ~overtaken =>
      /\ job[j].kind = "start" => job[j].old.revision <= config.revision
      /\ job[j].step = "apply" => /\ job[j].seen <= config.revision
                                  /\ job[j].seen < job[j].new.revision

JobInv(j) == StartInv(j) /\ StopInv(j) /\ UpdateInv(j) /\ ReadInv(j)

WindowsInv ==
    /\ \A w, v \in Active : w = v
    /\ \A w \in 1..Len(windows) : windows[w].prior = "recognition"

BorrowedInv == config.apps = "enrollment" /\ ~overtaken /\ ~byOperator => Covered

WindowInv == WindowType /\ WindowsInv /\ BorrowedInv /\ \A j \in Jobs : JobInv(j)

LEMMA WindowInitInv == WindowInit => WindowInv
<1>. SUFFICES ASSUME WindowInit PROVE WindowInv
  OBVIOUS
<1>1. /\ config = [revision |-> 1, apps |-> "recognition"] /\ windows = <<>>
      /\ overtaken = FALSE /\ byOperator = FALSE /\ \A j \in Jobs : job[j] = NoJob
      /\ job = [j \in Jobs |-> NoJob]
  BY DEF WindowInit
<1>a. config \in Config
  BY <1>1 DEF Config, Apps
<1>b. windows \in Seq(Window) /\ job \in [Jobs -> Job \cup {NoJob}]
  BY <1>1
<1>2. WindowType
  BY <1>1, <1>a, <1>b DEF WindowType
<1>3. WindowsInv /\ BorrowedInv
  BY <1>1 DEF WindowsInv, BorrowedInv, Active
<1>4. \A j \in Jobs : JobInv(j)
  BY <1>1 DEF JobInv, StartInv, StopInv, UpdateInv, ReadInv
<1>. QED
  BY <1>2, <1>3, <1>4 DEF WindowInv

(* A job changes its own entry only. *)
LEMMA OtherJobs ==
  ASSUME WindowType, NEW j \in Jobs, NEW r \in Job \cup {NoJob},
         job' = [job EXCEPT ![j] = r]
  PROVE  /\ job' \in [Jobs -> Job \cup {NoJob}]
         /\ job'[j] = r
         /\ \A k \in Jobs \ {j} : job'[k] = job[k]
  BY DEF WindowType

(* A request is admitted. *)
LEMMA BeginKeeps ==
  ASSUME WindowInv, NEW j \in Jobs, NEW r \in Job,
         job[j] = NoJob, job' = [job EXCEPT ![j] = r],
         UNCHANGED <<config, windows, overtaken, byOperator>>,
         r.seen = 0,
         \/ /\ r.kind = "start" /\ r.step = "window"
            /\ r.old = config /\ config.apps = "recognition"
         \/ r.kind = "stop" /\ r.step = "window" /\ r.window \in 1..Len(windows)
         \/ r.kind = "update" /\ r.step = "check"
  PROVE  WindowInv'
<1>1. /\ job' \in [Jobs -> Job \cup {NoJob}]
      /\ job'[j] = r
      /\ \A k \in Jobs \ {j} : job'[k] = job[k]
  BY OtherJobs DEF WindowInv
<1>2. WindowType' /\ WindowsInv'
  BY <1>1 DEF WindowInv, WindowType, WindowsInv, Active
<1>3. Covered => Covered'
  BY <1>1 DEF Covered, Stopping, Active
<1>4. BorrowedInv'
  BY <1>3 DEF WindowInv, BorrowedInv
<1>5. JobInv(j)'
  BY <1>1 DEF WindowInv, WindowType, JobInv, StartInv, StopInv, UpdateInv, ReadInv,
              Outdated, Config, Job
<1>6. ASSUME NEW k \in Jobs \ {j} PROVE JobInv(k)'
  BY <1>1, <1>3 DEF WindowInv, JobInv, StartInv, StopInv, UpdateInv, ReadInv, Outdated
<1>. QED
  BY <1>2, <1>4, <1>5, <1>6 DEF WindowInv

LEMMA StartReadsKeeps ==
  ASSUME WindowInv, NEW j \in Jobs, StartReads(j)
  PROVE  WindowInv'
<1>. DEFINE r == [kind |-> "start", step |-> "window", window |-> 0,
                  old |-> config, new |-> Unread, seen |-> 0]
<1>1. r \in Job
  BY DEF WindowInv, WindowType, Job, Unread, Config, Apps
<1>. QED
  BY <1>1, BeginKeeps DEF StartReads, Begin

LEMMA StopBeginsKeeps ==
  ASSUME WindowInv, NEW j \in Jobs, StopBegins(j)
  PROVE  WindowInv'
<1>1. PICK w \in Active : Begin(j, "stop", "window", w, Unread)
  BY DEF StopBegins
<1>2. w \in 1..Len(windows)
  BY DEF Active, WindowInv, WindowType
<1>. DEFINE r == [kind |-> "stop", step |-> "window", window |-> w,
                  old |-> Unread, new |-> Unread, seen |-> 0]
<1>3. r \in Job
  BY <1>2 DEF Job, Unread, Config, Apps
<1>. QED
  BY <1>1, <1>2, <1>3, BeginKeeps DEF Begin

LEMMA UpdateBeginsKeeps ==
  ASSUME WindowInv, NEW j \in Jobs, UpdateBegins(j)
  PROVE  WindowInv'
<1>1. PICK apps \in Apps, n \in 2..MaxWindowRevision :
        job' = [job EXCEPT ![j] = [kind |-> "update", step |-> "check", window |-> 0,
                                   old |-> Unread, seen |-> 0,
                                   new |-> [revision |-> n, apps |-> apps]]]
  BY DEF UpdateBegins
<1>. DEFINE r == [kind |-> "update", step |-> "check", window |-> 0,
                  old |-> Unread, seen |-> 0,
                  new |-> [revision |-> n, apps |-> apps]]
<1>2. r \in Job
  BY DEF Job, Unread, Config, Apps
<1>. QED
  BY <1>1, <1>2, BeginKeeps DEF UpdateBegins

(* A start opens the camera's only window. *)
LEMMA StartWindowKeeps ==
  ASSUME WindowInv, NEW j \in Jobs, StartWindow(j)
  PROVE  WindowInv'
<1>. DEFINE new == [revision |-> job[j].old.revision + 1, apps |-> "enrollment"]
            r == [job[j] EXCEPT !.step = "check", !.window = Len(windows) + 1,
                                !.new = new]
<1>1. job[j] \in Job /\ job[j] # NoJob /\ job[j].kind = "start"
  BY DEF WindowInv, WindowType, StartWindow, AtStep
<1>2. job[j].old \in Config /\ job[j].old.apps = "recognition"
  BY <1>1 DEF Job, WindowInv, JobInv, StartInv
<1>a. new \in Config /\ new.revision = job[j].old.revision + 1
  BY <1>2 DEF Config, Apps
<1>b. Len(windows) + 1 \in Nat
  BY DEF WindowInv, WindowType
<1>. HIDE DEF new
<1>c. /\ r \in Job /\ r # NoJob
      /\ r.kind = "start" /\ r.step = "check" /\ r.old = job[j].old
      /\ r.new = new
  BY <1>1, <1>a, <1>b DEF Job, NoJob
<1>3. /\ r \in Job /\ r # NoJob
      /\ r.kind = "start" /\ r.step = "check" /\ r.old = job[j].old
      /\ r.new.revision = job[j].old.revision + 1
  BY <1>a, <1>c
<1>4. job' = [job EXCEPT ![j] = r]
  BY DEF StartWindow, new
<1>5. /\ job' \in [Jobs -> Job \cup {NoJob}]
      /\ job'[j] = r
      /\ \A k \in Jobs \ {j} : job'[k] = job[k]
  BY <1>3, <1>4, OtherJobs DEF WindowInv
<1>6. PICK n : n = [prior |-> job[j].old.apps, status |-> "active"]
  OBVIOUS
<1>7. n \in Window /\ n.prior = "recognition" /\ n.status = "active"
  BY <1>2, <1>6 DEF Window, Apps
<1>8. windows' = Append(windows, n) /\ UNCHANGED <<config, overtaken, byOperator>> /\ Active = {}
  BY <1>6 DEF StartWindow
<1>9. WindowType'
  BY <1>5, <1>7, <1>8 DEF WindowInv, WindowType
<1>10. /\ Len(windows') = Len(windows) + 1
       /\ windows'[Len(windows) + 1] = n
       /\ \A w \in 1..Len(windows) : windows'[w] = windows[w]
  BY <1>7, <1>8 DEF WindowInv, WindowType
<1>11. Active' = {Len(windows) + 1}
  BY <1>7, <1>8, <1>9, <1>10 DEF Active, WindowInv, WindowType
<1>12. WindowsInv'
  BY <1>7, <1>10, <1>11 DEF WindowInv, WindowType, WindowsInv
<1>13. Covered' /\ BorrowedInv'
  BY <1>11 DEF Covered, BorrowedInv
<1>14. JobInv(j)'
  BY <1>1, <1>2, <1>3, <1>5, <1>8, <1>13
     DEF WindowInv, JobInv, StartInv, StopInv, UpdateInv, ReadInv
<1>15. ASSUME NEW k \in Jobs \ {j} PROVE JobInv(k)'
  BY <1>5, <1>8, <1>10, <1>13
     DEF WindowInv, WindowType, JobInv, StartInv, StopInv, UpdateInv, ReadInv
<1>. QED
  BY <1>9, <1>12, <1>13, <1>14, <1>15 DEF WindowInv

(* A stop ends the window first and owes the camera its applications. *)
LEMMA EndWindowKeeps ==
  ASSUME WindowInv, NEW j \in Jobs, EndWindow(j)
  PROVE  WindowInv'
<1>. DEFINE r == [job[j] EXCEPT !.step = "read"]
            w == job[j].window
<1>1. job[j] \in Job /\ job[j] # NoJob /\ job[j].kind = "stop"
  BY DEF WindowInv, WindowType, EndWindow, AtStep
<1>2. /\ r \in Job /\ r # NoJob
      /\ r.kind = "stop" /\ r.step = "read" /\ r.old = job[j].old
      /\ r.window = job[j].window
  BY <1>1 DEF Job, NoJob
<1>3. /\ job' \in [Jobs -> Job \cup {NoJob}]
      /\ job'[j] = r
      /\ \A k \in Jobs \ {j} : job'[k] = job[k]
  BY <1>2, OtherJobs DEF WindowInv, EndWindow
<1>4. w \in 1..Len(windows)
  BY <1>1 DEF WindowInv, JobInv, StopInv
<1>a. PICK n : n = [windows[w] EXCEPT !.status = "reverted"]
  OBVIOUS
<1>b. windows[w] \in Window
  BY <1>4 DEF WindowInv, WindowType
<1>5. n \in Window /\ n.prior = windows[w].prior /\ n.status = "reverted"
  BY <1>a, <1>b DEF Window
<1>c. windows' = [windows EXCEPT ![w] = n]
  BY <1>a DEF EndWindow
<1>6. /\ windows' \in Seq(Window) /\ Len(windows') = Len(windows)
      /\ windows'[w].prior = windows[w].prior /\ windows'[w].status = "reverted"
      /\ \A v \in (1..Len(windows)) \ {w} : windows'[v] = windows[v]
  BY <1>4, <1>5, <1>c DEF WindowInv, WindowType
<1>7. UNCHANGED <<config, overtaken, byOperator>>
  BY DEF EndWindow
<1>8. WindowType'
  BY <1>3, <1>6, <1>7 DEF WindowInv, WindowType
<1>9. Active' \subseteq Active
  BY <1>4, <1>6 DEF Active, WindowInv, WindowType
<1>10. WindowsInv'
  BY <1>4, <1>6, <1>9 DEF WindowInv, WindowsInv
<1>11. Covered' /\ BorrowedInv'
  BY <1>2, <1>3 DEF Covered, BorrowedInv, Stopping
<1>12. JobInv(j)'
  BY <1>1, <1>2, <1>3, <1>6, <1>7
     DEF WindowInv, JobInv, StartInv, StopInv, UpdateInv, ReadInv
<1>13. ASSUME NEW k \in Jobs \ {j} PROVE JobInv(k)'
  BY <1>3, <1>6, <1>7, <1>11
     DEF WindowInv, JobInv, StartInv, StopInv, UpdateInv, ReadInv
<1>. QED
  BY <1>8, <1>10, <1>11, <1>12, <1>13 DEF WindowInv

LEMMA StopReadsKeeps ==
  ASSUME WindowInv, NEW j \in Jobs, StopReads(j)
  PROVE  WindowInv'
<1>. DEFINE new == Wanted(windows[job[j].window].prior)
            r == [job[j] EXCEPT !.step = "check", !.new = new]
<1>1. job[j] \in Job /\ job[j] # NoJob /\ job[j].kind = "stop" /\ job[j].step = "read"
  BY DEF WindowInv, WindowType, StopReads, AtStep
<1>2. /\ job[j].window \in 1..Len(windows)
      /\ windows[job[j].window].prior = "recognition"
  BY <1>1 DEF WindowInv, JobInv, StopInv, WindowsInv
<1>a. new \in Config /\ new.apps = "recognition"
  BY <1>2 DEF Wanted, Config, Apps, WindowInv, WindowType
<1>. HIDE DEF new
<1>3. /\ r \in Job /\ r # NoJob
      /\ r.kind = "stop" /\ r.step = "check" /\ r.old = job[j].old
      /\ r.window = job[j].window /\ r.new.apps = "recognition"
  BY <1>1, <1>a DEF Job, NoJob
<1>4. /\ job' \in [Jobs -> Job \cup {NoJob}]
      /\ job'[j] = r
      /\ \A k \in Jobs \ {j} : job'[k] = job[k]
  BY <1>3, OtherJobs DEF WindowInv, StopReads, new
<1>5. UNCHANGED <<config, windows, overtaken, byOperator>>
  BY DEF StopReads
<1>6. WindowType' /\ WindowsInv'
  BY <1>4, <1>5 DEF WindowInv, WindowType, WindowsInv, Active
<1>7. Covered' /\ BorrowedInv'
  BY <1>3, <1>4 DEF Covered, BorrowedInv, Stopping
<1>8. JobInv(j)'
  BY <1>1, <1>3, <1>4, <1>5
     DEF WindowInv, JobInv, StartInv, StopInv, UpdateInv, ReadInv
<1>9. ASSUME NEW k \in Jobs \ {j} PROVE JobInv(k)'
  BY <1>4, <1>5, <1>7 DEF WindowInv, JobInv, StartInv, StopInv, UpdateInv, ReadInv
<1>. QED
  BY <1>6, <1>7, <1>8, <1>9 DEF WindowInv

LEMMA CheckRevisionKeeps ==
  ASSUME WindowInv, NEW j \in Jobs, CheckRevision(j)
  PROVE  WindowInv'
<1>. DEFINE r == [job[j] EXCEPT !.step = "apply", !.seen = config.revision]
<1>1. /\ job[j] \in Job /\ job[j] # NoJob /\ job[j].step = "check"
      /\ job[j].kind \in {"start", "stop", "update"}
      /\ job[j].new.revision > config.revision
      /\ config \in Config /\ job[j].new \in Config
  BY DEF WindowInv, WindowType, CheckRevision, AtStep, Newer, Job
<1>2. /\ r \in Job /\ r # NoJob
      /\ r.step = "apply" /\ r.seen = config.revision /\ r.kind = job[j].kind
      /\ r.old = job[j].old /\ r.new = job[j].new /\ r.window = job[j].window
  BY <1>1 DEF Job, NoJob, Config
<1>3. /\ job' \in [Jobs -> Job \cup {NoJob}]
      /\ job'[j] = r
      /\ \A k \in Jobs \ {j} : job'[k] = job[k]
  BY <1>2, OtherJobs DEF WindowInv, CheckRevision
<1>4. UNCHANGED <<config, windows, overtaken, byOperator>>
  BY DEF CheckRevision
<1>5. WindowType' /\ WindowsInv'
  BY <1>3, <1>4 DEF WindowInv, WindowType, WindowsInv, Active
<1>6. Covered => Covered'
  BY <1>1, <1>2, <1>3, <1>4 DEF Covered, Stopping, Active
<1>7. BorrowedInv'
  BY <1>4, <1>6 DEF WindowInv, BorrowedInv
<1>8. ~Outdated(j)
  BY <1>1 DEF Outdated, Config
<1>9. StartInv(j)' /\ StopInv(j)' /\ UpdateInv(j)'
  BY <1>1, <1>2, <1>3, <1>4, <1>6, <1>8 DEF WindowInv, JobInv, StartInv, StopInv, UpdateInv
<1>10. ReadInv(j)'
  BY <1>1, <1>2, <1>3, <1>4 DEF WindowInv, JobInv, ReadInv, Config
<1>11. ASSUME NEW k \in Jobs \ {j} PROVE JobInv(k)'
  BY <1>3, <1>4, <1>6
     DEF WindowInv, JobInv, StartInv, StopInv, UpdateInv, ReadInv, Outdated
<1>. QED
  BY <1>5, <1>7, <1>9, <1>10, <1>11 DEF WindowInv, JobInv

(* An applied configuration that overtook nothing outdates every start     *)
(* that was computed before it, so that the restoration which is over now  *)
(* is not undone by the start that it restored.                            *)
LEMMA ApplyKeeps ==
  ASSUME WindowInv, NEW j \in Jobs, Apply(j)
  PROVE  WindowInv'
<1>1. /\ job[j] \in Job /\ job[j] # NoJob /\ job[j].step = "apply"
      /\ job[j].kind \in {"start", "stop", "update"}
      /\ config \in Config /\ job[j].new \in Config
      /\ config' = job[j].new
      /\ overtaken' = (overtaken \/ config.revision # job[j].seen)
      /\ byOperator' =
           /\ job[j].new.apps = "enrollment"
           /\ byOperator \/ (job[j].kind = "update" /\ Active = {} /\ Restoring = {})
      /\ windows' = windows
  BY DEF WindowInv, WindowType, Apply, AtStep, Job
<1>2. /\ job' \in [Jobs -> Job \cup {NoJob}]
      /\ job'[j] = NoJob
      /\ \A k \in Jobs \ {j} : job'[k] = job[k]
  BY OtherJobs DEF WindowInv, Apply
<1>3. WindowType' /\ WindowsInv'
  BY <1>1, <1>2 DEF WindowInv, WindowType, WindowsInv, Active
<1>4. ~overtaken' => ~overtaken /\ config'.revision > config.revision
                     /\ config.revision \in Nat /\ config'.revision \in Nat
  BY <1>1 DEF WindowInv, JobInv, ReadInv, Config, WindowType
<1>5. Covered => Covered' \/ job[j].kind = "stop"
  BY <1>1, <1>2 DEF Covered, Stopping, Active
<1>6. BorrowedInv'
  <2>. SUFFICES ASSUME config'.apps = "enrollment", ~overtaken', ~byOperator'
                PROVE Covered'
    BY DEF BorrowedInv
  <2>1. job[j].kind \in {"start", "update"}
    BY <1>1 DEF WindowInv, JobInv, StopInv
  <2>2. ~overtaken /\ config.revision = job[j].seen
    BY <1>1, <1>4
  <2>3. CASE job[j].kind = "start"
    <3>1. ~Outdated(j)
      BY <1>1, <2>2 DEF Outdated, Config
    <3>2. Covered
      BY <1>1, <2>2, <2>3, <3>1 DEF WindowInv, JobInv, StartInv
    <3>. QED
      BY <1>5, <2>3, <3>2
  \* The window, or the restoration, was there before the document.
  <2>4. CASE job[j].kind = "update"
    <3>1. Covered
      BY <1>1, <2>4 DEF Covered, Stopping, Restoring
    <3>. QED
      BY <1>5, <2>4, <3>1
  <2>. QED
    BY <2>1, <2>3, <2>4
<1>7. JobInv(j)'
  BY <1>2 DEF JobInv, StartInv, StopInv, UpdateInv, ReadInv
<1>8. ASSUME NEW k \in Jobs \ {j} PROVE JobInv(k)'
  <2>1. job'[k] = job[k] /\ JobInv(k) /\ (job[k] # NoJob => job[k] \in Job)
    BY <1>2 DEF WindowInv, WindowType
  <2>2. job[k] # NoJob => /\ job[k].seen \in Nat /\ job[k].old.revision \in Nat
                          /\ job[k].new.revision \in Nat
    BY <2>1 DEF Job, Config
  <2>3. ReadInv(k)'
    BY <1>4, <2>1, <2>2 DEF JobInv, ReadInv
  <2>4. StopInv(k)' /\ UpdateInv(k)'
    BY <1>1, <2>1 DEF JobInv, StopInv, UpdateInv
  <2>5. ASSUME job[k] # NoJob, job[k].kind = "start", job[k].step # "window", ~overtaken'
        PROVE  Outdated(k)'
    <3>1. job[k].step \in {"check", "apply"}
          /\ job[k].new.revision = job[k].old.revision + 1
      BY <2>1, <2>5 DEF JobInv, StartInv
    <3>2. job[k].old.revision <= config.revision
          /\ (job[k].step = "apply" => job[k].seen <= config.revision)
      BY <1>4, <2>1, <2>5 DEF JobInv, ReadInv
    <3>. QED
      BY <1>4, <2>1, <2>2, <2>5, <3>1, <3>2 DEF Outdated
  <2>6. StartInv(k)'
    BY <2>1, <2>5 DEF JobInv, StartInv
  <2>. QED
    BY <2>3, <2>4, <2>6 DEF JobInv
<1>. QED
  BY <1>3, <1>6, <1>7, <1>8 DEF WindowInv

LEMMA JobFailsKeeps ==
  ASSUME WindowInv, NEW j \in Jobs, JobFails(j)
  PROVE  WindowInv'
<1>1. /\ job' \in [Jobs -> Job \cup {NoJob}]
      /\ job'[j] = NoJob
      /\ \A k \in Jobs \ {j} : job'[k] = job[k]
  BY OtherJobs DEF WindowInv, JobFails
<1>2. /\ UNCHANGED <<config, windows, byOperator>> /\ job[j] # NoJob
      /\ overtaken' = (overtaken \/ (job[j].kind = "stop" /\ job[j].step # "window"))
  BY DEF JobFails
<1>3. WindowType' /\ WindowsInv'
  BY <1>1, <1>2 DEF WindowInv, WindowType, WindowsInv, Active
<1>4. ~overtaken' => ~overtaken /\ (Covered => Covered')
  BY <1>1, <1>2 DEF Covered, Stopping, Active
<1>5. BorrowedInv'
  BY <1>2, <1>4 DEF WindowInv, BorrowedInv
<1>6. JobInv(j)'
  BY <1>1 DEF JobInv, StartInv, StopInv, UpdateInv, ReadInv
<1>7. ASSUME NEW k \in Jobs \ {j} PROVE JobInv(k)'
  BY <1>1, <1>2, <1>4
     DEF WindowInv, JobInv, StartInv, StopInv, UpdateInv, ReadInv, Outdated
<1>. QED
  BY <1>3, <1>5, <1>6, <1>7 DEF WindowInv

LEMMA WindowNextKeeps == WindowInv /\ [WindowNext]_windowVars => WindowInv'
<1>. SUFFICES ASSUME WindowInv, [WindowNext]_windowVars PROVE WindowInv'
  OBVIOUS
<1>1. CASE UNCHANGED windowVars
  BY <1>1 DEF windowVars, WindowInv, WindowType, WindowsInv, BorrowedInv, JobInv, StartInv,
     StopInv, UpdateInv, ReadInv, Active, Covered, Stopping, Outdated
<1>2. CASE WindowNext
  BY <1>2, StartReadsKeeps, StartWindowKeeps, StopBeginsKeeps, EndWindowKeeps,
     StopReadsKeeps, UpdateBeginsKeeps, CheckRevisionKeeps, ApplyKeeps, JobFailsKeeps
     DEF WindowNext
<1>. QED
  BY <1>1, <1>2

(***************************************************************************)
(* However requests of operators, expirations and revision checks of       *)
(* server.py interleave, a camera has one active window with its prior     *)
(* applications, and a camera that runs face_enrollment has a window or a  *)
(* job that restores it, until a job overtakes another or fails between    *)
(* the end of the window and the restoration, and unless an operator's     *)
(* document said face_enrollment when the camera had no window.            *)
(***************************************************************************)
THEOREM WindowsAreKept == WindowSpec => []EnrollmentHasWindow
<1>1. WindowInv => EnrollmentHasWindow
  <2>. SUFFICES ASSUME WindowInv PROVE EnrollmentHasWindow
    OBVIOUS
  <2>1. \A w \in DOMAIN windows : windows[w].prior = "recognition"
    BY DEF WindowInv, WindowsInv, WindowType
  <2>2. Covered => Active # {} \/ Restoring # {}
    BY DEF Covered, Stopping, Restoring
  <2>. QED
    BY <2>1, <2>2 DEF WindowInv, WindowsInv, BorrowedInv, EnrollmentHasWindow
<1>. QED
  BY <1>1, WindowInitInv, WindowNextKeeps, PTL DEF WindowSpec

-------------------------------------------------------------------------------
(***************************************************************************)
(* Node status: how old what a label rests on can be, before the           *)
(* controller's pass has come to the node, after it, and between passes.   *)
(***************************************************************************)
NodeStatusSpec == NodeInit /\ [][NodeNext]_nodeVars

(* The allowance for the passes that failed. *)
Allowance == Interval * failedPasses

(* The label rests on a report that the controller has judged, or is about *)
(* to note that it has.                                                    *)
Held(n) ==
    /\ node[n].qualified = "true"
    /\ \/ report[n].accepted # "none"
       \/ controller.step = "status" /\ controller.current = n

RecentBy(n, extra) ==
    /\ report[n].present => last - report[n].observed <= Stale + extra
    /\ ~node[n].ready => last - node[n].since <= extra

(* The pass has still to look at the node. *)
Pending(n) ==
    /\ \E seen \in controller.reports : seen.name = n
    /\ controller.step = "nodes" \/ \E peer \in controller.nodes : peer.name = n

LabelInv(n) ==
    /\ report[n].observed <= nodeClock
    /\ ~report[n].present => report[n].accepted = "none"
    /\ ~node[n].joined => node[n].qualified = "none"
    /\ Held(n) => RecentBy(n, IF controller.step # "idle" /\ Pending(n)
                              THEN Allowance + Interval ELSE Allowance)

(* What was read is no newer than what is there now. *)
SeenInv ==
    /\ \A seen \in controller.reports :
         /\ seen.observed <= nodeClock
         /\ report[seen.name].present => seen.observed <= report[seen.name].observed
         /\ \A other \in controller.reports : other.name = seen.name => other = seen
    /\ \A peer \in controller.nodes :
         peer.ready /\ ~node[peer.name].ready => node[peer.name].since >= last

ControllerInv ==
    /\ last <= nodeClock
    /\ nodeClock <= last + Interval
    /\ controller.step # "idle" => nodeClock = last
    /\ controller.step = "idle" => controller.reports = {} /\ controller.nodes = {}
    /\ controller.step = "nodes" => controller.nodes = {}

NodeInv == NodeType /\ ControllerInv /\ SeenInv /\ \A n \in ClusterNodes : LabelInv(n)

LEMMA Allowances ==
  ASSUME NodeInv
  PROVE  /\ Interval \in Nat /\ Stale \in Nat /\ Allowance \in Nat
         /\ failedPasses' = failedPasses => Allowance' = Allowance
         /\ failedPasses' = failedPasses + 1 => Allowance' = Allowance + Interval
<1>1. Interval \in Nat /\ Stale \in Nat /\ MaxFailedPasses \in Nat /\ failedPasses \in Nat
  BY NodeAssumption DEF NodeInv, NodeType
<1>2. Interval * failedPasses \in Nat
      /\ Interval * (failedPasses + 1) = Interval * failedPasses + Interval
  BY <1>1
<1>. QED
  BY <1>1, <1>2 DEF Allowance

(* The parts of the state as numbers, rows and sets. *)
LEMMA NodeParts ==
  ASSUME NodeInv
  PROVE  /\ nodeClock \in Nat /\ last \in Nat /\ nodeClock \in 0..MaxNodeTime
         /\ controller \in ControllerPass
         /\ controller.step \in {"idle", "nodes", "label", "status"}
         /\ \A n \in ClusterNodes :
              /\ node[n] \in Node /\ report[n] \in Report
              /\ node[n].joined \in BOOLEAN /\ node[n].ready \in BOOLEAN
              /\ node[n].since \in Nat /\ node[n].qualified \in Label
              /\ report[n].present \in BOOLEAN /\ report[n].observed \in Nat
              /\ report[n].observed \in 0..MaxNodeTime
              /\ report[n].sound \in BOOLEAN /\ report[n].accepted \in Label
         /\ \A seen \in controller.reports : /\ seen \in SeenReport
                                             /\ seen.name \in ClusterNodes
                                             /\ seen.observed \in Nat
         /\ \A peer \in controller.nodes : /\ peer \in SeenNode
                                           /\ peer.name \in ClusterNodes
<1>1. MaxNodeTime \in Nat
  BY NodeAssumption
<1>2. /\ nodeClock \in 0..MaxNodeTime /\ last \in 0..MaxNodeTime
      /\ node \in [ClusterNodes -> Node] /\ report \in [ClusterNodes -> Report]
      /\ controller \in ControllerPass
  BY DEF NodeInv, NodeType
<1>3. \A seen \in SeenReport : seen.name \in ClusterNodes /\ seen.observed \in Nat
  BY <1>1 DEF SeenReport
<1>4. \A peer \in SeenNode : peer.name \in ClusterNodes
  BY DEF SeenNode
<1>5. \A rec \in Node : /\ rec.joined \in BOOLEAN /\ rec.ready \in BOOLEAN
                        /\ rec.since \in Nat /\ rec.qualified \in Label
  BY <1>1 DEF Node
<1>6. \A rec \in Report : /\ rec.present \in BOOLEAN /\ rec.observed \in Nat
                          /\ rec.observed \in 0..MaxNodeTime
                          /\ rec.sound \in BOOLEAN /\ rec.accepted \in Label
  BY <1>1 DEF Report
<1>7. /\ controller.reports \subseteq SeenReport /\ controller.nodes \subseteq SeenNode
      /\ controller.step \in {"idle", "nodes", "label", "status"}
  BY <1>2 DEF ControllerPass
<1>. QED
  BY <1>1, <1>2, <1>3, <1>4, <1>5, <1>6, <1>7

LEMMA NodeInitInv == NodeInit => NodeInv
<1>. SUFFICES ASSUME NodeInit PROVE NodeInv
  OBVIOUS
<1>1. NodeType
  <2>1. [joined |-> TRUE, ready |-> TRUE, since |-> 0, qualified |-> "none"] \in Node
        /\ NoReport \in Report
    BY NodeAssumption DEF Node, Report, NoReport, Label
  <2>2. IdleController \in ControllerPass
    BY DEF IdleController, ControllerPass
  <2>. QED
    BY <2>1, <2>2, NodeAssumption DEF NodeInit, NodeType
<1>2. ControllerInv /\ SeenInv
  BY NodeAssumption DEF NodeInit, ControllerInv, SeenInv, IdleController
<1>3. ASSUME NEW n \in ClusterNodes PROVE LabelInv(n)
  <2>1. /\ node[n].qualified = "none" /\ node[n].joined
        /\ report[n].observed = 0 /\ report[n].accepted = "none"
    BY DEF NodeInit, NoReport
  <2>2. ~Held(n) /\ nodeClock = 0
    BY <2>1 DEF Held, NodeInit
  <2>. QED
    BY <2>1, <2>2 DEF LabelInv
<1>. QED
  BY <1>1, <1>2, <1>3 DEF NodeInv

(* A step that rewrites the report of one node. *)
LEMMA ReportBecomes ==
  ASSUME NodeInv, NEW n \in ClusterNodes, NEW rec \in Report,
         report' = [report EXCEPT ![n] = rec],
         UNCHANGED <<nodeClock, node, controller, last, failedPasses>>,
         rec.observed <= nodeClock,
         ~rec.present => rec.accepted = "none",
         rec.present => rec.observed = nodeClock,
         rec.accepted # "none" => rec.accepted = report[n].accepted
  PROVE  NodeInv'
<1>1. report' \in [ClusterNodes -> Report] /\ report'[n] = rec
      /\ \A m \in ClusterNodes \ {n} : report'[m] = report[m]
  BY DEF NodeInv, NodeType
<1>2. NodeType' /\ ControllerInv'
  BY <1>1 DEF NodeInv, NodeType, ControllerInv
<1>3. rec.observed \in Nat /\ rec.present \in BOOLEAN
  BY NodeAssumption DEF Report
<1>4. SeenInv'
  BY <1>1, NodeParts DEF NodeInv, SeenInv
<1>5. Allowance' = Allowance /\ Allowance \in Nat /\ Interval \in Nat /\ Stale \in Nat
  BY Allowances
<1>6. ASSUME NEW m \in ClusterNodes \ {n} PROVE LabelInv(m)'
  BY <1>1, <1>5 DEF NodeInv, LabelInv, Held, Pending, RecentBy
<1>7. LabelInv(n)'
  <2>1. last <= nodeClock /\ last \in Nat /\ nodeClock \in Nat
    BY NodeParts DEF NodeInv, ControllerInv
  <2>2. Held(n)' => Held(n)
    BY <1>1 DEF Held
  <2>3. Pending(n)' <=> Pending(n)
    BY DEF Pending
  <2>4. ASSUME NEW extra \in Nat, RecentBy(n, extra)
        PROVE  /\ rec.present => last - rec.observed <= Stale + extra
               /\ ~node[n].ready => last - node[n].since <= extra
    BY <1>3, <1>5, <2>1, <2>4 DEF RecentBy
  <2>5. Allowance + Interval \in Nat
    BY <1>5
  <2>. QED
    BY <1>1, <1>5, <2>2, <2>3, <2>4, <2>5 DEF NodeInv, LabelInv, RecentBy
<1>. QED
  BY <1>2, <1>4, <1>6, <1>7 DEF NodeInv

LEMMA ReportOnceKeeps ==
  ASSUME NodeInv, NEW n \in ClusterNodes, ReportOnce(n)
  PROVE  NodeInv'
<1>1. PICK sound \in BOOLEAN : report' = [report EXCEPT ![n] =
        [report[n] EXCEPT !.present = TRUE, !.observed = nodeClock, !.sound = sound]]
  BY DEF ReportOnce
<1>2. PICK rec : rec = [report[n] EXCEPT !.present = TRUE, !.observed = nodeClock,
                                         !.sound = sound]
  OBVIOUS
<1>3. rec \in Report /\ rec.present /\ rec.observed = nodeClock
      /\ rec.accepted = report[n].accepted
  BY <1>2, NodeParts DEF Report
<1>4. report' = [report EXCEPT ![n] = rec]
      /\ UNCHANGED <<nodeClock, node, controller, last, failedPasses>>
  BY <1>1, <1>2 DEF ReportOnce
<1>5. rec.observed <= nodeClock
  BY <1>3, NodeParts
<1>. QED
  BY <1>3, <1>4, <1>5, ReportBecomes

LEMMA DeleteReportKeeps ==
  ASSUME NodeInv, NEW n \in ClusterNodes, DeleteReport(n)
  PROVE  NodeInv'
<1>1. PICK rec : rec = NoReport
  OBVIOUS
<1>2. rec \in Report /\ ~rec.present /\ rec.observed = 0 /\ rec.accepted = "none"
  BY <1>1, NodeAssumption DEF NoReport, Report, Label
<1>3. report' = [report EXCEPT ![n] = rec] /\ 0 <= nodeClock
      /\ UNCHANGED <<nodeClock, node, controller, last, failedPasses>>
  BY <1>1, NodeParts DEF DeleteReport
<1>. QED
  BY <1>2, <1>3, ReportBecomes

(* A step that rewrites one node outside the controller. *)
LEMMA NodeBecomes ==
  ASSUME NodeInv, NEW n \in ClusterNodes, NEW rec \in Node,
         node' = [node EXCEPT ![n] = rec],
         UNCHANGED <<nodeClock, report, controller, last, failedPasses>>,
         ~rec.joined => rec.qualified = "none",
         rec.qualified = "true" => node[n].qualified = "true",
         ~rec.ready => rec.since = nodeClock
  PROVE  NodeInv'
<1>1. node' \in [ClusterNodes -> Node] /\ node'[n] = rec
      /\ \A m \in ClusterNodes \ {n} : node'[m] = node[m]
  BY DEF NodeInv, NodeType
<1>2. NodeType' /\ ControllerInv'
  BY <1>1 DEF NodeInv, NodeType, ControllerInv
<1>3. last <= nodeClock /\ last \in Nat /\ nodeClock \in Nat
  BY NodeParts DEF NodeInv, ControllerInv
<1>4. SeenInv'
  BY <1>1, <1>3, NodeParts DEF NodeInv, SeenInv
<1>5. Allowance' = Allowance /\ Allowance \in Nat /\ Interval \in Nat /\ Stale \in Nat
  BY Allowances
<1>6. ASSUME NEW m \in ClusterNodes \ {n} PROVE LabelInv(m)'
  BY <1>1, <1>5 DEF NodeInv, LabelInv, Held, Pending, RecentBy
<1>7. LabelInv(n)'
  <2>1. Held(n)' => Held(n)
    BY <1>1 DEF Held
  <2>2. Pending(n)' <=> Pending(n)
    BY DEF Pending
  <2>3. ASSUME NEW extra \in Nat, RecentBy(n, extra)
        PROVE  /\ report[n].present => last - report[n].observed <= Stale + extra
               /\ ~rec.ready => last - rec.since <= extra
    BY <1>3, <2>3 DEF RecentBy
  <2>4. Allowance + Interval \in Nat
    BY <1>5
  <2>. QED
    BY <1>1, <1>5, <2>1, <2>2, <2>3, <2>4 DEF NodeInv, LabelInv, RecentBy
<1>. QED
  BY <1>2, <1>4, <1>6, <1>7 DEF NodeInv

LEMMA NodeReadinessKeeps ==
  ASSUME NodeInv, NEW n \in ClusterNodes, NodeReadinessChanges(n)
  PROVE  NodeInv'
<1>. DEFINE since == IF node[n].ready THEN nodeClock ELSE 0
<1>1. since \in 0..MaxNodeTime /\ node[n] \in Node
  BY NodeParts, NodeAssumption
<1>2. PICK rec : rec = [node[n] EXCEPT !.ready = ~node[n].ready, !.since = since]
  OBVIOUS
<1>3. /\ rec \in Node /\ rec.joined = node[n].joined /\ rec.qualified = node[n].qualified
      /\ rec.ready = ~node[n].ready /\ rec.since = since
  <2>. HIDE DEF since
  <2>. QED
    BY <1>2, <1>1 DEF Node
<1>4. node' = [node EXCEPT ![n] = rec]
      /\ UNCHANGED <<nodeClock, report, controller, last, failedPasses>>
  BY <1>2, NodeParts DEF NodeReadinessChanges, Node, NodeInv, NodeType
<1>5. node[n].joined /\ (~rec.ready => rec.since = nodeClock)
  BY <1>3, NodeParts DEF NodeReadinessChanges
<1>. QED
  BY <1>3, <1>4, <1>5, NodeBecomes

LEMMA NodeLeavesOrJoinsKeeps ==
  ASSUME NodeInv, NEW n \in ClusterNodes, NodeLeavesOrJoins(n)
  PROVE  NodeInv'
<1>1. PICK rec : rec = [joined |-> ~node[n].joined, ready |-> TRUE, since |-> 0,
                        qualified |-> "none"]
  OBVIOUS
<1>2. rec \in Node /\ rec.ready /\ rec.qualified = "none"
  BY <1>1, NodeAssumption DEF Node, Label
<1>3. node' = [node EXCEPT ![n] = rec]
      /\ UNCHANGED <<nodeClock, report, controller, last, failedPasses>>
  BY <1>1 DEF NodeLeavesOrJoins
<1>. QED
  BY <1>2, <1>3, NodeBecomes


-------------------------------------------------------------------------------
(* The controller's steps. *)

LEMMA ReadReportsKeeps ==
  ASSUME NodeInv, ReadReports
  PROVE  NodeInv'
<1>1. /\ controller.step = "idle" /\ last' = nodeClock
      /\ UNCHANGED <<nodeClock, node, report, failedPasses>>
  BY DEF ReadReports
<1>. DEFINE rec(n) == [name |-> n, observed |-> report[n].observed,
                       sound |-> report[n].sound]
            seenNow == {rec(n) : n \in {m \in ClusterNodes : report[m].present}}
<1>2. PICK c : c = [IdleController EXCEPT !.step = "nodes", !.reports = seenNow]
  OBVIOUS
<1>3. controller' = c
  BY <1>2 DEF ReadReports
<1>4. \A n \in ClusterNodes : /\ rec(n) \in SeenReport /\ rec(n).name = n
                              /\ rec(n).observed = report[n].observed
  BY NodeParts DEF SeenReport
<1>5. /\ c.step = "nodes" /\ c.reports = seenNow /\ c.nodes = {}
      /\ c \in ControllerPass
  <2>1. seenNow \subseteq SeenReport
    BY <1>4
  <2>2. IdleController \in ControllerPass /\ IdleController.nodes = {}
    BY DEF IdleController, ControllerPass
  <2>. HIDE DEF seenNow
  <2>. QED
    BY <1>2, <2>1, <2>2 DEF ControllerPass
<1>6. \A seen \in c.reports : \E n \in ClusterNodes : report[n].present /\ seen = rec(n)
  BY <1>5
<1>7. \A n \in ClusterNodes : report[n].present => rec(n) \in c.reports
  BY <1>5
<1>. HIDE DEF rec, seenNow
<1>8. /\ nodeClock \in Nat /\ last \in Nat /\ last <= nodeClock
      /\ nodeClock <= last + Interval /\ Interval \in Nat /\ nodeClock \in 0..MaxNodeTime
  BY NodeParts, Allowances DEF NodeInv, ControllerInv
<1>9. NodeType' /\ ControllerInv'
  BY <1>1, <1>3, <1>5, <1>8 DEF NodeInv, NodeType, ControllerInv
<1>10. SeenInv'
  <2>1. ASSUME NEW seen \in c.reports
        PROVE  /\ seen.observed <= nodeClock
               /\ seen.observed <= report[seen.name].observed
               /\ \A other \in c.reports : other.name = seen.name => other = seen
    <3>1. PICK n \in ClusterNodes : report[n].present /\ seen = rec(n)
      BY <1>6
    <3>2. seen.name = n /\ seen.observed = report[n].observed
      BY <1>4, <3>1
    <3>3. report[n].observed <= nodeClock /\ report[n].observed \in Nat
      BY NodeParts DEF NodeInv, LabelInv
    <3>4. \A other \in c.reports : other.name = n => other = rec(n)
      BY <1>4, <1>6
    <3>. QED
      BY <3>1, <3>2, <3>3, <3>4
  <2>. QED
    BY <1>1, <1>3, <1>5, <2>1 DEF SeenInv
<1>11. ASSUME NEW n \in ClusterNodes PROVE LabelInv(n)'
  <2>1. /\ Allowance' = Allowance /\ Allowance \in Nat /\ Interval \in Nat
        /\ Stale \in Nat
    BY <1>1, Allowances
  <2>2. /\ report[n].observed \in Nat /\ node[n].since \in Nat
        /\ report[n].present \in BOOLEAN
    BY NodeParts
  <2>3. ASSUME Held(n)' PROVE Pending(n)' /\ RecentBy(n, Allowance + Interval)'
    <3>1. Held(n) /\ report[n].accepted # "none"
      BY <1>1, <1>3, <1>5, <2>3 DEF Held
    <3>2. RecentBy(n, Allowance) /\ report[n].present
      BY <1>1, <3>1 DEF NodeInv, LabelInv
    <3>3. Pending(n)'
      BY <1>3, <1>4, <1>5, <1>7, <3>2 DEF Pending
    <3>4. report[n].present => nodeClock - report[n].observed <= Stale + (Allowance + Interval)
      BY <1>8, <2>1, <2>2, <3>2 DEF RecentBy
    <3>5. ~node[n].ready => nodeClock - node[n].since <= Allowance + Interval
      BY <1>8, <2>1, <2>2, <3>2 DEF RecentBy
    <3>6. RecentBy(n, Allowance + Interval)'
      BY <1>1, <2>1, <3>4, <3>5 DEF RecentBy
    <3>. QED
      BY <3>3, <3>6
  <2>4. (IF controller'.step # "idle" /\ Pending(n)' THEN Allowance' + Interval ELSE Allowance')
          = (IF Pending(n)' THEN Allowance + Interval ELSE Allowance)
    BY <1>3, <1>5, <2>1
  <2>5. /\ report[n].observed <= nodeClock
        /\ ~report[n].present => report[n].accepted = "none"
        /\ ~node[n].joined => node[n].qualified = "none"
    BY DEF NodeInv, LabelInv
  <2>6. Allowance' + Interval = Allowance + Interval
    BY <2>1
  <2>. QED
    BY <1>1, <1>3, <1>5, <2>3, <2>5, <2>6 DEF LabelInv, RecentBy
<1>. QED
  BY <1>9, <1>10, <1>11 DEF NodeInv

(* A step of a pass that leaves the labels and the reports as they are.    *)
LEMMA PassGoesOn ==
  ASSUME NodeInv, controller.step # "idle", UNCHANGED <<nodeClock, node, report, last>>,
         NEW c \in ControllerPass, controller' = c,
         failedPasses' = failedPasses,
         c.reports \subseteq controller.reports,
         \A peer \in c.nodes : \/ peer \in controller.nodes
                               \/ peer.ready = node[peer.name].ready,
         c.step = "idle" => c.reports = {} /\ c.nodes = {},
         c.step = "nodes" => c.nodes = {},
         \A n \in ClusterNodes :
           Held(n)' => /\ Held(n)
                       /\ Pending(n) => c.step # "idle" /\ Pending(n)'
  PROVE  NodeInv'
<1>1. NodeType' /\ ControllerInv'
  BY DEF NodeInv, NodeType, ControllerInv
<1>2. SeenInv'
  BY DEF NodeInv, SeenInv
<1>3. /\ Allowance' = Allowance /\ Allowance \in Nat /\ Interval \in Nat /\ Stale \in Nat
      /\ last \in Nat
  BY Allowances, NodeParts
<1>4. ASSUME NEW n \in ClusterNodes PROVE LabelInv(n)'
  <2>1. /\ report[n].observed \in Nat /\ node[n].since \in Nat
        /\ report[n].present \in BOOLEAN
    BY NodeParts
  <2>2. ASSUME Held(n)', RecentBy(n, Allowance) PROVE RecentBy(n, Allowance + Interval)
    BY <1>3, <2>1, <2>2 DEF RecentBy
  <2>3. \A extra : RecentBy(n, extra)' <=> RecentBy(n, extra)
    BY DEF RecentBy
  <2>4. Allowance' + Interval = Allowance + Interval
    BY <1>3
  <2>. QED
    BY <1>3, <2>2, <2>3, <2>4 DEF NodeInv, LabelInv, RecentBy
<1>. QED
  BY <1>1, <1>2, <1>4 DEF NodeInv


LEMMA ListNodesKeeps ==
  ASSUME NodeInv, ListNodes
  PROVE  NodeInv'
<1>. DEFINE rec(n) == [name |-> n, ready |-> node[n].ready]
            nodesNow == {rec(n) : n \in Joined}
<1>1. controller.step = "nodes" /\ controller' = [controller EXCEPT !.step = "label",
                                                                    !.nodes = nodesNow]
      /\ UNCHANGED <<nodeClock, node, report, last, failedPasses>>
  BY DEF ListNodes
<1>2. /\ nodesNow \subseteq SeenNode
      /\ \A peer \in nodesNow : peer.ready = node[peer.name].ready
      /\ \A n \in ClusterNodes : node[n].joined => \E peer \in nodesNow : peer.name = n
  <2>1. \A n \in ClusterNodes : /\ rec(n) \in SeenNode /\ rec(n).name = n
                                /\ rec(n).ready = node[n].ready
    BY NodeParts DEF SeenNode
  <2>. HIDE DEF rec
  <2>2. \A peer \in nodesNow : \E n \in ClusterNodes : peer = rec(n)
    BY DEF Joined
  <2>3. \A n \in ClusterNodes : node[n].joined => rec(n) \in nodesNow
    BY DEF Joined
  <2>. QED
    BY <2>1, <2>2, <2>3
<1>. HIDE DEF nodesNow
<1>3. PICK c : c = [controller EXCEPT !.step = "label", !.nodes = nodesNow]
  OBVIOUS
<1>4. /\ c \in ControllerPass /\ c.step = "label" /\ c.nodes = nodesNow
      /\ c.reports = controller.reports /\ c.current = controller.current
  BY <1>2, <1>3, NodeParts DEF ControllerPass
<1>5. controller' = c
  BY <1>1, <1>3
<1>6. ASSUME NEW n \in ClusterNodes, Held(n)'
      PROVE  Held(n) /\ (Pending(n) => Pending(n)')
  <2>1. Held(n) /\ node[n].qualified = "true"
    BY <1>1, <1>4, <1>5, <1>6 DEF Held
  <2>2. node[n].joined
    BY <2>1 DEF NodeInv, LabelInv
  <2>. QED
    BY <1>2, <1>4, <1>5, <2>1, <2>2 DEF Pending
<1>. QED
  BY <1>1, <1>2, <1>4, <1>5, <1>6, PassGoesOn

LEMMA EndPassKeeps ==
  ASSUME NodeInv, EndPass
  PROVE  NodeInv'
<1>1. /\ controller.step = "label" /\ controller' = IdleController
      /\ UNCHANGED <<nodeClock, node, report, last, failedPasses>>
  BY DEF EndPass
<1>2. PICK c : c = IdleController
  OBVIOUS
<1>3. /\ c \in ControllerPass /\ c.step = "idle" /\ c.nodes = {} /\ c.reports = {}
  BY <1>2 DEF IdleController, ControllerPass
<1>4. ASSUME NEW n \in ClusterNodes PROVE ~Pending(n)
  BY <1>1 DEF EndPass, Pending
<1>5. ASSUME NEW n \in ClusterNodes, Held(n)' PROVE Held(n)
  BY <1>1, <1>2, <1>3, <1>5 DEF Held
<1>. QED
  BY <1>1, <1>2, <1>3, <1>4, <1>5, PassGoesOn

(* The pass that fails adds its interval to what is allowed. *)
LEMMA PassFailsKeeps ==
  ASSUME NodeInv, PassFails
  PROVE  NodeInv'
<1>1. /\ controller.step # "idle" /\ controller' = IdleController
      /\ UNCHANGED <<nodeClock, node, report, last>>
      /\ failedPasses < MaxFailedPasses /\ failedPasses' = failedPasses + 1
  BY DEF PassFails
<1>2. PICK c : c = IdleController
  OBVIOUS
<1>3. /\ c \in ControllerPass /\ c.step = "idle" /\ c.nodes = {} /\ c.reports = {}
  BY <1>2 DEF IdleController, ControllerPass
<1>4. failedPasses' \in 0..MaxFailedPasses
  BY <1>1, NodeAssumption DEF NodeInv, NodeType
<1>5. NodeType' /\ ControllerInv' /\ SeenInv'
  BY <1>1, <1>2, <1>3, <1>4 DEF NodeInv, NodeType, ControllerInv, SeenInv
<1>6. /\ Allowance' = Allowance + Interval /\ Allowance \in Nat /\ Interval \in Nat
      /\ Stale \in Nat /\ last \in Nat
  BY <1>1, Allowances, NodeParts
<1>7. ASSUME NEW n \in ClusterNodes PROVE LabelInv(n)'
  <2>1. /\ report[n].observed \in Nat /\ node[n].since \in Nat
        /\ report[n].present \in BOOLEAN
    BY NodeParts
  <2>2. Held(n)' => Held(n)
    BY <1>1, <1>2, <1>3 DEF Held
  <2>3. ASSUME RecentBy(n, Allowance) PROVE RecentBy(n, Allowance + Interval)
    BY <1>6, <2>1, <2>3 DEF RecentBy
  <2>4. Held(n) => RecentBy(n, Allowance + Interval)
    BY <2>3 DEF NodeInv, LabelInv
  <2>5. Held(n)' => RecentBy(n, Allowance)'
    BY <1>1, <1>6, <2>2, <2>4 DEF RecentBy
  <2>. QED
    BY <1>1, <1>2, <1>3, <2>5 DEF NodeInv, LabelInv
<1>. QED
  BY <1>5, <1>7 DEF NodeInv

(* A label is set on what was read in this pass. *)
LEMMA LabelNodeKeeps ==
  ASSUME NodeInv, LabelNode
  PROVE  NodeInv'
<1>1. PICK seen \in controller.reports, peer \in controller.nodes :
        /\ seen.name = peer.name
        /\ node[peer.name].joined
        /\ node' = [node EXCEPT ![peer.name].qualified =
                      IF Accepted(seen, peer) THEN "true" ELSE "false"]
        /\ controller' = [controller EXCEPT
                            !.step = "status", !.current = peer.name,
                            !.verdict = Accepted(seen, peer),
                            !.reports = controller.reports \ {seen}]
  BY DEF LabelNode
<1>2. /\ controller.step = "label"
      /\ UNCHANGED <<nodeClock, report, last, failedPasses>>
  BY DEF LabelNode
<1>3. PICK n \in ClusterNodes : n = peer.name /\ n = seen.name
  BY <1>1, NodeParts
<1>4. PICK label \in Label : label = IF Accepted(seen, peer) THEN "true" ELSE "false"
  BY DEF Label
<1>5. PICK rec : rec = [node[n] EXCEPT !.qualified = label]
  OBVIOUS
<1>6. /\ rec \in Node /\ rec.qualified = label /\ rec.ready = node[n].ready
      /\ rec.since = node[n].since /\ rec.joined = node[n].joined
  BY <1>4, <1>5, NodeParts DEF Node
<1>7. /\ node' \in [ClusterNodes -> Node] /\ node'[n] = rec
      /\ \A m \in ClusterNodes \ {n} : node'[m] = node[m]
  <2>1. node' = [node EXCEPT ![n] = rec]
    BY <1>1, <1>3, <1>4, <1>5
  <2>. QED
    BY <1>6, <2>1 DEF NodeInv, NodeType
<1>8. PICK verdict : verdict = Accepted(seen, peer)
  OBVIOUS
<1>9. verdict \in BOOLEAN
  BY <1>8 DEF Accepted
<1>10. PICK c : c = [controller EXCEPT !.step = "status", !.current = n,
                       !.verdict = verdict, !.reports = controller.reports \ {seen}]
  OBVIOUS
<1>11. /\ c \in ControllerPass /\ c.step = "status" /\ c.current = n
       /\ c.reports = controller.reports \ {seen} /\ c.nodes = controller.nodes
  BY <1>9, <1>10, NodeParts DEF ControllerPass
<1>12. controller' = c
  BY <1>1, <1>3, <1>8, <1>10
<1>13. NodeType' /\ ControllerInv'
  BY <1>2, <1>7, <1>11, <1>12 DEF NodeInv, NodeType, ControllerInv
<1>14. SeenInv'
  <2>1. \A m \in ClusterNodes : node'[m].ready = node[m].ready
                                /\ node'[m].since = node[m].since
    BY <1>6, <1>7
  <2>. QED
    BY <1>2, <1>11, <1>12, <2>1, NodeParts DEF NodeInv, SeenInv
<1>15. /\ Allowance' = Allowance /\ Allowance \in Nat /\ Interval \in Nat
       /\ Stale \in Nat /\ last \in Nat
  BY <1>2, Allowances, NodeParts
<1>16. LabelInv(n)'
  <2>1. ~Pending(n)'
    <3>1. \A other \in controller.reports : other.name = n => other = seen
      BY <1>3 DEF NodeInv, SeenInv
    <3>. QED
      BY <1>11, <1>12, <3>1 DEF Pending
  <2>2. ASSUME label = "true" PROVE RecentBy(n, Allowance)'
    <3>1. Accepted(seen, peer)
      BY <1>4, <2>2
    <3>2. /\ peer.ready /\ nodeClock - seen.observed <= Stale /\ last = nodeClock
          /\ report[n].present => seen.observed <= report[n].observed
          /\ ~node[n].ready => last <= node[n].since
      BY <1>2, <1>3, <3>1 DEF Accepted, NodeInv, SeenInv, ControllerInv
    <3>3. /\ seen.observed \in Nat /\ report[n].observed \in Nat
          /\ node[n].since \in Nat /\ nodeClock \in Nat
      BY NodeParts
    <3>4. /\ report[n].present => last - report[n].observed <= Stale + Allowance
          /\ ~node[n].ready => last - node[n].since <= Allowance
      BY <1>15, <3>2, <3>3
    <3>. QED
      BY <1>2, <1>6, <1>7, <1>15, <3>4 DEF RecentBy
  <2>3. Held(n)' => label = "true"
    BY <1>6, <1>7 DEF Held
  <2>. QED
    BY <1>1, <1>2, <1>3, <1>6, <1>7, <2>1, <2>2, <2>3 DEF NodeInv, LabelInv
<1>17. ASSUME NEW m \in ClusterNodes \ {n} PROVE LabelInv(m)'
  <2>1. Held(m)' => Held(m)
    BY <1>2, <1>7, <1>11, <1>12 DEF Held
  <2>2. Pending(m) <=> Pending(m)'
    BY <1>2, <1>3, <1>11, <1>12 DEF Pending
  <2>3. ASSUME NEW extra PROVE RecentBy(m, extra)' <=> RecentBy(m, extra)
    BY <1>2, <1>7 DEF RecentBy
  <2>. QED
    BY <1>2, <1>7, <1>11, <1>12, <1>15, <2>1, <2>2 DEF NodeInv, LabelInv, RecentBy
<1>. QED
  BY <1>13, <1>14, <1>16, <1>17 DEF NodeInv

LEMMA WriteStatusKeeps ==
  ASSUME NodeInv, WriteStatus
  PROVE  NodeInv'
<1>1. /\ controller.step = "status" /\ report[controller.current].present
      /\ UNCHANGED <<nodeClock, node, last, failedPasses>>
  BY DEF WriteStatus
<1>. DEFINE label == IF controller.verdict THEN "true" ELSE "false"
<1>2. PICK n : n = controller.current
  OBVIOUS
<1>3. PICK c : c = [controller EXCEPT !.step = "label", !.current = NoName]
  OBVIOUS
<1>4. /\ c \in ControllerPass /\ c.step = "label" /\ c.current = NoName
      /\ c.reports = controller.reports /\ c.nodes = controller.nodes
  BY <1>3, NodeParts DEF ControllerPass
<1>5. controller' = c
  BY <1>3 DEF WriteStatus
<1>6. label \in Label
  BY DEF Label
<1>. HIDE DEF label
<1>7. PICK rec : rec = [report[n] EXCEPT !.accepted = label]
  OBVIOUS
<1>8. report' = [report EXCEPT ![n] = rec]
  BY <1>2, <1>7 DEF WriteStatus, label
<1>9. ASSUME n \in ClusterNodes
      PROVE  /\ rec \in Report /\ rec.accepted = label
             /\ rec.present = report[n].present /\ rec.observed = report[n].observed
  BY <1>6, <1>7, <1>9, NodeParts DEF Report
<1>10. /\ report' \in [ClusterNodes -> Report]
       /\ \A m \in ClusterNodes : report'[m] = IF m = n THEN rec ELSE report[m]
  BY <1>8, <1>9 DEF NodeInv, NodeType
<1>11. \A m \in ClusterNodes : /\ report'[m].present = report[m].present
                               /\ report'[m].observed = report[m].observed
  BY <1>9, <1>10
<1>12. NodeType' /\ ControllerInv'
  BY <1>1, <1>4, <1>5, <1>10 DEF NodeInv, NodeType, ControllerInv
<1>13. SeenInv'
  BY <1>1, <1>4, <1>5, <1>11, NodeParts DEF NodeInv, SeenInv
<1>14. Allowance' = Allowance /\ Allowance \in Nat
  BY <1>1, Allowances
<1>15. ASSUME NEW m \in ClusterNodes PROVE LabelInv(m)'
  <2>1. Held(m)' => Held(m)
    BY <1>1, <1>2, <1>4, <1>5, <1>10 DEF Held
  <2>2. Pending(m) <=> Pending(m)'
    BY <1>1, <1>4, <1>5 DEF Pending
  <2>3. ~report[m].present => report'[m].accepted = "none"
    BY <1>1, <1>2, <1>10 DEF NodeInv, LabelInv
  <2>. QED
    BY <1>1, <1>4, <1>5, <1>11, <1>14, <2>1, <2>2, <2>3 DEF NodeInv, LabelInv, RecentBy
<1>. QED
  BY <1>12, <1>13, <1>15 DEF NodeInv

LEMMA NodeTickKeeps ==
  ASSUME NodeInv, Tick
  PROVE  NodeInv'
<1>1. /\ controller.step = "idle" /\ nodeClock < MaxNodeTime
      /\ nodeClock - last < Interval /\ nodeClock' = nodeClock + 1
      /\ UNCHANGED <<node, report, controller, last, failedPasses>>
  BY DEF Tick
<1>2. /\ nodeClock \in Nat /\ last \in Nat /\ MaxNodeTime \in Nat /\ Interval \in Nat
      /\ Allowance' = Allowance
  BY <1>1, NodeParts, Allowances, NodeAssumption
<1>3. nodeClock' \in 0..MaxNodeTime /\ last <= nodeClock' /\ nodeClock' <= last + Interval
  BY <1>1, <1>2 DEF NodeInv, ControllerInv
<1>4. NodeType' /\ ControllerInv' /\ SeenInv'
  BY <1>1, <1>3 DEF NodeInv, NodeType, ControllerInv, SeenInv
<1>5. ASSUME NEW n \in ClusterNodes PROVE LabelInv(n)'
  <2>1. report[n].observed <= nodeClock'
    BY <1>1, <1>2, NodeParts DEF NodeInv, LabelInv
  <2>. QED
    BY <1>1, <1>2, <2>1 DEF NodeInv, LabelInv, Held, RecentBy
<1>. QED
  BY <1>4, <1>5 DEF NodeInv

LEMMA NodeNextKeeps == NodeInv /\ [NodeNext]_nodeVars => NodeInv'
<1>. SUFFICES ASSUME NodeInv, [NodeNext]_nodeVars PROVE NodeInv'
  OBVIOUS
<1>1. CASE UNCHANGED nodeVars
  <2>1. UNCHANGED <<nodeClock, node, report, controller, last, failedPasses>>
    BY <1>1 DEF nodeVars
  <2>2. \A n \in ClusterNodes : LabelInv(n) <=> LabelInv(n)'
    BY <2>1 DEF LabelInv, Held, Pending, RecentBy, Allowance
  <2>. QED
    BY <2>1, <2>2 DEF NodeInv, NodeType, ControllerInv, SeenInv
<1>2. CASE \E n \in ClusterNodes : \/ ReportOnce(n) \/ DeleteReport(n)
                                   \/ NodeReadinessChanges(n) \/ NodeLeavesOrJoins(n)
  BY <1>2, ReportOnceKeeps, DeleteReportKeeps, NodeReadinessKeeps, NodeLeavesOrJoinsKeeps
<1>. QED
  BY <1>1, <1>2, ReadReportsKeeps, ListNodesKeeps, LabelNodeKeeps, WriteStatusKeeps,
     EndPassKeeps, PassFailsKeeps, NodeTickKeeps DEF NodeNext

(***************************************************************************)
(* For any number of nodes, any interval and any age of a stale report: a  *)
(* label that says qualified, on a node whose report the controller has    *)
(* judged, rests on a report that was fresh, and a node that was ready,    *)
(* one interval ago, plus one interval for every pass that failed.         *)
(***************************************************************************)
THEOREM LabelsAreRecent == NodeStatusSpec => []QualifiedIsRecent
<1>1. NodeInv => QualifiedIsRecent
  <2>. SUFFICES ASSUME NodeInv, NEW n \in ClusterNodes,
                       node[n].qualified = "true", report[n].accepted # "none"
                PROVE  LET slack == Interval * (1 + failedPasses)
                       IN /\ nodeClock - report[n].observed <= Stale + slack
                          /\ ~node[n].ready => nodeClock - node[n].since <= slack
    BY DEF QualifiedIsRecent
  <2>1. /\ Allowance \in Nat /\ Interval \in Nat /\ Stale \in Nat
        /\ nodeClock \in Nat /\ last \in Nat /\ failedPasses \in Nat
        /\ report[n].observed \in Nat /\ node[n].since \in Nat
    BY Allowances, NodeParts, NodeAssumption DEF NodeInv, NodeType
  <2>2. Interval * (1 + failedPasses) = Allowance + Interval
    BY <2>1 DEF Allowance
  <2>3. Held(n) /\ report[n].present
    BY DEF Held, NodeInv, LabelInv
  <2>4. CASE controller.step = "idle"
    <3>1. /\ last - report[n].observed <= Stale + Allowance
          /\ ~node[n].ready => last - node[n].since <= Allowance
      BY <2>3, <2>4 DEF NodeInv, LabelInv, RecentBy
    <3>2. nodeClock <= last + Interval
      BY DEF NodeInv, ControllerInv
    <3>. QED
      BY <2>1, <2>2, <3>1, <3>2
  <2>5. CASE controller.step # "idle"
    <3>1. RecentBy(n, Allowance) \/ RecentBy(n, Allowance + Interval)
      BY <2>3 DEF NodeInv, LabelInv
    <3>2. /\ last - report[n].observed <= Stale + (Allowance + Interval)
          /\ ~node[n].ready => last - node[n].since <= Allowance + Interval
      BY <2>1, <2>3, <3>1 DEF RecentBy
    <3>3. nodeClock = last
      BY <2>5 DEF NodeInv, ControllerInv
    <3>. QED
      BY <2>1, <2>2, <3>2, <3>3
  <2>. QED
    BY <2>4, <2>5
<1>. QED
  BY <1>1, NodeInitInv, NodeNextKeeps, PTL DEF NodeStatusSpec

-------------------------------------------------------------------------------
(***************************************************************************)
(* Fleet rollout: what a status of the state file says of the edge itself, *)
(* at every step of the worker threads and across runs that died.          *)
(***************************************************************************)
(* The edge has received the bundle of its own hardware. *)
HasBundle(e) == edgeHost[e].bundle = Hardware[e]

Installed(e) ==
    /\ edgeHost[e].installed = "complete"
    /\ HasBundle(e)
    /\ edgeHost[e].driver = "prepared"

EdgeInv(e) ==
    /\ edge[e].group \in {NoGroup, Hardware[e]}
    /\ edgeHost[e].driver = "prepared" => edgeHost[e].booted
    /\ edge[e].status = "verified" => stage[e] = "finished" /\ Installed(e)
    /\ phase = "deploying" /\ stage[e] = "waiting" => edge[e].group # NoGroup
    /\ stage[e] = "transfer" => edge[e].group # NoGroup
    /\ stage[e] \notin {"waiting", "finished", "transfer"} => HasBundle(e)
    /\ stage[e] = "verify" => Installed(e)

FleetInv == FleetType /\ \A e \in Edges : EdgeInv(e)

EdgeRow == [status : Status, group : Groups \cup {NoGroup}]

LEMMA FleetInitInv == FleetInit => FleetInv
<1>. SUFFICES ASSUME FleetInit PROVE FleetInv
  OBVIOUS
<1>1. /\ edge \in [Edges -> [status : Status, group : Groups \cup {NoGroup}]]
      /\ edgeHost \in [Edges -> EdgeHost]
      /\ stage \in [Edges -> DeployStage]
  BY DEF FleetInit, Status, EdgeHost, DeployStage
<1>2. group \in [Groups -> {"pending", "bundle_ready", "bundle_failed"}]
      /\ directory \in [Groups -> {"absent", "partial", "unverified", "complete"}]
      /\ left \subseteq Groups /\ phase \in {"idle", "probing", "building", "deploying"}
      /\ fleetFaults \in 0..MaxFleetFaults
  BY FleetAssumption DEF FleetInit
<1>3. \A e \in Edges : EdgeInv(e)
  BY DEF FleetInit, EdgeInv, Installed, HasBundle
<1>. QED
  BY <1>1, <1>2, <1>3 DEF FleetInv, FleetType

(* A step of one worker thread, and what it has to show of the edge. *)
EdgeBecomes(e, st, rec, h) ==
    /\ stage' = [stage EXCEPT ![e] = st]
    /\ edge' = [edge EXCEPT ![e] = rec]
    /\ edgeHost' = [edgeHost EXCEPT ![e] = h]
    /\ UNCHANGED <<phase, left, group, directory>>
    /\ fleetFaults' = fleetFaults \/ FleetFault

HostFits(e, st, h) ==
    /\ h \in EdgeHost
    /\ h.driver = "prepared" => h.booted
    /\ st \notin {"finished", "transfer"} => h.bundle = Hardware[e]
    /\ st = "verify" => h.installed = "complete" /\ h.driver = "prepared"

RowFits(e, st, rec, h) ==
    /\ rec \in EdgeRow
    /\ rec.group \in {NoGroup, Hardware[e]}
    /\ st = "transfer" => rec.group # NoGroup
    /\ rec.status = "verified" =>
         /\ st = "finished" /\ h.installed = "complete"
         /\ h.bundle = Hardware[e] /\ h.driver = "prepared"

LEMMA OneEdge ==
  ASSUME FleetInv, NEW e \in Edges, NEW st \in DeployStage \ {"waiting"}, NEW rec, NEW h,
         EdgeBecomes(e, st, rec, h), HostFits(e, st, h), RowFits(e, st, rec, h)
  PROVE  FleetInv'
<1>1. /\ stage' \in [Edges -> DeployStage] /\ stage'[e] = st
      /\ edge' \in [Edges -> [status : Status, group : Groups \cup {NoGroup}]]
      /\ edge'[e] = rec
      /\ edgeHost' \in [Edges -> EdgeHost] /\ edgeHost'[e] = h
      /\ \A d \in Edges \ {e} : /\ stage'[d] = stage[d] /\ edge'[d] = edge[d]
                                /\ edgeHost'[d] = edgeHost[d]
  BY DEF FleetInv, FleetType, EdgeRow, EdgeBecomes, HostFits, RowFits
<1>2. fleetFaults' \in 0..MaxFleetFaults /\ UNCHANGED <<phase, left, group, directory>>
  BY FleetAssumption DEF EdgeBecomes, FleetFault, FleetInv, FleetType
<1>3. FleetType'
  BY <1>1, <1>2 DEF FleetInv, FleetType
<1>4. EdgeInv(e)'
  BY <1>1, <1>2 DEF EdgeInv, Installed, HasBundle, HostFits, RowFits
<1>5. ASSUME NEW d \in Edges \ {e} PROVE EdgeInv(d)'
  BY <1>1, <1>2 DEF FleetInv, EdgeInv, Installed, HasBundle
<1>. QED
  BY <1>3, <1>4, <1>5 DEF FleetInv

LEMMA SameEdge ==
  ASSUME FleetInv, NEW e \in Edges
  PROVE  /\ edge[e] \in EdgeRow /\ edge = [edge EXCEPT ![e] = edge[e]]
         /\ edgeHost[e] \in EdgeHost /\ edgeHost = [edgeHost EXCEPT ![e] = edgeHost[e]]
         /\ stage[e] \in DeployStage
         /\ edge[e].group \in Groups \cup {NoGroup}
         /\ edge[e].group \in {NoGroup, Hardware[e]}
         /\ edgeHost[e].driver = "prepared" => edgeHost[e].booted
         /\ stage[e] # "finished" => edge[e].status # "verified"
         /\ stage[e] \notin {"waiting", "finished", "transfer"} =>
              edgeHost[e].bundle = Hardware[e]
  BY DEF FleetInv, FleetType, EdgeRow, EdgeInv, HasBundle

(* The state file's entry with another status. *)
LEMMA RowWith ==
  ASSUME FleetInv, NEW e \in Edges, NEW s \in Status, UpdateEdge(e, s)
  PROVE  \E rec \in EdgeRow : /\ edge' = [edge EXCEPT ![e] = rec]
                              /\ rec.status = s /\ rec.group = edge[e].group
<1>. DEFINE rec == [edge[e] EXCEPT !.status = s]
<1>1. edge[e] \in EdgeRow
  BY SameEdge
<1>2. rec \in EdgeRow /\ rec.status = s /\ rec.group = edge[e].group
  BY <1>1 DEF EdgeRow
<1>3. edge' = [edge EXCEPT ![e] = rec]
  BY DEF UpdateEdge
<1>. QED
  BY <1>2, <1>3

(* A step that does not verify the edge, on a host that fits. *)
LEMMA GoingOn ==
  ASSUME FleetInv, NEW e \in Edges, NEW s \in Status \ {"verified"},
         NEW st \in DeployStage \ {"waiting"}, NEW h,
         UpdateEdge(e, s), NextStage(e, st), edgeHost' = [edgeHost EXCEPT ![e] = h],
         HostFits(e, st, h), st = "transfer" => edge[e].group # NoGroup,
         UNCHANGED <<phase, left, group, directory>>,
         fleetFaults' = fleetFaults \/ FleetFault
  PROVE  FleetInv'
<1>1. PICK rec \in EdgeRow : /\ edge' = [edge EXCEPT ![e] = rec]
                             /\ rec.status = s /\ rec.group = edge[e].group
  BY RowWith
<1>2. EdgeBecomes(e, st, rec, h)
  BY <1>1 DEF EdgeBecomes, NextStage
<1>3. RowFits(e, st, rec, h)
  BY <1>1, SameEdge DEF RowFits
<1>. QED
  BY <1>2, <1>3, OneEdge

(* The thread ends with a failure; the host is as it was. *)
LEMMA FailingStep ==
  ASSUME FleetInv, NEW e \in Edges, NEW s \in Status \ {"verified"},
         UpdateEdge(e, s), NextStage(e, "finished"), UNCHANGED edgeHost,
         UNCHANGED <<phase, left, group, directory>>,
         fleetFaults' = fleetFaults \/ FleetFault
  PROVE  FleetInv'
<1>1. HostFits(e, "finished", edgeHost[e])
  BY SameEdge DEF HostFits
<1>2. "finished" \in DeployStage \ {"waiting"}
  BY DEF DeployStage
<1>3. edgeHost' = [edgeHost EXCEPT ![e] = edgeHost[e]]
  BY SameEdge
<1>. QED
  BY <1>1, <1>2, <1>3, GoingOn

LEMMA ProbeOneKeeps ==
  ASSUME FleetInv, NEW e \in Edges, ProbeOne(e)
  PROVE  FleetInv'
<1>1. stage' = [stage EXCEPT ![e] = "finished"] /\ stage[e] = "waiting"
      /\ "finished" \in DeployStage /\ UNCHANGED <<phase, left, group, directory, edgeHost>>
  BY DEF ProbeOne, NextStage, DeployStage
<1>2. CASE UNCHANGED <<edge, fleetFaults>>
  <2>1. EdgeBecomes(e, "finished", edge[e], edgeHost[e])
    BY <1>1, <1>2, SameEdge DEF EdgeBecomes
  <2>2. /\ HostFits(e, "finished", edgeHost[e])
        /\ RowFits(e, "finished", edge[e], edgeHost[e])
    BY <1>1, SameEdge DEF HostFits, RowFits
  <2>. QED
    BY <1>1, <2>1, <2>2, OneEdge
<1>3. CASE /\ edge' = [edge EXCEPT ![e] = [status |-> "grouped", group |-> Hardware[e]]]
           /\ UNCHANGED fleetFaults
  <2>1. PICK rec : rec = [status |-> "grouped", group |-> Hardware[e]]
    OBVIOUS
  <2>2. rec \in EdgeRow /\ rec.status = "grouped" /\ rec.group = Hardware[e]
    BY <2>1, FleetAssumption DEF EdgeRow, Status
  <2>3. EdgeBecomes(e, "finished", rec, edgeHost[e])
    BY <1>1, <1>3, <2>1, SameEdge DEF EdgeBecomes
  <2>4. HostFits(e, "finished", edgeHost[e]) /\ RowFits(e, "finished", rec, edgeHost[e])
    BY <2>2, SameEdge DEF HostFits, RowFits
  <2>. QED
    BY <1>1, <2>3, <2>4, OneEdge
<1>4. CASE FleetFault /\ UpdateEdge(e, ProbeFailure)
  BY <1>1, <1>4, FailingStep DEF ProbeFailure, Status, ProbeOne
<1>. QED
  BY <1>2, <1>3, <1>4 DEF ProbeOne

LEMMA BeginDeployKeeps ==
  ASSUME FleetInv, NEW e \in Edges, BeginDeploy(e)
  PROVE  FleetInv'
<1>1. phase = "deploying" /\ stage[e] = "waiting"
      /\ UNCHANGED <<phase, left, group, directory, edgeHost, fleetFaults>>
  BY DEF BeginDeploy, Deploying
<1>2. edge[e].group # NoGroup
  BY <1>1 DEF FleetInv, EdgeInv
<1>3. CASE UpdateEdge(e, "transferring") /\ NextStage(e, "transfer")
  <2>1. HostFits(e, "transfer", edgeHost[e])
        /\ edgeHost' = [edgeHost EXCEPT ![e] = edgeHost[e]]
    BY <1>1, SameEdge DEF HostFits
  <2>2. "transferring" \in Status \ {"verified"} /\ "transfer" \in DeployStage \ {"waiting"}
    BY DEF Status, DeployStage
  <2>. QED
    BY <1>1, <1>2, <1>3, <2>1, <2>2, GoingOn
<1>4. CASE UpdateEdge(e, "bundle_failed") /\ NextStage(e, "finished")
  BY <1>1, <1>4, FailingStep DEF Status
<1>. QED
  BY <1>3, <1>4 DEF BeginDeploy

LEMMA TransferKeeps ==
  ASSUME FleetInv, NEW e \in Edges, Transfer(e)
  PROVE  FleetInv'
<1>1. stage[e] = "transfer" /\ UNCHANGED <<phase, left, group, directory>>
  BY DEF Transfer, Deploying
<1>2. edge[e].group = Hardware[e] /\ Hardware[e] \in Groups
  BY <1>1, SameEdge, FleetAssumption DEF FleetInv, EdgeInv
<1>3. CASE /\ edgeHost' = [edgeHost EXCEPT ![e].bundle = edge[e].group]
           /\ UpdateEdge(e, "transferred") /\ NextStage(e, "readState")
           /\ UNCHANGED fleetFaults
  <2>1. PICK h : h = [edgeHost[e] EXCEPT !.bundle = edge[e].group]
    OBVIOUS
  <2>2. /\ h \in EdgeHost /\ h.bundle = Hardware[e]
        /\ h.driver = edgeHost[e].driver /\ h.booted = edgeHost[e].booted
    BY <1>2, <2>1, SameEdge DEF EdgeHost
  <2>3. edgeHost' = [edgeHost EXCEPT ![e] = h]
    BY <1>3, <2>1
  <2>4. "transferred" \in Status \ {"verified"} /\ "readState" \in DeployStage \ {"waiting"}
    BY DEF Status, DeployStage
  <2>5. HostFits(e, "readState", h)
    BY <2>2, SameEdge DEF HostFits
  <2>. QED
    BY <1>1, <1>3, <2>3, <2>4, <2>5, GoingOn
<1>4. CASE FailEdge(e, "transfer_failed")
  BY <1>1, <1>4, FailingStep DEF FailEdge, Status
<1>. QED
  BY <1>3, <1>4 DEF Transfer

LEMMA ReadPrepareStateKeeps ==
  ASSUME FleetInv, NEW e \in Edges, ReadPrepareState(e)
  PROVE  FleetInv'
<1>1. stage[e] = "readState" /\ UNCHANGED <<phase, left, group, directory, edgeHost>>
      /\ (fleetFaults' = fleetFaults \/ FleetFault)
  BY DEF ReadPrepareState, Deploying
<1>2. PICK st \in {"prepare", "pendingReboot", "install"} : NextStage(e, st)
  BY DEF ReadPrepareState
<1>3. PICK s : s = IF stage'[e] = "install" THEN "installing" ELSE edge[e].status
  OBVIOUS
<1>4. UpdateEdge(e, s) /\ s \in Status \ {"verified"} /\ st \in DeployStage
  BY <1>1, <1>3, SameEdge DEF ReadPrepareState, Status, EdgeRow, DeployStage
<1>5. /\ HostFits(e, st, edgeHost[e]) /\ st # "waiting" /\ st # "transfer"
      /\ edgeHost' = [edgeHost EXCEPT ![e] = edgeHost[e]]
  BY <1>1, SameEdge DEF HostFits
<1>. QED
  BY <1>1, <1>2, <1>4, <1>5, GoingOn

(* The preparation changed the host, whether its state is read or not. *)
LEMMA PreparationEnds ==
  ASSUME FleetInv, NEW e \in Edges, NEW s \in Status \ {"verified"},
         NEW st \in DeployStage \ {"waiting"}, st \notin {"transfer", "verify"},
         NEW h \in EdgeHost, h.bundle = Hardware[e], h.driver = "prepared" => h.booted,
         edgeHost' = [edgeHost EXCEPT ![e] = h], PrepareEnds(e, s, st),
         UNCHANGED <<phase, left, group, directory>>
  PROVE  FleetInv'
<1>1. HostFits(e, st, h) /\ HostFits(e, "finished", h)
  BY DEF HostFits
<1>2. CASE UpdateEdge(e, s) /\ NextStage(e, st) /\ UNCHANGED fleetFaults
  BY <1>1, <1>2, GoingOn
<1>3. CASE FleetFault /\ UpdateEdge(e, "prepare_failed") /\ NextStage(e, "finished")
  <2>1. "prepare_failed" \in Status \ {"verified"} /\ "finished" \in DeployStage \ {"waiting"}
    BY DEF Status, DeployStage
  <2>. QED
    BY <1>1, <1>3, <2>1, GoingOn
<1>. QED
  BY <1>2, <1>3 DEF PrepareEnds

LEMMA PrepareKeeps ==
  ASSUME FleetInv, NEW e \in Edges, Prepare(e)
  PROVE  FleetInv'
<1>1. stage[e] = "prepare" /\ UNCHANGED <<phase, left, group, directory>>
  BY DEF Prepare, Deploying
<1>2. CASE /\ edgeHost' = [edgeHost EXCEPT ![e].driver = "reboot_required",
                                           ![e].booted = FALSE]
           /\ PrepareEnds(e, edge[e].status, "reboot")
  <2>1. PICK h : h = [edgeHost[e] EXCEPT !.driver = "reboot_required", !.booted = FALSE]
    OBVIOUS
  <2>2. h \in EdgeHost /\ h.bundle = edgeHost[e].bundle /\ h.driver = "reboot_required"
    BY <2>1, SameEdge DEF EdgeHost
  <2>3. edgeHost' = [edgeHost EXCEPT ![e] = h]
    BY <1>2, <2>1 DEF FleetInv, FleetType, EdgeHost
  <2>4. edge[e].status \in Status \ {"verified"} /\ "reboot" \in DeployStage \ {"waiting"}
    BY <1>1, SameEdge DEF EdgeRow, DeployStage
  <2>5. h.bundle = Hardware[e]
    BY <1>1, <2>2, SameEdge
  <2>6. h.driver = "prepared" => h.booted
    BY <2>2
  <2>. QED
    BY <1>1, <1>2, <2>2, <2>3, <2>4, <2>5, <2>6, PreparationEnds
<1>3. CASE /\ edgeHost[e].driver = "prepared" \/ edgeHost[e].booted
           /\ edgeHost' = [edgeHost EXCEPT ![e].driver = "prepared"]
           /\ PrepareEnds(e, "installing", "install")
  <2>1. PICK h : h = [edgeHost[e] EXCEPT !.driver = "prepared"]
    OBVIOUS
  <2>2. h \in EdgeHost /\ h.bundle = edgeHost[e].bundle /\ h.booted = edgeHost[e].booted
    BY <2>1, SameEdge DEF EdgeHost
  <2>3. edgeHost' = [edgeHost EXCEPT ![e] = h]
    BY <1>3, <2>1
  <2>4. "installing" \in Status \ {"verified"} /\ "install" \in DeployStage \ {"waiting"}
    BY DEF Status, DeployStage
  <2>5. h.bundle = Hardware[e] /\ h.booted
    BY <1>1, <1>3, <2>2, SameEdge
  <2>. QED
    BY <1>1, <1>3, <2>2, <2>3, <2>4, <2>5, PreparationEnds
<1>4. CASE FailEdge(e, "prepare_failed")
  BY <1>1, <1>4, FailingStep DEF FailEdge, Status
<1>5. CASE /\ UpdateEdge(e, "prepare_failed") /\ NextStage(e, "finished")
           /\ UNCHANGED <<edgeHost, fleetFaults>>
  BY <1>1, <1>5, FailingStep DEF Status
<1>. QED
  BY <1>2, <1>3, <1>4, <1>5 DEF Prepare

LEMMA RebootEdgeKeeps ==
  ASSUME FleetInv, NEW e \in Edges, RebootEdge(e)
  PROVE  FleetInv'
<1>1. /\ stage[e] \in {"reboot", "pendingReboot"} /\ UNCHANGED <<phase, left, group, directory>>
      /\ UpdateEdge(e, "reboot_required")
      /\ fleetFaults' = fleetFaults \/ FleetFault
      /\ "reboot_required" \in Status \ {"verified"}
  BY DEF RebootEdge, Deploying, Status
<1>2. PICK st \in {"offline", "pendingOffline"} : NextStage(e, st)
  BY DEF RebootEdge
<1>3. st \in DeployStage \ {"waiting"} /\ st \notin {"finished", "transfer", "verify"}
  BY DEF DeployStage
<1>4. CASE edgeHost' = [edgeHost EXCEPT ![e].booted = TRUE]
  <2>1. PICK h : h = [edgeHost[e] EXCEPT !.booted = TRUE]
    OBVIOUS
  <2>2. h \in EdgeHost /\ h.bundle = edgeHost[e].bundle /\ h.booted
    BY <2>1, SameEdge DEF EdgeHost
  <2>3. edgeHost' = [edgeHost EXCEPT ![e] = h]
    BY <1>4, <2>1
  <2>4. HostFits(e, st, h)
    BY <1>1, <1>3, <2>2, SameEdge DEF HostFits
  <2>. QED
    BY <1>1, <1>2, <1>3, <2>3, <2>4, GoingOn
<1>5. CASE UNCHANGED edgeHost
  <2>1. HostFits(e, st, edgeHost[e])
        /\ edgeHost' = [edgeHost EXCEPT ![e] = edgeHost[e]]
    BY <1>1, <1>3, <1>5, SameEdge DEF HostFits
  <2>. QED
    BY <1>1, <1>2, <1>3, <2>1, GoingOn
<1>. QED
  BY <1>4, <1>5 DEF RebootEdge

LEMMA BackOnlineKeeps ==
  ASSUME FleetInv, NEW e \in Edges, BackOnline(e)
  PROVE  FleetInv'
<1>1. /\ stage[e] \in {"offline", "pendingOffline"}
      /\ UNCHANGED <<phase, left, group, directory, edgeHost>>
      /\ fleetFaults' = fleetFaults \/ FleetFault
      /\ edgeHost' = [edgeHost EXCEPT ![e] = edgeHost[e]]
  BY SameEdge DEF BackOnline, Deploying
<1>2. CASE UpdateEdge(e, "installing") /\ NextStage(e, "install")
  <2>1. "installing" \in Status \ {"verified"} /\ "install" \in DeployStage \ {"waiting"}
    BY DEF Status, DeployStage
  <2>2. HostFits(e, "install", edgeHost[e])
    BY <1>1, SameEdge DEF HostFits
  <2>. QED
    BY <1>1, <1>2, <2>1, <2>2, GoingOn
<1>3. CASE NextStage(e, "prepare") /\ UNCHANGED edge
  <2>1. "prepare" \in DeployStage \ {"waiting"}
    BY DEF DeployStage
  <2>2. EdgeBecomes(e, "prepare", edge[e], edgeHost[e])
    BY <1>1, <1>3, SameEdge DEF EdgeBecomes, NextStage
  <2>3. HostFits(e, "prepare", edgeHost[e]) /\ RowFits(e, "prepare", edge[e], edgeHost[e])
    BY <1>1, SameEdge DEF HostFits, RowFits
  <2>. QED
    BY <2>1, <2>2, <2>3, OneEdge
<1>. QED
  BY <1>2, <1>3 DEF BackOnline

LEMMA RebootTimeoutKeeps ==
  ASSUME FleetInv, NEW e \in Edges, RebootTimeout(e)
  PROVE  FleetInv'
<1>1. /\ UNCHANGED <<phase, left, group, directory, edgeHost>>
      /\ UpdateEdge(e, "reboot_failed") /\ NextStage(e, "finished")
      /\ fleetFaults' = fleetFaults \/ FleetFault
      /\ "reboot_failed" \in Status \ {"verified"}
  BY DEF RebootTimeout, Status
<1>. QED
  BY <1>1, FailingStep

(* Only a complete installation leads to the verification. *)
LEMMA InstallKeeps ==
  ASSUME FleetInv, NEW e \in Edges, Install(e)
  PROVE  FleetInv'
<1>1. stage[e] = "install" /\ UNCHANGED <<phase, left, group, directory>>
  BY DEF Install, RunsInstaller, Deploying
<1>. DEFINE ready == edgeHost[e].driver = "prepared" \/ edgeHost[e].booted
<1>2. CASE /\ ready
           /\ edgeHost' = [edgeHost EXCEPT ![e].driver = "prepared",
                                           ![e].installed = "complete"]
           /\ NextStage(e, "verify") /\ UNCHANGED <<edge, fleetFaults>>
  <2>1. PICK h : h = [edgeHost[e] EXCEPT !.driver = "prepared", !.installed = "complete"]
    OBVIOUS
  <2>2. /\ h \in EdgeHost /\ h.bundle = edgeHost[e].bundle /\ h.driver = "prepared"
        /\ h.booted = edgeHost[e].booted /\ h.installed = "complete"
    BY <2>1, SameEdge DEF EdgeHost
  <2>3. edgeHost' = [edgeHost EXCEPT ![e] = h]
    BY <1>2, <2>1 DEF FleetInv, FleetType, EdgeHost
  <2>4. "verify" \in DeployStage \ {"waiting"}
    BY DEF DeployStage
  <2>5. EdgeBecomes(e, "verify", edge[e], h)
    BY <1>1, <1>2, <2>3, SameEdge DEF EdgeBecomes, NextStage
  <2>6. HostFits(e, "verify", h) /\ RowFits(e, "verify", edge[e], h)
    BY <1>1, <1>2, <2>2, SameEdge DEF HostFits, RowFits
  <2>. QED
    BY <2>4, <2>5, <2>6, OneEdge
<1>3. CASE /\ UpdateEdge(e, "install_failed") /\ NextStage(e, "finished")
           /\ UNCHANGED <<edgeHost, fleetFaults>>
  BY <1>1, <1>3, FailingStep DEF Status
<1>4. CASE /\ ready /\ FleetFault
           /\ edgeHost' = [edgeHost EXCEPT ![e].driver = "prepared",
                                           ![e].installed = "partial"]
           /\ UpdateEdge(e, "install_failed") /\ NextStage(e, "finished")
  <2>1. PICK h : h = [edgeHost[e] EXCEPT !.driver = "prepared", !.installed = "partial"]
    OBVIOUS
  <2>2. /\ h \in EdgeHost /\ h.bundle = edgeHost[e].bundle
        /\ h.booted = edgeHost[e].booted
    BY <2>1, SameEdge DEF EdgeHost
  <2>3. edgeHost' = [edgeHost EXCEPT ![e] = h]
    BY <1>4, <2>1 DEF FleetInv, FleetType, EdgeHost
  <2>4. "install_failed" \in Status \ {"verified"} /\ "finished" \in DeployStage \ {"waiting"}
    BY DEF Status, DeployStage
  <2>5. HostFits(e, "finished", h)
    BY <1>1, <1>4, <2>2, SameEdge DEF HostFits
  <2>. QED
    BY <1>1, <1>4, <2>3, <2>4, <2>5, GoingOn
<1>. QED
  BY <1>2, <1>3, <1>4 DEF Install, RunsInstaller

LEMMA VerifyKeeps ==
  ASSUME FleetInv, NEW e \in Edges, Verify(e)
  PROVE  FleetInv'
<1>1. stage[e] = "verify" /\ UNCHANGED <<phase, left, group, directory>>
  BY DEF Verify, Deploying
<1>2. CASE /\ UpdateEdge(e, "verified") /\ NextStage(e, "finished")
           /\ UNCHANGED <<edgeHost, fleetFaults>>
  <2>1. PICK rec \in EdgeRow : /\ edge' = [edge EXCEPT ![e] = rec]
                               /\ rec.status = "verified" /\ rec.group = edge[e].group
    BY <1>2, RowWith DEF Status
  <2>2. /\ edgeHost[e].installed = "complete" /\ edgeHost[e].bundle = Hardware[e]
        /\ edgeHost[e].driver = "prepared" /\ "finished" \in DeployStage \ {"waiting"}
    BY <1>1 DEF FleetInv, EdgeInv, Installed, HasBundle, DeployStage
  <2>3. EdgeBecomes(e, "finished", rec, edgeHost[e])
    BY <1>1, <1>2, <2>1, SameEdge DEF EdgeBecomes, NextStage
  <2>4. HostFits(e, "finished", edgeHost[e]) /\ RowFits(e, "finished", rec, edgeHost[e])
    BY <2>1, <2>2, SameEdge DEF HostFits, RowFits
  <2>. QED
    BY <2>2, <2>3, <2>4, OneEdge
<1>3. CASE FailEdge(e, "verify_failed")
  BY <1>1, <1>3, FailingStep DEF FailEdge, Status
<1>. QED
  BY <1>2, <1>3 DEF Verify

(* The controller's own steps look at every edge and change no host.       *)
LEMMA ControllerStep ==
  ASSUME FleetInv, UNCHANGED <<edge, edgeHost>>, fleetFaults' \in 0..MaxFleetFaults,
         left' \subseteq Groups, phase' \in {"idle", "probing", "building", "deploying"},
         group' \in [Groups -> {"pending", "bundle_ready", "bundle_failed"}],
         directory' \in [Groups -> {"absent", "partial", "unverified", "complete"}],
         stage' \in [Edges -> DeployStage],
         \A e \in Edges :
           \/ stage'[e] = stage[e] /\ phase' # "deploying"
           \/ stage'[e] = stage[e] /\ phase' = phase
           \/ stage'[e] = "finished"
           \/ /\ stage'[e] = "waiting" /\ edge[e].status # "verified"
              /\ phase' = "deploying" => edge[e].group # NoGroup
  PROVE  FleetInv'
<1>1. FleetType'
  BY DEF FleetInv, FleetType
<1>2. ASSUME NEW e \in Edges PROVE EdgeInv(e)'
  BY DEF FleetInv, EdgeInv, Installed, HasBundle
<1>. QED
  BY <1>1, <1>2 DEF FleetInv

LEMMA ControllerKeeps == FleetInv /\ Controller => FleetInv'
<1>. SUFFICES ASSUME FleetInv, Controller PROVE FleetInv'
  OBVIOUS
<1>. USE DEF FleetInv, FleetType
<1>1. CASE StartRun
  <2>1. stage' \in [Edges -> DeployStage] /\ phase' = "probing"
        /\ \A e \in Edges : \/ stage'[e] = "finished"
                            \/ stage'[e] = "waiting" /\ edge[e].status # "verified"
    BY <1>1 DEF StartRun, DeployStage
  <2>. QED
    BY <1>1, <2>1, ControllerStep DEF StartRun
<1>2. CASE ProbesDone
  BY <1>2, ControllerStep DEF ProbesDone
<1>3. CASE \E g \in Groups : BuildGroup(g)
  <2>1. PICK g \in Groups : BuildGroup(g)
    BY <1>3
  <2>2. /\ left' \subseteq Groups /\ fleetFaults' \in 0..MaxFleetFaults
        /\ UNCHANGED <<phase, stage, edge, edgeHost>>
    BY <2>1, FleetAssumption DEF BuildGroup, FleetFault
  <2>3. /\ group' \in [Groups -> {"pending", "bundle_ready", "bundle_failed"}]
        /\ directory' \in [Groups -> {"absent", "partial", "unverified", "complete"}]
    BY <2>1 DEF BuildGroup
  <2>. QED
    BY <2>2, <2>3, ControllerStep
<1>4. CASE GroupsBuilt
  <2>1. stage' \in [Edges -> DeployStage]
        /\ \A e \in Edges : \/ stage'[e] = "finished"
                            \/ /\ stage'[e] = "waiting" /\ edge[e].status # "verified"
                               /\ edge[e].group # NoGroup
    BY <1>4 DEF GroupsBuilt, Unfinished, DeployStage
  <2>. QED
    BY <1>4, <2>1, ControllerStep DEF GroupsBuilt
<1>5. CASE RunEnds
  BY <1>5, ControllerStep DEF RunEnds
<1>. QED
  BY <1>1, <1>2, <1>3, <1>4, <1>5 DEF Controller

LEMMA ControllerDiesKeeps == FleetInv /\ ControllerDies => FleetInv'
<1>. SUFFICES ASSUME FleetInv, ControllerDies PROVE FleetInv'
  OBVIOUS
<1>1. /\ UNCHANGED <<edge, edgeHost, group>> /\ phase' = "idle" /\ left' = {}
      /\ fleetFaults' \in 0..MaxFleetFaults
      /\ \A e \in Edges : stage'[e] = "finished"
      /\ stage' \in [Edges -> DeployStage]
  BY FleetAssumption DEF ControllerDies, FleetFault, FleetInv, FleetType, DeployStage
<1>2. directory' \in [Groups -> {"absent", "partial", "unverified", "complete"}]
  BY DEF ControllerDies, FleetInv, FleetType
<1>. QED
  BY <1>1, <1>2, ControllerStep DEF FleetInv, FleetType

LEMMA FleetNextKeeps == FleetInv /\ [FleetNext]_fleetVars => FleetInv'
<1>. SUFFICES ASSUME FleetInv, [FleetNext]_fleetVars PROVE FleetInv'
  OBVIOUS
<1>1. CASE UNCHANGED fleetVars
  BY <1>1 DEF fleetVars, FleetInv, FleetType, EdgeInv, Installed, HasBundle
<1>2. CASE \E e \in Edges : EdgeStep(e)
  BY <1>2, ProbeOneKeeps, BeginDeployKeeps, TransferKeeps, ReadPrepareStateKeeps,
     PrepareKeeps, RebootEdgeKeeps, BackOnlineKeeps, RebootTimeoutKeeps, InstallKeeps,
     VerifyKeeps DEF EdgeStep
<1>. QED
  BY <1>1, <1>2, ControllerKeeps, ControllerDiesKeeps DEF FleetNext

(***************************************************************************)
(* For any number of edges, groups, worker threads, failing commands and   *)
(* resumed runs, an edge that the fleet state file calls verified has a    *)
(* complete installation of the bundle of its own hardware, on a host that *)
(* was rebooted since its drivers were installed.                          *)
(***************************************************************************)
THEOREM VerifiedEdgesRun == FleetSpec => []VerifiedIsInstalled
<1>1. FleetInv => VerifiedIsInstalled
  BY DEF FleetInv, EdgeInv, Installed, HasBundle, VerifiedIsInstalled
<1>. QED
  BY <1>1, FleetInitInv, FleetNextKeeps, PTL DEF FleetSpec

-------------------------------------------------------------------------------
(***************************************************************************)
(* Sessions: visits and drives, for any events in any order.  A row's ends *)
(* are events that arrived, and an event arrives once.                     *)
(***************************************************************************)
SessionSpec == SessionInit /\ [][SessionNext]_sessionVars

SessionKey == {Payload[e].who : e \in SiteEvents}
                \cup {<<Payload[e].who, Payload[e].gate>> : e \in SiteEvents}

SessionRow ==
    [key : SessionKey, entry : SiteEvents \cup {0}, exit : SiteEvents \cup {0},
     start : Nat, end : Nat, status : {"open", "closed", "forced_closed"}]

Arrived == {arrivals[i].event : i \in DOMAIN arrivals}

(* A table of sessions whose ends are among the events seen. *)
Orderly(table, seen) ==
    /\ table \in Seq(SessionRow)
    /\ \A i \in DOMAIN table : table[i].status = "open" => table[i].exit = 0
    /\ \A i, j \in DOMAIN table :
         table[i].status = "open" /\ table[j].status = "open"
           /\ table[i].key = table[j].key => i = j
    /\ \A e \in SiteEvents : \A i, j \in Ends(table, e) : i = j
    /\ \A e \in SiteEvents : Ends(table, e) # {} => e \in seen

ForwardInTime(table) ==
    \A i \in DOMAIN table :
      table[i].entry # 0 /\ table[i].exit # 0 => table[i].start <= table[i].end

ExitsKept ==
    \A e \in Arrived :
      Payload[e].role = "exit" => Ends(visits, e) \cup Ends(drives, e) # {}

VisitInv ==
    /\ now \in Nat
    /\ arrivals \in Seq([event : SiteEvents, at : Nat])
    /\ Orderly(visits, Arrived) /\ Orderly(drives, Arrived)
    /\ ForwardInTime(visits)
    /\ ExitsKept

(* What the table of a session keeps of another. *)
EndsKept(table, next) == \A e \in SiteEvents : Ends(table, e) # {} => Ends(next, e) # {}

-------------------------------------------------------------------------------
LEMMA SessionInitInv == SessionInit => VisitInv
<1> SUFFICES ASSUME SessionInit PROVE VisitInv  OBVIOUS
<1>1. now \in Nat /\ arrivals = <<>> /\ visits = <<>> /\ drives = <<>>
  BY DEF SessionInit
<1>2. Arrived = {}
  BY <1>1 DEF Arrived
<1>3. \A e : Ends(<<>>, e) = {}
  BY DEF Ends
<1>4. Orderly(<<>>, {})
  BY <1>3 DEF Orderly
<1>5. ForwardInTime(visits) /\ ExitsKept
  BY <1>1, <1>2 DEF ForwardInTime, ExitsKept
<1>6. arrivals \in Seq([event : SiteEvents, at : Nat])
  BY <1>1
<1> QED  BY <1>1, <1>2, <1>4, <1>5, <1>6 DEF VisitInv

LEMMA AppendedRow ==
  ASSUME NEW table, NEW seen, Orderly(table, seen), NEW e \in SiteEvents, e \notin seen,
         NEW rec \in SessionRow, {rec.entry, rec.exit} \subseteq {0, e},
         rec.status = "open" => rec.exit = 0 /\ OpenIn(table, rec.key) = {}
  PROVE  /\ Orderly(Append(table, rec), seen \cup {e})
         /\ EndsKept(table, Append(table, rec))
         /\ e \in {rec.entry, rec.exit} => Ends(Append(table, rec), e) # {}
         /\ ForwardInTime(table) /\ (rec.entry = 0 \/ rec.exit = 0)
              => ForwardInTime(Append(table, rec))
<1> DEFINE next == Append(table, rec)
           n == Len(table) + 1
<1>1. table \in Seq(SessionRow)
  BY DEF Orderly
<1>2. /\ next \in Seq(SessionRow) /\ DOMAIN next = DOMAIN table \cup {n}
      /\ n \notin DOMAIN table /\ next[n] = rec
      /\ \A i \in DOMAIN table : next[i] = table[i]
  BY <1>1
<1> HIDE DEF next, n
<1>3. 0 \notin SiteEvents
  BY SessionAssumption
<1>4. \A f \in SiteEvents : f # e => Ends(next, f) = Ends(table, f)
  BY <1>2, <1>3 DEF Ends
<1>5. Ends(table, e) = {}
  BY DEF Orderly
<1>6. Ends(next, e) \subseteq {n}
  BY <1>2, <1>5 DEF Ends
<1>7. e \in {rec.entry, rec.exit} => n \in Ends(next, e)
  BY <1>2 DEF Ends
<1>8. Orderly(next, seen \cup {e})
  <2>1. \A i \in DOMAIN next : next[i].status = "open" => next[i].exit = 0
    BY <1>2 DEF Orderly
  <2>2. \A i, j \in DOMAIN next :
          next[i].status = "open" /\ next[j].status = "open" /\ next[i].key = next[j].key
            => i = j
    BY <1>2 DEF Orderly, OpenIn
  <2>3. \A f \in SiteEvents : \A i, j \in Ends(next, f) : i = j
    BY <1>4, <1>6 DEF Orderly
  <2>4. \A f \in SiteEvents : Ends(next, f) # {} => f \in seen \cup {e}
    BY <1>4 DEF Orderly
  <2> QED  BY <1>2, <2>1, <2>2, <2>3, <2>4 DEF Orderly
<1>9. EndsKept(table, next)
  BY <1>4, <1>5 DEF EndsKept
<1>10. ForwardInTime(table) /\ (rec.entry = 0 \/ rec.exit = 0) => ForwardInTime(next)
  BY <1>2 DEF ForwardInTime
<1> QED  BY <1>7, <1>8, <1>9, <1>10 DEF next

(* A row whose exit and status change. *)
LEMMA ClosedRow ==
  ASSUME NEW table, NEW seen, Orderly(table, seen), NEW e \in SiteEvents, e \notin seen,
         NEW i \in DOMAIN table, table[i].status = "open", NEW rec \in SessionRow,
         rec.entry = table[i].entry, rec.exit = e, rec.status = "closed"
  PROVE  LET next == [table EXCEPT ![i] = rec]
         IN /\ Orderly(next, seen \cup {e})
            /\ EndsKept(table, next)
            /\ Ends(next, e) # {}
            /\ ForwardInTime(table) /\ rec.start <= rec.end => ForwardInTime(next)
<1> DEFINE next == [table EXCEPT ![i] = rec]
<1>1. table \in Seq(SessionRow)
  BY DEF Orderly
<1>2. /\ next \in Seq(SessionRow) /\ DOMAIN next = DOMAIN table /\ next[i] = rec
      /\ \A j \in DOMAIN table \ {i} : next[j] = table[j]
  BY <1>1
<1> HIDE DEF next
<1>3. 0 \notin SiteEvents /\ table[i].exit = 0
  BY SessionAssumption DEF Orderly
<1>4. \A f \in SiteEvents : f # e => Ends(next, f) = Ends(table, f)
  BY <1>2, <1>3 DEF Ends
<1>5. Ends(table, e) = {}
  BY DEF Orderly
<1>6. Ends(next, e) = {i}
  BY <1>2, <1>5 DEF Ends
<1>7. Orderly(next, seen \cup {e})
  <2>1. \A j \in DOMAIN next : next[j].status = "open" => next[j].exit = 0
    BY <1>2 DEF Orderly
  <2>2. \A j, k \in DOMAIN next :
          next[j].status = "open" /\ next[k].status = "open" /\ next[j].key = next[k].key
            => j = k
    BY <1>2 DEF Orderly
  <2>3. \A f \in SiteEvents : \A j, k \in Ends(next, f) : j = k
    BY <1>4, <1>6 DEF Orderly
  <2>4. \A f \in SiteEvents : Ends(next, f) # {} => f \in seen \cup {e}
    BY <1>4 DEF Orderly
  <2> QED  BY <1>2, <2>1, <2>2, <2>3, <2>4 DEF Orderly
<1>8. EndsKept(table, next)
  BY <1>4, <1>5 DEF EndsKept
<1>9. ForwardInTime(table) /\ rec.start <= rec.end => ForwardInTime(next)
  BY <1>2 DEF ForwardInTime
<1> QED  BY <1>6, <1>7, <1>8, <1>9 DEF next

LEMMA ObservedTyped == \A e \in SiteEvents : now \in Nat => ObservedAt(e) \in Nat
  BY SessionAssumption DEF ObservedAt

LEMMA ArrivedTyped == VisitInv => Arrived \subseteq SiteEvents
<1> SUFFICES ASSUME VisitInv PROVE Arrived \subseteq SiteEvents  OBVIOUS
<1> DEFINE Arrival == [event : SiteEvents, at : Nat]
<1>1. \A i \in DOMAIN arrivals : arrivals[i] \in Arrival
  <2>1. arrivals \in Seq(Arrival)
    BY DEF VisitInv
  <2> HIDE DEF Arrival
  <2> QED  BY <2>1
<1>2. \A i \in DOMAIN arrivals : arrivals[i].event \in SiteEvents
  BY <1>1
<1> QED  BY <1>2 DEF Arrived

LEMMA EnterKeeps ==
  ASSUME NEW table, NEW seen, Orderly(table, seen), NEW e \in SiteEvents, e \notin seen,
         NEW key \in SessionKey, now \in Nat
  PROVE  /\ Orderly(Enter(table, key, e), seen \cup {e})
         /\ EndsKept(table, Enter(table, key, e))
         /\ ForwardInTime(table) => ForwardInTime(Enter(table, key, e))
<1>1. CASE OpenIn(table, key) # {}
  <2>1. Enter(table, key, e) = table
    BY <1>1 DEF Enter
  <2> QED  BY <2>1 DEF Orderly, EndsKept
<1>2. CASE OpenIn(table, key) = {}
  <2>1. PICK rec : rec = [key |-> key, entry |-> e, exit |-> 0,
                          start |-> ObservedAt(e), end |-> 0, status |-> "open"]
    OBVIOUS
  <2>2. /\ rec \in SessionRow /\ rec.entry = e /\ rec.exit = 0 /\ rec.key = key
    BY <2>1, ObservedTyped DEF SessionRow
  <2>3. Enter(table, key, e) = Append(table, rec)
    BY <1>2, <2>1 DEF Enter
  <2>4. /\ {rec.entry, rec.exit} \subseteq {0, e}
        /\ rec.status = "open" => rec.exit = 0 /\ OpenIn(table, rec.key) = {}
    BY <1>2, <2>2
  <2> HIDE DEF SessionRow
  <2>5. /\ Orderly(Append(table, rec), seen \cup {e})
        /\ EndsKept(table, Append(table, rec))
        /\ ForwardInTime(table) => ForwardInTime(Append(table, rec))
    BY <2>2, <2>4, AppendedRow
  <2> QED  BY <2>3, <2>5
<1> QED  BY <1>1, <1>2

LEMMA OrphanKeeps ==
  ASSUME NEW table, NEW seen, Orderly(table, seen), NEW e \in SiteEvents, e \notin seen,
         NEW key \in SessionKey, now \in Nat
  PROVE  LET next == OrphanExit(table, key, e)
         IN /\ Orderly(next, seen \cup {e}) /\ EndsKept(table, next)
            /\ Ends(next, e) # {}
            /\ ForwardInTime(table) => ForwardInTime(next)
<1>1. PICK rec : rec = [key |-> key, entry |-> 0, exit |-> e,
                        start |-> 0, end |-> ObservedAt(e), status |-> "closed"]
  OBVIOUS
<1>2. /\ rec \in SessionRow /\ rec.entry = 0 /\ rec.exit = e /\ rec.status = "closed"
  BY <1>1, ObservedTyped DEF SessionRow
<1>3. OrphanExit(table, key, e) = Append(table, rec)
  BY <1>1 DEF OrphanExit
<1>4. {rec.entry, rec.exit} \subseteq {0, e} /\ e \in {rec.entry, rec.exit}
      /\ (rec.status = "open" => rec.exit = 0 /\ OpenIn(table, rec.key) = {})
  BY <1>2
<1>5. /\ Orderly(Append(table, rec), seen \cup {e})
      /\ EndsKept(table, Append(table, rec)) /\ Ends(Append(table, rec), e) # {}
      /\ ForwardInTime(table) => ForwardInTime(Append(table, rec))
  BY <1>2, <1>4, AppendedRow
<1> QED  BY <1>3, <1>5

(* At most one session of a key is open, so that the latest one is it. *)
LEMMA CloseKeeps ==
  ASSUME NEW table, NEW seen, Orderly(table, seen), NEW e \in SiteEvents, e \notin seen,
         NEW key, NEW open \in SUBSET OpenIn(table, key), open # {}, now \in Nat
  PROVE  LET next == Close(table, Max(open), e)
         IN /\ Orderly(next, seen \cup {e}) /\ EndsKept(table, next)
            /\ Ends(next, e) # {}
            /\ ForwardInTime(table)
                  /\ (\A i \in open : table[i].start <= ObservedAt(e))
                  => ForwardInTime(next)
<1>1. table \in Seq(SessionRow)
  BY DEF Orderly
<1>2. PICK i : i \in open
  OBVIOUS
<1>3. i \in DOMAIN table /\ table[i].status = "open" /\ i \in Int
  BY <1>1, <1>2 DEF OpenIn
<1>4. open = {i}
  BY <1>2 DEF OpenIn, Orderly
<1>5. Max(open) = i
  BY <1>3, <1>4 DEF Max
<1>6. PICK rec : rec = [table[i] EXCEPT !.exit = e, !.end = ObservedAt(e),
                                        !.status = "closed"]
  OBVIOUS
<1>7. table[i] \in SessionRow
  BY <1>1, <1>3
<1>8. /\ rec \in SessionRow /\ rec.entry = table[i].entry /\ rec.exit = e
      /\ rec.status = "closed" /\ rec.start = table[i].start /\ rec.end = ObservedAt(e)
  BY <1>6, <1>7, ObservedTyped DEF SessionRow
<1>9. Close(table, i, e) = [table EXCEPT ![i] = rec]
  BY <1>3, <1>6 DEF Close
<1>10. /\ Orderly([table EXCEPT ![i] = rec], seen \cup {e})
       /\ EndsKept(table, [table EXCEPT ![i] = rec])
       /\ Ends([table EXCEPT ![i] = rec], e) # {}
       /\ ForwardInTime(table) /\ rec.start <= rec.end
            => ForwardInTime([table EXCEPT ![i] = rec])
  BY <1>3, <1>8, ClosedRow
<1>11. (\A k \in open : table[k].start <= ObservedAt(e)) => rec.start <= rec.end
  BY <1>2, <1>8
<1> QED  BY <1>5, <1>9, <1>10, <1>11

LEMMA LeaveKeeps ==
  ASSUME NEW table, NEW seen, Orderly(table, seen), NEW e \in SiteEvents, e \notin seen,
         NEW key \in SessionKey, now \in Nat
  PROVE  LET next == Leave(table, key, e)
         IN /\ Orderly(next, seen \cup {e}) /\ EndsKept(table, next)
            /\ Ends(next, e) # {}
            /\ ForwardInTime(table) => ForwardInTime(next)
<1> DEFINE open == {i \in OpenIn(table, key) : table[i].start <= ObservedAt(e)}
<1>1. CASE open # {}
  <2>1. Leave(table, key, e) = Close(table, Max(open), e)
    BY <1>1 DEF Leave
  <2>2. open \in SUBSET OpenIn(table, key)
        /\ \A i \in open : table[i].start <= ObservedAt(e)
    OBVIOUS
  <2> HIDE DEF open
  <2>3. /\ Orderly(Close(table, Max(open), e), seen \cup {e})
        /\ EndsKept(table, Close(table, Max(open), e))
        /\ Ends(Close(table, Max(open), e), e) # {}
        /\ ForwardInTime(table) => ForwardInTime(Close(table, Max(open), e))
    BY <1>1, <2>2, CloseKeeps
  <2> QED  BY <2>1, <2>3
<1>2. CASE open = {}
  <2>1. Leave(table, key, e) = OrphanExit(table, key, e)
    BY <1>2 DEF Leave
  <2> QED  BY <2>1, OrphanKeeps
<1> QED  BY <1>1, <1>2

LEMMA DriveOutKeeps ==
  ASSUME NEW table, NEW seen, Orderly(table, seen), NEW e \in SiteEvents, e \notin seen,
         NEW key \in SessionKey, now \in Nat
  PROVE  LET next == DriveOut(table, key, e)
         IN /\ Orderly(next, seen \cup {e}) /\ EndsKept(table, next)
            /\ Ends(next, e) # {}
<1>1. CASE OpenIn(table, key) # {}
  <2>1. DriveOut(table, key, e) = Close(table, Max(OpenIn(table, key)), e)
    BY <1>1 DEF DriveOut
  <2> QED  BY <1>1, <2>1, CloseKeeps
<1>2. CASE OpenIn(table, key) = {}
  <2>1. DriveOut(table, key, e) = OrphanExit(table, key, e)
    BY <1>2 DEF DriveOut
  <2> QED  BY <2>1, OrphanKeeps
<1> QED  BY <1>1, <1>2

LEMMA SameTableKeeps ==
  ASSUME NEW table, NEW seen, NEW e, Orderly(table, seen)
  PROVE  Orderly(table, seen \cup {e}) /\ EndsKept(table, table)
  BY DEF Orderly, EndsKept

-------------------------------------------------------------------------------
(* The two tables after an event that was not seen before.                 *)
LEMMA AttendanceKeeps ==
  ASSUME VisitInv, NEW e \in SiteEvents, e \notin Arrived
  PROVE  /\ Orderly(Attendance(e), Arrived \cup {e}) /\ EndsKept(visits, Attendance(e))
         /\ ForwardInTime(Attendance(e))
         /\ Payload[e].kind = "face" /\ Payload[e].role = "exit" =>
              Ends(Attendance(e), e) # {}
<1>0. Orderly(visits, Arrived) /\ ForwardInTime(visits) /\ now \in Nat
  BY DEF VisitInv
<1>1. Payload[e].who \in SessionKey
  BY DEF SessionKey
<1>2. CASE Payload[e].kind # "face" \/ Payload[e].role = "none"
  <2>1. Attendance(e) = visits
    BY <1>2 DEF Attendance
  <2> QED  BY <1>0, <1>2, <2>1, SameTableKeeps
<1>3. CASE Payload[e].kind = "face" /\ Payload[e].role = "entry"
  <2>1. Attendance(e) = Enter(visits, Payload[e].who, e)
    BY <1>3 DEF Attendance
  <2> QED  BY <1>0, <1>1, <1>3, <2>1, EnterKeeps
<1>4. CASE Payload[e].kind = "face" /\ Payload[e].role = "exit"
  <2>1. Attendance(e) = Leave(visits, Payload[e].who, e)
    BY <1>4 DEF Attendance
  <2> QED  BY <1>0, <1>1, <2>1, LeaveKeeps
<1> QED  BY <1>2, <1>3, <1>4, SessionAssumption

LEMMA TrafficKeeps ==
  ASSUME VisitInv, NEW e \in SiteEvents, e \notin Arrived
  PROVE  /\ Orderly(Traffic(e), Arrived \cup {e}) /\ EndsKept(drives, Traffic(e))
         /\ Payload[e].kind = "plate" /\ Payload[e].role = "exit" =>
              Ends(Traffic(e), e) # {}
<1> DEFINE key == <<Payload[e].who, Payload[e].gate>>
<1>0. Orderly(drives, Arrived) /\ now \in Nat
  BY DEF VisitInv
<1>1. key \in SessionKey
  BY DEF SessionKey
<1>2. CASE Payload[e].kind # "plate" \/ Payload[e].role = "none"
  <2>1. Traffic(e) = drives
    BY <1>2 DEF Traffic
  <2> QED  BY <1>0, <1>2, <2>1, SameTableKeeps
<1>3. CASE Payload[e].kind = "plate" /\ Payload[e].role = "entry"
  <2>1. Traffic(e) = Enter(drives, key, e)
    BY <1>3 DEF Traffic
  <2> HIDE DEF key
  <2> QED  BY <1>0, <1>1, <1>3, <2>1, EnterKeeps
<1>4. CASE Payload[e].kind = "plate" /\ Payload[e].role = "exit"
  <2>1. Traffic(e) = DriveOut(drives, key, e)
    BY <1>4 DEF Traffic
  <2> HIDE DEF key
  <2> QED  BY <1>0, <1>1, <2>1, DriveOutKeeps
<1> QED  BY <1>2, <1>3, <1>4, SessionAssumption

LEMMA IngestKeeps ==
  ASSUME ~ReplayEvicted, VisitInv, NEW e \in SiteEvents, Ingest(e)
  PROVE  VisitInv'
<1>1. e \notin Arrived
  BY DEF Ingest, Arrived
<1>2. arrivals' = Append(arrivals, [event |-> e, at |-> ObservedAt(e)])
      /\ visits' = Attendance(e) /\ drives' = Traffic(e) /\ now' = now
  BY DEF Ingest
<1>3. arrivals \in Seq([event : SiteEvents, at : Nat]) /\ ObservedAt(e) \in Nat
  BY ObservedTyped DEF VisitInv
<1>4. arrivals' \in Seq([event : SiteEvents, at : Nat])
  BY <1>2, <1>3
<1>5. Arrived' = Arrived \cup {e}
  <2>0. PICK x : x = [event |-> e, at |-> ObservedAt(e)]
    OBVIOUS
  <2>1. x = [event |-> e, at |-> ObservedAt(e)] /\ x.event = e
    BY <2>0
  <2>2. /\ DOMAIN arrivals' = DOMAIN arrivals \cup {Len(arrivals) + 1}
        /\ arrivals'[Len(arrivals) + 1] = x
        /\ \A i \in DOMAIN arrivals : arrivals'[i] = arrivals[i]
    BY <1>2, <1>3, <2>1
  <2> QED  BY <2>1, <2>2 DEF Arrived
<1>6. Orderly(visits', Arrived') /\ Orderly(drives', Arrived') /\ ForwardInTime(visits')
  BY <1>1, <1>2, <1>5, AttendanceKeeps, TrafficKeeps
<1>7. ExitsKept'
  <2> SUFFICES ASSUME NEW f \in Arrived', Payload[f].role = "exit"
               PROVE  Ends(visits', f) \cup Ends(drives', f) # {}
    BY DEF ExitsKept, Ends
  <2>1. CASE f = e
    <3>1. Payload[e].kind \in {"face", "plate"}
      BY <2>1, SessionAssumption
    <3> QED  BY <1>1, <1>2, <2>1, <3>1, AttendanceKeeps, TrafficKeeps
  <2>2. CASE f # e
    <3>1. f \in Arrived
      BY <1>5, <2>2
    <3>2. f \in SiteEvents
      BY <3>1, ArrivedTyped
    <3>3. Ends(visits, f) \cup Ends(drives, f) # {}
      BY <3>1 DEF VisitInv, ExitsKept
    <3> QED
      BY <1>1, <1>2, <3>2, <3>3, AttendanceKeeps, TrafficKeeps DEF EndsKept
  <2> QED  BY <2>1, <2>2
<1>8. now' \in Nat
  BY <1>2 DEF VisitInv
<1>9. Orderly(visits, Arrived)' /\ Orderly(drives, Arrived)' /\ ForwardInTime(visits)'
  BY <1>6 DEF Orderly, ForwardInTime, Ends
<1> QED  BY <1>4, <1>7, <1>8, <1>9 DEF VisitInv

(* The sweep closes sessions and moves no event. *)
LEMMA ForcedKeeps ==
  ASSUME NEW table, NEW seen, Orderly(table, seen)
  PROVE  /\ Orderly(Forced(table), seen) /\ EndsKept(table, Forced(table))
         /\ ForwardInTime(table) => ForwardInTime(Forced(table))
<1> DEFINE next == Forced(table)
<1>1. table \in Seq(SessionRow)
  BY DEF Orderly
<1>2. ASSUME NEW i \in DOMAIN table
      PROVE  /\ next[i] \in SessionRow
             /\ next[i].key = table[i].key /\ next[i].entry = table[i].entry
             /\ next[i].exit = table[i].exit /\ next[i].start = table[i].start
             /\ next[i].end = table[i].end
             /\ next[i].status = "open" => table[i].status = "open"
  <2>1. table[i] \in SessionRow
    BY <1>1
  <2>2. next[i] = table[i] \/ next[i] = [table[i] EXCEPT !.status = "forced_closed"]
    BY DEF Forced
  <2> HIDE DEF next
  <2> QED  BY <2>1, <2>2 DEF SessionRow
<1>3. DOMAIN next = DOMAIN table /\ next \in Seq(SessionRow)
  <2>1. DOMAIN next = 1..Len(table) /\ DOMAIN table = 1..Len(table) /\ Len(table) \in Nat
    BY <1>1 DEF Forced
  <2>2. next = [i \in 1..Len(table) |-> next[i]]
    BY <2>1 DEF Forced
  <2>3. \A i \in 1..Len(table) : next[i] \in SessionRow
    BY <1>2, <2>1
  <2> HIDE DEF next
  <2>4. [i \in 1..Len(table) |-> next[i]] \in Seq(SessionRow)
    BY <2>1, <2>3
  <2> QED  BY <2>1, <2>2, <2>4
<1> HIDE DEF next
<1>4. \A e : Ends(next, e) = Ends(table, e)
  BY <1>2, <1>3 DEF Ends
<1>5. Orderly(next, seen)
  BY <1>2, <1>3, <1>4 DEF Orderly
<1>6. EndsKept(table, next)
  BY <1>4 DEF EndsKept
<1>7. ForwardInTime(table) => ForwardInTime(next)
  BY <1>2, <1>3 DEF ForwardInTime
<1> QED  BY <1>5, <1>6, <1>7 DEF next

LEMMA SweepKeeps == VisitInv /\ SweepStaleSessions => VisitInv'
<1> SUFFICES ASSUME VisitInv, SweepStaleSessions PROVE VisitInv'  OBVIOUS
<1>1. visits' = Forced(visits) /\ drives' = Forced(drives)
      /\ now' = now /\ arrivals' = arrivals
  BY DEF SweepStaleSessions
<1>2. Arrived' = Arrived
  BY <1>1 DEF Arrived
<1>3. /\ Orderly(visits', Arrived) /\ Orderly(drives', Arrived) /\ ForwardInTime(visits')
      /\ EndsKept(visits, visits') /\ EndsKept(drives, drives')
  BY <1>1, ForcedKeeps DEF VisitInv
<1>4. ExitsKept'
  <2>1. \A e \in Arrived : e \in SiteEvents
    BY ArrivedTyped
  <2>2. \A e \in Arrived : Payload[e].role = "exit" =>
          Ends(visits', e) \cup Ends(drives', e) # {}
    BY <1>3, <2>1 DEF VisitInv, ExitsKept, EndsKept
  <2> QED  BY <1>2, <2>2 DEF ExitsKept, Ends
<1> QED  BY <1>1, <1>2, <1>3, <1>4 DEF VisitInv, Orderly, ForwardInTime, Ends

LEMMA StillKeeps ==
  ASSUME VisitInv, UNCHANGED <<visits, drives, arrivals>>, now' \in Nat
  PROVE  VisitInv'
  BY DEF VisitInv, Arrived, Orderly, ForwardInTime, ExitsKept, Ends

LEMMA SessionInductive ==
  ASSUME ~ReplayEvicted
  PROVE  SessionSpec => []VisitInv
<1>1. VisitInv /\ [SessionNext]_sessionVars => VisitInv'
  <2> SUFFICES ASSUME VisitInv, [SessionNext]_sessionVars PROVE VisitInv'  OBVIOUS
  <2>1. now \in Nat
    BY DEF VisitInv
  <2>2. CASE Evict
    BY <2>1, <2>2, StillKeeps DEF Evict
  <2>3. CASE SaveRule
    BY <2>1, <2>3, StillKeeps DEF SaveRule
  <2>4. CASE SessionTick
    BY <2>1, <2>4, StillKeeps DEF SessionTick
  <2>5. CASE UNCHANGED sessionVars
    BY <2>1, <2>5, StillKeeps DEF sessionVars
  <2> QED  BY <2>2, <2>3, <2>4, <2>5, IngestKeeps, SweepKeeps DEF SessionNext
<1> QED  BY <1>1, SessionInitInv, PTL DEF SessionSpec

(***************************************************************************)
(* In whatever order a site's events arrive, a person has one open visit   *)
(* and a vehicle one open session per gate, visits run forward in time, no *)
(* event ends two sessions and no exit is lost, as long as the stream does *)
(* not repeat an event that retention removed.                             *)
(***************************************************************************)
THEOREM VisitsAreConsistent ==
  ASSUME ~ReplayEvicted
  PROVE  SessionSpec => []VisitsConsistent
<1>1. VisitInv => VisitsConsistent
  <2> SUFFICES ASSUME VisitInv PROVE VisitsConsistent  OBVIOUS
  <2>1. ASSUME NEW table, Orderly(table, Arrived)
        PROVE  /\ \A i \in DOMAIN table : table[i].status = "open"
                    => OpenIn(table, table[i].key) = {i}
               /\ \A e \in SiteEvents : Cardinality(Ends(table, e)) <= 1
    <3>1. \A i \in DOMAIN table : table[i].status = "open"
            => OpenIn(table, table[i].key) = {i}
      BY <2>1 DEF Orderly, OpenIn
    <3>2. ASSUME NEW e \in SiteEvents PROVE Cardinality(Ends(table, e)) <= 1
      <4>1. CASE Ends(table, e) = {}
        BY <4>1, FS_EmptySet
      <4>2. CASE Ends(table, e) # {}
        <5>1. PICK i : i \in Ends(table, e)
          BY <4>2
        <5>2. Ends(table, e) = {i}
          BY <2>1, <5>1 DEF Orderly
        <5>3. Cardinality({i}) = 1
          BY FS_Singleton
        <5> QED  BY <5>2, <5>3
      <4> QED  BY <4>1, <4>2
    <3> QED  BY <3>1, <3>2
  <2>2. Orderly(visits, Arrived) /\ Orderly(drives, Arrived)
        /\ ForwardInTime(visits) /\ ExitsKept
    BY DEF VisitInv
  <2> QED  BY <2>1, <2>2 DEF VisitsConsistent, ForwardInTime, ExitsKept, Arrived
<1> QED  BY <1>1, SessionInductive, PTL

-------------------------------------------------------------------------------
(***************************************************************************)
(* What is derived from the accepted events: the daily span of a plate and *)
(* the rule's state with its alerts.  SpanInv and RuleInv relate each row to *)
(* the log it was folded from; Crossings is recursive, so that what it adds *)
(* for a new count is read off the function that solves its recursion.     *)
(***************************************************************************)
(* The largest index of a set of them. *)
LEMMA MaxOfInterval ==
  ASSUME NEW n \in Nat, NEW S \in SUBSET (1..n), S # {}
  PROVE  Max(S) \in S /\ \A x \in S : x <= Max(S)
<1> DEFINE Above == {b \in Nat : \E x \in S : b < x}
<1>1. PICK b \in Nat : b \notin Above /\ \A a \in Nat : a < b => a \in Above
  <2>1. n \notin Above
    OBVIOUS
  <2> HIDE DEF Above
  <2>2. SUFFICES ASSUME \A b \in Nat : b \in Above \/ \E a \in Nat : a < b /\ a \notin Above
                 PROVE  FALSE
    OBVIOUS
  <2> DEFINE Clear == {b \in Nat : \A a \in 0..b : a \in Above}
  <2>3. 0 \in Clear
    BY <2>2
  <2>4. \A b \in Nat : b \in Clear => b + 1 \in Clear
    BY <2>2
  <2>5. n \in Clear
    <3> HIDE DEF Clear
    <3> QED  BY <2>3, <2>4, NatSetInduction
  <2> QED  BY <2>1, <2>5
<1>2. \A x \in S : x \in Nat /\ x <= b
  BY <1>1
<1>3. b \in S
  <2>1. PICK y \in S : TRUE
    OBVIOUS
  <2>2. y <= b /\ y >= 1
    BY <1>2
  <2>3. b - 1 \in Nat /\ b - 1 < b
    BY <2>2
  <2>4. b - 1 \in Above
    BY <1>1, <2>3
  <2>5. PICK x \in S : b - 1 < x
    BY <2>4
  <2> QED  BY <1>2, <2>5
<1>4. \E m \in S : \A x \in S : m >= x
  BY <1>2, <1>3
<1>5. Max(S) \in S /\ \A x \in S : Max(S) >= x
  BY <1>4 DEF Max
<1> QED  BY <1>5, <1>2

(* The recursive definition of Crossings has a solution. *)
UpTo(heard, g, n) ==
    IF n = 0 THEN {}
    ELSE IF CrossesAt(heard, g[n - 1], n) THEN g[n - 1] \cup {n} ELSE g[n - 1]

Solves(g, heard, m) == g = [n \in 0..m |-> UpTo(heard, g, n)]

LEMMA UpToExists ==
  ASSUME NEW heard, Len(heard) \in Nat
  PROVE  \E g : Solves(g, heard, Len(heard))
<1> DEFINE Solved == {m \in Nat : \E g : Solves(g, heard, m)}
<1>1. 0 \in Solved
  <2> DEFINE g == [n \in 0..0 |-> {}]
  <2>1. g = [n \in 0..0 |-> UpTo(heard, g, n)]
    BY DEF UpTo
  <2> QED  BY <2>1 DEF Solves
<1>2. ASSUME NEW m \in Nat, m \in Solved PROVE m + 1 \in Solved
  <2>1. PICK g : g = [n \in 0..m |-> UpTo(heard, g, n)]
    BY <1>2 DEF Solves
  <2> DEFINE h == [n \in 0..(m + 1) |-> IF n = m + 1 THEN UpTo(heard, g, n) ELSE g[n]]
  <2>2. ASSUME NEW n \in 0..(m + 1) PROVE h[n] = UpTo(heard, h, n)
    <3>1. n # 0 => n - 1 \in 0..m /\ h[n - 1] = g[n - 1]
      OBVIOUS
    <3>2. UpTo(heard, h, n) = UpTo(heard, g, n)
      BY <3>1 DEF UpTo
    <3>3. n # m + 1 => n \in 0..m /\ g[n] = UpTo(heard, g, n)
      BY <2>1
    <3> QED  BY <3>2, <3>3
  <2>3. h = [n \in 0..(m + 1) |-> UpTo(heard, h, n)]
    <3>1. h = [n \in 0..(m + 1) |-> h[n]]
      OBVIOUS
    <3> HIDE DEF h
    <3> QED  BY <3>1, <2>2
  <2> HIDE DEF h
  <2> QED  BY <2>3 DEF Solves
<1>3. Len(heard) \in Solved
  <2> HIDE DEF Solved
  <2> QED  BY <1>1, <1>2, NatSetInduction
<1> QED  BY <1>3

(* A solution for a longer log solves the recursion of its prefixes. *)
LEMMA UpToAgrees ==
  ASSUME NEW heard, NEW longer, NEW m \in Nat, NEW k \in Nat, m <= k,
         \A n \in 1..m : heard[n] = longer[n],
         NEW g, Solves(g, heard, m), NEW h, Solves(h, longer, k)
  PROVE  \A n \in 0..m : g[n] = h[n] /\ g[n] \subseteq 1..n
<1>0. /\ \A n \in 0..m : g[n] = UpTo(heard, g, n)
      /\ \A n \in 0..k : h[n] = UpTo(longer, h, n)
  BY DEF Solves
<1> DEFINE Agree == {n \in Nat : n <= m => g[n] = h[n] /\ g[n] \subseteq 1..n}
<1>1. 0 \in Agree
  <2>1. 0 \in 0..m /\ 0 \in 0..k
    OBVIOUS
  <2>2. g[0] = {} /\ h[0] = {}
    BY <1>0, <2>1 DEF UpTo
  <2> QED  BY <2>2
<1>2. ASSUME NEW n \in Nat, n \in Agree PROVE n + 1 \in Agree
  <2>0. SUFFICES ASSUME n + 1 <= m
                PROVE  g[n + 1] = h[n + 1] /\ g[n + 1] \subseteq 1..(n + 1)
    OBVIOUS
  <2>1. g[n] = h[n] /\ g[n] \subseteq 1..n
    BY <1>2, <2>0
  <2>2. g[n + 1] = UpTo(heard, g, n + 1) /\ h[n + 1] = UpTo(longer, h, n + 1)
    <3>1. n + 1 \in 0..m /\ n + 1 \in 0..k
      BY <1>2, <2>0
    <3> QED  BY <1>0, <3>1
  <2>3. CrossesAt(heard, g[n], n + 1) <=> CrossesAt(longer, h[n], n + 1)
    <3>1. n + 1 \in 1..m
      BY <1>2, <2>0
    <3>2. n + 1 # 1 => n \in 1..m
      BY <1>2, <2>0
    <3>3. g[n] # {} => Max(g[n]) \in 1..m
      <4>1. g[n] \in SUBSET (1..n) /\ 1..n \subseteq 1..m
        BY <1>2, <2>0, <2>1
      <4>2. g[n] # {} => Max(g[n]) \in g[n]
        BY <1>2, <4>1, MaxOfInterval
      <4> QED  BY <4>1, <4>2
    <3>4. (n + 1) - 1 = n
      OBVIOUS
    <3>5. /\ heard[n + 1] = longer[n + 1]
          /\ n + 1 # 1 => heard[(n + 1) - 1] = longer[(n + 1) - 1]
          /\ g[n] # {} => heard[Max(g[n])] = longer[Max(g[n])]
      BY <3>1, <3>2, <3>3, <3>4
    <3> QED  BY <2>1, <3>5 DEF CrossesAt
  <2>4. n + 1 # 0 /\ (n + 1) - 1 = n
    OBVIOUS
  <2>5. g[n + 1] = h[n + 1] /\ g[n + 1] \subseteq g[n] \cup {n + 1}
    <3> HIDE DEF Agree
    <3> QED  BY <2>1, <2>2, <2>3, <2>4 DEF UpTo
  <2> QED  BY <2>1, <2>5
<1>3. Nat \subseteq Agree
  <2> HIDE DEF Agree
  <2> QED  BY <1>1, <1>2, NatSetInduction
<1> QED  BY <1>3

LEMMA CrossingsUnfold ==
  ASSUME NEW heard, Len(heard) \in Nat
  PROVE  \E g : Solves(g, heard, Len(heard)) /\ Crossings(heard) = g[Len(heard)]
<1> DEFINE g == CHOOSE f : f = [n \in 0..Len(heard) |-> UpTo(heard, f, n)]
<1>1. g = [n \in 0..Len(heard) |-> UpTo(heard, g, n)]
  BY UpToExists DEF Solves
<1>2. Crossings(heard) = g[Len(heard)]
  BY DEF Crossings, UpTo
<1> HIDE DEF g
<1> QED  BY <1>1, <1>2 DEF Solves

LEMMA CrossingsOfNone == Crossings(<<>>) = {}
<1>1. Len(<<>>) = 0
  OBVIOUS
<1>2. PICK g : Solves(g, <<>>, 0) /\ Crossings(<<>>) = g[0]
  BY <1>1, CrossingsUnfold
<1> QED  BY <1>2 DEF UpTo, Solves

(* What one more count adds to the crossings of a log. *)
(* One more count adds its crossing, if it is one, and changes no other. *)
LEMMA CrossingsAppend ==
  ASSUME NEW R, NEW heard \in Seq(R), NEW c \in R
  PROVE  Crossings(Append(heard, c)) =
           IF CrossesAt(Append(heard, c), Crossings(heard), Len(heard) + 1)
             THEN Crossings(heard) \cup {Len(heard) + 1} ELSE Crossings(heard)
<1> DEFINE longer == Append(heard, c)
           m == Len(heard)
<1>2. m \in Nat /\ Len(longer) = m + 1 /\ \A n \in 1..m : heard[n] = longer[n]
  OBVIOUS
<1> HIDE DEF longer, m
<1>3. PICK g : Solves(g, heard, m) /\ Crossings(heard) = g[m]
  BY <1>2, CrossingsUnfold DEF m
<1>4. PICK h : Solves(h, longer, m + 1) /\ Crossings(longer) = h[m + 1]
  BY <1>2, CrossingsUnfold
<1>5. h[m] = g[m]
  <2>1. m + 1 \in Nat /\ m <= m + 1 /\ m \in 0..m
    BY <1>2
  <2>2. \A n \in 0..m : g[n] = h[n] /\ g[n] \subseteq 1..n
    BY <1>2, <1>3, <1>4, <2>1, UpToAgrees
  <2> QED  BY <2>1, <2>2
<1>6. h[m + 1] = UpTo(longer, h, m + 1)
  <2>1. m + 1 \in 0..(m + 1)
    BY <1>2
  <2> QED  BY <1>4, <2>1 DEF Solves
<1>7. m + 1 # 0 /\ (m + 1) - 1 = m
  BY <1>2
<1> QED  BY <1>3, <1>4, <1>5, <1>6, <1>7 DEF UpTo, longer, m

-------------------------------------------------------------------------------
Arrival == [event : SiteEvents, at : Nat]

SpanRow == [count : Nat, first : SiteEvents \cup {0}, last : SiteEvents \cup {0},
            start : Nat, end : Nat]

(* A span is that of the detections D among those of a log. *)
Spans(span, D, heard) ==
    /\ span.count = Cardinality(D)
    /\ D # {} =>
         /\ \A i \in D : span.start <= heard[i].at /\ heard[i].at <= span.end
         /\ \E i \in D : heard[i] = [event |-> span.first, at |-> span.start]
         /\ \E i \in D : heard[i] = [event |-> span.last, at |-> span.end]

SpanInv ==
    /\ now \in Nat \ {0}
    /\ arrivals \in Seq(Arrival)
    /\ spans \in [Plates \X Days -> SpanRow]
    /\ \A k \in Plates \X Days : Spans(spans[k], Detections(k), arrivals)

LEMMA DetectionsFinite ==
  ASSUME NEW k, arrivals \in Seq(Arrival)
  PROVE  IsFiniteSet(Detections(k)) /\ Detections(k) \subseteq 1..Len(arrivals)
<1>1. Detections(k) \in SUBSET (1..Len(arrivals)) /\ Len(arrivals) \in Nat
  BY DEF Detections
<1>2. IsFiniteSet(1..Len(arrivals))
  BY <1>1, FS_Interval
<1> QED  BY <1>1, <1>2, FS_Subset

(* Accepting one more detection widens the row to its span. *)
LEMMA WidenSpans ==
  ASSUME now \in Nat, NEW e \in SiteEvents, NEW heard \in Seq(Arrival),
         NEW D \in SUBSET (1..Len(heard)), IsFiniteSet(D), NEW span \in SpanRow,
         Spans(span, D, heard)
  PROVE  /\ Widen(span, e) \in SpanRow
         /\ Spans(Widen(span, e), D \cup {Len(heard) + 1},
                  Append(heard, [event |-> e, at |-> ObservedAt(e)]))
<1> DEFINE instant == ObservedAt(e)
           n == Len(heard) + 1
           next == Append(heard, [event |-> e, at |-> instant])
           wide == Widen(span, e)
<1>1. instant \in Nat
  BY ObservedTyped
<1>2. /\ span.count \in Nat /\ span.start \in Nat /\ span.end \in Nat
      /\ {span.first, span.last} \subseteq SiteEvents \cup {0}
  BY DEF SpanRow
<1>3. /\ wide.count = span.count + 1
      /\ wide.first = (IF span.count = 0 \/ instant < span.start THEN e ELSE span.first)
      /\ wide.start = (IF span.count = 0 \/ instant < span.start THEN instant ELSE span.start)
      /\ wide.last = (IF span.count = 0 \/ instant > span.end THEN e ELSE span.last)
      /\ wide.end = (IF span.count = 0 \/ instant > span.end THEN instant ELSE span.end)
  BY DEF Widen
<1>4. wide \in SpanRow
  BY <1>1, <1>2 DEF Widen, SpanRow
<1>5. /\ next[n] = [event |-> e, at |-> instant] /\ n \notin D
      /\ \A i \in D : next[i] = heard[i] /\ heard[i] \in Arrival
  <2>1. [event |-> e, at |-> instant] \in Arrival
    BY <1>1 DEF Arrival
  <2> HIDE DEF instant
  <2> QED  BY <2>1
<1>6. \A i \in D : heard[i].at \in Nat
  BY <1>5 DEF Arrival
<1>7. Cardinality(D \cup {n}) = Cardinality(D) + 1 /\ (Cardinality(D) = 0 <=> D = {})
  BY <1>5, FS_AddElement, FS_EmptySet
<1> HIDE DEF instant, n, next, wide
<1>8. \A i \in D \cup {n} : wide.start <= next[i].at /\ next[i].at <= wide.end
  <2>1. CASE D = {}
    BY <1>1, <1>3, <1>5, <1>7, <2>1 DEF Spans
  <2>2. CASE D # {}
    <3>1. /\ span.count # 0 /\ next[n].at = instant
          /\ \A i \in D : next[i].at \in Nat /\ span.start <= next[i].at
                         /\ next[i].at <= span.end
      BY <1>5, <1>6, <1>7, <2>2 DEF Spans
    <3>2. /\ wide.start \in Nat /\ wide.start <= instant /\ wide.start <= span.start
          /\ wide.end \in Nat /\ wide.end >= instant /\ wide.end >= span.end
      BY <1>1, <1>2, <1>3, <3>1
    <3> QED  BY <1>1, <1>2, <3>1, <3>2
  <2> QED  BY <2>1, <2>2
<1>9. \E i \in D \cup {n} : next[i] = [event |-> wide.first, at |-> wide.start]
  <2>1. CASE span.count = 0 \/ instant < span.start
    BY <1>3, <1>5, <2>1
  <2>2. CASE ~(span.count = 0 \/ instant < span.start)
    BY <1>3, <1>5, <1>7, <2>2 DEF Spans
  <2> QED  BY <2>1, <2>2
<1>10. \E i \in D \cup {n} : next[i] = [event |-> wide.last, at |-> wide.end]
  <2>1. CASE span.count = 0 \/ instant > span.end
    BY <1>3, <1>5, <2>1
  <2>2. CASE ~(span.count = 0 \/ instant > span.end)
    BY <1>3, <1>5, <1>7, <2>2 DEF Spans
  <2> QED  BY <2>1, <2>2
<1>11. Spans(wide, D \cup {n}, next)
  BY <1>3, <1>7, <1>8, <1>9, <1>10 DEF Spans
<1> QED  BY <1>4, <1>11 DEF wide, n, next, instant

LEMMA IngestSpans ==
  ASSUME SpanInv, NEW e \in SiteEvents, Ingest(e)
  PROVE  SpanInv'
<1> DEFINE instant == ObservedAt(e)
           n == Len(arrivals) + 1
           counted == Payload[e].kind = "plate" /\ WithinReportWindow(instant)
<1>1. /\ now' = now /\ arrivals' = Append(arrivals, [event |-> e, at |-> instant])
      /\ spans' = Detected(e)
  BY DEF Ingest
<1>2. instant \in Nat /\ now \in Nat /\ arrivals \in Seq(Arrival)
  BY ObservedTyped DEF SpanInv
<1>3. arrivals' \in Seq(Arrival)
  BY <1>1, <1>2 DEF Arrival
<1>4. /\ DOMAIN arrivals' = DOMAIN arrivals \cup {n} /\ n \notin DOMAIN arrivals
      /\ arrivals'[n] = [event |-> e, at |-> instant]
      /\ \A i \in DOMAIN arrivals : arrivals'[i] = arrivals[i]
  BY <1>1, <1>2
<1> HIDE DEF instant, n
<1>5. ASSUME NEW k \in Plates \X Days
      PROVE  spans'[k] \in SpanRow /\ Spans(spans'[k], Detections(k)', arrivals')
  <2>1. /\ spans[k] \in SpanRow /\ Spans(spans[k], Detections(k), arrivals)
        /\ IsFiniteSet(Detections(k)) /\ Detections(k) \in SUBSET (1..Len(arrivals))
    BY <1>2, DetectionsFinite DEF SpanInv
  <2>2. CASE counted /\ SpanOf(e) = k
    <3>1. spans'[k] = Widen(spans[k], e)
      BY <1>1, <2>2 DEF Detected, SpanInv, instant
    <3>2. Payload[e].plate = k[1] /\ instant \div DayLength = k[2]
      BY <2>2 DEF SpanOf, instant
    <3>3. Detections(k)' = Detections(k) \cup {n}
      BY <1>4, <2>2, <3>2 DEF Detections, WithinReportWindow
    <3> QED
      BY <1>1, <1>2, <2>1, <3>1, <3>3, WidenSpans DEF n, instant
  <2>3. CASE ~(counted /\ SpanOf(e) = k)
    <3>1. spans'[k] = spans[k]
      BY <1>1, <2>3 DEF Detected, SpanInv, instant
    <3>2. Payload[e].plate = k[1] /\ instant \div DayLength = k[2] => SpanOf(e) = k
      BY DEF SpanOf, instant
    <3>3. Detections(k)' = Detections(k)
      BY <1>4, <2>3, <3>2 DEF Detections, WithinReportWindow
    <3>4. Spans(spans[k], Detections(k), arrivals')
      <4>1. \A i \in Detections(k) : arrivals'[i] = arrivals[i]
        BY <1>4 DEF Detections
      <4> QED  BY <2>1, <4>1 DEF Spans
    <3> QED  BY <2>1, <3>1, <3>3, <3>4
  <2> QED  BY <2>2, <2>3
<1>6. spans' \in [Plates \X Days -> SpanRow]
  <2>1. DOMAIN spans' = Plates \X Days /\ spans' = [k \in DOMAIN spans' |-> spans'[k]]
    BY <1>1 DEF Detected, SpanInv
  <2> QED  BY <1>5, <2>1
<1>7. now' \in Nat \ {0}
  BY <1>1 DEF SpanInv
<1>8. \A k \in Plates \X Days : Spans(spans[k], Detections(k), arrivals)'
  BY <1>5 DEF Spans
<1> QED  BY <1>3, <1>6, <1>7, <1>8 DEF SpanInv

LEMMA SpanInitInv == SessionInit => SpanInv
<1> SUFFICES ASSUME SessionInit PROVE SpanInv  OBVIOUS
<1>1. now = 1 /\ arrivals = <<>> /\ spans = [k \in Plates \X Days |-> NoSpan]
  BY DEF SessionInit
<1>2. \A k : Detections(k) = {}
  BY <1>1 DEF Detections
<1>3. NoSpan \in SpanRow /\ NoSpan.count = 0
  BY DEF NoSpan, SpanRow
<1>4. \A k \in Plates \X Days : Spans(spans[k], Detections(k), arrivals)
  BY <1>1, <1>2, <1>3, FS_EmptySet DEF Spans
<1> QED  BY <1>1, <1>3, <1>4 DEF SpanInv

LEMMA StepSpans == SpanInv /\ [SessionNext]_sessionVars => SpanInv'
<1> SUFFICES ASSUME SpanInv, [SessionNext]_sessionVars PROVE SpanInv'  OBVIOUS
<1>1. ASSUME UNCHANGED <<spans, arrivals>>, now' \in Nat \ {0} PROVE SpanInv'
  <2>1. \A k : Detections(k)' = Detections(k)
    BY <1>1 DEF Detections, WithinReportWindow
  <2> QED  BY <1>1, <2>1 DEF SpanInv, Spans
<1>2. now \in Nat \ {0}
  BY DEF SpanInv
<1>3. CASE SweepStaleSessions \/ Evict \/ SaveRule \/ SessionTick \/ UNCHANGED sessionVars
  BY <1>1, <1>2, <1>3 DEF SweepStaleSessions, Evict, SaveRule, SessionTick, sessionVars
<1> QED  BY <1>3, IngestSpans DEF SessionNext

-------------------------------------------------------------------------------
Reading == [over : BOOLEAN, at : Nat \ {0}]

(* The rule's row against the log of counts and the alerts raised. *)
RuleInv ==
    /\ now \in Nat \ {0}
    /\ rule \in [known : BOOLEAN, active : BOOLEAN, last : Nat]
    /\ counts \in Seq(Reading)
    /\ rule.known <=> counts # <<>>
    /\ rule.active = (rule.known /\ counts[Len(counts)].over)
    /\ alerts \in Seq(Nat)
    /\ \A i, j \in DOMAIN alerts : i < j => alerts[i] < alerts[j]
    /\ \A i \in DOMAIN alerts : alerts[i] \in 1..Len(counts)
    /\ rule.last = IF alerts = <<>> THEN 0 ELSE counts[alerts[Len(alerts)]].at
    /\ AlertsAreCrossings

LEMMA LastIsMax ==
  ASSUME NEW sq \in Seq(Nat), sq # <<>>,
         \A i, j \in DOMAIN sq : i < j => sq[i] < sq[j]
  PROVE  Max(ToSet(sq)) = sq[Len(sq)] /\ ToSet(sq) # {}
<1> DEFINE m == Len(sq)
<1>1. m \in DOMAIN sq /\ \A i \in DOMAIN sq : i \in Nat /\ sq[i] \in Nat /\ (i = m \/ i < m)
  OBVIOUS
<1>2. \A i \in DOMAIN sq : sq[m] >= sq[i]
  BY <1>1
<1> HIDE DEF m
<1>3. sq[m] \in ToSet(sq) /\ \A x \in ToSet(sq) : sq[m] >= x /\ x \in Nat
  BY <1>1, <1>2 DEF ToSet
<1>4. Max(ToSet(sq)) \in ToSet(sq) /\ \A x \in ToSet(sq) : Max(ToSet(sq)) >= x
  BY <1>3 DEF Max
<1> QED  BY <1>3, <1>4 DEF m

LEMMA IngestRule ==
  ASSUME RuleInv, NEW e \in SiteEvents, Ingest(e)
  PROVE  RuleInv'
<1> DEFINE over == Payload[e].over
           reading == [over |-> over, at |-> now]
           n == Len(counts) + 1
           raised == over /\ ~rule.active
                       /\ (~rule.known \/ rule.last = 0 \/ now - rule.last >= AlertCooldown)
<1>1. now' = now /\ Thresholds(e)
  BY DEF Ingest
<1>2. CASE Payload[e].kind # "count"
  BY <1>1, <1>2 DEF Thresholds, RuleInv, AlertsAreCrossings
<1>3. CASE Payload[e].kind = "count"
  <2>1. /\ rule' = [known |-> TRUE, active |-> over,
                    last |-> IF raised THEN now ELSE rule.last]
        /\ alerts' = IF raised THEN Append(alerts, n) ELSE alerts
        /\ counts' = Append(counts, reading)
    BY <1>1, <1>3 DEF Thresholds, Armed
  <2>2. /\ now \in Nat \ {0} /\ counts \in Seq(Reading) /\ alerts \in Seq(Nat)
        /\ over \in BOOLEAN /\ rule.last \in Nat
        /\ \A i \in DOMAIN alerts : alerts[i] \in 1..Len(counts)
    BY SessionAssumption DEF RuleInv
  <2>3. reading \in Reading
    BY <2>2 DEF Reading
  <2>4. /\ counts' \in Seq(Reading) /\ Len(counts') = n /\ counts'[n] = reading
        /\ \A i \in 1..Len(counts) : counts'[i] = counts[i]
        /\ n \in Nat /\ n = Len(counts) + 1 /\ Len(counts) \in Nat /\ counts' # <<>>
    <3> HIDE DEF reading
    <3> QED  BY <2>1, <2>2, <2>3
  <2> HIDE DEF n
  <2>5. reading.over = over /\ reading.at = now
    OBVIOUS
  <2> HIDE DEF over, reading
  <2>6. Crossings(counts') = IF CrossesAt(counts', ToSet(alerts), n)
                               THEN ToSet(alerts) \cup {n} ELSE ToSet(alerts)
    BY <2>1, <2>2, <2>3, CrossingsAppend DEF RuleInv, AlertsAreCrossings, n
  <2>7. CrossesAt(counts', ToSet(alerts), n) <=> raised
    <3>1. n = 1 <=> ~rule.known
      <4>1. n = 1 <=> counts = <<>>
        BY <2>2 DEF n
      <4> QED  BY <4>1 DEF RuleInv
    <3>2. rule.known => n - 1 \in 1..Len(counts) /\ counts'[n - 1] = counts[Len(counts)]
      BY <2>4, <3>1
    <3>3. CASE alerts = <<>>
      <4>1. ToSet(alerts) = {} /\ rule.last = 0
        BY <3>3 DEF ToSet, RuleInv
      <4> QED  BY <2>4, <2>5, <3>1, <3>2, <4>1 DEF CrossesAt, RuleInv
    <3>4. CASE alerts # <<>>
      <4>1. Max(ToSet(alerts)) = alerts[Len(alerts)] /\ ToSet(alerts) # {}
        BY <3>4, LastIsMax DEF RuleInv
      <4>2. Len(alerts) \in DOMAIN alerts
        BY <2>2, <3>4
      <4>3. alerts[Len(alerts)] \in 1..Len(counts)
        BY <2>2, <4>2
      <4>4. counts'[Max(ToSet(alerts))].at = rule.last /\ rule.last # 0
        <5>1. counts[alerts[Len(alerts)]] \in Reading
          BY <2>2, <4>3
        <5> QED  BY <2>4, <3>4, <4>1, <4>3, <5>1 DEF RuleInv, Reading
      <4>5. n # 1
        BY <2>2, <4>3 DEF n
      <4> QED
        BY <2>4, <2>5, <3>1, <3>2, <4>1, <4>4, <4>5 DEF CrossesAt, RuleInv
    <3> QED  BY <3>3, <3>4
  <2>8. /\ alerts' \in Seq(Nat) /\ AlertsAreCrossings'
        /\ \A i, j \in DOMAIN alerts' : i < j => alerts'[i] < alerts'[j]
        /\ \A i \in DOMAIN alerts' : alerts'[i] \in 1..Len(counts')
        /\ rule'.last = IF alerts' = <<>> THEN 0 ELSE counts'[alerts'[Len(alerts')]].at
    <3>1. CASE ~raised
      <4>1. alerts' = alerts /\ rule'.last = rule.last
        BY <2>1, <3>1
      <4>2. 1..Len(counts) \subseteq 1..Len(counts')
        BY <2>4
      <4>3. alerts # <<>> => Len(alerts) \in DOMAIN alerts
        BY <2>2
      <4>4. AlertsAreCrossings'
        BY <2>6, <2>7, <3>1, <4>1 DEF AlertsAreCrossings
      <4> QED  BY <2>2, <2>4, <4>1, <4>2, <4>3, <4>4 DEF RuleInv
    <3>2. CASE raised
      <4> DEFINE m == Len(alerts) + 1
      <4>1. alerts' = Append(alerts, n) /\ rule'.last = now
        BY <2>1, <3>2
      <4>2. /\ alerts' \in Seq(Nat) /\ Len(alerts') = m /\ alerts'[m] = n
            /\ DOMAIN alerts' = DOMAIN alerts \cup {m} /\ m \in Nat
            /\ \A i \in DOMAIN alerts : alerts'[i] = alerts[i] /\ i < m
        BY <2>2, <2>4, <4>1
      <4> HIDE DEF m
      <4>3. \A i \in DOMAIN alerts : alerts[i] < n /\ alerts[i] \in 1..Len(counts')
        BY <2>2, <2>4
      <4>4. \A i, j \in DOMAIN alerts' : i < j => alerts'[i] < alerts'[j]
        <5>1. \A i \in DOMAIN alerts : i \in Nat
          BY <2>2
        <5>2. \A i, j \in DOMAIN alerts : i < j => alerts[i] < alerts[j]
          BY DEF RuleInv
        <5>3. \A i, j \in DOMAIN alerts' : i < j => i \in DOMAIN alerts
          BY <4>2, <5>1
        <5> QED  BY <4>2, <4>3, <5>2, <5>3
      <4>5. ToSet(alerts') = ToSet(alerts) \cup {n}
        BY <4>2 DEF ToSet
      <4>6. AlertsAreCrossings'
        BY <2>6, <2>7, <3>2, <4>5 DEF AlertsAreCrossings
      <4>7. alerts' # <<>> /\ n \in 1..Len(counts')
        BY <2>4, <4>1, <4>2
      <4> QED
        BY <2>4, <2>5, <4>1, <4>2, <4>3, <4>4, <4>6, <4>7
    <3> QED  BY <3>1, <3>2
  <2>9. /\ rule' \in [known : BOOLEAN, active : BOOLEAN, last : Nat]
        /\ rule'.known /\ rule'.active = counts'[Len(counts')].over
    BY <2>1, <2>2, <2>4, <2>5
  <2> QED  BY <1>1, <2>2, <2>4, <2>8, <2>9 DEF RuleInv
<1> QED  BY <1>2, <1>3

LEMMA StepRule == RuleInv /\ [SessionNext]_sessionVars => RuleInv'
<1> SUFFICES ASSUME RuleInv, [SessionNext]_sessionVars PROVE RuleInv'  OBVIOUS
<1>1. ASSUME UNCHANGED <<rule, alerts, counts>>, now' \in Nat \ {0} PROVE RuleInv'
  BY <1>1 DEF RuleInv, AlertsAreCrossings
<1>2. now \in Nat \ {0}
  BY DEF RuleInv
<1>3. CASE SaveRule
  <2>1. /\ rule' = [known |-> FALSE, active |-> FALSE, last |-> 0]
        /\ alerts' = <<>> /\ counts' = <<>> /\ now' = now
    BY <1>3 DEF SaveRule
  <2>2. Crossings(counts') = {}
    BY <2>1, CrossingsOfNone
  <2>3. AlertsAreCrossings'
    BY <2>1, <2>2 DEF AlertsAreCrossings, ToSet
  <2>4. DOMAIN alerts' = {}
    BY <2>1
  <2>5. rule' \in [known : BOOLEAN, active : BOOLEAN, last : Nat]
    BY <2>1
  <2>6. counts' \in Seq(Reading) /\ alerts' \in Seq(Nat)
    BY <2>1
  <2> QED  BY <1>2, <2>1, <2>3, <2>4, <2>5, <2>6 DEF RuleInv
<1>4. CASE SweepStaleSessions \/ Evict \/ SessionTick \/ UNCHANGED sessionVars
  BY <1>1, <1>2, <1>4 DEF SweepStaleSessions, Evict, SessionTick, sessionVars
<1> QED  BY <1>3, <1>4, IngestRule DEF SessionNext

(***************************************************************************)
(* The daily rows are the spans of the detections that were accepted, in   *)
(* whatever order they arrive, and the alerts of a rule are the crossings of *)
(* its counts outside the cooldown: nothing that is kept incrementally     *)
(* drifts from what its log says (sessions.py and alerts.py).              *)
(***************************************************************************)
THEOREM DerivedIsExact == SessionSpec => []DerivedExact
<1> DEFINE Inv == SpanInv /\ RuleInv
<1>1. SessionInit => Inv
  <2> SUFFICES ASSUME SessionInit PROVE RuleInv
    BY SpanInitInv
  <2>1. /\ now = 1 /\ alerts = <<>> /\ counts = <<>>
        /\ rule = [known |-> FALSE, active |-> FALSE, last |-> 0]
    BY DEF SessionInit
  <2>2. Crossings(counts) = {}
    BY <2>1, CrossingsOfNone
  <2>3. AlertsAreCrossings
    BY <2>1, <2>2 DEF AlertsAreCrossings, ToSet
  <2>4. /\ rule \in [known : BOOLEAN, active : BOOLEAN, last : Nat]
        /\ counts \in Seq(Reading) /\ alerts \in Seq(Nat) /\ DOMAIN alerts = {}
    BY <2>1
  <2>5. now \in Nat \ {0} /\ ~rule.known /\ ~rule.active /\ rule.last = 0
    BY <2>1
  <2> QED  BY <2>1, <2>3, <2>4, <2>5 DEF RuleInv
<1>2. Inv /\ [SessionNext]_sessionVars => Inv'
  BY StepSpans, StepRule
<1>3. Inv => DerivedExact
  <2> SUFFICES ASSUME SpanInv, RuleInv PROVE DerivedExact  OBVIOUS
  <2>1. ASSUME NEW k \in Plates \X Days, Detections(k) # {},
               NEW times, times = {arrivals[i].at : i \in Detections(k)}
        PROVE  spans[k].start = Min(times) /\ spans[k].end = Max(times)
    <3>1. Spans(spans[k], Detections(k), arrivals)
      BY DEF SpanInv
    <3>2. \A t \in times : spans[k].start <= t /\ t <= spans[k].end /\ t \in Nat
      <4>1. \A i \in Detections(k) : i \in DOMAIN arrivals
        BY DEF Detections
      <4>2. \A i \in Detections(k) : arrivals[i] \in Arrival
        BY <4>1 DEF SpanInv
      <4>3. \A i \in Detections(k) : arrivals[i].at \in Nat
        BY <4>2 DEF Arrival
      <4> QED  BY <2>1, <3>1, <4>3 DEF Spans
    <3>3. spans[k].start \in times /\ spans[k].end \in times
      BY <2>1, <3>1 DEF Spans
    <3>4. Min(times) \in times /\ \A t \in times : Min(times) <= t
      BY <3>2, <3>3 DEF Min
    <3>5. Max(times) \in times /\ \A t \in times : Max(times) >= t
      BY <3>2, <3>3 DEF Max
    <3> QED  BY <3>2, <3>3, <3>4, <3>5
  <2>2. ASSUME NEW k \in Plates \X Days, {arrivals[i].at : i \in Detections(k)} # {}
        PROVE  Detections(k) # {}
    BY <2>2
  <2>3. DailySpanExact
    BY <2>1, <2>2 DEF DailySpanExact, SpanInv, Spans
  <2> QED  BY <2>3 DEF DerivedExact, RuleInv
<1> QED  BY <1>1, <1>2, <1>3, PTL DEF SessionSpec

(* No event is accepted twice, if none that was evicted comes again. *)
OnceInv == \A i, j \in DOMAIN arrivals : arrivals[i].event = arrivals[j].event => i = j

(***************************************************************************)
(* The count of a daily row is that of distinct events, as the design says *)
(* of a delivery repeated by its collector, as long as no event is sent    *)
(* again after retention evicted it.                                       *)
(***************************************************************************)
THEOREM EventsCountOnce ==
  ASSUME ~ReplayEvicted
  PROVE  SessionSpec => []CountedOnce
<1>1. SessionInit => SpanInv /\ OnceInv
  <2> SUFFICES ASSUME SessionInit PROVE SpanInv /\ OnceInv  OBVIOUS
  <2>1. arrivals = <<>>
    BY DEF SessionInit
  <2> QED  BY <2>1, SpanInitInv DEF OnceInv
<1>2. SpanInv /\ OnceInv /\ [SessionNext]_sessionVars => SpanInv' /\ OnceInv'
  <2> SUFFICES ASSUME SpanInv, OnceInv, [SessionNext]_sessionVars PROVE OnceInv'
    BY StepSpans
  <2>1. ASSUME NEW e \in SiteEvents, Ingest(e) PROVE OnceInv'
    <3> DEFINE n == Len(arrivals) + 1
    <3>1. /\ arrivals' = Append(arrivals, [event |-> e, at |-> ObservedAt(e)])
          /\ \A i \in DOMAIN arrivals : arrivals[i].event # e
      BY <2>1 DEF Ingest
    <3>2. arrivals \in Seq(Arrival)
      BY DEF SpanInv
    <3>3. /\ DOMAIN arrivals' = DOMAIN arrivals \cup {n} /\ arrivals'[n].event = e
          /\ \A i \in DOMAIN arrivals : arrivals'[i] = arrivals[i]
      BY <3>1, <3>2
    <3> HIDE DEF n
    <3> QED  BY <3>1, <3>3 DEF OnceInv
  <2>2. CASE UNCHANGED arrivals
    BY <2>2 DEF OnceInv
  <2>3. CASE SweepStaleSessions \/ Evict \/ SaveRule \/ SessionTick \/ UNCHANGED sessionVars
    BY <2>2, <2>3 DEF SweepStaleSessions, Evict, SaveRule, SessionTick, sessionVars
  <2> QED  BY <2>1, <2>3 DEF SessionNext
<1>3. SpanInv /\ OnceInv => CountedOnce
  <2> SUFFICES ASSUME SpanInv, OnceInv, NEW k \in Plates \X Days
               PROVE  spans[k].count = Cardinality({arrivals[i].event : i \in Detections(k)})
    BY DEF CountedOnce
  <2> DEFINE D == Detections(k)
             events == {arrivals[i].event : i \in D}
             f == [i \in D |-> arrivals[i].event]
  <2>1. IsFiniteSet(D) /\ spans[k].count = Cardinality(D)
    BY DetectionsFinite DEF SpanInv, Spans
  <2>2. \A i, j \in D : arrivals[i].event = arrivals[j].event => i = j
    BY DEF OnceInv, Detections
  <2> HIDE DEF D
  <2>3. f \in Surjection(D, events) /\ f \in Injection(D, events)
    BY <2>2 DEF Surjection, Injection, IsInjective
  <2>4. Cardinality(events) = Cardinality(D)
    <3> HIDE DEF f, events
    <3> QED  BY <2>1, <2>3, FS_Surjection
  <2> QED  BY <2>1, <2>4 DEF D
<1> QED  BY <1>1, <1>2, <1>3, PTL DEF SessionSpec

-------------------------------------------------------------------------------
(* Types of the sessions, whether or not an evicted event comes again.     *)
RuleRow == [known : BOOLEAN, active : BOOLEAN, last : 0..MaxSessionTime]

SessionTypeInv ==
    /\ now \in 1..MaxSessionTime
    /\ offered \subseteq SiteEvents
    /\ received \in [SiteEvents -> 0..MaxSessionTime]
    /\ visits \in Seq(SessionRow) /\ drives \in Seq(SessionRow)
    /\ rule \in RuleRow

LEMMA EnterTyped ==
  ASSUME NEW table \in Seq(SessionRow), NEW key \in SessionKey, NEW e \in SiteEvents,
         now \in Nat
  PROVE  /\ Enter(table, key, e) \in Seq(SessionRow)
         /\ OrphanExit(table, key, e) \in Seq(SessionRow)
<1>1. [key |-> key, entry |-> e, exit |-> 0, start |-> ObservedAt(e), end |-> 0,
       status |-> "open"] \in SessionRow
  BY ObservedTyped DEF SessionRow
<1>2. [key |-> key, entry |-> 0, exit |-> e, start |-> 0, end |-> ObservedAt(e),
       status |-> "closed"] \in SessionRow
  BY ObservedTyped DEF SessionRow
<1> HIDE DEF SessionRow
<1> QED  BY <1>1, <1>2 DEF Enter, OrphanExit

LEMMA CloseTyped ==
  ASSUME NEW table \in Seq(SessionRow), NEW key, NEW e \in SiteEvents, now \in Nat,
         NEW open \in SUBSET OpenIn(table, key), open # {}
  PROVE  Close(table, Max(open), e) \in Seq(SessionRow)
<1> DEFINE i == Max(open)
<1>1. i \in DOMAIN table
  <2>1. open \in SUBSET (1..Len(table)) /\ Len(table) \in Nat /\ DOMAIN table = 1..Len(table)
    BY DEF OpenIn
  <2> QED  BY <2>1, MaxOfInterval
<1> HIDE DEF i
<1>2. PICK r : r = [table[i] EXCEPT !.exit = e, !.end = ObservedAt(e), !.status = "closed"]
  OBVIOUS
<1>3. table[i] \in SessionRow
  BY <1>1
<1>4. r \in SessionRow
  BY <1>2, <1>3, ObservedTyped DEF SessionRow
<1>5. Close(table, i, e) = [table EXCEPT ![i] = r]
  BY <1>1, <1>2 DEF Close
<1> QED  BY <1>1, <1>4, <1>5 DEF i

LEMMA TablesTyped ==
  ASSUME SessionTypeInv, NEW e \in SiteEvents
  PROVE  Attendance(e) \in Seq(SessionRow) /\ Traffic(e) \in Seq(SessionRow)
<1>1. visits \in Seq(SessionRow) /\ drives \in Seq(SessionRow) /\ now \in Nat
  BY DEF SessionTypeInv
<1>2. Payload[e].who \in SessionKey /\ <<Payload[e].who, Payload[e].gate>> \in SessionKey
  BY DEF SessionKey
<1>3. ASSUME NEW table \in Seq(SessionRow), NEW key \in SessionKey
      PROVE  Leave(table, key, e) \in Seq(SessionRow) /\ DriveOut(table, key, e) \in Seq(SessionRow)
  <2> DEFINE open == {i \in OpenIn(table, key) : table[i].start <= ObservedAt(e)}
  <2>1. open # {} => Close(table, Max(open), e) \in Seq(SessionRow)
    <3>1. open \in SUBSET OpenIn(table, key)
      OBVIOUS
    <3> HIDE DEF open
    <3> QED  BY <1>1, <3>1, CloseTyped
  <2>2. OpenIn(table, key) # {} => Close(table, Max(OpenIn(table, key)), e) \in Seq(SessionRow)
    BY <1>1, CloseTyped
  <2>3. OrphanExit(table, key, e) \in Seq(SessionRow)
    BY <1>1, EnterTyped
  <2> QED  BY <2>1, <2>2, <2>3 DEF Leave, DriveOut
<1>4. Attendance(e) \in Seq(SessionRow)
  BY <1>1, <1>2, <1>3, EnterTyped DEF Attendance
<1>5. Traffic(e) \in Seq(SessionRow)
  <2> DEFINE key == <<Payload[e].who, Payload[e].gate>>
  <2>1. Traffic(e) \in {drives, Enter(drives, key, e), DriveOut(drives, key, e)}
    BY DEF Traffic
  <2> HIDE DEF key
  <2>2. key \in SessionKey
    BY <1>2 DEF key
  <2> QED  BY <1>1, <1>3, <2>1, <2>2, EnterTyped
<1> QED  BY <1>4, <1>5

LEMMA ForcedTyped ==
  ASSUME NEW table \in Seq(SessionRow)
  PROVE  Forced(table) \in Seq(SessionRow)
<1> DEFINE next == Forced(table)
<1>1. ASSUME NEW i \in DOMAIN table PROVE next[i] \in SessionRow
  <2>1. table[i] \in SessionRow
    OBVIOUS
  <2>2. next[i] = table[i] \/ next[i] = [table[i] EXCEPT !.status = "forced_closed"]
    BY DEF Forced
  <2> HIDE DEF next
  <2> QED  BY <2>1, <2>2 DEF SessionRow
<1>2. next = [i \in 1..Len(table) |-> next[i]] /\ DOMAIN table = 1..Len(table)
      /\ Len(table) \in Nat
  BY DEF Forced
<1> HIDE DEF next
<1>3. [i \in 1..Len(table) |-> next[i]] \in Seq(SessionRow)
  BY <1>1, <1>2
<1> QED  BY <1>2, <1>3 DEF next

LEMMA IngestTyped ==
  ASSUME SessionTypeInv, NEW e \in SiteEvents, Ingest(e)
  PROVE  SessionTypeInv'
<1>1. now \in 1..MaxSessionTime /\ rule \in RuleRow /\ received \in [SiteEvents -> 0..MaxSessionTime]
  BY DEF SessionTypeInv
<1>2. now' = now /\ offered' = offered /\ received' = [received EXCEPT ![e] = now]
      /\ visits' = Attendance(e) /\ drives' = Traffic(e) /\ Thresholds(e)
  BY DEF Ingest
<1>3. visits' \in Seq(SessionRow) /\ drives' \in Seq(SessionRow)
  BY <1>2, TablesTyped
<1>4. rule' \in RuleRow
  <2> DEFINE over == Payload[e].over
             raised == /\ over
                       /\ ~rule.active
                       /\ ~rule.known \/ rule.last = 0 \/ now - rule.last >= AlertCooldown
  <2>1. CASE Payload[e].kind # "count"
    BY <1>1, <1>2, <2>1 DEF Thresholds
  <2>2. CASE Payload[e].kind = "count"
    <3>1. rule' = [known |-> TRUE, active |-> Armed(over, raised),
                   last |-> IF raised THEN now ELSE rule.last]
      BY <1>2, <2>2 DEF Thresholds
    <3>2. Armed(over, raised) \in BOOLEAN
      BY SessionAssumption DEF Armed
    <3>3. (IF raised THEN now ELSE rule.last) \in 0..MaxSessionTime
      BY <1>1, SessionAssumption DEF RuleRow
    <3> HIDE DEF raised, over
    <3> QED  BY <3>1, <3>2, <3>3 DEF RuleRow
  <2> QED  BY <2>1, <2>2
<1>5. received' \in [SiteEvents -> 0..MaxSessionTime]
  BY <1>1, <1>2, SessionAssumption
<1> QED  BY <1>1, <1>2, <1>3, <1>4, <1>5 DEF SessionTypeInv

LEMMA SessionTyped == SessionSpec => []SessionTypeInv
<1>1. SessionInit => SessionTypeInv
  BY SessionAssumption DEF SessionInit, SessionTypeInv, RuleRow
<1>2. SessionTypeInv /\ [SessionNext]_sessionVars => SessionTypeInv'
  <2> SUFFICES ASSUME SessionTypeInv, [SessionNext]_sessionVars PROVE SessionTypeInv'
    OBVIOUS
  <2>1. CASE SweepStaleSessions
    <3>1. visits' \in Seq(SessionRow) /\ drives' \in Seq(SessionRow)
      BY <2>1, ForcedTyped DEF SweepStaleSessions, SessionTypeInv
    <3> QED  BY <2>1, <3>1 DEF SweepStaleSessions, SessionTypeInv
  <2>2. CASE Evict
    BY <2>2, SessionAssumption DEF Evict, SessionTypeInv
  <2>3. CASE SaveRule
    <3>1. rule' \in RuleRow
      BY <2>3, SessionAssumption DEF SaveRule, RuleRow
    <3> QED  BY <2>3, <3>1 DEF SaveRule, SessionTypeInv
  <2>4. CASE SessionTick
    BY <2>4, SessionAssumption DEF SessionTick, SessionTypeInv
  <2>5. CASE UNCHANGED sessionVars
    BY <2>5 DEF sessionVars, SessionTypeInv
  <2> QED  BY <2>1, <2>2, <2>3, <2>4, <2>5, IngestTyped DEF SessionNext
<1> QED  BY <1>1, <1>2, PTL DEF SessionSpec

LEMMA SessionTypeHolds == SessionTypeInv => SessionType
<1> SUFFICES ASSUME SessionTypeInv PROVE SessionType  OBVIOUS
<1>1. ASSUME NEW table \in Seq(SessionRow), NEW i \in DOMAIN table
      PROVE  /\ table[i].status \in {"open", "closed", "forced_closed"}
             /\ {table[i].entry, table[i].exit} \subseteq SiteEvents \cup {0}
             /\ {table[i].start, table[i].end} \subseteq Nat
  <2>1. table[i] \in SessionRow
    OBVIOUS
  <2> QED  BY <2>1 DEF SessionRow
<1> QED  BY <1>1 DEF SessionTypeInv, SessionType, RuleRow

-------------------------------------------------------------------------------
(***************************************************************************)
(* Telemetry store: rows, files and events, whatever sizes, limits and     *)
(* batches retention works with.  An attachment looks for its event in the *)
(* transaction that links it, and an eviction drops an event's links with  *)
(* it, so that no link outlives its event.                                 *)
(***************************************************************************)
TelemetrySpec == TelemetryInit /\ [][TelemetryNext]_telemetryVars

TelemetryInv == TelemetryType /\ SnapshotsServed

LEMMA TelemetryInitInv == TelemetryInit => TelemetryInv
<1> SUFFICES ASSUME TelemetryInit PROVE TelemetryInv  OBVIOUS
<1>1. stored \in Seq(StoredEvents) /\ crashes \in 0..MaxCrashes
      /\ {collecting, leaving} \subseteq Nat
  BY StoreAssumption DEF TelemetryInit
<1>2. {target, registered} \subseteq BOOLEAN
  BY DEF TelemetryInit
<1>3. TelemetryType
  BY <1>1, <1>2 DEF TelemetryInit, TelemetryType
<1> QED  BY <1>3 DEF TelemetryInit, TelemetryInv, SnapshotsServed

LEMMA AppendStores ==
  ASSUME stored \in Seq(StoredEvents), NEW e \in StoredEvents,
         stored' = Append(stored, e), NEW f, Stored(f)
  PROVE  Stored(f)'
<1>1. PICK i \in DOMAIN stored : stored[i] = f
  BY DEF Stored
<1>2. i \in DOMAIN stored' /\ stored'[i] = f
  BY <1>1
<1> QED  BY <1>2 DEF Stored

LEMMA CollectKeeps ==
  ASSUME TelemetryInv, NEW e \in StoredEvents, Collect(e)
  PROVE  TelemetryInv'
<1> USE DEF TelemetryInv
<1>1. stored' \in Seq(StoredEvents)
  BY DEF Collect, TelemetryType
<1>2. jobs' \subseteq AttachJob
  <2>1. jobs \subseteq AttachJob /\ Attached[e] \subseteq Contents
    BY StoreAssumption DEF TelemetryType
  <2> QED  BY <2>1 DEF Collect, AttachJob
<1>3. TelemetryType'
  BY <1>1, <1>2 DEF Collect, TelemetryType, collectorVars
<1>4. \A l \in links : Stored(l[1])'
  <2>1. \A l \in links : Stored(l[1])
    BY DEF SnapshotsServed
  <2>2. stored \in Seq(StoredEvents)
    BY DEF TelemetryType
  <2>3. CASE stored' = stored
    BY <2>1, <2>3 DEF Stored
  <2>4. CASE stored' = Append(stored, e)
    BY <2>1, <2>2, <2>4, AppendStores
  <2> QED  BY <2>3, <2>4 DEF Collect
<1>5. SnapshotsServed'
  BY <1>4 DEF Collect, SnapshotsServed
<1> QED  BY <1>3, <1>5

LEMMA AttachKeeps ==
  ASSUME TelemetryInv, NEW j \in jobs, Attach(j)
  PROVE  TelemetryInv'
<1> USE DEF TelemetryInv
<1>1. j \in AttachJob /\ j[2] \in Contents
  BY DEF TelemetryType, AttachJob
<1>2. TelemetryType'
  <2>1. jobs \subseteq AttachJob /\ links \subseteq AttachJob
        /\ {snapshots, onDisk, torn} \subseteq SUBSET Contents
    BY DEF TelemetryType
  <2>2. jobs' \subseteq AttachJob /\ links' \subseteq AttachJob
        /\ {snapshots', onDisk', torn'} \subseteq SUBSET Contents
    BY <1>1, <2>1 DEF Attach
  <2> QED  BY <2>2 DEF Attach, TelemetryType, collectorVars
<1>3. snapshots' \ torn' \subseteq onDisk'
  BY DEF Attach, SnapshotsServed
<1>4. snapshots' = {l[2] : l \in links'}
  BY DEF Attach, SnapshotsServed
<1>5. \A l \in links' : Stored(l[1])'
  BY DEF Attach, SnapshotsServed, Stored
<1> QED  BY <1>2, <1>3, <1>4, <1>5 DEF SnapshotsServed

LEMMA RetentionKeeps ==
  ASSUME TelemetryInv, NEW n \in 0..Len(stored), DeleteEvents(n)
  PROVE  TelemetryInv'
<1> USE DEF TelemetryInv
<1>1. stored \in Seq(StoredEvents)
  BY DEF TelemetryType
<1>2. /\ stored' \in Seq(StoredEvents) /\ Len(stored') = Len(stored) - n
      /\ \A i \in (n + 1)..Len(stored) :
           i - n \in DOMAIN stored' /\ stored'[i - n] = stored[i]
  BY <1>1 DEF DeleteEvents
<1>3. KeptRows(n) \subseteq snapshots
  BY DEF KeptRows
<1>4. TelemetryType'
  BY <1>2, <1>3 DEF DeleteEvents, TelemetryType, collectorVars
<1>5. snapshots' \ torn' \subseteq onDisk'
  BY <1>3 DEF DeleteEvents, SnapshotsServed
<1>6. \A l \in links' : Stored(l[1])'
  BY <1>2 DEF DeleteEvents, Remaining, Stored
<1>7. snapshots' = {l[2] : l \in links'}
  <2>1. CASE n = 0
    <3>1. \A l \in links : l[1] \in Remaining(n)
      BY <1>1, <2>1 DEF SnapshotsServed, Stored, Remaining
    <3> QED  BY <2>1, <3>1 DEF DeleteEvents, KeptRows, SnapshotsServed
  <2>2. CASE n # 0
    BY <2>2 DEF DeleteEvents, KeptRows, SnapshotsServed, Referenced
  <2> QED  BY <2>1, <2>2
<1> QED  BY <1>4, <1>5, <1>6, <1>7 DEF SnapshotsServed

LEMMA ServerEndKeeps == TelemetryInv /\ ServerEnds => TelemetryInv'
<1> SUFFICES ASSUME TelemetryInv, ServerEnds PROVE TelemetryInv'  OBVIOUS
<1> USE DEF TelemetryInv
<1>1. onDisk' \subseteq Contents /\ torn' \subseteq Contents
  <2>1. \A j \in jobs : j[2] \in Contents
    BY DEF TelemetryType, AttachJob
  <2> QED  BY <2>1 DEF ServerEnds, TelemetryType
<1>2. crashes' \in 0..MaxCrashes
  BY StoreAssumption DEF ServerEnds, TelemetryType
<1>3. TelemetryType'
  <2>1. {target', registered'} \subseteq BOOLEAN
    BY DEF ServerEnds
  <2>2. {collecting', leaving'} \subseteq Nat /\ jobs' \subseteq AttachJob
    BY DEF ServerEnds
  <2>3. UNCHANGED <<stored, snapshots, links>>
    BY DEF ServerEnds
  <2> QED  BY <1>1, <1>2, <2>1, <2>2, <2>3 DEF TelemetryType
<1>4. snapshots' \ torn' \subseteq onDisk'
  BY DEF ServerEnds, SnapshotsServed
<1> QED  BY <1>3, <1>4 DEF ServerEnds, SnapshotsServed, Stored

LEMMA CollectorKeeps ==
  ASSUME TelemetryInv, Supervise \/ LeaveLoop \/ Unregister
  PROVE  TelemetryInv'
<1>1. TelemetryType
  BY DEF TelemetryInv
<1>2. /\ {target', registered'} \subseteq BOOLEAN
      /\ {collecting', leaving'} \subseteq Nat
  <2>1. {target', registered'} \subseteq BOOLEAN
    BY <1>1 DEF Supervise, LeaveLoop, Unregister, TelemetryType
  <2>2. {collecting', leaving'} \subseteq Nat
    <3>1. collecting \in Nat /\ leaving \in Nat
      BY <1>1 DEF TelemetryType
    <3> QED  BY <3>1 DEF Supervise, LeaveLoop, Unregister
  <2> QED  BY <2>1, <2>2
<1>3. UNCHANGED storeVars
  BY DEF Supervise, LeaveLoop, Unregister
<1>4. TelemetryType'
  BY <1>1, <1>2, <1>3 DEF TelemetryType, storeVars
<1> QED  BY <1>3, <1>4 DEF TelemetryInv, SnapshotsServed, Stored, storeVars

-------------------------------------------------------------------------------
(***************************************************************************)
(* The bytes of a set of snapshots: MapThenSumSet picks one content after  *)
(* another, in an order of its own.  A function on the subsets solves its  *)
(* recursion, any content may be taken out first, and so a set has no fewer *)
(* bytes than its subsets.                                                 *)
(***************************************************************************)

Chosen(s) == CHOOSE c \in s : TRUE

Adds(g, s) == IF s = {} THEN 0 ELSE Size[Chosen(s)] + g[s \ {Chosen(s)}]

Totals(g, S) == g = [s \in SUBSET S |-> Adds(g, s)]

SnapshotBytes(kept) == MapThenSumSet(LAMBDA c : Size[c], kept)

LEMMA SmallerSubset ==
  ASSUME NEW s, IsFiniteSet(s), s # {}
  PROVE  /\ Chosen(s) \in s /\ IsFiniteSet(s \ {Chosen(s)})
         /\ Cardinality(s) \in Nat
         /\ Cardinality(s \ {Chosen(s)}) = Cardinality(s) - 1
<1>1. Chosen(s) \in s
  BY DEF Chosen
<1> QED  BY <1>1, FS_RemoveElement, FS_CardinalityType

LEMMA TotalsExist ==
  ASSUME NEW S, IsFiniteSet(S)
  PROVE  \E g : Totals(g, S)
<1> DEFINE Upto(m) == {s \in SUBSET S : Cardinality(s) <= m}
           Solved == {m \in Nat : \E g : g = [s \in Upto(m) |-> Adds(g, s)]}
<1>1. \A s \in SUBSET S : IsFiniteSet(s) /\ Cardinality(s) \in Nat
  BY FS_Subset, FS_CardinalityType
<1>2. 0 \in Solved
  <2> DEFINE g == [s \in Upto(0) |-> 0]
  <2>1. \A s \in Upto(0) : s = {}
    BY <1>1, FS_EmptySet
  <2>2. g = [s \in Upto(0) |-> Adds(g, s)]
    BY <2>1 DEF Adds
  <2> QED  BY <2>2
<1>3. ASSUME NEW m \in Nat, m \in Solved PROVE m + 1 \in Solved
  <2>1. PICK g : g = [s \in Upto(m) |-> Adds(g, s)]
    BY <1>3
  <2> DEFINE h == [s \in Upto(m + 1) |-> Adds(g, s)]
  <2>2. ASSUME NEW s \in Upto(m + 1) PROVE h[s] = Adds(h, s)
    <3> DEFINE r == s \ {Chosen(s)}
    <3>1. CASE s = {}
      BY <3>1 DEF Adds
    <3>2. CASE s # {}
      <4>1. r \in Upto(m) /\ r \in Upto(m + 1)
        BY <1>1, <3>2, SmallerSubset
      <4>2. h[r] = g[r]
        <5>1. g[r] = Adds(g, r)
          BY <2>1, <4>1
        <5> QED  BY <4>1, <5>1
      <4>3. h[s] = Adds(g, s)
        OBVIOUS
      <4> HIDE DEF h
      <4> QED  BY <3>2, <4>2, <4>3 DEF Adds
    <3> QED  BY <3>1, <3>2
  <2>3. h = [s \in Upto(m + 1) |-> Adds(h, s)]
    <3>1. h = [s \in Upto(m + 1) |-> h[s]]
      OBVIOUS
    <3> HIDE DEF h, Upto
    <3> QED  BY <2>2, <3>1
  <2>4. \E f : f = [s \in Upto(m + 1) |-> Adds(f, s)]
    <3> HIDE DEF h
    <3> QED  BY <2>3
  <2> HIDE DEF Upto
  <2> QED  BY <2>4
<1>4. Cardinality(S) \in Solved
  <2>1. Cardinality(S) \in Nat
    BY FS_CardinalityType
  <2> HIDE DEF Solved
  <2> QED  BY <1>2, <1>3, <2>1, NatSetInduction
<1>5. Upto(Cardinality(S)) = SUBSET S
  BY <1>1, FS_Subset
<1> HIDE DEF Upto
<1> QED  BY <1>4, <1>5 DEF Totals

LEMMA TotalsAgree ==
  ASSUME NEW S, NEW T \in SUBSET S, IsFiniteSet(S),
         NEW g, Totals(g, T), NEW h, Totals(h, S)
  PROVE  \A s \in SUBSET T : g[s] = h[s]
<1> DEFINE Agree == {m \in Nat : \A s \in SUBSET T : Cardinality(s) = m => g[s] = h[s]}
<1>1. \A s \in SUBSET T : /\ IsFiniteSet(s) /\ Cardinality(s) \in Nat
                          /\ g[s] = Adds(g, s) /\ h[s] = Adds(h, s)
  BY FS_Subset, FS_CardinalityType DEF Totals
<1>2. 0 \in Agree
  <2>1. \A s \in SUBSET T : Cardinality(s) = 0 => s = {}
    BY <1>1, FS_EmptySet
  <2> QED  BY <1>1, <2>1 DEF Adds
<1>3. ASSUME NEW m \in Nat, m \in Agree PROVE m + 1 \in Agree
  <2> SUFFICES ASSUME NEW s \in SUBSET T, Cardinality(s) = m + 1 PROVE g[s] = h[s]
    OBVIOUS
  <2> DEFINE r == s \ {Chosen(s)}
  <2>1. s # {}
    BY <1>1, FS_EmptySet
  <2>2. r \in SUBSET T /\ Cardinality(r) = m
    BY <1>1, <2>1, SmallerSubset
  <2>3. g[r] = h[r]
    BY <1>3, <2>2
  <2> QED  BY <1>1, <2>1, <2>3 DEF Adds
<1>4. Nat \subseteq Agree
  <2> HIDE DEF Agree
  <2> QED  BY <1>2, <1>3, NatSetInduction
<1> QED  BY <1>1, <1>4

LEMMA BytesUnfold ==
  ASSUME NEW S, IsFiniteSet(S)
  PROVE  \E g : Totals(g, S) /\ SnapshotBytes(S) = g[S]
<1> DEFINE g == CHOOSE f : Totals(f, S)
<1>1. Totals(g, S)
  BY TotalsExist
<1>2. SnapshotBytes(S) = g[S]
  BY DEF SnapshotBytes, MapThenSumSet, MapThenFoldSet, Totals, Adds, Chosen
<1> HIDE DEF g
<1> QED  BY <1>1, <1>2

LEMMA TotalsAdd ==
  ASSUME NEW S \in SUBSET Contents, IsFiniteSet(S), NEW g, Totals(g, S)
  PROVE  /\ g[{}] = 0
         /\ \A s \in SUBSET S : g[s] \in Nat
         /\ \A s \in SUBSET S : \A y \in s : g[s] = Size[y] + g[s \ {y}]
<1>1. \A s \in SUBSET S : /\ IsFiniteSet(s) /\ Cardinality(s) \in Nat
                          /\ g[s] = Adds(g, s)
  BY FS_Subset, FS_CardinalityType DEF Totals
<1>2. \A c \in S : Size[c] \in Nat
  BY StoreAssumption
<1>3. g[{}] = 0
  BY <1>1 DEF Adds
<1> DEFINE Typed == {m \in Nat : \A s \in SUBSET S : Cardinality(s) = m => g[s] \in Nat}
           Good == {m \in Nat : \A s \in SUBSET S :
                      Cardinality(s) = m => \A y \in s : g[s] = Size[y] + g[s \ {y}]}
<1>4. \A s \in SUBSET S : Cardinality(s) = 0 => s = {}
  BY <1>1, FS_EmptySet
<1>5. ASSUME NEW m \in Nat, NEW s \in SUBSET S, Cardinality(s) = m + 1
      PROVE  /\ Chosen(s) \in s /\ g[s] = Size[Chosen(s)] + g[s \ {Chosen(s)}]
             /\ \A y \in s : s \ {y} \in SUBSET S /\ Cardinality(s \ {y}) = m
  <2>1. s # {}
    BY <1>1, <1>5, FS_EmptySet
  <2>2. ASSUME NEW y \in s PROVE s \ {y} \in SUBSET S /\ Cardinality(s \ {y}) = m
    BY <1>1, <1>5, FS_RemoveElement
  <2>3. Chosen(s) \in s
    BY <1>1, <2>1, SmallerSubset
  <2> QED  BY <1>1, <2>1, <2>2, <2>3 DEF Adds
<1>6. Nat \subseteq Typed
  <2>1. 0 \in Typed
    BY <1>3, <1>4
  <2>2. ASSUME NEW m \in Nat, m \in Typed PROVE m + 1 \in Typed
    <3> SUFFICES ASSUME NEW s \in SUBSET S, Cardinality(s) = m + 1 PROVE g[s] \in Nat
      OBVIOUS
    <3>1. /\ Chosen(s) \in s /\ g[s] = Size[Chosen(s)] + g[s \ {Chosen(s)}]
          /\ s \ {Chosen(s)} \in SUBSET S /\ Cardinality(s \ {Chosen(s)}) = m
      BY <1>5
    <3>2. g[s \ {Chosen(s)}] \in Nat /\ Size[Chosen(s)] \in Nat
      BY <1>2, <2>2, <3>1
    <3> QED  BY <3>1, <3>2
  <2> HIDE DEF Typed
  <2> QED  BY <2>1, <2>2, NatSetInduction
<1>7. \A s \in SUBSET S : g[s] \in Nat
  BY <1>1, <1>6
<1>8. Nat \subseteq Good
  <2>1. 0 \in Good
    BY <1>4
  <2>2. ASSUME NEW m \in Nat, m \in Good PROVE m + 1 \in Good
    <3> SUFFICES ASSUME NEW s \in SUBSET S, Cardinality(s) = m + 1, NEW y \in s
                 PROVE  g[s] = Size[y] + g[s \ {y}]
      OBVIOUS
    <3> DEFINE x == Chosen(s)
    <3>1. x \in s /\ g[s] = Size[x] + g[s \ {x}]
      BY <1>5
    <3> HIDE DEF x
    <3>2. CASE y = x
      BY <3>1, <3>2
    <3>3. CASE y # x
      <4>1. /\ s \ {x} \in SUBSET S /\ Cardinality(s \ {x}) = m /\ y \in s \ {x}
            /\ s \ {y} \in SUBSET S /\ Cardinality(s \ {y}) = m /\ x \in s \ {y}
        BY <1>5, <3>1, <3>3
      <4>2. g[s \ {x}] = Size[y] + g[(s \ {x}) \ {y}]
        BY <2>2, <4>1
      <4>3. g[s \ {y}] = Size[x] + g[(s \ {y}) \ {x}]
        BY <2>2, <4>1
      <4>4. (s \ {y}) \ {x} = (s \ {x}) \ {y} /\ (s \ {x}) \ {y} \in SUBSET S
        OBVIOUS
      <4>5. g[(s \ {x}) \ {y}] \in Nat /\ Size[x] \in Nat /\ Size[y] \in Nat
        BY <1>2, <1>7, <3>1, <4>4
      <4>6. /\ g[s] = Size[x] + (Size[y] + g[(s \ {x}) \ {y}])
            /\ g[s \ {y}] = Size[x] + g[(s \ {x}) \ {y}]
        BY <3>1, <4>2, <4>3, <4>4
      <4> QED  BY <4>5, <4>6
    <3> QED  BY <3>2, <3>3
  <2> HIDE DEF Good
  <2> QED  BY <2>1, <2>2, NatSetInduction
<1>9. ASSUME NEW s \in SUBSET S, NEW y \in s PROVE g[s] = Size[y] + g[s \ {y}]
  BY <1>1, <1>8
<1> QED  BY <1>3, <1>7, <1>9

(* A set has no fewer bytes than its subsets. *)
LEMMA BytesMonotone ==
  ASSUME NEW S \in SUBSET Contents, IsFiniteSet(S), NEW T \in SUBSET S
  PROVE  /\ SnapshotBytes(S) \in Nat /\ SnapshotBytes(T) \in Nat
         /\ SnapshotBytes(T) <= SnapshotBytes(S)
         /\ SnapshotBytes({}) = 0
<1>1. PICK g : Totals(g, S) /\ SnapshotBytes(S) = g[S]
  BY BytesUnfold
<1>2. ASSUME NEW U \in SUBSET S PROVE SnapshotBytes(U) = g[U]
  <2>1. IsFiniteSet(U)
    BY FS_Subset
  <2>2. PICK h : Totals(h, U) /\ SnapshotBytes(U) = h[U]
    BY <2>1, BytesUnfold
  <2>3. \A s \in SUBSET U : h[s] = g[s]
    BY <1>1, <2>2, TotalsAgree
  <2> QED  BY <2>2, <2>3
<1>3. /\ g[{}] = 0
      /\ \A s \in SUBSET S : g[s] \in Nat
      /\ \A s \in SUBSET S : \A y \in s : g[s] = Size[y] + g[s \ {y}]
  BY <1>1, TotalsAdd
<1>4. \A c \in S : Size[c] \in Nat
  BY StoreAssumption
<1> DEFINE Grown == {W \in SUBSET S : g[T] <= g[T \cup W]}
<1>5. {} \in Grown
  BY <1>3
<1>6. ASSUME NEW W \in SUBSET S, NEW x \in S, W \in Grown, x \notin W
      PROVE  W \cup {x} \in Grown
  <2>1. CASE x \in T
    <3>1. T \cup (W \cup {x}) = T \cup W
      BY <2>1
    <3> QED  BY <1>6, <3>1
  <2>2. CASE x \notin T
    <3> DEFINE V == T \cup (W \cup {x})
    <3>1. V \ {x} = T \cup W /\ V \in SUBSET S /\ T \cup W \in SUBSET S /\ x \in V
      BY <1>6, <2>2
    <3> HIDE DEF V
    <3>2. g[V] = Size[x] + g[T \cup W]
      BY <1>3, <3>1
    <3>3. g[T] <= g[V]
      BY <1>3, <1>4, <1>6, <3>1, <3>2
    <3> QED  BY <3>3 DEF V
  <2> QED  BY <2>1, <2>2
<1>7. S \in Grown
  <2> HIDE DEF Grown
  <2> QED  BY <1>5, <1>6, FiniteSetInduction
<1>8. T \cup S = S /\ {} \in SUBSET S
  OBVIOUS
<1> QED  BY <1>2, <1>3, <1>7, <1>8

-------------------------------------------------------------------------------
(* Both eviction loops look at the batch that follows the n evicted events. *)
Bytes(g, n) ==
    IF BytesAfter(n) < High \/ OldestBatch(n) = 0 THEN n
    ELSE LET m == n + OldestBatch(n)
         IN IF BytesAfter(m) <= Low THEN m ELSE g[m]

Disk(g, n) == IF OldestBatch(n) = 0 THEN {n} ELSE {n} \cup g[n + OldestBatch(n)]

LEMMA BatchBounds ==
  ASSUME stored \in Seq(StoredEvents), NEW n \in 0..Len(stored)
  PROVE  /\ OldestBatch(n) \in 0..(Len(stored) - n)
         /\ OldestBatch(n) = 0 <=> n = Len(stored)
<1> DEFINE rest == Len(stored) - n
<1>1. rest \in Nat /\ (rest = 0 <=> n = Len(stored)) /\ Batch \in Nat /\ Batch # 0
  BY StoreAssumption
<1>2. OldestBatch(n) = IF rest = 0 THEN 0 ELSE IF rest = 1 THEN 1 ELSE Min({Batch, rest - 1})
  BY DEF OldestBatch
<1> HIDE DEF rest
<1>3. rest > 1 => Min({Batch, rest - 1}) \in 1..rest
  <2> SUFFICES ASSUME rest > 1 PROVE Min({Batch, rest - 1}) \in 1..rest
    OBVIOUS
  <2>1. \E x \in {Batch, rest - 1} : \A y \in {Batch, rest - 1} : x =< y
    BY <1>1
  <2>2. Min({Batch, rest - 1}) \in {Batch, rest - 1}
         /\ \A y \in {Batch, rest - 1} : Min({Batch, rest - 1}) =< y
    BY <2>1 DEF Min
  <2> QED  BY <1>1, <2>2
<1>4. OldestBatch(n) \in 0..rest /\ (OldestBatch(n) = 0 <=> rest = 0)
  BY <1>1, <1>2, <1>3
<1> QED  BY <1>1, <1>4 DEF rest

(* Each loop ends: a batch that is not empty moves on. *)
LEMMA LoopsSolved ==
  ASSUME stored \in Seq(StoredEvents)
  PROVE  /\ EvictBytes = [n \in 0..Len(stored) |-> Bytes(EvictBytes, n)]
         /\ EvictDisk = [n \in 0..Len(stored) |-> Disk(EvictDisk, n)]
<1> DEFINE end == Len(stored)
           From(k) == {n \in 0..end : end - n <= k}
           Solved == {k \in Nat :
                        /\ \E g : g = [n \in From(k) |-> Bytes(g, n)]
                        /\ \E g : g = [n \in From(k) |-> Disk(g, n)]}
<1>1. end \in Nat
  OBVIOUS
<1>2. 0 \in Solved
  <2>1. \A n \in From(0) : OldestBatch(n) = 0
    BY BatchBounds
  <2>2. \E g : g = [n \in From(0) |-> Bytes(g, n)]
    <3> DEFINE g == [n \in From(0) |-> n]
    <3>1. g = [n \in From(0) |-> Bytes(g, n)]
      BY <2>1 DEF Bytes
    <3> QED  BY <3>1
  <2>3. \E g : g = [n \in From(0) |-> Disk(g, n)]
    <3> DEFINE g == [n \in From(0) |-> {n}]
    <3>1. g = [n \in From(0) |-> Disk(g, n)]
      BY <2>1 DEF Disk
    <3> QED  BY <3>1
  <2> HIDE DEF From
  <2> QED  BY <2>2, <2>3
<1>3. ASSUME NEW k \in Nat, k \in Solved PROVE k + 1 \in Solved
  <2>1. ASSUME NEW n \in From(k + 1), OldestBatch(n) # 0
        PROVE  n + OldestBatch(n) \in From(k) /\ n + OldestBatch(n) \in From(k + 1)
    <3>1. OldestBatch(n) \in 1..(end - n)
      BY <2>1, BatchBounds
    <3> QED  BY <1>1, <3>1
  <2>2. \E g : g = [n \in From(k + 1) |-> Bytes(g, n)]
    <3>1. PICK g : g = [n \in From(k) |-> Bytes(g, n)]
      BY <1>3
    <3> DEFINE h == [n \in From(k + 1) |-> Bytes(g, n)]
    <3>2. \A n \in From(k) : n \in From(k + 1) /\ h[n] = g[n]
      <4>1. \A n \in From(k) : n \in From(k + 1)
        BY <1>1
      <4> HIDE DEF From
      <4> QED  BY <3>1, <4>1
    <3>3. ASSUME NEW n \in From(k + 1) PROVE Bytes(g, n) = Bytes(h, n)
      <4> HIDE DEF h, From
      <4> QED  BY <2>1, <3>2 DEF Bytes
    <3>4. h = [n \in From(k + 1) |-> Bytes(h, n)]
      <4>1. h = [n \in From(k + 1) |-> Bytes(g, n)]
        OBVIOUS
      <4> HIDE DEF h, From
      <4> QED  BY <3>3, <4>1
    <3> HIDE DEF h, From
    <3> QED  BY <3>4
  <2>3. \E g : g = [n \in From(k + 1) |-> Disk(g, n)]
    <3>1. PICK g : g = [n \in From(k) |-> Disk(g, n)]
      BY <1>3
    <3> DEFINE h == [n \in From(k + 1) |-> Disk(g, n)]
    <3>2. \A n \in From(k) : n \in From(k + 1) /\ h[n] = g[n]
      <4>1. \A n \in From(k) : n \in From(k + 1)
        BY <1>1
      <4> HIDE DEF From
      <4> QED  BY <3>1, <4>1
    <3>3. ASSUME NEW n \in From(k + 1) PROVE Disk(g, n) = Disk(h, n)
      <4> HIDE DEF h, From
      <4> QED  BY <2>1, <3>2 DEF Disk
    <3>4. h = [n \in From(k + 1) |-> Disk(h, n)]
      <4>1. h = [n \in From(k + 1) |-> Disk(g, n)]
        OBVIOUS
      <4> HIDE DEF h, From
      <4> QED  BY <3>3, <4>1
    <3> HIDE DEF h, From
    <3> QED  BY <3>4
  <2> HIDE DEF From
  <2> QED  BY <2>2, <2>3
<1>4. end \in Solved
  <2> HIDE DEF Solved
  <2> QED  BY <1>1, <1>2, <1>3, NatSetInduction
<1>5. From(end) = 0..end
  BY <1>1
<1> HIDE DEF From
<1>6. /\ \E g : g = [n \in 0..end |-> Bytes(g, n)]
      /\ \E g : g = [n \in 0..end |-> Disk(g, n)]
  BY <1>4, <1>5
<1>7. EvictBytes = [n \in 0..end |-> Bytes(EvictBytes, n)]
  <2>1. EvictBytes = CHOOSE g : g = [n \in 0..end |-> Bytes(g, n)]
    BY DEF EvictBytes, Bytes
  <2> QED  BY <1>6, <2>1
<1>8. EvictDisk = [n \in 0..end |-> Disk(EvictDisk, n)]
  <2>1. EvictDisk = CHOOSE g : g = [n \in 0..end |-> Disk(g, n)]
    BY DEF EvictDisk, Disk
  <2> QED  BY <1>6, <2>1
<1> QED  BY <1>7, <1>8

(* The byte loop stops at the budget, or with nothing left to evict. *)
LEMMA BytesLoopStops ==
  ASSUME stored \in Seq(StoredEvents), NEW n \in 0..Len(stored)
  PROVE  /\ EvictBytes[n] \in n..Len(stored)
         /\ \/ BytesAfter(EvictBytes[n]) < High
            \/ BytesAfter(EvictBytes[n]) <= Low
            \/ EvictBytes[n] = Len(stored)
<1> DEFINE end == Len(stored)
           Stops(i, m) == /\ m \in i..end
                          /\ BytesAfter(m) < High \/ BytesAfter(m) <= Low \/ m = end
           Done == {k \in Nat : \A i \in 0..end : end - i <= k => Stops(i, EvictBytes[i])}
<1>1. end \in Nat
  OBVIOUS
<1>2. ASSUME NEW i \in 0..end
      PROVE  /\ EvictBytes[i] = Bytes(EvictBytes, i)
             /\ OldestBatch(i) \in 0..(end - i) /\ (OldestBatch(i) = 0 <=> i = end)
  <2>1. EvictBytes = [j \in 0..end |-> Bytes(EvictBytes, j)]
    BY LoopsSolved
  <2> HIDE DEF end
  <2>2. EvictBytes[i] = Bytes(EvictBytes, i)
    BY <2>1
  <2> QED  BY <2>2, BatchBounds DEF end
<1>3. ASSUME NEW i \in 0..end, BytesAfter(i) < High \/ OldestBatch(i) = 0
      PROVE  Stops(i, EvictBytes[i])
  <2>1. EvictBytes[i] = i
    BY <1>2, <1>3 DEF Bytes
  <2> HIDE DEF end
  <2> QED  BY <1>1, <1>2, <1>3, <2>1
<1>4. 0 \in Done
  <2>1. ASSUME NEW i \in 0..end, end - i <= 0 PROVE OldestBatch(i) = 0
    BY <1>1, <1>2, <2>1
  <2> HIDE DEF Stops, end
  <2> QED  BY <1>3, <2>1
<1>5. ASSUME NEW k \in Nat, k \in Done PROVE k + 1 \in Done
  <2> SUFFICES ASSUME NEW i \in 0..end, end - i <= k + 1 PROVE Stops(i, EvictBytes[i])
    OBVIOUS
  <2>1. CASE BytesAfter(i) < High \/ OldestBatch(i) = 0
    BY <1>3, <2>1
  <2>2. CASE ~(BytesAfter(i) < High \/ OldestBatch(i) = 0)
    <3> DEFINE m == i + OldestBatch(i)
    <3>1. m \in (i + 1)..end /\ end - m <= k
      <4>1. OldestBatch(i) \in 1..(end - i)
        BY <1>1, <1>2, <2>2
      <4> QED  BY <1>1, <4>1
    <3>2. EvictBytes[i] = IF BytesAfter(m) <= Low THEN m ELSE EvictBytes[m]
      BY <1>2, <2>2 DEF Bytes
    <3>3. Stops(m, EvictBytes[m])
      BY <1>5, <3>1
    <3> HIDE DEF m, end
    <3> QED  BY <1>1, <3>1, <3>2, <3>3
  <2> QED  BY <2>1, <2>2
<1>6. Nat \subseteq Done
  <2> HIDE DEF Done
  <2> QED  BY <1>4, <1>5, NatSetInduction
<1>7. n \in 0..end /\ end - n \in Nat
  BY <1>1
<1>8. Stops(n, EvictBytes[n])
  <2> HIDE DEF Stops, end
  <2> QED  BY <1>6, <1>7
<1> QED  BY <1>8

(* The disk loop takes nothing back. *)
LEMMA DiskLoopGoesOn ==
  ASSUME stored \in Seq(StoredEvents), NEW n \in 0..Len(stored)
  PROVE  EvictDisk[n] \subseteq n..Len(stored)
<1> DEFINE end == Len(stored)
           Done == {k \in Nat : \A i \in 0..end : end - i <= k => EvictDisk[i] \subseteq i..end}
<1>1. end \in Nat
  OBVIOUS
<1>2. ASSUME NEW i \in 0..end
      PROVE  /\ EvictDisk[i] = Disk(EvictDisk, i)
             /\ OldestBatch(i) \in 0..(end - i) /\ (OldestBatch(i) = 0 <=> i = end)
  <2>1. EvictDisk = [j \in 0..end |-> Disk(EvictDisk, j)]
    BY LoopsSolved
  <2> HIDE DEF end
  <2>2. EvictDisk[i] = Disk(EvictDisk, i)
    BY <2>1
  <2> QED  BY <2>2, BatchBounds DEF end
<1>3. ASSUME NEW i \in 0..end, OldestBatch(i) = 0 PROVE EvictDisk[i] \subseteq i..end
  <2>1. EvictDisk[i] = {i}
    BY <1>2, <1>3 DEF Disk
  <2> HIDE DEF end
  <2> QED  BY <1>1, <2>1
<1>4. 0 \in Done
  <2>1. ASSUME NEW i \in 0..end, end - i <= 0 PROVE OldestBatch(i) = 0
    BY <1>1, <1>2, <2>1
  <2> HIDE DEF end
  <2> QED  BY <1>3, <2>1
<1>5. ASSUME NEW k \in Nat, k \in Done PROVE k + 1 \in Done
  <2> SUFFICES ASSUME NEW i \in 0..end, end - i <= k + 1 PROVE EvictDisk[i] \subseteq i..end
    OBVIOUS
  <2>1. CASE OldestBatch(i) = 0
    BY <1>3, <2>1
  <2>2. CASE OldestBatch(i) # 0
    <3> DEFINE m == i + OldestBatch(i)
    <3>1. m \in (i + 1)..end /\ end - m <= k
      <4>1. OldestBatch(i) \in 1..(end - i)
        BY <1>1, <1>2, <2>2
      <4> QED  BY <1>1, <4>1
    <3>2. EvictDisk[i] = {i} \cup EvictDisk[m]
      BY <1>2, <2>2 DEF Disk
    <3>3. EvictDisk[m] \subseteq m..end
      BY <1>5, <3>1
    <3> HIDE DEF m, end
    <3> QED  BY <1>1, <3>1, <3>2, <3>3
  <2> QED  BY <2>1, <2>2
<1>6. Nat \subseteq Done
  <2> HIDE DEF Done
  <2> QED  BY <1>4, <1>5, NatSetInduction
<1>7. end - n \in Nat
  BY <1>1
<1> QED  BY <1>6, <1>7

(* What a pass deletes: the events above the limit, and enough of the rest. *)
LEMMA EvictedBounds ==
  ASSUME stored \in Seq(StoredEvents), NEW aged \in 0..Len(stored), NEW n \in Evicted(aged)
  PROVE  /\ n \in 0..Len(stored) /\ Len(stored) - n <= MaxEvents
         /\ \E m \in 0..n : \/ BytesAfter(m) < High
                            \/ BytesAfter(m) <= Low
                            \/ m = Len(stored)
<1> DEFINE end == Len(stored)
           counted == Max({aged, end - MaxEvents})
           sized == EvictBytes[counted]
<1>1. end \in Nat /\ MaxEvents \in Nat
  BY StoreAssumption
<1>2. counted \in 0..end /\ counted >= end - MaxEvents
  <2>1. \E x \in {aged, end - MaxEvents} : \A y \in {aged, end - MaxEvents} : x >= y
    BY <1>1
  <2>2. counted \in {aged, end - MaxEvents} /\ \A y \in {aged, end - MaxEvents} : counted >= y
    BY <2>1 DEF Max
  <2> QED  BY <1>1, <2>2
<1>3. /\ sized \in counted..end
      /\ BytesAfter(sized) < High \/ BytesAfter(sized) <= Low \/ sized = end
  <2> HIDE DEF counted
  <2> QED  BY <1>2, BytesLoopStops
<1>4. n \in EvictDisk[sized]
  BY DEF Evicted
<1>5. n \in sized..end
  <2> HIDE DEF sized, counted
  <2>1. sized \in 0..end
    BY <1>1, <1>2, <1>3
  <2> QED  BY <1>4, <2>1, DiskLoopGoesOn
<1> HIDE DEF sized, counted
<1>6. n \in 0..end /\ end - n <= MaxEvents /\ sized \in 0..n
  <2> HIDE DEF end
  <2> QED  BY <1>1, <1>2, <1>3, <1>5
<1> QED  BY <1>3, <1>6

LEMMA StoreStepKeeps ==
  TelemetryInv /\ [TelemetryNext]_telemetryVars => TelemetryInv'
<1> SUFFICES ASSUME TelemetryInv, [TelemetryNext]_telemetryVars PROVE TelemetryInv'
  OBVIOUS
<1>1. ASSUME NEW j \in jobs, FetchFails(j) PROVE TelemetryInv'
  BY <1>1 DEF FetchFails, TelemetryInv, TelemetryType, SnapshotsServed, Stored,
              collectorVars
<1>2. CASE EnforceRetention
  <2>1. PICK aged \in 0..Len(stored) : \E n \in Evicted(aged) : DeleteEvents(n)
    BY <1>2 DEF EnforceRetention
  <2>2. PICK n \in Evicted(aged) : DeleteEvents(n)
    BY <2>1
  <2>3. n \in 0..Len(stored)
    BY EvictedBounds DEF TelemetryInv, TelemetryType
  <2> QED  BY <2>2, <2>3, RetentionKeeps
<1>3. CASE UNCHANGED telemetryVars
  BY <1>3 DEF telemetryVars, storeVars, collectorVars, TelemetryInv, TelemetryType,
              SnapshotsServed, Stored
<1> QED
  BY <1>1, <1>2, <1>3, CollectKeeps, AttachKeeps, ServerEndKeeps, CollectorKeeps
  DEF TelemetryNext

(***************************************************************************)
(* Every snapshot row belongs to an event that is still stored and has its *)
(* file, unless a crash interrupted its eviction.                          *)
(***************************************************************************)
THEOREM SnapshotsAreServed == TelemetrySpec => []SnapshotsServed
<1>1. TelemetryInv => SnapshotsServed
  BY DEF TelemetryInv
<1> QED  BY <1>1, TelemetryInitInv, StoreStepKeeps, PTL DEF TelemetrySpec

LEMMA LogicalSplit ==
  ASSUME NEW remaining, NEW kept
  PROVE  LogicalBytes(remaining, kept) = Cardinality(remaining) + SnapshotBytes(kept)
BY DEF LogicalBytes, SnapshotBytes

LEMMA BytesSplit ==
  /\ \A n : BytesAfter(n) = Cardinality(Remaining(n)) + SnapshotBytes(KeptRows(n))
  /\ BytesAfter(0)' = Cardinality(Remaining(0)') + SnapshotBytes(KeptRows(0)')
BY LogicalSplit DEF BytesAfter

(* Evicting more leaves no more bytes, and evicting everything leaves none. *)
LEMMA BytesShrink ==
  ASSUME TelemetryInv, IsFiniteSet(snapshots),
         NEW n \in 0..Len(stored), NEW m \in 0..n
  PROVE  /\ BytesAfter(n) \in Nat /\ BytesAfter(m) \in Nat
         /\ BytesAfter(n) <= BytesAfter(m)
         /\ n = Len(stored) => BytesAfter(n) = 0
<1>1. stored \in Seq(StoredEvents) /\ Len(stored) \in Nat /\ snapshots \subseteq Contents
  BY DEF TelemetryInv, TelemetryType
<1>2. IsFiniteSet(Remaining(m)) /\ Remaining(n) \subseteq Remaining(m)
  <2>1. IsFiniteSet((m + 1)..Len(stored))
    BY <1>1, FS_Interval
  <2>2. IsFiniteSet(Remaining(m))
    <3> DEFINE I == (m + 1)..Len(stored)
               f == [i \in I |-> stored[i]]
    <3>1. f \in Surjection(I, Remaining(m))
      BY DEF Remaining, Surjection
    <3> QED  BY <2>1, <3>1, FS_Surjection DEF ExistsSurjection
  <2>3. (n + 1)..Len(stored) \subseteq (m + 1)..Len(stored)
    BY <1>1
  <2> QED  BY <2>2, <2>3 DEF Remaining
<1>3. /\ IsFiniteSet(Remaining(n))
      /\ Cardinality(Remaining(n)) \in Nat /\ Cardinality(Remaining(m)) \in Nat
      /\ Cardinality(Remaining(n)) <= Cardinality(Remaining(m))
  BY <1>2, FS_Subset, FS_CardinalityType
<1>4. KeptRows(m) \subseteq snapshots /\ KeptRows(n) \subseteq KeptRows(m)
  <2>1. Referenced(Remaining(n)) \subseteq Referenced(Remaining(m))
    BY <1>2 DEF Referenced
  <2>2. n = 0 => m = 0
    OBVIOUS
  <2> QED  BY <2>1, <2>2 DEF KeptRows
<1>5. IsFiniteSet(KeptRows(m))
  BY <1>4, FS_Subset
<1>6. /\ SnapshotBytes(KeptRows(m)) \in Nat /\ SnapshotBytes(KeptRows(n)) \in Nat
      /\ SnapshotBytes(KeptRows(n)) <= SnapshotBytes(KeptRows(m))
  BY <1>1, <1>4, <1>5, BytesMonotone
<1>7. /\ BytesAfter(n) = Cardinality(Remaining(n)) + SnapshotBytes(KeptRows(n))
      /\ BytesAfter(m) = Cardinality(Remaining(m)) + SnapshotBytes(KeptRows(m))
  BY BytesSplit
<1>8. ASSUME n = Len(stored) PROVE Remaining(n) = {} /\ KeptRows(n) = {}
  <2>1. Remaining(n) = {}
    BY <1>1, <1>8 DEF Remaining
  <2>2. CASE n = 0
    <3>1. DOMAIN stored = {}
      <4>1. DOMAIN stored = 1..Len(stored)
        BY <1>1
      <4> QED  BY <1>8, <2>2, <4>1
    <3>2. links = {}
      BY <3>1 DEF TelemetryInv, SnapshotsServed, Stored
    <3> QED  BY <2>2, <2>1, <3>2 DEF KeptRows, TelemetryInv, SnapshotsServed
  <2>3. CASE n # 0
    BY <2>1, <2>3 DEF KeptRows, Referenced
  <2> QED  BY <2>1, <2>2, <2>3
<1>9. Cardinality({}) = 0 /\ SnapshotBytes({}) = 0
  BY BytesMonotone, FS_EmptySet
<1>10. ASSUME n = Len(stored) PROVE BytesAfter(n) = 0
  <2>1. Remaining(n) = {} /\ KeptRows(n) = {}
    BY <1>8, <1>10
  <2> QED  BY <1>7, <1>9, <2>1
<1> QED  BY <1>3, <1>6, <1>7, <1>10

LEMMA SnapshotsFinite ==
  ASSUME IsFiniteSet(snapshots), [TelemetryNext]_telemetryVars
  PROVE  IsFiniteSet(snapshots')
<1>1. \/ snapshots' \subseteq snapshots
      \/ \E j \in jobs : snapshots' = snapshots \cup {j[2]}
  BY DEF TelemetryNext, telemetryVars, storeVars, Collect, FetchFails, Attach,
         EnforceRetention, DeleteEvents, KeptRows, ServerEnds, Supervise, LeaveLoop,
         Unregister
<1> QED  BY <1>1, FS_Subset, FS_AddElement

(* A pass of retention, from a store that is as its invariant says. *)
LEMMA RetentionReachesLimits ==
  ASSUME TelemetryInv, IsFiniteSet(snapshots), Low < High, EnforceRetention
  PROVE  WithinLimits'
<1>1. stored \in Seq(StoredEvents) /\ Len(stored) \in Nat
  BY DEF TelemetryInv, TelemetryType
<1>2. Low \in Nat /\ High \in Nat /\ MaxEvents \in Nat
  BY StoreAssumption
<1>3. PICK aged \in 0..Len(stored) : \E n \in Evicted(aged) : DeleteEvents(n)
  BY DEF EnforceRetention
<1>4. PICK n \in Evicted(aged) : DeleteEvents(n)
  BY <1>3
<1>5. n \in 0..Len(stored) /\ Len(stored) - n <= MaxEvents
  BY <1>1, EvictedBounds
<1>6. PICK m \in 0..n : \/ BytesAfter(m) < High
                       \/ BytesAfter(m) <= Low
                       \/ m = Len(stored)
  BY <1>1, EvictedBounds
<1>7. BytesAfter(n) < High
  <2>1. /\ BytesAfter(n) \in Nat /\ BytesAfter(m) \in Nat
        /\ BytesAfter(n) <= BytesAfter(m)
        /\ n = Len(stored) => BytesAfter(n) = 0
    BY <1>5, BytesShrink
  <2>2. m = Len(stored) => n = Len(stored)
    BY <1>1, <1>5
  <2> QED  BY <1>2, <1>6, <2>1, <2>2
<1>8. /\ Len(stored') = Len(stored) - n
      /\ \A i \in 1..(Len(stored) - n) : stored'[i] = stored[i + n]
  BY <1>1, <1>4, <1>5 DEF DeleteEvents
<1>9. Remaining(0)' = Remaining(n)
  <2>1. Remaining(0)' = {stored'[i] : i \in 1..(Len(stored) - n)}
    BY <1>8 DEF Remaining
  <2>4. Remaining(n) = {stored[i] : i \in (n + 1)..Len(stored)}
    BY DEF Remaining
  <2>2. \A i \in 1..(Len(stored) - n) : i + n \in (n + 1)..Len(stored)
    BY <1>1, <1>5
  <2>3. ASSUME NEW i \in (n + 1)..Len(stored)
        PROVE  i - n \in 1..(Len(stored) - n) /\ stored'[i - n] = stored[i]
    <3>1. i - n \in 1..(Len(stored) - n) /\ (i - n) + n = i
      BY <1>1, <1>5
    <3> QED  BY <1>8, <3>1
  <2> QED  BY <1>8, <2>1, <2>2, <2>3, <2>4
<1>10. KeptRows(0)' = KeptRows(n)
  BY <1>4 DEF DeleteEvents, KeptRows
<1>11. BytesAfter(0)' = BytesAfter(n)
  <2>1. /\ BytesAfter(n) = Cardinality(Remaining(n)) + SnapshotBytes(KeptRows(n))
        /\ BytesAfter(0)' = Cardinality(Remaining(0)') + SnapshotBytes(KeptRows(0)')
    BY BytesSplit
  <2> QED  BY <1>9, <1>10, <2>1
<1>12. Len(stored') <= MaxEvents /\ BytesAfter(0)' < High
  BY <1>5, <1>7, <1>8, <1>11
<1> QED  BY <1>12 DEF WithinLimits

(***************************************************************************)
(* A pass of retention leaves no more events than the limit and fewer      *)
(* bytes than the high watermark, whatever the sizes of the snapshots, how *)
(* events share them, how large a batch is and how many more the disk loop *)
(* evicts.                                                                 *)
(***************************************************************************)
THEOREM RetentionIsEffective ==
  ASSUME Low < High
  PROVE  TelemetrySpec => RetentionEffective
<1> DEFINE Inv == TelemetryInv /\ IsFiniteSet(snapshots)
<1>1. TelemetryInit => Inv
  <2>1. TelemetryInit => IsFiniteSet(snapshots)
    BY FS_EmptySet DEF TelemetryInit
  <2> QED  BY <2>1, TelemetryInitInv
<1>2. Inv /\ [TelemetryNext]_telemetryVars => Inv'
  BY StoreStepKeeps, SnapshotsFinite
<1>3. Inv /\ [TelemetryNext]_telemetryVars
        => [EnforceRetention => WithinLimits']_telemetryVars
  BY RetentionReachesLimits
<1> QED  BY <1>1, <1>2, <1>3, PTL DEF TelemetrySpec, RetentionEffective

-------------------------------------------------------------------------------
(***************************************************************************)
(* Camera geometry: a saved shape is on its way to every deployment, for   *)
(* any number of deployments, shapes and revisions.                        *)
(***************************************************************************)
GeometrySpec == GeometryInit /\ [][GeometryNext]_geometryVars

(* Shapes keep their keys apart, deleted ones included. *)
KeysApart ==
    \A s, t \in Shapes :
      s # t /\ shapes[s] # NoShape /\ shapes[t] # NoShape
        => shapes[s].key # shapes[t].key

(* The history of compiled shapes ends with those of now. *)
CompiledInv == revision \in Nat /\ Len(saved) = revision + 1 /\ Current = Compile(shapes)

(* A borrowed camera gets the current shapes back from its window, any     *)
(* other from its set or from the stop that is under way.                  *)
ReturnInv ==
    \A d \in Deployments \ overwritten :
      /\ window[d].active => window[d].prior = Current
      /\ ~window[d].active /\ Serves(d) =>
           \/ Latest(d).geometry = Current
           \/ request[<<d, "stop">>].step # "idle" /\ request[<<d, "stop">>].prior = Current

ServedInv == KeysApart /\ CompiledInv /\ ReturnInv

(* Rows are records, and no table loses a row. *)
IsShape(x) ==
    x = [kind |-> x.kind, key |-> x.key, saved |-> x.saved, deleted |-> x.deleted]

IsSet(x) == x = [apps |-> x.apps, geometry |-> x.geometry, claims |-> x.claims]

IsWindow(x) == x = [active |-> x.active, prior |-> x.prior]

IsHistory(sq) == (\E S : sq \in Seq(S)) /\ Len(sq) >= 1

TablesInv ==
    /\ DOMAIN shapes = Shapes /\ \A s \in Shapes : IsShape(shapes[s])
    /\ IsHistory(saved)
    /\ DOMAIN assigned = Deployments
    /\ \A d \in Deployments : IsHistory(assigned[d]) /\ IsSet(Latest(d))
    /\ DOMAIN window = Deployments /\ \A d \in Deployments : IsWindow(window[d])
    /\ DOMAIN request = Deployments \X RequestKind

GeometryInv == TablesInv /\ ServedInv

-------------------------------------------------------------------------------
LEMMA AppendedLast ==
  ASSUME NEW sq, IsHistory(sq), NEW x
  PROVE  /\ IsHistory(Append(sq, x))
         /\ Len(Append(sq, x)) = Len(sq) + 1 /\ Len(sq) \in Nat
         /\ Append(sq, x)[Len(sq) + 1] = x
<1>1. PICK S : sq \in Seq(S)
  BY DEF IsHistory
<1>2. sq \in Seq(S \cup {x}) /\ x \in S \cup {x}
  BY <1>1
<1>3. Append(sq, x) \in Seq(S \cup {x})
  BY <1>2
<1>4. Len(Append(sq, x)) = Len(sq) + 1 /\ Append(sq, x)[Len(sq) + 1] = x
      /\ Len(sq) \in Nat
  BY <1>1
<1> QED  BY <1>3, <1>4 DEF IsHistory

LEMMA GeometryInitInv == GeometryInit => GeometryInv
<1> SUFFICES ASSUME GeometryInit PROVE GeometryInv  OBVIOUS
<1>1. \A s \in Shapes : shapes[s] = NoShape
  BY DEF GeometryInit
<1>2. DOMAIN shapes = Shapes /\ \A s \in Shapes : IsShape(shapes[s])
  <2>1. IsShape(NoShape)
    BY DEF IsShape, NoShape
  <2> QED  BY <1>1, <2>1 DEF GeometryInit
<1>3. IsHistory(saved) /\ Len(saved) = 1 /\ saved[1] = {}
  <2>1. saved \in Seq({{}})
    BY DEF GeometryInit
  <2>2. Len(saved) = 1 /\ saved[1] = {}
    BY DEF GeometryInit
  <2> QED  BY <2>1, <2>2 DEF IsHistory
<1>4. Compile(shapes) = {}
  BY <1>1 DEF Compile
<1>5. CompiledInv
  BY <1>3, <1>4 DEF GeometryInit, CompiledInv, Current
<1>6. ASSUME NEW d \in Deployments
      PROVE  IsHistory(assigned[d]) /\ IsSet(Latest(d)) /\ Latest(d).geometry = {}
  <2>1. PICK x : /\ x = [apps |-> "face_recognition", geometry |-> {}, claims |-> 0]
                 /\ assigned[d] = <<x>>
    BY DEF GeometryInit
  <2>2. assigned[d] \in Seq({x}) /\ Len(assigned[d]) = 1 /\ assigned[d][1] = x
    BY <2>1
  <2>3. IsSet(x) /\ x.geometry = {}
    BY <2>1 DEF IsSet
  <2> QED  BY <2>2, <2>3 DEF IsHistory, Latest
<1>7. ASSUME NEW d \in Deployments
      PROVE  IsWindow(window[d]) /\ ~window[d].active
  BY DEF GeometryInit, IsWindow
<1>8. TablesInv
  BY <1>2, <1>3, <1>6, <1>7 DEF TablesInv, GeometryInit
<1>9. ReturnInv
  BY <1>4, <1>5, <1>6, <1>7 DEF ReturnInv, CompiledInv
<1> QED  BY <1>1, <1>5, <1>8, <1>9 DEF GeometryInv, ServedInv, KeysApart

LEMMA SaveShapeKeeps ==
  ASSUME GeometryInv, NEW s \in Shapes, NEW shape, IsShape(shape), SaveShape(s, shape)
  PROVE  GeometryInv'
<1> DEFINE rec == [shape EXCEPT !.saved = revision + 1]
           geometry == Compile(shapes')
<1>0. TablesInv /\ KeysApart /\ CompiledInv /\ ReturnInv
  BY DEF GeometryInv, ServedInv
<1>1. IsShape(rec) /\ rec.key = shape.key
  BY DEF IsShape
<1>2. DOMAIN shapes' = Shapes /\ shapes'[s] = rec
      /\ \A t \in Shapes \ {s} : shapes'[t] = shapes[t]
  <2>1. shapes' = [shapes EXCEPT ![s] = rec]
    BY DEF SaveShape
  <2> HIDE DEF rec
  <2> QED  BY <1>0, <2>1 DEF TablesInv
<1>3. \A t \in Shapes : IsShape(shapes'[t])
  BY <1>0, <1>1, <1>2 DEF TablesInv
<1>4. KeysApart'
  BY <1>0, <1>1, <1>2 DEF KeysApart, SaveShape, Unique
<1>5. saved' = Append(saved, geometry) /\ revision' = revision + 1
  BY DEF SaveShape
<1> HIDE DEF geometry
<1>6. IsHistory(saved') /\ CompiledInv' /\ Current' = geometry
  <2>1. Compile(shapes)' = geometry
    BY DEF geometry, Compile
  <2>2. IsHistory(saved') /\ Len(saved') = revision + 2 /\ saved'[revision + 2] = geometry
    BY <1>0, <1>5, AppendedLast DEF TablesInv, CompiledInv
  <2> QED  BY <1>0, <1>5, <2>1, <2>2 DEF CompiledInv, Current
<1>7. QueueDeployments(geometry, revision + 1) /\ request' = request
  BY DEF SaveShape, geometry
<1>8. ASSUME NEW d \in Deployments
      PROVE  /\ IsHistory(assigned'[d]) /\ IsSet(Latest(d)')
             /\ Serves(d)' <=> Serves(d)
             /\ MayQueue(d) => Latest(d)'.geometry = geometry
             /\ ~MayQueue(d) => Latest(d)' = Latest(d)
  <2>1. IsHistory(assigned[d]) /\ IsSet(Latest(d))
    BY <1>0 DEF TablesInv
  <2>2. CASE MayQueue(d)
    <3>1. PICK x : /\ x = [Latest(d) EXCEPT !.geometry = geometry, !.claims = revision + 1]
                   /\ assigned'[d] = Append(assigned[d], x)
      BY <1>7, <2>2 DEF QueueDeployments
    <3>2. IsSet(x) /\ x.geometry = geometry /\ x.apps = Latest(d).apps
      BY <2>1, <3>1 DEF IsSet
    <3>3. IsHistory(assigned'[d]) /\ Latest(d)' = x
      BY <2>1, <3>1, AppendedLast DEF Latest
    <3> QED  BY <2>2, <3>2, <3>3 DEF Serves
  <2>3. CASE ~MayQueue(d)
    <3>1. assigned'[d] = assigned[d]
      BY <1>7, <2>3 DEF QueueDeployments
    <3> QED  BY <2>1, <2>3, <3>1 DEF Latest, Serves
  <2> QED  BY <2>2, <2>3
<1>9. ASSUME NEW d \in Deployments
      PROVE  /\ IsWindow(window'[d]) /\ (window'[d].active <=> window[d].active)
             /\ Serves(d) /\ window[d].active => window'[d].prior = geometry
  <2>1. IsWindow(window[d])
    BY <1>0 DEF TablesInv
  <2>2. CASE Serves(d) /\ window[d].active
    <3>1. PICK x : x = [window[d] EXCEPT !.prior = geometry] /\ window'[d] = x
      BY <1>7, <2>2 DEF QueueDeployments
    <3>2. IsWindow(x) /\ x.active = window[d].active /\ x.prior = geometry
      BY <2>1, <3>1 DEF IsWindow
    <3> QED  BY <3>1, <3>2
  <2>3. CASE ~(Serves(d) /\ window[d].active)
    <3>1. window'[d] = window[d]
      BY <1>7, <2>3 DEF QueueDeployments
    <3> QED  BY <2>1, <2>3, <3>1
  <2> QED  BY <2>2, <2>3
<1>10. TablesInv'
  BY <1>0, <1>2, <1>3, <1>6, <1>7, <1>8, <1>9 DEF TablesInv, QueueDeployments
<1>11. ReturnInv'
  <2> SUFFICES ASSUME NEW d \in Deployments \ overwritten'
               PROVE  /\ window'[d].active => window'[d].prior = geometry
                      /\ ~window'[d].active /\ Serves(d)' => Latest(d)'.geometry = geometry
    BY <1>6 DEF ReturnInv
  <2>1. Serves(d) \/ ~window[d].active
    BY <1>7 DEF QueueDeployments
  <2> QED  BY <1>8, <1>9, <2>1 DEF MayQueue
<1> QED  BY <1>4, <1>6, <1>10, <1>11 DEF GeometryInv, ServedInv

LEMMA ShapeStepKeeps ==
  ASSUME GeometryInv, NEW s \in Shapes,
         \/ \E name \in ZoneNames : CreateCameraZone(s, name)
         \/ \E key \in LineKeys : CreateCameraLine(s, key) \/ UpdateLine(s, key)
         \/ UpdateZone(s) \/ DeleteShape(s)
  PROVE  GeometryInv'
<1>1. IsShape(shapes[s])
  BY DEF GeometryInv, TablesInv
<1>2. \A k, key : IsShape([kind |-> k, key |-> key, saved |-> 0, deleted |-> FALSE])
  BY DEF IsShape
<1>3. \A key : IsShape([shapes[s] EXCEPT !.key = key])
  BY <1>1 DEF IsShape
<1>4. IsShape([shapes[s] EXCEPT !.deleted = TRUE])
  <2>1. \A v : IsShape([shapes[s] EXCEPT !.deleted = v])
    BY <1>1 DEF IsShape
  <2> QED  BY <2>1, Zenon
<1>5. CASE \E name \in ZoneNames : CreateCameraZone(s, name)
  BY <1>2, <1>5, SaveShapeKeeps DEF CreateCameraZone
<1>6. CASE \E key \in LineKeys : CreateCameraLine(s, key)
  BY <1>2, <1>6, SaveShapeKeeps DEF CreateCameraLine
<1>7. CASE \E key \in LineKeys : UpdateLine(s, key)
  BY <1>3, <1>7, SaveShapeKeeps DEF UpdateLine
<1>8. CASE UpdateZone(s)
  BY <1>1, <1>8, SaveShapeKeeps DEF UpdateZone
<1>9. CASE DeleteShape(s)
  BY <1>4, <1>9, SaveShapeKeeps DEF DeleteShape
<1> QED  BY <1>5, <1>6, <1>7, <1>8, <1>9

-------------------------------------------------------------------------------
(* Steps that save no shape leave what the deployments should get alone. *)
LEMMA ShapesKept ==
  ASSUME GeometryInv, UNCHANGED <<shapes, revision, saved>>
  PROVE  /\ KeysApart' /\ CompiledInv' /\ Current' = Current
         /\ DOMAIN shapes' = Shapes /\ \A s \in Shapes : IsShape(shapes'[s])
         /\ IsHistory(saved')
<1>1. Compile(shapes)' = Compile(shapes)
  BY DEF Compile
<1> QED
  BY <1>1 DEF GeometryInv, TablesInv, ServedInv, KeysApart, CompiledInv, Current

(* A set joins one deployment, and its requests may be answered by it. *)
LEMMA AppendSetKeeps ==
  ASSUME GeometryInv, NEW d \in Deployments, NEW apps, NEW g, NEW claimed,
         AppendSet(d, apps, g, claimed), UNCHANGED <<shapes, revision, saved, window>>,
         DOMAIN request' = Deployments \X RequestKind,
         \A b \in Deployments \ {d} : request'[<<b, "stop">>] = request[<<b, "stop">>]
  PROVE  GeometryInv'
<1>0. TablesInv /\ ReturnInv
  BY DEF GeometryInv, ServedInv
<1>1. PICK x : /\ x = [apps |-> apps, geometry |-> g, claims |-> claimed]
               /\ assigned' = [assigned EXCEPT ![d] = Append(@, x)]
  BY DEF AppendSet
<1>2. IsSet(x) /\ x.geometry = g /\ x.apps = apps
  BY <1>1 DEF IsSet
<1>3. DOMAIN assigned' = Deployments /\ assigned'[d] = Append(assigned[d], x)
      /\ \A b \in Deployments \ {d} : assigned'[b] = assigned[b]
  BY <1>0, <1>1 DEF TablesInv
<1>4. IsHistory(assigned'[d]) /\ Latest(d)' = x
  BY <1>0, <1>3, AppendedLast DEF TablesInv, Latest
<1>5. \A b \in Deployments \ {d} : Latest(b)' = Latest(b)
  BY <1>3 DEF Latest
<1>6. KeysApart' /\ CompiledInv' /\ Current' = Current /\ window' = window
  BY ShapesKept
<1>7. TablesInv'
  <2>1. \A b \in Deployments : IsHistory(assigned'[b]) /\ IsSet(Latest(b)')
    BY <1>0, <1>2, <1>3, <1>4, <1>5 DEF TablesInv
  <2> QED  BY <1>0, <1>3, <1>6, <2>1, ShapesKept DEF TablesInv
<1>8. ReturnInv'
  <2> SUFFICES ASSUME NEW b \in Deployments, b \notin overwritten'
               PROVE  /\ window[b].active => window[b].prior = Current
                      /\ ~window[b].active /\ Serves(b)' =>
                           \/ Latest(b)'.geometry = Current
                           \/ /\ request'[<<b, "stop">>].step # "idle"
                              /\ request'[<<b, "stop">>].prior = Current
    BY <1>6 DEF ReturnInv
  <2>1. Note(d, apps, g, claimed)
    BY DEF AppendSet
  <2>2. CASE b # d
    <3>1. b \notin overwritten
      BY <2>1, <2>2 DEF Note
    <3> QED  BY <1>0, <1>5, <2>2, <3>1 DEF ReturnInv, Serves
  <2>3. CASE b = d /\ window[d].active
    <3>1. b \notin overwritten
      BY <2>1, <2>3 DEF Note
    <3> QED  BY <1>0, <2>3, <3>1 DEF ReturnInv
  <2>4. CASE b = d /\ ~window[d].active
    <3>1. apps = "unassigned" \/ UpToDate(g, claimed)
      BY <2>1, <2>4 DEF Note
    <3> QED  BY <1>2, <1>4, <2>4, <3>1 DEF UpToDate, Serves
  <2> QED  BY <2>2, <2>3, <2>4
<1> QED  BY <1>6, <1>7, <1>8 DEF GeometryInv, ServedInv

LEMMA CommitStepKeeps ==
  ASSUME GeometryInv, NEW d \in Deployments,
         CommitCatalogDeployment(d) \/ CloneDesired(d) \/ Rollback(d)
  PROVE  GeometryInv'
<1>0. TablesInv /\ ReturnInv
  BY DEF GeometryInv, ServedInv
<1>1. CASE CommitCatalogDeployment(d)
  BY <1>0, <1>1, AppendSetKeeps DEF CommitCatalogDeployment, TablesInv
<1>2. CASE Rollback(d)
  <2>1. PICK r \in 1..Len(assigned[d]) :
          AppendSet(d, assigned[d][r].apps, assigned[d][r].geometry, assigned[d][r].claims)
    BY <1>2 DEF Rollback
  <2>2. UNCHANGED <<shapes, revision, saved, window, request>>
    BY <1>2 DEF Rollback
  <2> QED  BY <1>0, <2>1, <2>2, AppendSetKeeps DEF TablesInv
<1>3. CASE CloneDesired(d)
  <2>1. DOMAIN assigned' = Deployments
        /\ assigned'[d] = Append(assigned[d], Latest(d))
        /\ \A b \in Deployments \ {d} : assigned'[b] = assigned[b]
    BY <1>0, <1>3 DEF TablesInv, CloneDesired
  <2>2. IsHistory(assigned'[d]) /\ Latest(d)' = Latest(d)
    BY <1>0, <2>1, AppendedLast DEF TablesInv, Latest
  <2>3. \A b \in Deployments : Latest(b)' = Latest(b) /\ IsHistory(assigned'[b])
    BY <1>0, <2>1, <2>2 DEF Latest, TablesInv
  <2>4. UNCHANGED <<shapes, revision, saved, window, request, overwritten>>
    BY <1>3 DEF CloneDesired
  <2>5. TablesInv'
    BY <1>0, <2>1, <2>3, <2>4 DEF TablesInv
  <2>6. ReturnInv'
    BY <1>0, <2>3, <2>4, ShapesKept DEF ReturnInv, Serves
  <2> QED  BY <2>4, <2>5, <2>6, ShapesKept DEF GeometryInv, ServedInv
<1> QED  BY <1>1, <1>2, <1>3

LEMMA StartKeeps ==
  ASSUME GeometryInv, NEW d \in Deployments, StartEnrollment(d)
  PROVE  GeometryInv'
<1>0. TablesInv /\ ReturnInv
  BY DEF GeometryInv, ServedInv
<1>1. UNCHANGED <<shapes, revision, saved, assigned>>
  BY DEF StartEnrollment
<1>2. KeysApart' /\ CompiledInv' /\ Current' = Current
      /\ \A b \in Deployments : Latest(b)' = Latest(b)
  BY <1>1, ShapesKept DEF Latest
<1>3. PICK w : /\ w = [active |-> TRUE, prior |-> Latest(d).geometry]
               /\ window' = [window EXCEPT ![d] = w]
  BY DEF StartEnrollment
<1>4. IsWindow(w) /\ w.active /\ w.prior = Latest(d).geometry
  BY <1>3 DEF IsWindow
<1>5. DOMAIN window' = Deployments /\ window'[d] = w
      /\ \A b \in Deployments \ {d} : window'[b] = window[b]
  BY <1>0, <1>3 DEF TablesInv
<1>6. /\ DOMAIN request' = Deployments \X RequestKind
      /\ \A b \in Deployments : request'[<<b, "stop">>] = request[<<b, "stop">>]
  BY <1>0 DEF TablesInv, StartEnrollment, RequestKind
<1>7. overwritten' = IF Latest(d).geometry = Current THEN overwritten
                                                     ELSE overwritten \cup {d}
  BY DEF StartEnrollment
<1>8. TablesInv'
  BY <1>0, <1>1, <1>2, <1>4, <1>5, <1>6, ShapesKept DEF TablesInv
<1>9. ReturnInv'
  <2> SUFFICES ASSUME NEW b \in Deployments, b \notin overwritten'
               PROVE  /\ window'[b].active => window'[b].prior = Current
                      /\ ~window'[b].active /\ Serves(b) =>
                           \/ Latest(b).geometry = Current
                           \/ /\ request'[<<b, "stop">>].step # "idle"
                              /\ request'[<<b, "stop">>].prior = Current
    BY <1>2 DEF ReturnInv, Serves
  <2>1. b \notin overwritten
    BY <1>7
  <2>2. CASE b = d
    <3>1. Latest(d).geometry = Current
      BY <1>7, <2>2
    <3> QED  BY <1>4, <1>5, <2>2, <3>1
  <2>3. CASE b # d
    BY <1>0, <1>5, <1>6, <2>1, <2>3 DEF ReturnInv
  <2> QED  BY <2>2, <2>3
<1> QED  BY <1>2, <1>8, <1>9 DEF GeometryInv, ServedInv

LEMMA StopKeeps ==
  ASSUME GeometryInv, NEW d \in Deployments, StopEnrollment(d)
  PROVE  GeometryInv'
<1>0. TablesInv /\ ReturnInv
  BY DEF GeometryInv, ServedInv
<1>1. UNCHANGED <<shapes, revision, saved, assigned, overwritten>>
  BY DEF StopEnrollment
<1>2. KeysApart' /\ CompiledInv' /\ Current' = Current
      /\ \A b \in Deployments : Latest(b)' = Latest(b)
  BY <1>1, ShapesKept DEF Latest
<1>3. DOMAIN window' = Deployments /\ IsWindow(window'[d]) /\ ~window'[d].active
      /\ \A b \in Deployments \ {d} : window'[b] = window[b]
  <2>1. IsWindow(window[d])
    BY <1>0 DEF TablesInv
  <2>2. PICK w : w = [window[d] EXCEPT !.active = FALSE]
                 /\ window' = [window EXCEPT ![d] = w]
    BY DEF StopEnrollment
  <2>3. IsWindow(w) /\ ~w.active
    <3>1. \A v : LET next == [window[d] EXCEPT !.active = v]
                 IN IsWindow(next) /\ next.active = v
      BY <2>1 DEF IsWindow
    <3>2. IsWindow(w) /\ w.active = FALSE
      BY <2>2, <3>1, Zenon
    <3> QED  BY <3>2
  <2> QED  BY <1>0, <2>2, <2>3 DEF TablesInv
<1>4. PICK a : /\ a = [step |-> "commit", seen |-> Len(assigned[d]),
                       prior |-> window[d].prior]
               /\ request' = [request EXCEPT ![<<d, "stop">>] = a]
  BY DEF StopEnrollment
<1>5. a.step = "commit" /\ a.prior = window[d].prior
  BY <1>4
<1>6. /\ DOMAIN request' = Deployments \X RequestKind /\ request'[<<d, "stop">>] = a
      /\ \A b \in Deployments \ {d} : request'[<<b, "stop">>] = request[<<b, "stop">>]
  BY <1>0, <1>4 DEF TablesInv, RequestKind
<1>7. TablesInv'
  BY <1>0, <1>1, <1>2, <1>3, <1>6, ShapesKept DEF TablesInv
<1>8. ReturnInv'
  <2>1. window[d].active
    BY DEF StopEnrollment
  <2> SUFFICES ASSUME NEW b \in Deployments \ overwritten
               PROVE  /\ window'[b].active => window'[b].prior = Current
                      /\ ~window'[b].active /\ Serves(b) =>
                           \/ Latest(b).geometry = Current
                           \/ /\ request'[<<b, "stop">>].step # "idle"
                              /\ request'[<<b, "stop">>].prior = Current
    BY <1>1, <1>2 DEF ReturnInv, Serves
  <2>2. CASE b = d
    BY <1>0, <1>3, <1>5, <1>6, <2>1, <2>2 DEF ReturnInv
  <2>3. CASE b # d
    BY <1>0, <1>3, <1>6, <2>3 DEF ReturnInv
  <2> QED  BY <2>2, <2>3
<1> QED  BY <1>2, <1>7, <1>8 DEF GeometryInv, ServedInv

LEMMA CommitEnrollmentKeeps ==
  ASSUME GeometryInv, NEW d \in Deployments, NEW kind \in RequestKind,
         CommitEnrollment(d, kind)
  PROVE  GeometryInv'
<1>1. /\ DOMAIN request' = Deployments \X RequestKind
      /\ \A b \in Deployments \ {d} : request'[<<b, "stop">>] = request[<<b, "stop">>]
  BY DEF GeometryInv, TablesInv, CommitEnrollment, RequestKind
<1> QED  BY <1>1, AppendSetKeeps DEF CommitEnrollment

(* Requests end without their set, one of them or all of them. *)
LEMMA AbandonKeeps ==
  ASSUME GeometryInv, UNCHANGED <<shapes, revision, saved, assigned, window>>,
         DOMAIN request' = Deployments \X RequestKind, overwritten \subseteq overwritten',
         \A b \in Deployments :
           \/ request'[<<b, "stop">>] = request[<<b, "stop">>]
           \/ Abandoned(b, "stop") \subseteq overwritten'
  PROVE  GeometryInv'
<1>0. TablesInv /\ ReturnInv
  BY DEF GeometryInv, ServedInv
<1>1. KeysApart' /\ CompiledInv' /\ Current' = Current
      /\ \A b \in Deployments : Latest(b)' = Latest(b)
  BY ShapesKept DEF Latest
<1>2. TablesInv'
  BY <1>0, <1>1, ShapesKept DEF TablesInv
<1>3. ReturnInv'
  BY <1>0, <1>1 DEF ReturnInv, Serves, Abandoned, UpToDate
<1> QED  BY <1>1, <1>2, <1>3 DEF GeometryInv, ServedInv

LEMMA FailedRequestKeeps ==
  ASSUME GeometryInv, NEW d \in Deployments, NEW kind \in RequestKind,
         EnrollmentFails(d, kind)
  PROVE  GeometryInv'
<1>1. /\ DOMAIN request' = Deployments \X RequestKind
      /\ \A b \in Deployments : b # d \/ kind # "stop" =>
           request'[<<b, "stop">>] = request[<<b, "stop">>]
  BY DEF GeometryInv, TablesInv, EnrollmentFails, RequestKind
<1>2. UNCHANGED <<shapes, revision, saved, assigned, window>>
      /\ overwritten' = overwritten \cup Abandoned(d, kind)
  BY DEF EnrollmentFails
<1> QED  BY <1>1, <1>2, AbandonKeeps

LEMMA RestartKeeps == GeometryInv /\ Restart => GeometryInv'
<1> SUFFICES ASSUME GeometryInv, Restart PROVE GeometryInv'  OBVIOUS
<1>1. DOMAIN request' = Deployments \X RequestKind
  BY DEF GeometryInv, TablesInv, Restart
<1>2. UNCHANGED <<shapes, revision, saved, assigned, window>>
      /\ overwritten' = overwritten \cup UNION {Abandoned(d, "stop") : d \in Deployments}
  BY DEF Restart
<1> QED  BY <1>1, <1>2, AbandonKeeps

LEMMA GeometryInductive == GeometrySpec => []GeometryInv
<1>1. GeometryInv /\ [GeometryNext]_geometryVars => GeometryInv'
  <2> SUFFICES ASSUME GeometryInv, [GeometryNext]_geometryVars PROVE GeometryInv'
    OBVIOUS
  <2>1. CASE UNCHANGED geometryVars
    <3>1. UNCHANGED <<shapes, revision, saved, assigned, window, request, overwritten>>
      BY <2>1 DEF geometryVars
    <3> QED
      BY <3>1, AbandonKeeps DEF GeometryInv, TablesInv
  <2> QED
    BY <2>1, ShapeStepKeeps, CommitStepKeeps, StartKeeps, StopKeeps,
       CommitEnrollmentKeeps, FailedRequestKeeps, RestartKeeps DEF GeometryNext
<1> QED  BY <1>1, GeometryInitInv, PTL DEF GeometrySpec

(***************************************************************************)
(* What the saved shapes compile to is in the desired set of every         *)
(* deployment with the camera, or kept for its return, and no shape        *)
(* displaces another.                                                      *)
(***************************************************************************)
THEOREM ShapesAreServed == GeometrySpec => []SavedShapesServed
<1>1. GeometryInv => SavedShapesServed
  <2> SUFFICES ASSUME GeometryInv, NEW d \in Deployments \ overwritten, Serves(d)
               PROVE  /\ Compile(shapes) \in KeptFor(d)
                      /\ \A x, y \in Compile(shapes) : x.key = y.key => x = y
    BY DEF SavedShapesServed
  <2>1. Compile(shapes) \in KeptFor(d)
    BY DEF GeometryInv, ServedInv, ReturnInv, CompiledInv, KeptFor, IdleRequest
  <2>2. ASSUME NEW x \in Compile(shapes), NEW y \in Compile(shapes), x.key = y.key
        PROVE  x = y
    <3>1. PICK s \in Shapes :
            /\ shapes[s] # NoShape
            /\ x = [kind |-> shapes[s].kind, key |-> shapes[s].key,
                    saved |-> shapes[s].saved]
      BY DEF Compile
    <3>2. PICK t \in Shapes :
            /\ shapes[t] # NoShape
            /\ y = [kind |-> shapes[t].kind, key |-> shapes[t].key,
                    saved |-> shapes[t].saved]
      BY DEF Compile
    <3>3. shapes[s].key = shapes[t].key
      BY <2>2, <3>1, <3>2
    <3>4. s = t
      BY <3>1, <3>2, <3>3 DEF GeometryInv, ServedInv, KeysApart
    <3> QED  BY <3>1, <3>2, <3>4
  <2> QED  BY <2>1, <2>2
<1> QED  BY <1>1, GeometryInductive, PTL

-------------------------------------------------------------------------------
(***************************************************************************)
(* Types.  A zone's key gets the first free suffix, which is among those   *)
(* the rows have room for because the suffixes given so far are no higher  *)
(* than the revision: each was given in a change of its own.               *)
(***************************************************************************)
SuffixInv == \A s \in Shapes : shapes[s] # NoShape => shapes[s].key[2] <= revision

LengthInv == \A d \in Deployments : Len(assigned[d]) \in 1..MaxGeometrySets

GeometryTypeInv == GeometryType /\ SuffixInv /\ LengthInv

(* A shape before its row is written. *)
Sketch == [kind : {"zone", "line"}, key : ShapeKey, saved : Nat, deleted : BOOLEAN]

LEMMA LineSuffix == \A key \in LineKeys : key \in ShapeKey /\ key[2] = 1
BY DEF LineKeys, ShapeKey

LEMMA LatestTyped ==
  ASSUME GeometryTypeInv, NEW d \in Deployments
  PROVE  /\ Latest(d) \in GeometrySet /\ assigned[d] \in Seq(GeometrySet)
         /\ Len(assigned[d]) \in 1..MaxGeometrySets
BY DEF GeometryTypeInv, GeometryType, LengthInv, Latest

LEMMA FreeKeyTyped ==
  ASSUME GeometryTypeInv, revision < MaxRevision, NEW name \in ZoneNames
  PROVE  FreeZoneKey(name) \in ShapeKey /\ FreeZoneKey(name)[2] <= revision + 1
<1> DEFINE Used(n) == <<name, n>> \in UsedKeys
           First(n) == ~Used(n) /\ \A m \in 1..(n - 1) : Used(m)
           Taken == {b \in Nat : \A a \in 1..b : Used(a)}
           n == CHOOSE m \in 1..MaxRevision : First(m)
<1>1. revision \in Nat /\ MaxRevision \in Nat /\ revision + 1 \in 1..MaxRevision
  BY GeometryAssumption DEF GeometryTypeInv, GeometryType
<1>2. ~Used(revision + 1)
  <2> SUFFICES ASSUME NEW s \in Shapes, Live(s), shapes[s].key = <<name, revision + 1>>
               PROVE  FALSE
    BY DEF UsedKeys
  <2>1. shapes[s].key[2] <= revision
    BY DEF GeometryTypeInv, SuffixInv, Live
  <2> QED  BY <1>1, <2>1
<1>3. \E m \in 1..MaxRevision : First(m)
  <2> SUFFICES ASSUME \A m \in 1..MaxRevision : ~First(m) PROVE FALSE
    OBVIOUS
  <2>1. 0 \in {b \in Nat : b <= MaxRevision => b \in Taken}
    BY <1>1
  <2>2. \A b \in Nat : (b <= MaxRevision => b \in Taken)
                         => (b + 1 <= MaxRevision => b + 1 \in Taken)
    <3> SUFFICES ASSUME NEW b \in Nat, b \in Taken, b + 1 <= MaxRevision
                 PROVE  Used(b + 1)
      BY <1>1
    <3>1. \A m \in 1..((b + 1) - 1) : Used(m)
      OBVIOUS
    <3>2. b + 1 \in 1..MaxRevision
      BY <1>1
    <3> HIDE DEF Used
    <3> QED  BY <3>1, <3>2
  <2>3. revision + 1 \in Taken
    <3> DEFINE Within == {b \in Nat : b <= MaxRevision => b \in Taken}
    <3>1. 0 \in Within /\ \A b \in Nat : b \in Within => b + 1 \in Within
      <4> HIDE DEF Taken
      <4> QED  BY <2>1, <2>2
    <3>2. Nat \subseteq Within
      <4> HIDE DEF Within
      <4> QED  BY <3>1, NatSetInduction
    <3> HIDE DEF Taken
    <3> QED  BY <1>1, <3>2
  <2> HIDE DEF Used
  <2> QED  BY <1>1, <1>2, <2>3
<1>4. n \in 1..MaxRevision /\ First(n)
  <2> HIDE DEF First
  <2> QED  BY <1>3
<1>5. FreeZoneKey(name) = <<name, n>>
  BY DEF FreeZoneKey
<1> HIDE DEF n, Used
<1>6. n <= revision + 1
  BY <1>1, <1>2, <1>4
<1> QED  BY <1>4, <1>5, <1>6 DEF ShapeKey

LEMMA CompileTyped ==
  ASSUME NEW rows \in [Shapes -> Shape \cup {NoShape}]
  PROVE  Compile(rows) \in Geometry
<1>1. ASSUME NEW s \in Shapes, rows[s] # NoShape
      PROVE  [kind |-> rows[s].kind, key |-> rows[s].key, saved |-> rows[s].saved] \in Drawn
  <2>1. rows[s] \in Shape
    BY <1>1
  <2> QED  BY <2>1 DEF Shape, Drawn
<1> QED  BY <1>1 DEF Compile, Geometry

LEMMA SaveShapeTyped ==
  ASSUME GeometryTypeInv, NEW s \in Shapes, NEW shape \in Sketch,
         shape.key[2] <= revision + 1, SaveShape(s, shape)
  PROVE  GeometryTypeInv'
<1> DEFINE fresh == [shape EXCEPT !.saved = revision + 1]
           geometry == Compile(shapes')
<1>1. /\ revision \in Nat /\ revision < MaxRevision /\ MaxRevision \in Nat
      /\ revision' = revision + 1 /\ revision' \in 1..MaxRevision
  BY GeometryAssumption DEF GeometryTypeInv, GeometryType, SaveShape
<1>2. fresh \in Shape /\ fresh.key = shape.key
  BY <1>1 DEF Shape, Sketch
<1>3. shapes' = [shapes EXCEPT ![s] = fresh]
  BY DEF SaveShape
<1> HIDE DEF fresh
<1>4. shapes' \in [Shapes -> Shape \cup {NoShape}] /\ shapes'[s] = fresh
      /\ \A t \in Shapes \ {s} : shapes'[t] = shapes[t]
  BY <1>2, <1>3 DEF GeometryTypeInv, GeometryType
<1>5. SuffixInv'
  <2> SUFFICES ASSUME NEW t \in Shapes, shapes'[t] # NoShape
               PROVE  shapes'[t].key[2] <= revision + 1
    BY <1>1 DEF SuffixInv
  <2>1. CASE t = s
    BY <1>2, <1>4, <2>1
  <2>2. CASE t # s
    <3>1. shapes'[t] = shapes[t] /\ shapes[t].key[2] <= revision
      BY <1>4, <2>2 DEF GeometryTypeInv, SuffixInv
    <3>2. shapes[t] \in Shape
      BY <1>4, <3>1
    <3>3. shapes[t].key[2] \in Nat
      BY <1>1, <3>2 DEF Shape, ShapeKey, LineKeys
    <3> QED  BY <1>1, <3>1, <3>3
  <2> QED  BY <2>1, <2>2
<1>6. geometry \in Geometry
  BY <1>4, CompileTyped
<1>7. saved' = Append(saved, geometry) /\ QueueDeployments(geometry, revision + 1)
      /\ request' = request
      /\ \A d \in Deployments : Len(assigned[d]) < MaxGeometrySets
  BY DEF SaveShape
<1> HIDE DEF geometry
<1>8. saved' \in Seq(Geometry) /\ Len(saved') = revision' + 1
  BY <1>1, <1>6, <1>7 DEF GeometryTypeInv, GeometryType
<1>9. ASSUME NEW d \in Deployments
      PROVE  assigned'[d] \in Seq(GeometrySet) /\ Len(assigned'[d]) \in 1..MaxGeometrySets
  <2>1. /\ Latest(d) \in GeometrySet /\ assigned[d] \in Seq(GeometrySet)
        /\ Len(assigned[d]) \in 1..MaxGeometrySets /\ Len(assigned[d]) < MaxGeometrySets
    BY <1>7, LatestTyped
  <2>2. CASE MayQueue(d)
    <3>1. PICK x : /\ x = [Latest(d) EXCEPT !.geometry = geometry, !.claims = revision + 1]
                   /\ assigned'[d] = Append(assigned[d], x)
      BY <1>7, <2>2 DEF QueueDeployments
    <3>2. revision + 1 \in 0..MaxRevision
      BY <1>1
    <3>3. \A g \in Geometry, c \in 0..MaxRevision :
            [Latest(d) EXCEPT !.geometry = g, !.claims = c] \in GeometrySet
      BY <2>1 DEF GeometrySet
    <3>4. x \in GeometrySet
      BY <1>6, <3>1, <3>2, <3>3
    <3> QED  BY <2>1, <3>1, <3>4, GeometryAssumption
  <2>3. CASE ~MayQueue(d)
    BY <1>7, <2>1, <2>3 DEF QueueDeployments
  <2> QED  BY <2>2, <2>3
<1>10. assigned' \in [Deployments -> Seq(GeometrySet)] /\ LengthInv'
  <2>1. assigned' = [d \in Deployments |-> assigned'[d]]
    BY <1>7 DEF QueueDeployments
  <2> QED  BY <1>9, <2>1 DEF LengthInv
<1>11. window' \in [Deployments -> BorrowWindow]
  <2>1. ASSUME NEW d \in Deployments PROVE [window[d] EXCEPT !.prior = geometry] \in BorrowWindow
    BY <1>6 DEF GeometryTypeInv, GeometryType, BorrowWindow
  <2> QED  BY <1>7, <2>1 DEF QueueDeployments, GeometryTypeInv, GeometryType
<1>12. overwritten' \subseteq Deployments
  BY <1>7 DEF QueueDeployments, GeometryTypeInv, GeometryType
<1>13. GeometryType'
  BY <1>1, <1>4, <1>7, <1>8, <1>10, <1>11, <1>12 DEF GeometryTypeInv, GeometryType
<1> QED  BY <1>5, <1>10, <1>13 DEF GeometryTypeInv

LEMMA ShapeStepTyped ==
  ASSUME GeometryTypeInv, NEW s \in Shapes,
         \/ \E name \in ZoneNames : CreateCameraZone(s, name)
         \/ \E key \in LineKeys : CreateCameraLine(s, key) \/ UpdateLine(s, key)
         \/ UpdateZone(s) \/ DeleteShape(s)
  PROVE  GeometryTypeInv'
<1>0. revision \in Nat
  BY DEF GeometryTypeInv, GeometryType
<1>1. ASSUME NEW kind \in {"zone", "line"}, NEW key \in ShapeKey
      PROVE  LET shape == [kind |-> kind, key |-> key, saved |-> 0, deleted |-> FALSE]
             IN shape \in Sketch /\ shape.key = key
  BY DEF Sketch
<1>2. ASSUME Live(s)
      PROVE  /\ shapes[s] \in Sketch /\ shapes[s].key[2] <= revision + 1
             /\ \A key \in ShapeKey :
                  LET shape == [shapes[s] EXCEPT !.key = key]
                  IN shape \in Sketch /\ shape.key = key
             /\ LET shape == [shapes[s] EXCEPT !.deleted = TRUE]
                IN shape \in Sketch /\ shape.key = shapes[s].key
  <2>1. shapes[s] \in Shape /\ shapes[s].key[2] <= revision
    BY <1>2 DEF Live, GeometryTypeInv, GeometryType, SuffixInv
  <2>2. shapes[s].key[2] \in Nat
    BY <2>1, GeometryAssumption DEF Shape, ShapeKey, LineKeys
  <2>3. shapes[s] \in Sketch
    BY <2>1, GeometryAssumption DEF Shape, Sketch
  <2>4. \A key \in ShapeKey : LET shape == [shapes[s] EXCEPT !.key = key]
                              IN shape \in Sketch /\ shape.key = key
    BY <2>3 DEF Sketch
  <2>5. \A v \in BOOLEAN : LET shape == [shapes[s] EXCEPT !.deleted = v]
                           IN shape \in Sketch /\ shape.key = shapes[s].key
    BY <2>3 DEF Sketch
  <2>6. shapes[s].key[2] <= revision + 1
    BY <1>0, <2>1, <2>2
  <2> QED  BY <2>3, <2>4, <2>5, <2>6
<1>3. ASSUME NEW name \in ZoneNames, CreateCameraZone(s, name) PROVE GeometryTypeInv'
  <2>1. revision < MaxRevision
    BY <1>3 DEF CreateCameraZone, SaveShape
  <2>2. FreeZoneKey(name) \in ShapeKey /\ FreeZoneKey(name)[2] <= revision + 1
    BY <2>1, FreeKeyTyped
  <2> QED  BY <1>1, <1>3, <2>2, SaveShapeTyped DEF CreateCameraZone
<1>4. ASSUME NEW key \in LineKeys, CreateCameraLine(s, key) PROVE GeometryTypeInv'
  BY <1>0, <1>1, <1>4, LineSuffix, SaveShapeTyped DEF CreateCameraLine
<1>5. ASSUME NEW key \in LineKeys, UpdateLine(s, key) PROVE GeometryTypeInv'
  <2>1. /\ [shapes[s] EXCEPT !.key = key] \in Sketch
        /\ [shapes[s] EXCEPT !.key = key].key[2] <= revision + 1
    BY <1>0, <1>2, <1>5, LineSuffix DEF UpdateLine
  <2> QED  BY <1>5, <2>1, SaveShapeTyped DEF UpdateLine
<1>6. CASE UpdateZone(s)
  BY <1>2, <1>6, SaveShapeTyped DEF UpdateZone
<1>7. CASE DeleteShape(s)
  BY <1>2, <1>7, SaveShapeTyped DEF DeleteShape
<1> QED  BY <1>3, <1>4, <1>5, <1>6, <1>7

LEMMA AppendSetTyped ==
  ASSUME GeometryTypeInv, NEW d \in Deployments,
         NEW apps \in {"face_recognition", "face_enrollment", "unassigned"},
         NEW g \in Geometry, NEW claimed \in 0..MaxRevision,
         AppendSet(d, apps, g, claimed), UNCHANGED <<shapes, revision, saved, window>>,
         request' \in [Deployments \X RequestKind -> Request]
  PROVE  GeometryTypeInv'
<1>1. PICK x : /\ x = [apps |-> apps, geometry |-> g, claims |-> claimed]
               /\ assigned' = [assigned EXCEPT ![d] = Append(@, x)]
  BY DEF AppendSet
<1>2. x \in GeometrySet
  BY <1>1 DEF GeometrySet
<1>3. /\ assigned \in [Deployments -> Seq(GeometrySet)]
      /\ assigned[d] \in Seq(GeometrySet) /\ Len(assigned[d]) < MaxGeometrySets
  BY DEF GeometryTypeInv, GeometryType, AppendSet
<1>4. /\ assigned' \in [Deployments -> Seq(GeometrySet)]
      /\ Len(assigned'[d]) = Len(assigned[d]) + 1
      /\ \A b \in Deployments \ {d} : assigned'[b] = assigned[b]
  BY <1>1, <1>2, <1>3
<1>5. LengthInv'
  <2>1. Len(assigned[d]) \in Nat
    BY <1>3
  <2> QED  BY <1>3, <1>4, <2>1, GeometryAssumption DEF GeometryTypeInv, LengthInv
<1>6. overwritten' \subseteq Deployments
  BY DEF AppendSet, Note, GeometryTypeInv, GeometryType
<1>7. GeometryType' /\ SuffixInv'
  BY <1>4, <1>6 DEF GeometryTypeInv, GeometryType, SuffixInv
<1> QED  BY <1>5, <1>7 DEF GeometryTypeInv

(* The sets and the shapes stay as they are. *)
LEMMA RequestTyped ==
  ASSUME GeometryTypeInv, UNCHANGED <<shapes, revision, saved, assigned>>,
         window' \in [Deployments -> BorrowWindow],
         request' \in [Deployments \X RequestKind -> Request],
         overwritten' \subseteq Deployments
  PROVE  GeometryTypeInv'
BY DEF GeometryTypeInv, GeometryType, SuffixInv, LengthInv

LEMMA DeploymentStepTyped ==
  ASSUME GeometryTypeInv, NEW d \in Deployments,
         \/ CommitCatalogDeployment(d) \/ CloneDesired(d) \/ Rollback(d)
         \/ StartEnrollment(d) \/ StopEnrollment(d)
         \/ \E kind \in RequestKind : CommitEnrollment(d, kind) \/ EnrollmentFails(d, kind)
  PROVE  GeometryTypeInv'
<1>1. GeometryType /\ revision \in 0..MaxRevision
  BY DEF GeometryTypeInv, GeometryType
<1>2. /\ Latest(d) \in GeometrySet /\ assigned[d] \in Seq(GeometrySet)
      /\ Len(assigned[d]) \in 0..MaxGeometrySets
  BY LatestTyped
<1>3. CASE CommitCatalogDeployment(d)
  <2>1. \A r \in 1..Len(saved) : saved[r] \in Geometry
    BY <1>1 DEF GeometryType
  <2>2. {} \in Geometry
    BY DEF Geometry
  <2> QED  BY <1>1, <1>3, <2>1, <2>2, AppendSetTyped DEF CommitCatalogDeployment, GeometryType
<1>4. CASE CloneDesired(d)
  <2>1. /\ assigned' = [assigned EXCEPT ![d] = Append(@, Latest(d))]
        /\ Len(assigned[d]) < MaxGeometrySets
        /\ UNCHANGED <<shapes, revision, saved, window, request, overwritten>>
    BY <1>4 DEF CloneDesired
  <2>2. /\ assigned' \in [Deployments -> Seq(GeometrySet)]
        /\ Len(assigned'[d]) = Len(assigned[d]) + 1
        /\ \A b \in Deployments \ {d} : assigned'[b] = assigned[b]
    BY <1>1, <1>2, <2>1 DEF GeometryType
  <2>3. LengthInv'
    BY <1>2, <2>1, <2>2, GeometryAssumption DEF GeometryTypeInv, LengthInv
  <2> QED  BY <2>1, <2>2, <2>3 DEF GeometryTypeInv, GeometryType, SuffixInv
<1>5. CASE Rollback(d)
  <2>1. PICK r \in 1..Len(assigned[d]) :
          AppendSet(d, assigned[d][r].apps, assigned[d][r].geometry, assigned[d][r].claims)
    BY <1>5 DEF Rollback
  <2>2. assigned[d][r] \in GeometrySet
    BY <1>2
  <2>3. UNCHANGED <<shapes, revision, saved, window, request>>
    BY <1>5 DEF Rollback
  <2>4. /\ assigned[d][r].apps \in {"face_recognition", "face_enrollment", "unassigned"}
        /\ assigned[d][r].geometry \in Geometry /\ assigned[d][r].claims \in 0..MaxRevision
    BY <2>2 DEF GeometrySet
  <2> QED  BY <1>1, <2>1, <2>3, <2>4, AppendSetTyped DEF GeometryType
<1>6. CASE StartEnrollment(d)
  <2>1. [active |-> TRUE, prior |-> Latest(d).geometry] \in BorrowWindow
    BY <1>2 DEF GeometrySet, BorrowWindow
  <2>2. [step |-> "commit", prior |-> {}, seen |-> Len(assigned[d])] \in Request
    BY <1>2 DEF Request, Geometry
  <2>3. window' \in [Deployments -> BorrowWindow]
        /\ request' \in [Deployments \X RequestKind -> Request]
    BY <1>1, <1>6, <2>1, <2>2 DEF StartEnrollment, GeometryType
  <2> QED  BY <1>1, <1>6, <2>3, RequestTyped DEF StartEnrollment, GeometryType
<1>7. CASE StopEnrollment(d)
  <2>1. window[d] \in BorrowWindow
    BY <1>1 DEF GeometryType
  <2>2. [step |-> "commit", seen |-> Len(assigned[d]), prior |-> window[d].prior] \in Request
    BY <1>2, <2>1 DEF Request, BorrowWindow
  <2>3. [window[d] EXCEPT !.active = FALSE] \in BorrowWindow
    BY <2>1 DEF BorrowWindow
  <2>4. window' = [window EXCEPT ![d] = [window[d] EXCEPT !.active = FALSE]]
    BY <1>7 DEF StopEnrollment
  <2>5. window' \in [Deployments -> BorrowWindow]
        /\ request' \in [Deployments \X RequestKind -> Request]
    BY <1>1, <1>7, <2>2, <2>3, <2>4 DEF StopEnrollment, GeometryType
  <2> QED  BY <1>1, <1>7, <2>5, RequestTyped DEF StopEnrollment, GeometryType
<1>8. ASSUME NEW kind \in RequestKind, CommitEnrollment(d, kind) PROVE GeometryTypeInv'
  <2>1. request[<<d, kind>>].prior \in Geometry
    BY <1>1 DEF GeometryType, Request
  <2>2. request' \in [Deployments \X RequestKind -> Request]
    <3>1. IdleRequest \in Request
      BY GeometryAssumption DEF IdleRequest, Request, Geometry
    <3> QED  BY <1>1, <1>8, <3>1 DEF CommitEnrollment, GeometryType
  <2>3. AppendSet(d, IF kind = "start" THEN "face_enrollment" ELSE "face_recognition",
                  request[<<d, kind>>].prior, revision)
    BY <1>8 DEF CommitEnrollment
  <2>4. (IF kind = "start" THEN "face_enrollment" ELSE "face_recognition")
          \in {"face_recognition", "face_enrollment", "unassigned"}
    OBVIOUS
  <2> QED  BY <1>1, <1>8, <2>1, <2>2, <2>3, <2>4, AppendSetTyped DEF CommitEnrollment
<1>9. ASSUME NEW kind \in RequestKind, EnrollmentFails(d, kind) PROVE GeometryTypeInv'
  <2>1. IdleRequest \in Request
    BY GeometryAssumption DEF IdleRequest, Request, Geometry
  <2>2. request' \in [Deployments \X RequestKind -> Request]
    BY <1>1, <1>9, <2>1 DEF EnrollmentFails, GeometryType
  <2>3. overwritten' \subseteq Deployments
    BY <1>1, <1>9 DEF EnrollmentFails, GeometryType, Abandoned
  <2> QED  BY <1>1, <1>9, <2>2, <2>3, RequestTyped DEF EnrollmentFails, GeometryType
<1> QED  BY <1>3, <1>4, <1>5, <1>6, <1>7, <1>8, <1>9

LEMMA GeometryTyped == GeometrySpec => []GeometryTypeInv
<1>1. GeometryInit => GeometryTypeInv
  <2> SUFFICES ASSUME GeometryInit PROVE GeometryTypeInv  OBVIOUS
  <2>1. {} \in Geometry /\ IdleRequest \in Request /\ 0 \in 0..MaxRevision
    BY GeometryAssumption DEF IdleRequest, Request, Geometry
  <2>2. PICK x : /\ x = [apps |-> "face_recognition", geometry |-> {}, claims |-> 0]
                 /\ assigned = [d \in Deployments |-> <<x>>]
    BY DEF GeometryInit
  <2>3. x \in GeometrySet
    BY <2>1, <2>2 DEF GeometrySet
  <2>4. assigned \in [Deployments -> Seq(GeometrySet)] /\ LengthInv
    BY <2>2, <2>3, GeometryAssumption DEF LengthInv
  <2>5. window \in [Deployments -> BorrowWindow]
    BY <2>1 DEF GeometryInit, BorrowWindow
  <2>6. saved \in Seq(Geometry) /\ Len(saved) = revision + 1
    BY <2>1 DEF GeometryInit
  <2> QED  BY <2>1, <2>4, <2>5, <2>6 DEF GeometryInit, GeometryTypeInv, GeometryType, SuffixInv
<1>2. GeometryTypeInv /\ [GeometryNext]_geometryVars => GeometryTypeInv'
  <2> SUFFICES ASSUME GeometryTypeInv, [GeometryNext]_geometryVars PROVE GeometryTypeInv'
    OBVIOUS
  <2>1. CASE Restart
    <3>1. IdleRequest \in Request
      BY GeometryAssumption DEF IdleRequest, Request, Geometry
    <3>2. request' \in [Deployments \X RequestKind -> Request]
      BY <2>1, <3>1 DEF Restart, GeometryTypeInv, GeometryType
    <3>3. overwritten' \subseteq Deployments
      BY <2>1 DEF Restart, GeometryTypeInv, GeometryType, Abandoned
    <3> QED  BY <2>1, <3>2, <3>3, RequestTyped DEF Restart, GeometryTypeInv, GeometryType
  <2>2. CASE UNCHANGED geometryVars
    BY <2>2, RequestTyped DEF geometryVars, GeometryTypeInv, GeometryType
  <2> QED  BY <2>1, <2>2, ShapeStepTyped, DeploymentStepTyped DEF GeometryNext
<1> QED  BY <1>1, <1>2, PTL DEF GeometrySpec

-------------------------------------------------------------------------------
(***************************************************************************)
(* Qualification: what a passing report says was true of one Pod.  The run *)
(* remembers the name of the Pod it read; names are given once, so a Pod   *)
(* that answers to that name later still uses the claim it started with.   *)
(***************************************************************************)
QualSpec == QualInit /\ [][QualNext]_qualVars

(* The synchronizer's row names committed sets. *)
SyncedInv == {sync.applied, sync.attempt} \subseteq 1..Len(committed)

(* A Pod uses the claim that is there; names are given in order, once. *)
PodInv ==
    /\ pod # NoPod => pod.claim = claim.uid
    /\ pod.name <= created.pods /\ qualification.seen.name <= created.pods
    /\ pod # NoPod /\ pod.name = qualification.seen.name
         => pod.claim = qualification.seen.claim

(* Steps that come after the deployment, and after the Pod, was read. *)
AfterDeployment == {"catalog", "workload", "pod", "claim", "telemetry", "events",
                    "report"}

AfterPod == {"claim", "telemetry", "events", "report"}

WasCommitted(q) ==
    \E n \in 1..Len(committed) :
      /\ committed[n].bundle = q.evidence.bundle
      /\ committed[n].image = q.evidence.image

(* What each step of the run knows. *)
RunInv ==
    /\ qualification.step \in AfterDeployment =>
         qualification.settled /\ WasCommitted(qualification)
    /\ qualification.step \in AfterPod =>
         /\ qualification.seen.ready
         /\ qualification.seen.image = qualification.evidence.image
    /\ qualification.step \in {"telemetry", "events"} =>
         (pod # NoPod /\ pod.name = qualification.seen.name
            => qualification.evidence.claim = qualification.seen.claim)
    /\ qualification.step = "report" =>
         qualification.evidence.claim = qualification.seen.claim

QualInv == QualType /\ SyncedInv /\ PodInv /\ RunInv

-------------------------------------------------------------------------------
LEMMA IdleRunTyped ==
  /\ NoPod \in WorkloadPod /\ NoPod.name = 0
  /\ NoEvidence \in Evidence
  /\ IdleRun \in Run /\ IdleRun.step = "idle" /\ IdleRun.seen = NoPod
<1>1. NoPod \in WorkloadPod /\ NoPod.name = 0
  BY DEF WorkloadPod, NoPod
<1>2. NoEvidence \in Evidence
  BY QualAssumption DEF NoEvidence, Evidence
<1>3. IdleRun \in Run /\ IdleRun.step = "idle" /\ IdleRun.seen = NoPod
  <2> HIDE DEF NoPod, WorkloadPod, NoEvidence, Evidence
  <2> QED  BY <1>1, <1>2 DEF IdleRun, Run, RunStep, Checkpoint
<1> QED  BY <1>1, <1>2, <1>3

LEMMA QualInitInv == QualInit => QualInv
<1> SUFFICES ASSUME QualInit PROVE QualInv  OBVIOUS
<1> PICK image \in Images :
      /\ committed = <<[bundle |-> 1, image |-> image]>>
      /\ deployed = image
      /\ pod = [name |-> 1, image |-> image, claim |-> 1, ready |-> TRUE]
  BY DEF QualInit
<1>1. committed \in Seq(CommittedSet) /\ Len(committed) = 1
  BY QualAssumption DEF CommittedSet
<1>2. sync \in SyncRow /\ SyncedInv
  BY <1>1, QualAssumption DEF QualInit, SyncRow, SyncedInv
<1>3. pod \in WorkloadPod /\ pod # NoPod
  BY QualAssumption DEF WorkloadPod, NoPod
<1>4. claim \in Claim /\ created \in [pods : 0..MaxPods, claims : 0..MaxStateClaims]
  BY QualAssumption DEF QualInit, Claim
<1>5. QualType
  BY <1>1, <1>2, <1>3, <1>4, IdleRunTyped, QualAssumption DEF QualInit, QualType
<1>6. PodInv
  BY IdleRunTyped DEF QualInit, PodInv
<1>7. RunInv
  BY IdleRunTyped DEF QualInit, RunInv, AfterDeployment, AfterPod
<1> QED  BY <1>2, <1>5, <1>6, <1>7 DEF QualInv

(* The committed sets only grow. *)
SetsKept ==
  /\ committed' \in Seq(CommittedSet) /\ Len(committed') \in 1..MaxCommits
  /\ Len(committed) <= Len(committed')
  /\ \A n \in 1..Len(committed) : committed'[n] = committed[n]

LEMMA SetsStay == QualType /\ UNCHANGED committed => SetsKept
  BY DEF QualType, SetsKept

LEMMA WorkloadCommitKeeps ==
  ASSUME QualInv, NEW set \in CommittedSet, CommitDesired(set)
  PROVE  SetsKept /\ sync' \in SyncRow /\ SyncedInv'
<1> USE QualAssumption DEF QualInv, QualType
<1>1. SetsKept
  BY DEF CommitDesired, SetsKept
<1>2. sync' \in SyncRow /\ sync'.applied = sync.applied /\ sync'.attempt = sync.attempt
  BY DEF CommitDesired, SyncRow
<1> QED  BY <1>1, <1>2 DEF SetsKept, SyncedInv

(* A step of the deployment, whatever the run has read. *)
LEMMA WorkloadKeeps ==
  ASSUME QualInv, UNCHANGED qualification, SetsKept, sync' \in SyncRow, SyncedInv',
         deployed' \in Images, baseline' \in Evidence,
         pod' \in WorkloadPod, claim' \in Claim,
         created' \in [pods : 0..MaxPods, claims : 0..MaxStateClaims],
         created.pods <= created'.pods, pod'.name <= created'.pods,
         pod' # NoPod => pod'.claim = claim'.uid,
         pod' # NoPod /\ pod'.name = qualification.seen.name =>
           pod # NoPod /\ pod.name = pod'.name /\ pod.claim = pod'.claim
  PROVE  QualInv'
<1>1. QualType'
  BY DEF QualInv, QualType, SetsKept
<1>2. PodInv'
  <2>1. qualification.seen.name \in Nat /\ created.pods \in Nat /\ created'.pods \in Nat
    BY QualAssumption DEF QualInv, QualType, Run, WorkloadPod, NoPod
  <2> QED  BY <2>1 DEF QualInv, PodInv
<1>3. RunInv'
  <2>1. WasCommitted(qualification) => WasCommitted(qualification)'
    BY DEF WasCommitted, SetsKept, QualInv, QualType
  <2> QED  BY <2>1 DEF QualInv, RunInv
<1> QED  BY <1>1, <1>2, <1>3 DEF QualInv

(* A step of the run that knows nothing about the workload. *)
LEMMA QuietRunKeeps ==
  ASSUME QualInv, SetsKept, sync' \in SyncRow, SyncedInv',
         UNCHANGED <<deployed, pod, claim, created>>, baseline' \in Evidence,
         qualification' \in Run, qualification'.step \notin AfterDeployment,
         qualification'.seen \in {qualification.seen, NoPod}
  PROVE  QualInv'
<1>1. QualType'
  BY DEF QualInv, QualType, SetsKept
<1>2. PodInv'
  <2>1. qualification'.seen.name = qualification.seen.name \/ qualification'.seen.name = 0
    BY IdleRunTyped
  <2>2. pod # NoPod => pod.name # 0
    BY QualAssumption DEF QualInv, QualType, WorkloadPod
  <2>3. created.pods \in Nat
    BY DEF QualInv, QualType
  <2>4. qualification'.seen.name <= created'.pods
    BY <2>1, <2>3 DEF QualInv, PodInv
  <2>5. pod # NoPod /\ pod.name = qualification'.seen.name
          => pod.claim = qualification'.seen.claim
    BY <2>2, IdleRunTyped DEF QualInv, PodInv
  <2> QED  BY <2>4, <2>5 DEF QualInv, PodInv
<1>3. RunInv'
  BY DEF RunInv, AfterDeployment, AfterPod
<1> QED  BY <1>1, <1>2, <1>3 DEF QualInv

(* A check that failed. *)
LEMMA FailForgets ==
  ASSUME QualType, NEW reached \in RunStep, Fail(reached)
  PROVE  /\ qualification' \in Run
         /\ qualification'.step \notin AfterDeployment
         /\ qualification'.seen = NoPod
<1>1. CASE reached \in {"change", "rollback"}
  <2>1. qualification.checkpoint \in Checkpoint /\ qualification.commit \in BOOLEAN
    BY DEF QualType, Run
  <2>2. PICK q : /\ q = [IdleRun EXCEPT !.step = reached, !.ok = FALSE,
                             !.checkpoint = qualification.checkpoint,
                             !.commit = qualification.commit]
                 /\ qualification' = q
    BY <1>1 DEF Fail
  <2>3. q \in Run /\ q.step = reached /\ q.seen = NoPod
    BY <2>1, <2>2, IdleRunTyped DEF Run
  <2> QED  BY <1>1, <2>2, <2>3 DEF AfterDeployment
<1>2. CASE reached \notin {"change", "rollback"}
  BY <1>2, IdleRunTyped DEF Fail, AfterDeployment
<1> QED  BY <1>1, <1>2

(* A failed check forgets what was read. *)
LEMMA FailKeeps ==
  ASSUME QualInv, NEW reached \in RunStep, Fail(reached), UNCHANGED <<clusterVars, baseline>>
  PROVE  QualInv'
<1>1. SetsKept /\ sync' \in SyncRow /\ SyncedInv' /\ baseline' \in Evidence
  BY SetsStay DEF QualInv, QualType, clusterVars, SyncedInv
<1> QED  BY <1>1, FailForgets, QuietRunKeeps DEF QualInv, clusterVars

-------------------------------------------------------------------------------
LEMMA DeploymentStepKeeps ==
  ASSUME QualInv,
         \/ Commit \/ ApplyDesired \/ RecordApplied \/ RecordFailure
         \/ PodEnds \/ PodStarts \/ ReadinessChanges \/ DeleteClaim
  PROVE  QualInv'
<1> USE QualAssumption
<1>0. QualType /\ SyncedInv /\ PodInv
  BY DEF QualInv
<1>1. /\ created.pods \in Nat /\ created.claims \in Nat
      /\ qualification.seen.name <= created.pods /\ qualification.seen.name \in Nat
  BY <1>0 DEF QualType, PodInv, Run, WorkloadPod, NoPod
<1>2. pod \in WorkloadPod /\ pod.name <= created.pods
      /\ (pod # NoPod => pod.claim = claim.uid /\ pod.claim \in 1..MaxStateClaims)
  BY <1>0 DEF QualType, PodInv, WorkloadPod
<1>3. UNCHANGED committed => SetsKept
  BY <1>0, SetsStay
<1>4. deployed \in Images /\ baseline \in Evidence /\ claim \in Claim
      /\ sync \in SyncRow /\ created \in [pods : 0..MaxPods, claims : 0..MaxStateClaims]
  BY <1>0 DEF QualType
<1>5. \A n \in 1..Len(committed) : committed[n].image \in Images
  <2>1. \A n \in 1..Len(committed) : committed[n] \in CommittedSet
    BY <1>0 DEF QualType
  <2> QED  BY <2>1 DEF CommittedSet
<1>6. CASE Commit
  <2>1. PICK image \in Images :
          CommitDesired([bundle |-> Len(committed) + 1, image |-> image])
    BY <1>6 DEF Commit
  <2>2. [bundle |-> Len(committed) + 1, image |-> image] \in CommittedSet
    BY <2>1, <1>0 DEF CommitDesired, CommittedSet, QualType
  <2>3. SetsKept /\ sync' \in SyncRow /\ SyncedInv'
    BY <2>1, <2>2, WorkloadCommitKeeps
  <2> QED  BY <1>0, <1>1, <1>2, <1>4, <1>6, <2>3, WorkloadKeeps DEF Commit
<1>7. CASE ApplyDesired
  <2>1. UNCHANGED <<committed, pod, qualification, baseline>>
    BY <1>7 DEF ApplyDesired
  <2>2. Len(committed) \in 1..MaxCommits /\ deployed' \in Images
    BY <1>5, <1>7, <1>0 DEF ApplyDesired, DesiredSet, QualType
  <2>3. sync' \in SyncRow /\ sync'.applied = sync.applied
        /\ sync'.attempt = Len(committed)
    BY <1>4, <1>7, <2>2 DEF ApplyDesired, SyncRow
  <2>4. SyncedInv'
    BY <1>0, <2>1, <2>2, <2>3 DEF SyncedInv
  <2>5. CASE claim.uid # 0
    BY <1>0, <1>1, <1>2, <1>3, <1>4, <1>7, <2>1, <2>2, <2>3, <2>4, <2>5, WorkloadKeeps
    DEF ApplyDesired
  <2>6. CASE claim.uid = 0
    <3>1. claim' \in Claim
      <4>1. /\ created.claims + 1 \in 0..MaxStateClaims
            /\ claim' = [uid |-> created.claims + 1, bound |-> FALSE]
        BY <1>1, <1>7, <2>6 DEF ApplyDesired
      <4> QED  BY <4>1 DEF Claim
    <3>2. created' \in [pods : 0..MaxPods, claims : 0..MaxStateClaims]
          /\ created'.pods = created.pods
      BY <1>1, <1>4, <1>7, <2>6 DEF ApplyDesired
    <3>3. pod = NoPod
      BY <1>2, <2>6
    <3> QED
      BY <1>1, <1>2, <1>3, <1>4, <2>1, <2>2, <2>3, <2>4, <3>1, <3>2, <3>3, WorkloadKeeps
  <2> QED  BY <2>5, <2>6
<1>8. CASE RecordApplied
  <2>1. PICK st \in {"applied", "pending"} :
          sync' = [sync EXCEPT !.applied = sync.attempt, !.state = st]
    BY <1>8 DEF RecordApplied
  <2>2. sync' \in SyncRow /\ sync'.applied = sync.attempt /\ sync'.attempt = sync.attempt
    BY <1>4, <2>1 DEF SyncRow
  <2>3. SyncedInv'
    BY <1>0, <1>8, <2>2 DEF SyncedInv, RecordApplied
  <2>4. UNCHANGED <<committed, deployed, pod, claim, created, qualification, baseline>>
    BY <1>8 DEF RecordApplied
  <2> QED
    BY <1>1, <1>2, <1>3, <1>4, <2>2, <2>3, <2>4, WorkloadKeeps
<1>9. CASE RecordFailure
  <2>1. PICK st \in {"failed", "operator_required"} :
          sync' = [sync EXCEPT !.attempt = sync.applied, !.state = st]
    BY <1>9 DEF RecordFailure
  <2>2. sync' \in SyncRow /\ sync'.applied = sync.applied /\ sync'.attempt = sync.applied
    BY <1>4, <2>1 DEF SyncRow
  <2>3. SyncedInv'
    BY <1>0, <1>9, <2>2 DEF SyncedInv, RecordFailure
  <2>4. deployed' \in Images
    BY <1>0, <1>5, <1>9 DEF SyncedInv, RecordFailure
  <2> QED
    BY <1>1, <1>2, <1>3, <1>4, <1>9, <2>2, <2>3, <2>4, WorkloadKeeps
    DEF RecordFailure
<1>10. CASE PodEnds
  <2>1. SyncedInv'
    BY <1>0, <1>10 DEF SyncedInv, PodEnds
  <2> QED
    BY <1>1, <1>3, <1>4, <1>10, <2>1, IdleRunTyped, WorkloadKeeps DEF PodEnds
<1>11. CASE PodStarts
  <2>1. UNCHANGED <<committed, sync, deployed, qualification, baseline>> /\ SyncedInv'
    BY <1>0, <1>11 DEF SyncedInv, PodStarts
  <2>2. claim' \in Claim /\ claim'.uid = claim.uid /\ claim.uid \in 1..MaxStateClaims
    <3>1. PICK c : c = [claim EXCEPT !.bound = TRUE] /\ claim' = c /\ claim.uid # 0
      BY <1>11 DEF PodStarts
    <3>2. c \in Claim /\ c.uid = claim.uid /\ claim.uid \in 0..MaxStateClaims
      BY <1>4, <3>1 DEF Claim
    <3> QED  BY <3>1, <3>2
  <2>3. created' \in [pods : 0..MaxPods, claims : 0..MaxStateClaims]
        /\ created'.pods = created.pods + 1
    BY <1>1, <1>4, <1>11 DEF PodStarts
  <2>4. PICK p : /\ p = [name |-> created.pods + 1, image |-> deployed,
                         claim |-> claim.uid, ready |-> FALSE]
                 /\ pod' = p
    BY <1>11 DEF PodStarts
  <2>5. p \in WorkloadPod /\ p.name = created.pods + 1 /\ p.claim = claim.uid
    BY <1>1, <1>4, <1>11, <2>2, <2>4 DEF PodStarts, WorkloadPod
  <2>6. p.name # qualification.seen.name
    BY <1>1, <2>5
  <2> HIDE DEF WorkloadPod
  <2> QED
    BY <1>1, <1>3, <1>4, <2>1, <2>2, <2>3, <2>4, <2>5, <2>6, WorkloadKeeps
<1>12. CASE ReadinessChanges
  <2>1. SyncedInv'
    BY <1>0, <1>12 DEF SyncedInv, ReadinessChanges
  <2>2. pod' \in WorkloadPod /\ pod'.name = pod.name /\ pod'.claim = pod.claim
    BY <1>2, <1>12 DEF ReadinessChanges, WorkloadPod
  <2>3. pod # NoPod
    BY <1>12 DEF ReadinessChanges
  <2> QED
    BY <1>1, <1>2, <1>3, <1>4, <1>12, <2>1, <2>2, <2>3, WorkloadKeeps
    DEF ReadinessChanges
<1>13. CASE DeleteClaim
  <2>1. SyncedInv' /\ claim' \in Claim
    BY <1>0, <1>13 DEF SyncedInv, DeleteClaim, Claim
  <2> QED
    BY <1>1, <1>2, <1>3, <1>4, <1>13, <2>1, WorkloadKeeps DEF DeleteClaim
<1> QED  BY <1>6, <1>7, <1>8, <1>9, <1>10, <1>11, <1>12, <1>13

-------------------------------------------------------------------------------
(* The run before the deployment is read, and its end. *)
LEMMA EarlyRunStepKeeps ==
  ASSUME QualInv,
         \/ Start \/ HostChecks \/ PrepareRequestedChange \/ RequestRollback
         \/ WriteReport \/ HostReboots
  PROVE  QualInv'
<1>0. QualType /\ SyncedInv
  BY DEF QualInv
<1>1. UNCHANGED committed => SetsKept
  BY <1>0, SetsStay
<1>2. sync \in SyncRow /\ baseline \in Evidence /\ qualification \in Run
  BY <1>0 DEF QualType
<1>3. UNCHANGED <<committed, sync>> => SetsKept /\ sync' \in SyncRow /\ SyncedInv'
  BY <1>0, <1>1, <1>2 DEF SyncedInv
<1>4. \A st \in {"change", "rollback", "wait"} :
        LET next == [qualification EXCEPT !.step = st]
        IN next \in Run /\ next.step = st /\ next.seen = qualification.seen
  BY <1>2 DEF Run, RunStep
<1>5. {"change", "rollback", "wait"} \subseteq RunStep \ AfterDeployment
  BY DEF RunStep, AfterDeployment
<1>6. ASSUME NEW st \in {"change", "rollback", "wait"},
             \/ qualification' = [qualification EXCEPT !.step = st]
             \/ Fail(st)
      PROVE  /\ qualification' \in Run /\ qualification'.step \notin AfterDeployment
             /\ qualification'.seen \in {qualification.seen, NoPod}
  BY <1>0, <1>4, <1>5, <1>6, FailForgets
<1>7. \A st \in {"change", "rollback", "wait"} :
        [qualification EXCEPT !.step = st].step = st
  BY <1>4
<1>8. CASE Start
  <2>1. PICK checkpoint \in Checkpoint, commit \in BOOLEAN :
          qualification' = [IdleRun EXCEPT !.step = "host", !.checkpoint = checkpoint,
                                           !.commit = commit]
    BY <1>8 DEF Start
  <2>2. qualification' \in Run /\ qualification'.step = "host"
        /\ qualification'.seen = NoPod
    BY <2>1, IdleRunTyped DEF Run, RunStep
  <2>3. "host" \notin AfterDeployment
    BY DEF AfterDeployment
  <2> QED
    BY <1>2, <1>3, <1>8, <2>2, <2>3, QuietRunKeeps DEF Start, clusterVars
<1>9. CASE HostChecks
  <2>1. qualification' = [qualification EXCEPT !.step = "change"] \/ Fail("change")
    BY <1>7, <1>9 DEF HostChecks, RunCheck
  <2> QED
    BY <1>2, <1>3, <1>6, <1>9, <2>1, QuietRunKeeps DEF HostChecks, clusterVars
<1>10. CASE PrepareRequestedChange
  <2>1. qualification' = [qualification EXCEPT !.step = "rollback"] \/ Fail("rollback")
    BY <1>10 DEF PrepareRequestedChange
  <2>2. ASSUME NEW image \in Images,
               CommitDesired([bundle |-> Len(committed) + 1, image |-> image])
        PROVE  SetsKept /\ sync' \in SyncRow /\ SyncedInv'
    <3>1. [bundle |-> Len(committed) + 1, image |-> image] \in CommittedSet
      BY <1>0, <2>2, QualAssumption DEF CommitDesired, CommittedSet, QualType
    <3> QED  BY <2>2, <3>1, WorkloadCommitKeeps
  <2>3. SetsKept /\ sync' \in SyncRow /\ SyncedInv'
    BY <1>3, <1>10, <2>2 DEF PrepareRequestedChange
  <2> QED
    BY <1>2, <1>6, <1>10, <2>1, <2>3, QuietRunKeeps DEF PrepareRequestedChange
<1>11. CASE RequestRollback
  <2>1. qualification' = [qualification EXCEPT !.step = "wait"] \/ Fail("wait")
    BY <1>7, <1>11 DEF RequestRollback, RunCheck
  <2>2. ASSUME NEW n \in 1..Len(committed), CommitDesired(committed[n])
        PROVE  SetsKept /\ sync' \in SyncRow /\ SyncedInv'
    <3>1. committed[n] \in CommittedSet
      BY <1>0 DEF QualType
    <3> QED  BY <2>2, <3>1, WorkloadCommitKeeps
  <2>3. SetsKept /\ sync' \in SyncRow /\ SyncedInv'
    BY <1>3, <1>11, <2>2 DEF RequestRollback
  <2> QED
    BY <1>2, <1>6, <1>11, <2>1, <2>3, QuietRunKeeps DEF RequestRollback
<1>12. CASE WriteReport
  <2>1. qualification' = IdleRun /\ baseline' \in {baseline, qualification.evidence}
    BY <1>12 DEF WriteReport
  <2>2. baseline' \in Evidence
    BY <1>2, <2>1 DEF Run
  <2>3. "idle" \notin AfterDeployment
    BY DEF AfterDeployment
  <2> QED
    BY <1>3, <1>12, <2>1, <2>2, <2>3, IdleRunTyped, QuietRunKeeps
    DEF WriteReport, clusterVars
<1>13. CASE HostReboots
  <2>1. /\ QualType' /\ SyncedInv'
    BY <1>0, <1>13, IdleRunTyped DEF HostReboots, QualType, SyncedInv
  <2>2. PodInv'
    BY <1>0, <1>13, IdleRunTyped DEF HostReboots, PodInv, QualType
  <2>3. RunInv'
    BY <1>13, IdleRunTyped DEF HostReboots, RunInv, AfterDeployment, AfterPod
  <2> QED  BY <2>1, <2>2, <2>3 DEF QualInv
<1> QED  BY <1>8, <1>9, <1>10, <1>11, <1>12, <1>13

-------------------------------------------------------------------------------
(* A check that passed after the deployment was read. *)
LEMMA KnownRunKeeps ==
  ASSUME QualInv, UNCHANGED <<clusterVars, baseline>>, qualification' \in Run,
         qualification'.seen \in {qualification.seen, pod},
         RunInv'
  PROVE  QualInv'
<1>1. QualType' /\ SyncedInv'
  BY DEF QualInv, QualType, SyncedInv, clusterVars
<1>2. PodInv'
  BY DEF QualInv, PodInv, clusterVars
<1> QED  BY <1>1, <1>2 DEF QualInv

LEMMA StepTyped ==
  /\ "catalog" \in RunStep /\ "workload" \in RunStep /\ "pod" \in RunStep
  /\ "claim" \in RunStep /\ "telemetry" \in RunStep /\ "events" \in RunStep
  /\ "report" \in RunStep
  BY DEF RunStep

LEMMA WaitKeeps == QualInv /\ WaitForDeployment => QualInv'
<1> SUFFICES ASSUME QualInv, WaitForDeployment PROVE QualInv'  OBVIOUS
<1> DEFINE read == [qualification EXCEPT
                      !.step = "catalog",
                      !.settled = (sync.applied = Len(committed)),
                      !.wanted = DesiredSet.image,
                      !.evidence.bundle = committed[sync.applied].bundle,
                      !.evidence.image = committed[sync.applied].image]
<1>1. QualType /\ SyncedInv /\ UNCHANGED <<clusterVars, baseline>>
  BY DEF QualInv, WaitForDeployment
<1>2. Fail("catalog") \/ RunCheck(RevisionsMatch, read)
  BY DEF WaitForDeployment
<1>3. read.step = "catalog"
  <2>1. qualification \in Run
    BY <1>1 DEF QualType
  <2> QED  BY <2>1 DEF Run
<1>4. Fail("catalog") \/ (RevisionsMatch /\ qualification' = read)
  <2> HIDE DEF read
  <2> QED  BY <1>2, <1>3 DEF RunCheck
<1>5. CASE Fail("catalog")
  BY <1>1, <1>5, StepTyped, FailKeeps
<1>6. CASE RevisionsMatch /\ qualification' = read
  <2>1. qualification \in Run /\ sync.applied \in 1..Len(committed)
        /\ committed[sync.applied] \in CommittedSet
        /\ DesiredSet = committed[sync.applied]
    BY <1>1, <1>6 DEF QualType, SyncedInv, RevisionsMatch, DesiredSet
  <2>2. committed[sync.applied].bundle \in 0..MaxCommits
        /\ committed[sync.applied].image \in Images
    BY <2>1, QualAssumption DEF CommittedSet
  <2>3. qualification.evidence \in Evidence
    BY <2>1 DEF Run
  <2>4. PICK evidence \in Evidence :
          /\ evidence = [qualification.evidence EXCEPT
                           !.bundle = committed[sync.applied].bundle,
                           !.image = committed[sync.applied].image]
          /\ evidence.bundle = committed[sync.applied].bundle
          /\ evidence.image = committed[sync.applied].image
    <3> DEFINE bundle == committed[sync.applied].bundle
               image == committed[sync.applied].image
               kept == [qualification.evidence EXCEPT !.bundle = bundle, !.image = image]
    <3> HIDE DEF bundle, image
    <3>1. bundle \in 0..MaxCommits /\ image \in Images
      BY <2>2 DEF bundle, image
    <3>2. kept \in Evidence /\ kept.bundle = bundle /\ kept.image = image
      BY <2>3, <3>1 DEF Evidence
    <3> HIDE DEF kept
    <3>3. kept = [qualification.evidence EXCEPT !.bundle = committed[sync.applied].bundle,
                                                !.image = committed[sync.applied].image]
      BY DEF kept, bundle, image
    <3> QED  BY <3>2, <3>3 DEF bundle, image
  <2>5. PICK q : /\ q = [qualification EXCEPT
                           !.step = "catalog",
                           !.settled = (sync.applied = Len(committed)),
                           !.wanted = DesiredSet.image,
                           !.evidence = evidence]
                 /\ qualification' = q
    <3>1. read = [qualification EXCEPT
                    !.step = "catalog",
                    !.settled = (sync.applied = Len(committed)),
                    !.wanted = DesiredSet.image,
                    !.evidence = evidence]
      BY <2>1, <2>3, <2>4 DEF Run, Evidence
    <3> QED  BY <1>6, <3>1
  <2>6. /\ q \in Run /\ q.step = "catalog" /\ q.evidence = evidence
        /\ q.seen = qualification.seen /\ q.settled = (sync.applied = Len(committed))
    BY <2>1, <2>2, <2>5, StepTyped DEF Run
  <2>7. sync.applied = Len(committed)
    BY <1>6 DEF RevisionsMatch
  <2>8. RunInv'
    <3>1. committed' = committed
      BY <1>1 DEF clusterVars
    <3>2. WasCommitted(qualification)'
      BY <2>1, <2>4, <2>5, <2>6, <3>1 DEF WasCommitted
    <3> QED  BY <2>5, <2>6, <2>7, <3>2 DEF RunInv, AfterPod
  <2> QED  BY <1>1, <2>5, <2>6, <2>8, KnownRunKeeps
<1> QED  BY <1>4, <1>5, <1>6

(* A step that reads nothing new: the knowledge before it suffices.        *)
LEMMA AdvanceKeeps ==
  ASSUME QualInv, NEW st \in {"workload", "pod", "events", "report"}, NEW passed,
         UNCHANGED <<clusterVars, baseline>>,
         RunCheck(passed, [qualification EXCEPT !.step = st]),
         qualification.step \in AfterDeployment,
         st \in AfterPod =>
           qualification.step \in AfterPod /\ qualification.step # "report",
         st = "events" => qualification.step = "telemetry",
         st = "report" /\ passed =>
           qualification.evidence.claim = qualification.seen.claim
  PROVE  QualInv'
<1> DEFINE read == [qualification EXCEPT !.step = st]
<1>1. QualType /\ RunInv /\ qualification \in Run /\ st \in RunStep
  BY StepTyped DEF QualInv, QualType
<1>2. /\ read \in Run /\ read.step = st /\ read.seen = qualification.seen
      /\ read.evidence = qualification.evidence /\ read.settled = qualification.settled
  BY <1>1 DEF Run
<1>3. RunCheck(passed, read)
  OBVIOUS
<1> HIDE DEF read
<1>4. CASE Fail(st)
  BY <1>1, <1>4, FailKeeps
<1>5. CASE passed /\ qualification' = read
  <2>1. committed' = committed /\ pod' = pod
    BY DEF clusterVars
  <2>2. WasCommitted(qualification)' <=> WasCommitted(qualification)
    BY <1>2, <1>5, <2>1 DEF WasCommitted
  <2>3. RunInv'
    BY <1>1, <1>2, <1>5, <2>1, <2>2 DEF RunInv, AfterDeployment, AfterPod
  <2> QED  BY <1>2, <1>5, <2>3, KnownRunKeeps
<1> QED  BY <1>2, <1>3, <1>4, <1>5 DEF RunCheck

LEMMA ReadPodKeeps == QualInv /\ ReadPod => QualInv'
<1> SUFFICES ASSUME QualInv, ReadPod PROVE QualInv'  OBVIOUS
<1> DEFINE read == [qualification EXCEPT !.step = "claim", !.seen = pod]
           passed == pod.ready /\ pod.image = qualification.evidence.image
<1>1. /\ QualType /\ RunInv /\ qualification \in Run /\ pod \in WorkloadPod
      /\ UNCHANGED <<clusterVars, baseline>> /\ qualification.step = "pod"
  BY DEF QualInv, QualType, ReadPod
<1>2. /\ read \in Run /\ read.step = "claim" /\ read.seen = pod
      /\ read.evidence = qualification.evidence /\ read.settled = qualification.settled
  <2> HIDE DEF WorkloadPod, Evidence
  <2> QED  BY <1>1, StepTyped DEF Run
<1>3. RunCheck(passed, read)
  BY DEF ReadPod
<1> HIDE DEF read
<1>4. CASE Fail("claim")
  BY <1>1, <1>4, StepTyped, FailKeeps
<1>5. CASE passed /\ qualification' = read
  <2>1. committed' = committed /\ pod' = pod
    BY <1>1 DEF clusterVars
  <2>2. WasCommitted(qualification)' <=> WasCommitted(qualification)
    BY <1>2, <1>5, <2>1 DEF WasCommitted
  <2>3. RunInv'
    BY <1>1, <1>2, <1>5, <2>1, <2>2 DEF RunInv, AfterDeployment, AfterPod
  <2> QED  BY <1>1, <1>2, <1>5, <2>3, KnownRunKeeps
<1> QED
  <2> HIDE DEF passed
  <2> QED  BY <1>2, <1>3, <1>4, <1>5 DEF RunCheck

LEMMA ReadClaimKeeps == QualInv /\ ReadClaim => QualInv'
<1> SUFFICES ASSUME QualInv, ReadClaim PROVE QualInv'  OBVIOUS
<1> DEFINE read == [qualification EXCEPT !.step = "telemetry",
                                         !.evidence.claim = claim.uid]
<1>1. /\ QualType /\ RunInv /\ PodInv /\ qualification \in Run
      /\ UNCHANGED <<clusterVars, baseline>> /\ qualification.step = "claim"
      /\ claim \in Claim
  BY DEF QualInv, QualType, ReadClaim
<1>2. /\ read \in Run /\ read.step = "telemetry" /\ read.seen = qualification.seen
      /\ read.settled = qualification.settled
      /\ read.evidence.bundle = qualification.evidence.bundle
      /\ read.evidence.image = qualification.evidence.image
      /\ read.evidence.claim = claim.uid
  <2>1. qualification.evidence \in Evidence /\ claim.uid \in 0..MaxStateClaims
    BY <1>1 DEF Run, Claim
  <2>2. PICK evidence : evidence = [qualification.evidence EXCEPT !.claim = claim.uid]
    OBVIOUS
  <2>3. /\ evidence \in Evidence /\ evidence.claim = claim.uid
        /\ evidence.bundle = qualification.evidence.bundle
        /\ evidence.image = qualification.evidence.image
    BY <2>1, <2>2 DEF Evidence
  <2>4. read = [qualification EXCEPT !.step = "telemetry", !.evidence = evidence]
    BY <1>1, <2>2 DEF Run
  <2> HIDE DEF read, Evidence
  <2> QED  BY <1>1, <2>3, <2>4, StepTyped DEF Run
<1>3. RunCheck(claim.bound, read)
  BY DEF ReadClaim
<1> HIDE DEF read
<1>4. CASE Fail("telemetry")
  BY <1>1, <1>4, StepTyped, FailKeeps
<1>5. CASE qualification' = read
  <2>1. committed' = committed /\ pod' = pod
    BY <1>1 DEF clusterVars
  <2>2. WasCommitted(qualification)' <=> WasCommitted(qualification)
    BY <1>2, <1>5, <2>1 DEF WasCommitted
  <2>3. pod # NoPod /\ pod.name = qualification.seen.name
          => claim.uid = qualification.seen.claim
    BY <1>1 DEF PodInv
  <2>4. RunInv'
    BY <1>1, <1>2, <1>5, <2>1, <2>2, <2>3 DEF RunInv, AfterDeployment, AfterPod
  <2> QED  BY <1>1, <1>2, <1>5, <2>4, KnownRunKeeps
<1> QED  BY <1>2, <1>3, <1>4, <1>5 DEF RunCheck

LEMMA QualStepKeeps == QualInv /\ [QualNext]_qualVars => QualInv'
<1> SUFFICES ASSUME QualInv, [QualNext]_qualVars PROVE QualInv'  OBVIOUS
<1>1. CASE CatalogChecks
  BY <1>1, AdvanceKeeps DEF CatalogChecks, AfterDeployment, AfterPod
<1>2. CASE WorkloadContract
  BY <1>2, AdvanceKeeps DEF WorkloadContract, AfterDeployment, AfterPod
<1>3. CASE Telemetry
  BY <1>3, AdvanceKeeps DEF Telemetry, AfterDeployment, AfterPod
<1>4. CASE Events
  <2>1. qualification.step = "events" /\ UNCHANGED <<clusterVars, baseline>>
    BY <1>4 DEF Events
  <2>2. PICK arrived \in BOOLEAN :
          RunCheck(StreamsEvents /\ arrived, [qualification EXCEPT !.step = "report"])
    BY <1>4 DEF Events
  <2>3. StreamsEvents => qualification.evidence.claim = qualification.seen.claim
    BY <2>1 DEF QualInv, RunInv, StreamsEvents
  <2> QED  BY <2>1, <2>2, <2>3, AdvanceKeeps DEF AfterDeployment, AfterPod
<1>5. CASE UNCHANGED qualVars
  BY <1>5 DEF qualVars, QualInv, QualType, SyncedInv, PodInv, RunInv, WasCommitted
<1> QED
  BY <1>1, <1>2, <1>3, <1>4, <1>5, DeploymentStepKeeps, EarlyRunStepKeeps, WaitKeeps,
     ReadPodKeeps, ReadClaimKeeps DEF QualNext

LEMMA QualInductive == QualSpec => []QualInv
<1>1. QualInit => QualInv
  BY QualInitInv
<1>2. QualInv /\ [QualNext]_qualVars => QualInv'
  BY QualStepKeeps
<1> QED  BY <1>1, <1>2, PTL DEF QualSpec

(***************************************************************************)
(* A qualification report that passes was true of one Pod, though commits, *)
(* rollouts, restarts and the deletion of the claim went on while it was   *)
(* put together.                                                           *)
(***************************************************************************)
THEOREM ReportsAreWitnessed == QualSpec => []PassedIsWitnessed
<1>1. QualInv => PassedIsWitnessed
  <2> SUFFICES ASSUME QualInv, Passes PROVE PassedIsWitnessed
    BY DEF PassedIsWitnessed
  <2>1. /\ qualification.settled /\ WasCommitted(qualification)
        /\ qualification.seen.ready
        /\ qualification.seen.image = qualification.evidence.image
        /\ qualification.seen.claim = qualification.evidence.claim
    BY DEF QualInv, RunInv, Passes, AfterDeployment, AfterPod
  <2>2. qualification.evidence = [bundle |-> qualification.evidence.bundle,
                                  image |-> qualification.evidence.image,
                                  claim |-> qualification.evidence.claim]
    <3>1. qualification.evidence \in Evidence
      BY DEF QualInv, QualType, Run
    <3> QED  BY <3>1 DEF Evidence
  <2> QED
    BY <2>1, <2>2 DEF PassedIsWitnessed, Passes, MatchesBaseline, WasCommitted
<1> QED  BY <1>1, QualInductive, PTL

-------------------------------------------------------------------------------
(***************************************************************************)
(* The services together.  The run looks at one service of a site at a     *)
(* time; nothing that it does is new to any of them.                       *)
(***************************************************************************)
(* A service with its initial states and its steps, without fairness. *)
FleetSafety == FleetInit /\ [][FleetNext]_fleetVars

ServicesInit ==
    /\ ReportInit /\ WatchdogInit /\ UpgradeInit
    /\ FailoverInit /\ WindowInit /\ NodeInit /\ FleetInit
    /\ SessionInit /\ TelemetryInit /\ GeometryInit /\ QualInit

ServicesNext ==
    /\ [ReportNext]_reportVars /\ [WatchdogNext]_watchdogVars
    /\ [UpgradeNext]_upgradeVars /\ [FailoverNext]_failoverVars
    /\ [WindowNext]_windowVars /\ [NodeNext]_nodeVars /\ [FleetNext]_fleetVars
    /\ [SessionNext]_sessionVars /\ [TelemetryNext]_telemetryVars
    /\ [GeometryNext]_geometryVars /\ [QualNext]_qualVars

LEMMA StepOfServices == [Next]_vars => ServicesNext
<1> SUFFICES ASSUME [Next]_vars PROVE ServicesNext
  OBVIOUS
<1>1. CASE UpgradeStep   BY <1>1, Zenon DEF UpgradeStep, ServicesNext
<1>2. CASE SessionStep   BY <1>2, Zenon DEF SessionStep, ServicesNext
<1>3. CASE TelemetryStep BY <1>3, Zenon DEF TelemetryStep, ServicesNext
<1>4. CASE WatchdogStep  BY <1>4, Zenon DEF WatchdogStep, ServicesNext
<1>5. CASE MailStep      BY <1>5, Zenon DEF MailStep, ServicesNext
<1>6. CASE FailoverStep  BY <1>6, Zenon DEF FailoverStep, ServicesNext
<1>7. CASE WindowStep    BY <1>7, Zenon DEF WindowStep, ServicesNext
<1>8. CASE GeometryStep  BY <1>8, Zenon DEF GeometryStep, ServicesNext
<1>9. CASE NodeStep      BY <1>9, Zenon DEF NodeStep, ServicesNext
<1>10. CASE SuiteStep    BY <1>10, Zenon DEF SuiteStep, ServicesNext
<1>11. CASE FleetStep    BY <1>11, Zenon DEF FleetStep, ServicesNext
<1>12. CASE UNCHANGED vars
  BY <1>12, Zenon DEF vars, ServicesNext
<1> QED
  BY <1>1, <1>2, <1>3, <1>4, <1>5, <1>6, <1>7, <1>8, <1>9, <1>10, <1>11, <1>12, Zenon
  DEF Next

(***************************************************************************)
(* Every behaviour of the run is a behaviour of each service, so that what *)
(* is proved of a service by itself holds of the specification that is     *)
(* model-checked.  (FleetSpec's fairness is the one thing left out: the    *)
(* run has it only while it looks at the fleet.)                           *)
(***************************************************************************)
THEOREM ServicesStandAlone ==
  Spec => /\ ReportSpec /\ WatchdogSpec /\ UpgradeSpec /\ FailoverSpec
          /\ WindowSpec /\ NodeStatusSpec /\ FleetSafety /\ SessionSpec
          /\ TelemetrySpec /\ GeometrySpec /\ QualSpec
<1>1. Init => ServicesInit
  BY Zenon DEF Init, ServicesInit
<1> QED
  BY <1>1, StepOfServices, PTL
  DEF Spec, ServicesInit, ServicesNext, ReportSpec, WatchdogSpec, UpgradeSpec,
      FailoverSpec, WindowSpec, NodeStatusSpec, FleetSafety, SessionSpec,
      TelemetrySpec, GeometrySpec, QualSpec

(***************************************************************************)
(* No service writes a value of the wrong shape: rows, files, labels,      *)
(* claims and records stay in the domains that the other operations read,  *)
(* and counters within their bounds.                                       *)
(***************************************************************************)
THEOREM TypesHold == PositiveBound => (Spec => []TypeOK)
<1> SUFFICES ASSUME PositiveBound PROVE Spec => []TypeOK
  OBVIOUS
<1>1. /\ ReportInv => ReportType
      /\ WatchdogInv => WatchdogType
      /\ FailoverInv => FailoverType
      /\ WindowInv => WindowType
      /\ NodeInv => NodeType
      /\ FleetInv => FleetType
      /\ TelemetryInv => TelemetryType
      /\ QualInv => QualType
  BY Zenon DEF ReportInv, WatchdogInv, FailoverInv, WindowInv, NodeInv, FleetInv,
               TelemetryInv, QualInv
<1>2. UpgradeInv => UpgradeType
  BY Zenon DEF UpgradeInv, SolutionInv, ReleaseInv, UpgradeType
<1>3. GeometryTypeInv => GeometryType
  BY Zenon DEF GeometryTypeInv
<1>4. ReportSpec => []ReportType
  BY <1>1, ReportInitInv, ReportPreserved, PTL DEF ReportSpec
<1>5. WatchdogSpec => []WatchdogType
  BY <1>1, WatchdogInitInv, WatchdogPreserved, PTL DEF WatchdogSpec
<1>6. UpgradeSpec => []UpgradeType
  BY <1>2, UpgradeInvariant, PTL
<1>7. FailoverSpec => []FailoverType
  BY <1>1, FailoverInitInv, FailoverNextKeeps, PTL DEF FailoverSpec
<1>8. WindowSpec => []WindowType
  BY <1>1, WindowInitInv, WindowNextKeeps, PTL DEF WindowSpec
<1>9. NodeStatusSpec => []NodeType
  BY <1>1, NodeInitInv, NodeNextKeeps, PTL DEF NodeStatusSpec
<1>10. FleetSafety => []FleetType
  BY <1>1, FleetInitInv, FleetNextKeeps, PTL DEF FleetSafety
<1>11. SessionSpec => []SessionType
  BY SessionTyped, SessionTypeHolds, PTL
<1>12. TelemetrySpec => []TelemetryType
  BY <1>1, TelemetryInitInv, StoreStepKeeps, PTL DEF TelemetrySpec
<1>13. GeometrySpec => []GeometryType
  BY <1>3, GeometryTyped, PTL
<1>14. QualSpec => []QualType
  BY <1>1, QualInductive, PTL
<1> QED
  BY <1>4, <1>5, <1>6, <1>7, <1>8, <1>9, <1>10, <1>11, <1>12, <1>13, <1>14,
     ServicesStandAlone, PTL
  DEF TypeOK

===============================================================================
