------------------------------ MODULE K3sWatchdog ------------------------------
(***************************************************************************)
(* The host watchdog of the K3s API (src/tvt_edge/watchdog.py): a timer    *)
(* runs it every 30 seconds, a lock keeps two runs apart, and what it must *)
(* remember between runs is in a state file that is replaced at the end of *)
(* a run.  The run may be killed, or the write may fail, after K3s was     *)
(* restarted; the file may be lost or damaged; the host may reboot, its    *)
(* boot id may not be readable, and its clock may be set.                  *)
(***************************************************************************)
EXTENDS Integers, Sequences

CONSTANTS
    Threshold,      \* FAILURE_THRESHOLD_SECONDS, in ticks
    Cooldown,       \* COOLDOWN_SECONDS
    MaxTime,        \* bound on the clock
    MaxChecks,      \* bound on the recorded runs: the last ends the behaviour
    MaxBoots

ASSUME WatchdogAssumption ==
    /\ Threshold \in Nat \ {0}
    /\ Cooldown \in Nat
    /\ MaxTime \in Nat
    /\ MaxBoots \in Nat \ {0}

VARIABLES
    clock,          \* the host's clock
    boot,           \* the boot id
    stateFile,      \* state.json
    run,            \* the run that has still to write its state
    log             \* history: the runs that wrote their state

watchdogVars == <<clock, boot, stateFile, run, log>>

CheckResult == {"healthy", "unhealthy", "service_inactive"}

Unset == -1

(* The boot id of a run that cannot read it. *)
Unknown == 0

(* What decides about a restart; times may be Unset. *)
State == [boot : Unknown..MaxBoots, since : Unset..MaxTime,
          until : Unset..(MaxTime + Cooldown)]

NoRun == [result |-> "none"]

(* A run; the cooldown that it found in the state file is history. *)
Entry == [result : CheckResult, at : 0..MaxTime, restarted : BOOLEAN,
          found : Unset..(MaxTime + Cooldown), state : State]

NewState(b) == [boot |-> b, since |-> Unset, until |-> Unset]

WatchdogInit ==
    /\ clock = 0
    /\ boot = 1
    /\ stateFile = NewState(1)
    /\ run = NoRun
    /\ log = <<>>

WatchdogType ==
    /\ clock \in 0..MaxTime
    /\ boot \in 1..MaxBoots
    /\ stateFile \in State
    /\ run \in Entry \cup {NoRun}
    /\ log \in Seq(Entry)

-------------------------------------------------------------------------------
Goes == Len(log) < MaxChecks

(* The state of another boot is forgotten. *)
Load(id) == IF stateFile.boot = id THEN stateFile ELSE NewState(id)

(* Mutant: only a healthy API ends the failure. *)
FailureSinceHealthy(result, id) ==
    IF result = "healthy" THEN Unset
    ELSE IF Load(id).since = Unset \/ Load(id).since > clock THEN clock
    ELSE Load(id).since

(* A check that is not unhealthy ends the failure; a failure that began in *)
(* the future of a clock that was set back begins now.                     *)
FailureSince(result, id) ==
    IF result # "unhealthy" THEN Unset
    ELSE IF Load(id).since = Unset \/ Load(id).since > clock THEN clock
    ELSE Load(id).since

Restarts(result, id) ==
    /\ result = "unhealthy"
    /\ clock - FailureSince(result, id) >= Threshold
    /\ clock >= Load(id).until

(* run_once up to the write: the check, and the restart if it is due. *)
Check(result, id) ==
    /\ Goes
    /\ run = NoRun
    /\ run' = [result |-> result, at |-> clock, restarted |-> Restarts(result, id),
               found |-> stateFile.until,
               state |-> [boot |-> id, since |-> FailureSince(result, id),
                          until |-> IF Restarts(result, id) THEN clock + Cooldown
                                    ELSE Load(id).until]]
    /\ UNCHANGED <<clock, boot, stateFile, log>>

(* _write replaces the file at once. *)
Write ==
    /\ run # NoRun
    /\ stateFile' = run.state
    /\ log' = Append(log, run)
    /\ run' = NoRun
    /\ UNCHANGED <<clock, boot>>

(* The run is killed before it wrote, or the write fails. *)
Lose ==
    /\ run # NoRun
    /\ run' = NoRun
    /\ UNCHANGED <<clock, boot, stateFile, log>>

(* Ticks, and an administrator or NTP setting the clock. *)
SetClock ==
    /\ Goes
    /\ clock' \in {clock - 1, clock + 1, clock + 2} \cap 0..MaxTime
    /\ UNCHANGED <<boot, stateFile, run, log>>

(* _load starts afresh when the file is missing, unreadable, undecodable or *)
(* of another version, and drops each time that is not a number: either    *)
(* time or both are gone.                                                  *)
DamageState ==
    /\ Goes
    /\ \E since \in {stateFile.since, Unset}, until \in {stateFile.until, Unset} :
         stateFile' = [stateFile EXCEPT !.since = since, !.until = until]
    /\ UNCHANGED <<clock, boot, run, log>>

Reboot ==
    /\ Goes
    /\ boot < MaxBoots
    /\ boot' = boot + 1
    /\ run' = NoRun
    /\ UNCHANGED <<clock, stateFile, log>>

WatchdogNext ==
    \/ \E result \in CheckResult, id \in {boot, Unknown} : Check(result, id)
    \/ Write
    \/ Lose
    \/ SetClock
    \/ DamageState
    \/ Reboot

-------------------------------------------------------------------------------
Runs == IF run = NoRun THEN log ELSE Append(log, run)

(* A recorded run saw the API fail at least Threshold before, and so did   *)
(* every recorded run since, all of them under one boot id.                *)
Sustained(j) ==
    \E i \in 1..(j - 1) :
        /\ Runs[j].at - Runs[i].at >= Threshold
        /\ \A k \in i..j :
             Runs[k].result = "unhealthy" /\ Runs[k].state.boot = Runs[j].state.boot

(* Run k found the cooldown that the recorded run before it left. *)
Remembers(k) ==
    /\ Runs[k].found = Runs[k - 1].state.until
    /\ Runs[k].state.boot = Runs[k - 1].state.boot

(***************************************************************************)
(* "Restart K3s once after sustained failure", then "a ten-minute          *)
(* cooldown before another automatic restart" (HLD.md).  Whatever happened *)
(* to the clock, to runs and to the file, a run that restarts K3s follows  *)
(* recorded failures that lasted long enough.  It follows every recorded   *)
(* restart by the cooldown, unless a run in between, or itself, found the  *)
(* cooldown lost from the file or had another boot id.  A restart that was *)
(* not recorded is repeated by the next run.                               *)
(***************************************************************************)
RestartsBounded ==
    \A j \in DOMAIN Runs : Runs[j].restarted =>
        /\ Sustained(j)
        /\ \A i \in 1..(j - 1) :
             Runs[i].restarted /\ (\A k \in (i + 1)..j : Remembers(k))
                => Runs[j].at - Runs[i].at >= Cooldown

===============================================================================
