------------------------------ MODULE DesiredState ------------------------------
(***************************************************************************)
(* What deployment synchronization promises, without workers, leases or    *)
(* Kubernetes: operators commit revisions 1, 2, 3, ...; the applied        *)
(* revision only moves forward, and only to a committed one; a deployment  *)
(* is settled exactly when nothing newer than its applied revision is      *)
(* desired, and only a new commit releases one that is held for an         *)
(* operator.                                                               *)
(***************************************************************************)
EXTENDS Integers

VARIABLES
    desired,    \* the newest committed revision, 0 before the first
    applied,    \* the revision recorded as applied, 0 before the first
    phase       \* "converging", "settled" or "held" for an operator

abstractVars == <<desired, applied, phase>>

Start == desired = 0 /\ applied = 0 /\ phase = "converging"

CommitRevision ==
    /\ desired' = desired + 1
    /\ phase' = "converging"
    /\ UNCHANGED applied

RecordApplied ==
    /\ phase = "converging"
    /\ applied' \in (applied + 1)..desired
    /\ phase' = IF applied' = desired THEN "settled" ELSE "converging"
    /\ UNCHANGED desired

(* Only an upgrade that was undone is held: something was applied before. *)
HoldForOperator ==
    /\ phase = "converging"
    /\ 0 < applied
    /\ applied < desired
    /\ phase' = "held"
    /\ UNCHANGED <<desired, applied>>

Step == CommitRevision \/ RecordApplied \/ HoldForOperator

Promise == Start /\ [][Step]_abstractVars

===============================================================================
