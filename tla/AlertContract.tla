----------------------------- MODULE AlertContract -----------------------------
(***************************************************************************)
(* What the alert dispatcher promises about one alert and the recipients   *)
(* of its notification policies, whatever the order of webhooks, however   *)
(* often they are repeated, and however delivery is retried:               *)
(*                                                                         *)
(*   - occurrences follow each other, and one that is over stays over;     *)
(*   - nobody is reminded, or told of a recovery, who has not been told    *)
(*     that the occurrence began;                                          *)
(*   - nobody is told of a recovery before the occurrence is over.         *)
(***************************************************************************)
EXTENDS Naturals

CONSTANTS
    Policies,       \* notification policies that match the alert
    Occurrences     \* numbers of occurrences, in the order of starts_at

VARIABLES
    occurrence,     \* current occurrence, 0 before the first
    state,          \* AlertInstance.state, "none" without a row
    told            \* <<policy, kind, occurrence>> that reached a recipient

vars == <<occurrence, state, told>>

Init == occurrence = 0 /\ state = "none" /\ told = {}

Over(o) == o < occurrence \/ (o = occurrence /\ state = "resolved")

Begin(o) ==
    /\ o > occurrence
    /\ occurrence' = o
    /\ state' = "active"
    /\ UNCHANGED told

Acknowledge ==
    /\ state = "active"
    /\ state' = "acknowledged"
    /\ UNCHANGED <<occurrence, told>>

(* A resolution that arrives first makes the occurrence known as over. *)
Resolve(o) ==
    /\ o = occurrence \/ state = "none"
    /\ state # "resolved"
    /\ occurrence' = o
    /\ state' = "resolved"
    /\ UNCHANGED told

Tell(p, kind, o) ==
    /\ o <= occurrence
    /\ kind \in {"reminder", "resolved"} => <<p, "firing", o>> \in told
    /\ kind = "resolved" => Over(o)
    /\ told' = told \cup {<<p, kind, o>>}
    /\ UNCHANGED <<occurrence, state>>

Next ==
    \/ \E o \in Occurrences : Begin(o) \/ Resolve(o)
    \/ Acknowledge
    \/ \E p \in Policies, o \in Occurrences, kind \in {"firing", "reminder", "resolved"} :
         Tell(p, kind, o)

Spec == Init /\ [][Next]_vars

===============================================================================
