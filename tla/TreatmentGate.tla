---------------------------- MODULE TreatmentGate ----------------------------
(***************************************************************************)
(* What the closed loop promises to the human in it: nothing is sent to a  *)
(* customer before a human has granted the proposed treatment in time, a   *)
(* decision is taken once, the treatment is applied once and to every      *)
(* target, and only what was sent can be settled.                          *)
(***************************************************************************)
EXTENDS FiniteSets

CONSTANT Target     \* recovery targets of the treatment

VARIABLES
    gate,           \* the human decision
    inTime,         \* is the decision window still open?
    treated,        \* the targets a Payment Link was sent for
    settled         \* the targets whose recovery is decided

vars == <<gate, inTime, treated, settled>>

Init ==
    /\ gate = "closed"
    /\ inTime = TRUE
    /\ treated = {}
    /\ settled = {}

Ask ==
    /\ gate = "closed"
    /\ gate' = "awaiting"
    /\ UNCHANGED <<inTime, treated, settled>>

Lapse ==
    /\ gate # "closed"
    /\ inTime
    /\ inTime' = FALSE
    /\ UNCHANGED <<gate, treated, settled>>

Grant ==
    /\ gate = "awaiting" /\ inTime
    /\ gate' = "granted"
    /\ UNCHANGED <<inTime, treated, settled>>

\* A refusal may come late; a late grant is recorded as a lapsed request.
Refuse ==
    /\ gate = "awaiting"
    /\ \/ gate' = "refused"
       \/ ~ inTime /\ gate' = "lapsed"
    /\ UNCHANGED <<inTime, treated, settled>>

Treat ==
    /\ gate = "granted" /\ inTime
    /\ treated = {}
    /\ treated' = Target
    /\ UNCHANGED <<gate, inTime, settled>>

Settle(S) ==
    /\ S \subseteq treated \ settled
    /\ settled' = settled \cup S
    /\ UNCHANGED <<gate, inTime, treated>>

Next == Ask \/ Lapse \/ Grant \/ Refuse \/ Treat \/ \E S \in SUBSET Target : Settle(S)

Spec == Init /\ [][Next]_vars
=============================================================================
