--------------------------- MODULE MCTreatmentCase ---------------------------
(***************************************************************************)
(* Constants for model checking TreatmentCase.                             *)
(***************************************************************************)
EXTENDS TreatmentCase

\* Amounts within the limits, not all equal.
MCSmall == [t \in Target |-> (t % 2) + 1]

\* One amount above the per-target limit of the configurations.
MCLarge == [t \in Target |-> IF t = 1 THEN 4 ELSE 1]

\* Every count a client can send, too large and negative ones included.
MCCounts == {None} \cup (-1 .. N + 1)
=============================================================================
