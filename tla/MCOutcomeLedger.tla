--------------------------- MODULE MCOutcomeLedger ---------------------------
(***************************************************************************)
(* Constants for model checking OutcomeLedger: every target is owed the    *)
(* same amount, so that the targets are interchangeable.                   *)
(***************************************************************************)
EXTENDS OutcomeLedger, TLC

MCExpected == [t \in Target |-> 2]
TargetSymmetry == Permutations(Target)
=============================================================================
