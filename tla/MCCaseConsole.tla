---------------------------- MODULE MCCaseConsole ----------------------------
(***************************************************************************)
(* Constants for model checking CaseConsole: targets of amount one.        *)
(***************************************************************************)
EXTENDS CaseConsole

MCAmount == [t \in Target |-> 1]
=============================================================================
