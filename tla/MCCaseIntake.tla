---------------------------- MODULE MCCaseIntake ----------------------------
(***************************************************************************)
(* Three diagnoses: one that names the payment method, one that does not,  *)
(* and one that recommends a refund.                                       *)
(***************************************************************************)
EXTENDS CaseIntake
=============================================================================
