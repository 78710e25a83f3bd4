---------------------------- MODULE MCMerchantWorld ----------------------------
(***************************************************************************)
(* Constants for model checking MerchantWorld: two days of one hour each,  *)
(* an incident in the baseline's last hour or one after it.                *)
(***************************************************************************)
EXTENDS MerchantWorld, TLC

Symmetric == Permutations(Customer)
MCWindows == {<<1, 2>>, <<2, 3>>}
=============================================================================
