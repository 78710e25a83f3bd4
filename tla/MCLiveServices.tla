---------------------------- MODULE MCLiveServices ----------------------------
(***************************************************************************)
(* The three places where a handler is suspended on a live service: a      *)
(* consultation on the model, an execution on the payment provider, and an *)
(* iteration over what the provider lists. They share no state, so Init    *)
(* chooses which of them is explored.                                      *)
(***************************************************************************)
EXTENDS Consultation, LiveExecution, ProviderListing

VARIABLE part

allVars == <<part, vars, execVars, listVars>>

MCInit ==
    /\ part \in {"consultation", "execution", "listing"}
    /\ Init /\ ExecInit /\ ListInit
    /\ part # "consultation" => ~ live
    /\ part # "execution" => mode = "stub"

Consulting == part = "consultation" /\ Next /\ UNCHANGED <<part, execVars, listVars>>
Executing  == part = "execution" /\ ExecNext /\ UNCHANGED <<part, vars, listVars>>
Listing    == part = "listing" /\ ListNext /\ UNCHANGED <<part, vars, execVars>>

MCNext == Consulting \/ Executing \/ Listing

\* In the parts that are not explored nothing is under way, so their fairness asks
\* for nothing.
MCSpec == MCInit /\ [][MCNext]_allVars /\ ConsultFairness /\ ExecFairness
=============================================================================
