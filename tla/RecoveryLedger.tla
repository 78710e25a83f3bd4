---------------------------- MODULE RecoveryLedger ----------------------------
(***************************************************************************)
(* What the outcome layer promises, without events, ids, audit or time: a  *)
(* ledger with one verdict per recovery target. A verdict is given once    *)
(* and never revised; the published report is at every moment the report   *)
(* of the verdicts given so far. The only excuse for a report that lags is *)
(* a ledger whose credited money exceeds what was targeted.                *)
(***************************************************************************)
EXTENDS Integers, FiniteSets, FiniteSetsExt

CONSTANTS
    Target,     \* recovery targets
    Expected,   \* Expected[t]: the amount owed by target t
    Credit      \* the amounts a confirmation may credit

VARIABLES
    open,       \* has the ledger been opened?
    verdict,    \* verdict[t]
    credited,   \* credited[t]: money recovered from t
    report      \* the published figures

vars == <<open, verdict, credited, report>>

Undecided == {t \in Target : verdict[t] = "PENDING"}

Sum(f) == MapThenSumSet(LAMBDA t : f[t], Target)

\* The aggregate status the verdicts call for.
StatusOf(v) ==
    IF \A t \in Target : v[t] = "PAID" THEN "RECOVERED"
    ELSE IF \E t \in Target : v[t] = "PAID" THEN "PARTIALLY_RECOVERED"
    ELSE IF \E t \in Target : v[t] = "PENDING" THEN "PENDING"
    ELSE "NO_RECOVERY"

ReportOf(v, c) ==
    [status    |-> StatusOf(v),
     paid      |-> Cardinality({t \in Target : v[t] = "PAID"}),
     undecided |-> Cardinality({t \in Target : v[t] = "PENDING"}),
     recovered |-> Sum(c)]

Publish == report' = IF Sum(credited') > Sum(Expected) THEN report
                     ELSE ReportOf(verdict', credited')

Blank == [status |-> "PENDING", paid |-> 0, undecided |-> 0, recovered |-> 0]

Init ==
    /\ open = FALSE
    /\ verdict = [t \in Target |-> "PENDING"]
    /\ credited = [t \in Target |-> 0]
    /\ report = Blank

Open ==
    /\ ~ open
    /\ open' = TRUE
    /\ UNCHANGED <<verdict, credited>>
    /\ Publish

\* A payment is confirmed, or the payment is reported failed or given up.
Decide(t, v, amount) ==
    /\ open
    /\ t \in Undecided
    /\ verdict' = [verdict EXCEPT ![t] = v]
    /\ credited' = IF v = "PAID" THEN [credited EXCEPT ![t] = amount] ELSE credited
    /\ Publish
    /\ UNCHANGED open

\* The undecided targets in S are given up together.
GiveUp(S) ==
    /\ open
    /\ S # {} /\ S \subseteq Undecided
    /\ verdict' = [t \in Target |-> IF t \in S THEN "EXPIRED" ELSE verdict[t]]
    /\ UNCHANGED <<open, credited>>
    /\ Publish

Next ==
    \/ Open
    \/ \E t \in Target, v \in {"PAID", "FAILED", "EXPIRED"}, amount \in Credit :
          Decide(t, v, amount)
    \/ \E S \in SUBSET Target : GiveUp(S)

Spec == Init /\ [][Next]_vars
=============================================================================
