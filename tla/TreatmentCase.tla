---------------------------- MODULE TreatmentCase ----------------------------
(***************************************************************************)
(* One case of the Financial Doctor demo loop, from the seeded incident to *)
(* the measured outcome: planner and policy engine, the human approval     *)
(* with its time to live, the executor that creates one Payment Link per   *)
(* target through the stub provider, and the simulated provider events.    *)
(*                                                                         *)
(* Every endpoint of routers/demo_case.py is one action, or one action per *)
(* way it answers: the handlers run on one event loop and the stub models  *)
(* and the stub provider never suspend them. Cases share no state, so one  *)
(* case is modelled. Requests come in any order and any number of times.   *)
(*                                                                         *)
(* The recovery targets, their verdicts and the published report are those *)
(* of RecoveryLedger, which OutcomeLedger implements: opened by the        *)
(* execution, moved on by the simulated provider events.                   *)
(***************************************************************************)
EXTENDS Integers, Sequences, FiniteSetsExt

CONSTANTS
    N,              \* number of failed payments the planner selects
    Amount,         \* Amount[i]: amount_minor of target i
    MaxTotal,       \* max_recovery_amount_minor
    MaxPerTarget,   \* max_recovery_amount_per_target_minor
    MaxTargets,     \* max_targets_per_action
    TTL,            \* ttl_minutes of the approval, in clock ticks
    Counts,         \* recovered_count values a client sends; None for the default
    None,           \* a recovered_count left out of the request
    MaxTime         \* bound: last clock tick

Target == 1 .. N

ASSUME PlanAssumption == N \in Nat \ {0} /\ Amount \in [Target -> Nat \ {0}]
ASSUME LimitAssumption == MaxTotal \in Nat /\ MaxPerTarget \in Nat /\ MaxTargets \in Nat
ASSUME CountAssumption == Counts \subseteq Int \cup {None} /\ None \notin Int
ASSUME ClockAssumption == TTL \in Nat /\ MaxTime \in Nat

VARIABLES
    now,            \* the clock
    decision,       \* session.policy_decision
    approval,       \* session.approval.status
    expiresAt,      \* session.approval.expires_at
    executed,       \* is there a session.execution (and so an open ledger)?
    link,           \* link[i]: the stub provider's Payment Link of target i
    verdict,        \* verdict[i]: status of recovery target i
    credited,       \* credited[i]: recovered_amount_minor of target i
    report,         \* the published outcome
    timeline,       \* session.timeline
    reply           \* the last answer: the request and its HTTP status

request == <<decision, approval, expiresAt>>
outcome == <<verdict, credited, report>>
vars    == <<now, request, executed, link, outcome, timeline, reply>>

Ledger == INSTANCE RecoveryLedger WITH
    Expected <- Amount, Credit <- {Amount[t] : t \in Target}, open <- executed

-----------------------------------------------------------------------------
\* completed_stage
Entry(stage, s) == [stage |-> stage, status |-> s]

-----------------------------------------------------------------------------
(***************************************************************************)
(* The checks of PolicyEngine that can fail on a planned action; the       *)
(* others pass by construction. The planner never plans an empty action    *)
(* and cuts the list at the limit the engine checks.                       *)
(***************************************************************************)
AmountLimit     == Ledger!Sum(Amount) <= MaxTotal
TargetCount     == N <= MaxTargets
AmountPerTarget == \A t \in Target : Amount[t] <= MaxPerTarget

PolicyDecision ==
    IF AmountLimit /\ TargetCount /\ AmountPerTarget
    THEN "HUMAN_APPROVAL_REQUIRED" ELSE "REJECTED"

Expired == now > expiresAt

\* ApprovalService.approve stores the bare string "EXPIRED" in the status, and
\* whatever reads status.value from it raises.
Readable == approval # "EXPIRED"

Started == approval # "none"

Answer(r, code) == reply' = [request |-> r, code |-> code]

\* A request that changes nothing but what the client is told.
Refuse(r, code) ==
    /\ Answer(r, code)
    /\ UNCHANGED <<now, request, executed, link, outcome, timeline>>

Init ==
    /\ now = 0
    /\ decision = "none"
    /\ approval = "none"
    /\ expiresAt = 0
    /\ executed = FALSE
    /\ link = [t \in Target |-> "absent"]
    /\ verdict = [t \in Target |-> "PENDING"]
    /\ credited = [t \in Target |-> 0]
    /\ report = Ledger!Blank
    /\ timeline = <<>>
    /\ reply = [request |-> "none", code |-> 0]

Tick ==
    /\ now < MaxTime
    /\ now' = now + 1
    /\ UNCHANGED <<request, executed, link, outcome, timeline, reply>>

\* Mutant: the safety entry is recorded before the policy is evaluated.
StartTooEarly ==
    /\ ~ Started
    /\ decision' = PolicyDecision
    /\ approval' = "PENDING"
    /\ expiresAt' = now + TTL
    /\ timeline' = <<Entry("symptom", "detected"), Entry("investigation", "complete"),
                     Entry("diagnosis", "complete"), Entry("prescription", "proposed"),
                     Entry("safety_check", decision), Entry("approval", "PENDING")>>
    /\ Answer("start", 200)
    /\ UNCHANGED <<now, executed, link, outcome>>

(***************************************************************************)
(* POST /demo/case/start: investigate, diagnose, plan, evaluate the policy *)
(* and open the approval request, whatever the policy decided.             *)
(***************************************************************************)
Start ==
    /\ ~ Started
    /\ decision' = PolicyDecision
    /\ approval' = "PENDING"
    /\ expiresAt' = now + TTL
    /\ timeline' = <<Entry("symptom", "detected"), Entry("investigation", "complete"),
                     Entry("diagnosis", "complete"), Entry("prescription", "proposed"),
                     Entry("safety_check", decision'), Entry("approval", "PENDING")>>
    /\ Answer("start", 200)
    /\ UNCHANGED <<now, executed, link, outcome>>

\* GET /demo/case/{id}
Get ==
    /\ Started
    /\ Refuse("get", IF Readable THEN 200 ELSE 500)

(***************************************************************************)
(* POST /demo/case/{id}/approve and .../reject                             *)
(***************************************************************************)
Decide(r, s) ==
    /\ approval' = s
    /\ timeline' = Append(timeline, Entry("approval", s))
    /\ Answer(r, 200)
    /\ UNCHANGED <<now, decision, expiresAt, executed, link, outcome>>

\* Mutant: the handler forgets that the approval may have been decided.
ApproveTwice ==
    /\ approval \in {"PENDING", "APPROVED"} /\ ~ Expired
    /\ Decide("approve", "APPROVED")

Approve ==
    /\ approval = "PENDING" /\ ~ Expired
    /\ Decide("approve", "APPROVED")

ApproveTooLate ==
    /\ approval = "PENDING" /\ Expired
    /\ approval' = "EXPIRED"
    /\ Answer("approve", 409)
    /\ UNCHANGED <<now, decision, expiresAt, executed, link, outcome, timeline>>

\* reject does not look at the expiry.
Reject ==
    /\ approval = "PENDING"
    /\ Decide("reject", "REJECTED")

DecideAgain(r) ==
    /\ Started /\ approval # "PENDING"
    /\ Refuse(r, IF Readable THEN 409 ELSE 500)

\* Mutant: the executor does not look at the expiry.
ExecuteLate ==
    /\ approval = "APPROVED" /\ ~ executed
    /\ link' = [t \in Target |-> "CREATED"]
    /\ Ledger!Open
    /\ timeline' = Append(timeline, Entry("treatment", "SUCCEEDED"))
    /\ Answer("execute", 200)
    /\ UNCHANGED <<now, request>>

(***************************************************************************)
(* POST /demo/case/{id}/execute: the executor creates the links, and the   *)
(* outcome layer opens the ledger of the targets.                          *)
(***************************************************************************)
Execute ==
    /\ approval = "APPROVED" /\ ~ executed /\ ~ Expired
    /\ link' = [t \in Target |-> "CREATED"]
    /\ Ledger!Open
    /\ timeline' = Append(timeline, Entry("treatment", "SUCCEEDED"))
    /\ Answer("execute", 200)
    /\ UNCHANGED <<now, request>>

\* A second execution answers with the first; the executor's ValueError on an
\* expired approval is not an ExecutionError, and nothing turns it into a 409.
ExecuteRefused ==
    /\ Started
    /\ \/ ~ Readable /\ Refuse("execute", 500)
       \/ Readable /\ approval # "APPROVED" /\ Refuse("execute", 409)
       \/ approval = "APPROVED" /\ executed /\ Refuse("execute", 200)
       \/ approval = "APPROVED" /\ ~ executed /\ Expired /\ Refuse("execute", 500)

(***************************************************************************)
(* POST /demo/case/{id}/simulate: the first count targets are paid, the    *)
(* next one is cancelled. The link is marked first and the event then goes *)
(* through process_event, which settles a target once (OutcomeLedger).     *)
(***************************************************************************)
\* Python's round of seven tenths of N: half to even. (0.7 is not exact in binary:
\* up to a hundred targets, the two differ for N = 45 and N = 85 only.)
SevenTenths ==
    LET q == (7 * N) \div 10
        r == (7 * N) % 10
    IN  IF r > 5 \/ (r = 5 /\ q % 2 = 1) THEN q + 1 ELSE q

\* Mutant: the default counts the targets that are still pending.
RecoveredOfPending(c) ==
    LET pending == Cardinality({t \in Target : verdict[t] = "PENDING"})
    IN  IF c = None THEN Max({1, (7 * pending) \div 10}) ELSE Min({c, N})

RecoveredCount(c) ==
    LET wanted == IF c = None THEN Max({1, SevenTenths}) ELSE c
    IN  Min({wanted, N})

Paid(c)      == {t \in Target : t <= RecoveredCount(c)}
Cancelled(c) == {t \in Target : t = RecoveredCount(c) + 1}

\* Mutant: a cancelled link is reported without being cancelled.
MarkPaidOnly(c) ==
    link' = [t \in Target |-> IF t \in Paid(c) THEN "PAID" ELSE link[t]]

MarkLinks(c) ==
    link' = [t \in Target |-> IF t \in Paid(c) THEN "PAID"
                              ELSE IF t \in Cancelled(c) THEN "CANCELLED"
                              ELSE link[t]]

Settle(c) ==
    verdict' = [t \in Target |->
                   IF verdict[t] # "PENDING" THEN verdict[t]
                   ELSE IF t \in Paid(c) THEN "PAID"
                   ELSE IF t \in Cancelled(c) THEN "EXPIRED" ELSE "PENDING"]

\* Mutant: the amount of a refused event is credited all the same.
CreditAgain(c) ==
    credited' = [t \in Target |-> IF t \in Paid(c) THEN Amount[t] ELSE credited[t]]

Credit(c) ==
    credited' = [t \in Target |-> IF verdict[t] = "PENDING" /\ t \in Paid(c)
                                  THEN Amount[t] ELSE credited[t]]

Simulate(c) ==
    /\ executed
    /\ MarkLinks(c)
    /\ Settle(c)
    /\ Credit(c)
    /\ Ledger!Publish
    /\ Answer("simulate", 200)
    /\ UNCHANGED <<now, request, executed, timeline>>

SimulateRefused ==
    /\ Started /\ ~ executed
    /\ Refuse("simulate", 409)

Next ==
    \/ Tick
    \/ Start
    \/ Get
    \/ Approve
    \/ ApproveTooLate
    \/ Reject
    \/ \E r \in {"approve", "reject"} : DecideAgain(r)
    \/ Execute
    \/ ExecuteRefused
    \/ \E c \in Counts : Simulate(c)
    \/ SimulateRefused

Spec == Init /\ [][Next]_vars

-----------------------------------------------------------------------------
(***************************************************************************)
(* Type invariant and safety.                                              *)
(***************************************************************************)
Decision   == {"HUMAN_APPROVAL_REQUIRED", "REJECTED"}
Stage      == {"symptom", "investigation", "diagnosis", "prescription", "safety_check",
               "approval", "treatment"}
Approval   == {"PENDING", "APPROVED", "REJECTED", "EXPIRED"}
Verdict    == {"PENDING", "PAID", "EXPIRED"}
LinkStatus == {"absent", "CREATED", "PAID", "CANCELLED"}

\* Every variable holds a value the program can store in it.
TypeOK ==
    /\ now \in Nat
    /\ decision \in Decision \cup {"none"}
    /\ approval \in Approval \cup {"none"}
    /\ expiresAt \in Nat
    /\ executed \in BOOLEAN
    /\ link \in [Target -> LinkStatus]
    /\ verdict \in [Target -> Verdict]
    /\ credited \in [Target -> Nat]
    /\ DOMAIN report = DOMAIN Ledger!Blank
    /\ timeline \in Seq([stage : Stage,
                         status : Decision \cup Approval \cup
                                  {"detected", "complete", "proposed", "SUCCEEDED"}])
    /\ reply.code \in {0, 200, 409, 500}

\* The timeline is the prologue of the case, then the human decision, then the
\* treatment, each exactly once and only if it happened: a request that is
\* repeated, refused or late leaves no entry.
Prologue ==
    <<Entry("symptom", "detected"), Entry("investigation", "complete"),
      Entry("diagnosis", "complete"), Entry("prescription", "proposed"),
      Entry("safety_check", PolicyDecision), Entry("approval", "PENDING")>>

TimelineTellsTheCase ==
    timeline =
        IF ~ Started THEN <<>>
        ELSE Prologue \o (IF approval \in {"APPROVED", "REJECTED"}
                          THEN <<Entry("approval", approval)>> ELSE <<>>)
                      \o (IF executed THEN <<Entry("treatment", "SUCCEEDED")>> ELSE <<>>)

\* A customer still has an open link exactly as long as the target is undecided,
\* whatever the counts that are simulated and however often: a later, smaller
\* count never reopens or abandons a target.
OpenLinkIffPending ==
    \A t \in Target : link[t] = "CREATED" <=> executed /\ verdict[t] = "PENDING"

\* The provider's links and the outcome layer's verdicts agree. The console only
\* sends the default count; with counts that shrink, a link that was paid is
\* cancelled again while its target stays paid.
LinksAgreeWithVerdicts ==
    \A t \in Target : /\ link[t] = "PAID"      <=> verdict[t] = "PAID"
                      /\ link[t] = "CANCELLED" <=> verdict[t] = "EXPIRED"

\* The published figures never exceed what was sent out, and recovered money is
\* the money of the targets whose payment was confirmed.
RecoveredIsOwed ==
    /\ report.recovered = Ledger!Sum([t \in Target |->
                              IF verdict[t] = "PAID" THEN Amount[t] ELSE 0])
    /\ report.paid + report.undecided <= IF executed THEN N ELSE 0

Gate == INSTANCE TreatmentGate WITH
    gate    <- CASE approval = "none"     -> "closed"
                 [] approval = "PENDING"  -> "awaiting"
                 [] approval = "APPROVED" -> "granted"
                 [] approval = "REJECTED" -> "refused"
                 [] OTHER                 -> "lapsed",
    inTime  <- ~ (Started /\ Expired),
    treated <- {t \in Target : link[t] # "absent"},
    settled <- {t \in Target : verdict[t] # "PENDING"}

\* The endpoints, in any order and repeated at will, keep the promise made to
\* the human: no link without a decision in time, one decision, one treatment.
ImplementsGate == Gate!Spec

-----------------------------------------------------------------------------
(***************************************************************************)
(* Statements of the documentation that the code does not keep.            *)
(***************************************************************************)
\* "A REJECTED decision (or any failed check) shows a blocked state and the
\* approval gate never opens."
GateNeedsPolicy ==
    (\E t \in Target : link[t] # "absent") => decision = "HUMAN_APPROVAL_REQUIRED"

\* "Each action error preserves case context and offers retry."
ErrorsPreserveCase == Started => Readable
=============================================================================
