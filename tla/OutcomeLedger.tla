---------------------------- MODULE OutcomeLedger ----------------------------
(***************************************************************************)
(* The outcome layer of Financial Doctor: one intervention outcome, the    *)
(* recovery targets it aggregates, the webhook handler that settles the    *)
(* targets, and the evaluator that re-aggregates and finalizes.            *)
(*                                                                         *)
(*   OutcomeInitializer.initialize_outcome_for_execution   Initialize      *)
(*   OutcomeWebhookHandler.process_event                   Deliver*        *)
(*   POST /outcomes/{id}/evaluate                          Evaluate        *)
(*                                                                         *)
(* Each of them is synchronous code on one event loop, hence one step.     *)
(* The payment provider is the environment: it settles links and payments, *)
(* and a notification it has emitted may be delivered never, once, again,  *)
(* or after a later one.                                                   *)
(***************************************************************************)
EXTENDS Integers, FiniteSets, Sequences, FiniteSetsExt

CONSTANTS
    Target,         \* recovery targets of the action, one Payment Link each
    Expected,       \* Expected[t]: expected_amount_minor of target t
    Amount,         \* amounts the provider may report as paid
    Foreign,        \* a provider resource that belongs to no target
    Window,         \* observation_window_seconds, in clock ticks
    MaxTime,        \* bound: last clock tick
    MaxSent,        \* bound: notifications the provider emits
    MaxDeliveries   \* bound: webhook deliveries in one behaviour

ASSUME TargetAssumption == IsFiniteSet(Target) /\ Target # {}
ASSUME ForeignAssumption == Foreign \notin Target
ASSUME AmountAssumption == Amount \subseteq Nat /\ Expected \in [Target -> Nat \ {0}]
ASSUME TimeAssumption == Window \in Nat /\ MaxTime \in Nat

NoTime   == -1      \* a timestamp that is None
NoAmount == -1      \* a payload without an amount
NoEvent  == [kind |-> "none", target |-> Foreign, at |-> NoTime]

VARIABLES
    now,            \* the clock
    link,           \* provider: status of each target's Payment Link
    sent,           \* provider: the notifications emitted so far
    registered,     \* have the outcome and its targets been initialized?
    registeredAt,   \* created_at of the targets
    status,         \* status[t]
    recovered,      \* recovered_amount_minor[t]
    paidAt,         \* paid_at[t]
    lastEvent,      \* last_event_id[t]
    outcome,        \* the InterventionOutcome
    seen,           \* OutcomeWebhookHandler._seen_event_ids
    counter,        \* the handler's four event counters
    trail           \* trail[t]: the audit events about target t

provider == <<link, sent>>
targets  == <<status, recovered, paidAt, lastEvent>>
vars     == <<now, provider, registered, registeredAt, targets, outcome, seen,
              counter, trail>>

-----------------------------------------------------------------------------
(***************************************************************************)
(* Statuses and transition tables.                                         *)
(***************************************************************************)
TargetStatus  == {"PENDING", "PAID", "FAILED", "EXPIRED"}
OutcomeStatus == {"PENDING", "PARTIALLY_RECOVERED", "RECOVERED", "NO_RECOVERY",
                  "EXPIRED", "FAILED"}

\* Mutant: a target given up may still be paid.
TransitionsReopen ==
    [s \in TargetStatus |->
        CASE s = "PENDING" -> {"PAID", "FAILED", "EXPIRED"}
          [] s = "EXPIRED" -> {"PAID"}
          [] OTHER         -> {}]

TargetTransitions ==
    [s \in TargetStatus |->
        IF s = "PENDING" THEN {"PAID", "FAILED", "EXPIRED"} ELSE {}]

\* Mutant: a partial recovery cannot be completed.
TransitionsStuck ==
    [s \in OutcomeStatus |->
        CASE s = "PENDING"             -> OutcomeStatus \ {"PENDING"}
          [] s = "PARTIALLY_RECOVERED" -> {"NO_RECOVERY", "EXPIRED"}
          [] OTHER                     -> {}]

OutcomeTransitions ==
    [s \in OutcomeStatus |->
        CASE s = "PENDING"             -> OutcomeStatus \ {"PENDING"}
          [] s = "PARTIALLY_RECOVERED" -> {"RECOVERED", "NO_RECOVERY", "EXPIRED"}
          [] OTHER                     -> {}]

\* The statuses on which InterventionOutcome.transition sets finalized_at.
FinalStatus == {"RECOVERED", "NO_RECOVERY", "EXPIRED", "FAILED"}

(***************************************************************************)
(* Provider events. Two deliveries of one notification carry the same      *)
(* created_at, so the handler derives the same id from both; without a     *)
(* created_at the id falls back to the time of receipt and never repeats.  *)
(***************************************************************************)
Settles ==
    [k \in {"payment_link.paid", "payment.captured", "payment_link.cancelled",
            "payment.failed"} |->
        CASE k = "payment_link.cancelled" -> "EXPIRED"
          [] k = "payment.failed"         -> "FAILED"
          [] OTHER                        -> "PAID"]

SupportedEvent == DOMAIN Settles
EventKind      == SupportedEvent \cup {"payment_link.expired"}

EventId(e)     == [kind |-> e.kind, target |-> e.target, at |-> e.at]
WindowId(t)    == [kind |-> "observation_window", target |-> t, at |-> NoTime]
HasId(e, id)   == e.at # NoTime /\ id = EventId(e)
ForgetIds(e)   == FALSE     \* mutant: nothing is a duplicate
Duplicate(e)   == \E id \in seen : HasId(e, id)
Located(e)     == registered /\ e.target \in Target

-----------------------------------------------------------------------------
(***************************************************************************)
(* Aggregation.                                                            *)
(***************************************************************************)
Tally(st, s) == Cardinality({t \in Target : st[t] = s})
Total(f)     == MapThenSumSet(LAMBDA t : f[t], Target)

\* OutcomeEvaluator refuses to aggregate more than was targeted.
Overpaid(rec) == Total(rec) > Total(Expected)

DeriveStatus(total, succeeded, pending) ==
    IF total = 0 THEN "FAILED"
    ELSE IF succeeded = total THEN "RECOVERED"
    ELSE IF succeeded > 0 THEN "PARTIALLY_RECOVERED"
    ELSE IF pending > 0 THEN "PENDING"
    ELSE "NO_RECOVERY"

DerivedStatus(st) ==
    DeriveStatus(Cardinality(Target), Tally(st, "PAID"), Tally(st, "PENDING"))

EarliestPaid(st, paid) == Min({paid[t] : t \in {u \in Target : st[u] = "PAID"}})

\* Mutant: the first payment notified stays the first observed.
FirstNotified(o, st, paid) ==
    IF o.firstObserved # NoTime \/ \A t \in Target : st[t] # "PAID" THEN o.firstObserved
    ELSE EarliestPaid(st, paid)

FirstObserved(o, st, paid) ==
    IF \A t \in Target : st[t] # "PAID" THEN o.firstObserved
    ELSE IF o.firstObserved = NoTime \/ EarliestPaid(st, paid) < o.firstObserved
         THEN EarliestPaid(st, paid)
         ELSE o.firstObserved

\* The status moves only if the outcome is not finalized and the table allows it.
NextStatus(o, st) ==
    IF ~ o.finalized /\ DerivedStatus(st) \in OutcomeTransitions[o.status]
    THEN DerivedStatus(st) ELSE o.status

Aggregate(o, st, rec, paid) ==
    [status        |-> NextStatus(o, st),
     finalized     |-> o.finalized \/ NextStatus(o, st) \in FinalStatus,
     total         |-> Cardinality(Target),
     succeeded     |-> Tally(st, "PAID"),
     failed        |-> Tally(st, "FAILED"),
     expired       |-> Tally(st, "EXPIRED"),
     pending       |-> Tally(st, "PENDING"),
     targeted      |-> Total(Expected),
     recovered     |-> Total(rec),
     firstObserved |-> FirstObserved(o, st, paid)]

\* Mutant: more may be recovered than was targeted.
RecalculateAlways(o, st, rec, paid) == Aggregate(o, st, rec, paid)

\* recalculate: when it raises, no field of the outcome has been assigned.
Recalculate(o, st, rec, paid) ==
    IF Overpaid(rec) THEN o ELSE Aggregate(o, st, rec, paid)

NewOutcome ==
    [status |-> "PENDING", finalized |-> FALSE, total |-> 0, succeeded |-> 0,
     failed |-> 0, expired |-> 0, pending |-> 0, targeted |-> 0, recovered |-> 0,
     firstObserved |-> NoTime]

-----------------------------------------------------------------------------
Init ==
    /\ now = 0
    /\ link = [t \in Target |-> "created"]
    /\ sent = {}
    /\ registered = FALSE
    /\ registeredAt = NoTime
    /\ status = [t \in Target |-> "PENDING"]
    /\ recovered = [t \in Target |-> 0]
    /\ paidAt = [t \in Target |-> NoTime]
    /\ lastEvent = [t \in Target |-> NoEvent]
    /\ outcome = NewOutcome
    /\ seen = {}
    /\ counter = [processed |-> 0, duplicated |-> 0, unrelated |-> 0, ignored |-> 0]
    /\ trail = [t \in Target |-> <<>>]

Tick ==
    /\ now < MaxTime
    /\ now' = now + 1
    /\ UNCHANGED <<provider, registered, registeredAt, targets, outcome, seen, counter,
                   trail>>

(***************************************************************************)
(* The provider. A link is paid, cancelled or expires once. The original   *)
(* payment of a target has failed, and may still be captured late; its     *)
(* notifications carry the payment id the target is indexed under.         *)
(***************************************************************************)
Emit(k, r, amounts) ==
    /\ Cardinality(sent) < MaxSent
    /\ \E at \in {now, NoTime}, a \in amounts :
          sent' = sent \cup {[kind |-> k, target |-> r, at |-> at, amount |-> a]}
    /\ UNCHANGED <<now, registered, registeredAt, targets, outcome, seen, counter, trail>>

CloseLink(t, k, s) ==
    /\ link[t] = "created"
    /\ link' = [link EXCEPT ![t] = s]
    /\ Emit(k, t, IF s = "paid" THEN Amount \cup {NoAmount} ELSE {NoAmount})

ReportPayment(r, k) ==
    /\ ~ \E e \in sent : e.kind = k /\ e.target = r
    /\ Emit(k, r, IF k = "payment.captured" THEN Amount ELSE {NoAmount})
    /\ UNCHANGED link

Provider ==
    \/ \E t \in Target : \/ CloseLink(t, "payment_link.paid", "paid")
                         \/ CloseLink(t, "payment_link.cancelled", "cancelled")
                         \/ CloseLink(t, "payment_link.expired", "expired")
    \/ \E t \in Target : ReportPayment(t, "payment.captured")
    \/ \E r \in Target \cup {Foreign} : ReportPayment(r, "payment.failed")

(***************************************************************************)
(* initialize_outcome_for_execution: register the outcome and all its      *)
(* targets; a second call for the same action only re-aggregates.          *)
(***************************************************************************)
Initialize ==
    /\ ~ registered
    /\ registered' = TRUE
    /\ registeredAt' = now
    /\ trail' = [t \in Target |-> <<[event |-> "TARGET_REGISTERED", actor |-> "SYSTEM"]>>]
    /\ outcome' = Recalculate(NewOutcome, status, recovered, paidAt)
    /\ UNCHANGED <<now, provider, targets, seen, counter>>

InitializeAgain ==
    /\ registered
    /\ outcome' = Recalculate(outcome, status, recovered, paidAt)
    /\ UNCHANGED <<now, provider, registered, registeredAt, targets, seen, counter, trail>>

-----------------------------------------------------------------------------
(***************************************************************************)
(* process_event, one action per way it returns.                           *)
(***************************************************************************)
Deliveries == counter.processed + counter.duplicated + counter.unrelated + counter.ignored

Receive(e) == e \in sent /\ Deliveries < MaxDeliveries

Count(c) == counter' = [counter EXCEPT ![c] = @ + 1]

\* Mutant: the event that settles a target is not remembered.
MarkNothing(e) == seen' = seen

MarkSeen(e) == seen' = IF e.at = NoTime THEN seen ELSE seen \cup {EventId(e)}

DeliverDuplicate(e) ==
    /\ Receive(e)
    /\ Duplicate(e)
    /\ Count("duplicated")
    /\ UNCHANGED <<now, provider, registered, registeredAt, targets, outcome, seen, trail>>

DeliverUnsupported(e) ==
    /\ Receive(e)
    /\ ~ Duplicate(e)
    /\ e.kind \notin SupportedEvent
    /\ Count("ignored")
    /\ UNCHANGED <<now, provider, registered, registeredAt, targets, outcome, seen, trail>>

\* No target carries the resource: answered, and not remembered as seen.
DeliverUnrelated(e) ==
    /\ Receive(e)
    /\ ~ Duplicate(e)
    /\ e.kind \in SupportedEvent
    /\ ~ Located(e)
    /\ Count("unrelated")
    /\ UNCHANGED <<now, provider, registered, registeredAt, targets, outcome, seen, trail>>

\* RecoveryTargetOutcome.transition: a replay of the last event is a no-op,
\* otherwise the transition table decides.
Replay(e)  == HasId(e, lastEvent[e.target])
Accepts(e) == Replay(e) \/ Settles[e.kind] \in TargetTransitions[status[e.target]]

Fresh(e) ==
    /\ Receive(e)
    /\ ~ Duplicate(e)
    /\ e.kind \in SupportedEvent
    /\ Located(e)

\* Mutant: a refused notification is counted as processed.
RefusedCounted(e) ==
    /\ Fresh(e)
    /\ ~ Accepts(e)
    /\ MarkSeen(e)
    /\ Count("processed")
    /\ UNCHANGED <<now, provider, registered, registeredAt, targets, outcome, trail>>

\* The transition raised ValueError: remembered as seen, nothing else changes.
DeliverRefused(e) ==
    /\ Fresh(e)
    /\ ~ Accepts(e)
    /\ MarkSeen(e)
    /\ Count("ignored")
    /\ UNCHANGED <<now, provider, registered, registeredAt, targets, outcome, trail>>

TargetAudit ==
    [s \in {"PAID", "FAILED", "EXPIRED"} |->
        CASE s = "PAID"   -> "TARGET_PAYMENT_CONFIRMED"
          [] s = "FAILED" -> "TARGET_MARKED_FAILED"
          [] OTHER        -> "TARGET_EXPIRED"]

PaidAmount(e)  == IF e.amount = NoAmount THEN Expected[e.target] ELSE e.amount
EventTime(e)   == IF e.at = NoTime THEN now ELSE e.at

\* Mutant: every transition credits the amount.
CreditAlways(e) ==
    LET t == e.target
    IN  IF Replay(e) THEN UNCHANGED targets
        ELSE /\ status' = [status EXCEPT ![t] = Settles[e.kind]]
             /\ recovered' = [recovered EXCEPT ![t] = PaidAmount(e)]
             /\ paidAt' = [paidAt EXCEPT ![t] = EventTime(e)]
             /\ lastEvent' = [lastEvent EXCEPT ![t] = EventId(e)]

ApplyTransition(e) ==
    LET t    == e.target
        paid == Settles[e.kind] = "PAID"
    IN  IF Replay(e) THEN UNCHANGED targets
        ELSE /\ status' = [status EXCEPT ![t] = Settles[e.kind]]
             /\ recovered' = IF paid THEN [recovered EXCEPT ![t] = PaidAmount(e)]
                                     ELSE recovered
             /\ paidAt' = IF paid THEN [paidAt EXCEPT ![t] = EventTime(e)] ELSE paidAt
             /\ lastEvent' = [lastEvent EXCEPT ![t] = EventId(e)]

\* When the aggregation raises, the caller gets an error after the target was
\* settled, audited and its event remembered.
DeliverProcessed(e) ==
    /\ Fresh(e)
    /\ Accepts(e)
    /\ MarkSeen(e)
    /\ ApplyTransition(e)
    /\ Count("processed")
    /\ trail' = [trail EXCEPT ![e.target] =
                    Append(@, [event |-> TargetAudit[status'[e.target]],
                               actor |-> "PROVIDER"])]
    /\ outcome' = Recalculate(outcome, status', recovered', paidAt')
    /\ UNCHANGED <<now, provider, registered, registeredAt>>

Deliver(e) ==
    \/ DeliverDuplicate(e)
    \/ DeliverUnsupported(e)
    \/ DeliverUnrelated(e)
    \/ DeliverRefused(e)
    \/ DeliverProcessed(e)

-----------------------------------------------------------------------------
(***************************************************************************)
(* POST /outcomes/{id}/evaluate: recalculate (which may raise and end the  *)
(* request), then expire the pending targets whose window has elapsed.     *)
(***************************************************************************)
\* Mutant: the window has to be exceeded.
OverdueLater == {t \in Target : status[t] = "PENDING" /\ now - registeredAt > Window}

Overdue == {t \in Target : status[t] = "PENDING" /\ now - registeredAt >= Window}

Expire(S) ==
    /\ status' = [t \in Target |-> IF t \in S THEN "EXPIRED" ELSE status[t]]
    /\ lastEvent' = [t \in Target |-> IF t \in S THEN WindowId(t) ELSE lastEvent[t]]
    /\ trail' = [t \in Target |->
                    IF t \in S
                    THEN Append(trail[t], [event |-> "TARGET_EXPIRED", actor |-> "SYSTEM"])
                    ELSE trail[t]]

Evaluate ==
    /\ registered
    /\ ~ Overpaid(recovered)
    /\ LET fresh == Aggregate(outcome, status, recovered, paidAt)
           late  == IF fresh.finalized THEN {} ELSE Overdue
       IN  /\ Expire(late)
           /\ outcome' = IF late = {} THEN fresh
                         ELSE Recalculate(fresh, status', recovered, paidAt)
    /\ UNCHANGED <<now, provider, registered, registeredAt, recovered, paidAt, seen,
                   counter>>

Next ==
    \/ Tick
    \/ Provider
    \/ Initialize
    \/ InitializeAgain
    \/ \E e \in sent : Deliver(e)
    \/ Evaluate

Spec == Init /\ [][Next]_vars
-----------------------------------------------------------------------------
(***************************************************************************)
(* Type invariant. The two sums of the outcome are left to                 *)
(* AggregateMatchesTargets, which fixes their values.                      *)
(***************************************************************************)
EventSet == [kind : EventKind, target : Target \cup {Foreign}, at : Nat \cup {NoTime},
             amount : Amount \cup {NoAmount}]
IdSet    == [kind : EventKind \cup {"observation_window", "none"},
             target : Target \cup {Foreign}, at : Nat \cup {NoTime}]
AuditSet == [event : {"TARGET_REGISTERED", "TARGET_PAYMENT_CONFIRMED",
                      "TARGET_MARKED_FAILED", "TARGET_EXPIRED"},
             actor : {"SYSTEM", "PROVIDER"}]

\* Every variable holds a value the program can store in it.
TypeOK ==
    /\ now \in Nat
    /\ link \in [Target -> {"created", "paid", "cancelled", "expired"}]
    /\ sent \subseteq EventSet
    /\ registered \in BOOLEAN
    /\ registeredAt \in Nat \cup {NoTime}
    /\ status \in [Target -> TargetStatus]
    /\ recovered \in [Target -> Nat]
    /\ paidAt \in [Target -> Nat \cup {NoTime}]
    /\ lastEvent \in [Target -> IdSet]
    /\ DOMAIN outcome = DOMAIN NewOutcome
    /\ outcome.status \in OutcomeStatus
    /\ outcome.finalized \in BOOLEAN
    /\ seen \subseteq IdSet
    /\ counter \in [{"processed", "duplicated", "unrelated", "ignored"} -> Nat]
    /\ trail \in [Target -> Seq(AuditSet)]

-----------------------------------------------------------------------------
(***************************************************************************)
(* Safety.                                                                 *)
(***************************************************************************)
Settled(t) == status[t] # "PENDING"

\* The figures of outcome o are those of targets with statuses st and amounts rec.
Matches(o, st, rec) ==
    /\ o.status = DerivedStatus(st)
    /\ o.finalized <=> o.status \in FinalStatus
    /\ o.total = Cardinality(Target)
    /\ o.succeeded = Tally(st, "PAID")
    /\ o.failed = Tally(st, "FAILED")
    /\ o.expired = Tally(st, "EXPIRED")
    /\ o.pending = Tally(st, "PENDING")
    /\ o.targeted = Total(Expected)
    /\ o.recovered = Total(rec)

\* The published aggregate is the one its targets call for, whatever the order
\* in which notifications arrived, as long as the aggregation did not have to
\* refuse the amounts. It relies on recalculate being called by every handler
\* that settles a target, and on the transition table never rejecting a status
\* the targets derive.
AggregateMatchesTargets ==
    registered /\ ~ Overpaid(recovered) => Matches(outcome, status, recovered)

\* A finalized outcome has no pending target: finalize_expired returns early on
\* a finalized outcome, so a target left pending there would stay so for good.
FinalizedMeansResolved == outcome.finalized => \A t \in Target : Settled(t)

\* The audit trail of a target is its registration followed by exactly one
\* verdict, and the verdict is the status the target has: no duplicate, refused
\* or late notification leaves a second entry, and none settles unrecorded.
AuditTellsTheStatus ==
    \A t \in Target :
        /\ ~ registered => trail[t] = <<>>
        /\ registered =>
            /\ Len(trail[t]) = IF Settled(t) THEN 2 ELSE 1
            /\ trail[t][1] = [event |-> "TARGET_REGISTERED", actor |-> "SYSTEM"]
            /\ Settled(t) => trail[t][2].event = TargetAudit[status[t]]

\* events_processed counts each target the provider settled once: neither a
\* redelivery nor a second notification of the same payment is counted.
ProcessedCountsSettlements ==
    counter.processed =
        Cardinality({t \in Target : Len(trail[t]) = 2 /\ trail[t][2].actor = "PROVIDER"})

\* Recovered money was reported paid by the provider for that very target, in
\* that amount; an unpaid target carries no recovered money.
RecoveryIsBacked ==
    \A t \in Target :
        IF status[t] = "PAID"
        THEN \E e \in sent : /\ e.target = t
                             /\ e.kind \in {"payment_link.paid", "payment.captured"}
                             /\ recovered[t] = PaidAmount(e)
        ELSE recovered[t] = 0

\* first_observed_at is the earliest confirmed payment even when the earlier
\* payment is notified later.
FirstObservedIsEarliest ==
    registered /\ ~ Overpaid(recovered) /\ (\E t \in Target : status[t] = "PAID") =>
        outcome.firstObserved = EarliestPaid(status, paidAt)

\* No step of any handler rewrites the verdict on a settled target, the amount
\* credited for it, or the time it was paid.
VerdictIsFinal ==
    [][\A t \in Target : Settled(t) =>
          /\ status'[t] = status[t]
          /\ recovered'[t] = recovered[t]
          /\ paidAt'[t] = paidAt[t]]_vars

-----------------------------------------------------------------------------
(***************************************************************************)
(* The inductive invariant behind the theorems of OutcomeLedgerProofs.     *)
(***************************************************************************)
\* The id of the event that last moved a target has been seen, so the replay
\* guard of the transition never gets to decide.
ReplayIsDuplicate ==
    \A t \in Target : lastEvent[t].at = NoTime \/ lastEvent[t] \in seen

BlankBeforeRegistration ==
    ~ registered => /\ outcome = NewOutcome
                    /\ \A t \in Target : ~ Settled(t)

\* Even when the figures lag behind refused amounts, the status that was last
\* published is one that targets with fewer verdicts called for, and a status
\* that claims something about every target still holds.
StatusSound(o, st) ==
    /\ o.status \in {"PENDING", "PARTIALLY_RECOVERED", "RECOVERED", "NO_RECOVERY"}
    /\ o.finalized <=> o.status \in {"RECOVERED", "NO_RECOVERY"}
    /\ o.status = "PARTIALLY_RECOVERED" => \E t \in Target : st[t] = "PAID"
    /\ o.status = "RECOVERED" => \A t \in Target : st[t] = "PAID"
    /\ o.status = "NO_RECOVERY" => \A t \in Target : st[t] \in {"FAILED", "EXPIRED"}

\* The strengthening of the type invariant and of the safety invariants that
\* every handler preserves.
IInv ==
    /\ TypeOK
    /\ ReplayIsDuplicate
    /\ BlankBeforeRegistration
    /\ StatusSound(outcome, status)
    /\ AggregateMatchesTargets
    /\ AuditTellsTheStatus

-----------------------------------------------------------------------------
(***************************************************************************)
(* Refinement. Deliveries, ids, retries, audit and time all disappear: a   *)
(* client that reads only the outcome sees a RecoveryLedger.               *)
(***************************************************************************)
Ledger == INSTANCE RecoveryLedger WITH
    Credit   <- Amount \cup {Expected[t] : t \in Target},
    open     <- registered,
    verdict  <- status,
    credited <- recovered,
    report   <- [status |-> outcome.status, paid |-> outcome.succeeded,
                 undecided |-> outcome.pending, recovered |-> outcome.recovered]

\* Every behaviour of the handler, the initializer and the evaluator is a
\* behaviour of the ledger: whatever is delivered, in whatever order, a verdict
\* is given once and the published figures are those of the verdicts.
ImplementsLedger == Ledger!Spec

-----------------------------------------------------------------------------
(***************************************************************************)
(* Liveness. Nothing in the program schedules the evaluation: it happens   *)
(* when a client calls the endpoint, so the fairness below is a promise of *)
(* that client and of the clock, not of the program.                       *)
(***************************************************************************)
WatchedSpec == Spec /\ WF_vars(Tick) /\ WF_vars(Evaluate)

\* A client that keeps evaluating sees every target of a registered outcome
\* resolved once the window has elapsed, even if the provider's notifications
\* are lost, unless the amounts were refused. (The window must fit in the
\* modelled time.)
EventuallyResolved ==
    (registered /\ registeredAt + Window <= MaxTime)
        ~> (Overpaid(recovered) \/ \A t \in Target : Settled(t))

-----------------------------------------------------------------------------
(***************************************************************************)
(* A statement of the documentation that the code does not keep.           *)
(***************************************************************************)
\* Out-of-order provider events are "non-corrupting": a paid link whose
\* notification was accepted for processing is counted as paid.
PaidLinkIsCounted ==
    \A e \in sent : e.kind = "payment_link.paid" /\ e.at # NoTime /\ EventId(e) \in seen
        => status[e.target] = "PAID"
=============================================================================
