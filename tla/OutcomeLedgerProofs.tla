------------------------- MODULE OutcomeLedgerProofs -------------------------
(***************************************************************************)
(* Theorems about OutcomeLedger, for every set of targets, every amounts   *)
(* and every observation window, in four parts:                            *)
(*                                                                         *)
(*   - every variable keeps its type;                                      *)
(*   - the published aggregate is that of its targets, a finalized outcome *)
(*     is resolved, the audit tells the status, a verdict is never revised *)
(*     (sums of amounts stay unexpanded: equal arguments have equal sums); *)
(*   - the money is backed, the counter and the first payment are right    *)
(*     (sums and minima through FoldLemmas);                               *)
(*   - the ledger implements RecoveryLedger.                               *)
(***************************************************************************)
EXTENDS OutcomeLedger, FoldLemmas, TLAPS

(***************************************************************************)
(* The aggregate is a record with the same fields as a new outcome, a      *)
(* status of the table and a Boolean finalized flag.                       *)
(***************************************************************************)
LEMMA AggregateType ==
    ASSUME NEW o, NEW st, NEW rec, NEW paid,
           o.status \in OutcomeStatus, o.finalized \in BOOLEAN
    PROVE  /\ DOMAIN Aggregate(o, st, rec, paid) = DOMAIN NewOutcome
           /\ Aggregate(o, st, rec, paid).status \in OutcomeStatus
           /\ Aggregate(o, st, rec, paid).finalized \in BOOLEAN
<1>1. DerivedStatus(st) \in OutcomeStatus
    BY DEF DerivedStatus, DeriveStatus, OutcomeStatus
<1>2. NextStatus(o, st) \in OutcomeStatus
    BY <1>1 DEF NextStatus
<1> QED
    BY <1>2 DEF Aggregate, NewOutcome

LEMMA RecalculateType ==
    ASSUME NEW o, NEW st, NEW rec, NEW paid,
           DOMAIN o = DOMAIN NewOutcome, o.status \in OutcomeStatus,
           o.finalized \in BOOLEAN
    PROVE  /\ DOMAIN Recalculate(o, st, rec, paid) = DOMAIN NewOutcome
           /\ Recalculate(o, st, rec, paid).status \in OutcomeStatus
           /\ Recalculate(o, st, rec, paid).finalized \in BOOLEAN
BY AggregateType DEF Recalculate

(***************************************************************************)
(* Type correctness: whatever the provider sends and however often it is   *)
(* delivered, every variable keeps its type; in particular the status of   *)
(* the outcome stays in the transition table and the audit trail is a      *)
(* sequence of audit entries.                                              *)
(***************************************************************************)
LEMMA InitType == Init => TypeOK
<1> SUFFICES ASSUME Init PROVE TypeOK
    OBVIOUS
<1>1. NoEvent \in IdSet
    BY DEF NoEvent, IdSet, NoTime, EventKind
<1>2. outcome.status \in OutcomeStatus /\ outcome.finalized \in BOOLEAN
    BY DEF Init, NewOutcome, OutcomeStatus
<1>3. trail \in [Target -> Seq(AuditSet)]
    <2>1. << >> \in Seq(AuditSet)
        OBVIOUS
    <2> QED
        BY <2>1 DEF Init
<1>4. /\ counter \in [{"processed", "duplicated", "unrelated", "ignored"} -> Nat]
      /\ status \in [Target -> TargetStatus]
      /\ paidAt \in [Target -> Nat \cup {NoTime}]
    BY DEF Init, TargetStatus
<1> QED
    BY <1>1, <1>2, <1>3, <1>4 DEF Init, TypeOK

LEMMA EmitType ==
    ASSUME TypeOK, NEW k \in EventKind, NEW r \in Target \cup {Foreign},
           NEW amounts \in SUBSET (Amount \cup {NoAmount}),
           Emit(k, r, amounts)
    PROVE  sent' \subseteq EventSet
<1>1. PICK at \in {now, NoTime}, a \in amounts :
          sent' = sent \cup {[kind |-> k, target |-> r, at |-> at, amount |-> a]}
    BY DEF Emit
<1>2. [kind |-> k, target |-> r, at |-> at, amount |-> a] \in EventSet
    BY DEF EventSet, TypeOK
<1> QED
    BY <1>1, <1>2 DEF TypeOK

LEMMA ProviderType == TypeOK /\ Provider => TypeOK'
<1> SUFFICES ASSUME TypeOK, Provider PROVE TypeOK'
    OBVIOUS
<1>0. /\ "payment_link.paid" \in EventKind /\ "payment_link.cancelled" \in EventKind
      /\ "payment_link.expired" \in EventKind /\ "payment.failed" \in EventKind
      /\ "payment.captured" \in EventKind
    BY DEF EventKind, SupportedEvent, Settles
<1>1. ASSUME NEW t \in Target, NEW k \in EventKind,
             NEW s \in {"paid", "cancelled", "expired"}, CloseLink(t, k, s)
      PROVE  TypeOK'
    <2>1. sent' \subseteq EventSet
        BY <1>1, EmitType DEF CloseLink
    <2>2. link' \in [Target -> {"created", "paid", "cancelled", "expired"}]
        BY <1>1 DEF CloseLink, TypeOK
    <2> QED
        BY <1>1, <2>1, <2>2 DEF CloseLink, Emit, TypeOK, targets
<1>2. ASSUME NEW r \in Target \cup {Foreign}, NEW k \in EventKind, ReportPayment(r, k)
      PROVE  TypeOK'
    <2>1. sent' \subseteq EventSet
        BY <1>2, EmitType DEF ReportPayment
    <2> QED
        BY <1>2, <2>1 DEF ReportPayment, Emit, TypeOK, targets
<1> QED
    BY <1>0, <1>1, <1>2 DEF Provider

LEMMA IdType ==
    ASSUME TypeOK, NEW e \in sent
    PROVE  /\ e \in EventSet
           /\ EventId(e) \in IdSet
BY DEF TypeOK, EventSet, EventId, IdSet

LEMMA CountType ==
    ASSUME TypeOK, NEW c \in {"processed", "duplicated", "unrelated", "ignored"}, Count(c)
    PROVE  counter' \in [{"processed", "duplicated", "unrelated", "ignored"} -> Nat]
BY DEF Count, TypeOK

LEMMA SeenType ==
    ASSUME TypeOK, NEW e \in sent, MarkSeen(e)
    PROVE  seen' \subseteq IdSet
BY IdType DEF MarkSeen, TypeOK

(***************************************************************************)
(* An event the handler gets to apply is not the last one of its target.   *)
(***************************************************************************)
LEMMA FreshIsNoReplay ==
    ASSUME TypeOK, ReplayIsDuplicate, NEW e \in sent, Fresh(e)
    PROVE  /\ ~ Replay(e)
           /\ e.target \in Target
           /\ e.kind \in SupportedEvent
           /\ registered
<1>1. e.target \in Target /\ registered /\ e.kind \in SupportedEvent /\ ~ Duplicate(e)
    BY DEF Fresh, Located
<1>2. ASSUME Replay(e) PROVE FALSE
    <2>1. e.at # NoTime /\ lastEvent[e.target] = EventId(e)
        BY <1>2 DEF Replay, HasId
    <2>2. lastEvent[e.target].at = e.at
        BY <2>1 DEF EventId
    <2>3. EventId(e) \in seen
        BY <1>1, <2>1, <2>2 DEF ReplayIsDuplicate
    <2> QED
        BY <1>1, <2>1, <2>3 DEF Duplicate, HasId
<1> QED
    BY <1>1, <1>2

(***************************************************************************)
(* What applying an event does to its target, and to no other.             *)
(***************************************************************************)
LEMMA ProcessedEffect ==
    ASSUME TypeOK, ReplayIsDuplicate, NEW e \in sent, DeliverProcessed(e)
    PROVE  /\ registered
           /\ e.target \in Target
           /\ Settles[e.kind] \in {"PAID", "FAILED", "EXPIRED"}
           /\ status[e.target] = "PENDING"
           /\ status' = [status EXCEPT ![e.target] = Settles[e.kind]]
           /\ PaidAmount(e) \in Nat
           /\ PaidAmount(e) \in Amount \cup {Expected[t] : t \in Target}
           /\ recovered' = IF Settles[e.kind] = "PAID"
                           THEN [recovered EXCEPT ![e.target] = PaidAmount(e)]
                           ELSE recovered
           /\ paidAt' \in [Target -> Nat \cup {NoTime}]
           /\ EventTime(e) \in Nat
           /\ paidAt' = IF Settles[e.kind] = "PAID"
                        THEN [paidAt EXCEPT ![e.target] = EventTime(e)] ELSE paidAt
           /\ lastEvent' = [lastEvent EXCEPT ![e.target] = EventId(e)]
<1>0. Fresh(e) /\ Accepts(e) /\ ApplyTransition(e)
    BY DEF DeliverProcessed
<1>1. e \in EventSet
    BY IdType
<1>2. /\ ~ Replay(e) /\ registered
      /\ e.target \in Target /\ e.kind \in SupportedEvent
    BY <1>0, FreshIsNoReplay
<1>3. Settles[e.kind] \in {"PAID", "FAILED", "EXPIRED"}
    BY <1>2 DEF Settles, SupportedEvent
<1>4. status[e.target] = "PENDING"
    BY <1>0, <1>2 DEF Accepts, TargetTransitions, TypeOK
<1>5. /\ PaidAmount(e) \in Nat
      /\ PaidAmount(e) \in Amount \cup {Expected[t] : t \in Target}
    BY <1>1, <1>2, AmountAssumption DEF PaidAmount, EventSet
<1>6. EventTime(e) \in Nat
    BY <1>1 DEF EventTime, EventSet, TypeOK
<1>7. paidAt' \in [Target -> Nat \cup {NoTime}]
    BY <1>0, <1>2, <1>6 DEF ApplyTransition, TypeOK
<1> QED
    BY <1>0, <1>2, <1>3, <1>4, <1>5, <1>6, <1>7 DEF ApplyTransition

LEMMA ProcessedType ==
    ASSUME TypeOK, ReplayIsDuplicate, NEW e \in sent, DeliverProcessed(e)
    PROVE  TypeOK'
<1> DEFINE t == e.target
<1>1. /\ t \in Target
      /\ EventId(e) \in IdSet
      /\ Settles[e.kind] \in {"PAID", "FAILED", "EXPIRED"}
      /\ PaidAmount(e) \in Nat
    BY ProcessedEffect, IdType
<1>2. /\ status' \in [Target -> TargetStatus]
      /\ recovered' \in [Target -> Nat]
      /\ paidAt' \in [Target -> Nat \cup {NoTime}]
      /\ lastEvent' \in [Target -> IdSet]
    <2>1. Settles[e.kind] \in TargetStatus
        BY <1>1 DEF TargetStatus
    <2>2. status' \in [Target -> TargetStatus]
        BY <2>1, ProcessedEffect DEF TypeOK
    <2>3. recovered' = [recovered EXCEPT ![t] = PaidAmount(e)] \/ recovered' = recovered
        BY ProcessedEffect
    <2>4. recovered' \in [Target -> Nat]
        BY <1>1, <2>3 DEF TypeOK
    <2>5. lastEvent' \in [Target -> IdSet]
        BY <1>1, ProcessedEffect DEF TypeOK
    <2> QED
        BY <2>2, <2>4, <2>5, ProcessedEffect
<1>3. trail' \in [Target -> Seq(AuditSet)]
    <2>1. status'[t] \in {"PAID", "FAILED", "EXPIRED"}
        BY <1>1, ProcessedEffect DEF TypeOK
    <2>2. [event |-> TargetAudit[status'[t]], actor |-> "PROVIDER"] \in AuditSet
        BY <2>1 DEF TargetAudit, AuditSet
    <2>3. trail[t] \in Seq(AuditSet)
        BY <1>1 DEF TypeOK
    <2>4. Append(trail[t], [event |-> TargetAudit[status'[t]], actor |-> "PROVIDER"])
              \in Seq(AuditSet)
        BY <2>2, <2>3
    <2> QED
        BY <1>1, <2>4 DEF DeliverProcessed, TypeOK
<1>4. /\ seen' \subseteq IdSet
      /\ counter' \in [{"processed", "duplicated", "unrelated", "ignored"} -> Nat]
    BY CountType, SeenType DEF DeliverProcessed
<1>5. /\ DOMAIN outcome' = DOMAIN NewOutcome
      /\ outcome'.status \in OutcomeStatus
      /\ outcome'.finalized \in BOOLEAN
    <2>1. outcome' = Recalculate(outcome, status', recovered', paidAt')
        BY DEF DeliverProcessed
    <2>2. /\ DOMAIN outcome = DOMAIN NewOutcome
          /\ outcome.status \in OutcomeStatus
          /\ outcome.finalized \in BOOLEAN
        BY DEF TypeOK
    <2> QED
        BY <2>1, <2>2, RecalculateType
<1>6. UNCHANGED <<now, provider, registered, registeredAt>>
    BY DEF DeliverProcessed
<1> QED
    BY <1>2, <1>3, <1>4, <1>5, <1>6 DEF TypeOK, provider

LEMMA DeliverType ==
    ASSUME TypeOK, ReplayIsDuplicate, NEW e \in sent, Deliver(e)
    PROVE  TypeOK'
<1>1. CASE DeliverDuplicate(e)
    BY <1>1, CountType DEF DeliverDuplicate, TypeOK, provider, targets
<1>2. CASE DeliverUnsupported(e)
    BY <1>2, CountType DEF DeliverUnsupported, TypeOK, provider, targets
<1>3. CASE DeliverUnrelated(e)
    BY <1>3, CountType DEF DeliverUnrelated, TypeOK, provider, targets
<1>4. CASE DeliverRefused(e)
    BY <1>4, CountType, SeenType DEF DeliverRefused, TypeOK, provider, targets
<1>5. CASE DeliverProcessed(e)
    BY <1>5, ProcessedType
<1> QED
    BY <1>1, <1>2, <1>3, <1>4, <1>5 DEF Deliver

LEMMA InitializeType ==
    ASSUME TypeOK, Initialize \/ InitializeAgain
    PROVE  TypeOK'
<1>1. /\ DOMAIN NewOutcome = DOMAIN NewOutcome
      /\ NewOutcome.status \in OutcomeStatus
      /\ NewOutcome.finalized \in BOOLEAN
    BY DEF NewOutcome, OutcomeStatus
<1>2. CASE Initialize
    <2>1. trail' \in [Target -> Seq(AuditSet)]
        <3>1. [event |-> "TARGET_REGISTERED", actor |-> "SYSTEM"] \in AuditSet
            BY DEF AuditSet
        <3>2. <<[event |-> "TARGET_REGISTERED", actor |-> "SYSTEM"]>> \in Seq(AuditSet)
            BY <3>1
        <3> QED
            BY <1>2, <3>2 DEF Initialize
    <2>2. /\ DOMAIN outcome' = DOMAIN NewOutcome
          /\ outcome'.status \in OutcomeStatus
          /\ outcome'.finalized \in BOOLEAN
        BY <1>1, <1>2, RecalculateType DEF Initialize
    <2> QED
        BY <1>2, <2>1, <2>2 DEF Initialize, TypeOK, provider, targets
<1>3. CASE InitializeAgain
    <2>1. /\ DOMAIN outcome' = DOMAIN NewOutcome
          /\ outcome'.status \in OutcomeStatus
          /\ outcome'.finalized \in BOOLEAN
        BY <1>3, RecalculateType DEF InitializeAgain, TypeOK
    <2> QED
        BY <1>3, <2>1 DEF InitializeAgain, TypeOK, provider, targets
<1> QED
    BY <1>2, <1>3

(***************************************************************************)
(* The evaluator gives up some set of pending targets and no other.        *)
(***************************************************************************)
LEMMA EvaluateEffect ==
    ASSUME Evaluate
    PROVE  /\ registered
           /\ ~ Overpaid(recovered)
           /\ \E S \in SUBSET Target :
                 /\ \A t \in S : status[t] = "PENDING"
                 /\ Expire(S)
                 /\ outcome' =
                       IF S = {} THEN Aggregate(outcome, status, recovered, paidAt)
                       ELSE Recalculate(Aggregate(outcome, status, recovered, paidAt),
                                        status', recovered, paidAt)
           /\ UNCHANGED <<now, provider, registered, registeredAt, recovered, paidAt,
                          seen, counter>>
<1> DEFINE fresh == Aggregate(outcome, status, recovered, paidAt)
           S     == IF fresh.finalized THEN {} ELSE Overdue
<1>1. /\ Expire(S)
      /\ outcome' = IF S = {} THEN fresh ELSE Recalculate(fresh, status', recovered, paidAt)
    BY DEF Evaluate
<1>2. S \in SUBSET Target /\ \A t \in S : status[t] = "PENDING"
    BY DEF Overdue
<1> HIDE DEF S
<1> QED
    BY <1>1, <1>2 DEF Evaluate

LEMMA EvaluateType == TypeOK /\ Evaluate => TypeOK'
<1> SUFFICES ASSUME TypeOK, Evaluate PROVE TypeOK'
    OBVIOUS
<1>1. PICK S \in SUBSET Target :
          /\ Expire(S)
          /\ outcome' =
                IF S = {} THEN Aggregate(outcome, status, recovered, paidAt)
                ELSE Recalculate(Aggregate(outcome, status, recovered, paidAt),
                                 status', recovered, paidAt)
    BY EvaluateEffect
<1>2. status' \in [Target -> TargetStatus]
    BY <1>1 DEF Expire, TypeOK, TargetStatus
<1>3. lastEvent' \in [Target -> IdSet]
    <2>1. \A t \in Target : WindowId(t) \in IdSet
        BY DEF WindowId, IdSet
    <2> QED
        BY <1>1, <2>1 DEF Expire, TypeOK
<1>4. trail' \in [Target -> Seq(AuditSet)]
    <2>1. [event |-> "TARGET_EXPIRED", actor |-> "SYSTEM"] \in AuditSet
        BY DEF AuditSet
    <2>2. \A t \in Target : trail[t] \in Seq(AuditSet)
        BY DEF TypeOK
    <2>3. \A t \in Target :
              Append(trail[t], [event |-> "TARGET_EXPIRED", actor |-> "SYSTEM"])
                  \in Seq(AuditSet)
        BY <2>1, <2>2
    <2> QED
        BY <1>1, <2>2, <2>3 DEF Expire
<1>5. /\ DOMAIN outcome' = DOMAIN NewOutcome
      /\ outcome'.status \in OutcomeStatus
      /\ outcome'.finalized \in BOOLEAN
    <2>1. LET fresh == Aggregate(outcome, status, recovered, paidAt)
          IN  /\ DOMAIN fresh = DOMAIN NewOutcome
              /\ fresh.status \in OutcomeStatus
              /\ fresh.finalized \in BOOLEAN
        BY AggregateType DEF TypeOK
    <2> QED
        BY <1>1, <2>1, RecalculateType
<1> QED
    BY <1>2, <1>3, <1>4, <1>5, EvaluateEffect DEF TypeOK, provider

(***************************************************************************)
(* One step of any actor keeps the types, and keeps the last event of      *)
(* every target among the events already seen.                             *)
(***************************************************************************)
LEMMA NextType == TypeOK /\ ReplayIsDuplicate /\ Next => TypeOK'
<1> SUFFICES ASSUME TypeOK, ReplayIsDuplicate, Next PROVE TypeOK'
    OBVIOUS
<1>1. CASE Tick
    BY <1>1 DEF Tick, TypeOK, provider, targets
<1>2. CASE Provider
    BY <1>2, ProviderType
<1>3. CASE Initialize \/ InitializeAgain
    BY <1>3, InitializeType
<1>4. CASE \E e \in sent : Deliver(e)
    BY <1>4, DeliverType
<1>5. CASE Evaluate
    BY <1>5, EvaluateType
<1> QED
    BY <1>1, <1>2, <1>3, <1>4, <1>5 DEF Next

LEMMA StutterType == TypeOK /\ UNCHANGED vars => TypeOK'
BY DEF TypeOK, vars, provider, targets

LEMMA NextReplay == TypeOK /\ ReplayIsDuplicate /\ Next => ReplayIsDuplicate'
<1> SUFFICES ASSUME TypeOK, ReplayIsDuplicate, Next PROVE ReplayIsDuplicate'
    OBVIOUS
<1>1. CASE Tick \/ Provider \/ Initialize \/ InitializeAgain
    BY <1>1 DEF Tick, Provider, CloseLink, ReportPayment, Emit, Initialize,
                InitializeAgain, ReplayIsDuplicate, targets
<1>2. ASSUME NEW e \in sent, Deliver(e) PROVE ReplayIsDuplicate'
    <2>1. CASE DeliverDuplicate(e) \/ DeliverUnsupported(e) \/ DeliverUnrelated(e)
        BY <2>1 DEF DeliverDuplicate, DeliverUnsupported, DeliverUnrelated,
                    ReplayIsDuplicate, targets
    <2>2. CASE DeliverRefused(e)
        BY <2>2 DEF DeliverRefused, MarkSeen, ReplayIsDuplicate, targets
    <2>3. CASE DeliverProcessed(e)
        <3>1. lastEvent' = [lastEvent EXCEPT ![e.target] = EventId(e)]
            BY <2>3, ProcessedEffect
        <3>2. seen' = IF e.at = NoTime THEN seen ELSE seen \cup {EventId(e)}
            BY <2>3 DEF DeliverProcessed, MarkSeen
        <3> QED
            BY <3>1, <3>2 DEF ReplayIsDuplicate, EventId, TypeOK
    <2> QED
        BY <1>2, <2>1, <2>2, <2>3 DEF Deliver
<1>3. CASE Evaluate
    <2>1. PICK S \in SUBSET Target : Expire(S)
        BY <1>3, EvaluateEffect
    <2>2. seen' = seen
        BY <1>3, EvaluateEffect
    <2> QED
        BY <2>1, <2>2 DEF Expire, ReplayIsDuplicate, WindowId
<1> QED
    BY <1>1, <1>2, <1>3 DEF Next

LEMMA StutterReplay == ReplayIsDuplicate /\ UNCHANGED vars => ReplayIsDuplicate'
BY DEF ReplayIsDuplicate, vars, targets

THEOREM TypeCorrect == Spec => []TypeOK
<1>1. Init => TypeOK /\ ReplayIsDuplicate
    <2>1. Init => ReplayIsDuplicate
        BY DEF Init, ReplayIsDuplicate, NoEvent
    <2> QED
        BY <2>1, InitType
<1>2. TypeOK /\ ReplayIsDuplicate /\ [Next]_vars => TypeOK' /\ ReplayIsDuplicate'
    BY NextType, NextReplay, StutterType, StutterReplay
<1> QED
    BY <1>1, <1>2, PTL DEF Spec

-----------------------------------------------------------------------------

\* st2 has every verdict of st1, and possibly more.
Extends(st1, st2) == \A t \in Target : st1[t] # "PENDING" => st2[t] = st1[t]

(***************************************************************************)
(* What _derive_status computes from the counters, in terms of targets.    *)
(***************************************************************************)
LEMMA DeriveMeaning ==
    ASSUME NEW st
    PROVE  DerivedStatus(st) =
               IF \A t \in Target : st[t] = "PAID" THEN "RECOVERED"
               ELSE IF \E t \in Target : st[t] = "PAID" THEN "PARTIALLY_RECOVERED"
               ELSE IF \E t \in Target : st[t] = "PENDING" THEN "PENDING"
               ELSE "NO_RECOVERY"
<1> DEFINE P == {t \in Target : st[t] = "PAID"}
           Q == {t \in Target : st[t] = "PENDING"}
<1>1. IsFiniteSet(Target) /\ Target # {}
    BY TargetAssumption
<1>2. IsFiniteSet(P) /\ IsFiniteSet(Q)
    BY <1>1, FS_Subset
<1>3. /\ Cardinality(Target) \in Nat /\ Cardinality(Target) # 0
      /\ Cardinality(P) \in Nat
      /\ Cardinality(Q) \in Nat
    BY <1>1, <1>2, FS_CardinalityType, FS_EmptySet
<1>4. Cardinality(P) = 0 <=> P = {}
    BY <1>2, FS_EmptySet
<1>5. Cardinality(Q) = 0 <=> Q = {}
    BY <1>2, FS_EmptySet
<1>6. Cardinality(P) = Cardinality(Target) <=> P = Target
    <2>1. P \in SUBSET Target
        OBVIOUS
    <2> QED
        BY <1>1, <2>1, FS_Subset
<1>7. DerivedStatus(st) = DeriveStatus(Cardinality(Target), Cardinality(P), Cardinality(Q))
    BY DEF DerivedStatus, Tally
<1>8. DerivedStatus(st) =
          IF P = Target THEN "RECOVERED"
          ELSE IF P # {} THEN "PARTIALLY_RECOVERED"
          ELSE IF Q # {} THEN "PENDING" ELSE "NO_RECOVERY"
    <2> HIDE DEF P, Q
    <2> QED
        BY <1>3, <1>4, <1>5, <1>6, <1>7 DEF DeriveStatus
<1>9. P = Target <=> \A t \in Target : st[t] = "PAID"
    OBVIOUS
<1>10. P # {} <=> \E t \in Target : st[t] = "PAID"
    OBVIOUS
<1>11. Q # {} <=> \E t \in Target : st[t] = "PENDING"
    OBVIOUS
<1> HIDE DEF P, Q
<1> QED
    BY <1>8, <1>9, <1>10, <1>11

(***************************************************************************)
(* The transition table never stands in the way: from a sound status the   *)
(* aggregation always reaches the one the targets call for.                *)
(***************************************************************************)
LEMMA AggregateSound ==
    ASSUME NEW o, NEW st0, NEW st, NEW rec, NEW paid,
           o.finalized \in BOOLEAN,
           StatusSound(o, st0), Extends(st0, st), st \in [Target -> TargetStatus]
    PROVE  /\ Matches(Aggregate(o, st, rec, paid), st, rec)
           /\ StatusSound(Aggregate(o, st, rec, paid), st)
<1> DEFINE d == DerivedStatus(st)
           a == Aggregate(o, st, rec, paid)
<1>1. d = IF \A t \in Target : st[t] = "PAID" THEN "RECOVERED"
          ELSE IF \E t \in Target : st[t] = "PAID" THEN "PARTIALLY_RECOVERED"
          ELSE IF \E t \in Target : st[t] = "PENDING" THEN "PENDING"
          ELSE "NO_RECOVERY"
    BY DeriveMeaning
<1>2. PICK t0 \in Target : TRUE
    BY TargetAssumption
<1>3. /\ o.status \in {"PENDING", "PARTIALLY_RECOVERED", "RECOVERED", "NO_RECOVERY"}
      /\ o.finalized <=> o.status \in {"RECOVERED", "NO_RECOVERY"}
      /\ o.status = "PARTIALLY_RECOVERED" => \E t \in Target : st[t] = "PAID"
      /\ o.status = "RECOVERED" => \A t \in Target : st[t] = "PAID"
      /\ o.status = "NO_RECOVERY" => \A t \in Target : st[t] \in {"FAILED", "EXPIRED"}
    BY DEF StatusSound, Extends
<1>4. d \in {"PENDING", "PARTIALLY_RECOVERED", "RECOVERED", "NO_RECOVERY"}
    BY <1>1
<1> HIDE DEF d
<1>5. NextStatus(o, st) = d
    <2>1. CASE o.status = "PENDING"
        <3>1. OutcomeTransitions[o.status] = OutcomeStatus \ {"PENDING"}
            BY <2>1 DEF OutcomeTransitions, OutcomeStatus
        <3>2. NextStatus(o, st) = IF d \in OutcomeTransitions[o.status] THEN d ELSE o.status
            BY <1>3, <2>1 DEF NextStatus, d
        <3> QED
            BY <1>4, <2>1, <3>1, <3>2 DEF OutcomeStatus
    <2>2. CASE o.status = "PARTIALLY_RECOVERED"
        <3>1. OutcomeTransitions[o.status] = {"RECOVERED", "NO_RECOVERY", "EXPIRED"}
            BY <2>2 DEF OutcomeTransitions, OutcomeStatus
        <3>2. d \in {"RECOVERED", "PARTIALLY_RECOVERED"}
            BY <1>1, <1>3, <2>2 DEF d
        <3>3. NextStatus(o, st) = IF d \in OutcomeTransitions[o.status] THEN d ELSE o.status
            BY <1>3, <2>2 DEF NextStatus, d
        <3> QED
            BY <2>2, <3>1, <3>2, <3>3
    <2>3. CASE o.status = "RECOVERED"
        BY <1>1, <1>3, <2>3 DEF NextStatus, d
    <2>4. CASE o.status = "NO_RECOVERY"
        <3>1. d = "NO_RECOVERY"
            BY <1>1, <1>2, <1>3, <2>4 DEF d
        <3> QED
            BY <1>3, <2>4, <3>1 DEF NextStatus
    <2> QED
        BY <1>3, <2>1, <2>2, <2>3, <2>4
<1>6. /\ a.status = d
      /\ a.finalized <=> d \in FinalStatus
    <2>1. a.status = d /\ a.finalized = (o.finalized \/ d \in FinalStatus)
        BY <1>5 DEF Aggregate
    <2>2. o.finalized => d \in FinalStatus
        BY <1>1, <1>2, <1>3 DEF FinalStatus, d
    <2> QED
        BY <2>1, <2>2
<1>7. Matches(a, st, rec)
    BY <1>6 DEF Matches, Aggregate, d
<1>8. StatusSound(a, st)
    <2>1. d \in FinalStatus <=> d \in {"RECOVERED", "NO_RECOVERY"}
        BY <1>4 DEF FinalStatus
    <2>2. d = "PARTIALLY_RECOVERED" => \E t \in Target : st[t] = "PAID"
        BY <1>1 DEF d
    <2>3. d = "RECOVERED" => \A t \in Target : st[t] = "PAID"
        BY <1>1 DEF d
    <2>4. d = "NO_RECOVERY" => \A t \in Target : st[t] \in {"FAILED", "EXPIRED"}
        BY <1>1 DEF d, TargetStatus
    <2> HIDE DEF a
    <2> QED
        BY <1>4, <1>6, <2>1, <2>2, <2>3, <2>4 DEF StatusSound
<1> QED
    BY <1>7, <1>8

\* recalculate keeps the published status sound even when it refuses the amounts.
LEMMA RecalculateSound ==
    ASSUME NEW o, NEW st0, NEW st, NEW rec, NEW paid,
           o.finalized \in BOOLEAN,
           StatusSound(o, st0), Extends(st0, st), st \in [Target -> TargetStatus]
    PROVE  /\ StatusSound(Recalculate(o, st, rec, paid), st)
           /\ ~ Overpaid(rec) => Matches(Recalculate(o, st, rec, paid), st, rec)
<1>1. CASE Overpaid(rec)
    BY <1>1 DEF Recalculate, StatusSound, Extends
<1>2. CASE ~ Overpaid(rec)
    BY <1>2, AggregateSound DEF Recalculate
<1> QED
    BY <1>1, <1>2

(***************************************************************************)
(* The part of the invariant that relates the outcome to its targets.      *)
(***************************************************************************)
Consistent ==
    /\ BlankBeforeRegistration
    /\ StatusSound(outcome, status)
    /\ AggregateMatchesTargets

LEMMA ConsistentKept ==
    ASSUME Consistent, UNCHANGED <<registered, outcome, status, recovered>>
    PROVE  Consistent'
<1>1. BlankBeforeRegistration' /\ StatusSound(outcome, status)'
    BY DEF Consistent, BlankBeforeRegistration, StatusSound, Settled
<1>2. AggregateMatchesTargets'
    BY DEF Consistent, AggregateMatchesTargets
<1> QED
    BY <1>1, <1>2 DEF Consistent

\* A step that re-aggregates a registered outcome from more verdicts.
LEMMA ConsistentRecalculated ==
    ASSUME TypeOK, Consistent, registered', status' \in [Target -> TargetStatus],
           Extends(status, status'),
           NEW paid, outcome' = Recalculate(outcome, status', recovered', paid)
    PROVE  Consistent'
<1>1. StatusSound(outcome, status) /\ outcome.finalized \in BOOLEAN
    BY DEF Consistent, TypeOK
<1>2. /\ StatusSound(outcome', status')
      /\ ~ Overpaid(recovered') => Matches(outcome', status', recovered')
    BY <1>1, RecalculateSound
<1> QED
    BY <1>2 DEF Consistent, BlankBeforeRegistration, AggregateMatchesTargets

LEMMA ConsistentInit == Init => Consistent
<1> SUFFICES ASSUME Init PROVE Consistent
    OBVIOUS
<1>1. BlankBeforeRegistration /\ AggregateMatchesTargets
    BY DEF Init, BlankBeforeRegistration, AggregateMatchesTargets, Settled
<1>2. StatusSound(outcome, status)
    BY DEF Init, NewOutcome, StatusSound
<1> QED
    BY <1>1, <1>2 DEF Consistent

LEMMA ConsistentProcessed ==
    ASSUME TypeOK, ReplayIsDuplicate, Consistent, NEW e \in sent, DeliverProcessed(e)
    PROVE  Consistent'
<1>1. /\ status' \in [Target -> TargetStatus]
      /\ registered' = registered
      /\ outcome' = Recalculate(outcome, status', recovered', paidAt')
    BY ProcessedType DEF TypeOK, DeliverProcessed
<1>2. registered /\ Extends(status, status')
    BY ProcessedEffect DEF Extends, TypeOK
<1> QED
    BY <1>1, <1>2, ConsistentRecalculated

LEMMA ConsistentEvaluate ==
    ASSUME TypeOK, Consistent, Evaluate
    PROVE  Consistent'
<1> DEFINE fresh == Aggregate(outcome, status, recovered, paidAt)
<1>1. PICK S \in SUBSET Target :
          /\ \A t \in S : status[t] = "PENDING"
          /\ Expire(S)
          /\ outcome' = IF S = {} THEN fresh
                        ELSE Recalculate(fresh, status', recovered, paidAt)
    BY EvaluateEffect
<1>2. /\ registered /\ ~ Overpaid(recovered)
      /\ recovered' = recovered /\ registered' = registered
    BY EvaluateEffect
<1>3. status' \in [Target -> TargetStatus] /\ Extends(status, status')
    BY <1>1 DEF Expire, Extends, TypeOK, TargetStatus
<1>4. /\ Matches(fresh, status, recovered)
      /\ StatusSound(fresh, status)
      /\ fresh.finalized \in BOOLEAN
    <2>1. Extends(status, status)
        BY DEF Extends
    <2> QED
        BY <2>1, AggregateSound, AggregateType DEF Consistent, TypeOK
<1>5. CASE S = {}
    <2>1. outcome' = fresh /\ status' = status
        BY <1>1, <1>5 DEF Expire, TypeOK
    <2> QED
        BY <1>2, <1>4, <2>1 DEF Consistent, BlankBeforeRegistration,
                                AggregateMatchesTargets
<1>6. CASE S # {}
    <2> HIDE DEF fresh
    <2>1. outcome' = Recalculate(fresh, status', recovered', paidAt)
        BY <1>1, <1>2, <1>6
    <2>2. /\ StatusSound(outcome', status')
          /\ ~ Overpaid(recovered') => Matches(outcome', status', recovered')
        BY <1>3, <1>4, <2>1, RecalculateSound
    <2> QED
        BY <1>2, <2>2 DEF Consistent, BlankBeforeRegistration, AggregateMatchesTargets
<1> QED
    BY <1>5, <1>6

LEMMA ConsistentNext ==
    ASSUME TypeOK, ReplayIsDuplicate, Consistent, Next
    PROVE  Consistent'
<1>1. CASE Tick
    BY <1>1, ConsistentKept DEF Tick, targets
<1>2. CASE Provider
    BY <1>2, ConsistentKept DEF Provider, CloseLink, ReportPayment, Emit, targets
<1>3. CASE Initialize
    <2>1. outcome = NewOutcome /\ Extends(status, status')
        BY <1>3 DEF Initialize, Consistent, BlankBeforeRegistration, Extends, targets
    <2> QED
        BY <1>3, <2>1, ConsistentRecalculated DEF Initialize, TypeOK, targets
<1>4. CASE InitializeAgain
    <2>1. Extends(status, status')
        BY <1>4 DEF InitializeAgain, Extends, targets
    <2> QED
        BY <1>4, <2>1, ConsistentRecalculated DEF InitializeAgain, TypeOK, targets
<1>5. ASSUME NEW e \in sent, Deliver(e) PROVE Consistent'
    <2>1. CASE DeliverProcessed(e)
        BY <2>1, ConsistentProcessed
    <2>2. CASE ~ DeliverProcessed(e)
        BY <1>5, <2>2, ConsistentKept
           DEF Deliver, DeliverDuplicate, DeliverUnsupported, DeliverUnrelated,
               DeliverRefused, targets
    <2> QED
        BY <2>1, <2>2
<1>6. CASE Evaluate
    BY <1>6, ConsistentEvaluate
<1> QED
    BY <1>1, <1>2, <1>3, <1>4, <1>5, <1>6 DEF Next

(***************************************************************************)
(* The audit trail.                                                        *)
(***************************************************************************)
\* What the invariant says of one target with audit trail tr and status s.
TrailOf(tr, s) ==
    /\ Len(tr) = IF s # "PENDING" THEN 2 ELSE 1
    /\ tr[1] = [event |-> "TARGET_REGISTERED", actor |-> "SYSTEM"]
    /\ s # "PENDING" => tr[2].event = TargetAudit[s]

LEMMA TrailMeaning ==
    AuditTellsTheStatus <=>
        \A t \in Target : /\ ~ registered => trail[t] = << >>
                          /\ registered => TrailOf(trail[t], status[t])
BY DEF AuditTellsTheStatus, TrailOf, Settled

\* A verdict that is appended with its own audit event keeps the trail.
LEMMA TrailExtended ==
    ASSUME NEW tr \in Seq(AuditSet), NEW s \in {"PAID", "FAILED", "EXPIRED"},
           NEW actor \in {"SYSTEM", "PROVIDER"}, TrailOf(tr, "PENDING")
    PROVE  TrailOf(Append(tr, [event |-> TargetAudit[s], actor |-> actor]), s)
<1> DEFINE x == [event |-> TargetAudit[s], actor |-> actor]
<1>1. Len(tr) = 1 /\ tr[1] = [event |-> "TARGET_REGISTERED", actor |-> "SYSTEM"]
    BY DEF TrailOf
<1>2. x \in AuditSet /\ x.event = TargetAudit[s]
    BY DEF TargetAudit, AuditSet
<1> HIDE DEF x
<1>3. Len(Append(tr, x)) = 2 /\ Append(tr, x)[1] = tr[1] /\ Append(tr, x)[2] = x
    <2>1. Len(Append(tr, x)) = Len(tr) + 1
        BY <1>2
    <2>2. Append(tr, x)[Len(tr) + 1] = x
        BY <1>2
    <2>3. Append(tr, x)[1] = tr[1]
        BY <1>1, <1>2
    <2> QED
        BY <1>1, <2>1, <2>2, <2>3
<1>4. TrailOf(Append(tr, x), s)
    BY <1>1, <1>2, <1>3 DEF TrailOf
<1> QED
    BY <1>4 DEF x

LEMMA AuditNext ==
    ASSUME TypeOK, ReplayIsDuplicate, Consistent, AuditTellsTheStatus, Next
    PROVE  AuditTellsTheStatus'
<1>1. CASE Tick
    BY <1>1 DEF Tick, AuditTellsTheStatus, Settled, targets
<1>2. CASE Provider
    BY <1>2 DEF Provider, CloseLink, ReportPayment, Emit, AuditTellsTheStatus, Settled,
                targets
<1>3. CASE Initialize
    <2>1. \A t \in Target : status'[t] = "PENDING"
        BY <1>3 DEF Initialize, Consistent, BlankBeforeRegistration, Settled, targets
    <2>2. \A t \in Target :
              trail'[t] = <<[event |-> "TARGET_REGISTERED", actor |-> "SYSTEM"]>>
        BY <1>3 DEF Initialize
    <2> QED
        BY <1>3, <2>1, <2>2 DEF Initialize, AuditTellsTheStatus, Settled
<1>4. CASE InitializeAgain
    BY <1>4 DEF InitializeAgain, AuditTellsTheStatus, Settled, targets
<1>5. ASSUME NEW e \in sent, Deliver(e) PROVE AuditTellsTheStatus'
    <2>1. CASE DeliverProcessed(e)
        <3> DEFINE s == Settles[e.kind]
        <3>1. /\ registered /\ registered'
              /\ e.target \in Target
              /\ status[e.target] = "PENDING"
              /\ status' = [status EXCEPT ![e.target] = s]
              /\ s \in {"PAID", "FAILED", "EXPIRED"}
            BY <2>1, ProcessedEffect DEF DeliverProcessed
        <3> HIDE DEF s
        <3>2. status'[e.target] = s
            BY <3>1 DEF TypeOK
        <3>3. trail' = [trail EXCEPT ![e.target] =
                           Append(@, [event |-> TargetAudit[s], actor |-> "PROVIDER"])]
            BY <2>1, <3>2 DEF DeliverProcessed
        <3>4. TrailOf(trail'[e.target], s)
            <4>1. trail[e.target] \in Seq(AuditSet) /\ TrailOf(trail[e.target], "PENDING")
                BY <3>1, TrailMeaning DEF TypeOK
            <4>2. trail'[e.target] =
                      Append(trail[e.target],
                             [event |-> TargetAudit[s], actor |-> "PROVIDER"])
                BY <3>1, <3>3 DEF TypeOK
            <4> QED
                BY <3>1, <4>1, <4>2, TrailExtended
        <3>5. \A t \in Target : TrailOf(trail'[t], status'[t])
            <4> TAKE t \in Target
            <4>1. CASE t = e.target
                BY <3>2, <3>4, <4>1
            <4>2. CASE t # e.target
                <5>1. trail'[t] = trail[t] /\ status'[t] = status[t]
                    BY <3>1, <3>3, <4>2 DEF TypeOK
                <5> QED
                    BY <3>1, <5>1, TrailMeaning
            <4> QED
                BY <4>1, <4>2
        <3> QED
            BY <3>1, <3>5 DEF AuditTellsTheStatus, TrailOf, Settled
    <2>2. CASE ~ DeliverProcessed(e)
        BY <1>5, <2>2
           DEF Deliver, DeliverDuplicate, DeliverUnsupported, DeliverUnrelated,
               DeliverRefused, AuditTellsTheStatus, Settled, targets
    <2> QED
        BY <2>1, <2>2
<1>6. CASE Evaluate
    <2>1. PICK S \in SUBSET Target : (\A t \in S : status[t] = "PENDING") /\ Expire(S)
        BY <1>6, EvaluateEffect
    <2>2. registered /\ registered'
        BY <1>6, EvaluateEffect
    <2>3. \A t \in Target : TrailOf(trail'[t], status'[t])
        <3> TAKE t \in Target
        <3>1. CASE t \in S
            <4>1. trail[t] \in Seq(AuditSet) /\ TrailOf(trail[t], "PENDING")
                BY <2>1, <2>2, <3>1, TrailMeaning DEF TypeOK
            <4>2. TargetAudit["EXPIRED"] = "TARGET_EXPIRED"
                BY DEF TargetAudit
            <4>3. /\ trail'[t] = Append(trail[t], [event |-> TargetAudit["EXPIRED"],
                                                   actor |-> "SYSTEM"])
                  /\ status'[t] = "EXPIRED"
                BY <2>1, <3>1, <4>2 DEF Expire
            <4> QED
                BY <4>1, <4>3, TrailExtended
        <3>2. CASE t \notin S
            <4>1. trail'[t] = trail[t] /\ status'[t] = status[t]
                BY <2>1, <3>2 DEF Expire
            <4> QED
                BY <2>2, <4>1, TrailMeaning
        <3> QED
            BY <3>1, <3>2
    <2> QED
        BY <2>2, <2>3 DEF AuditTellsTheStatus, TrailOf, Settled
<1> QED
    BY <1>1, <1>2, <1>3, <1>4, <1>5, <1>6 DEF Next

(***************************************************************************)
(* The inductive invariant, and what follows from it.                      *)
(***************************************************************************)
LEMMA IInvInit == Init => IInv
<1>1. Init => ReplayIsDuplicate /\ AuditTellsTheStatus
    BY DEF Init, ReplayIsDuplicate, NoEvent, AuditTellsTheStatus
<1> QED
    BY <1>1, InitType, ConsistentInit DEF IInv, Consistent

LEMMA IInvNext == IInv /\ [Next]_vars => IInv'
<1> SUFFICES ASSUME IInv, [Next]_vars PROVE IInv'
    OBVIOUS
<1>1. CASE Next
    <2>1. Consistent
        BY DEF IInv, Consistent
    <2> QED
        BY <1>1, <2>1, NextType, NextReplay, ConsistentNext, AuditNext
           DEF IInv, Consistent
<1>2. CASE UNCHANGED vars
    <2>1. Consistent'
        BY <1>2, ConsistentKept DEF IInv, Consistent, vars, targets
    <2>2. AuditTellsTheStatus'
        BY <1>2 DEF IInv, AuditTellsTheStatus, Settled, vars, targets
    <2> QED
        BY <1>2, <2>1, <2>2, StutterType, StutterReplay DEF IInv, Consistent
<1> QED
    BY <1>1, <1>2

\* The strengthened invariant holds in every state of every behaviour.
THEOREM Invariance == Spec => []IInv
BY IInvInit, IInvNext, PTL DEF Spec

\* The published aggregate of process_event, recalculate and finalize_expired is
\* the one the targets call for, unless the amounts were refused.
THEOREM AggregateCorrect == Spec => []AggregateMatchesTargets
<1>1. IInv => AggregateMatchesTargets
    BY DEF IInv
<1> QED
    BY <1>1, Invariance, PTL

\* transition sets finalized_at only on an outcome none of whose targets is pending.
THEOREM FinalizedResolved == Spec => []FinalizedMeansResolved
<1>1. IInv => FinalizedMeansResolved
    BY DEF IInv, StatusSound, FinalizedMeansResolved, Settled
<1> QED
    BY <1>1, Invariance, PTL

\* The audit trail has exactly one verdict per settled target, the right one.
THEOREM AuditCorrect == Spec => []AuditTellsTheStatus
<1>1. IInv => AuditTellsTheStatus
    BY DEF IInv
<1> QED
    BY <1>1, Invariance, PTL

\* Neither a notification nor an evaluation revises a settled target.
THEOREM VerdictsAreFinal == Spec => VerdictIsFinal
<1> DEFINE Kept == \A t \in Target : Settled(t) =>
                      /\ status'[t] = status[t]
                      /\ recovered'[t] = recovered[t]
                      /\ paidAt'[t] = paidAt[t]
<1>1. IInv /\ [Next]_vars => [Kept]_vars
    <2> SUFFICES ASSUME IInv, Next PROVE Kept
        OBVIOUS
    <2>1. CASE Tick
        BY <2>1 DEF Tick, targets
    <2>2. CASE Provider
        BY <2>2 DEF Provider, CloseLink, ReportPayment, Emit, targets
    <2>3. CASE Initialize \/ InitializeAgain
        BY <2>3 DEF Initialize, InitializeAgain, targets
    <2>4. ASSUME NEW e \in sent, Deliver(e) PROVE Kept
        <3>1. CASE DeliverProcessed(e)
            <4>1. /\ status[e.target] = "PENDING"
                  /\ \A t \in Target \ {e.target} : /\ status'[t] = status[t]
                                                    /\ recovered'[t] = recovered[t]
                BY <3>1, ProcessedEffect DEF IInv, TypeOK
            <4>2. \A t \in Target \ {e.target} : paidAt'[t] = paidAt[t]
                BY <3>1 DEF DeliverProcessed, ApplyTransition, targets, IInv, TypeOK
            <4> QED
                BY <4>1, <4>2 DEF Settled
        <3>2. CASE ~ DeliverProcessed(e)
            BY <2>4, <3>2 DEF Deliver, DeliverDuplicate, DeliverUnsupported,
                              DeliverUnrelated, DeliverRefused, targets
        <3> QED
            BY <3>1, <3>2
    <2>5. CASE Evaluate
        <3>1. PICK S \in SUBSET Target : (\A t \in S : status[t] = "PENDING") /\ Expire(S)
            BY <2>5, EvaluateEffect
        <3> QED
            BY <2>5, <3>1, EvaluateEffect DEF Expire, Settled
    <2> QED
        BY <2>1, <2>2, <2>3, <2>4, <2>5 DEF Next
<1> QED
    BY <1>1, Invariance, PTL DEF Spec, VerdictIsFinal

-----------------------------------------------------------------------------
(***************************************************************************)
(* The money. What is credited was reported paid for that very target.     *)
(***************************************************************************)
LEMMA BackedNext ==
    ASSUME IInv, RecoveryIsBacked, [Next]_vars
    PROVE  RecoveryIsBacked'
<1> DEFINE PaidBy(t, e) == /\ e.target = t
                           /\ e.kind \in {"payment_link.paid", "payment.captured"}
                           /\ recovered[t] = PaidAmount(e)
<1>1. CASE UNCHANGED <<status, recovered>> /\ sent \subseteq sent'
    BY <1>1 DEF RecoveryIsBacked, PaidAmount
<1>2. CASE Tick \/ Initialize \/ InitializeAgain \/ UNCHANGED vars
    BY <1>1, <1>2 DEF Tick, Initialize, InitializeAgain, vars, targets, provider
<1>3. CASE Provider
    BY <1>1, <1>3 DEF Provider, CloseLink, ReportPayment, Emit, targets
<1>4. ASSUME NEW e \in sent, Deliver(e) PROVE RecoveryIsBacked'
    <2>1. CASE DeliverProcessed(e)
        <3>1. /\ e.target \in Target
              /\ status' = [status EXCEPT ![e.target] = Settles[e.kind]]
              /\ status[e.target] = "PENDING"
              /\ recovered' = IF Settles[e.kind] = "PAID"
                              THEN [recovered EXCEPT ![e.target] = PaidAmount(e)]
                              ELSE recovered
              /\ sent' = sent
              /\ status \in [Target -> TargetStatus] /\ recovered \in [Target -> Nat]
            BY <2>1, ProcessedEffect DEF IInv, TypeOK, DeliverProcessed, provider
        <3>2. /\ e.kind \in SupportedEvent
              /\ Settles[e.kind] = "PAID" =>
                    e.kind \in {"payment_link.paid", "payment.captured"}
            BY <2>1 DEF DeliverProcessed, Fresh, Settles, SupportedEvent
        <3>3. ASSUME NEW t \in Target, t # e.target
              PROVE  status'[t] = status[t] /\ recovered'[t] = recovered[t]
            BY <3>1, <3>3
        <3>4. /\ status'[e.target] = Settles[e.kind]
              /\ recovered'[e.target] = IF Settles[e.kind] = "PAID" THEN PaidAmount(e)
                                        ELSE recovered[e.target]
            BY <3>1
        <3> QED
            BY <3>1, <3>2, <3>3, <3>4 DEF RecoveryIsBacked, PaidAmount
    <2>2. CASE ~ DeliverProcessed(e)
        BY <1>1, <1>4, <2>2
           DEF Deliver, DeliverDuplicate, DeliverUnsupported, DeliverUnrelated,
               DeliverRefused, targets, provider
    <2> QED
        BY <2>1, <2>2
<1>5. CASE Evaluate
    <2>1. PICK S \in SUBSET Target : (\A t \in S : status[t] = "PENDING") /\ Expire(S)
        BY <1>5, EvaluateEffect
    <2>2. recovered' = recovered /\ sent' = sent
        BY <1>5, EvaluateEffect DEF provider
    <2>3. \A t \in Target : status'[t] = IF t \in S THEN "EXPIRED" ELSE status[t]
        BY <2>1 DEF Expire
    <2> QED
        BY <2>1, <2>2, <2>3 DEF RecoveryIsBacked, PaidAmount
<1> QED
    BY <1>2, <1>3, <1>4, <1>5 DEF Next

(***************************************************************************)
(* The counter of processed events.                                        *)
(***************************************************************************)
\* The targets with a verdict of the provider in audit trails tr.
ByProvider(tr) == {t \in Target : Len(tr[t]) = 2 /\ tr[t][2].actor = "PROVIDER"}

LEMMA VerdictAppended ==
    ASSUME NEW tr \in Seq(AuditSet), NEW s \in {"PAID", "FAILED", "EXPIRED"},
           NEW actor \in {"SYSTEM", "PROVIDER"}, Len(tr) = 1
    PROVE  LET tr2 == Append(tr, [event |-> TargetAudit[s], actor |-> actor])
           IN  Len(tr2) = 2 /\ tr2[2].actor = actor
<1> DEFINE x == [event |-> TargetAudit[s], actor |-> actor]
<1>1. x \in AuditSet /\ x.actor = actor
    BY DEF TargetAudit, AuditSet
<1> HIDE DEF x
<1>2. Len(Append(tr, x)) = 2 /\ Append(tr, x)[2] = x
    BY <1>1
<1> QED
    BY <1>1, <1>2 DEF x

LEMMA ProcessedNext ==
    ASSUME IInv, ProcessedCountsSettlements, [Next]_vars
    PROVE  ProcessedCountsSettlements'
<1>1. CASE UNCHANGED trail /\ counter'.processed = counter.processed
    BY <1>1 DEF ProcessedCountsSettlements
<1>2. CASE Tick \/ InitializeAgain \/ UNCHANGED vars
    BY <1>1, <1>2 DEF Tick, InitializeAgain, vars
<1>3. CASE Provider
    BY <1>1, <1>3 DEF Provider, CloseLink, ReportPayment, Emit
<1>4. CASE Initialize
    <2>1. \A t \in Target : trail[t] = << >>
        BY <1>4 DEF Initialize, IInv, AuditTellsTheStatus
    <2>2. \A t \in Target :
              trail'[t] = <<[event |-> "TARGET_REGISTERED", actor |-> "SYSTEM"]>>
        BY <1>4 DEF Initialize
    <2>3. ByProvider(trail) = {} /\ ByProvider(trail') = {}
        BY <2>1, <2>2 DEF ByProvider
    <2> QED
        BY <1>4, <2>3 DEF Initialize, ProcessedCountsSettlements, ByProvider
<1>5. ASSUME NEW e \in sent, Deliver(e) PROVE ProcessedCountsSettlements'
    <2>1. CASE DeliverProcessed(e)
        <3> DEFINE t == e.target
                   s == Settles[e.kind]
        <3>1. /\ registered /\ t \in Target /\ s \in {"PAID", "FAILED", "EXPIRED"}
              /\ status[t] = "PENDING" /\ status'[t] = s
            BY <2>1, ProcessedEffect DEF IInv, TypeOK
        <3>2. trail[t] \in Seq(AuditSet) /\ Len(trail[t]) = 1
            BY <3>1 DEF IInv, TypeOK, AuditTellsTheStatus, Settled
        <3>3. trail' = [trail EXCEPT ![t] =
                           Append(@, [event |-> TargetAudit[s], actor |-> "PROVIDER"])]
            BY <2>1, <3>1 DEF DeliverProcessed
        <3>4. Len(trail'[t]) = 2 /\ trail'[t][2].actor = "PROVIDER"
            <4>1. trail'[t] = Append(trail[t], [event |-> TargetAudit[s], actor |-> "PROVIDER"])
                BY <3>1, <3>3 DEF IInv, TypeOK
            <4> QED
                BY <3>1, <3>2, <4>1, VerdictAppended
        <3>5. \A u \in Target : u # t => trail'[u] = trail[u]
            BY <3>1, <3>3 DEF IInv, TypeOK
        <3>6. ByProvider(trail') = ByProvider(trail) \cup {t} /\ t \notin ByProvider(trail)
            BY <3>1, <3>2, <3>4, <3>5 DEF ByProvider
        <3>7. IsFiniteSet(ByProvider(trail))
            BY TargetAssumption, FS_Subset DEF ByProvider
        <3>8. Cardinality(ByProvider(trail')) = Cardinality(ByProvider(trail)) + 1
            BY <3>6, <3>7, FS_AddElement
        <3>9. counter'.processed = counter.processed + 1
            BY <2>1 DEF DeliverProcessed, Count, IInv, TypeOK
        <3> QED
            BY <3>8, <3>9 DEF ProcessedCountsSettlements, ByProvider
    <2>2. CASE ~ DeliverProcessed(e)
        <3>1. trail' = trail
            BY <1>5, <2>2 DEF Deliver, DeliverDuplicate, DeliverUnsupported,
                              DeliverUnrelated, DeliverRefused
        <3>2. \/ Count("duplicated") \/ Count("ignored") \/ Count("unrelated")
            BY <1>5, <2>2 DEF Deliver, DeliverDuplicate, DeliverUnsupported,
                              DeliverUnrelated, DeliverRefused
        <3>3. counter'.processed = counter.processed
            BY <3>2 DEF Count, IInv, TypeOK
        <3> QED
            BY <1>1, <3>1, <3>3
    <2> QED
        BY <2>1, <2>2
<1>6. CASE Evaluate
    <2>1. PICK S \in SUBSET Target : (\A t \in S : status[t] = "PENDING") /\ Expire(S)
        BY <1>6, EvaluateEffect
    <2>2. registered /\ counter' = counter
        BY <1>6, EvaluateEffect
    <2>3. ASSUME NEW t \in S
          PROVE  /\ Len(trail[t]) = 1
                 /\ Len(trail'[t]) = 2 /\ trail'[t][2].actor = "SYSTEM"
        <3>1. trail[t] \in Seq(AuditSet) /\ Len(trail[t]) = 1
            BY <2>1, <2>2 DEF IInv, TypeOK, AuditTellsTheStatus, Settled
        <3>2. trail'[t] = Append(trail[t], [event |-> TargetAudit["EXPIRED"],
                                            actor |-> "SYSTEM"])
            BY <2>1 DEF Expire, TargetAudit
        <3> QED
            BY <3>1, <3>2, VerdictAppended
    <2>4. \A t \in Target \ S : trail'[t] = trail[t]
        BY <2>1 DEF Expire
    <2>5. ByProvider(trail') = ByProvider(trail)
        BY <2>3, <2>4 DEF ByProvider
    <2> QED
        BY <2>2, <2>5 DEF ProcessedCountsSettlements, ByProvider
<1> QED
    BY <1>2, <1>3, <1>4, <1>5, <1>6 DEF Next

(***************************************************************************)
(* The first observed payment.                                             *)
(***************************************************************************)
PaidTargets(st) == {t \in Target : st[t] = "PAID"}

\* Every paid target has a time of payment.
PaidHaveTimes(st, paid) == \A t \in PaidTargets(st) : paid[t] \in Nat

\* The time of the earliest payment, if there is one.
Earliest(st, paid) == IF PaidTargets(st) = {} THEN NoTime ELSE EarliestPaid(st, paid)

FirstObservedExact ==
    registered /\ ~ Overpaid(recovered) =>
        outcome.firstObserved = Earliest(status, paidAt)

\* More payments only bring the earliest one forward, which is what the
\* comparison in recalculate looks for.
LEMMA FirstObservedMoves ==
    ASSUME NEW o, NEW st0, NEW st, NEW paid0, NEW paid,
           o.firstObserved = Earliest(st0, paid0),
           PaidTargets(st0) \subseteq PaidTargets(st),
           \A t \in PaidTargets(st0) : paid[t] = paid0[t],
           PaidHaveTimes(st, paid)
    PROVE  FirstObserved(o, st, paid) = Earliest(st, paid)
<1> DEFINE A == {paid0[t] : t \in PaidTargets(st0)}
           B == {paid[t] : t \in PaidTargets(st)}
<1>1. A \subseteq B /\ B \in SUBSET Nat /\ A \in SUBSET Nat
    BY DEF PaidHaveTimes
<1>2. /\ EarliestPaid(st0, paid0) = Min(A)
      /\ EarliestPaid(st, paid) = Min(B)
    BY DEF EarliestPaid, PaidTargets
<1>3. A = {} <=> PaidTargets(st0) = {}
    OBVIOUS
<1>4. B = {} <=> PaidTargets(st) = {}
    OBVIOUS
<1>5. (\A t \in Target : st[t] # "PAID") <=> PaidTargets(st) = {}
    BY DEF PaidTargets
<1> HIDE DEF A, B
<1>6. CASE B = {}
    BY <1>1, <1>3, <1>4, <1>5, <1>6 DEF FirstObserved, Earliest
<1>7. CASE B # {} /\ A = {}
    BY <1>2, <1>3, <1>4, <1>5, <1>7 DEF FirstObserved, Earliest
<1>8. CASE B # {} /\ A # {}
    <2>1. /\ Min(A) \in A /\ Min(A) \in Nat
          /\ Min(B) \in Nat /\ \A m \in B : Min(B) <= m
        BY <1>1, <1>8, MinIsLeast
    <2>2. Min(B) <= Min(A)
        BY <1>1, <2>1
    <2>3. o.firstObserved = Min(A) /\ Min(A) # NoTime
        BY <1>2, <1>3, <1>8, <2>1 DEF Earliest, NoTime
    <2>4. FirstObserved(o, st, paid) = IF Min(B) < Min(A) THEN Min(B) ELSE Min(A)
        BY <1>2, <1>4, <1>5, <1>8, <2>3 DEF FirstObserved
    <2>5. Earliest(st, paid) = Min(B)
        BY <1>2, <1>4, <1>8 DEF Earliest
    <2> QED
        BY <2>1, <2>2, <2>4, <2>5
<1> QED
    BY <1>6, <1>7, <1>8

LEMMA TotalIsSum == ASSUME NEW f PROVE Total(f) = SumOver(f, Target)
BY DEF Total, SumOver

\* An outcome that was overpaid stays so when more is credited.
LEMMA OverpaidStays ==
    ASSUME NEW rec \in [Target -> Nat], NEW rec2 \in [Target -> Nat],
           \A t \in Target : rec[t] <= rec2[t], ~ Overpaid(rec2)
    PROVE  ~ Overpaid(rec)
<1>1. IsFiniteSet(Target)
    BY TargetAssumption
<1>2. \A t \in Target : /\ rec[t] \in Int /\ rec2[t] \in Int /\ rec[t] <= rec2[t]
                        /\ Expected[t] \in Int
    BY AmountAssumption
<1>3. Total(rec) <= Total(rec2)
    BY <1>1, <1>2, SumMonotone, TotalIsSum
<1>4. Total(rec) \in Int /\ Total(rec2) \in Int /\ Total(Expected) \in Int
    BY <1>1, <1>2, SumType, TotalIsSum
<1> QED
    BY <1>3, <1>4 DEF Overpaid

\* A re-aggregation that is not refused observes the earliest payment.
LEMMA RecalculateObserves ==
    ASSUME NEW o, NEW st0, NEW st, NEW paid0, NEW paid, NEW rec, ~ Overpaid(rec),
           o.firstObserved = Earliest(st0, paid0),
           PaidTargets(st0) \subseteq PaidTargets(st),
           \A t \in PaidTargets(st0) : paid[t] = paid0[t],
           PaidHaveTimes(st, paid)
    PROVE  /\ Aggregate(o, st, rec, paid).firstObserved = Earliest(st, paid)
           /\ Recalculate(o, st, rec, paid).firstObserved = Earliest(st, paid)
<1>1. FirstObserved(o, st, paid) = Earliest(st, paid)
    BY FirstObservedMoves
<1> QED
    BY <1>1 DEF Aggregate, Recalculate

Observed == PaidHaveTimes(status, paidAt) /\ FirstObservedExact

LEMMA ObservedInit == Init => Observed
BY DEF Init, Observed, PaidHaveTimes, PaidTargets, FirstObservedExact

LEMMA ObservedNext ==
    ASSUME IInv, RecoveryIsBacked, Observed, [Next]_vars
    PROVE  Observed'
<1>1. CASE UNCHANGED <<registered, status, paidAt, recovered, outcome>>
    BY <1>1 DEF Observed, PaidHaveTimes, FirstObservedExact, PaidTargets
<1>2. CASE Tick \/ UNCHANGED vars
    BY <1>1, <1>2 DEF Tick, vars, targets
<1>3. CASE Provider
    BY <1>1, <1>3 DEF Provider, CloseLink, ReportPayment, Emit, targets
<1>4. CASE Initialize
    <2>1. /\ outcome = NewOutcome /\ PaidTargets(status) = {}
          /\ status' = status /\ paidAt' = paidAt /\ recovered' = recovered
          /\ outcome' = Recalculate(outcome, status, recovered, paidAt)
        BY <1>4 DEF Initialize, IInv, BlankBeforeRegistration, Settled, targets, PaidTargets
    <2>2. outcome.firstObserved = Earliest(status, paidAt)
        BY <2>1 DEF NewOutcome, Earliest
    <2>3. PaidHaveTimes(status, paidAt)
        BY DEF Observed
    <2>4. ~ Overpaid(recovered) => outcome'.firstObserved = Earliest(status, paidAt)
        BY <2>1, <2>2, <2>3, RecalculateObserves
    <2> QED
        BY <2>1, <2>3, <2>4 DEF Observed, FirstObservedExact, PaidHaveTimes
<1>5. CASE InitializeAgain
    <2>1. /\ registered /\ status' = status /\ paidAt' = paidAt /\ recovered' = recovered
          /\ outcome' = Recalculate(outcome, status, recovered, paidAt)
        BY <1>5 DEF InitializeAgain, targets
    <2>2. /\ PaidHaveTimes(status, paidAt)
          /\ ~ Overpaid(recovered) => outcome.firstObserved = Earliest(status, paidAt)
        BY <2>1 DEF Observed, FirstObservedExact
    <2>3. ~ Overpaid(recovered) => outcome'.firstObserved = Earliest(status, paidAt)
        BY <2>1, <2>2, RecalculateObserves
    <2> QED
        BY <2>1, <2>2, <2>3 DEF Observed, FirstObservedExact, PaidHaveTimes
<1>6. ASSUME NEW e \in sent, Deliver(e) PROVE Observed'
    <2>1. CASE DeliverProcessed(e)
        <3> DEFINE t == e.target
                   s == Settles[e.kind]
        <3>1. /\ registered /\ t \in Target /\ status[t] = "PENDING"
              /\ status' = [status EXCEPT ![t] = s]
              /\ PaidAmount(e) \in Nat /\ EventTime(e) \in Nat
              /\ recovered' = IF s = "PAID" THEN [recovered EXCEPT ![t] = PaidAmount(e)]
                              ELSE recovered
              /\ paidAt' = IF s = "PAID" THEN [paidAt EXCEPT ![t] = EventTime(e)] ELSE paidAt
              /\ outcome' = Recalculate(outcome, status', recovered', paidAt')
            BY <2>1, ProcessedEffect DEF IInv, DeliverProcessed
        <3>2. /\ status \in [Target -> TargetStatus]
              /\ recovered \in [Target -> Nat]
              /\ paidAt \in [Target -> Nat \cup {NoTime}]
            BY DEF IInv, TypeOK
        <3>3. recovered[t] = 0
            BY <3>1 DEF RecoveryIsBacked
        <3> HIDE DEF t, s
        <3>4. /\ recovered' \in [Target -> Nat]
              /\ \A u \in Target : recovered[u] <= recovered'[u]
            BY <3>1, <3>2, <3>3
        <3>5. PaidTargets(status) \subseteq PaidTargets(status')
            BY <3>1, <3>2 DEF PaidTargets
        <3>6. \A u \in PaidTargets(status) : paidAt'[u] = paidAt[u]
            BY <3>1, <3>2 DEF PaidTargets
        <3>7. PaidHaveTimes(status', paidAt')
            BY <3>1, <3>2 DEF PaidTargets, PaidHaveTimes, Observed
        <3>8. ~ Overpaid(recovered') =>
                  outcome'.firstObserved = Earliest(status', paidAt')
            <4> SUFFICES ASSUME ~ Overpaid(recovered')
                         PROVE  outcome'.firstObserved = Earliest(status', paidAt')
                OBVIOUS
            <4>1. ~ Overpaid(recovered)
                BY <3>2, <3>4, OverpaidStays
            <4>2. outcome.firstObserved = Earliest(status, paidAt)
                BY <3>1, <4>1 DEF Observed, FirstObservedExact
            <4>3. Recalculate(outcome, status', recovered', paidAt').firstObserved =
                      Earliest(status', paidAt')
                BY <3>5, <3>6, <3>7, <4>2, RecalculateObserves
            <4> QED
                BY <3>1, <4>3
        <3> QED
            BY <3>7, <3>8 DEF Observed, FirstObservedExact, PaidHaveTimes
    <2>2. CASE ~ DeliverProcessed(e)
        BY <1>1, <1>6, <2>2
           DEF Deliver, DeliverDuplicate, DeliverUnsupported, DeliverUnrelated,
               DeliverRefused, targets
    <2> QED
        BY <2>1, <2>2
<1>7. CASE Evaluate
    <2> DEFINE fresh == Aggregate(outcome, status, recovered, paidAt)
    <2>1. PICK S \in SUBSET Target :
              /\ \A t \in S : status[t] = "PENDING"
              /\ Expire(S)
              /\ outcome' = IF S = {} THEN fresh
                            ELSE Recalculate(fresh, status', recovered, paidAt)
        BY <1>7, EvaluateEffect
    <2>2. /\ registered /\ ~ Overpaid(recovered)
          /\ recovered' = recovered /\ paidAt' = paidAt
        BY <1>7, EvaluateEffect
    <2>3. PaidTargets(status') = PaidTargets(status)
        BY <2>1 DEF Expire, PaidTargets
    <2>4. PaidHaveTimes(status, paidAt) /\ outcome.firstObserved = Earliest(status, paidAt)
        BY <2>2 DEF Observed, FirstObservedExact
    <2>5. Earliest(status', paidAt) = Earliest(status, paidAt)
        BY <2>3 DEF Earliest, EarliestPaid, PaidTargets
    <2>6. PaidHaveTimes(status', paidAt)
        BY <2>3, <2>4 DEF PaidHaveTimes
    <2>7. fresh.firstObserved = Earliest(status, paidAt)
        BY <2>2, <2>4, RecalculateObserves
    <2> HIDE DEF fresh
    <2>8. Recalculate(fresh, status', recovered, paidAt).firstObserved =
              Earliest(status', paidAt)
        BY <2>2, <2>3, <2>5, <2>6, <2>7, RecalculateObserves
    <2>9. outcome'.firstObserved = Earliest(status', paidAt)
        BY <2>1, <2>5, <2>7, <2>8
    <2> QED
        BY <2>2, <2>6, <2>9 DEF Observed, FirstObservedExact, PaidHaveTimes
<1> QED
    BY <1>2, <1>3, <1>4, <1>5, <1>6, <1>7 DEF Next

(***************************************************************************)
(* The theorems about the money, the counter and the times.                *)
(***************************************************************************)
MoneyInv == RecoveryIsBacked /\ ProcessedCountsSettlements /\ Observed

LEMMA MoneyInit == Init => MoneyInv
<1> SUFFICES ASSUME Init PROVE MoneyInv
    OBVIOUS
<1>1. RecoveryIsBacked
    BY DEF Init, RecoveryIsBacked
<1>2. ProcessedCountsSettlements
    <2>1. ByProvider(trail) = {}
        BY DEF Init, ByProvider
    <2> QED
        BY <2>1, FS_EmptySet DEF Init, ProcessedCountsSettlements, ByProvider
<1> QED
    BY <1>1, <1>2, ObservedInit DEF MoneyInv

THEOREM MoneyInvariance == Spec => [](IInv /\ MoneyInv)
<1>1. Init => IInv /\ MoneyInv
    BY IInvInit, MoneyInit
<1>2. IInv /\ MoneyInv /\ [Next]_vars => IInv' /\ MoneyInv'
    BY IInvNext, BackedNext, ProcessedNext, ObservedNext DEF MoneyInv
<1> QED
    BY <1>1, <1>2, PTL DEF Spec

\* The handler credits a target only what the provider reported paid for it.
THEOREM RecoveryBacked == Spec => []RecoveryIsBacked
<1>1. MoneyInv => RecoveryIsBacked
    BY DEF MoneyInv
<1> QED
    BY <1>1, MoneyInvariance, PTL

\* events_processed counts every settlement by the provider exactly once.
THEOREM ProcessedCorrect == Spec => []ProcessedCountsSettlements
<1>1. MoneyInv => ProcessedCountsSettlements
    BY DEF MoneyInv
<1> QED
    BY <1>1, MoneyInvariance, PTL

\* first_observed_at is the earliest payment, in whatever order the payments
\* were notified, unless the amounts were refused.
THEOREM FirstObservedCorrect == Spec => []FirstObservedIsEarliest
<1>1. MoneyInv => FirstObservedIsEarliest
    BY DEF MoneyInv, Observed, FirstObservedExact, FirstObservedIsEarliest, Earliest,
           PaidTargets
<1> QED
    BY <1>1, MoneyInvariance, PTL

-----------------------------------------------------------------------------
(***************************************************************************)
(* The refinement: every step of the handler, the initializer, the         *)
(* evaluator and the provider is a step of RecoveryLedger or leaves it     *)
(* alone.                                                                  *)
(***************************************************************************)
LEMMA SameSum == ASSUME NEW f PROVE Ledger!Sum(f) = Total(f)
BY Zenon DEF Ledger!Sum, Total, Ledger!MapThenSumSet, MapThenSumSet, Ledger!MapThenFoldSet,
       MapThenFoldSet

LEMMA SameCardinality == ASSUME NEW S PROVE Ledger!Cardinality(S) = Cardinality(S)
BY DEF Ledger!Cardinality, Cardinality

LEMMA SameStatus == ASSUME NEW st PROVE Ledger!StatusOf(st) = DerivedStatus(st)
BY DeriveMeaning DEF Ledger!StatusOf

\* The report a client reads from outcome o.
ReportIn(o) == [status |-> o.status, paid |-> o.succeeded, undecided |-> o.pending,
                recovered |-> o.recovered]

LEMMA SameReport ==
    ASSUME NEW o, NEW st, NEW rec, Matches(o, st, rec)
    PROVE  ReportIn(o) = Ledger!ReportOf(st, rec)
BY SameSum, SameStatus, SameCardinality DEF Matches, ReportIn, Tally, Ledger!ReportOf

\* Re-aggregating publishes what the ledger publishes.
LEMMA RecalculatePublishes ==
    ASSUME NEW o, NEW st0, NEW st, NEW rec, NEW paid,
           o.finalized \in BOOLEAN,
           StatusSound(o, st0), Extends(st0, st), st \in [Target -> TargetStatus]
    PROVE  ReportIn(Recalculate(o, st, rec, paid)) =
               IF Ledger!Sum(rec) > Ledger!Sum(Expected) THEN ReportIn(o)
               ELSE Ledger!ReportOf(st, rec)
<1>1. CASE Overpaid(rec)
    BY <1>1, SameSum DEF Recalculate, Overpaid
<1>2. CASE ~ Overpaid(rec)
    <2>1. Matches(Recalculate(o, st, rec, paid), st, rec)
        BY <1>2, RecalculateSound
    <2> QED
        BY <1>2, <2>1, SameReport, SameSum DEF Overpaid
<1> QED
    BY <1>1, <1>2

LEMMA LedgerInit == Init => Ledger!Init
BY DEF Init, Ledger!Init, NewOutcome, Ledger!Blank

\* A step that leaves the registration, the verdicts, the credits and the
\* published report alone is a stutter of the ledger.
LEMMA Unpublished ==
    ASSUME UNCHANGED <<registered, status, recovered>>, ReportIn(outcome') = ReportIn(outcome)
    PROVE  UNCHANGED Ledger!vars
BY DEF Ledger!vars, ReportIn

LEMMA LedgerInitialize ==
    ASSUME IInv, Initialize
    PROVE  Ledger!Open
<1>1. /\ outcome = NewOutcome /\ outcome.finalized \in BOOLEAN
      /\ StatusSound(outcome, status) /\ Extends(status, status)
      /\ status \in [Target -> TargetStatus]
    BY DEF Initialize, IInv, BlankBeforeRegistration, TypeOK, Extends
<1>2. outcome' = Recalculate(outcome, status, recovered, paidAt)
    BY <1>1 DEF Initialize
<1>3. ReportIn(outcome') =
          IF Ledger!Sum(recovered) > Ledger!Sum(Expected) THEN ReportIn(outcome)
          ELSE Ledger!ReportOf(status, recovered)
    BY <1>1, <1>2, RecalculatePublishes
<1>4. /\ ~ registered /\ registered' /\ registered' = TRUE
      /\ status' = status /\ recovered' = recovered
    BY DEF Initialize, targets
<1>5. Ledger!Publish
    BY <1>3, <1>4 DEF Ledger!Publish, ReportIn
<1> QED
    BY <1>4, <1>5 DEF Ledger!Open

LEMMA LedgerInitializeAgain ==
    ASSUME IInv, InitializeAgain
    PROVE  UNCHANGED Ledger!vars
<1>1. /\ outcome.finalized \in BOOLEAN /\ StatusSound(outcome, status)
      /\ Extends(status, status) /\ status \in [Target -> TargetStatus]
    BY DEF IInv, TypeOK, Extends
<1>2. ReportIn(outcome') =
          IF Ledger!Sum(recovered) > Ledger!Sum(Expected) THEN ReportIn(outcome)
          ELSE Ledger!ReportOf(status, recovered)
    BY <1>1, RecalculatePublishes DEF InitializeAgain
<1>3. ~ Overpaid(recovered) => ReportIn(outcome) = Ledger!ReportOf(status, recovered)
    BY SameReport DEF InitializeAgain, IInv, AggregateMatchesTargets
<1>4. ReportIn(outcome') = ReportIn(outcome)
    BY <1>2, <1>3, SameSum DEF Overpaid
<1> QED
    BY <1>4, Unpublished DEF InitializeAgain, targets

LEMMA LedgerProcessed ==
    ASSUME IInv, NEW e \in sent, DeliverProcessed(e)
    PROVE  Ledger!Next
<1> DEFINE Credit == Amount \cup {Expected[t] : t \in Target}
           t == e.target
           v == Settles[e.kind]
<1>1. /\ TypeOK /\ ReplayIsDuplicate /\ Consistent
    BY DEF IInv, Consistent
<1>2. /\ registered /\ registered' = registered
      /\ t \in Target
      /\ v \in {"PAID", "FAILED", "EXPIRED"}
      /\ status[t] = "PENDING"
      /\ status' = [status EXCEPT ![t] = v]
      /\ PaidAmount(e) \in Credit
      /\ recovered' = IF v = "PAID" THEN [recovered EXCEPT ![t] = PaidAmount(e)]
                      ELSE recovered
    BY <1>1, ProcessedEffect DEF DeliverProcessed
<1>3. /\ outcome.finalized \in BOOLEAN /\ StatusSound(outcome, status)
      /\ status' \in [Target -> TargetStatus] /\ Extends(status, status')
    BY <1>1, <1>2, ProcessedType DEF IInv, TypeOK, Extends
<1>4. outcome' = Recalculate(outcome, status', recovered', paidAt')
    BY DEF DeliverProcessed
<1>5. ReportIn(outcome') =
          IF Ledger!Sum(recovered') > Ledger!Sum(Expected) THEN ReportIn(outcome)
          ELSE Ledger!ReportOf(status', recovered')
    BY <1>3, <1>4, RecalculatePublishes
<1>6. Ledger!Publish
    BY <1>5 DEF Ledger!Publish, ReportIn
<1> HIDE DEF Credit, t, v
<1>7. Ledger!Decide(t, v, PaidAmount(e))
    BY <1>2, <1>6 DEF Ledger!Decide, Ledger!Undecided
<1> QED
    BY <1>2, <1>7 DEF Ledger!Next, Credit

LEMMA LedgerEvaluate ==
    ASSUME IInv, Evaluate
    PROVE  Ledger!Next \/ UNCHANGED Ledger!vars
<1> DEFINE fresh == Aggregate(outcome, status, recovered, paidAt)
<1>1. PICK S \in SUBSET Target :
          /\ \A t \in S : status[t] = "PENDING"
          /\ Expire(S)
          /\ outcome' = IF S = {} THEN fresh
                        ELSE Recalculate(fresh, status', recovered, paidAt)
    BY EvaluateEffect
<1>2. /\ registered /\ registered' = registered
      /\ recovered' = recovered /\ ~ Overpaid(recovered)
    BY EvaluateEffect
<1>3. /\ outcome.finalized \in BOOLEAN /\ StatusSound(outcome, status)
      /\ status \in [Target -> TargetStatus]
      /\ status' \in [Target -> TargetStatus]
      /\ Extends(status, status) /\ Extends(status, status')
    BY <1>1 DEF IInv, TypeOK, Expire, Extends, TargetStatus
<1>4. /\ Matches(fresh, status, recovered) /\ StatusSound(fresh, status)
      /\ fresh.finalized \in BOOLEAN
    <2>1. outcome.status \in OutcomeStatus
        BY DEF IInv, TypeOK
    <2>2. Matches(fresh, status, recovered) /\ StatusSound(fresh, status)
        BY <1>3, AggregateSound
    <2>3. fresh.finalized \in BOOLEAN
        BY <1>3, <2>1, AggregateType
    <2> QED
        BY <2>2, <2>3
<1>5. ReportIn(fresh) = ReportIn(outcome)
    <2>1. Matches(outcome, status, recovered)
        BY <1>2 DEF IInv, AggregateMatchesTargets
    <2> HIDE DEF fresh
    <2> QED
        BY <1>4, <2>1, SameReport
<1> HIDE DEF fresh
<1>6. CASE S = {}
    <2>1. ReportIn(outcome') = ReportIn(outcome) /\ status' = status
        BY <1>1, <1>3, <1>5, <1>6 DEF Expire
    <2> QED
        BY <1>2, <2>1, Unpublished
<1>7. CASE S # {}
    <2>1. outcome' = Recalculate(fresh, status', recovered', paidAt)
        BY <1>1, <1>2, <1>7
    <2>2. ReportIn(outcome') =
              IF Ledger!Sum(recovered') > Ledger!Sum(Expected) THEN ReportIn(outcome)
              ELSE Ledger!ReportOf(status', recovered')
        BY <1>3, <1>4, <1>5, <2>1, RecalculatePublishes
    <2>3. Ledger!Publish
        BY <2>2 DEF Ledger!Publish, ReportIn
    <2>4. Ledger!GiveUp(S)
        BY <1>1, <1>2, <1>7, <2>3 DEF Ledger!GiveUp, Ledger!Undecided, Expire
    <2> QED
        BY <2>4 DEF Ledger!Next
<1> QED
    BY <1>6, <1>7

LEMMA LedgerNext ==
    ASSUME IInv, Next
    PROVE  Ledger!Next \/ UNCHANGED Ledger!vars
<1>1. CASE Tick
    BY <1>1 DEF Tick, targets, Ledger!vars
<1>2. CASE Provider
    BY <1>2 DEF Provider, CloseLink, ReportPayment, Emit, targets, Ledger!vars
<1>3. CASE Initialize
    BY <1>3, LedgerInitialize DEF Ledger!Next
<1>4. CASE InitializeAgain
    BY <1>4, LedgerInitializeAgain
<1>5. ASSUME NEW e \in sent, Deliver(e) PROVE Ledger!Next \/ UNCHANGED Ledger!vars
    <2>1. CASE DeliverProcessed(e)
        BY <2>1, LedgerProcessed
    <2>2. CASE ~ DeliverProcessed(e)
        BY <1>5, <2>2 DEF Deliver, DeliverDuplicate, DeliverUnsupported,
                          DeliverUnrelated, DeliverRefused, targets, Ledger!vars
    <2> QED
        BY <2>1, <2>2
<1>6. CASE Evaluate
    BY <1>6, LedgerEvaluate
<1> QED
    BY <1>1, <1>2, <1>3, <1>4, <1>5, <1>6 DEF Next

\* Whatever is delivered, in whatever order and however often, a client that
\* reads the outcome sees a ledger that gives each verdict once and publishes
\* the report of the verdicts given.
THEOREM Refinement == Spec => ImplementsLedger
<1>1. IInv /\ [Next]_vars => [Ledger!Next]_(Ledger!vars)
    <2> SUFFICES ASSUME IInv, [Next]_vars PROVE [Ledger!Next]_(Ledger!vars)
        OBVIOUS
    <2>1. CASE Next
        BY <2>1, LedgerNext
    <2>2. CASE UNCHANGED vars
        BY <2>2 DEF vars, targets, Ledger!vars
    <2> QED
        BY <2>1, <2>2
<1> QED
    BY <1>1, LedgerInit, Invariance, PTL DEF Spec, ImplementsLedger, Ledger!Spec
=============================================================================
