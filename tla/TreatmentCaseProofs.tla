------------------------- MODULE TreatmentCaseProofs -------------------------
(***************************************************************************)
(* Theorems about TreatmentCase, for every number of targets, every        *)
(* amounts, limits and time to live, and every counts that are simulated:  *)
(* type correctness, the timeline, the open links, the published figures,  *)
(* and that the endpoints implement TreatmentGate. Then theorems about     *)
(* CaseConsole, the browser console that drives the case.                  *)
(***************************************************************************)
EXTENDS CaseConsole, FoldLemmas, TLAPS

(***************************************************************************)
(* The strengthening: what the parts of a case say about each other.       *)
(***************************************************************************)
\* Only an approved case is executed, exactly the executed case has links, and
\* only an executed case has verdicts.
ExecutedOnceApproved ==
    /\ executed => approval = "APPROVED"
    /\ \A t \in Target : link[t] # "absent" <=> executed
    /\ ~ executed => \A t \in Target : verdict[t] = "PENDING"

CaseInv == TypeOK /\ TimelineTellsTheCase /\ OpenLinkIffPending /\ ExecutedOnceApproved

TimelineEntry == [stage : Stage,
                  status : Decision \cup Approval \cup
                           {"detected", "complete", "proposed", "SUCCEEDED"}]

LEMMA DecisionType == PolicyDecision \in Decision
BY DEF PolicyDecision, Decision

LEMMA EntryType ==
    ASSUME NEW stage \in Stage,
           NEW s \in Decision \cup Approval \cup
                     {"detected", "complete", "proposed", "SUCCEEDED"}
    PROVE  Entry(stage, s) \in TimelineEntry
BY DEF Entry, TimelineEntry

LEMMA PrologueType == Prologue \in Seq(TimelineEntry)
<1>1. /\ Entry("symptom", "detected") \in TimelineEntry
      /\ Entry("investigation", "complete") \in TimelineEntry
      /\ Entry("diagnosis", "complete") \in TimelineEntry
      /\ Entry("prescription", "proposed") \in TimelineEntry
      /\ Entry("safety_check", PolicyDecision) \in TimelineEntry
      /\ Entry("approval", "PENDING") \in TimelineEntry
    BY DecisionType, EntryType DEF Stage, Approval
<1> QED
    BY <1>1 DEF Prologue

LEMMA PublishType ==
    ASSUME DOMAIN report = DOMAIN Ledger!Blank, Ledger!Publish
    PROVE  DOMAIN report' = DOMAIN Ledger!Blank
<1>1. report' = report \/ report' = Ledger!ReportOf(verdict', credited')
    BY DEF Ledger!Publish
<1>2. DOMAIN Ledger!ReportOf(verdict', credited') = DOMAIN Ledger!Blank
    BY DEF Ledger!ReportOf, Ledger!Blank
<1> QED
    BY <1>1, <1>2

-----------------------------------------------------------------------------
(***************************************************************************)
(* What the steps of a request do, in terms of the variables.              *)
(***************************************************************************)
LEMMA RefuseEffect ==
    ASSUME NEW r, NEW code, Refuse(r, code)
    PROVE  /\ reply'.code = code
           /\ UNCHANGED <<now, request, executed, link, outcome, timeline>>
BY DEF Refuse, Answer

\* Every refused request leaves the case as it is.
Refused ==
    /\ reply'.code \in {0, 200, 409, 500}
    /\ UNCHANGED <<now, request, executed, link, outcome, timeline>>

LEMMA RefusedRequests ==
    ASSUME \/ Get
           \/ \E r \in {"approve", "reject"} : DecideAgain(r)
           \/ ExecuteRefused
           \/ SimulateRefused
    PROVE  Refused
BY RefuseEffect DEF Get, DecideAgain, ExecuteRefused, SimulateRefused, Refused

LEMMA ExecuteEffect ==
    ASSUME Execute
    PROVE  /\ approval = "APPROVED" /\ ~ executed /\ ~ Expired
           /\ link' = [t \in Target |-> "CREATED"]
           /\ executed' = TRUE
           /\ timeline' = Append(timeline, Entry("treatment", "SUCCEEDED"))
           /\ Ledger!Publish
           /\ reply'.code = 200
           /\ UNCHANGED <<now, request, verdict, credited>>
BY DEF Execute, Ledger!Open, Answer

\* A simulation moves pending targets only, and marks every link of a target it
\* settles.
LEMMA SimulateEffect ==
    ASSUME NEW c, Simulate(c), TypeOK
    PROVE  /\ executed
           /\ link' \in [Target -> LinkStatus]
           /\ verdict' \in [Target -> Verdict]
           /\ credited' \in [Target -> Nat]
           /\ \A t \in Target : link'[t] = "absent" <=> link[t] = "absent" /\ t \notin Paid(c) \cup Cancelled(c)
           /\ \A t \in Target : verdict[t] # "PENDING" => verdict'[t] = verdict[t]
           /\ \A t \in Target : verdict[t] = "PENDING" =>
                 (verdict'[t] # "PENDING" <=> t \in Paid(c) \cup Cancelled(c))
           /\ \A t \in Target : link'[t] = "CREATED" <=>
                 link[t] = "CREATED" /\ t \notin Paid(c) \cup Cancelled(c)
           /\ Ledger!Publish
           /\ reply'.code = 200
           /\ UNCHANGED <<now, request, executed, timeline>>
<1>1. link' = [t \in Target |-> IF t \in Paid(c) THEN "PAID"
                                ELSE IF t \in Cancelled(c) THEN "CANCELLED"
                                ELSE link[t]]
    BY DEF Simulate, MarkLinks
<1>2. verdict' = [t \in Target |->
                     IF verdict[t] # "PENDING" THEN verdict[t]
                     ELSE IF t \in Paid(c) THEN "PAID"
                     ELSE IF t \in Cancelled(c) THEN "EXPIRED" ELSE "PENDING"]
    BY DEF Simulate, Settle
<1>3. credited' = [t \in Target |-> IF verdict[t] = "PENDING" /\ t \in Paid(c)
                                    THEN Amount[t] ELSE credited[t]]
    BY DEF Simulate, Credit
<1>4. /\ executed /\ Ledger!Publish /\ reply'.code = 200
      /\ UNCHANGED <<now, request, executed, timeline>>
    BY DEF Simulate, Answer
<1>5. credited' \in [Target -> Nat]
    BY <1>3, PlanAssumption DEF TypeOK
<1>6. link' \in [Target -> LinkStatus]
    BY <1>1 DEF TypeOK, LinkStatus
<1>7. verdict' \in [Target -> Verdict]
    BY <1>2 DEF TypeOK, Verdict
<1> QED
    BY <1>1, <1>2, <1>4, <1>5, <1>6, <1>7

-----------------------------------------------------------------------------
(***************************************************************************)
(* The invariant, action by action.                                        *)
(***************************************************************************)
LEMMA CaseInit == Init => CaseInv
<1> SUFFICES ASSUME Init PROVE CaseInv
    OBVIOUS
<1>1. TypeOK
    <2>1. timeline \in Seq(TimelineEntry)
        BY DEF Init
    <2>2. reply.code = 0 /\ report = Ledger!Blank
        BY DEF Init
    <2> QED
        BY <2>1, <2>2 DEF Init, TypeOK, LinkStatus, Verdict, TimelineEntry
<1>2. TimelineTellsTheCase /\ OpenLinkIffPending /\ ExecutedOnceApproved
    BY DEF Init, TimelineTellsTheCase, Started, OpenLinkIffPending, ExecutedOnceApproved
<1> QED
    BY <1>1, <1>2 DEF CaseInv

LEMMA CaseRefused == CaseInv /\ Refused => CaseInv'
BY DEF CaseInv, Refused, TypeOK, TimelineTellsTheCase, Started, OpenLinkIffPending,
       ExecutedOnceApproved, request, outcome

LEMMA CaseTick == CaseInv /\ Tick => CaseInv'
BY DEF CaseInv, Tick, TypeOK, TimelineTellsTheCase, Started, OpenLinkIffPending,
       ExecutedOnceApproved, request, outcome

LEMMA CaseStutter == CaseInv /\ UNCHANGED vars => CaseInv'
BY DEF CaseInv, vars, TypeOK, TimelineTellsTheCase, Started, OpenLinkIffPending,
       ExecutedOnceApproved, request, outcome

LEMMA CaseStart == CaseInv /\ Start => CaseInv'
<1> SUFFICES ASSUME CaseInv, Start PROVE CaseInv'
    OBVIOUS
<1>1. timeline' = Prologue
    BY DEF Start, Prologue
<1>2. /\ ~ Started /\ ~ executed /\ executed' = FALSE
      /\ approval' = "PENDING" /\ decision' = PolicyDecision /\ expiresAt' = now + TTL
      /\ reply'.code = 200
      /\ UNCHANGED <<now, link, verdict, credited, report>>
    BY DEF CaseInv, Start, Answer, ExecutedOnceApproved, Started, outcome, TypeOK
<1>3. TypeOK'
    <2>1. timeline' \in Seq(TimelineEntry)
        BY <1>1, PrologueType
    <2>2. decision' \in Decision
        BY <1>2, DecisionType
    <2>3. expiresAt' \in Nat
        BY <1>2, ClockAssumption DEF CaseInv, TypeOK
    <2> QED
        BY <1>2, <2>1, <2>2, <2>3 DEF CaseInv, TypeOK, Approval, TimelineEntry
<1>4. TimelineTellsTheCase'
    <2>1. Prologue \o <<>> \o <<>> = Prologue
        BY PrologueType
    <2>2. Prologue' = Prologue
        BY DEF Prologue
    <2> QED
        BY <1>1, <1>2, <2>1, <2>2 DEF TimelineTellsTheCase, Started
<1>5. OpenLinkIffPending' /\ ExecutedOnceApproved'
    BY <1>2 DEF CaseInv, OpenLinkIffPending, ExecutedOnceApproved
<1> QED
    BY <1>3, <1>4, <1>5 DEF CaseInv

\* The decision of the human is recorded once, and before any treatment.
LEMMA CaseDecide ==
    ASSUME CaseInv, approval = "PENDING",
           NEW r, NEW s \in {"APPROVED", "REJECTED"}, Decide(r, s)
    PROVE  CaseInv'
<1>1. /\ approval' = s /\ reply'.code = 200
      /\ timeline' = Append(timeline, Entry("approval", s))
      /\ UNCHANGED <<now, decision, expiresAt, executed, link, verdict, credited, report>>
    BY DEF Decide, Answer, outcome
<1>2. ~ executed
    BY DEF CaseInv, ExecutedOnceApproved
<1>3. timeline = Prologue
    <2>1. Prologue \o <<>> \o <<>> = Prologue
        BY PrologueType
    <2> QED
        BY <1>2, <2>1 DEF CaseInv, TimelineTellsTheCase, Started
<1>4. Entry("approval", s) \in TimelineEntry
    BY EntryType DEF Stage, Approval
<1>5. timeline' \in Seq(TimelineEntry)
    BY <1>1, <1>3, <1>4, PrologueType
<1>6. TypeOK'
    BY <1>1, <1>5 DEF CaseInv, TypeOK, Approval, TimelineEntry
<1>7. TimelineTellsTheCase'
    <2>1. timeline' = Prologue \o <<Entry("approval", s)>> \o <<>>
        BY <1>1, <1>3, <1>4, PrologueType
    <2> QED
        BY <1>1, <1>2, <2>1 DEF TimelineTellsTheCase, Started, Prologue
<1>8. OpenLinkIffPending' /\ ExecutedOnceApproved'
    BY <1>1, <1>2 DEF CaseInv, OpenLinkIffPending, ExecutedOnceApproved
<1> QED
    BY <1>6, <1>7, <1>8 DEF CaseInv

LEMMA CaseTooLate == CaseInv /\ ApproveTooLate => CaseInv'
<1> SUFFICES ASSUME CaseInv, ApproveTooLate PROVE CaseInv'
    OBVIOUS
<1>1. /\ approval = "PENDING" /\ approval' = "EXPIRED" /\ reply'.code = 409
      /\ UNCHANGED <<now, decision, expiresAt, executed, link, verdict, credited, report,
                     timeline>>
    BY DEF ApproveTooLate, Answer, outcome
<1>2. TypeOK'
    BY <1>1 DEF CaseInv, TypeOK, Approval
<1>3. TimelineTellsTheCase'
    BY <1>1 DEF CaseInv, TimelineTellsTheCase, Started, Prologue
<1>4. OpenLinkIffPending' /\ ExecutedOnceApproved'
    BY <1>1 DEF CaseInv, OpenLinkIffPending, ExecutedOnceApproved
<1> QED
    BY <1>2, <1>3, <1>4 DEF CaseInv

LEMMA CaseExecute == CaseInv /\ Execute => CaseInv'
<1> SUFFICES ASSUME CaseInv, Execute PROVE CaseInv'
    OBVIOUS
<1>1. /\ approval = "APPROVED" /\ approval' = "APPROVED" /\ ~ executed /\ executed' = TRUE
      /\ link' = [t \in Target |-> "CREATED"]
      /\ timeline' = Append(timeline, Entry("treatment", "SUCCEEDED"))
      /\ reply'.code = 200
      /\ UNCHANGED <<now, decision, expiresAt, verdict, credited>>
    BY ExecuteEffect DEF request
<1>2. DOMAIN report' = DOMAIN Ledger!Blank
    BY ExecuteEffect, PublishType DEF CaseInv, TypeOK
<1>3. Entry("approval", "APPROVED") \in TimelineEntry
    BY EntryType DEF Stage, Approval
<1>4. Entry("treatment", "SUCCEEDED") \in TimelineEntry
    BY EntryType DEF Stage
<1>5. timeline = Prologue \o <<Entry("approval", "APPROVED")>> \o <<>>
    BY <1>1 DEF CaseInv, TimelineTellsTheCase, Started
<1>6. timeline \in Seq(TimelineEntry)
    BY <1>3, <1>5, PrologueType
<1>7. timeline' \in Seq(TimelineEntry)
    BY <1>1, <1>4, <1>6
<1>8. TypeOK'
    BY <1>1, <1>2, <1>7 DEF CaseInv, TypeOK, TimelineEntry, LinkStatus
<1>9. TimelineTellsTheCase'
    <2>1. timeline' = Prologue \o <<Entry("approval", "APPROVED")>>
                               \o <<Entry("treatment", "SUCCEEDED")>>
        BY <1>1, <1>3, <1>4, <1>5, PrologueType
    <2> QED
        BY <1>1, <2>1 DEF TimelineTellsTheCase, Started, Prologue
<1>10. OpenLinkIffPending' /\ ExecutedOnceApproved'
    BY <1>1 DEF CaseInv, OpenLinkIffPending, ExecutedOnceApproved
<1> QED
    BY <1>8, <1>9, <1>10 DEF CaseInv

LEMMA CaseSimulate ==
    ASSUME CaseInv, NEW c, Simulate(c)
    PROVE  CaseInv'
<1>1. /\ executed
      /\ link' \in [Target -> LinkStatus]
      /\ verdict' \in [Target -> Verdict]
      /\ credited' \in [Target -> Nat]
      /\ reply'.code = 200
      /\ UNCHANGED <<now, decision, approval, expiresAt, executed, timeline>>
    BY SimulateEffect DEF CaseInv, request
<1>2. DOMAIN report' = DOMAIN Ledger!Blank
    BY SimulateEffect, PublishType DEF CaseInv, TypeOK
<1>3. TypeOK'
    BY <1>1, <1>2 DEF CaseInv, TypeOK
<1>4. TimelineTellsTheCase'
    BY <1>1 DEF CaseInv, TimelineTellsTheCase, Started, Prologue
<1>5. OpenLinkIffPending'
    BY <1>1, SimulateEffect DEF CaseInv, OpenLinkIffPending
<1>6. ExecutedOnceApproved'
    BY <1>1, SimulateEffect DEF CaseInv, ExecutedOnceApproved
<1> QED
    BY <1>3, <1>4, <1>5, <1>6 DEF CaseInv

LEMMA CaseNext == CaseInv /\ [Next]_vars => CaseInv'
<1> SUFFICES ASSUME CaseInv, [Next]_vars PROVE CaseInv'
    OBVIOUS
<1>1. CASE Tick
    BY <1>1, CaseTick
<1>2. CASE Start
    BY <1>2, CaseStart
<1>3. CASE \/ Get
           \/ \E r \in {"approve", "reject"} : DecideAgain(r)
           \/ ExecuteRefused
           \/ SimulateRefused
    BY <1>3, RefusedRequests, CaseRefused
<1>4. CASE Approve
    BY <1>4, CaseDecide DEF Approve
<1>5. CASE ApproveTooLate
    BY <1>5, CaseTooLate
<1>6. CASE Reject
    BY <1>6, CaseDecide DEF Reject
<1>7. CASE Execute
    BY <1>7, CaseExecute
<1>8. CASE \E c \in Counts : Simulate(c)
    BY <1>8, CaseSimulate
<1>9. CASE UNCHANGED vars
    BY <1>9, CaseStutter
<1> QED
    BY <1>1, <1>2, <1>3, <1>4, <1>5, <1>6, <1>7, <1>8, <1>9 DEF Next

\* The strengthened invariant holds in every reachable state.
THEOREM CaseInvariance == Spec => []CaseInv
BY CaseInit, CaseNext, PTL DEF Spec

\* Every variable of the case keeps its type.
THEOREM CaseTypeCorrect == Spec => []TypeOK
<1>1. CaseInv => TypeOK
    BY DEF CaseInv
<1> QED
    BY <1>1, CaseInvariance, PTL

\* The timeline says exactly what happened, whatever is requested, how often and
\* when.
THEOREM TimelineCorrect == Spec => []TimelineTellsTheCase
<1>1. CaseInv => TimelineTellsTheCase
    BY DEF CaseInv
<1> QED
    BY <1>1, CaseInvariance, PTL

\* A link is open exactly as long as its target is undecided, whatever counts are
\* simulated one after the other.
THEOREM OpenLinksCorrect == Spec => []OpenLinkIffPending
<1>1. CaseInv => OpenLinkIffPending
    BY DEF CaseInv
<1> QED
    BY <1>1, CaseInvariance, PTL

-----------------------------------------------------------------------------
(***************************************************************************)
(* What the published figures say. The credit of a target follows its      *)
(* verdict, so the credits never exceed the amounts, a simulation is       *)
(* always published, and the report is that of the verdicts.               *)
(***************************************************************************)
CreditsOf(v) == [t \in Target |-> IF v[t] = "PAID" THEN Amount[t] ELSE 0]

ReportInv ==
    /\ credited = CreditsOf(verdict)
    /\ report = IF executed THEN Ledger!ReportOf(verdict, credited) ELSE Ledger!Blank

LEMMA LedgerSum == ASSUME NEW f PROVE Ledger!Sum(f) = SumOver(f, Target)
BY Zenon DEF Ledger!Sum, SumOver, Ledger!MapThenSumSet, MapThenSumSet, Ledger!MapThenFoldSet,
       MapThenFoldSet

LEMMA LedgerCardinality == ASSUME NEW S PROVE Ledger!Cardinality(S) = Cardinality(S)
BY DEF Ledger!Cardinality, Cardinality

LEMMA TargetIsFinite == IsFiniteSet(Target) /\ Cardinality(Target) = N
<1>1. N \in Int /\ N >= 1
    BY PlanAssumption
<1> QED
    BY <1>1, FS_Interval DEF Target

\* No more is credited than was owed.
LEMMA CreditsWithinAmounts ==
    ASSUME NEW v
    PROVE  ~ (Ledger!Sum(CreditsOf(v)) > Ledger!Sum(Amount))
<1> DEFINE c == CreditsOf(v)
<1>1. \A t \in Target : c[t] \in Int /\ Amount[t] \in Int /\ c[t] <= Amount[t]
    <2>1. \A t \in Target : Amount[t] \in Nat
        BY PlanAssumption
    <2> QED
        BY <2>1 DEF CreditsOf
<1> HIDE DEF c
<1>2. SumOver(c, Target) <= SumOver(Amount, Target)
    BY <1>1, TargetIsFinite, SumMonotone
<1>3. SumOver(c, Target) \in Int /\ SumOver(Amount, Target) \in Int
    BY <1>1, TargetIsFinite, SumType
<1> QED
    BY <1>2, <1>3, LedgerSum DEF c

LEMMA NothingCredited ==
    ASSUME NEW v, \A t \in Target : v[t] = "PENDING"
    PROVE  /\ CreditsOf(v) = [t \in Target |-> 0]
           /\ Ledger!Sum(CreditsOf(v)) = 0
<1> DEFINE c == CreditsOf(v)
<1>1. c = [t \in Target |-> 0]
    BY DEF CreditsOf
<1> HIDE DEF c
<1>2. SumOver(c, Target) = 0
    BY <1>1, TargetIsFinite, SumZero
<1> QED
    BY <1>1, <1>2, LedgerSum DEF c

LEMMA ReportInit == Init => ReportInv
BY NothingCredited DEF Init, ReportInv, CreditsOf

LEMMA ReportSimulate ==
    ASSUME ReportInv, NEW c, Simulate(c)
    PROVE  ReportInv'
<1>1. executed /\ executed' = executed /\ Ledger!Publish
    BY DEF Simulate
<1>2. credited' = CreditsOf(verdict')
    BY DEF Simulate, Settle, Credit, CreditsOf, ReportInv
<1> QED
    BY <1>1, <1>2, CreditsWithinAmounts DEF ReportInv, Ledger!Publish

LEMMA ReportNext == CaseInv /\ ReportInv /\ [Next]_vars => ReportInv'
<1> SUFFICES ASSUME CaseInv, ReportInv, [Next]_vars PROVE ReportInv'
    OBVIOUS
<1>1. CASE UNCHANGED <<executed, verdict, credited, report>>
    BY <1>1 DEF ReportInv
<1>2. CASE Tick \/ Start \/ Approve \/ ApproveTooLate \/ Reject
    BY <1>1, <1>2 DEF Tick, Start, Approve, ApproveTooLate, Reject, Decide, outcome
<1>3. CASE \/ Get
           \/ \E r \in {"approve", "reject"} : DecideAgain(r)
           \/ ExecuteRefused
           \/ SimulateRefused
    BY <1>1, <1>3, RefusedRequests DEF Refused, outcome
<1>4. CASE Execute
    <2>1. /\ executed' = TRUE /\ Ledger!Publish
          /\ verdict' = verdict /\ credited' = credited /\ credited = CreditsOf(verdict)
        BY <1>4, ExecuteEffect DEF ReportInv
    <2> QED
        BY <2>1, CreditsWithinAmounts DEF ReportInv, Ledger!Publish
<1>5. CASE \E c \in Counts : Simulate(c)
    BY <1>5, ReportSimulate
<1>6. CASE UNCHANGED vars
    BY <1>1, <1>6 DEF vars, outcome
<1> QED
    BY <1>2, <1>3, <1>4, <1>5, <1>6 DEF Next

LEMMA ReportMeaning == CaseInv /\ ReportInv => RecoveredIsOwed
<1> SUFFICES ASSUME CaseInv, ReportInv PROVE RecoveredIsOwed
    OBVIOUS
<1> DEFINE P == {t \in Target : verdict[t] = "PAID"}
           Q == {t \in Target : verdict[t] = "PENDING"}
<1>1. CASE executed
    <2>1. report = Ledger!ReportOf(verdict, CreditsOf(verdict))
        BY <1>1 DEF ReportInv
    <2>2. /\ report.recovered = Ledger!Sum(CreditsOf(verdict))
          /\ report.paid = Cardinality(P) /\ report.undecided = Cardinality(Q)
        BY <2>1, LedgerCardinality DEF Ledger!ReportOf
    <2>3. Cardinality(P) + Cardinality(Q) <= N
        <3>1. P \cup Q \in SUBSET Target /\ P \cap Q = {}
              /\ IsFiniteSet(P) /\ IsFiniteSet(Q)
            BY TargetIsFinite, FS_Subset
        <3> HIDE DEF P, Q
        <3>2. Cardinality(P \cup Q) <= N
            BY <3>1, TargetIsFinite, FS_Subset
        <3>3. Cardinality(P \cup Q) = Cardinality(P) + Cardinality(Q) - 0
            BY <3>1, FS_Union, FS_EmptySet
        <3>4. Cardinality(P) \in Nat /\ Cardinality(Q) \in Nat
            BY <3>1, FS_CardinalityType
        <3> QED
            BY <3>2, <3>3, <3>4
    <2> HIDE DEF P, Q
    <2> QED
        BY <1>1, <2>2, <2>3 DEF RecoveredIsOwed, CreditsOf
<1>2. CASE ~ executed
    <2>1. \A t \in Target : verdict[t] = "PENDING"
        BY <1>2 DEF CaseInv, ExecutedOnceApproved
    <2>2. report.recovered = 0 /\ report.paid = 0 /\ report.undecided = 0
        BY <1>2 DEF ReportInv, Ledger!Blank
    <2> QED
        BY <1>2, <2>1, <2>2, NothingCredited DEF RecoveredIsOwed, CreditsOf
<1> QED
    BY <1>1, <1>2

\* The published money is the money of the targets confirmed paid, whatever
\* counts are simulated and however often: nothing is credited twice, and no
\* publication is refused.
THEOREM RecoveryCorrect == Spec => []RecoveredIsOwed
<1>1. Init => CaseInv /\ ReportInv
    BY CaseInit, ReportInit
<1>2. CaseInv /\ ReportInv /\ [Next]_vars => CaseInv' /\ ReportInv'
    BY CaseNext, ReportNext
<1> QED
    BY <1>1, <1>2, ReportMeaning, PTL DEF Spec

-----------------------------------------------------------------------------
(***************************************************************************)
(* Refinement of TreatmentGate.                                            *)
(***************************************************************************)
\* The gate's last three variables, as the endpoints keep them.
InTime  == ~ (Started /\ Expired)
Treated == {t \in Target : link[t] # "absent"}
Settled == {t \in Target : verdict[t] # "PENDING"}

LEMMA GateInit == Init => Gate!Init
BY DEF Init, Gate!Init, Started

\* A step that leaves the decision, the links and the verdicts alone, and does not
\* run out of time, is a stutter of the gate.
LEMMA GateStutter ==
    ASSUME approval' = approval, InTime' = InTime, Treated' = Treated, Settled' = Settled
    PROVE  UNCHANGED Gate!vars
BY DEF Gate!vars, InTime, Treated, Settled

LEMMA GateUntouched ==
    ASSUME UNCHANGED <<now, approval, expiresAt, link, verdict>>
    PROVE  UNCHANGED Gate!vars
BY DEF Gate!vars, Started, Expired

\* The clock may close the decision window of an open request.
LEMMA GateTick ==
    ASSUME TypeOK, Tick
    PROVE  Gate!Lapse \/ UNCHANGED Gate!vars
<1>1. /\ now \in Nat /\ expiresAt \in Nat /\ now' = now + 1
      /\ UNCHANGED <<approval, expiresAt, link, verdict>>
    BY DEF TypeOK, Tick, request, outcome
<1>2. Treated' = Treated /\ Settled' = Settled /\ Started' = Started
    BY <1>1 DEF Treated, Settled, Started
<1>3. CASE InTime /\ ~ InTime'
    BY <1>1, <1>2, <1>3 DEF Gate!Lapse, InTime, Treated, Settled, Started
<1>4. CASE InTime' = InTime
    BY <1>1, <1>2, <1>4, GateStutter
<1>5. ~ InTime => ~ InTime'
    BY <1>1 DEF InTime, Started, Expired
<1> QED
    BY <1>3, <1>4, <1>5 DEF InTime

LEMMA GateStart ==
    ASSUME CaseInv, Start
    PROVE  Gate!Ask
<1>1. /\ approval = "none" /\ approval' = "PENDING"
      /\ now' = now /\ now \in Nat /\ expiresAt' = now + TTL /\ TTL \in Nat
      /\ UNCHANGED <<link, verdict>>
    BY ClockAssumption DEF Start, Started, outcome, CaseInv, TypeOK
<1>2. InTime /\ InTime'
    BY <1>1 DEF InTime, Started, Expired
<1> QED
    BY <1>1, <1>2 DEF Gate!Ask, InTime

LEMMA GateDecide ==
    ASSUME Approve \/ ApproveTooLate \/ Reject
    PROVE  Gate!Grant \/ Gate!Refuse
<1>1. /\ approval = "PENDING" /\ Started /\ Started'
      /\ UNCHANGED <<now, expiresAt, link, verdict>>
    BY DEF Approve, ApproveTooLate, Reject, Decide, outcome, Started
<1>2. InTime' = InTime
    BY <1>1 DEF InTime, Expired
<1>3. CASE Approve
    BY <1>1, <1>2, <1>3 DEF Approve, Decide, Gate!Grant, InTime
<1>4. CASE ApproveTooLate
    BY <1>1, <1>2, <1>4 DEF ApproveTooLate, Gate!Refuse, InTime
<1>5. CASE Reject
    BY <1>1, <1>2, <1>5 DEF Reject, Decide, Gate!Refuse, InTime
<1> QED
    BY <1>3, <1>4, <1>5

LEMMA GateExecute ==
    ASSUME CaseInv, Execute
    PROVE  Gate!Treat
<1>1. /\ approval = "APPROVED" /\ ~ executed /\ ~ Expired
      /\ link' = [t \in Target |-> "CREATED"]
      /\ UNCHANGED <<now, approval, expiresAt, verdict>>
    BY ExecuteEffect DEF request
<1>2. Treated = {} /\ Treated' = Target
    BY <1>1 DEF Treated, CaseInv, ExecutedOnceApproved
<1> QED
    BY <1>1, <1>2 DEF Gate!Treat, Treated, Started, Expired

LEMMA GateSimulate ==
    ASSUME CaseInv, NEW c, Simulate(c)
    PROVE  \E S \in SUBSET Target : Gate!Settle(S)
<1>0. PICK S \in SUBSET Target :
          S = {t \in Target : verdict[t] = "PENDING" /\ verdict'[t] # "PENDING"}
    OBVIOUS
<1>1. /\ executed /\ executed'
      /\ \A t \in Target : verdict[t] # "PENDING" => verdict'[t] = verdict[t]
      /\ UNCHANGED <<now, approval, expiresAt>>
    BY SimulateEffect DEF CaseInv, request
<1>2. CaseInv'
    BY CaseSimulate
<1>3. Treated = Target /\ Treated' = Target
    BY <1>1, <1>2 DEF Treated, CaseInv, ExecutedOnceApproved
<1>4. S \subseteq Treated \ Settled
    BY <1>0, <1>3 DEF Settled
<1>5. Settled' = Settled \cup S
    BY <1>0, <1>1 DEF Settled
<1>6. Gate!Settle(S)
    <2>1. InTime' = InTime
        BY <1>1 DEF InTime, Started, Expired
    <2> QED
        BY <1>1, <1>3, <1>4, <1>5, <2>1 DEF Gate!Settle, InTime, Treated, Settled
<1> QED
    BY <1>6

LEMMA GateNext == CaseInv /\ [Next]_vars => [Gate!Next]_(Gate!vars)
<1> SUFFICES ASSUME CaseInv, [Next]_vars PROVE Gate!Next \/ UNCHANGED Gate!vars
    OBVIOUS
<1>1. CASE Tick
    BY <1>1, GateTick DEF Gate!Next, CaseInv
<1>2. CASE Start
    BY <1>2, GateStart DEF Gate!Next
<1>3. CASE \/ Get
           \/ \E r \in {"approve", "reject"} : DecideAgain(r)
           \/ ExecuteRefused
           \/ SimulateRefused
    BY <1>3, RefusedRequests, GateUntouched DEF Refused, request, outcome
<1>4. CASE Approve \/ ApproveTooLate \/ Reject
    BY <1>4, GateDecide DEF Gate!Next
<1>5. CASE Execute
    BY <1>5, GateExecute DEF Gate!Next
<1>6. CASE \E c \in Counts : Simulate(c)
    BY <1>6, GateSimulate DEF Gate!Next
<1>7. CASE UNCHANGED vars
    BY <1>7, GateUntouched DEF vars, request, outcome
<1> QED
    BY <1>1, <1>2, <1>3, <1>4, <1>5, <1>6, <1>7 DEF Next

\* The endpoints keep the promise made to the human: no link without a decision in
\* time, one decision, one treatment, whatever the requests and their order.
THEOREM GateRefinement == Spec => ImplementsGate
<1>1. Init => Gate!Init
    BY GateInit
<1>2. CaseInv /\ [Next]_vars => [Gate!Next]_(Gate!vars)
    BY GateNext
<1> QED
    BY <1>1, <1>2, CaseInvariance, PTL DEF Spec, Gate!Spec, ImplementsGate

-----------------------------------------------------------------------------
(***************************************************************************)
(* The console. Whatever it does to its case is a request of the case, or  *)
(* a simulation with the default count.                                    *)
(***************************************************************************)
CaseMoves == Next \/ Simulate(None) \/ UNCHANGED vars

LEMMA ConsoleMoves == [ConsoleNext]_allVars => CaseMoves
<1> SUFFICES ASSUME [ConsoleNext]_allVars PROVE CaseMoves
    OBVIOUS
<1>1. CASE Served
    BY <1>1 DEF Served, Serve, CaseMoves, Next
<1>2. CASE Load \/ Tick
    BY <1>2 DEF Load, CaseMoves, Next
<1>3. CASE (\E b \in Button : Click(b)) \/ Lose \/ Continue \/ Show \/ Fail
    BY <1>3 DEF Click, Lose, Continue, Show, Fail, CaseMoves
<1>4. CASE UNCHANGED allVars
    BY <1>4 DEF allVars, CaseMoves
<1> QED
    BY <1>1, <1>2, <1>3, <1>4 DEF ConsoleNext

LEMMA CaseKept ==
    ASSUME CaseInv, ReportInv, CaseMoves
    PROVE  CaseInv' /\ ReportInv'
<1>1. CASE Next \/ UNCHANGED vars
    BY <1>1, CaseNext, ReportNext
<1>2. CASE Simulate(None)
    BY <1>2, CaseSimulate, ReportSimulate
<1> QED
    BY <1>1, <1>2 DEF CaseMoves

(***************************************************************************)
(* What a screen may say of the case and go on being right about.          *)
(***************************************************************************)
Final(v) == Ledger!StatusOf(v) \in {"RECOVERED", "NO_RECOVERY"}

LEMMA FinalStays ==
    ASSUME NEW v \in [Target -> Verdict], NEW w \in [Target -> Verdict],
           \A t \in Target : v[t] # "PENDING" => w[t] = v[t], Final(v)
    PROVE  Final(w)
<1>1. \/ \A t \in Target : v[t] = "PAID"
      \/ \A t \in Target : v[t] = "EXPIRED"
    BY DEF Final, Ledger!StatusOf, Verdict
<1>2. w = v
    BY <1>1
<1> QED
    BY <1>2

LEMMA FinalizedMeaning ==
    ASSUME ReportInv, executed \in BOOLEAN
    PROVE  View.finalized <=> executed /\ Final(verdict)
BY DEF ReportInv, View, Final, Ledger!ReportOf, Ledger!Blank

LEMMA CaseOnlyAdvances ==
    ASSUME CaseInv, ReportInv, CaseMoves
    PROVE  /\ approval \notin {"none", "PENDING"} => approval' = approval
           /\ approval # "none" => approval' # "none"
           /\ executed => executed'
           /\ View.finalized => View.finalized'
<1>1. CASE UNCHANGED <<approval, executed, report>>
    BY <1>1 DEF View
<1>2. CASE Tick \/ UNCHANGED vars
    BY <1>1, <1>2 DEF Tick, vars, request, outcome
<1>3. CASE \/ Get
           \/ \E r \in {"approve", "reject"} : DecideAgain(r)
           \/ ExecuteRefused
           \/ SimulateRefused
    BY <1>1, <1>3, RefusedRequests DEF Refused, request, outcome
<1>4. CASE Start \/ Approve \/ ApproveTooLate \/ Reject
    BY <1>4 DEF Start, Approve, ApproveTooLate, Reject, Decide, Started, outcome, View
<1>5. CASE Execute
    <2>1. ~ executed /\ approval' = approval /\ executed' = TRUE
        BY <1>5, ExecuteEffect DEF request
    <2>2. ~ View.finalized
        BY <2>1, FinalizedMeaning DEF CaseInv, TypeOK
    <2> QED
        BY <2>1, <2>2
<1>6. ASSUME NEW c, Simulate(c)
      PROVE  /\ approval' = approval /\ executed' = executed
             /\ View.finalized => View.finalized'
    <2>1. /\ executed /\ executed' = executed /\ approval' = approval
          /\ verdict' \in [Target -> Verdict]
          /\ \A t \in Target : verdict[t] # "PENDING" => verdict'[t] = verdict[t]
        BY <1>6, SimulateEffect DEF CaseInv, request
    <2>2. ReportInv'
        BY <1>6, ReportSimulate
    <2>3. verdict \in [Target -> Verdict] /\ executed \in BOOLEAN
        BY DEF CaseInv, TypeOK
    <2>4. Final(verdict) => Final(verdict')
        BY <2>1, <2>3, FinalStays
    <2>5. View.finalized <=> Final(verdict)
        BY <2>1, <2>3, FinalizedMeaning
    <2>6. View.finalized' <=> Final(verdict')
        BY <2>1, <2>2 DEF ReportInv, View, Final, Ledger!ReportOf, Ledger!Blank
    <2> QED
        BY <2>1, <2>4, <2>5, <2>6
<1> QED
    BY <1>2, <1>3, <1>4, <1>5, <1>6 DEF CaseMoves, Next

(***************************************************************************)
(* The inductive invariant of the console.                                 *)
(***************************************************************************)
FullDemo == <<"approve", "execute", "simulate">>
DemoRest == <<"execute", "simulate">>

\* A task is one request, or what is left of the full demo; it was started from
\* a screen that offered it, and that screen has not changed since.
TaskFitsScreen ==
    IF loading
    THEN /\ shown # Nothing
         /\ calls \in {<<b>> : b \in {"approve", "reject", "execute", "simulate"}}
                         \cup {FullDemo, DemoRest}
         /\ calls = <<"execute">> => shown.approval = "APPROVED"
         /\ calls \in {FullDemo, DemoRest} => shown.approval = "PENDING"
    ELSE calls = <<>> /\ wire = "idle"

\* What has been shown was shown of a case that had been started.
ShownIsStarted == shown # Nothing => Started /\ shown.approval # "none"

ConsoleInv ==
    /\ CaseInv /\ ReportInv
    /\ loading \in BOOLEAN
    /\ TaskFitsScreen /\ ShownIsStarted /\ ShownIsConfirmed /\ SuccessIsCurrent

LEMMA ConsoleInvInit == ConsoleInit => ConsoleInv
<1>1. ConsoleInit => CaseInv /\ ReportInv
    BY CaseInit, ReportInit DEF ConsoleInit
<1> QED
    BY <1>1 DEF ConsoleInit, ConsoleInv, TaskFitsScreen, ShownIsStarted, ShownIsConfirmed,
                SuccessIsCurrent

\* A screen that does not change stays right.
LEMMA ScreenKept ==
    ASSUME ConsoleInv, CaseMoves, shown' = shown
    PROVE  ShownIsStarted' /\ ShownIsConfirmed'
<1>1. /\ approval \notin {"none", "PENDING"} => approval' = approval
      /\ approval # "none" => approval' # "none"
      /\ executed => executed'
      /\ View.finalized => View.finalized'
    BY CaseOnlyAdvances DEF ConsoleInv
<1>2. ShownIsStarted'
    BY <1>1 DEF ConsoleInv, ShownIsStarted, Started
<1>3. ShownIsConfirmed'
    BY <1>1 DEF ConsoleInv, ShownIsStarted, ShownIsConfirmed, Nothing
<1> QED
    BY <1>2, <1>3

LEMMA ConsoleInvNext == ConsoleInv /\ [ConsoleNext]_allVars => ConsoleInv'
<1> SUFFICES ASSUME ConsoleInv, [ConsoleNext]_allVars PROVE ConsoleInv'
    OBVIOUS
<1>1. CaseMoves /\ CaseInv' /\ ReportInv'
    BY ConsoleMoves, CaseKept DEF ConsoleInv
<1>2. CASE (Tick /\ UNCHANGED console) \/ UNCHANGED allVars
    <2>1. View' = View /\ UNCHANGED <<shown, loading, calls, wire, problem>>
        BY <1>2 DEF Tick, allVars, vars, console, task, request, outcome, View
    <2>2. TaskFitsScreen'
        BY <2>1 DEF ConsoleInv, TaskFitsScreen
    <2>3. SuccessIsCurrent'
        BY <2>1 DEF ConsoleInv, SuccessIsCurrent
    <2> QED
        BY <1>1, <2>1, <2>2, <2>3, ScreenKept DEF ConsoleInv
<1>3. CASE Load
    <2>1. /\ shown = Nothing /\ shown' = View' /\ approval' = "PENDING"
          /\ UNCHANGED <<loading, calls, wire, problem>>
        BY <1>3 DEF Load, Start, task
    <2>2. ~ loading /\ TaskFitsScreen'
        BY <2>1 DEF ConsoleInv, TaskFitsScreen
    <2>3. ShownIsStarted' /\ ShownIsConfirmed' /\ SuccessIsCurrent'
        BY <2>1 DEF ShownIsStarted, ShownIsConfirmed, SuccessIsCurrent, View, Started
    <2> QED
        BY <1>1, <2>1, <2>2, <2>3 DEF ConsoleInv
<1>4. ASSUME NEW b \in Button, Click(b) PROVE ConsoleInv'
    <2>1. /\ shown # Nothing /\ loading' = TRUE /\ shown' = shown /\ Offered(b)
          /\ calls' = IF b = "fullDemo" THEN FullDemo ELSE <<b>>
        BY <1>4 DEF Click, FullDemo
    <2>2. TaskFitsScreen'
        BY <2>1 DEF TaskFitsScreen, Offered, Button, FullDemo, DemoRest
    <2> QED
        BY <1>1, <2>1, <2>2, ScreenKept DEF ConsoleInv, SuccessIsCurrent
<1>5. CASE Served \/ Lose
    <2>1. loading /\ UNCHANGED <<shown, loading, calls>>
        BY <1>5 DEF Served, Lose
    <2>2. TaskFitsScreen'
        BY <2>1 DEF ConsoleInv, TaskFitsScreen
    <2> QED
        BY <1>1, <2>1, <2>2, ScreenKept DEF ConsoleInv, SuccessIsCurrent
<1>6. CASE Continue
    <2>1. /\ Len(calls) > 1 /\ calls' = Tail(calls) /\ UNCHANGED <<shown, loading>>
          /\ wire # "idle"
        BY <1>6 DEF Continue
    <2>2. loading
        BY <2>1 DEF ConsoleInv, TaskFitsScreen
    <2>3. \/ calls = FullDemo /\ calls' = DemoRest
          \/ calls = DemoRest /\ calls' = <<"simulate">>
        <3>1. \A b : Len(<<b>>) = 1
            OBVIOUS
        <3>2. calls \in {FullDemo, DemoRest}
            BY <2>1, <2>2, <3>1 DEF ConsoleInv, TaskFitsScreen
        <3>3. Tail(FullDemo) = DemoRest /\ Tail(DemoRest) = <<"simulate">>
            BY DEF FullDemo, DemoRest
        <3> QED
            BY <2>1, <3>2, <3>3
    <2>4. TaskFitsScreen'
        BY <2>1, <2>2, <2>3 DEF ConsoleInv, TaskFitsScreen, FullDemo, DemoRest
    <2> QED
        BY <1>1, <2>1, <2>2, <2>4, ScreenKept DEF ConsoleInv, SuccessIsCurrent
<1>7. CASE Show
    <2>1. /\ shown' = View /\ View' = View /\ approval' = approval /\ executed' = executed
          /\ loading' = FALSE /\ calls' = <<>> /\ wire' = "idle" /\ wire # "idle"
        BY <1>7 DEF Show, vars, request, outcome, View
    <2>2. Started
        BY <2>1 DEF ConsoleInv, TaskFitsScreen, ShownIsStarted
    <2>3. TaskFitsScreen' /\ SuccessIsCurrent'
        BY <2>1 DEF TaskFitsScreen, SuccessIsCurrent
    <2>4. ShownIsStarted' /\ ShownIsConfirmed'
        BY <2>1, <2>2 DEF ShownIsStarted, ShownIsConfirmed, View, Started
    <2> QED
        BY <1>1, <2>1, <2>3, <2>4 DEF ConsoleInv
<1>8. CASE Fail
    <2>1. /\ shown' = shown /\ loading' = FALSE /\ calls' = <<>> /\ wire' = "idle"
          /\ problem' = TRUE
        BY <1>8 DEF Fail
    <2> QED
        BY <1>1, <2>1, ScreenKept DEF ConsoleInv, TaskFitsScreen, SuccessIsCurrent
<1> QED
    BY <1>2, <1>3, <1>4, <1>5, <1>6, <1>7, <1>8 DEF ConsoleNext

THEOREM ConsoleInvariance == ConsoleSpec => []ConsoleInv
BY ConsoleInvInit, ConsoleInvNext, PTL DEF ConsoleSpec

\* The page claims nothing of the case that the backend has not confirmed.
THEOREM ShownCorrect == ConsoleSpec => []ShownIsConfirmed
<1>1. ConsoleInv => ShownIsConfirmed
    BY DEF ConsoleInv
<1> QED
    BY <1>1, ConsoleInvariance, PTL

\* An idle page whose last task succeeded is up to date.
THEOREM SuccessCorrect == ConsoleSpec => []SuccessIsCurrent
<1>1. ConsoleInv => SuccessIsCurrent
    BY DEF ConsoleInv
<1> QED
    BY <1>1, ConsoleInvariance, PTL

\* Nothing is executed but what the operator asked for.
THEOREM ExecutionCorrect == ConsoleSpec => ExecutionWasIntended
<1> DEFINE Intended == executed' # executed =>
                          \/ shown.approval = "APPROVED"
                          \/ Len(calls) = 2 /\ shown.approval = "PENDING"
<1>1. ConsoleInv /\ [ConsoleNext]_allVars => [Intended]_allVars
    <2> SUFFICES ASSUME ConsoleInv, ConsoleNext, executed' # executed
                 PROVE  \/ shown.approval = "APPROVED"
                        \/ Len(calls) = 2 /\ shown.approval = "PENDING"
        OBVIOUS
    <2>1. CASE Served
        <3>1. loading /\ Head(calls) = "execute"
            BY <2>1, SimulateEffect, RefuseEffect
               DEF Served, Serve, Approve, ApproveTooLate, Reject, Decide, DecideAgain,
                   SimulateRefused, ConsoleInv, CaseInv
        <3>2. calls \in {<<"execute">>, DemoRest}
            BY <3>1 DEF ConsoleInv, TaskFitsScreen, FullDemo, DemoRest
        <3> QED
            BY <3>1, <3>2 DEF ConsoleInv, TaskFitsScreen, DemoRest
    <2>2. CASE ~ Served
        BY <2>2 DEF ConsoleNext, Tick, Load, Start, Click, Lose, Continue, Show, Fail, vars
    <2> QED
        BY <2>1, <2>2
<1> QED
    BY <1>1, ConsoleInvariance, PTL DEF ConsoleSpec, ExecutionWasIntended

(***************************************************************************)
(* The console sends the default count and no other, so the targets that   *)
(* are paid and the one that is cancelled are the same every time.         *)
(***************************************************************************)
DefaultOnly ==
    /\ LinksAgreeWithVerdicts
    /\ \A t \in Target : /\ verdict[t] = "PAID"    => t \in Paid(None)
                         /\ verdict[t] = "EXPIRED" => t \in Cancelled(None)

LEMMA DefaultsApart == \A t \in Target : ~ (t \in Paid(None) /\ t \in Cancelled(None))
<1>1. SevenTenths \in Int
    BY PlanAssumption DEF SevenTenths
<1>2. Max({1, SevenTenths}) \in Int
    BY <1>1 DEF Max
<1>3. RecoveredCount(None) \in Int
  <2> DEFINE w == Max({1, SevenTenths})
  <2>1. RecoveredCount(None) = Min({w, N})
      BY DEF RecoveredCount
  <2> HIDE DEF w
  <2>2. w \in Int /\ N \in Int
      BY <1>2, PlanAssumption DEF w
  <2>3. Min({w, N}) \in Int
      BY <2>2 DEF Min
  <2> QED
      BY <2>1, <2>3
<1> QED
    BY <1>3 DEF Paid, Cancelled, Target

LEMMA DefaultSimulate ==
    ASSUME CaseInv, DefaultOnly, Simulate(None)
    PROVE  DefaultOnly'
<1>1. \A t \in Target :
         /\ link'[t] = IF t \in Paid(None) THEN "PAID"
                       ELSE IF t \in Cancelled(None) THEN "CANCELLED" ELSE link[t]
         /\ verdict'[t] = IF verdict[t] # "PENDING" THEN verdict[t]
                          ELSE IF t \in Paid(None) THEN "PAID"
                          ELSE IF t \in Cancelled(None) THEN "EXPIRED" ELSE "PENDING"
    BY DEF Simulate, MarkLinks, Settle
<1>2. \A t \in Target : verdict[t] \in Verdict
    BY DEF CaseInv, TypeOK
<1> SUFFICES ASSUME NEW t \in Target
             PROVE  /\ link'[t] = "PAID" <=> verdict'[t] = "PAID"
                    /\ link'[t] = "CANCELLED" <=> verdict'[t] = "EXPIRED"
                    /\ verdict'[t] = "PAID" => t \in Paid(None)
                    /\ verdict'[t] = "EXPIRED" => t \in Cancelled(None)
    BY DEF DefaultOnly, LinksAgreeWithVerdicts, Paid, Cancelled
<1> QED
    BY <1>1, <1>2, DefaultsApart DEF DefaultOnly, LinksAgreeWithVerdicts, Verdict

LEMMA DefaultNext ==
    ASSUME CaseInv, DefaultOnly, [ConsoleNext]_allVars
    PROVE  DefaultOnly'
<1>1. ASSUME UNCHANGED <<link, verdict>> PROVE DefaultOnly'
    BY <1>1 DEF DefaultOnly, LinksAgreeWithVerdicts, Paid, Cancelled
<1>2. CASE UNCHANGED vars
    BY <1>1, <1>2 DEF vars, outcome
<1>3. CASE Tick
    BY <1>1, <1>3 DEF Tick, outcome
<1>4. CASE Load
    BY <1>1, <1>4 DEF Load, Start, outcome
<1>5. CASE Served
    <2>1. CASE Approve \/ ApproveTooLate \/ Reject
        BY <1>1, <2>1 DEF Approve, ApproveTooLate, Reject, Decide, outcome
    <2>2. CASE (\E r \in {"approve", "reject"} : DecideAgain(r)) \/ ExecuteRefused
               \/ SimulateRefused
        BY <1>1, <2>2, RefusedRequests DEF Refused, outcome
    <2>3. CASE Execute
        <3>1. /\ \A t \in Target : link'[t] = "CREATED"
              /\ verdict' = verdict /\ ~ executed
            BY <2>3, ExecuteEffect
        <3>2. \A t \in Target : verdict[t] = "PENDING"
            BY <3>1 DEF CaseInv, ExecutedOnceApproved
        <3> QED
            BY <3>1, <3>2 DEF DefaultOnly, LinksAgreeWithVerdicts
    <2>4. CASE Simulate(None)
        BY <2>4, DefaultSimulate
    <2> QED
        BY <1>5, <2>1, <2>2, <2>3, <2>4 DEF Served, Serve
<1> QED
    BY <1>2, <1>3, <1>4, <1>5 DEF ConsoleNext, Click, Lose, Continue, Show, Fail, allVars

\* As long as the console alone drives the case, the links at the provider and
\* the verdicts of the outcome layer agree.
THEOREM LinksCorrect == ConsoleSpec => []LinksAgreeWithVerdicts
<1>1. ConsoleInit => DefaultOnly
    BY DEF ConsoleInit, Init, DefaultOnly, LinksAgreeWithVerdicts
<1>2. ConsoleInv /\ DefaultOnly /\ [ConsoleNext]_allVars => DefaultOnly'
    BY DefaultNext DEF ConsoleInv
<1>3. DefaultOnly => LinksAgreeWithVerdicts
    BY DEF DefaultOnly
<1> QED
    BY <1>1, <1>2, <1>3, ConsoleInvariance, PTL DEF ConsoleSpec
=============================================================================
