-------------------------- MODULE CaseIntakeProofs --------------------------
(***************************************************************************)
(* Theorems about CaseIntake, for every number of posts and repairs, every *)
(* content, every limit of the planner and every number of requests: what  *)
(* a model call costs, what the record of an investigation and its         *)
(* findings say, and what is planned and stored from a diagnosis.          *)
(*                                                                         *)
(* The invariant is carried through three layers: the call in flight, the  *)
(* pipeline that makes it, and the requests that run the pipeline.         *)
(***************************************************************************)
EXTENDS CaseIntake, TLAPS

USE BudgetAssumption, ContentAssumption, FindingAssumption, DiagnosisAssumption, PlanAssumption
    DEF BudgetAssumption, ContentAssumption, FindingAssumption, DiagnosisAssumption,
        PlanAssumption

LEMMA Turns == LastTurn = 4 /\ M3 = 5 /\ Turn = 1 .. 4
BY DEF LastTurn, Workers, M3, Turn

-----------------------------------------------------------------------------
(***************************************************************************)
(* The call in flight.                                                     *)
(***************************************************************************)
CallInv == CallTypeOK /\ PostsAccounted /\ CallIsBounded

LEMMA FreshCall ==
    ASSUME live \in BOOLEAN, live' = live, call' \in {Idle, Asking}
    PROVE  CallInv'
<1>1. Idle \in CallType /\ Asking \in CallType
    BY DEF Idle, Asking, CallType, Stage
<1>2. /\ Idle.stage = "idle" /\ Idle.posts = 0 /\ Idle.content = NoContent
      /\ Asking.stage = "asking" /\ Asking.posts = 0 /\ Asking.tried = 0
      /\ Asking.repaired = 0 /\ Asking.content = NoContent
    BY DEF Idle, Asking
<1> QED
    BY <1>1, <1>2 DEF CallInv, CallTypeOK, PostsAccounted, CallIsBounded

\* The stages of a call are left with what they have posted.
LEMMA GatewayKeeps ==
    ASSUME CallInv, live' = live, NEW c \in Content, Gateway(c)
    PROVE  CallInv'
<1>1. /\ call \in CallType /\ live \in BOOLEAN
      /\ call.tried \in Nat /\ call.repaired \in Nat /\ call.posts \in Nat
    BY DEF CallInv, CallTypeOK, CallType
<1>2. CASE StubAnswers(c)
    BY <1>1, <1>2 DEF StubAnswers, CallInv, CallTypeOK, CallType, Stage, PostsAccounted,
        CallIsBounded
<1>3. ASSUME live, NEW stage \in Stage \ {"idle"}, NEW content \in Content \cup {NoContent},
             NEW tried \in 0 .. MaxPosts, NEW repaired \in 0 .. MaxRepairs,
             call' = [call EXCEPT !.stage = stage, !.tried = tried, !.repaired = repaired,
                                  !.posts = @ + 1, !.content = content],
             stage = "answered" <=> content # NoContent,
             stage \in {"asking", "backing_off"} =>
                 call.posts + 1 = tried /\ tried < MaxPosts /\ repaired = 0,
             stage = "repairing" => /\ call.posts = tried + repaired /\ tried < MaxPosts
                                    /\ repaired < MaxRepairs,
             call.posts + 1 <= MaxPosts + MaxRepairs
      PROVE  CallInv'
  <2>1. /\ call'.stage = stage /\ call'.tried = tried /\ call'.repaired = repaired
        /\ call'.posts = call.posts + 1 /\ call'.content = content
      BY <1>1, <1>3 DEF CallType
  <2>2. CallTypeOK'
    <3>1. call.posts + 1 \in Nat /\ stage \in Stage
        BY <1>1, <1>3
    <3>2. call' \in CallType
        BY <1>1, <1>3, <3>1 DEF CallType
    <3> QED
        BY <1>1, <3>2 DEF CallTypeOK
  <2>3. (~ live)' => call'.posts = 0 /\ call'.stage \in {"idle", "asking", "answered"}
      BY <1>3
  <2>4. PostsAccounted'
      BY <1>3, <2>1, <2>3 DEF PostsAccounted
  <2>5. CallIsBounded'
      BY <1>3, <2>1 DEF CallIsBounded
  <2> QED
      BY <2>2, <2>4, <2>5 DEF CallInv
<1>4. CASE Throttled
  <2>1. /\ live /\ call.content = NoContent
        /\ call.posts = call.tried /\ call.tried < MaxPosts /\ call.repaired = 0
      BY <1>1, <1>4 DEF Throttled, CallInv, PostsAccounted
  <2> DEFINE stage == IF call.tried + 1 < MaxPosts THEN "backing_off" ELSE "raised"
  <2>2. call' = [call EXCEPT !.stage = stage, !.tried = call.tried + 1,
                             !.repaired = call.repaired, !.posts = @ + 1,
                             !.content = NoContent]
      BY <1>1, <1>4, <2>1 DEF Throttled, CallType
  <2>3. /\ call.tried + 1 \in 0 .. MaxPosts /\ call.repaired \in 0 .. MaxRepairs
        /\ call.posts + 1 <= MaxPosts + MaxRepairs
      BY <1>1, <2>1
  <2>4. /\ stage \in Stage \ {"idle"} /\ stage \notin {"answered", "asking", "repairing"}
        /\ stage = "backing_off" => call.posts + 1 = call.tried + 1 /\ call.tried + 1 < MaxPosts
      BY <2>1 DEF Stage
  <2> HIDE DEF stage
  <2> QED
      BY <1>3, <2>1, <2>2, <2>3, <2>4
<1>5. CASE BackOffOver
    BY <1>1, <1>5 DEF BackOffOver, CallInv, CallTypeOK, CallType, Stage, PostsAccounted,
        CallIsBounded
<1>6. ASSUME live, NEW stage \in {"raised", "answered", "repairing"},
             NEW content \in Content \cup {NoContent}, Posted(stage, content),
             stage = "answered" <=> content # NoContent,
             stage = "repairing" => call.stage = "asking",
             call.stage \in {"asking", "repairing"}
      PROVE  CallInv'
  <2>1. call' = [call EXCEPT !.stage = stage, !.tried = call.tried,
                             !.repaired = call.repaired, !.posts = @ + 1, !.content = content]
      BY <1>1, <1>6 DEF Posted, CallType
  <2>2. call.tried \in 0 .. MaxPosts /\ call.repaired \in 0 .. MaxRepairs
      BY <1>1 DEF CallType
  <2>3. call.stage = "asking" => /\ call.posts = call.tried + call.repaired
                                 /\ call.tried < MaxPosts /\ call.repaired < MaxRepairs
      BY <1>1 DEF CallInv, PostsAccounted
  <2>4. call.posts + 1 <= MaxPosts + MaxRepairs
      BY <1>1, <1>6 DEF CallInv, PostsAccounted
  <2>5. /\ stage \in Stage \ {"idle"} /\ stage \notin {"asking", "backing_off"}
        /\ stage = "repairing" => /\ call.posts = call.tried + call.repaired
                                  /\ call.tried < MaxPosts /\ call.repaired < MaxRepairs
      BY <1>6, <2>3 DEF Stage
  <2> QED
      BY <1>3, <1>6, <2>1, <2>2, <2>4, <2>5
<1>7. CASE Refused
    BY <1>6, <1>7 DEF Refused
<1>8. CASE AnswerInvalid
    BY <1>6, <1>8 DEF AnswerInvalid
<1>9. CASE AnswerValid(c)
    BY <1>6, <1>9 DEF AnswerValid
<1>10. CASE RepairInvalid
  <2>1. /\ live /\ call.content = NoContent
        /\ call.posts = call.tried + 1 + call.repaired
        /\ call.tried < MaxPosts /\ call.repaired < MaxRepairs
      BY <1>1, <1>10 DEF RepairInvalid, CallInv, PostsAccounted
  <2> DEFINE stage == IF call.repaired + 1 < MaxRepairs THEN "repairing" ELSE "raised"
  <2>2. call' = [call EXCEPT !.stage = stage, !.tried = call.tried,
                             !.repaired = call.repaired + 1, !.posts = @ + 1,
                             !.content = NoContent]
      BY <1>1, <1>10, <2>1 DEF RepairInvalid, CallType
  <2>3. /\ call.tried \in 0 .. MaxPosts /\ call.repaired + 1 \in 0 .. MaxRepairs
        /\ call.posts + 1 <= MaxPosts + MaxRepairs
      BY <1>1, <2>1
  <2>4. /\ stage \in Stage \ {"idle"} /\ stage \notin {"answered", "asking", "backing_off"}
        /\ stage = "repairing" => /\ call.posts = call.tried + (call.repaired + 1)
                                  /\ call.tried < MaxPosts
                                  /\ call.repaired + 1 < MaxRepairs
      BY <1>1, <2>1 DEF Stage
  <2> HIDE DEF stage
  <2> QED
      BY <1>3, <2>1, <2>2, <2>3, <2>4
<1> QED
    BY <1>2, <1>4, <1>5, <1>7, <1>8, <1>9, <1>10 DEF Gateway

-----------------------------------------------------------------------------
(***************************************************************************)
(* The pipeline.                                                           *)
(***************************************************************************)
\* How far the state has come in each pass of the workers; M3 is asked from the
\* second pass on.
PassTellsState ==
    /\ pass = 0 => state \in {"none", "FAILED"}
    /\ pass = 1 => state = "WORKERS_RUNNING" /\ record.detected
    /\ pass = 2 => state \in {"DIAGNOSIS_RUNNING", "DIAGNOSIS_COMPLETE", "FAILED"}
    /\ pass = 3 => state = "DIAGNOSIS_COMPLETE"
    /\ turn = M3 => pass \in {2, 3}

\* An answer is one that the schema of its turn admits.
AnswerFits == call.stage = "answered" => call.content \in Sayable

PipeInv ==
    /\ PipelineTypeOK
    /\ CallInv
    /\ FindingsAreFresh
    /\ OutcomeIsExplained
    /\ PassTellsState
    /\ AnswerFits

LEMMA FreshAnswer == call' \in {Idle, Asking} => AnswerFits'
BY DEF AnswerFits, Idle, Asking

LEMMA NothingFound ==
    /\ NoFinding \in [Turn -> {"none", "finding", "error"}]
    /\ \A i \in Turn : NoFinding[i] = "none" <=> i >= 1
BY Turns DEF NoFinding

\* A new pass of the workers begins.
LEMMA EnteringKeeps ==
    ASSUME PipelineTypeOK, EnterWorkers, live' = live
    PROVE  /\ CallInv' /\ AnswerFits' /\ FindingsAreFresh'
           /\ turn' = 1 /\ pass' = pass + 1
           /\ finding' \in [Turn -> {"none", "finding", "error"}]
           /\ given' \in [Turn -> {"none", "finding", "error"}]
<1>1. CallInv'
    BY FreshCall DEF EnterWorkers, PipelineTypeOK, CallTypeOK
<1>2. AnswerFits'
    BY FreshAnswer DEF EnterWorkers
<1>3. FindingsAreFresh'
    BY Turns, NothingFound DEF EnterWorkers, FindingsAreFresh
<1> QED
    BY <1>1, <1>2, <1>3, NothingFound DEF EnterWorkers

LEMMA GatewayKeepsPipe ==
    ASSUME PipeInv, NEW c \in Sayable, Gateway(c), UNCHANGED <<live, pipeline>>
    PROVE  PipeInv'
<1>1. c \in Content
    BY DEF Sayable, Diagnosis
<1>2. CallInv'
    BY <1>1, GatewayKeeps DEF PipeInv
<1>3. call \in CallType
    BY DEF PipeInv, CallInv, CallTypeOK
<1>4. call'.stage = "answered" => call'.content = c
    BY <1>3 DEF Gateway, StubAnswers, Throttled, BackOffOver, Refused, AnswerInvalid,
                AnswerValid, RepairInvalid, Posted, CallType
<1>5. AnswerFits'
    BY <1>4 DEF AnswerFits, Sayable, pipeline
<1>6. PipelineTypeOK' /\ FindingsAreFresh' /\ OutcomeIsExplained' /\ PassTellsState'
    BY <1>2 DEF PipeInv, CallInv, pipeline, PipelineTypeOK, FindingsAreFresh,
                OutcomeIsExplained, PassTellsState
<1> QED
    BY <1>2, <1>5, <1>6 DEF PipeInv

\* What run_all_workers keeps of a worker that has returned.
LEMMA RecordingKeeps ==
    ASSUME PipeInv, turn < M3, RecordFinding
    PROVE  /\ finding' \in [Turn -> {"none", "finding", "error"}]
           /\ \A i \in Turn : finding'[i] = "none" <=> i >= turn + 1
<1>1. turn \in Turn /\ finding \in [Turn -> {"none", "finding", "error"}]
    BY Turns DEF PipeInv, PipelineTypeOK
<1>2. Heard \in {"finding", "error"}
    BY DEF Heard
<1>3. \A i \in Turn : finding[i] = "none" <=> i >= turn
    BY DEF PipeInv, FindingsAreFresh
<1> QED
    BY <1>1, <1>2, <1>3, Turns DEF RecordFinding

LEMMA PipelineKeeps == ASSUME PipeInv, Pipeline PROVE PipeInv'
<1>1. /\ live \in BOOLEAN /\ call \in CallType /\ turn \in 1 .. 5 /\ pass \in 0 .. 3
      /\ state \in State
      /\ record \in [detected : BOOLEAN, outputs : BOOLEAN, evidence : BOOLEAN,
                     diagnosis : Diagnosis \cup {NoContent}, completed : BOOLEAN,
                     error : BOOLEAN]
    BY Turns DEF PipeInv, PipelineTypeOK, CallTypeOK
<1>2. CASE WorkerReturns
  <2>1. turn < M3 /\ turn + 1 \in 1 .. 4
      BY <1>1, <1>2, Turns DEF WorkerReturns
  <2>2. /\ UNCHANGED <<live, state, record, pass, given>>
        /\ turn' = turn + 1 /\ call' = Asking /\ RecordFinding
      BY <1>2 DEF WorkerReturns
  <2>3. CallInv' /\ AnswerFits'
      BY <1>1, <2>2, FreshCall, FreshAnswer
  <2>4. PipelineTypeOK' /\ FindingsAreFresh'
      BY <2>1, <2>2, <2>3, RecordingKeeps, Turns
         DEF PipeInv, PipelineTypeOK, CallInv, FindingsAreFresh
  <2>5. OutcomeIsExplained' /\ PassTellsState'
      BY <2>1, <2>2, Turns DEF PipeInv, OutcomeIsExplained, PassTellsState
  <2> QED
      BY <2>3, <2>4, <2>5 DEF PipeInv
<1>3. CASE AssembleEvidence
  <2>1. /\ state' = "DIAGNOSIS_RUNNING" /\ pass = 1 /\ EnterWorkers /\ live' = live
        /\ record' = [record EXCEPT !.outputs = TRUE, !.evidence = TRUE]
      BY <1>3 DEF AssembleEvidence
  <2>2. /\ state = "WORKERS_RUNNING" /\ record.detected
        /\ ~ record.error /\ ~ record.completed /\ record.diagnosis = NoContent
      BY <2>1 DEF PipeInv, PassTellsState, OutcomeIsExplained
  <2>3. /\ CallInv' /\ AnswerFits' /\ FindingsAreFresh'
        /\ turn' = 1 /\ pass' = 2
        /\ finding' \in [Turn -> {"none", "finding", "error"}]
        /\ given' \in [Turn -> {"none", "finding", "error"}]
      BY <2>1, EnteringKeeps DEF PipeInv
  <2>4. PipelineTypeOK'
    <3>1. /\ record' \in [detected : BOOLEAN, outputs : BOOLEAN, evidence : BOOLEAN,
                          diagnosis : Diagnosis \cup {NoContent}, completed : BOOLEAN,
                          error : BOOLEAN]
        BY <1>1, <2>1
    <3> QED
        BY <2>1, <2>3, <3>1, Turns DEF PipelineTypeOK, CallInv, State
  <2>5. PassTellsState'
      BY <2>1, <2>3, Turns DEF PassTellsState
  <2>6. OutcomeIsExplained'
      BY <1>1, <2>1, <2>2 DEF PipeInv, OutcomeIsExplained
  <2> QED
      BY <2>3, <2>4, <2>5, <2>6 DEF PipeInv
<1>4. CASE AskForDiagnosis
  <2>1. /\ turn = 4 /\ pass \in {2, 3} /\ RecordFinding
        /\ given' = finding' /\ turn' = M3 /\ call' = Asking
        /\ UNCHANGED <<live, state, record, pass>>
      BY <1>1, <1>4, Turns DEF AskForDiagnosis
  <2>2. CallInv' /\ AnswerFits'
      BY <1>1, <2>1, FreshCall, FreshAnswer
  <2>3. PipelineTypeOK' /\ FindingsAreFresh'
      BY <2>1, <2>2, RecordingKeeps, Turns
         DEF PipeInv, PipelineTypeOK, CallInv, FindingsAreFresh
  <2>4. OutcomeIsExplained' /\ PassTellsState'
      BY <2>1, Turns DEF PipeInv, OutcomeIsExplained, PassTellsState
  <2> QED
      BY <2>2, <2>3, <2>4 DEF PipeInv
<1>5. CASE Diagnose
  <2>1. /\ call.stage = "answered" /\ turn = M3 /\ state = "DIAGNOSIS_RUNNING"
        /\ state' = "DIAGNOSIS_COMPLETE"
        /\ record' = [record EXCEPT !.diagnosis = call.content, !.completed = TRUE]
        /\ UNCHANGED <<live, call, pass, turn, finding, given>>
      BY <1>5 DEF Diagnose, Completes
  <2>2. call.content \in Diagnosis /\ call.content # NoContent
      BY <2>1 DEF PipeInv, AnswerFits, Sayable, Diagnosis
  <2>3. CallInv' /\ AnswerFits' /\ FindingsAreFresh'
      BY <2>1 DEF PipeInv, CallInv, CallTypeOK, PostsAccounted, CallIsBounded, AnswerFits,
                  Sayable, FindingsAreFresh
  <2>4. PipelineTypeOK'
      BY <1>1, <2>1, <2>2, <2>3 DEF PipeInv, PipelineTypeOK, CallInv, State
  <2>5. PassTellsState'
      BY <1>1, <2>1 DEF PipeInv, PassTellsState
  <2>6. OutcomeIsExplained'
      BY <1>1, <2>1, <2>2 DEF PipeInv, OutcomeIsExplained
  <2> QED
      BY <2>3, <2>4, <2>5, <2>6 DEF PipeInv
<1>6. CASE DiagnosisFails
  <2>1. /\ turn = M3 /\ state = "DIAGNOSIS_RUNNING" /\ state' = "FAILED"
        /\ record' = [record EXCEPT !.error = TRUE]
        /\ UNCHANGED <<live, call, pass, turn, finding, given>>
      BY <1>6 DEF DiagnosisFails, Fail
  <2>2. CallInv' /\ AnswerFits' /\ FindingsAreFresh'
      BY <2>1 DEF PipeInv, CallInv, CallTypeOK, PostsAccounted, CallIsBounded, AnswerFits,
                  Sayable, FindingsAreFresh
  <2>3. PipelineTypeOK'
      BY <1>1, <2>1, <2>2 DEF PipeInv, PipelineTypeOK, CallInv, State
  <2>4. PassTellsState'
      BY <1>1, <2>1 DEF PipeInv, PassTellsState
  <2>5. OutcomeIsExplained'
      BY <1>1, <2>1 DEF PipeInv, OutcomeIsExplained
  <2> QED
      BY <2>2, <2>3, <2>4, <2>5 DEF PipeInv
<1> QED
    BY <1>2, <1>3, <1>4, <1>5, <1>6 DEF Pipeline

-----------------------------------------------------------------------------
(***************************************************************************)
(* The requests.                                                           *)
(***************************************************************************)
SoundPlan == [investigation : Nat, diagnosis : Diagnosis \ Refund,
              targets : 1 .. MaxTargets, status : {"PLANNED"}]

IntakeTypeOK ==
    /\ request \in Purpose \cup {"none"}
    /\ starts \in Nat
    /\ failed \in [upi : Nat, other : Nat]
    /\ investigations \subseteq Nat
    /\ diagnoses \subseteq Content
    /\ actions \in Seq(SoundPlan)
    /\ cases \in Seq(SoundPlan)

\* Between two requests nothing is left of the pipeline.
Resting ==
    request = "none" =>
        /\ state = "none" /\ record = Blank /\ pass = 0 /\ turn = 1
        /\ finding = NoFinding /\ given = NoFinding /\ call = Idle

IntakeInv == PipeInv /\ IntakeTypeOK /\ Resting

LEMMA PlanIsSound ==
    ASSUME IntakeTypeOK, NEW d \in Diagnosis, NEW id \in Nat, Plannable(d)
    PROVE  Plan(d, id) \in SoundPlan
<1> DEFINE most == failed.upi + IF d \in Degradation THEN 0 ELSE failed.other
<1>1. most \in Nat
    BY DEF IntakeTypeOK
<1>2. Selected(d) = CHOOSE x \in {MaxTargets, most} : \A y \in {MaxTargets, most} : x <= y
    BY DEF Selected, Min
<1> HIDE DEF most
<1>3. \E x \in {MaxTargets, most} : \A y \in {MaxTargets, most} : x <= y
    BY <1>1
<1>4. Selected(d) \in {MaxTargets, most} /\ Selected(d) <= MaxTargets
    BY <1>2, <1>3
<1>5. Selected(d) \in 1 .. MaxTargets /\ d \in Diagnosis \ Refund
    BY <1>1, <1>4 DEF Plannable
<1> QED
    BY <1>5 DEF Plan, SoundPlan

LEMMA RestingKeeps ==
    ASSUME PipeInv, live' = live,
           state' = "none" /\ record' = Blank /\ pass' = 0 /\ turn' = 1,
           finding' = NoFinding /\ given' = NoFinding /\ call' = Idle
    PROVE  PipeInv' /\ Resting'
<1>1. CallInv' /\ AnswerFits'
    BY FreshCall, FreshAnswer DEF PipeInv, PipelineTypeOK, CallTypeOK
<1>2. /\ Blank \in [detected : BOOLEAN, outputs : BOOLEAN, evidence : BOOLEAN,
                   diagnosis : Diagnosis \cup {NoContent}, completed : BOOLEAN,
                   error : BOOLEAN]
      /\ ~ Blank.error /\ ~ Blank.completed /\ Blank.diagnosis = NoContent
    BY DEF Blank
<1>3. PipelineTypeOK' /\ FindingsAreFresh'
    BY <1>1, <1>2, NothingFound, Turns DEF PipelineTypeOK, CallInv, State, FindingsAreFresh
<1>4. OutcomeIsExplained' /\ PassTellsState'
    BY <1>2, Turns DEF OutcomeIsExplained, PassTellsState
<1> QED
    BY <1>1, <1>3, <1>4 DEF PipeInv, Resting

LEMMA FinishKeeps ==
    ASSUME PipeInv, NEW code, Finish(code)
    PROVE  /\ PipeInv' /\ Resting' /\ request' = "none"
           /\ UNCHANGED <<starts, failed>> /\ reply' = [request |-> request, code |-> code]
BY RestingKeeps DEF Finish, Reply

LEMMA StartKeeps ==
    ASSUME IntakeInv, NEW r \in Purpose, NEW anomalous \in BOOLEAN,
           NEW u \in 0 .. MaxFailed, NEW o \in 0 .. MaxFailed,
           Start(r, anomalous, [upi |-> u, other |-> o])
    PROVE  IntakeInv'
<1>1. /\ request = "none" /\ request' = r /\ starts' = starts + 1
      /\ failed' = [upi |-> u, other |-> o] /\ Begin(anomalous)
      /\ UNCHANGED <<live, investigations, diagnoses, actions, cases>>
    BY DEF Start, stores
<1>2. IntakeTypeOK'
    BY <1>1 DEF IntakeInv, IntakeTypeOK
<1>3. /\ state = "none" /\ pass = 0 /\ turn = 1 /\ finding = NoFinding
      /\ given = NoFinding /\ call = Idle
    BY <1>1 DEF IntakeInv, Resting
<1>4. /\ Blank \in [detected : BOOLEAN, outputs : BOOLEAN, evidence : BOOLEAN,
                   diagnosis : Diagnosis \cup {NoContent}, completed : BOOLEAN,
                   error : BOOLEAN]
      /\ Blank.completed = FALSE /\ Blank.error = FALSE /\ Blank.diagnosis = NoContent
    BY DEF Blank
<1>5. CASE anomalous
  <2>1. /\ state' = "WORKERS_RUNNING" /\ EnterWorkers
        /\ record' = [Blank EXCEPT !.detected = TRUE]
      BY <1>1, <1>5 DEF Begin
  <2>2. /\ record' \in [detected : BOOLEAN, outputs : BOOLEAN, evidence : BOOLEAN,
                       diagnosis : Diagnosis \cup {NoContent}, completed : BOOLEAN,
                       error : BOOLEAN]
        /\ record'.detected = TRUE /\ record'.completed = FALSE /\ record'.error = FALSE
        /\ record'.diagnosis = NoContent
      BY <1>4, <2>1
  <2>3. /\ CallInv' /\ AnswerFits' /\ FindingsAreFresh'
        /\ turn' = 1 /\ pass' = 1
        /\ finding' \in [Turn -> {"none", "finding", "error"}]
        /\ given' \in [Turn -> {"none", "finding", "error"}]
      BY <1>1, <1>3, <2>1, EnteringKeeps DEF IntakeInv, PipeInv
  <2>4. PipelineTypeOK'
      BY <2>1, <2>2, <2>3, Turns DEF PipelineTypeOK, CallInv, State
  <2>5. OutcomeIsExplained' /\ PassTellsState'
      BY <2>1, <2>2, <2>3, Turns DEF OutcomeIsExplained, PassTellsState
  <2>6. Resting'
      BY <1>1 DEF Resting, Purpose
  <2> QED
      BY <1>2, <2>3, <2>4, <2>5, <2>6 DEF IntakeInv, PipeInv
<1>6. CASE ~ anomalous
  <2>1. /\ state' = "FAILED" /\ record' = [Blank EXCEPT !.error = TRUE]
        /\ UNCHANGED <<pass, turn, finding, given, call>>
      BY <1>1, <1>6 DEF Begin
  <2>2. /\ record' \in [detected : BOOLEAN, outputs : BOOLEAN, evidence : BOOLEAN,
                       diagnosis : Diagnosis \cup {NoContent}, completed : BOOLEAN,
                       error : BOOLEAN]
        /\ record'.completed = FALSE /\ record'.error = TRUE
        /\ record'.diagnosis = NoContent
      BY <1>4, <2>1
  <2>3. CallInv' /\ AnswerFits' /\ FindingsAreFresh'
      BY <1>1, <1>3, <2>1, FreshCall, FreshAnswer
         DEF IntakeInv, PipeInv, PipelineTypeOK, CallTypeOK, FindingsAreFresh
  <2>4. PipelineTypeOK'
      BY <2>1, <2>2, <2>3 DEF IntakeInv, PipeInv, PipelineTypeOK, CallInv, State
  <2>5. OutcomeIsExplained' /\ PassTellsState'
      BY <1>3, <2>1, <2>2, Turns DEF OutcomeIsExplained, PassTellsState
  <2>6. Resting'
      BY <1>1 DEF Resting, Purpose
  <2> QED
      BY <1>2, <2>3, <2>4, <2>5, <2>6 DEF IntakeInv, PipeInv
<1> QED
    BY <1>5, <1>6

\* What is stored when the M3 call of the third pass has returned.
LEMMA DiagnosedFits == ASSUME IntakeInv, Diagnosed PROVE call.content \in Diagnosis
BY DEF IntakeInv, PipeInv, AnswerFits, Diagnosed, Sayable

LEMMA StoringKeeps ==
    ASSUME IntakeInv, CreateAction \/ OpenCase
    PROVE  /\ IntakeInv'
           /\ cases' # cases => /\ Plannable(call.content)
                                /\ cases' = Append(cases, Plan(call.content, starts))
                                /\ reply'.code = 200
<1>1. Diagnosed /\ \E code : Finish(code)
    BY DEF CreateAction, OpenCase
<1>2. /\ PipeInv' /\ Resting' /\ request' = "none" /\ UNCHANGED <<starts, failed>>
    BY <1>1, FinishKeeps DEF IntakeInv
<1>3. /\ call.content \in Diagnosis /\ Diagnosis \subseteq Content /\ starts \in Nat
      /\ IntakeTypeOK
    BY <1>1, DiagnosedFits DEF IntakeInv, IntakeTypeOK, Diagnosis
<1>4. CASE CreateAction
  <2>1. \/ /\ Plannable(call.content)
           /\ actions' = Append(actions, Plan(call.content, Unknown))
        \/ actions' = actions
      BY <1>4 DEF CreateAction
  <2>2. actions' \in Seq(SoundPlan)
    <3>1. Unknown \in Nat
        BY DEF Unknown
    <3>2. Plannable(call.content) => Plan(call.content, Unknown) \in SoundPlan
        BY <1>3, <3>1, PlanIsSound
    <3> QED
        BY <1>3, <2>1, <3>2 DEF IntakeTypeOK
  <2>3. /\ investigations' = investigations \cup {starts}
        /\ diagnoses' = diagnoses \cup {call.content}
        /\ cases' = cases
      BY <1>4 DEF CreateAction
  <2> QED
      BY <1>2, <1>3, <2>2, <2>3 DEF IntakeInv, IntakeTypeOK
<1>5. CASE OpenCase
  <2>1. UNCHANGED <<investigations, diagnoses, actions>>
      BY <1>5 DEF OpenCase
  <2>2. CASE cases' = cases
      BY <1>2, <1>3, <2>1, <2>2 DEF IntakeInv, IntakeTypeOK
  <2>3. CASE cases' # cases
    <3>1. /\ Plannable(call.content)
          /\ cases' = Append(cases, Plan(call.content, starts))
          /\ Finish(200)
        BY <1>5, <2>3 DEF OpenCase
    <3>2. reply'.code = 200
        BY <3>1 DEF Finish, Reply
    <3>3. Plan(call.content, starts) \in SoundPlan
        BY <1>3, <3>1, PlanIsSound
    <3>4. cases' \in Seq(SoundPlan)
        BY <1>3, <3>1, <3>3 DEF IntakeTypeOK
    <3> QED
        BY <1>2, <1>3, <2>1, <3>1, <3>2, <3>4 DEF IntakeInv, IntakeTypeOK
  <2> QED
      BY <2>2, <2>3
<1> QED
    BY <1>4, <1>5

LEMMA RerunKeeps == ASSUME IntakeInv, Rerun PROVE IntakeInv'
<1>1. /\ request # "none" /\ state = "DIAGNOSIS_COMPLETE" /\ pass = 2 /\ EnterWorkers
      /\ UNCHANGED <<live, state, record, request, starts, failed, investigations,
                     diagnoses, actions, cases>>
    BY DEF Rerun, intake, stores
<1>2. /\ CallInv' /\ AnswerFits' /\ FindingsAreFresh'
      /\ turn' = 1 /\ pass' = 3
      /\ finding' \in [Turn -> {"none", "finding", "error"}]
      /\ given' \in [Turn -> {"none", "finding", "error"}]
    BY <1>1, EnteringKeeps DEF IntakeInv, PipeInv
<1>3. PipelineTypeOK'
    BY <1>1, <1>2, Turns DEF IntakeInv, PipeInv, PipelineTypeOK, CallInv
<1>4. OutcomeIsExplained' /\ PassTellsState'
    BY <1>1, <1>2, Turns DEF IntakeInv, PipeInv, OutcomeIsExplained, PassTellsState
<1>5. IntakeTypeOK' /\ Resting'
    BY <1>1 DEF IntakeInv, IntakeTypeOK, Resting
<1> QED
    BY <1>2, <1>3, <1>4, <1>5 DEF IntakeInv, PipeInv

LEMMA UnchangedKeeps ==
    ASSUME IntakeInv, UNCHANGED <<live, call, pipeline, request, starts, failed>>,
           UNCHANGED stores
    PROVE  IntakeInv'
<1>1. UNCHANGED <<state, record, pass, turn, finding, given,
                  investigations, diagnoses, actions, cases>>
    BY DEF pipeline, stores
<1>2. PipelineTypeOK' /\ CallInv' /\ FindingsAreFresh'
    BY <1>1 DEF IntakeInv, PipeInv, PipelineTypeOK, CallInv, CallTypeOK, PostsAccounted,
                CallIsBounded, FindingsAreFresh
<1>3. OutcomeIsExplained' /\ PassTellsState' /\ AnswerFits'
    BY <1>1 DEF IntakeInv, PipeInv, OutcomeIsExplained, PassTellsState, AnswerFits, Sayable
<1>4. IntakeTypeOK' /\ Resting'
    BY <1>1 DEF IntakeInv, IntakeTypeOK, Resting
<1> QED
    BY <1>2, <1>3, <1>4 DEF IntakeInv, PipeInv

LEMMA ActionRequestKeeps ==
    ASSUME ActionRequest
    PROVE  UNCHANGED <<live, call, pipeline, request, starts, failed>> /\ UNCHANGED stores
BY DEF ActionRequest, EvaluatePolicy, RequestApproval, ShowAction, DecideApproval,
       SeekApproval, stores

LEMMA PipelinedKeeps ==
    ASSUME IntakeInv, Pipelined
    PROVE  /\ IntakeInv'
           /\ cases' # cases => /\ Diagnosed
                                /\ cases' = Append(cases, Plan(call.content, starts))
                                /\ reply'.code = 200
<1>1. ASSUME UNCHANGED intake, PipeInv', request # "none"
      PROVE  IntakeInv' /\ cases' = cases
    BY <1>1 DEF IntakeInv, IntakeTypeOK, Resting, intake, stores
<1>2. CASE Pipeline /\ UNCHANGED intake
  <2>1. request # "none"
    <3>1. call.stage \in {"answered", "raised"}
        BY <1>2 DEF Pipeline, WorkerReturns, AssembleEvidence, AskForDiagnosis, Diagnose,
                    DiagnosisFails, Returned
    <3> QED
        BY <3>1 DEF IntakeInv, Resting, Idle
  <2> QED
      BY <1>1, <1>2, <2>1, PipelineKeeps DEF IntakeInv
<1>3. CASE /\ request # "none" /\ UNCHANGED intake
           /\ \E c \in Sayable : Gateway(c)
           /\ UNCHANGED <<live, pipeline>>
    BY <1>1, <1>3, GatewayKeepsPipe DEF IntakeInv
<1>4. ASSUME NEW code, Finish(code), UNCHANGED stores
      PROVE  IntakeInv' /\ cases' = cases
  <2>1. /\ PipeInv' /\ Resting' /\ request' = "none" /\ UNCHANGED <<starts, failed>>
      BY <1>4, FinishKeeps DEF IntakeInv
  <2>2. IntakeTypeOK' /\ cases' = cases
      BY <1>4, <2>1 DEF IntakeInv, IntakeTypeOK, stores
  <2> QED
      BY <2>1, <2>2 DEF IntakeInv
<1>5. CASE AnswerInvestigation
    BY <1>4, <1>5 DEF AnswerInvestigation
<1>6. CASE AnswerFailure
    BY <1>4, <1>6 DEF AnswerFailure
<1>7. CASE Rerun
    BY <1>7, RerunKeeps DEF Rerun, intake, stores
<1>8. CASE CreateAction \/ OpenCase
    BY <1>8, StoringKeeps DEF CreateAction, OpenCase
<1> QED
    BY <1>2, <1>3, <1>5, <1>6, <1>7, <1>8 DEF Pipelined

LEMMA IntakeInitInv == IntakeInit => IntakeInv
<1> SUFFICES ASSUME IntakeInit PROVE IntakeInv
    OBVIOUS
<1>1. /\ live \in BOOLEAN /\ call = Idle /\ Idle \in CallType
      /\ Idle.stage = "idle" /\ Idle.posts = 0 /\ Idle.content = NoContent
    BY DEF IntakeInit, GatewayInit, Idle, CallType, Stage
<1>2. CallInv
    BY <1>1 DEF CallInv, CallTypeOK, PostsAccounted, CallIsBounded
<1>3. AnswerFits
    BY <1>1 DEF AnswerFits
<1>4. /\ Blank \in [detected : BOOLEAN, outputs : BOOLEAN, evidence : BOOLEAN,
                   diagnosis : Diagnosis \cup {NoContent}, completed : BOOLEAN,
                   error : BOOLEAN]
      /\ ~ Blank.error /\ ~ Blank.completed /\ Blank.diagnosis = NoContent
    BY DEF Blank
<1>5. PipelineTypeOK /\ FindingsAreFresh
    BY <1>2, <1>4, NothingFound, Turns
       DEF IntakeInit, PipelineTypeOK, CallInv, State, FindingsAreFresh
<1>6. OutcomeIsExplained /\ PassTellsState
    BY <1>4, Turns DEF IntakeInit, OutcomeIsExplained, PassTellsState
<1>7. IntakeTypeOK /\ Resting
    BY <1>1 DEF IntakeInit, IntakeTypeOK, Resting
<1> QED
    BY <1>2, <1>3, <1>5, <1>6, <1>7 DEF IntakeInv, PipeInv

LEMMA IntakeStepInv ==
    ASSUME IntakeInv, [IntakeNext]_vars
    PROVE  /\ IntakeInv'
           /\ cases' # cases => /\ Diagnosed
                                /\ cases' = Append(cases, Plan(call.content, starts))
                                /\ reply'.code = 200
<1>1. CASE UNCHANGED vars
    BY <1>1, UnchangedKeeps DEF vars, intake, stores
<1>2. CASE \E r \in Purpose, anomalous \in BOOLEAN, u, o \in 0 .. MaxFailed :
              Start(r, anomalous, [upi |-> u, other |-> o])
    BY <1>2, StartKeeps DEF Start, stores
<1>3. CASE ActionRequest
    BY <1>3, ActionRequestKeeps, UnchangedKeeps DEF stores
<1>4. CASE Pipelined
    BY <1>4, PipelinedKeeps
<1> QED
    BY <1>1, <1>2, <1>3, <1>4 DEF IntakeNext

-----------------------------------------------------------------------------
(***************************************************************************)
(* The theorems.                                                           *)
(***************************************************************************)
\* Whatever the models answer and however their provider fails, the invariant of the
\* call, the pipeline and the requests holds.
THEOREM IntakeInvariance == IntakeSpec => []IntakeInv
<1>1. IntakeInit => IntakeInv
    BY IntakeInitInv
<1>2. IntakeInv /\ [IntakeNext]_vars => IntakeInv'
    BY IntakeStepInv
<1> QED
    BY <1>1, <1>2, PTL DEF IntakeSpec

\* The retries and the repairs of one generate call together are bounded (agents/models.py).
THEOREM CallsBounded == IntakeSpec => []CallIsBounded
<1>1. IntakeInv => CallIsBounded
    BY DEF IntakeInv, PipeInv, CallInv
<1> QED
    BY <1>1, IntakeInvariance, PTL

\* The record of an investigation explains its state (agents/orchestrator.py).
THEOREM OutcomesExplained == IntakeSpec => []OutcomeIsExplained
<1>1. IntakeInv => OutcomeIsExplained
    BY DEF IntakeInv, PipeInv
<1> QED
    BY <1>1, IntakeInvariance, PTL

\* M3 is given the findings of the pass before it, all of them (agents/workers.py).
THEOREM FindingsFresh == IntakeSpec => []FindingsAreFresh
<1>1. IntakeInv => FindingsAreFresh
    BY DEF IntakeInv, PipeInv
<1> QED
    BY <1>1, IntakeInvariance, PTL

\* What is planned can be acted on (services/action/planner.py).
THEOREM PlansActionable == IntakeSpec => []PlansAreActionable
<1>1. IntakeInv => PlansAreActionable
  <2> SUFFICES ASSUME IntakeInv, NEW p \in Range(actions) \cup Range(cases)
               PROVE  p.targets \in 1 .. MaxTargets /\ p.diagnosis \in Diagnosis \ Refund
      BY DEF PlansAreActionable
  <2>1. p \in SoundPlan
      BY DEF IntakeInv, IntakeTypeOK, Range
  <2> QED
      BY <2>1 DEF SoundPlan
<1> QED
    BY <1>1, IntakeInvariance, PTL

\* A case is stored whole, with its answer and after its investigation
\* (services/demo/session.py).
THEOREM CasesWhole == IntakeSpec => CasesAreWhole
<1>1. ASSUME IntakeInv, [IntakeNext]_vars, cases' # cases
      PROVE  /\ reply'.code = 200 /\ state = "DIAGNOSIS_COMPLETE"
             /\ Len(cases') = Len(cases) + 1
  <2>1. /\ Diagnosed /\ reply'.code = 200
        /\ cases' = Append(cases, Plan(call.content, starts))
      BY <1>1, IntakeStepInv
  <2>2. state = "DIAGNOSIS_COMPLETE"
      BY <1>1, <2>1 DEF Diagnosed, IntakeInv, PipeInv, PassTellsState
  <2>3. Len(cases') = Len(cases) + 1
      BY <1>1, <2>1 DEF IntakeInv, IntakeTypeOK
  <2> QED
      BY <2>1, <2>2, <2>3
<1>2. IntakeInv /\ [IntakeNext]_vars =>
        [cases' # cases => /\ reply'.code = 200 /\ state = "DIAGNOSIS_COMPLETE"
                           /\ Len(cases') = Len(cases) + 1]_vars
    BY <1>1
<1> QED
    BY <1>2, IntakeInvariance, PTL DEF IntakeSpec, CasesAreWhole
=============================================================================
