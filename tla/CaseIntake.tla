----------------------------- MODULE CaseIntake -----------------------------
(***************************************************************************)
(* The three requests that run the investigation pipeline, and what they   *)
(* make of it: POST /investigations answers with the record, POST /actions *)
(* and the start of a demo case run the workers and M3 a third time and    *)
(* plan an action from that diagnosis. With them, the requests about a     *)
(* planned action (routers/action.py).                                     *)
(*                                                                         *)
(* Every pipeline works on a world of its own, and the requests share only *)
(* the stores, into which they write under fresh ids: one pipeline at a    *)
(* time is modelled.                                                       *)
(***************************************************************************)
EXTENDS Investigation, FiniteSetsExt

CONSTANTS
    Degradation,    \* diagnoses whose leading hypothesis names the payment method
    Refund,         \* diagnoses that recommend ISSUE_REFUND
    MaxTargets,     \* targets of one action
    MaxFailed,      \* bound: failed payments of a world, by method
    MaxStarts       \* bound: pipelines run

ASSUME DiagnosisAssumption == Degradation \subseteq Diagnosis /\ Refund \subseteq Diagnosis
ASSUME PlanAssumption == MaxTargets \in Nat \ {0} /\ MaxFailed \in Nat /\ MaxStarts \in Nat

VARIABLES
    request,        \* the request that runs the pipeline, or "none"
    starts,         \* pipelines started; the number of the current one
    failed,         \* failed payments of the world, through UPI and otherwise
    investigations, \* _investigations: the stored ones
    diagnoses,      \* _diagnoses: the stored ones
    actions,        \* _actions and _snapshots
    cases,          \* actions of the cases in the DemoSessionStore
    reply           \* the last answer

stores == <<investigations, diagnoses, actions, cases>>
intake == <<request, starts, failed, stores, reply>>
vars   == <<live, call, pipeline, intake>>

Purpose == {"investigation", "action", "case"}
Unknown == 0        \* the investigation_id of an action planned without one
NoPlan  == [investigation |-> Unknown, diagnosis |-> NoContent, targets |-> 0, status |-> "none"]

IntakeInit ==
    /\ GatewayInit
    /\ state = "none"
    /\ record = Blank
    /\ pass = 0
    /\ turn = 1
    /\ finding = NoFinding
    /\ given = NoFinding
    /\ request = "none"
    /\ starts = 0
    /\ failed = [upi |-> 0, other |-> 0]
    /\ investigations = {}
    /\ diagnoses = {}
    /\ actions = <<>>
    /\ cases = <<>>
    /\ reply = [request |-> "none", code |-> 0]

Reply(r, code) == reply' = [request |-> r, code |-> code]

-----------------------------------------------------------------------------
\* A request arrives: its world is generated, the incident injected, and the
\* investigation begun.
Start(r, anomalous, world) ==
    /\ request = "none"
    /\ starts < MaxStarts
    /\ request' = r
    /\ starts' = starts + 1
    /\ failed' = world
    /\ Begin(anomalous)
    /\ UNCHANGED <<live, stores, reply>>

\* The answer goes out, and the pipeline is forgotten.
Finish(code) ==
    /\ Reply(request, code)
    /\ request' = "none"
    /\ state' = "none"
    /\ record' = Blank
    /\ pass' = 0
    /\ turn' = 1
    /\ call' = Idle
    /\ finding' = NoFinding
    /\ given' = NoFinding
    /\ UNCHANGED <<live, starts, failed>>

\* POST /investigations returns the investigation, which nobody stores.
AnswerInvestigation ==
    /\ request = "investigation"
    /\ state = "DIAGNOSIS_COMPLETE"
    /\ Finish(201)
    /\ UNCHANGED stores

\* OrchestratorError, or M3DiagnosisError in the third pass: nobody handles it.
AnswerFailure ==
    /\ \/ state = "FAILED"
       \/ pass = 3 /\ turn = M3 /\ call.stage = "raised"
    /\ Finish(500)
    /\ UNCHANGED stores

\* The other two run workers and M3 again before they plan.
Rerun ==
    /\ request \in {"action", "case"}
    /\ state = "DIAGNOSIS_COMPLETE" /\ pass = 2
    /\ EnterWorkers
    /\ UNCHANGED <<live, state, record, intake>>

\* _select_targets: failed payments, of one method if the hypothesis names it.
Selected(d) ==
    Min({MaxTargets, failed.upi + IF d \in Degradation THEN 0 ELSE failed.other})

\* Mutant: an action without targets, or of another type, is planned all the same.
PlanBlindly(d) == TRUE

\* plan raises on an action without targets and on a type that does not exist.
Plannable(d) == Selected(d) > 0 /\ d \notin Refund

Plan(d, id) ==
    [investigation |-> id, diagnosis |-> d, targets |-> Selected(d), status |-> "PLANNED"]

\* The M3 call has returned.
Diagnosed == pass = 3 /\ turn = M3 /\ call.stage = "answered"

\* create_action: the investigation and the diagnosis are stored before the
\* planning, which is told no investigation id.
CreateAction ==
    /\ request = "action"
    /\ Diagnosed
    /\ investigations' = investigations \cup {starts}
    /\ diagnoses' = diagnoses \cup {call.content}
    /\ IF Plannable(call.content)
       THEN /\ actions' = Append(actions, Plan(call.content, Unknown))
            /\ Finish(201)
       ELSE /\ UNCHANGED actions
            /\ Finish(500)
    /\ UNCHANGED cases

\* Mutant: the case is stored before its action is planned.
OpenCaseEarly ==
    /\ request = "case"
    /\ Diagnosed
    /\ cases' = Append(cases, Plan(call.content, starts))
    /\ Finish(IF Plannable(call.content) THEN 200 ELSE 500)
    /\ UNCHANGED <<investigations, diagnoses, actions>>

\* run_demo_case and start: the case is stored when everything has succeeded.
OpenCase ==
    /\ request = "case"
    /\ Diagnosed
    /\ IF Plannable(call.content)
       THEN /\ cases' = Append(cases, Plan(call.content, starts))
            /\ Finish(200)
       ELSE /\ UNCHANGED cases
            /\ Finish(500)
    /\ UNCHANGED <<investigations, diagnoses, actions>>

-----------------------------------------------------------------------------
\* Requests about the action a; it may not exist.
Known(a) == a \in DOMAIN actions

\* evaluate_policy: the investigation is looked up under the id of the action;
\* then the engine is given no snapshot, and raises.
EvaluatePolicy(a) ==
    /\ Reply("policy", IF /\ Known(a)
                          /\ actions[a].investigation \in investigations
                          /\ actions[a].diagnosis \in diagnoses
                       THEN 500 ELSE 404)
    /\ UNCHANGED actions

\* request_approval: only after the evaluation.
RequestApproval(a) ==
    /\ Reply("approval", IF ~ Known(a) THEN 404
                         ELSE IF actions[a].status # "POLICY_EVALUATED" THEN 400 ELSE 200)
    /\ UNCHANGED actions

\* approve_approval, reject_approval: an ApprovalService of their own, which knows
\* no approval, raises.
DecideApproval ==
    /\ Reply("decide", 500)
    /\ UNCHANGED actions

\* get_approval and execute_action: the same, answered 404.
SeekApproval ==
    /\ Reply("execute", 404)
    /\ UNCHANGED actions

\* get_action, get_snapshot
ShowAction(a) ==
    /\ Reply("show", IF Known(a) THEN 200 ELSE 404)
    /\ UNCHANGED actions

ActionRequest ==
    /\ request = "none"
    /\ \/ \E a \in 1 .. MaxStarts :
            EvaluatePolicy(a) \/ RequestApproval(a) \/ ShowAction(a)
       \/ DecideApproval
       \/ SeekApproval
    /\ UNCHANGED <<live, call, pipeline, request, starts, failed, investigations, diagnoses, cases>>

Pipelined ==
    \/ /\ \/ Pipeline
          \/ /\ request # "none"
             /\ \E c \in Sayable : Gateway(c)
             /\ UNCHANGED <<live, pipeline>>
       /\ UNCHANGED intake
    \/ AnswerInvestigation
    \/ AnswerFailure
    \/ Rerun
    \/ CreateAction
    \/ OpenCase

IntakeNext ==
    \/ \E r \in Purpose, anomalous \in BOOLEAN, u, o \in 0 .. MaxFailed :
         Start(r, anomalous, [upi |-> u, other |-> o])
    \/ ActionRequest
    \/ Pipelined

\* The event loop runs what is ready, and a post is answered within its timeout.
IntakeSpec == IntakeInit /\ [][IntakeNext]_vars /\ WF_vars(Pipelined)

-----------------------------------------------------------------------------
(***************************************************************************)
(* What a human is asked to approve was planned from a diagnosis that can  *)
(* be acted on: some target, never more than the limit, and no refund,     *)
(* whatever the models answered and whichever of their calls failed.       *)
(***************************************************************************)
PlansAreActionable ==
    \A p \in Range(actions) \cup Range(cases) :
        p.targets \in 1 .. MaxTargets /\ p.diagnosis \in Diagnosis \ Refund

(***************************************************************************)
(* A case is stored in one step with its successful answer, and never      *)
(* without a completed investigation.                                      *)
(***************************************************************************)
CasesAreWhole ==
    [][cases' # cases => /\ reply'.code = 200
                         /\ state = "DIAGNOSIS_COMPLETE"
                         /\ Len(cases') = Len(cases) + 1]_vars

(***************************************************************************)
(* Every request that runs the pipeline is answered, whatever the model    *)
(* provider does: the retries and the repairs end, and a failure is an     *)
(* answer too.                                                             *)
(***************************************************************************)
EveryStartIsAnswered == request # "none" ~> request = "none"
=============================================================================
