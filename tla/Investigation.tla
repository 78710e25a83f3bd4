--------------------------- MODULE Investigation ---------------------------
(***************************************************************************)
(* InvestigationOrchestrator.run_investigation: evidence, the four M2.7    *)
(* workers, the evidence bundle, the workers once more, and the M3         *)
(* diagnosis. The workers run one after the other; the failure of one is   *)
(* recorded in its place and the others go on, the failure of M3 ends the  *)
(* investigation.                                                          *)
(*                                                                         *)
(* The pipeline suspends only in its model calls: what happens between two *)
(* calls is one step.                                                      *)
(***************************************************************************)
EXTENDS ModelGateway, Sequences

CONSTANT Finding    \* what a worker answers; the other contents are diagnoses

ASSUME FindingAssumption == Finding \in Content

VARIABLES
    state,          \* investigation.state; "none" before there is one
    record,         \* the other fields of the investigation
    pass,           \* how often run_all_workers has been entered
    turn,           \* the worker whose call is in flight; LastTurn + 1 for M3
    finding,        \* results of run_all_workers, in the order of the workers
    given           \* worker_findings of the evidence M3 is given in this pass

pipeline == <<state, record, pass, turn, finding, given>>

Workers  == <<"temporal", "payment_method", "cohort", "failure_reason">>
LastTurn == Len(Workers)
Turn     == 1 .. LastTurn
M3       == LastTurn + 1

Diagnosis == Content \ {Finding}

\* What the model of this turn can validly say: each schema is of one kind.
Sayable == IF turn = M3 THEN Diagnosis ELSE {Finding}

State == {"none", "CREATED", "EVIDENCE_PREPARING", "WORKERS_RUNNING", "EVIDENCE_ASSEMBLED",
          "DIAGNOSIS_RUNNING", "DIAGNOSIS_COMPLETE", "FAILED"}

ValidTransitions ==
    {<<"CREATED", "EVIDENCE_PREPARING">>, <<"EVIDENCE_PREPARING", "WORKERS_RUNNING">>,
     <<"WORKERS_RUNNING", "EVIDENCE_ASSEMBLED">>, <<"EVIDENCE_ASSEMBLED", "DIAGNOSIS_RUNNING">>,
     <<"DIAGNOSIS_RUNNING", "DIAGNOSIS_COMPLETE">>}
        \cup {<<s, "FAILED">> : s \in State \ {"none", "DIAGNOSIS_COMPLETE", "FAILED"}}

\* The transitions of one step, tried one after the other (transition). A refused
\* one would raise; none is, or the pipeline would stop (EveryStartIsAnswered).
CanTransition(path) ==
    \A i \in 1 .. Len(path) - 1 : <<path[i], path[i + 1]>> \in ValidTransitions

\* DIAGNOSIS_COMPLETE is the one state that sets completed_at.
Completes(s) == s = "DIAGNOSIS_COMPLETE"

Blank == [detected |-> FALSE, outputs |-> FALSE, evidence |-> FALSE,
          diagnosis |-> NoContent, completed |-> FALSE, error |-> FALSE]

NoFinding == [i \in Turn |-> "none"]

\* The end of the pipeline: the state, and the error if there is one.
Fail ==
    /\ CanTransition(<<state, "FAILED">>)
    /\ state' = "FAILED"
    /\ record' = [record EXCEPT !.error = TRUE]

\* run_all_workers, up to the call of its first worker.
EnterWorkers ==
    /\ pass' = pass + 1
    /\ turn' = 1
    /\ finding' = NoFinding
    /\ given' = NoFinding
    /\ call' = Asking

\* run_investigation and _prepare_evidence, up to the first call.
Begin(anomalous) ==
    \/ /\ anomalous
       /\ CanTransition(<<"CREATED", "EVIDENCE_PREPARING", "WORKERS_RUNNING">>)
       /\ state' = "WORKERS_RUNNING"
       /\ record' = [Blank EXCEPT !.detected = TRUE]
       /\ EnterWorkers
    \/ /\ ~ anomalous
       /\ CanTransition(<<"CREATED", "EVIDENCE_PREPARING", "FAILED">>)
       /\ state' = "FAILED"
       /\ record' = [Blank EXCEPT !.error = TRUE]
       /\ UNCHANGED <<pass, turn, finding, given, call>>

\* BaseWorker.run and the except clause of run_all_workers.
Heard == IF call.stage = "answered" THEN "finding" ELSE "error"

\* Mutant: the results of a failed worker are left out.
RecordFindingOnly ==
    finding' = [finding EXCEPT ![turn] = IF Heard = "error" THEN @ ELSE Heard]

RecordFinding == finding' = [finding EXCEPT ![turn] = Heard]

\* The worker in flight returns, and the next one is asked.
WorkerReturns ==
    /\ Returned
    /\ turn < LastTurn
    /\ RecordFinding
    /\ turn' = turn + 1
    /\ call' = Asking
    /\ UNCHANGED <<live, state, record, pass, given>>

\* The last worker of the first pass returns: _assemble_bundle stores the
\* evidence, and _run_diagnosis runs the workers again.
AssembleEvidence ==
    /\ Returned
    /\ turn = LastTurn /\ pass = 1
    /\ CanTransition(<<state, "EVIDENCE_ASSEMBLED", "DIAGNOSIS_RUNNING">>)
    /\ state' = "DIAGNOSIS_RUNNING"
    /\ record' = [record EXCEPT !.outputs = TRUE, !.evidence = TRUE]
    /\ EnterWorkers
    /\ UNCHANGED live

\* The last worker of a later pass returns: M3 is given what this pass found.
AskForDiagnosis ==
    /\ Returned
    /\ turn = LastTurn /\ pass > 1
    /\ RecordFinding
    /\ given' = finding'
    /\ turn' = M3
    /\ call' = Asking
    /\ UNCHANGED <<live, state, record, pass>>

\* Mutant: an error of M3 is swallowed as those of the workers are.
DiagnoseAnyway ==
    /\ Returned
    /\ turn = M3 /\ state = "DIAGNOSIS_RUNNING"
    /\ CanTransition(<<state, "DIAGNOSIS_COMPLETE">>)
    /\ state' = "DIAGNOSIS_COMPLETE"
    /\ record' = [record EXCEPT !.diagnosis = call.content, !.completed = TRUE]
    /\ UNCHANGED <<live, call, pass, turn, finding, given>>

\* M3 answers: the investigation is complete.
Diagnose ==
    /\ call.stage = "answered"
    /\ turn = M3 /\ state = "DIAGNOSIS_RUNNING"
    /\ CanTransition(<<state, "DIAGNOSIS_COMPLETE">>)
    /\ state' = "DIAGNOSIS_COMPLETE"
    /\ record' = [record EXCEPT !.diagnosis = call.content,
                                !.completed = Completes(state')]
    /\ UNCHANGED <<live, call, pass, turn, finding, given>>

\* M3 raises: M3DiagnosisError, and the investigation has failed.
DiagnosisFails ==
    /\ call.stage = "raised"
    /\ turn = M3 /\ state = "DIAGNOSIS_RUNNING"
    /\ Fail
    /\ UNCHANGED <<live, call, pass, turn, finding, given>>

Pipeline ==
    \/ WorkerReturns
    \/ AssembleEvidence
    \/ AskForDiagnosis
    \/ Diagnose
    \/ DiagnosisFails
-----------------------------------------------------------------------------
PipelineTypeOK ==
    /\ CallTypeOK
    /\ state \in State
    /\ record \in [detected : BOOLEAN, outputs : BOOLEAN, evidence : BOOLEAN,
                   diagnosis : Diagnosis \cup {NoContent}, completed : BOOLEAN, error : BOOLEAN]
    /\ pass \in 0 .. 3
    /\ turn \in 1 .. M3
    /\ finding \in [Turn -> {"none", "finding", "error"}]
    /\ given \in [Turn -> {"none", "finding", "error"}]

(***************************************************************************)
(* The record of an investigation explains its state: it failed with an    *)
(* error or has none, it is complete exactly when it refers to the         *)
(* diagnosis M3 gave, and the evidence is stored before M3 is asked.       *)
(***************************************************************************)
OutcomeIsExplained ==
    /\ record.error <=> state = "FAILED"
    /\ record.completed <=> state = "DIAGNOSIS_COMPLETE"
    /\ record.diagnosis # NoContent <=> state = "DIAGNOSIS_COMPLETE"
    /\ state \in {"DIAGNOSIS_RUNNING", "DIAGNOSIS_COMPLETE"} => record.evidence /\ record.detected

(***************************************************************************)
(* Each pass of the workers starts afresh, and M3 is given the finding or  *)
(* the error of every worker of the pass before it: a failed worker is     *)
(* never missing and never represented by what it found earlier.           *)
(***************************************************************************)
FindingsAreFresh ==
    /\ \A i \in Turn : finding[i] = "none" <=> i >= turn
    /\ turn = M3 => given = finding
=============================================================================
