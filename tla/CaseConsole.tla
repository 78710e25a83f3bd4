----------------------------- MODULE CaseConsole -----------------------------
(***************************************************************************)
(* The browser console (frontend/src/App.tsx) composed with the case it    *)
(* drives. The console keeps the last read model it was given, offers the  *)
(* buttons that read model calls for, and runs one task at a time: a       *)
(* single request, or the three requests of "Run full demo". A request or  *)
(* its answer may be lost; either way the console only sees an error.      *)
(*                                                                         *)
(* The console is the only client of its case. Starting a new case gives   *)
(* up this one and is not modelled.                                        *)
(***************************************************************************)
EXTENDS TreatmentCase

CONSTANT MaxLosses      \* bound: requests and answers that are lost

VARIABLES
    shown,          \* data: the read model on the screen
    loading,        \* is a task acting?
    calls,          \* the requests the running task has still to make
    wire,           \* where the first of them is
    problem,        \* actionError: did the last task fail?
    losses          \* messages lost so far

task    == <<loading, calls, wire, problem>>
console == <<shown, task, losses>>
allVars == <<vars, console>>

\* data is null: nothing has been shown yet.
Nothing == [approval |-> "none", treated |-> FALSE, status |-> "PENDING",
            finalized |-> FALSE]

\* build_read_model, as far as the console looks at it.
View ==
    [approval  |-> approval,
     treated   |-> executed,
     status    |-> report.status,
     finalized |-> report.status \in {"RECOVERED", "NO_RECOVERY"}]

ConsoleInit ==
    /\ Init
    /\ shown = Nothing
    /\ loading = FALSE
    /\ calls = <<>>
    /\ wire = "idle"
    /\ problem = FALSE
    /\ losses = 0

\* load: the case is started on mount; a start that failed is retried.
Load ==
    /\ shown = Nothing
    /\ Start
    /\ shown' = View'
    /\ UNCHANGED <<task, losses>>

(***************************************************************************)
(* The buttons. They are disabled while a task is acting.                  *)
(***************************************************************************)
\* Mutant: execution is offered before the screen shows the approval.
OfferedEarly(b) ==
    CASE b = "approve"  -> shown.approval = "PENDING"
      [] b = "reject"   -> shown.approval = "PENDING"
      [] b = "fullDemo" -> shown.approval = "PENDING"
      [] b = "execute"  -> ~ shown.treated
      [] b = "simulate" -> shown.treated /\ ~ shown.finalized

Offered(b) ==
    CASE b = "approve"  -> shown.approval = "PENDING"
      [] b = "reject"   -> shown.approval = "PENDING"
      [] b = "fullDemo" -> shown.approval = "PENDING"
      [] b = "execute"  -> shown.approval = "APPROVED" /\ ~ shown.treated
      [] b = "simulate" -> shown.treated /\ ~ shown.finalized

Button == {"approve", "reject", "fullDemo", "execute", "simulate"}

\* Mutant: the click already shows what it asks for.
ClickOptimistic(b) ==
    /\ shown # Nothing /\ ~ loading
    /\ Offered(b)
    /\ loading' = TRUE
    /\ calls' = IF b = "fullDemo" THEN <<"approve", "execute", "simulate">> ELSE <<b>>
    /\ wire' = "idle"
    /\ problem' = FALSE
    /\ shown' = IF b = "approve" THEN [shown EXCEPT !.approval = "APPROVED"] ELSE shown
    /\ UNCHANGED <<vars, losses>>

Click(b) ==
    /\ shown # Nothing /\ ~ loading
    /\ Offered(b)
    /\ loading' = TRUE
    /\ calls' = IF b = "fullDemo" THEN <<"approve", "execute", "simulate">> ELSE <<b>>
    /\ wire' = "idle"
    /\ problem' = FALSE
    /\ UNCHANGED <<vars, shown, losses>>

Serve(r) ==
    \/ r = "approve"  /\ (Approve \/ ApproveTooLate \/ DecideAgain(r))
    \/ r = "reject"   /\ (Reject \/ DecideAgain(r))
    \/ r = "execute"  /\ (Execute \/ ExecuteRefused)
    \/ r = "simulate" /\ (Simulate(None) \/ SimulateRefused)

Served ==
    /\ loading /\ wire = "idle"
    /\ Serve(Head(calls))
    /\ wire' = "answered"
    /\ UNCHANGED <<shown, loading, calls, problem, losses>>

Lose ==
    /\ loading /\ losses < MaxLosses
    /\ wire \in {"idle", "answered"}
    /\ wire' = "lost"
    /\ losses' = losses + 1
    /\ UNCHANGED <<vars, shown, loading, calls, problem>>

\* await of the next request: the answer in between is not shown.
Continue ==
    /\ wire = "answered" /\ reply.code = 200
    /\ Len(calls) > 1
    /\ calls' = Tail(calls)
    /\ wire' = "idle"
    /\ UNCHANGED <<vars, shown, loading, problem, losses>>

\* Mutant: the answer to a request is not shown.
ShowNothing ==
    /\ wire = "answered" /\ reply.code = 200
    /\ Len(calls) = 1
    /\ loading' = FALSE
    /\ calls' = <<>>
    /\ wire' = "idle"
    /\ UNCHANGED <<vars, shown, problem, losses>>

\* setData(next)
Show ==
    /\ wire = "answered" /\ reply.code = 200
    /\ Len(calls) = 1
    /\ shown' = View
    /\ loading' = FALSE
    /\ calls' = <<>>
    /\ wire' = "idle"
    /\ UNCHANGED <<vars, problem, losses>>

Failed == wire = "lost" \/ (wire = "answered" /\ reply.code # 200)

\* Mutant: the error is swallowed.
FailSilently ==
    /\ Failed
    /\ loading' = FALSE
    /\ calls' = <<>>
    /\ wire' = "idle"
    /\ UNCHANGED <<vars, shown, problem, losses>>

\* Mutant: a request that was never answered is not an error.
FailAnswered ==
    /\ Failed /\ wire = "answered"
    /\ loading' = FALSE
    /\ calls' = <<>>
    /\ wire' = "idle"
    /\ problem' = TRUE
    /\ UNCHANGED <<vars, shown, losses>>

\* catch: the error is shown, the data is left as it was.
Fail ==
    /\ Failed
    /\ loading' = FALSE
    /\ calls' = <<>>
    /\ wire' = "idle"
    /\ problem' = TRUE
    /\ UNCHANGED <<vars, shown, losses>>

ConsoleNext ==
    \/ Tick /\ UNCHANGED console
    \/ Load
    \/ \E b \in Button : Click(b)
    \/ Served
    \/ Lose
    \/ Continue
    \/ Show
    \/ Fail

ConsoleSpec == ConsoleInit /\ [][ConsoleNext]_allVars

-----------------------------------------------------------------------------
(***************************************************************************)
(* Safety.                                                                 *)
(***************************************************************************)

\* The screen never runs ahead of the case: it says approved, rejected, treated
\* or finalized only of a case of which the backend has confirmed it.
ShownIsConfirmed ==
    shown # Nothing =>
        /\ shown.approval # "PENDING" => shown.approval = approval
        /\ shown.treated => executed
        /\ shown.finalized => View.finalized

\* An idle screen whose last task succeeded shows the case as it is.
SuccessIsCurrent ==
    shown # Nothing /\ ~ loading /\ ~ problem => shown = View

\* The treatment is executed by a request of the console only when the screen
\* had shown the case approved, or the same task had it approved just before.
ExecutionWasIntended ==
    [][executed' # executed =>
          \/ shown.approval = "APPROVED"
          \/ Len(calls) = 2 /\ shown.approval = "PENDING"]_allVars

(***************************************************************************)
(* Liveness. The page's own steps are fair; that the operator eventually   *)
(* clicks a button that stays on offer is an assumption about the operator.*)
(***************************************************************************)
PageFairness ==
    /\ WF_allVars(Load)
    /\ WF_allVars(Served)
    /\ WF_allVars(Continue)
    /\ WF_allVars(Show)
    /\ WF_allVars(Fail)

AttendedSpec == ConsoleSpec /\ PageFairness /\ \A b \in Button : WF_allVars(Click(b))

\* No click leaves the page acting for ever, whatever is lost: every task ends
\* by showing an answer or an error.
EveryTaskEnds == [](loading => <>(~ loading))

\* If nothing is lost, an approved case is treated in the end, unless its
\* approval lapses: the approval always brings the button that follows it.
ApprovedIsTreated == approval = "APPROVED" ~> (executed \/ Expired \/ losses > 0)
=============================================================================
