# A TLA+ verification of Financial Doctor

Financial Doctor looks for an incident in a merchant's payments, diagnoses it, plans a
treatment (one Payment Link per customer whose payment failed), asks a human to approve
it, executes it at the payment provider and measures what was recovered. This directory
models all of that as far as it has behaviour: the synthetic merchant and the evidence
computed of it, the pipeline of model calls, the human gate, the execution with a stub and
with a live provider, the outcome layer that turns provider notifications into recovered
amounts, the consultation, and the console through which the human acts.

All paths below are relative to the repository root; `routers/`, `services/`, `agents/` and
the like are under `backend/app/`. Source lines of every definition are in `PROJECT.json`
under `map`.

## 1. The system

| Component | State | Operations | Called by | Modelled in |
|---|---|---|---|---|
| **Outcome layer** `services/outcome/` | `OutcomeStore` (outcome, targets, indices, audit), the handler's seen event ids and counters | initialize for an execution, process a provider event, evaluate | executor, webhook ingress, `POST /outcomes/{id}/evaluate`, simulation | OutcomeLedger |
| **Closed-loop case** `routers/demo_case.py`, `services/demo/`, `services/action/` | `DemoCaseSession`: decision, approval, execution, timeline, stages | start, get, approve, reject, execute, simulate | console | TreatmentCase |
| **Policy engine and planner** `services/action/policy.py`, `planner.py` | none (limits only) | plan, evaluate | the case's start, the action interface | TreatmentCase, CaseIntake, MerchantWorld |
| **Stub provider** `adapters/razorpay/stub.py`, `services/outcome/stub_provider.py` | Payment Links of the synthetic world | create a link, mark it paid or cancelled | executor, simulation | OutcomeLedger, TreatmentCase, LiveExecution |
| **Live provider adapter** `adapters/razorpay/live.py` | none (HTTP client) | create links, iterate over lists | executor, API clients | LiveExecution, ProviderListing |
| **Case console** `frontend/src/App.tsx` | read model on screen, acting flag, error | load, five buttons | the human | CaseConsole |
| **Webhook ingress** `adapters/razorpay/webhook.py`, `db/` | set of seen ids, stored events | receive: verify, deduplicate, store, dispatch | the provider | WebhookIngress |
| **Action REST interface** `routers/action.py` | stored actions; a fresh `ApprovalService` per request | create, evaluate, request approval, decide, execute | API clients | CaseIntake |
| **Investigation and diagnosis** `agents/orchestrator.py`, `workers.py`, `m3.py` | the state and record of one investigation | run workers, assemble, diagnose, fail | `POST /investigations`, action interface, the case's start | Investigation, CaseIntake |
| **Model gateway** `agents/models.py` | none | one call with retries and repairs | workers, diagnosis, consultation | ModelGateway |
| **Consultation** `services/consultation/` | per-case history, time of the last question, audio | ask, speak | console | Consultation |
| **Financial substrate** `routers/demo.py`, `services/financial_state.py`, `synthetic_data.py`, `incident_generator.py`, `analytics.py` | database file and synthetic world | seed, inject an incident, metrics, evidence | API clients | Substrate, MerchantWorld |
| **Case summary, metrics** | none | read-only projections | API clients | - |
| **Configuration, presentation** | none | wiring and layout | - | - |

How they interact. The console speaks to one backend process over HTTP. `start` generates a
merchant with an incident, runs the investigation, the diagnosis, the planner and the policy
engine, and opens an approval request. `approve`/`reject` decide it, `execute` creates the
links and initializes one intervention outcome with one recovery target per link. After
that, only provider notifications move the targets: from the webhook ingress, from
`simulate` in the demonstration; both end in `OutcomeWebhookHandler.process_event`.
`evaluate` re-aggregates and gives up the targets whose observation window has passed.
Nothing calls it on a schedule. The human may ask about the case at any time.

What is hard. Asynchronous handlers share one event loop, so a handler is atomic up to its
first real suspension. With the stubs nothing suspends, and the difficulty is in the
*sequences*: notifications that arrive twice, late, in the wrong order or before the targets
exist; a window that elapses while the provider pays; amounts that do not add up, so that a
handler raises half-way; an approval that lapses between two requests; requests the client
repeats because it lost the answer; a screen that shows yesterday's case. With a live model
or provider the handlers are suspended on it: questions overtake one another, executions
overlap, a request that was given up may still create its link, a list changes between two
pages. The endpoints of the substrate are not asynchronous and run in *threads*, which share
a world and a database file without a lock. `PROJECT.json` lists each of these hazards at the
line where it bites, with the properties that would catch it.

What makes each component correct:

* outcome layer - a target gets one verdict, backed by the provider, recorded once in the
  audit, and never revised; the published aggregate is always that of its targets; every
  target is resolved in the end if somebody keeps evaluating;
* case - no link without a human decision in time, one decision, one treatment, a timeline
  that says what happened; links, targets and published amounts agree however often and
  with whatever counts payments are simulated;
* console - the screen never claims what the backend has not confirmed, no execution the
  human did not ask for, no click that leaves the page busy for ever;
* gateway and pipeline - a bounded number of posts, every request answered, a record that
  explains how the investigation ended, findings of this pass and not of an earlier one, and
  no plan that cannot be acted on;
* live execution - an outcome is built from one execution that created all its links, and
  what exists at the provider can be told from how the executions ended; listing - nothing
  that was there is passed over;
* consultation - only figures of the case are quoted, the newest answers are kept, the
  cooldown holds where it can, every question is answered;
* substrate - what is shown was stored, a seed on its own repairs everything, the tables
  stay one world, the evidence accounts for it, and only owed payments are selected.

## 2. Modules

```
 RecoveryLedger (abstract)              TreatmentGate (abstract)
      ^ implemented by  ^ instantiated by   ^ implemented by
 OutcomeLedger          TreatmentCase ------+
      ^ extended by          ^ extended by
 OutcomeLedgerProofs     CaseConsole <- TreatmentCaseProofs

 ModelGateway <- Investigation <- CaseIntake <- CaseIntakeProofs      (<- extended by)

 LiveExecution, ProviderListing <- LiveProviderProofs      Substrate <- SubstrateProofs
 Consultation <- ConsultationProofs                        MerchantWorld <- MerchantWorldProofs
      \__ Consultation, LiveExecution, ProviderListing <- MCLiveServices
 WebhookIngress
 FoldLemmas: sums, products, Max and Min; used by the proofs of OutcomeLedger,
             TreatmentCase, MerchantWorld and Substrate
```

**RecoveryLedger** is the promise of the outcome layer: one verdict per target, given once;
a report that is at every moment the report of the verdicts so far, except while the
credited money exceeds what was targeted. It has no events, ids, audit or time.

**OutcomeLedger** is the outcome layer in detail.

| Code | Model |
|---|---|
| `initialize_outcome_for_execution` | `Initialize`, and `InitializeAgain` for the second call |
| `OutcomeWebhookHandler.process_event` | `Deliver(e)`, one disjunct per way it returns: duplicate, unsupported, unrelated, refused, processed |
| `RecoveryTargetOutcome.transition` | `TargetTransitions`, `Replay`, `Accepts`, `ApplyTransition` |
| `OutcomeEvaluator.recalculate` | `Recalculate` (which may raise: `Overpaid`), `Aggregate`, `DeriveStatus` |
| `InterventionOutcome.transition` | `OutcomeTransitions`, `NextStatus` |
| `evaluate` = `recalculate` then `finalize_expired` | `Evaluate`, one step |
| derivation of event ids | `EventId`, `HasId`: a notification without a `created_at` gets its id from the time of receipt and so never repeats |
| the provider | `Provider`: each link is paid, cancelled or expires once; the original payment may be captured late or fail again |

A notification once emitted stays in `sent` for ever and any notification in it may be
delivered at any time: that is loss, duplication and reordering. Abstracted: names and
payloads (a target stands for its link id, reference and original payment id), the texts
of audit entries, currencies.

**TreatmentGate** is the promise made to the human: nothing is sent to a customer before a
human granted the treatment in time, one decision, one treatment, and only what was sent is
settled.

**TreatmentCase** is one case behind `routers/demo_case.py`: one action per endpoint and way
of answering, in any order and any number of times. It instantiates RecoveryLedger for the
targets and the published report, so the detail of OutcomeLedger is not repeated. `Answer`
records the HTTP status, because an exception nobody catches (a 500) is part of what the
properties distinguish. `simulate` takes any count, including negative and too large ones.

**CaseConsole** extends TreatmentCase with the page: the read model on screen (`shown`), the
task that is running (`calls`, `wire`), its error. *Run full demo* is a task of three
requests. A request or its answer may be lost (`Lose`): the backend then has, or has not,
acted, and the page sees an error either way. A lost message is assumed to surface as an
error in the browser; the code has no timeout of its own.

**ModelGateway, Investigation, CaseIntake** are one composition in three layers.
ModelGateway is a call of `ModelClient.generate` with a schema: every await of the live
client is a stage of the call (`asking`, `backing_off`, `repairing`), and every way the
provider answers is an action. Investigation is `run_investigation`: the four workers one
after the other, once for the evidence bundle and once more for M3, each waiting for a call
of the gateway. CaseIntake is the three requests that run this pipeline - `POST
/investigations`, `POST /actions` and the start of a case, the latter two with a third pass
that the plan is made from - and the requests about a planned action. A content is a finding
or a diagnosis; the diagnoses are told apart by what planning makes of them: one that names
the payment method, one that does not, one that recommends a refund, which is no action type.
Each pipeline works on a world and a client of its own and shares only the stores, which it
writes under fresh ids; therefore one pipeline at a time is modelled.

**Consultation** is the questions put to one case. A request reads the case, the history and
the time of the last question when it starts; the live model is then awaited while other
questions are asked and answered and the case moves on; only then is the answer checked
against the context *that was read*, recorded, and the time stored. A question is the kind
`_classify` finds in it, an answer the set of amounts it quotes. Audio is requested for one
answer at a time, as the page does.

**LiveExecution** is `ActionExecutor.execute` in calls that may overlap and be repeated:
with the live adapter each link is a request (`flight`), which the provider handles whenever
it arrives, whether or not the call still waits. An answer may be lost; a 5xx may come after
the link was created; a second link under one reference is a conflict. **ProviderListing** is
the paging loop all lists of the adapter share, over items that arrive at the head and change
their status meanwhile. **MCLiveServices** checks these two and Consultation in one run: the
three share no state, and `Init` chooses which one is explored.

**MerchantWorld** generates the merchant: orders in the order of their times, each with a
payment and its attempts, then incidents that continue from what is there. Every random draw
is a choice. On top of it, as operators, are the analytics (`Bundle`, one operator per
statistic, exact rational comparison for the z-score in `Exceeds`) and the selection of the
planner: `Selected[n]` is the list its loop has built after the first `n` payments, `Targets`
the whole of it. Payment methods are an enumeration, hence finitely many.

**Substrate** is the same world as seen by threads: `seed` and `inject` reset the database
and publish the world, statement by statement, with `metrics` and `evidence` reading beside
them and a restart of the process between any two statements. A batch of rows stands for the
orders, payments and attempts of one generation, with the place where its ids start; two
batches of one place in the same world collide in their primary keys. No lock wait is assumed
to exceed the 5 seconds of the SQLite driver.

**WebhookIngress** is `POST /webhooks/razorpay` up to the commit. It shows why there is no
composition with OutcomeLedger: no notification gets past that commit (section 5).

## 3. Runs

| Run | What it shows |
|---|---|
| `outcome_ledger` | the inductive invariant, five safety invariants, an action property and the refinement of RecoveryLedger |
| `outcome_watched` | every target is resolved in the end if a client keeps evaluating |
| `outcome_reordered` | *violated*: a failure of the original payment, delivered first, makes the paid link a refused event |
| `treatment_case` | type, timeline, links and amounts; the refinement of TreatmentGate |
| `treatment_policy` | *violated*: a rejected action is treated all the same |
| `treatment_readable` | *violated*: a late approval makes the case unreadable |
| `case_console` | screen against backend, links against verdicts, executions only on intent; every task ends, an approved case is treated |
| `case_intake` | a call is bounded, a record explains its state, M3 is given fresh findings, plans can be acted on, cases are whole, every request is answered |
| `live_services` | history, grounding and spacing of overlapping questions; whole outcomes and bounded ambiguity of overlapping executions; complete listings; all of them end |
| `merchant_world` | the tables are one world, the evidence accounts for it, targets are owed, an incident leaves the baseline as it was |
| `substrate` | what is shown was stored; a seed on its own repairs whatever threads and restarts left behind |
| `webhook_ingress` | *violated*: the first live notification is remembered as seen but neither stored nor dispatched |

**Bounds.** Each is in a `.cfg` and named in the module that has it.

* `outcome_ledger`: two targets owed 2 each, a payment reported with amount 3 or without an
  amount (3 with the expected 2 is more than was targeted in all: the aggregation refuses),
  three notifications, three deliveries, and a window of one tick that elapses within the
  modelled time. Two targets are needed for partial recovery and for a late first payment,
  three deliveries for a settlement of each target and one duplicate or contradiction, in any
  order. Targets are interchangeable (`SYMMETRY`): all are owed the same. In
  `outcome_watched`, where symmetry would be unsound, two notifications and two deliveries,
  but two ticks and an amount that is too little as well: the window elapses at every
  possible moment.
* `treatment_case`: three targets of two different amounts and all counts from -1 to 4: two
  successive counts may grow, shrink, and stop short of each other; the time to live is one
  tick of three, so that every request can be early, on time or late. `case_console` has six
  targets, the least number at which the default share (seven tenths) leaves one target
  pending next to paid and cancelled ones, and three losses, enough to lose each request of
  the full demo.
* `case_intake`: three posts and two repairs, the code's own numbers; a finding and one
  diagnosis of each kind the planner distinguishes; worlds with none or one failed payment
  through UPI and otherwise, against a limit of one target, so that there are none, as many
  as allowed, and more. One pipeline (they share nothing that would make a second one
  different), of up to fourteen calls, each of which may end in any way.
* `live_services`: three questions with a history of one and a cooldown of one tick of one:
  an answer is cut, a question comes within the cooldown and after it, and two questions in
  flight are overtaken by each other and by a third; one kind, the one whose quotes depend on
  the phase, and one amount that is a figure in one phase and not in the others. Three calls
  of `execute` with two links: one that times out, its retry, and one beside it, each cut off
  before and after its first link. Lists of three to four items in pages of two, asked for
  three at a time, of payments and links: a full page, a short one, and an arrival between.
* `merchant_world`: three orders in two days and one incident of one order, two customers,
  two methods, an incident window inside the baseline and one after it, with incident orders
  at its very end, which the analysis leaves out. Three orders are needed for two daily rates that differ, without which nothing is ever an anomaly.
  Customers are interchangeable.
* `substrate`: four requests, three of them at the same time, one restart, two tables (the
  least number of which only a part may be missing).

**Deadlock** is checked in the runs of TreatmentCase. Elsewhere the bounds end the behaviour
- no more notifications, questions, calls or requests -, and in CaseConsole a finalized case
on an idle page leaves nothing to do. That nothing waits for ever *before* that is what the
liveness properties say.

**Fairness.** `WatchedSpec` assumes that the clock advances and that some client keeps
calling `evaluate`: a promise of that client, not of the program, which schedules nothing.
No fairness of the provider or of delivery is assumed. `AttendedSpec` assumes that the page
and the backend take their own steps (the event loops do) and that the operator eventually
clicks a button that stays on offer; the losses are never fair. `IntakeSpec` assumes that the
pipeline goes on: the event loop resumes what is ready, and a post comes back, because the
client gives it up after its timeout if the provider does not answer. `ConsultFairness`
assumes the same of the model a question waits for. `ExecFairness` assumes that a call goes
on once its request is answered *or given up* by the client's timeout; the provider itself
is not fair.

Each property is paired in `PROJECT.json` with a mutant: a plausible bug in one mapped
definition under which TLC finds the property violated in the very same run. The operators
marked *Mutant* in the modules are those bugs; no action uses them.

## 4. Proofs

TLAPS checks the following, each for every value of the constants that satisfies the named
assumptions of its module, and every value of the bounds. All of it is checked to the last
leaf, and by the same recipe: the property is strengthened until it is inductive, one lemma
per action or group of actions shows that the step keeps it, and a temporal step concludes.
Every invariant, every action property of safety and both refinements that a passing run
checks are proved; what is left to TLC is liveness.

**Sums and sets.** Several properties compare a sum or a number of elements with what the
code computed step by step. The library's induction principle takes an operator as a
parameter, which no installed prover instantiates, so FoldLemmas does without: a claim about
all subsets of a finite set that failed somewhere would fail for a smallest subset
(`SmallestSubset`, from the well-foundedness of the subset ordering), and one element less
contradicts that. In this way, claim by claim, the fold of the library is shown to exist, to be
unique, and to be what its recursive definition says (`AccumulatesExists`,
`AccumulatesUnique`, `FoldPick`); the sum is shown to be monotone, to take out any element
and to add up by groups (`SumMonotone`, `SumRemove`, `SumOfGroups`).

**Outcome layer** (`TargetAssumption`, `ForeignAssumption`, `AmountAssumption`,
`TimeAssumption`): for every finite nonempty set of targets, every amounts and window.

| Theorem | Statement |
|---|---|
| `TypeCorrect` | `Spec => []TypeOK` |
| `Invariance` | `Spec => []IInv` |
| `AggregateCorrect` | the published aggregate is the one its targets call for |
| `MoneyInvariance` | `Spec => [](IInv /\ MoneyInv)` |
| `RecoveryBacked` | credited money was reported paid by the provider, for that target |
| `ProcessedCorrect` | the counter of processed events is the number of settled targets |
| `FirstObservedCorrect` | the first observed payment is the earliest of all |
| `FinalizedResolved` | a finalized outcome has no pending target |
| `AuditCorrect` | the audit of a target is its registration and its one verdict |
| `VerdictsAreFinal` | no step revises a verdict, an amount or a time |
| `Refinement` | `Spec => Ledger!Spec`: the outcome layer implements RecoveryLedger |

`AggregateMatchesTargets` is not inductive. An aggregation that refuses the amounts leaves
the old figures published, and when the sum is checked again later the status has to *jump*:
it must be shown that the transition table, whose refusals the code swallows, never stands
in the way. The strengthening is `StatusSound`: whatever was last published is a status that
targets with fewer verdicts called for, so a final status on record is still the right one,
and from any other every derivable status is in the table (lemma `AggregateSound`).
`ReplayIsDuplicate` says that the id that last moved a target has been seen, so the replay
guard of the target's own transition never decides: without it a replay would append a
second audit entry. `BlankBeforeRegistration` says that nothing is settled before the
execution has registered its targets. With these, `IInv` is inductive, and TLC checks it as
an invariant of `outcome_ledger`. The refinement maps the report to the status, the two
counts and the sum a client reads. Deliveries that settle nothing are stutters,
`DeliverProcessed` is a `Decide`, `Evaluate` gives up a set of targets together. Up to here
the sums are never expanded: that equal arguments have equal sums is all that is used.

`MoneyInv` adds what has been credited, counted and observed. The counter is compared with
the set of targets whose second audit entry was made by the provider (`ByProvider`); a step
adds exactly one target to it or none. The first observed time is stated exactly
(`FirstObservedExact`): as long as the amounts are accepted, it is the earliest time of a paid
target. An aggregation that is refused leaves it behind for ever; that refused amounts are
never accepted again (`OverpaidStays`) needs that credited amounts only grow, and that larger
amounts have a larger sum (`SumMonotone`).

**Closed-loop case** (`PlanAssumption`, `LimitAssumption`, `CountAssumption`,
`ClockAssumption` of TreatmentCase): for every number of targets, amounts, limits, time to
live and set of counts.

| Theorem | Statement |
|---|---|
| `CaseTypeCorrect` | `Spec => []TypeOK` |
| `TimelineCorrect` | the timeline says exactly what happened |
| `OpenLinksCorrect` | a link is open exactly as long as its target is undecided |
| `RecoveryCorrect` | the recovered amount is the sum owed by the paid targets |
| `GateRefinement` | `Spec => Gate!Spec`: the endpoints implement TreatmentGate |

The strengthening `CaseInv` adds `ExecutedOnceApproved`: only an approved case is executed,
exactly an executed case has links, and only an executed case has verdicts. It gives the
refinement what it needs: at the time of the execution nothing has been sent, and a
simulation settles among the targets that were sent. Requests that are refused, repeated or
late are stutters (`RefusedRequests`), whatever they answer. The clock is `Lapse` in the one
step in which an open request runs out of time, and a stutter otherwise. For the recovered
amount, `ReportInv` says that the published report is the ledger's report of the verdicts:
what is credited to a target is at most its amount, so the sum never exceeds what was
targeted (`CreditsWithinAmounts`), and no aggregation of this case is ever refused.

**Case console** (the assumptions of TreatmentCase), on top of `CaseInv` and `ReportInv`: for
every number of losses.

| Theorem | Statement |
|---|---|
| `ConsoleInvariance` | `ConsoleSpec => []ConsoleInv` |
| `ShownCorrect` | the page claims nothing the backend has not confirmed |
| `SuccessCorrect` | an idle page without an error shows the case as it is |
| `ExecutionCorrect` | no execution without an approval seen, or given in the same task |
| `LinksCorrect` | links and verdicts agree as long as the console drives the case |

A page may be behind the case and must not be ahead of it. `CaseOnlyAdvances` says that
whatever a request does, what an earlier answer claimed stays true; `ScreenKept` carries the
page over such a step. `TaskFitsScreen` says that the task that runs was offered by the
screen that is still shown, which is where the intent of an execution comes from.
`LinksCorrect` needs that the console only ever sends the default count (`DefaultOnly`):
the targets it pays and the one it cancels are then the same each time and never overlap.
With other counts the links and the verdicts do come apart, as the REST interface allows.

**Investigation pipeline** (`BudgetAssumption`, `ContentAssumption`, `FindingAssumption`,
`DiagnosisAssumption`, `PlanAssumption` of CaseIntake): for every number of posts and
repairs, every set of contents, every limit and number of requests.

| Theorem | Statement |
|---|---|
| `IntakeInvariance` | `IntakeSpec => []IntakeInv` |
| `CallsBounded` | a call costs no more posts than its retries and repairs together |
| `OutcomesExplained` | the record of an investigation explains its state |
| `FindingsFresh` | M3 is given what the pass before it found |
| `PlansActionable` | what is planned can be acted on |
| `CasesWhole` | a case is stored with its successful answer or not at all |

The invariant has the three layers of the modules. `PostsAccounted` counts what a call has
posted, stage by stage: the bound alone is not inductive, because a repair may begin after
any number of retries. `PassTellsState` and `AnswerFits` tie the number of the pass to the
state and the answer to the one who asked, so that a plan can only be made from a diagnosis
of the third pass. The third layer adds that between requests the pipeline is at rest, and
that what is stored was sound when it was planned; the layers are proved one upon the other
(`GatewayKeeps`, `PipelineKeeps`, `IntakeStepInv`).

**Live provider** (`ExecutionAssumption`, `ListingAssumption`): for every number of targets
and any set of calls; for every length of lists, size of pages and number requested.

| Theorem | Statement |
|---|---|
| `ExecInvariance` | `ExecSpec => []ExecInv` |
| `OutcomeWhole` | an outcome is built from one execution that created all its links |
| `AmbiguityBounded` | which links exist follows from how the calls ended, but for the one given up |
| `ListingComplete` | a listing without an error passes nothing over that was there |

The key of the executions is `RequestIsOpen`: a call has at most one request on its way, for the link it is at
and whose answer it has not read. So an answer is never about an earlier link, a link the
call does not know of can only be the one it gave up, and two calls that both succeeded
would both own the first link. The key of the listing is `OffsetIsBehind`: arrivals only push
items back, so the offset never passes an item that has not been yielded.

**Consultation** (`ConsultAssumption`): for every number of questions, cooldown, cap and
amounts.

| Theorem | Statement |
|---|---|
| `ConsultInvariance` | `Spec => []ConsultInv` |
| `AnswersGrounded` | nobody is told an amount that was not a figure of the case |
| `HistoryLatest` | the history is the last answers recorded, in their order |
| `AnswersSpaced` | without overlapping questions, answers are a cooldown apart |

`HistoryIsTail` states the cut index by index; with it the equality of the two sequences
follows. `SpacingInv` says of a question in flight what will matter when it is recorded: if
no answer was recorded since it was let in, it came a cooldown after the last one (`Apart`).

**Substrate** (`SubstrateAssumption`): for every number of requests, threads, restarts and
tables.

| Theorem | Statement |
|---|---|
| `SubInvariance` | `Spec => []SubInv` |
| `ShownStored` | what requests read, and what was answered with success, was stored |
| `RepairInvariance` | `Spec => []RepairInv` |
| `SeedCorrect` | a seed that nothing ran beside succeeds and stores exactly its own world |

`RequestIsSound` follows the rows a request has to store on their way from the lists of its
world through its session to the database: nothing another thread does takes them away, and
what has been committed is never again counted as new.

`RepairInv` is about a request that nothing has run beside. Since requests begin in the order of
their numbers (`InOrder`), those before it have ended and those after it have not begun
(`Undisturbed`); so at each statement it finds what it left at the one before
(`SeedIsClean`): the tables it planned to drop are the tables there are, those it planned to
make are missing and none has a row, and the file then has its rows alone. That the commit inserts them
needs `BatchesAreOwned`: a batch of a world is committed only once its seed has come that far.
What earlier requests or a restart have left is only required to be a file in which missing
tables have no rows (`FileIsSound`).

**Merchant world** (`WorldAssumption`): for every set of customers, methods, reasons and amounts,
every number of days and of incidents.

| Theorem | Statement |
|---|---|
| `WorldInvariance` | `Spec => []WorldInv` |
| `WorldCorrect` | ids are unique, cohorts tell the first order, payments follow their attempts |
| `BaselineKept` | no row changes, and a later incident leaves the baseline's figures |
| `EvidenceCorrect` | every breakdown accounts for its attempts; an anomaly is worse than the mean |
| `TargetsCorrect` | targets are unpaid, distinct, and complete unless the plan is full |

`WorldInv` fixes positions: the k-th row of a table has the id k, the k-th payment belongs to the
k-th order (`Numbered`, `TablesFit`), and `Fate` ties what became of an order and its payment
to the attempts of that payment. From positions the ids that an incident continues with are
computed, and every reference is found. For the targets, the loop of the planner is followed payment by payment
(`Turns`, `Chosen`): the list so far holds eligible payments in the order of the world, and as
long as it is not full it holds all of them. A breakdown adds up because its groups are the
classes of one function on the attempts (`GroupsAddUp`, by `SumOfGroups`); by day this takes
that the hours of a day belong to it (`DayOfHour`). `ExcessIsPositive` is the arithmetic of the
anomaly: three deviations above the mean, with a deviation that is not zero, is above it.

**Model-checked only.** The liveness properties, which with `ENABLED` are beyond the prover:
`EventuallyResolved`, `EveryTaskEnds`, `ApprovedIsTreated`, `EveryStartIsAnswered`,
`EveryQuestionIsAnswered`, `EveryExecutionEnds`. And the four runs that refute a statement of
the documentation, which need only their counterexample.

## 5. Where code and documentation disagree

Four statements have a run that refutes them: see `findings` in `PROJECT.json`
(`outcome_reordered`, `treatment_policy`, `treatment_readable`, `webhook_ingress`). Seen
while modelling, without a run of their own:

Outcome layer and case

* a partially recovered outcome whose targets are all resolved is never terminal
  (`services/outcome/outcome_evaluator.py:293`); `docs/STAGE_5_OUTCOMES.md:347` says "all
  targets resolved -> already terminal";
* `evaluate` on an outcome of which the amounts are refused raises before it expires
  anything (`outcome_evaluator.py:247`), so such an outcome is never resolved;
* reading an outcome never finalizes it, only evaluating does
  (`docs/STAGE_5_OUTCOMES.md:358`);
* the stepper takes the first timeline entry of each stage (`services/demo/read_model.py:101`),
  and the approval stage has two: it shows the request, not the decision;
* the approval stage is recorded as completed while the request is still pending, and the
  outcome stage is never completed (`docs/STAGE_6_CASE_INTERFACE.md:48`);
* executing an expired approval is answered 500, not 409 (`services/action/executor.py:149`,
  `docs/STAGE_6_CASE_INTERFACE.md:212`): `ExecuteRefused` has it as it is;
* after a lost answer to an approval the page never offers the execution again
  (`frontend/src/App.tsx:142`; "Each action error preserves case context and offers retry",
  `docs/STAGE_6_CASE_INTERFACE.md:215`), and a full demo that fails half-way leaves the page
  with the case from before it (`App.tsx:98`);
* of the policy's checks, those of the action type, the eligibility, the duplicates and the
  rate are constants.

Planning and execution

* the planner ignores the window of the incident (`services/action/planner.py:67`-`83`;
  "Filters failed payments from incident window", `docs/STAGE_4_CONTROLLED_ACTIONS.md:41`):
  payments that failed in the baseline come first;
* a diagnosis that recommends `ISSUE_REFUND`, which its schema allows, is answered 500;
* an action of the REST interface is planned under the investigation `"unknown"`
  (`routers/action.py:123`), so evaluating its policy is always 404, and every request about
  an approval builds its own `ApprovalService` and finds none: nothing planned there can ever
  be executed;
* the idempotency key of an execution is stored and never looked up
  (`services/action/executor.py:163`; "Duplicate execute calls return existing execution
  record", `docs/STAGE_4_CONTROLLED_ACTIONS.md:131`). What keeps a second execution from a
  second outcome with the live adapter is the provider's conflict;
* that conflict is raised (`adapters/razorpay/live.py:453`) where
  `docs/STAGE_2_RAZORPAY.md:179` calls the reference an idempotency key: a retry after a
  timeout fails for ever, although the link exists;
* timeouts of the live client are not normalized into the adapter's exceptions
  (`adapters/razorpay/exceptions.py:4`), and its HTTP clients are never closed;
* the stub slices a list before it filters it and has one page, where the live adapter goes
  through all of them;
* with the stub configured, the webhook endpoint is answered 500, because the factory needs a
  world.

Pipeline and consultation

* the instruction that names the schema is appended to `prompt` after the messages have been
  built from it (`agents/models.py:349`): it is never sent with the first post;
* the workers run one after the other (`agents/workers.py:184` says concurrently), they run
  anew for every diagnosis, and the plan is made from a diagnosis other than the one the
  investigation records;
* `worker_outputs_ref` lists all four workers, failed ones included; the evidence ids a
  worker names are not compared with the bundle; nothing creates the traces of
  `docs/STAGE_3_INVESTIGATION.md:170`, and `GET /investigations/traces` is shadowed by
  `/{investigation_id}` (`agents/router.py:89`);
* a live answer of blanks is answered 500, not with the template
  (`services/consultation/consultation_service.py:15`;
  `docs/STAGE_7A_SPEECH_CONSULTATION.md:204`): `BlankAnswer`;
* live questions that overlap all pass the cooldown, and the time stored by the last to finish
  may be earlier than one stored before (`docs/STAGE_7A_SPEECH_CONSULTATION.md:206`).

Substrate

* an injection after a seed resets the database and stores only the rows of the incident:
  SQLAlchemy does not insert rows again that were already persistent
  (`services/financial_state.py:23`, "Persist the full synthetic world");
* the reset drops every table, the stored notifications included;
* overlapping resets may leave a table missing when all is at rest, and two overlapping
  injections may give two batches the same ids, after which every injection fails until the
  next seed. `SeedRepairs` is what remains true;
* an order exactly at the end of the incident's window lies outside the half-open window that
  analyses it, and without deviation between the days the anomaly compares the raw
  difference, at most 1, with a threshold of 3 (`services/analytics.py:231`).

## 6. What is left, and what is not modelled

What could still be added: several outcomes whose targets share an original payment (a
notification that carries only the payment's id settles the last one registered); two cases
and the consultation panel on one page; in MerchantWorld a run with two incidents of several
orders.

Not modelled: fetching one object of the provider by its id, and the fields of the normalized
objects beside identifier and status (no state, no decision depends on them); parsing of a
webhook's payload; the audit events about an outcome and its effectiveness metrics
(projections); prompts, and the wording of answers; the distributions of the random draws;
case summary and metrics (read-only projections); configuration, health checks and
presentation (no behaviour over time).
