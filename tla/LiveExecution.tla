---------------------------- MODULE LiveExecution ----------------------------
(***************************************************************************)
(* ActionExecutor.execute with a provider behind it: calls for one action  *)
(* and its approval, which may overlap and be repeated, each creating one  *)
(* Payment Link per target, one after the other. With the live adapter     *)
(* every link is a request that is awaited: it may be answered, refused,   *)
(* answered too late, or never arrive. With the stub adapter nothing       *)
(* suspends the call.                                                      *)
(*                                                                         *)
(* The reference of a link is made of the action and the payment, and the  *)
(* live provider refuses a second link with the reference of a first.      *)
(***************************************************************************)
EXTENDS Integers

CONSTANTS
    N,              \* number of targets of the action
    Call,           \* bound: the calls of execute
    NoCall          \* no call

ASSUME ExecutionAssumption == N \in Nat \ {0} /\ NoCall \notin Call

Target == 1 .. N

VARIABLES
    mode,           \* how the adapter is configured: "live", "keyless" or "stub"
    valid,          \* does the approval still stand, for the action as it is?
    call,           \* call[c]: the execution record of call c, and its progress
    flight,         \* link requests on their way to the provider
    owner,          \* owner[t]: the call whose request created the link of target t
    kept,           \* the calls whose record is in _executions, with their links
    outcome         \* the call whose links the outcome of the action was built from

execVars == <<mode, valid, call, flight, owner, kept, outcome>>

Unstarted == [pc |-> "new", got |-> 0, reply |-> "none", status |-> "none", error |-> "none"]

ExecInit ==
    /\ mode \in {"live", "keyless", "stub"}
    /\ valid = TRUE
    /\ call = [c \in Call |-> Unstarted]
    /\ flight = {}
    /\ owner = [t \in Target |-> NoCall]
    /\ kept = {}
    /\ outcome = NoCall

\* The approval expires, or the action is changed after it.
Lapse ==
    /\ valid
    /\ valid' = FALSE
    /\ UNCHANGED <<mode, call, flight, owner, kept, outcome>>

-----------------------------------------------------------------------------
(***************************************************************************)
(* The end of a call.                                                      *)
(***************************************************************************)
Ended(r, s, e) == [r EXCEPT !.pc = "done", !.reply = "none", !.status = s, !.error = e]

\* Everything raised after the record was made: it is marked failed, kept without its
\* links, and the caller gets an ExecutionError.
Fail(c, e) ==
    /\ call' = [call EXCEPT ![c] = Ended(call[c], "FAILED", e)]
    /\ kept' = kept \cup {c}
    /\ UNCHANGED <<outcome>>

\* initialize_outcome_for_execution: the outcome of the action is built once; another
\* success only aggregates it again, which raises if its amounts are refused.
Succeed(c) ==
    /\ kept' = kept \cup {c}
    /\ IF outcome = NoCall
       THEN /\ call' = [call EXCEPT ![c] = Ended([call[c] EXCEPT !.got = N], "SUCCEEDED", "none")]
            /\ outcome' = c
       ELSE /\ \/ call' = [call EXCEPT ![c] = Ended([call[c] EXCEPT !.got = N],
                                                    "SUCCEEDED", "none")]
               \/ call' = [call EXCEPT ![c] = Ended([call[c] EXCEPT !.got = N],
                                                    "FAILED", "aggregation")]
            /\ UNCHANGED outcome

\* One link at a time: the request for the link of a target.
Post(c, t) == flight' = flight \cup {[call |-> c, target |-> t]}

-----------------------------------------------------------------------------
(***************************************************************************)
(* The start of a call. A validation that fails raises before there is a   *)
(* record. The idempotency key is computed and stored, never looked up.    *)
(***************************************************************************)
Invalid(c) ==
    /\ ~ valid
    /\ call' = [call EXCEPT ![c] = Ended(Unstarted, "none", "ValueError")]
    /\ UNCHANGED <<flight, owner, kept, outcome>>

\* create_razorpay_adapter: live mode without its keys.
NoAdapter(c) ==
    /\ valid /\ mode = "keyless"
    /\ Fail(c, "RuntimeError")
    /\ UNCHANGED <<flight, owner>>

\* The stub adapter answers a reference it knows with the link it has.
BeginStub(c) ==
    /\ valid /\ mode = "stub"
    /\ owner' = [t \in Target |-> IF owner[t] = NoCall THEN c ELSE owner[t]]
    /\ Succeed(c)
    /\ UNCHANGED flight

BeginLive(c) ==
    /\ valid /\ mode = "live"
    /\ call' = [call EXCEPT ![c].pc = "posting", ![c].status = "EXECUTING"]
    /\ Post(c, 1)
    /\ UNCHANGED <<owner, kept, outcome>>

Begin(c) ==
    /\ call[c].pc = "new"
    /\ Invalid(c) \/ NoAdapter(c) \/ BeginStub(c) \/ BeginLive(c)
    /\ UNCHANGED <<mode, valid>>

-----------------------------------------------------------------------------
(***************************************************************************)
(* The provider. It handles a request whenever it arrives, whether or not  *)
(* the call still waits for the answer. A 5xx may come after the link was  *)
(* created.                                                                *)
(***************************************************************************)
Waits(r) == call[r.call].pc = "posting" /\ call[r.call].got = r.target - 1

\* The answer reaches the call if that still waits for it, unless it is lost.
Reply(r, a) ==
    \/ Waits(r) /\ call' = [call EXCEPT ![r.call].reply = a]
    \/ call' = call

Create(r) ==
    /\ owner[r.target] = NoCall
    /\ owner' = [owner EXCEPT ![r.target] = r.call]
    /\ \E a \in {"created", "unavailable"} : Reply(r, a)

Conflict(r) == owner[r.target] # NoCall /\ Reply(r, "conflict") /\ UNCHANGED owner

Reject(r) == (\E a \in {"refused", "unavailable"} : Reply(r, a)) /\ UNCHANGED owner

Handle(r) ==
    /\ flight' = flight \ {r}
    /\ Create(r) \/ Conflict(r) \/ Reject(r)
    /\ UNCHANGED <<mode, valid, kept, outcome>>

-----------------------------------------------------------------------------
(***************************************************************************)
(* LiveRazorpayAdapter.create_payment_link returns or raises.              *)
(***************************************************************************)
Answered(c) == call[c].reply = "created"

NextLink(c) ==
    /\ Answered(c) /\ call[c].got + 1 < N
    /\ call' = [call EXCEPT ![c].got = @ + 1, ![c].reply = "none"]
    /\ Post(c, call[c].got + 2)
    /\ UNCHANGED <<mode, valid, owner, kept, outcome>>

\* Mutant: the outcome is built when there is still a link to create.
LastLinkEarly(c) ==
    /\ Answered(c) /\ call[c].got + 1 \in {N - 1, N}
    /\ Succeed(c)
    /\ UNCHANGED <<mode, valid, flight, owner>>

LastLink(c) ==
    /\ Answered(c) /\ call[c].got + 1 = N
    /\ Succeed(c)
    /\ UNCHANGED <<mode, valid, flight, owner>>

\* 409 is a ProviderConflictError; every other error is normalized by its status.
LinkRefused(c) ==
    /\ call[c].reply \in {"conflict", "refused", "unavailable"}
    /\ Fail(c, call[c].reply)
    /\ UNCHANGED <<mode, valid, flight, owner>>

\* Mutant: a request that timed out is sent once more.
PostAgain(c) ==
    /\ call[c].pc = "posting" /\ call[c].reply = "none"
    /\ Post(c, call[c].got + 1)
    /\ UNCHANGED <<mode, valid, call, owner, kept, outcome>>

\* Mutant: the timeout covers the sending of the request only.
TimeOutSending(c) ==
    /\ call[c].pc = "posting" /\ call[c].reply = "none"
    /\ [call |-> c, target |-> call[c].got + 1] \in flight
    /\ Fail(c, "timeout")
    /\ UNCHANGED <<mode, valid, flight, owner>>

\* The client's timeout, raised as it is; the request may still be on its way.
TimeOut(c) ==
    /\ call[c].pc = "posting" /\ call[c].reply = "none"
    /\ Fail(c, "timeout")
    /\ UNCHANGED <<mode, valid, flight, owner>>

\* The call goes on once its request is answered or given up.
Proceed(c) == NextLink(c) \/ LastLink(c) \/ LinkRefused(c) \/ TimeOut(c)

ExecNext ==
    \/ Lapse
    \/ \E c \in Call : Begin(c)
    \/ \E r \in flight : Handle(r)
    \/ \E c \in Call : Proceed(c)

\* The client has a timeout, and the event loop resumes a call that was answered. That
\* the provider ever handles a request is not assumed.
ExecFairness == \A c \in Call : WF_execVars(Proceed(c))

ExecSpec == ExecInit /\ [][ExecNext]_execVars /\ ExecFairness

-----------------------------------------------------------------------------
(***************************************************************************)
(* Properties.                                                             *)
(***************************************************************************)
\* The outcome watches the links of one execution that succeeded, and there is a link
\* for every target: no execution that broke off left an outcome behind. With the live
\* adapter, however many calls overlap or are repeated, and whatever is delayed, one of
\* them at most succeeds, and every link is its own.
OutcomeIsWhole ==
    /\ outcome # NoCall =>
          /\ call[outcome].status = "SUCCEEDED" /\ call[outcome].got = N /\ outcome \in kept
          /\ \A t \in Target : owner[t] # NoCall
    /\ mode = "live" =>
          /\ \A c, d \in Call : call[c].status = "SUCCEEDED" /\ call[d].status = "SUCCEEDED" => c = d
          /\ outcome # NoCall => \A t \in Target : owner[t] = outcome

\* Which links exist can be told from how a live call ended, except for the one link
\* that was being created when a call timed out or was answered 5xx.
OnlyTimeoutsAreAmbiguous ==
    mode = "live" =>
        \A c \in Call, t \in Target :
            /\ t <= call[c].got => owner[t] = c
            /\ owner[t] = c => \/ t <= call[c].got
                               \/ /\ t = call[c].got + 1
                                  /\ call[c].pc = "posting" \/ call[c].error \in {"timeout", "unavailable"}

\* Every call ends, even if the provider never answers.
EveryExecutionEnds == \A c \in Call : call[c].pc = "posting" ~> call[c].pc = "done"
=============================================================================
