---------------------------- MODULE ModelGateway ----------------------------
(***************************************************************************)
(* One call of ModelClient.generate with a response schema: the stub,      *)
(* which answers at once, or the live client, which posts to the provider, *)
(* retries a throttled post a bounded number of times, validates the       *)
(* answer and asks for a bounded number of repairs.                        *)
(*                                                                         *)
(* Callers await their calls one after the other, so one call is in flight *)
(* at a time. Every await of the client is a stage of the call.            *)
(***************************************************************************)
EXTENDS Naturals

CONSTANTS
    MaxPosts,       \* posts of one request, the first and its retries
    MaxRepairs,     \* repair attempts after an answer that is not valid
    Content,        \* what a valid answer can say
    NoContent       \* before an answer, and after a call that raised

ASSUME BudgetAssumption == MaxPosts \in Nat \ {0} /\ MaxRepairs \in Nat \ {0}
ASSUME ContentAssumption == NoContent \notin Content

VARIABLES
    live,           \* is there an API key? (create_model_client)
    call            \* the call in flight, or the last one

Stage == {"idle", "asking", "backing_off", "repairing", "answered", "raised"}

CallType == [stage : Stage, tried : 0 .. MaxPosts, repaired : 0 .. MaxRepairs,
             posts : Nat, content : Content \cup {NoContent}]

Idle == [stage |-> "idle", tried |-> 0, repaired |-> 0, posts |-> 0, content |-> NoContent]

\* generate, up to its first await
Asking == [Idle EXCEPT !.stage = "asking"]

\* create_model_client: the client is live if there is an API key.
GatewayInit == live \in BOOLEAN /\ call = Idle

Busy     == call.stage \in {"asking", "backing_off", "repairing"}
Returned == call.stage \in {"answered", "raised"}

-----------------------------------------------------------------------------
\* A post has come back: what the stage becomes.
Posted(stage, content) ==
    call' = [call EXCEPT !.stage = stage, !.posts = @ + 1, !.content = content]

\* StubModelClient.generate: a fixed answer, and nothing is posted.
StubAnswers(c) ==
    /\ ~ live
    /\ call.stage = "asking"
    /\ call' = [call EXCEPT !.stage = "answered", !.content = c]

\* Mutant: the limit is looked at only after one more post.
ThrottledOnceMore ==
    /\ live
    /\ call.stage = "asking"
    /\ call' = [call EXCEPT !.stage = IF call.tried <= MaxPosts THEN "backing_off" ELSE "raised",
                            !.tried = IF call.tried < MaxPosts THEN @ + 1 ELSE @,
                            !.posts = @ + 1]

\* Mutant: an open-ended loop.
ThrottledForever ==
    /\ live
    /\ call.stage = "asking"
    /\ call' = [call EXCEPT !.stage = "backing_off"]

\* 429 or 5xx: wait and post again; the last one raises.
Throttled ==
    /\ live
    /\ call.stage = "asking"
    /\ call' = [call EXCEPT !.stage = IF call.tried + 1 < MaxPosts THEN "backing_off" ELSE "raised",
                            !.tried = @ + 1,
                            !.posts = @ + 1]

\* The sleep before the next post is over.
BackOffOver ==
    /\ call.stage = "backing_off"
    /\ call' = [call EXCEPT !.stage = "asking"]

\* Any other status, a transport error, or a body without choices: raised at once.
Refused ==
    /\ live
    /\ call.stage \in {"asking", "repairing"}
    /\ Posted("raised", NoContent)

\* A first answer that the schema refuses.
AnswerInvalid ==
    /\ live
    /\ call.stage = "asking"
    /\ Posted("repairing", NoContent)

AnswerValid(c) ==
    /\ live
    /\ call.stage \in {"asking", "repairing"}
    /\ Posted("answered", c)

\* A repair that is refused again; a repair is not retried when it is throttled.
RepairInvalid ==
    /\ live
    /\ call.stage = "repairing"
    /\ call' = [call EXCEPT !.stage = IF call.repaired + 1 < MaxRepairs THEN "repairing" ELSE "raised",
                            !.repaired = @ + 1,
                            !.posts = @ + 1]

\* The provider, and the client that waits for it.
Gateway(c) ==
    \/ StubAnswers(c)
    \/ Throttled
    \/ BackOffOver
    \/ Refused
    \/ AnswerInvalid
    \/ AnswerValid(c)
    \/ RepairInvalid

-----------------------------------------------------------------------------
CallTypeOK == live \in BOOLEAN /\ call \in CallType

(***************************************************************************)
(* "Still raises afterwards - never an open-ended loop" (the comment in    *)
(* generate): however the provider answers, one call costs no more posts   *)
(* than its retries and its repairs together, and the stub none.           *)
(***************************************************************************)
CallIsBounded == call.posts <= IF live THEN MaxPosts + MaxRepairs ELSE 0

(***************************************************************************)
(* What a call has posted is accounted for by its retries and repairs,     *)
(* stage by stage; with this, CallIsBounded is inductive.                  *)
(***************************************************************************)
PostsAccounted ==
    /\ call.stage = "idle" => call = Idle
    /\ call.stage \in {"asking", "backing_off"} =>
         call.posts = call.tried /\ call.tried < MaxPosts /\ call.repaired = 0
    /\ call.stage = "repairing" =>
         call.posts = call.tried + 1 + call.repaired /\ call.tried < MaxPosts
                                                   /\ call.repaired < MaxRepairs
    /\ ~ live => call.posts = 0 /\ call.stage \in {"idle", "asking", "answered"}
    /\ call.stage = "answered" <=> call.content # NoContent
=============================================================================
