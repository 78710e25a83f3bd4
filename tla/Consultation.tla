----------------------------- MODULE Consultation -----------------------------
(***************************************************************************)
(* Asking the Financial Doctor about one case: POST .../consult, the       *)
(* history of the answers, and their audio. A request reads the case, the  *)
(* history and the time of the last consultation when it starts; a live    *)
(* model is awaited, the case moves on and other questions are answered    *)
(* meanwhile, and only then is the answer recorded and the time stored.    *)
(* The stub model answers in the same step. What happens inside the live   *)
(* client is ModelGateway: here it returns an answer or raises.            *)
(*                                                                         *)
(* An answer is the set of amounts it quotes; a question is the kind       *)
(* _classify finds in its text.                                            *)
(***************************************************************************)
EXTENDS Integers, Sequences, FiniteSets

CONSTANTS
    Questions,      \* bound: the number of questions put to the case
    Kind,           \* the kinds of questions put (a subset of AnswerType)
    Amount,         \* the amounts a live model writes: key figures of any phase, or others
    Cooldown,       \* cooldown_seconds, in clock ticks
    Cap,            \* history_cap
    Provider,       \* the speech providers the environment may select
    MaxTime,        \* bound: last clock tick
    None            \* last_at is None

AnswerType == {"incident", "diagnosis", "evidence", "treatment", "safety", "outcome",
               "general", "refused"}

ASSUME ConsultAssumption ==
    /\ Kind \subseteq AnswerType /\ Provider \subseteq {"stub", "minimax", "keyless"}
    /\ Questions \in Nat /\ Cooldown \in Nat /\ Cap \in Nat \ {0} /\ MaxTime \in Nat /\ None \notin Nat

\* The requests, numbered in the order in which they arrive.
Question == 1 .. Questions

VARIABLES
    live,           \* is the model client a live one?
    speech,         \* the speech provider the environment selects
    now,            \* time.monotonic()
    phase,          \* how far the case has come
    asked,          \* asked[q]: the request of question q, from its start to its answer
    history,        \* session.consultations
    lastAt,         \* session.last_consult_at
    hearing,        \* the last request for the audio of an answer
    log             \* history variable: every answer recorded, in order

vars == <<live, speech, now, phase, asked, history, lastAt, hearing, log>>

Unasked == [state |-> "new", kind |-> "general", at |-> 0, view |-> "untreated",
            seen |-> 0, raw |-> {}, code |-> 0]

Init ==
    /\ live \in BOOLEAN
    /\ speech \in Provider
    /\ now = 0
    /\ phase = "untreated"
    /\ asked = [q \in Question |-> Unasked]
    /\ history = <<>>
    /\ lastAt = None
    /\ hearing = "none"
    /\ log = <<>>

Tick ==
    /\ now < MaxTime
    /\ now' = now + 1
    /\ UNCHANGED <<live, speech, phase, asked, history, lastAt, hearing, log>>

\* The other endpoints of the case (TreatmentCase): treated and then recovered, or
\* approved too late, after which the read model cannot be built.
CaseMoves ==
    /\ \/ phase = "untreated" /\ phase' \in {"treated", "lapsed"}
       \/ phase = "treated"   /\ phase' = "recovered"
    /\ UNCHANGED <<live, speech, now, asked, history, lastAt, hearing, log>>

-----------------------------------------------------------------------------
(***************************************************************************)
(* The context: the sections of the case that are present in a phase, and  *)
(* the amounts among its key figures.                                      *)
(***************************************************************************)
Treated(p) == p \in {"treated", "recovered"}

Sections(p) ==
    {"incident", "metrics", "investigation", "diagnosis", "evidence", "treatment",
     "policy", "approval"} \cup (IF Treated(p) THEN {"execution", "outcome"} ELSE {})

OutcomeFigures(p) ==
    CASE p = "treated"   -> {"targeted", "recoveredNothing"}
      [] p = "recovered" -> {"targeted", "recoveredSome"}
      [] OTHER           -> {}

KeyFigures(p) == {"eligible"} \cup OutcomeFigures(p)

\* _render_answer: what the deterministic template of a kind quotes of a context.
Quotes(k, p) ==
    CASE k = "treatment" -> {"eligible"}
      [] k = "outcome" /\ "outcome" \in Sections(p) -> OutcomeFigures(p)
      [] OTHER -> {}

\* Mutant: the amounts of a live answer are not compared with the context.
GroundedInShape(raw, p) == raw # {}

\* _check_rupee_grounding
Grounded(raw, p) == raw \subseteq KeyFigures(p)

-----------------------------------------------------------------------------
(***************************************************************************)
(* The end of a consultation that succeeds: the record is appended, the    *)
(* history is cut, and the handler stores the time the request started.    *)
(***************************************************************************)
Record(q, view, quotes, by) == [id |-> q, quotes |-> quotes, view |-> view, model |-> by]

\* The request is over: of its locals, only what the properties speak of is kept.
Over(r, c) == [r EXCEPT !.state = "done", !.code = c, !.kind = "general",
                        !.view = "untreated", !.raw = {}]

\* Mutant: the newest answers are cut.
KeepOldest(s) == IF Len(s) > Cap THEN SubSeq(s, 1, Cap) ELSE s

Cut(s) == IF Len(s) > Cap THEN SubSeq(s, Len(s) - Cap + 1, Len(s)) ELSE s

\* Mutant: the time is stored only when the model has answered.
RecordedTemplateFree(q, view, quotes, by) ==
    /\ history' = Cut(Append(history, Record(q, view, quotes, by)))
    /\ log' = Append(log, q)
    /\ lastAt' = IF by = "stub" THEN lastAt ELSE asked'[q].at

Recorded(q, view, quotes, by) ==
    /\ history' = Cut(Append(history, Record(q, view, quotes, by)))
    /\ log' = Append(log, q)
    /\ lastAt' = asked'[q].at

Unrecorded == UNCHANGED <<history, log, lastAt>>

CoolingDown == lastAt # None /\ now - lastAt < Cooldown

Started(q, k) ==
    [Unasked EXCEPT !.state = "waiting", !.kind = k, !.at = now, !.view = phase, !.seen = Len(log)]

Refuse(q, c) ==
    /\ asked' = [asked EXCEPT ![q].state = "done", ![q].code = c]
    /\ Unrecorded

(***************************************************************************)
(* POST /demo/case/{id}/consult. An unusable question is refused, a case   *)
(* that cannot be read is an error, and the cooldown is compared with the  *)
(* time stored by the last request that finished.                          *)
(***************************************************************************)
RefuseQuestion(q) ==
    \/ Refuse(q, 422)
    \/ phase = "lapsed" /\ Refuse(q, 500)
    \/ phase # "lapsed" /\ CoolingDown /\ Refuse(q, 429)

AskStub(q, k) ==
    /\ ~ live /\ phase # "lapsed" /\ ~ CoolingDown
    /\ asked' = [asked EXCEPT ![q] = Over(Started(q, k), 200)]
    /\ Recorded(q, phase, Quotes(k, phase), "stub")

AskLive(q, k) ==
    /\ live /\ phase # "lapsed" /\ ~ CoolingDown
    /\ asked' = [asked EXCEPT ![q] = Started(q, k)]
    /\ Unrecorded

Ask(q) ==
    /\ asked[q].state = "new" /\ \A p \in 1 .. q - 1 : asked[p].state # "new"
    /\ \/ RefuseQuestion(q)
       \/ \E k \in Kind : AskStub(q, k) \/ AskLive(q, k)
    /\ UNCHANGED <<live, speech, now, phase, hearing>>

(***************************************************************************)
(* The live model returns an answer with any amounts, one with no text but *)
(* blanks, or nothing that fits the schema; or the client raises.          *)
(***************************************************************************)
Returns(q, s, raw) ==
    /\ asked[q].state = "waiting"
    /\ asked' = [asked EXCEPT ![q].state = s, ![q].raw = raw]
    /\ UNCHANGED <<live, speech, now, phase, history, lastAt, hearing, log>>

ModelReturns(q) ==
    \/ \E a \in Amount : Returns(q, "text", {a})
    \/ Returns(q, "blank", {})
    \/ Returns(q, "failed", {})

Close(q, c) == asked' = [asked EXCEPT ![q] = Over(asked[q], c)]

AcceptAnswer(q) ==
    /\ asked[q].state = "text" /\ Grounded(asked[q].raw, asked[q].view)
    /\ Close(q, 200)
    /\ Recorded(q, asked[q].view, asked[q].raw, "live")

\* Mutant: an answer that quotes other amounts is waited for again.
FallBackOnErrorOnly(q) ==
    /\ asked[q].state = "failed"
    /\ Close(q, 200)
    /\ Recorded(q, asked[q].view, Quotes(asked[q].kind, asked[q].view), "stub")

\* Any failure of the live answer is replaced by the template.
FallBack(q) ==
    /\ \/ asked[q].state = "failed"
       \/ asked[q].state = "text" /\ ~ Grounded(asked[q].raw, asked[q].view)
    /\ Close(q, 200)
    /\ Recorded(q, asked[q].view, Quotes(asked[q].kind, asked[q].view), "stub")

\* A blank answer fits the schema of the model's output; stripped, it no longer fits
\* the schema of the response, whose error nothing turns into an answer.
BlankAnswer(q) ==
    /\ asked[q].state = "blank"
    /\ Close(q, 500)
    /\ Unrecorded

Finish(q) ==
    /\ AcceptAnswer(q) \/ FallBack(q) \/ BlankAnswer(q)
    /\ UNCHANGED <<live, speech, now, phase, hearing>>

(***************************************************************************)
(* POST .../consultations/{id}/audio; the page asks for one at a time.     *)
(* Only a recorded answer is voiced; it is taken from the history before   *)
(* the provider is awaited. A recorded answer is never empty, and is cut   *)
(* to what the provider accepts. It fails with 404 if it has been cut from *)
(* the history, and with 500 if the provider has no key.                   *)
(***************************************************************************)
Known(q) == \E i \in 1 .. Len(history) : history[i].id = q

Hear(q) ==
    /\ asked[q].code = 200 /\ hearing # "speaking"
    /\ hearing' = CASE ~ Known(q) \/ speech = "keyless" -> "failed"
                    [] speech = "stub"                   -> "spoken"
                    [] OTHER                             -> "speaking"
    /\ UNCHANGED <<live, speech, now, phase, asked, history, lastAt, log>>

\* Audio, or an error: 502 for a SpeechError, 500 for an answer nothing foresees.
SpeechReturns ==
    /\ hearing = "speaking"
    /\ hearing' \in {"spoken", "failed"}
    /\ UNCHANGED <<live, speech, now, phase, asked, history, lastAt, log>>

Next ==
    \/ Tick
    \/ CaseMoves
    \/ \E q \in Question : Ask(q)
    \/ \E q \in Question : ModelReturns(q)
    \/ \E q \in Question : Finish(q)
    \/ \E q \in Question : Hear(q)
    \/ SpeechReturns

Spec == Init /\ [][Next]_vars

\* The model client gives up in the end (ModelGateway), and the event loop resumes
\* every handler whose await is over.
ConsultFairness == \A q \in Question : WF_vars(ModelReturns(q) \/ Finish(q))

FairSpec == Spec /\ ConsultFairness

-----------------------------------------------------------------------------
(***************************************************************************)
(* Properties.                                                             *)
(***************************************************************************)
\* However the answers of questions in flight overtake one another, the history is
\* the last Cap answers that were recorded, in that order.
HistoryIsTheLatest ==
    [i \in 1 .. Len(history) |-> history[i].id] =
    IF Len(log) > Cap THEN SubSeq(log, Len(log) - Cap + 1, Len(log)) ELSE log

\* Every amount of a recorded answer was a figure of the case when the question was
\* asked, whatever the model wrote and whatever the case did meanwhile.
AnswersAreGrounded ==
    \A i \in 1 .. Len(history) : history[i].quotes \subseteq KeyFigures(history[i].view)

Overlapping == \E i \in 1 .. Len(log) : asked[log[i]].seen # i - 1

\* As long as no question is put while another is being answered, the answered
\* questions of a case are a cooldown apart.
SpacedUnlessOverlapping ==
    ~ Overlapping =>
        \A i, j \in 1 .. Len(log) : i < j => asked[log[j]].at - asked[log[i]].at >= Cooldown

\* Every question that waits for the model is answered, whatever the model returns.
EveryQuestionIsAnswered ==
    \A q \in Question : asked[q].state = "waiting" ~> asked[q].state = "done"

=============================================================================
