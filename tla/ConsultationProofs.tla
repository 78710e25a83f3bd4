------------------------- MODULE ConsultationProofs -------------------------
(***************************************************************************)
(* Theorems about Consultation, for every number of questions, every       *)
(* cooldown and cap of the history, every provider and every amounts a     *)
(* model may write: what an answer quotes, what the history keeps, and     *)
(* that answers are a cooldown apart as long as no two questions overlap.  *)
(***************************************************************************)
EXTENDS Consultation, TLAPS

USE ConsultAssumption DEF ConsultAssumption

Phase == {"untreated", "treated", "recovered", "lapsed"}

Figure == UNION {KeyFigures(p) : p \in Phase}

\* The history is the tail of the log.
HistoryIsTail ==
    /\ Len(history) = IF Len(log) > Cap THEN Cap ELSE Len(log)
    /\ \A i \in 1 .. Len(history) : history[i].id = log[Len(log) - Len(history) + i]

\* The answers that quote the context they were given in.
Entry == {e \in [id : Question, quotes : SUBSET Figure, view : Phase, model : {"stub", "live"}] :
             e.quotes \subseteq KeyFigures(e.view)}

ConsultInv ==
    /\ phase \in Phase
    /\ DOMAIN asked = Question
    /\ \A q \in Question : asked[q].view \in Phase
    /\ log \in Seq(Question)
    /\ history \in Seq(Entry)
    /\ HistoryIsTail

-----------------------------------------------------------------------------
\* The template quotes only figures of its context.
LEMMA TemplateIsGrounded ==
    ASSUME NEW k, NEW p \in Phase
    PROVE  Quotes(k, p) \subseteq KeyFigures(p)
BY DEF Quotes, KeyFigures, OutcomeFigures

LEMMA CutType ==
    ASSUME NEW S, NEW s \in Seq(S)
    PROVE  /\ Cut(s) \in Seq(S)
           /\ Len(Cut(s)) = IF Len(s) > Cap THEN Cap ELSE Len(s)
           /\ \A i \in 1 .. Len(Cut(s)) : Cut(s)[i] = s[Len(s) - Len(Cut(s)) + i]
<1>1. CASE Len(s) > Cap
  <2>1. Len(s) - Cap + 1 \in 1 .. Len(s) /\ Len(s) \in Nat
      BY <1>1
  <2>2. /\ SubSeq(s, Len(s) - Cap + 1, Len(s)) \in Seq(S)
        /\ Len(SubSeq(s, Len(s) - Cap + 1, Len(s))) = Cap
        /\ \A i \in 1 .. Cap :
              SubSeq(s, Len(s) - Cap + 1, Len(s))[i] = s[Len(s) - Cap + i]
      BY <1>1, <2>1
  <2> QED
      BY <1>1, <2>2 DEF Cut
<1>2. CASE ~ (Len(s) > Cap)
    BY <1>2 DEF Cut
<1> QED
    BY <1>1, <1>2

\* An answer that is recorded.
LEMMA RecordingKeeps ==
    ASSUME ConsultInv, NEW q \in Question, NEW v \in Phase, NEW quotes, NEW by \in {"stub", "live"},
           quotes \subseteq KeyFigures(v), Recorded(q, v, quotes, by)
    PROVE  log' \in Seq(Question) /\ history' \in Seq(Entry) /\ HistoryIsTail'
<1> DEFINE e == Record(q, v, quotes, by)
           longer == Append(history, e)
<1>1. history' = Cut(longer) /\ log' = Append(log, q)
    BY DEF Recorded
<1>2. e \in Entry /\ e.id = q
    BY DEF Record, Entry, Figure
<1> HIDE DEF e
<1>3. /\ longer \in Seq(Entry) /\ Len(longer) = Len(history) + 1
      /\ longer[Len(history) + 1] = e
      /\ \A i \in 1 .. Len(history) : longer[i] = history[i]
    BY <1>2 DEF ConsultInv
<1>4. /\ log' \in Seq(Question) /\ Len(log') = Len(log) + 1 /\ log'[Len(log) + 1] = q
      /\ \A i \in 1 .. Len(log) : log'[i] = log[i]
    BY <1>1 DEF ConsultInv
<1> HIDE DEF longer
<1>5. /\ history' \in Seq(Entry)
      /\ Len(history') = IF Len(longer) > Cap THEN Cap ELSE Len(longer)
      /\ \A i \in 1 .. Len(history') : history'[i] = longer[Len(longer) - Len(history') + i]
    BY <1>1, <1>3, CutType
<1>6. /\ Len(log) \in Nat /\ Len(history) \in Nat /\ Len(history') \in Nat
      /\ Len(history) <= Len(log)
      /\ Len(history) = IF Len(log) > Cap THEN Cap ELSE Len(log)
      /\ \A i \in 1 .. Len(history) : history[i].id = log[Len(log) - Len(history) + i]
  <2>1. log \in Seq(Question) /\ history \in Seq(Entry) /\ HistoryIsTail
      BY DEF ConsultInv
  <2>2. Len(log) \in Nat /\ Len(history) \in Nat /\ Len(history') \in Nat
      BY <2>1, <1>5
  <2>3. Len(history) = IF Len(log) > Cap THEN Cap ELSE Len(log)
      BY <2>1 DEF HistoryIsTail
  <2>4. Len(history) <= Len(log)
      BY <2>2, <2>3
  <2>5. \A i \in 1 .. Len(history) : history[i].id = log[Len(log) - Len(history) + i]
      BY <2>1 DEF HistoryIsTail
  <2> QED
      BY <2>2, <2>3, <2>4, <2>5
<1>7. Len(history') = IF Len(log') > Cap THEN Cap ELSE Len(log')
    BY <1>3, <1>4, <1>5, <1>6
<1>8. ASSUME NEW i \in 1 .. Len(history')
      PROVE  history'[i].id = log'[Len(log') - Len(history') + i]
  <2> DEFINE j == Len(longer) - Len(history') + i
  <2>1. /\ Len(log) \in Nat /\ Len(history) \in Nat /\ Len(history') \in Nat /\ i \in Int
        /\ Len(longer) = Len(history) + 1 /\ Len(log') = Len(log) + 1
      BY <1>3, <1>4, <1>6, <1>8
  <2>2. Len(history') <= Len(longer) /\ Len(longer) = Len(history) + 1
      BY <1>3, <1>5, <1>6
  <2>3. history'[i] = longer[j]
      BY <1>5, <1>8
  <2>4. j \in 1 .. Len(history) + 1
      BY <1>8, <2>1, <2>2
  <2>5. Len(log') - Len(history') + i = Len(log) - Len(history) + j
      BY <2>1
  <2> HIDE DEF j
  <2>6. CASE j = Len(history) + 1
    <3>1. Len(log) - Len(history) + j = Len(log) + 1
        BY <1>6, <2>6
    <3> QED
        BY <1>2, <1>3, <1>4, <2>3, <2>5, <2>6, <3>1
  <2>7. CASE j \in 1 .. Len(history)
    <3>1. longer[j] = history[j] /\ history[j].id = log[Len(log) - Len(history) + j]
        BY <1>3, <1>6, <2>7
    <3>2. Len(log) - Len(history) + j \in 1 .. Len(log)
        BY <1>6, <2>7
    <3>3. log'[Len(log) - Len(history) + j] = log[Len(log) - Len(history) + j]
        BY <1>4, <3>2
    <3> QED
        BY <2>3, <2>5, <3>1, <3>3
  <2> QED
      BY <1>6, <2>4, <2>6, <2>7
<1> QED
    BY <1>4, <1>5, <1>7, <1>8 DEF HistoryIsTail

-----------------------------------------------------------------------------
LEMMA ConsultInitInv == Init => ConsultInv
<1> SUFFICES ASSUME Init PROVE ConsultInv
    OBVIOUS
<1>1. phase \in Phase /\ DOMAIN asked = Question /\ \A q \in Question : asked[q].view \in Phase
    BY DEF Init, Phase, Unasked
<1>2. log = <<>> /\ history = <<>>
    BY DEF Init
<1>3. log \in Seq(Question) /\ history \in Seq(Entry) /\ HistoryIsTail
    BY <1>2 DEF HistoryIsTail
<1> QED
    BY <1>1, <1>3 DEF ConsultInv

\* A step that records nothing.
LEMMA UnrecordedKeeps ==
    ASSUME ConsultInv, UNCHANGED <<log, history>>, phase' \in Phase,
           DOMAIN asked' = Question, \A q \in Question : asked'[q].view \in Phase
    PROVE  ConsultInv'
BY DEF ConsultInv, HistoryIsTail

LEMMA ConsultStepInv == ConsultInv /\ [Next]_vars => ConsultInv'
<1> SUFFICES ASSUME ConsultInv, [Next]_vars PROVE ConsultInv'
    OBVIOUS
<1>1. /\ phase \in Phase /\ DOMAIN asked = Question
      /\ \A q \in Question : asked[q].view \in Phase
    BY DEF ConsultInv
<1>2. CASE UNCHANGED vars
    BY <1>1, <1>2, UnrecordedKeeps DEF vars
<1>3. CASE Tick
    BY <1>1, <1>3, UnrecordedKeeps DEF Tick
<1>4. CASE CaseMoves
    BY <1>1, <1>4, UnrecordedKeeps DEF CaseMoves, Phase
<1>5. ASSUME NEW q \in Question, Ask(q) PROVE ConsultInv'
  <2>1. phase' = phase
      BY <1>5 DEF Ask
  <2>2. CASE RefuseQuestion(q)
    <3>1. /\ DOMAIN asked' = Question /\ UNCHANGED <<log, history>>
          /\ \A p \in Question : asked'[p].view = asked[p].view
      <4>1. PICK code \in {422, 500, 429} : Refuse(q, code)
          BY <2>2 DEF RefuseQuestion
      <4>2. /\ asked' = [asked EXCEPT ![q].state = "done", ![q].code = code]
            /\ UNCHANGED <<log, history>>
          BY <4>1 DEF Refuse, Unrecorded
      <4>3. asked' = [asked EXCEPT ![q] = [asked[q] EXCEPT !.state = "done", !.code = code]]
          BY <1>1, <4>2
      <4>4. [asked[q] EXCEPT !.state = "done", !.code = code].view = asked[q].view
          OBVIOUS
      <4> QED
          BY <1>1, <4>2, <4>3, <4>4
    <3> QED
        BY <1>1, <2>1, <3>1, UnrecordedKeeps
  <2>3. ASSUME NEW k \in Kind, AskStub(q, k) PROVE ConsultInv'
    <3>1. /\ asked' = [asked EXCEPT ![q] = Over(Started(q, k), 200)]
          /\ Recorded(q, phase, Quotes(k, phase), "stub")
        BY <2>3 DEF AskStub
    <3>2. Over(Started(q, k), 200).view = "untreated"
        BY DEF Over, Started, Unasked
    <3>3. DOMAIN asked' = Question /\ \A p \in Question : asked'[p].view \in Phase
        BY <1>1, <3>1, <3>2 DEF Phase
    <3>4. Quotes(k, phase) \subseteq KeyFigures(phase)
        BY <1>1, TemplateIsGrounded
    <3>5. log' \in Seq(Question) /\ history' \in Seq(Entry) /\ HistoryIsTail'
        BY <1>1, <3>1, <3>4, RecordingKeeps
    <3> QED
        BY <1>1, <2>1, <3>3, <3>5 DEF ConsultInv
  <2>4. ASSUME NEW k \in Kind, AskLive(q, k) PROVE ConsultInv'
    <3>1. asked' = [asked EXCEPT ![q] = Started(q, k)] /\ UNCHANGED <<log, history>>
        BY <2>4 DEF AskLive, Unrecorded
    <3>2. Started(q, k).view = phase
        BY DEF Started, Unasked
    <3> QED
        BY <1>1, <2>1, <3>1, <3>2, UnrecordedKeeps
  <2> QED
      BY <1>5, <2>2, <2>3, <2>4 DEF Ask
<1>6. ASSUME NEW q \in Question, ModelReturns(q) PROVE ConsultInv'
  <2>1. PICK s \in {"text", "blank", "failed"}, raw \in {{a} : a \in Amount} \cup {{}} :
            Returns(q, s, raw)
      BY <1>6 DEF ModelReturns
  <2>2. /\ DOMAIN asked' = Question /\ UNCHANGED <<log, history, phase>>
        /\ \A p \in Question : asked'[p].view = asked[p].view
      BY <1>1, <2>1 DEF Returns
  <2> QED
      BY <1>1, <2>2, UnrecordedKeeps
<1>7. ASSUME NEW q \in Question, Finish(q) PROVE ConsultInv'
  <2>1. phase' = phase
      BY <1>7 DEF Finish
  <2>2. ASSUME NEW code, Close(q, code)
        PROVE  DOMAIN asked' = Question /\ \A p \in Question : asked'[p].view \in Phase
    <3>1. asked' = [asked EXCEPT ![q] = Over(asked[q], code)]
        BY <2>2 DEF Close
    <3>2. \A p \in Question \ {q} : asked'[p] = asked[p]
        BY <1>1, <3>1
    <3>3. asked'[q].view \in Phase
      <4>1. asked'[q] = Over(asked[q], code)
          BY <1>1, <3>1
      <4>2. Over(asked[q], code).view \in {"untreated", asked[q].view}
          BY DEF Over
      <4> QED
          BY <1>1, <4>1, <4>2 DEF Phase
    <3> QED
        BY <1>1, <3>1, <3>2, <3>3
  <2>3. ASSUME NEW quotes, NEW by \in {"stub", "live"}, Close(q, 200),
               quotes \subseteq KeyFigures(asked[q].view),
               Recorded(q, asked[q].view, quotes, by)
        PROVE  ConsultInv'
    <3>1. log' \in Seq(Question) /\ history' \in Seq(Entry) /\ HistoryIsTail'
        BY <1>1, <2>3, RecordingKeeps
    <3> QED
        BY <1>1, <2>1, <2>2, <2>3, <3>1 DEF ConsultInv
  <2>4. CASE AcceptAnswer(q)
      BY <2>3, <2>4 DEF AcceptAnswer, Grounded
  <2>5. CASE FallBack(q)
      BY <1>1, <2>3, <2>5, TemplateIsGrounded DEF FallBack
  <2>6. CASE BlankAnswer(q)
      BY <1>1, <2>1, <2>2, <2>6, UnrecordedKeeps DEF BlankAnswer, Unrecorded
  <2> QED
      BY <1>7, <2>4, <2>5, <2>6 DEF Finish
<1>8. CASE (\E q \in Question : Hear(q)) \/ SpeechReturns
    BY <1>1, <1>8, UnrecordedKeeps DEF Hear, SpeechReturns
<1> QED
    BY <1>2, <1>3, <1>4, <1>5, <1>6, <1>7, <1>8 DEF Next

-----------------------------------------------------------------------------
(***************************************************************************)
(* The theorems.                                                           *)
(***************************************************************************)
\* However questions and answers overlap, the invariant holds.
THEOREM ConsultInvariance == Spec => []ConsultInv
<1> QED
    BY ConsultInitInv, ConsultStepInv, PTL DEF Spec

\* Nobody hears an amount that was not a figure of the case (_check_rupee_grounding).
THEOREM AnswersGrounded == Spec => []AnswersAreGrounded
<1>1. ConsultInv => AnswersAreGrounded
    BY DEF ConsultInv, AnswersAreGrounded, Entry
<1> QED
    BY <1>1, ConsultInvariance, PTL

\* The history is the tail of all answers (history_cap).
THEOREM HistoryLatest == Spec => []HistoryIsTheLatest
<1>1. ConsultInv => HistoryIsTheLatest
  <2> SUFFICES ASSUME ConsultInv PROVE HistoryIsTheLatest
      OBVIOUS
  <2> DEFINE ids == [i \in 1 .. Len(history) |-> history[i].id]
  <2>1. /\ log \in Seq(Question) /\ history \in Seq(Entry)
        /\ Len(log) \in Nat /\ Len(history) \in Nat
      BY DEF ConsultInv
  <2>2. /\ Len(history) = IF Len(log) > Cap THEN Cap ELSE Len(log)
        /\ \A i \in 1 .. Len(history) : history[i].id = log[Len(log) - Len(history) + i]
      BY DEF ConsultInv, HistoryIsTail
  <2>3. CASE Len(log) > Cap
    <3>1. Len(log) - Cap + 1 \in 1 .. Len(log) /\ Len(history) = Cap
        BY <2>1, <2>2, <2>3
    <3>2. SubSeq(log, Len(log) - Cap + 1, Len(log)) =
             [i \in 1 .. Cap |-> log[Len(log) - Cap + i]]
      <4>1. Len(log) - (Len(log) - Cap + 1) + 1 = Cap
          BY <2>1
      <4>2. \A i \in 1 .. Cap : (Len(log) - Cap + 1) + i - 1 = Len(log) - Cap + i
          BY <2>1
      <4> QED
          BY <2>1, <3>1, <4>1, <4>2
    <3> QED
        BY <2>2, <2>3, <3>1, <3>2 DEF HistoryIsTheLatest
  <2>4. CASE ~ (Len(log) > Cap)
    <3>1. ids = [i \in 1 .. Len(log) |-> log[i]]
        BY <2>1, <2>2, <2>4
    <3>2. log = [i \in 1 .. Len(log) |-> log[i]]
        BY <2>1
    <3> QED
        BY <2>4, <3>1, <3>2 DEF HistoryIsTheLatest
  <2> QED
      BY <2>3, <2>4
<1> QED
    BY <1>1, ConsultInvariance, PTL

-----------------------------------------------------------------------------
(***************************************************************************)
(* The cooldown. A request that saw the whole log when it started came a   *)
(* cooldown after the last answer in it; so if every answer was asked for  *)
(* with the log as it was when it was recorded, they are a cooldown apart. *)
(***************************************************************************)
Request(r) ==
    /\ DOMAIN r = {"state", "kind", "at", "view", "seen", "raw", "code"}
    /\ r.state \in {"new", "waiting", "text", "blank", "failed", "done"}
    /\ r.at \in Nat /\ r.seen \in Nat

InFlight(r) == r.state \in {"waiting", "text", "blank", "failed"}

\* If request r saw the whole log l of the requests rs, it came a cooldown after it.
Apart(r, rs, l) == r.seen = Len(l) /\ l # <<>> => r.at - rs[l[Len(l)]].at >= Cooldown

SpacingInv ==
    /\ now \in Nat
    /\ \A q \in Question :
          /\ Request(asked[q])
          /\ InFlight(asked[q]) => asked[q].seen <= Len(log) /\ Apart(asked[q], asked, log)
    /\ \A i \in 1 .. Len(log) : asked[log[i]].state = "done"
    /\ lastAt = IF log = <<>> THEN None ELSE asked[log[Len(log)]].at
    /\ SpacedUnlessOverlapping

\* A step that records nothing, and whose requests keep what the spacing needs.
LEMMA SpacingUnrecorded ==
    ASSUME ConsultInv, SpacingInv, UNCHANGED <<log, lastAt>>, now' \in Nat,
           \A q \in Question : asked'[q] # asked[q] =>
              /\ asked[q].state # "done"
              /\ Request(asked'[q])
              /\ InFlight(asked'[q]) => /\ asked'[q].seen <= Len(log)
                                        /\ Apart(asked'[q], asked, log)
    PROVE  SpacingInv'
<1>1. /\ log \in Seq(Question) /\ Len(log) \in Nat
      /\ \A i \in 1 .. Len(log) : log[i] \in Question
    BY DEF ConsultInv
<1>2. \A i \in 1 .. Len(log) : asked'[log[i]] = asked[log[i]]
    BY <1>1 DEF SpacingInv
<1>3. log # <<>> => Len(log) \in 1 .. Len(log)
    BY <1>1
<1>4. \A r : Apart(r, asked, log) => Apart(r, asked', log')
    BY <1>2, <1>3 DEF Apart
<1>5. ASSUME NEW q \in Question
      PROVE  /\ Request(asked'[q])
             /\ InFlight(asked'[q]) => /\ asked'[q].seen <= Len(log')
                                       /\ Apart(asked'[q], asked', log')
    <2>1. CASE asked'[q] # asked[q]
        BY <1>4, <2>1
    <2>2. CASE asked'[q] = asked[q]
        BY <1>4, <2>2 DEF SpacingInv
    <2> QED
        BY <2>1, <2>2
<1>6. SpacedUnlessOverlapping'
    BY <1>2 DEF SpacingInv, SpacedUnlessOverlapping, Overlapping
<1>7. lastAt' = IF log' = <<>> THEN None ELSE asked'[log'[Len(log')]].at
    BY <1>2, <1>3 DEF SpacingInv
<1> QED
    BY <1>2, <1>5, <1>6, <1>7 DEF SpacingInv

\* A step that records the answer of a request.
LEMMA SpacingRecorded ==
    ASSUME ConsultInv, SpacingInv, NEW q \in Question, asked[q].state # "done",
           \A p \in Question \ {q} : asked'[p] = asked[p],
           asked'[q].state = "done", Request(asked'[q]),
           Apart(asked'[q], asked, log),
           now' \in Nat, log' = Append(log, q), lastAt' = asked'[q].at
    PROVE  SpacingInv'
<1> DEFINE n == Len(log)
<1>1. /\ log \in Seq(Question) /\ n \in Nat
      /\ \A i \in 1 .. n : log[i] \in Question \ {q} /\ log'[i] = log[i]
      /\ Len(log') = n + 1 /\ log'[n + 1] = q /\ log' # <<>>
    BY DEF ConsultInv, SpacingInv
<1>2. \A i \in 1 .. n : asked'[log'[i]] = asked[log[i]]
    BY <1>1
<1>3. ASSUME NEW p \in Question
      PROVE  /\ Request(asked'[p])
             /\ InFlight(asked'[p]) => /\ asked'[p].seen <= Len(log')
                                       /\ Apart(asked'[p], asked', log')
    <2>1. CASE p = q
        BY <2>1 DEF InFlight
    <2>2. CASE p # q
        <3>1. /\ asked'[p] = asked[p] /\ Request(asked[p])
              /\ InFlight(asked[p]) => asked[p].seen <= n
            BY <2>2 DEF SpacingInv
        <3>2. InFlight(asked[p]) => asked[p].seen # n + 1 /\ asked[p].seen <= n + 1
            BY <1>1, <3>1 DEF Request
        <3> QED
            BY <1>1, <3>1, <3>2 DEF Apart
    <2> QED
        BY <2>1, <2>2
<1>4. \A i \in 1 .. Len(log') : asked'[log'[i]].state = "done"
    BY <1>1, <1>2 DEF SpacingInv
<1>5. SpacedUnlessOverlapping'
    <2> SUFFICES ASSUME ~ Overlapping', NEW i \in 1 .. n + 1, NEW j \in 1 .. n + 1, i < j
                 PROVE  asked'[log'[j]].at - asked'[log'[i]].at >= Cooldown
        BY <1>1 DEF SpacedUnlessOverlapping
    <2>1. \A k \in 1 .. n + 1 : asked'[log'[k]].seen = k - 1
        BY <1>1 DEF Overlapping
    <2>2. ~ Overlapping
        <3>1. \A k \in 1 .. n : k \in 1 .. n + 1
            BY <1>1
        <3>2. \A k \in 1 .. n : asked[log[k]].seen = k - 1
            BY <1>2, <2>1, <3>1
        <3> QED
            BY <3>2 DEF Overlapping
    <2>3. \A k, l \in 1 .. n : k < l => asked[log[l]].at - asked[log[k]].at >= Cooldown
        BY <2>2 DEF SpacingInv, SpacedUnlessOverlapping
    <2>4. CASE j \in 1 .. n
        BY <1>1, <1>2, <2>3, <2>4
    <2>5. CASE j = n + 1
        <3>1. n # 0 /\ n \in 1 .. n /\ i \in 1 .. n /\ log # <<>>
            BY <1>1, <2>5
        <3>2. asked'[q].seen = n
            BY <1>1, <2>1
        <3>3. asked'[q].at - asked[log[n]].at >= Cooldown
            BY <3>1, <3>2 DEF Apart
        <3>4. i = n \/ asked[log[n]].at - asked[log[i]].at >= Cooldown
            BY <2>3, <3>1
        <3>5. /\ asked[log[n]].at \in Nat /\ asked[log[i]].at \in Nat /\ asked'[q].at \in Nat
              /\ Cooldown \in Nat
            BY <1>1, <3>1 DEF SpacingInv, Request
        <3>6. asked'[log'[j]] = asked'[q] /\ asked'[log'[i]] = asked[log[i]]
            BY <1>1, <1>2, <2>5, <3>1
        <3>7. asked'[q].at - asked[log[i]].at >= Cooldown
            BY <3>3, <3>4, <3>5
        <3> QED
            BY <3>6, <3>7
    <2> QED
        BY <1>1, <2>4, <2>5
<1> QED
    BY <1>1, <1>3, <1>4, <1>5 DEF SpacingInv

LEMMA SpacingInit == Init => SpacingInv
<1> SUFFICES ASSUME Init PROVE SpacingInv
    OBVIOUS
<1>1. \A q \in Question : Request(asked[q]) /\ asked[q].state = "new"
    BY DEF Init, Unasked, Request
<1>2. log = <<>> /\ Len(log) = 0 /\ now = 0 /\ lastAt = None
    BY DEF Init
<1> QED
    BY <1>1, <1>2 DEF SpacingInv, SpacedUnlessOverlapping, InFlight

\* A request that may start now is a cooldown after the last answer.
LEMMA StartIsApart ==
    ASSUME ConsultInv, SpacingInv, ~ CoolingDown, NEW r, r.at = now
    PROVE  Apart(r, asked, log)
<1> SUFFICES ASSUME log # <<>> PROVE now - asked[log[Len(log)]].at >= Cooldown
    BY DEF Apart
<1>1. log[Len(log)] \in Question
    BY DEF ConsultInv
<1>2. lastAt = asked[log[Len(log)]].at /\ lastAt \in Nat /\ now \in Nat
    BY <1>1 DEF SpacingInv, Request
<1> QED
    BY <1>2 DEF CoolingDown

LEMMA SpacingNext == ConsultInv /\ SpacingInv /\ [Next]_vars => SpacingInv'
<1> SUFFICES ASSUME ConsultInv, SpacingInv, [Next]_vars PROVE SpacingInv'
    OBVIOUS
<1>1. /\ DOMAIN asked = Question /\ log \in Seq(Question) /\ Len(log) \in Nat /\ now \in Nat
      /\ \A q \in Question :
            /\ Request(asked[q])
            /\ InFlight(asked[q]) => /\ asked[q].seen <= Len(log)
                                     /\ Apart(asked[q], asked, log)
    BY DEF ConsultInv, SpacingInv
<1>2. CASE \/ Tick \/ CaseMoves \/ (\E q \in Question : Hear(q)) \/ SpeechReturns
           \/ UNCHANGED vars
    <2>1. UNCHANGED <<asked, log, lastAt>> /\ now' \in Nat
        BY <1>1, <1>2 DEF Tick, CaseMoves, Hear, SpeechReturns, vars
    <2> QED
        BY <2>1, SpacingUnrecorded
<1>3. ASSUME NEW q \in Question, Ask(q) PROVE SpacingInv'
    <2>1. now' = now /\ asked[q].state = "new"
        BY <1>3 DEF Ask
    <2>2. CASE RefuseQuestion(q)
        <3>1. PICK c : Refuse(q, c)
            BY <2>2 DEF RefuseQuestion
        <3>2. /\ UNCHANGED <<log, lastAt>>
              /\ asked' = [asked EXCEPT ![q] = [asked[q] EXCEPT !.state = "done", !.code = c]]
            BY <1>1, <3>1 DEF Refuse, Unrecorded
        <3>3. asked'[q].state = "done" /\ Request(asked'[q])
            BY <1>1, <3>2 DEF Request
        <3>4. \A p \in Question \ {q} : asked'[p] = asked[p]
            BY <1>1, <3>2
        <3> QED
            BY <1>1, <2>1, <3>2, <3>3, <3>4, SpacingUnrecorded DEF InFlight
    <2>3. ASSUME NEW k \in Kind, AskStub(q, k) PROVE SpacingInv'
        <3>1. /\ asked' = [asked EXCEPT ![q] = Over(Started(q, k), 200)]
              /\ log' = Append(log, q) /\ lastAt' = asked'[q].at /\ ~ CoolingDown
            BY <2>3 DEF AskStub, Recorded
        <3>2. /\ Over(Started(q, k), 200).state = "done" /\ Over(Started(q, k), 200).at = now
              /\ Request(Over(Started(q, k), 200))
            BY <1>1 DEF Over, Started, Unasked, Request
        <3>3. /\ asked'[q].state = "done" /\ asked'[q].at = now /\ Request(asked'[q])
              /\ \A p \in Question \ {q} : asked'[p] = asked[p]
            BY <1>1, <3>1, <3>2
        <3> QED
            BY <1>1, <2>1, <3>1, <3>3, SpacingRecorded, StartIsApart
    <2>4. ASSUME NEW k \in Kind, AskLive(q, k) PROVE SpacingInv'
        <3>1. /\ asked' = [asked EXCEPT ![q] = Started(q, k)]
              /\ UNCHANGED <<log, lastAt>> /\ ~ CoolingDown
            BY <2>4 DEF AskLive, Unrecorded
        <3>2. /\ Started(q, k).state = "waiting" /\ Started(q, k).at = now
              /\ Started(q, k).seen = Len(log) /\ Request(Started(q, k))
            BY <1>1 DEF Started, Unasked, Request
        <3>3. /\ asked'[q].state = "waiting" /\ asked'[q].at = now /\ asked'[q].seen = Len(log)
              /\ Request(asked'[q])
              /\ \A p \in Question \ {q} : asked'[p] = asked[p]
            BY <1>1, <3>1, <3>2
        <3> QED
            BY <1>1, <2>1, <3>1, <3>3, SpacingUnrecorded, StartIsApart
    <2> QED
        BY <1>3, <2>2, <2>3, <2>4 DEF Ask
<1>4. ASSUME NEW q \in Question, ModelReturns(q) PROVE SpacingInv'
    <2>1. PICK s \in {"text", "blank", "failed"}, raw \in {{a} : a \in Amount} \cup {{}} :
              Returns(q, s, raw)
        BY <1>4 DEF ModelReturns
    <2>2. /\ asked' = [asked EXCEPT ![q] = [asked[q] EXCEPT !.state = s, !.raw = raw]]
          /\ UNCHANGED <<log, lastAt, now>> /\ asked[q].state = "waiting"
        BY <1>1, <2>1 DEF Returns
    <2>3. /\ asked'[q].state = s /\ asked'[q].at = asked[q].at /\ asked'[q].seen = asked[q].seen
          /\ Request(asked'[q])
          /\ \A p \in Question \ {q} : asked'[p] = asked[p]
        BY <1>1, <2>2 DEF Request
    <2>4. InFlight(asked[q]) /\ Apart(asked'[q], asked, log)
        BY <1>1, <2>2, <2>3 DEF InFlight, Apart
    <2>5. asked[q].state # "done" /\ asked'[q].seen <= Len(log)
        BY <1>1, <2>2, <2>3, <2>4
    <2> QED
        BY <1>1, <2>2, <2>3, <2>4, <2>5, SpacingUnrecorded
<1>5. ASSUME NEW q \in Question, Finish(q) PROVE SpacingInv'
    <2>1. InFlight(asked[q]) /\ now' = now
        BY <1>5 DEF Finish, AcceptAnswer, FallBack, BlankAnswer, InFlight
    <2>2. PICK c : Close(q, c)
        BY <1>5 DEF Finish, AcceptAnswer, FallBack, BlankAnswer
    <2>3. /\ asked' = [asked EXCEPT ![q] = Over(asked[q], c)]
        BY <2>2 DEF Close
    <2>4. /\ asked'[q].state = "done" /\ asked'[q].at = asked[q].at
          /\ asked'[q].seen = asked[q].seen /\ Request(asked'[q])
          /\ \A p \in Question \ {q} : asked'[p] = asked[p]
        BY <1>1, <2>3 DEF Over, Request
    <2>5. \/ UNCHANGED <<log, lastAt>>
          \/ log' = Append(log, q) /\ lastAt' = asked'[q].at
        BY <1>5 DEF Finish, AcceptAnswer, FallBack, BlankAnswer, Recorded, Unrecorded
    <2>6. asked[q].state # "done" /\ Apart(asked'[q], asked, log)
        BY <1>1, <2>1, <2>4 DEF InFlight, Apart
    <2>7. CASE UNCHANGED <<log, lastAt>>
        BY <1>1, <2>1, <2>4, <2>6, <2>7, SpacingUnrecorded DEF InFlight
    <2>8. CASE log' = Append(log, q) /\ lastAt' = asked'[q].at
        BY <1>1, <2>1, <2>4, <2>6, <2>8, SpacingRecorded
    <2> QED
        BY <2>5, <2>7, <2>8
<1> QED
    BY <1>2, <1>3, <1>4, <1>5 DEF Next

\* As long as questions do not overlap, the answered ones are a cooldown apart
\* (cooldown_seconds, read before the model is awaited and stored after).
THEOREM AnswersSpaced == Spec => []SpacedUnlessOverlapping
<1>1. SpacingInv => SpacedUnlessOverlapping
    BY DEF SpacingInv
<1> QED
    BY <1>1, SpacingInit, SpacingNext, ConsultInvariance, PTL DEF Spec
=============================================================================
