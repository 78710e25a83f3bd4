------------------------- MODULE LiveProviderProofs -------------------------
(***************************************************************************)
(* Theorems about the live payment provider. Of LiveExecution, for every   *)
(* number of targets and every set of calls: an outcome is built from one  *)
(* execution that created all its links, and which links exist can be told *)
(* from how the calls ended. Of ProviderListing, for every number of items *)
(* and every page limit: a listing that ends without an error is complete. *)
(*                                                                         *)
(* The first two rest on what is still on its way to the provider. A call  *)
(* has at most one request there, for the link it is at and whose answer   *)
(* it has not read; so an answer is never about an earlier link, and a     *)
(* link that the call does not know of can only be the one it gave up.     *)
(***************************************************************************)
EXTENDS LiveExecution, ProviderListing, SequenceTheorems, TLAPS

USE ExecutionAssumption DEF ExecutionAssumption

Error == {"none", "ValueError", "RuntimeError", "timeout", "aggregation",
          "conflict", "refused", "unavailable"}

Record == [pc     : {"new", "posting", "done"},
           got    : 0 .. N,
           reply  : {"none", "created", "conflict", "refused", "unavailable"},
           status : {"none", "EXECUTING", "SUCCEEDED", "FAILED"},
           error  : Error]

ExecTypeOK ==
    /\ mode \in {"live", "keyless", "stub"}
    /\ valid \in BOOLEAN
    /\ call \in [Call -> Record]
    /\ flight \subseteq [call : Call, target : Target]
    /\ owner \in [Target -> Call \cup {NoCall}]
    /\ kept \subseteq Call
    /\ outcome \in Call \cup {NoCall}

(***************************************************************************)
(* The strengthening.                                                      *)
(***************************************************************************)
\* What the record of a call says of its progress.
CallIsSound(c) ==
    /\ call[c].pc = "new" => call[c] = Unstarted
    /\ call[c].pc = "posting" => /\ mode = "live"
                                 /\ call[c].got < N
                                 /\ call[c].status = "EXECUTING"
    /\ call[c].reply # "none" => call[c].pc = "posting"
    /\ call[c].status = "SUCCEEDED" => call[c].pc = "done" /\ call[c].got = N
    /\ call[c].reply = "created" => owner[call[c].got + 1] = c
    /\ call[c].reply \in {"conflict", "refused"} => owner[call[c].got + 1] # c

\* A request on its way is for the link its call is at, and has no answer yet.
RequestIsOpen(r) ==
    /\ mode = "live"
    /\ r.target = call[r.call].got + 1
    /\ owner[r.target] # r.call
    /\ call[r.call].reply = "none"
    /\ call[r.call].pc = "posting" \/ call[r.call].error = "timeout"

\* The outcome watches a whole set of links.
OutcomeIsBacked ==
    outcome # NoCall =>
        /\ call[outcome].status = "SUCCEEDED" /\ outcome \in kept
        /\ \A t \in Target : owner[t] # NoCall

ExecInv ==
    /\ ExecTypeOK
    /\ \A c \in Call : CallIsSound(c)
    /\ \A r \in flight : RequestIsOpen(r)
    /\ OutcomeIsBacked
    /\ OnlyTimeoutsAreAmbiguous

-----------------------------------------------------------------------------
(***************************************************************************)
(* Facts that hold in every state of the invariant.                        *)
(***************************************************************************)
\* Two calls of which every link is their own are the same call.
LEMMA OneOwner ==
    ASSUME ExecInv, mode = "live", NEW c \in Call, NEW d \in Call,
           call[c].got = N, call[d].got = N
    PROVE  c = d
<1>1. 1 \in Target /\ 1 <= N
    BY DEF Target
<1>2. owner[1] = c /\ owner[1] = d
    BY <1>1 DEF ExecInv, OnlyTimeoutsAreAmbiguous
<1> QED
    BY <1>2

LEMMA WholeFromInv == ExecInv => OutcomeIsWhole
<1> SUFFICES ASSUME ExecInv PROVE OutcomeIsWhole
    OBVIOUS
<1>1. outcome # NoCall => outcome \in Call /\ call[outcome].got = N
    BY DEF ExecInv, ExecTypeOK, OutcomeIsBacked, CallIsSound
<1>2. outcome # NoCall =>
          /\ call[outcome].status = "SUCCEEDED" /\ call[outcome].got = N /\ outcome \in kept
          /\ \A t \in Target : owner[t] # NoCall
    BY <1>1 DEF ExecInv, OutcomeIsBacked
<1>3. ASSUME mode = "live", NEW c \in Call, NEW d \in Call,
             call[c].status = "SUCCEEDED", call[d].status = "SUCCEEDED"
      PROVE  c = d
    BY <1>3, OneOwner DEF ExecInv, CallIsSound
<1>4. ASSUME mode = "live", outcome # NoCall, NEW t \in Target
      PROVE  owner[t] = outcome
    BY <1>1, <1>4 DEF ExecInv, OnlyTimeoutsAreAmbiguous, Target
<1> QED
    BY <1>2, <1>3, <1>4 DEF OutcomeIsWhole

\* No link is owned by a call that has not begun.
LEMMA NewOwnsNothing ==
    ASSUME ExecInv, mode = "live", NEW c \in Call, call[c].pc = "new", NEW t \in Target
    PROVE  owner[t] # c
BY DEF ExecInv, CallIsSound, Unstarted, OnlyTimeoutsAreAmbiguous, Target

\* A request in flight is known by its call.
LEMMA OneRequest ==
    ASSUME ExecInv, NEW r \in flight, NEW s \in flight, r.call = s.call
    PROVE  r = s
<1>1. r \in [call : Call, target : Target] /\ s \in [call : Call, target : Target]
    BY DEF ExecInv, ExecTypeOK
<1>2. r.target = s.target
    BY DEF ExecInv, RequestIsOpen
<1> QED
    BY <1>1, <1>2

-----------------------------------------------------------------------------
LEMMA InitInv == ExecInit => ExecInv
<1> SUFFICES ASSUME ExecInit PROVE ExecInv
    OBVIOUS
<1>1. Unstarted \in Record
    BY DEF Unstarted, Record, Error
<1>2. ExecTypeOK
    BY <1>1 DEF ExecInit, ExecTypeOK
<1>3. \A c \in Call : CallIsSound(c)
    BY DEF ExecInit, CallIsSound, Unstarted
<1>4. (\A r \in flight : RequestIsOpen(r)) /\ OutcomeIsBacked
    BY DEF ExecInit, OutcomeIsBacked
<1>5. OnlyTimeoutsAreAmbiguous
    BY DEF ExecInit, OnlyTimeoutsAreAmbiguous, Unstarted, Target
<1> QED
    BY <1>2, <1>3, <1>4, <1>5 DEF ExecInv

LEMMA EndedType ==
    ASSUME NEW r \in Record, NEW s \in {"none", "SUCCEEDED", "FAILED"}, NEW e \in Error
    PROVE  /\ Ended(r, s, e) \in Record
           /\ Ended(r, s, e).pc = "done" /\ Ended(r, s, e).got = r.got
           /\ Ended(r, s, e).reply = "none" /\ Ended(r, s, e).status = s
           /\ Ended(r, s, e).error = e
BY DEF Ended, Record

(***************************************************************************)
(* A call that ends: a new or a posting one becomes done, with no request  *)
(* and no answer of its own left to read.                                  *)
(***************************************************************************)
LEMMA EndsBadly ==
    ASSUME ExecInv, NEW c \in Call, call[c].pc # "done",
           NEW s \in {"none", "FAILED"}, NEW e \in Error,
           NEW r \in {call[c], Unstarted}, r.got = call[c].got,
           call' = [call EXCEPT ![c] = Ended(r, s, e)],
           kept' \in SUBSET Call, kept \subseteq kept',
           UNCHANGED <<mode, valid, flight, owner, outcome>>,
           call[c].pc = "posting" =>
               \/ e = "timeout" /\ call[c].reply = "none"
               \/ e = call[c].reply /\ e \in {"conflict", "refused", "unavailable"}
    PROVE  ExecInv'
<1>1. call[c] \in Record /\ Unstarted \in Record
    BY DEF ExecInv, ExecTypeOK, Unstarted, Record, Error
<1>2. /\ Ended(r, s, e) \in Record
      /\ Ended(r, s, e).pc = "done" /\ Ended(r, s, e).got = call[c].got
      /\ Ended(r, s, e).reply = "none" /\ Ended(r, s, e).status = s
      /\ Ended(r, s, e).error = e
    BY <1>1, EndedType
<1>3. /\ call'[c] = Ended(r, s, e)
      /\ \A d \in Call \ {c} : call'[d] = call[d]
    BY DEF ExecInv, ExecTypeOK
<1>4. ExecTypeOK'
    BY <1>2 DEF ExecInv, ExecTypeOK
<1>5. \A d \in Call : CallIsSound(d)'
  <2> SUFFICES ASSUME NEW d \in Call PROVE CallIsSound(d)'
      OBVIOUS
  <2>1. CASE d = c
      BY <1>2, <1>3, <2>1 DEF CallIsSound
  <2>2. CASE d # c
      BY <1>3, <2>2 DEF ExecInv, CallIsSound
  <2> QED
      BY <2>1, <2>2
<1>6. \A q \in flight' : RequestIsOpen(q)'
  <2> SUFFICES ASSUME NEW q \in flight PROVE RequestIsOpen(q)'
      OBVIOUS
  <2>1. q.call \in Call /\ RequestIsOpen(q)
      BY DEF ExecInv, ExecTypeOK
  <2>2. CASE q.call = c
    <3>1. call[c].pc = "posting"
        BY <2>1, <2>2 DEF ExecInv, CallIsSound, RequestIsOpen, Unstarted, ExecTypeOK, Record
    <3> QED
        BY <1>2, <1>3, <2>1, <2>2, <3>1 DEF RequestIsOpen
  <2>3. CASE q.call # c
      BY <1>3, <2>1, <2>3 DEF RequestIsOpen
  <2> QED
      BY <2>2, <2>3
<1>7. OutcomeIsBacked'
  <2>1. outcome # NoCall => outcome # c
      BY DEF ExecInv, OutcomeIsBacked, CallIsSound
  <2> QED
      BY <1>3, <2>1 DEF ExecInv, ExecTypeOK, OutcomeIsBacked
<1>8. OnlyTimeoutsAreAmbiguous'
  <2> SUFFICES ASSUME mode = "live", NEW d \in Call, NEW t \in Target
               PROVE  /\ t <= call'[d].got => owner[t] = d
                      /\ owner[t] = d => \/ t <= call'[d].got
                                         \/ /\ t = call'[d].got + 1
                                            /\ \/ call'[d].pc = "posting"
                                               \/ call'[d].error \in {"timeout", "unavailable"}
      BY DEF OnlyTimeoutsAreAmbiguous
  <2>1. CASE d # c
      BY <1>3, <2>1 DEF ExecInv, OnlyTimeoutsAreAmbiguous
  <2>2. CASE d = c /\ call[c].pc = "new"
      BY <1>2, <1>3, <2>2, NewOwnsNothing DEF ExecInv, OnlyTimeoutsAreAmbiguous
  <2>3. CASE d = c /\ call[c].pc = "posting"
    <3>1. e \in {"conflict", "refused"} => owner[call[c].got + 1] # c
        BY <2>3 DEF ExecInv, CallIsSound
    <3> QED
        BY <1>1, <1>2, <1>3, <2>3, <3>1 DEF ExecInv, OnlyTimeoutsAreAmbiguous, Record
  <2> QED
      BY <1>1, <2>1, <2>2, <2>3 DEF Record
<1> QED
    BY <1>4, <1>5, <1>6, <1>7, <1>8 DEF ExecInv

(***************************************************************************)
(* A call that succeeds: it owns every link, or finds every link owned.    *)
(***************************************************************************)
LEMMA SucceedsWell ==
    ASSUME ExecInv, NEW c \in Call, Succeed(c),
           \/ /\ mode = "stub" /\ call[c].pc = "new"
              /\ owner' \in [Target -> Call \cup {NoCall}]
              /\ \A t \in Target : owner'[t] # NoCall
           \/ /\ mode = "live" /\ UNCHANGED owner
              /\ call[c].reply = "created" /\ call[c].got + 1 = N,
           UNCHANGED <<mode, valid, flight>>
    PROVE  ExecInv'
<1> DEFINE full == [call[c] EXCEPT !.got = N]
           done(s, e) == Ended(full, s, e)
<1>1. PICK s \in {"SUCCEEDED", "FAILED"}, e \in Error :
         /\ call' = [call EXCEPT ![c] = done(s, e)]
         /\ outcome = NoCall => s = "SUCCEEDED" /\ outcome' = c
         /\ outcome # NoCall => outcome' = outcome
    BY DEF Succeed, Error
<1>2. kept' = kept \cup {c}
    BY DEF Succeed
<1>3. call[c] \in Record
    BY DEF ExecInv, ExecTypeOK
<1>4. /\ done(s, e) \in Record
      /\ done(s, e).pc = "done" /\ done(s, e).got = N
      /\ done(s, e).reply = "none" /\ done(s, e).status = s /\ done(s, e).error = e
  <2>1. N \in 0 .. N
      OBVIOUS
  <2>2. full \in Record /\ full.got = N
      BY <1>3, <2>1 DEF Record
  <2> HIDE DEF full
  <2> QED
      BY <2>2, EndedType
<1> HIDE DEF done
<1>5. /\ call'[c] = done(s, e)
      /\ \A d \in Call \ {c} : call'[d] = call[d]
    BY <1>1 DEF ExecInv, ExecTypeOK
<1>6. ExecTypeOK'
    BY <1>1, <1>2, <1>4 DEF ExecInv, ExecTypeOK
<1>7. mode = "live" => \A t \in Target : owner[t] = c
  <2> SUFFICES ASSUME mode = "live", NEW t \in Target PROVE owner[t] = c
      OBVIOUS
  <2>1. t \in 1 .. N /\ call[c].got \in 0 .. N
      BY <1>3 DEF Target, Record
  <2>2. t <= call[c].got \/ t = call[c].got + 1
      BY <2>1
  <2> QED
      BY <2>2 DEF ExecInv, OnlyTimeoutsAreAmbiguous, CallIsSound
<1>8. \A t \in Target : owner'[t] # NoCall
    BY <1>7
<1>9. \A d \in Call : CallIsSound(d)'
  <2> SUFFICES ASSUME NEW d \in Call PROVE CallIsSound(d)'
      OBVIOUS
  <2>1. CASE d = c
      BY <1>4, <1>5, <2>1 DEF CallIsSound
  <2>2. CASE d # c
      BY <1>5, <2>2 DEF ExecInv, CallIsSound
  <2> QED
      BY <2>1, <2>2
<1>10. \A q \in flight' : RequestIsOpen(q)'
  <2> SUFFICES ASSUME NEW q \in flight PROVE RequestIsOpen(q)'
      OBVIOUS
  <2>1. q.call \in Call /\ RequestIsOpen(q)
      BY DEF ExecInv, ExecTypeOK
  <2>2. q.call # c
      BY <2>1 DEF RequestIsOpen
  <2> QED
      BY <1>5, <2>1, <2>2 DEF RequestIsOpen
<1>11. OutcomeIsBacked'
  <2>1. CASE outcome = NoCall
      BY <1>1, <1>2, <1>4, <1>5, <1>8, <2>1 DEF OutcomeIsBacked
  <2>2. CASE outcome # NoCall
    <3>1. outcome # c
        BY <2>2 DEF ExecInv, OutcomeIsBacked, CallIsSound, Unstarted
    <3> QED
        BY <1>1, <1>2, <1>5, <1>8, <2>2, <3>1 DEF ExecInv, ExecTypeOK, OutcomeIsBacked
  <2> QED
      BY <2>1, <2>2
<1>12. OnlyTimeoutsAreAmbiguous'
  <2> SUFFICES ASSUME mode = "live", NEW d \in Call, NEW t \in Target
               PROVE  /\ t <= call'[d].got => owner[t] = d
                      /\ owner[t] = d => \/ t <= call'[d].got
                                         \/ /\ t = call'[d].got + 1
                                            /\ \/ call'[d].pc = "posting"
                                               \/ call'[d].error \in {"timeout", "unavailable"}
      BY DEF OnlyTimeoutsAreAmbiguous
  <2>1. CASE d # c
      BY <1>5, <2>1 DEF ExecInv, OnlyTimeoutsAreAmbiguous
  <2>2. CASE d = c
      BY <1>4, <1>5, <1>7, <2>2 DEF Target
  <2> QED
      BY <2>1, <2>2
<1> QED
    BY <1>6, <1>9, <1>10, <1>11, <1>12 DEF ExecInv

(***************************************************************************)
(* A call that posts the request for its next link, its first or another.  *)
(***************************************************************************)
LEMMA PostsNext ==
    ASSUME ExecInv, NEW c \in Call, mode = "live",
           NEW n \in 0 .. N - 1,
           \/ call[c].pc = "new" /\ n = 0
           \/ call[c].reply = "created" /\ n = call[c].got + 1,
           NEW r \in Record,
           r.pc = "posting" /\ r.got = n /\ r.reply = "none" /\ r.status = "EXECUTING",
           call' = [call EXCEPT ![c] = r],
           flight' = flight \cup {[call |-> c, target |-> n + 1]},
           UNCHANGED <<mode, valid, owner, kept, outcome>>
    PROVE  ExecInv'
<1>1. /\ call'[c] = r
      /\ \A d \in Call \ {c} : call'[d] = call[d]
    BY DEF ExecInv, ExecTypeOK
<1>2. call[c] \in Record
    BY DEF ExecInv, ExecTypeOK
<1>3. ExecTypeOK'
    BY DEF ExecInv, ExecTypeOK, Target
<1>4. \A q \in flight : q.call \in Call /\ q.call # c
  <2> SUFFICES ASSUME NEW q \in flight PROVE q.call \in Call /\ q.call # c
      OBVIOUS
  <2>1. q.call \in Call /\ RequestIsOpen(q)
      BY DEF ExecInv, ExecTypeOK
  <2> QED
      BY <2>1 DEF RequestIsOpen, ExecInv, CallIsSound, Unstarted
<1>5. \A t \in Target : (t <= n => owner[t] = c) /\ (owner[t] = c => t <= n)
  <2> SUFFICES ASSUME NEW t \in Target
               PROVE  (t <= n => owner[t] = c) /\ (owner[t] = c => t <= n)
      OBVIOUS
  <2>1. CASE call[c].pc = "new" /\ n = 0
      BY <2>1, NewOwnsNothing DEF Target
  <2>2. CASE call[c].reply = "created" /\ n = call[c].got + 1
    <3>1. t \in 1 .. N /\ call[c].got \in 0 .. N /\ owner[n] = c
        BY <1>2, <2>2 DEF Target, Record, ExecInv, CallIsSound
    <3>2. t <= n => t <= call[c].got \/ t = n
        BY <3>1, <2>2
    <3> QED
        BY <2>2, <3>1, <3>2 DEF ExecInv, OnlyTimeoutsAreAmbiguous
  <2> QED
      BY <2>1, <2>2
<1>6. \A d \in Call : CallIsSound(d)'
  <2> SUFFICES ASSUME NEW d \in Call PROVE CallIsSound(d)'
      OBVIOUS
  <2>1. CASE d = c
      BY <1>1, <2>1 DEF CallIsSound
  <2>2. CASE d # c
      BY <1>1, <2>2 DEF ExecInv, CallIsSound
  <2> QED
      BY <2>1, <2>2
<1>7. \A q \in flight' : RequestIsOpen(q)'
  <2> SUFFICES ASSUME NEW q \in flight' PROVE RequestIsOpen(q)'
      OBVIOUS
  <2>1. CASE q = [call |-> c, target |-> n + 1]
    <3>1. n + 1 \in Target /\ ~ (n + 1 <= n)
        BY DEF Target
    <3>2. owner[n + 1] # c
        BY <1>5, <3>1
    <3> QED
        BY <1>1, <2>1, <3>2 DEF RequestIsOpen
  <2>2. CASE q \in flight
      BY <1>1, <1>4, <2>2 DEF ExecInv, RequestIsOpen
  <2> QED
      BY <2>1, <2>2
<1>8. OutcomeIsBacked'
  <2>1. outcome # NoCall => outcome # c
      BY DEF ExecInv, OutcomeIsBacked, CallIsSound, Unstarted
  <2> QED
      BY <1>1, <2>1 DEF ExecInv, ExecTypeOK, OutcomeIsBacked
<1>9. OnlyTimeoutsAreAmbiguous'
  <2> SUFFICES ASSUME NEW d \in Call, NEW t \in Target
               PROVE  /\ t <= call'[d].got => owner[t] = d
                      /\ owner[t] = d => \/ t <= call'[d].got
                                         \/ /\ t = call'[d].got + 1
                                            /\ \/ call'[d].pc = "posting"
                                               \/ call'[d].error \in {"timeout", "unavailable"}
      BY DEF OnlyTimeoutsAreAmbiguous
  <2>1. CASE d # c
      BY <1>1, <2>1 DEF ExecInv, OnlyTimeoutsAreAmbiguous
  <2>2. CASE d = c
      BY <1>1, <1>5, <2>2
  <2> QED
      BY <2>1, <2>2
<1> QED
    BY <1>3, <1>6, <1>7, <1>8, <1>9 DEF ExecInv

(***************************************************************************)
(* The provider handles a request: its answer, if it comes, is read by the *)
(* call as the answer about the link it is at.                             *)
(***************************************************************************)
LEMMA HandlesOne ==
    ASSUME ExecInv, NEW r \in flight, Handle(r)
    PROVE  ExecInv'
<1> DEFINE c == r.call
           t == r.target
<1>1. c \in Call /\ t \in Target /\ RequestIsOpen(r) /\ call[c] \in Record
    BY DEF ExecInv, ExecTypeOK
<1>2. /\ flight' = flight \ {r}
      /\ UNCHANGED <<mode, valid, kept, outcome>>
    BY DEF Handle
<1> DEFINE created == owner[t] = NoCall /\ owner' = [owner EXCEPT ![t] = c]
           answer(a) == /\ call[c].pc = "posting"
                        /\ call' = [call EXCEPT ![c].reply = a]
<1>3. \/ created /\ call' = call
      \/ created /\ \E a \in {"created", "unavailable"} : answer(a)
      \/ owner' = owner /\ call' = call
      \/ owner' = owner /\ \E a \in {"conflict", "refused", "unavailable"} : answer(a)
    BY DEF Handle, Create, Conflict, Reject, Reply, Waits
<1>4. PICK a \in {"none", "created", "conflict", "refused", "unavailable"} :
         /\ call' = [call EXCEPT ![c].reply = a]
         /\ a # "none" => call[c].pc = "posting"
         /\ a = "created" => created
         /\ a \in {"conflict", "refused"} => owner' = owner
  <2>1. CASE call' = call
    <3>1. call' = [call EXCEPT ![c].reply = "none"]
        BY <1>1, <2>1 DEF RequestIsOpen, ExecInv, ExecTypeOK, Record
    <3> QED
        BY <3>1
  <2> QED
      BY <1>3, <2>1
<1>5. created \/ owner' = owner
    BY <1>3
<1> HIDE DEF c, t
<1>6. /\ call'[c] = [call[c] EXCEPT !.reply = a]
      /\ \A d \in Call \ {c} : call'[d] = call[d]
    BY <1>1, <1>4 DEF ExecInv, ExecTypeOK
<1>7. /\ call'[c] \in Record
      /\ call'[c].pc = call[c].pc /\ call'[c].got = call[c].got /\ call'[c].reply = a
      /\ call'[c].status = call[c].status /\ call'[c].error = call[c].error
    BY <1>1, <1>6 DEF Record
<1>8. /\ t = call[c].got + 1 /\ owner[t] # c
      /\ mode = "live"
      /\ call[c].pc = "posting" \/ call[c].error = "timeout"
    BY <1>1 DEF RequestIsOpen, c, t
<1>9. /\ \A u \in Target \ {t} : owner'[u] = owner[u]
      /\ owner'[t] = owner[t] \/ (owner[t] = NoCall /\ owner'[t] = c)
      /\ a = "created" => owner'[t] = c
      /\ a \in {"conflict", "refused"} => owner'[t] = owner[t]
      /\ owner' \in [Target -> Call \cup {NoCall}]
  <2>1. owner \in [Target -> Call \cup {NoCall}] /\ c # NoCall
      BY <1>1 DEF ExecInv, ExecTypeOK
  <2>2. CASE owner' = owner
    <3>1. ~ created
        BY <1>1, <2>1, <2>2
    <3>2. a # "created"
        BY <1>4, <3>1
    <3> QED
        BY <2>1, <2>2, <3>2
  <2>3. CASE created
    <3>1. a \notin {"conflict", "refused"} \/ owner' = owner
        BY <1>4
    <3> QED
        BY <1>1, <2>1, <2>3, <3>1
  <2> QED
      BY <1>5, <2>2, <2>3
<1>10. ExecTypeOK'
  <2>1. call' \in [Call -> Record]
      BY <1>1, <1>4, <1>6, <1>7 DEF ExecInv, ExecTypeOK
  <2> QED
      BY <1>2, <1>9, <2>1 DEF ExecInv, ExecTypeOK
<1>11. \A d \in Call : CallIsSound(d)'
  <2> SUFFICES ASSUME NEW d \in Call PROVE CallIsSound(d)'
      OBVIOUS
  <2>1. CASE d = c
    <3>1. call[c].pc # "new"
        BY <1>1, <1>8 DEF ExecInv, CallIsSound, Unstarted
    <3> QED
        BY <1>1, <1>2, <1>4, <1>7, <1>8, <1>9, <2>1, <3>1 DEF ExecInv, CallIsSound
  <2>2. CASE d # c
    <3>1. /\ call'[d] = call[d] /\ call[d] \in Record
          /\ CallIsSound(d)
        BY <1>6, <2>2 DEF ExecInv, ExecTypeOK
    <3>2. call[d].reply \in {"created", "conflict", "refused"} => call[d].got + 1 \in Target
        BY <3>1 DEF CallIsSound, Record, Target
    <3>3. \A u \in Target : owner'[u] = d <=> owner[u] = d
        BY <1>9, <2>2
    <3> QED
        BY <1>2, <3>1, <3>2, <3>3 DEF CallIsSound
  <2> QED
      BY <2>1, <2>2
<1>12. \A q \in flight' : RequestIsOpen(q)'
  <2> SUFFICES ASSUME NEW q \in flight, q # r PROVE RequestIsOpen(q)'
      BY <1>2
  <2>1. q.call \in Call /\ q.target \in Target /\ RequestIsOpen(q)
      BY DEF ExecInv, ExecTypeOK
  <2>2. q.call # c
      BY OneRequest DEF c
  <2>3. owner'[q.target] = q.call <=> owner[q.target] = q.call
      BY <1>9, <2>1, <2>2
  <2> QED
      BY <1>2, <1>6, <2>1, <2>2, <2>3 DEF RequestIsOpen
<1>13. OutcomeIsBacked'
  <2>1. \A u \in Target : owner[u] # NoCall => owner'[u] # NoCall
      BY <1>9
  <2>2. outcome # NoCall => outcome \in Call /\ call'[outcome].status = call[outcome].status
      BY <1>6, <1>7 DEF ExecInv, ExecTypeOK
  <2> QED
      BY <1>2, <2>1, <2>2 DEF ExecInv, OutcomeIsBacked
<1>14. OnlyTimeoutsAreAmbiguous'
  <2> SUFFICES ASSUME NEW d \in Call, NEW u \in Target
               PROVE  /\ u <= call'[d].got => owner'[u] = d
                      /\ owner'[u] = d => \/ u <= call'[d].got
                                          \/ /\ u = call'[d].got + 1
                                             /\ \/ call'[d].pc = "posting"
                                                \/ call'[d].error \in {"timeout", "unavailable"}
      BY DEF OnlyTimeoutsAreAmbiguous
  <2>1. /\ u <= call[d].got => owner[u] = d
        /\ owner[u] = d => \/ u <= call[d].got
                           \/ /\ u = call[d].got + 1
                              /\ \/ call[d].pc = "posting"
                                 \/ call[d].error \in {"timeout", "unavailable"}
      BY <1>8 DEF ExecInv, OnlyTimeoutsAreAmbiguous
  <2>2. /\ call'[d].got = call[d].got /\ call'[d].pc = call[d].pc
        /\ call'[d].error = call[d].error
      BY <1>6, <1>7
  <2>3. CASE u # t
      BY <1>9, <2>1, <2>2, <2>3
  <2>4. CASE u = t /\ d = c
      BY <1>8, <1>9, <2>1, <2>2, <2>4
  <2>5. CASE u = t /\ d # c
      BY <1>9, <2>1, <2>2, <2>5
  <2> QED
      BY <2>3, <2>4, <2>5
<1> QED
    BY <1>10, <1>11, <1>12, <1>13, <1>14 DEF ExecInv

-----------------------------------------------------------------------------
LEMMA BeginInv == ASSUME ExecInv, NEW c \in Call, Begin(c) PROVE ExecInv'
<1>1. call[c].pc = "new" /\ call[c] = Unstarted /\ Unstarted \in Record
    BY DEF Begin, ExecInv, CallIsSound, ExecTypeOK
<1>2. CASE Invalid(c)
  <2>1. /\ call' = [call EXCEPT ![c] = Ended(Unstarted, "none", "ValueError")]
        /\ UNCHANGED <<mode, valid, flight, owner, kept, outcome>>
      BY <1>2 DEF Begin, Invalid
  <2> QED
      BY <1>1, <2>1, EndsBadly DEF ExecInv, ExecTypeOK, Error
<1>3. CASE NoAdapter(c)
  <2>1. /\ call' = [call EXCEPT ![c] = Ended(call[c], "FAILED", "RuntimeError")]
        /\ kept' = kept \cup {c}
        /\ UNCHANGED <<mode, valid, flight, owner, outcome>>
      BY <1>3 DEF Begin, NoAdapter, Fail
  <2>2. kept' \in SUBSET Call /\ kept \subseteq kept'
      BY <2>1 DEF ExecInv, ExecTypeOK
  <2> QED
      BY <1>1, <2>1, <2>2, EndsBadly DEF Error
<1>4. CASE BeginStub(c)
  <2>1. /\ mode = "stub" /\ Succeed(c)
        /\ owner' = [t \in Target |-> IF owner[t] = NoCall THEN c ELSE owner[t]]
        /\ UNCHANGED <<mode, valid, flight>>
      BY <1>4 DEF Begin, BeginStub
  <2>2. /\ owner' \in [Target -> Call \cup {NoCall}]
        /\ \A t \in Target : owner'[t] # NoCall
      BY <2>1 DEF ExecInv, ExecTypeOK
  <2> QED
      BY <1>1, <2>1, <2>2, SucceedsWell
<1>5. CASE BeginLive(c)
  <2> DEFINE r == [call[c] EXCEPT !.pc = "posting", !.status = "EXECUTING"]
  <2>1. /\ mode = "live"
        /\ UNCHANGED <<mode, valid, owner, kept, outcome>>
      BY <1>5 DEF Begin, BeginLive
  <2>2. /\ r \in Record
        /\ r.pc = "posting" /\ r.got = 0 /\ r.reply = "none" /\ r.status = "EXECUTING"
    <3>1. call[c] \in Record /\ call[c].got = 0 /\ call[c].reply = "none"
        BY <1>1 DEF Unstarted
    <3> QED
        BY <3>1 DEF Record
  <2>3. call' = [call EXCEPT ![c] = r]
      BY <1>5 DEF BeginLive
  <2>4. flight' = flight \cup {[call |-> c, target |-> 0 + 1]}
    <3>1. 0 + 1 = 1
        OBVIOUS
    <3> QED
        BY <1>5, <3>1 DEF BeginLive, Post
  <2> HIDE DEF r
  <2>5. 0 \in 0 .. N - 1
      OBVIOUS
  <2> QED
      BY <1>1, <2>1, <2>2, <2>3, <2>4, <2>5, PostsNext
<1> QED
    BY <1>2, <1>3, <1>4, <1>5 DEF Begin

LEMMA ProceedInv == ASSUME ExecInv, NEW c \in Call, Proceed(c) PROVE ExecInv'
<1>1. /\ call[c] \in Record
      /\ call[c].pc = "posting"
      /\ mode = "live" /\ call[c].got < N /\ call[c].status = "EXECUTING"
    BY DEF Proceed, NextLink, LastLink, LinkRefused, TimeOut, Answered,
           ExecInv, ExecTypeOK, CallIsSound
<1>2. CASE NextLink(c)
  <2> DEFINE r == [call[c] EXCEPT !.got = @ + 1, !.reply = "none"]
  <2>1. /\ call[c].reply = "created" /\ call[c].got + 1 < N
        /\ call' = [call EXCEPT ![c] = r]
        /\ flight' = flight \cup {[call |-> c, target |-> call[c].got + 2]}
        /\ UNCHANGED <<mode, valid, owner, kept, outcome>>
      BY <1>2 DEF NextLink, Answered, Post
  <2>2. call[c].got + 1 \in 0 .. N - 1 /\ call[c].got + 1 \in 0 .. N
      BY <1>1, <2>1 DEF Record
  <2>3. /\ r \in Record
        /\ r.pc = "posting" /\ r.got = call[c].got + 1
        /\ r.reply = "none" /\ r.status = "EXECUTING"
      BY <1>1, <2>2 DEF Record
  <2> HIDE DEF r
  <2>4. call[c].got + 2 = (call[c].got + 1) + 1
      BY <1>1 DEF Record
  <2>5. flight' = flight \cup {[call |-> c, target |-> (call[c].got + 1) + 1]}
      BY <2>1, <2>4
  <2> QED
      BY <1>1, <2>1, <2>2, <2>3, <2>5, PostsNext
<1>3. CASE LastLink(c)
    BY <1>1, <1>3, SucceedsWell DEF LastLink, Answered
<1>4. ASSUME NEW e \in Error, Fail(c, e),
             UNCHANGED <<mode, valid, flight, owner>>,
             \/ e = "timeout" /\ call[c].reply = "none"
             \/ e = call[c].reply /\ e \in {"conflict", "refused", "unavailable"}
      PROVE  ExecInv'
  <2>1. /\ call' = [call EXCEPT ![c] = Ended(call[c], "FAILED", e)]
        /\ kept' = kept \cup {c} /\ UNCHANGED outcome
      BY <1>4 DEF Fail
  <2>2. kept' \in SUBSET Call /\ kept \subseteq kept'
      BY <2>1 DEF ExecInv, ExecTypeOK
  <2> QED
      BY <1>1, <1>4, <2>1, <2>2, EndsBadly
<1>5. CASE LinkRefused(c)
    BY <1>4, <1>5 DEF LinkRefused, Error
<1>6. CASE TimeOut(c)
    BY <1>4, <1>6 DEF TimeOut, Error
<1> QED
    BY <1>2, <1>3, <1>5, <1>6 DEF Proceed

LEMMA StepInv == ExecInv /\ [ExecNext]_execVars => ExecInv'
<1> SUFFICES ASSUME ExecInv, [ExecNext]_execVars PROVE ExecInv'
    OBVIOUS
<1>1. ASSUME UNCHANGED <<mode, call, flight, owner, kept, outcome>>, valid' \in BOOLEAN
      PROVE  ExecInv'
  <2>1. ExecTypeOK'
      BY <1>1 DEF ExecInv, ExecTypeOK
  <2>2. \A c \in Call : CallIsSound(c)'
      BY <1>1 DEF ExecInv, CallIsSound
  <2>3. \A r \in flight' : RequestIsOpen(r)'
      BY <1>1 DEF ExecInv, RequestIsOpen
  <2>4. OutcomeIsBacked' /\ OnlyTimeoutsAreAmbiguous'
      BY <1>1 DEF ExecInv, OutcomeIsBacked, OnlyTimeoutsAreAmbiguous
  <2> QED
      BY <2>1, <2>2, <2>3, <2>4 DEF ExecInv
<1>2. CASE Lapse
    BY <1>1, <1>2 DEF Lapse
<1>3. CASE UNCHANGED execVars
    BY <1>1, <1>3 DEF execVars, ExecInv, ExecTypeOK
<1>4. CASE \E c \in Call : Begin(c)
    BY <1>4, BeginInv
<1>5. CASE \E r \in flight : Handle(r)
    BY <1>5, HandlesOne
<1>6. CASE \E c \in Call : Proceed(c)
    BY <1>6, ProceedInv
<1> QED
    BY <1>2, <1>3, <1>4, <1>5, <1>6 DEF ExecNext

-----------------------------------------------------------------------------
(***************************************************************************)
(* The invariant holds, and with it the two promises of the executor.      *)
(***************************************************************************)
\* Whatever calls of execute overlap, time out or are refused, the invariant holds.
THEOREM ExecInvariance == ExecSpec => []ExecInv
<1>1. ExecInit => ExecInv
    BY InitInv
<1>2. ExecInv /\ [ExecNext]_execVars => ExecInv'
    BY StepInv
<1> QED
    BY <1>1, <1>2, PTL DEF ExecSpec

\* An outcome is built from one execution that created all of its links: none is built
\* from an execution that broke off (executor.py), and none from two.
THEOREM OutcomeWhole == ExecSpec => []OutcomeIsWhole
BY ExecInvariance, WholeFromInv, PTL

\* How a live execution ended tells which links exist, but for the one it gave up.
THEOREM AmbiguityBounded == ExecSpec => []OnlyTimeoutsAreAmbiguous
<1>1. ExecInv => OnlyTimeoutsAreAmbiguous
    BY DEF ExecInv
<1> QED
    BY <1>1, ExecInvariance, PTL

-----------------------------------------------------------------------------
(***************************************************************************)
(* The listing. An offset counts from the newest item, so what arrives     *)
(* between two pages only moves the offset back over what was yielded.     *)
(***************************************************************************)
Status == {"created", "under_review", "captured", "paid", "processed"}

\* What is yielded of an item.
Yield == [id : Nat, status : Status \cup {"failed"}]

\* Everything before the offset has been yielded, as far as it was there at first.
OffsetIsBehind == \A i \in 1 .. present : i > Len(status) - params.skip => i \in Listed

ListingInv ==
    /\ resource \in Resource
    /\ status \in Seq(Status)
    /\ present \in Nat /\ present <= Len(status)
    /\ lister \in {"ready", "paging", "done", "raised"}
    /\ params \in [count : Nat, skip : Nat]
    /\ params.skip <= Len(status)
    /\ lister = "ready" => yielded = <<>> /\ present = 0
    /\ lister = "paging" => params.count \in 1 .. PageLimit /\ OffsetIsBehind
    /\ yielded \in Seq(Yield)
    /\ \A k \in DOMAIN yielded : yielded[k].id \in 1 .. Len(status)
    /\ NothingIsSkipped

LEMMA MovedType == ASSUME NEW r \in Resource PROVE MovedStatus(r) \in Status
BY DEF MovedStatus, Status, Resource

\* What is yielded of an item says that its money has moved only if it has.
LEMMA MovedIsSo ==
    ASSUME NEW r \in Resource, NEW s \in Status
    PROVE  /\ MapStatus(r, s) \in Status \cup {"failed"}
           /\ MapStatus(r, s) = MovedStatus(r) => s = MovedStatus(r)
<1>1. MapStatus(r, s) \in {s, "failed", "created"}
    BY DEF MapStatus
<1>2. MovedStatus(r) \in {"captured", "paid", "processed"}
    BY DEF MovedStatus, Resource
<1>3. MapStatus(r, s) = MovedStatus(r) => MapStatus(r, s) = s
    BY <1>1, <1>2
<1>4. MapStatus(r, s) \in Status \cup {"failed"}
    BY <1>1 DEF Status
<1> QED
    BY <1>3, <1>4

LEMMA ListingInit == ListInit => ListingInv
<1> SUFFICES ASSUME ListInit PROVE ListingInv
    OBVIOUS
<1>1. resource \in Resource
    BY ListingAssumption DEF ListInit
<1>2. status \in Seq(Status) /\ Len(status) = Initially /\ Initially \in Nat
    BY ListingAssumption DEF ListInit, Status
<1>3. yielded = <<>> /\ present = 0 /\ lister = "ready" /\ params = [count |-> 0, skip |-> 0]
    BY DEF ListInit
<1> QED
    BY <1>1, <1>2, <1>3 DEF ListingInv, NothingIsSkipped

\* The provider's moves: the list only grows, and money that has moved stays moved.
LEMMA MovesKeep ==
    ASSUME ListingInv, ProviderMoves
    PROVE  ListingInv'
<1>1. /\ status \in Seq(Status) /\ Len(status) \in Nat /\ resource \in Resource
      /\ UNCHANGED <<resource, params, yielded, present, lister>>
    BY DEF ListingInv, ProviderMoves
<1>2. /\ status' \in Seq(Status) /\ Len(status') >= Len(status)
      /\ \A i \in 1 .. Len(status) :
            status[i] = MovedStatus(resource) => status'[i] = MovedStatus(resource)
    <2>1. CASE status' = Append(status, "created")
        BY <1>1, <2>1 DEF Status
    <2>2. ASSUME NEW i \in 1 .. Len(status), status[i] # MovedStatus(resource),
                 NEW s \in {"under_review", MovedStatus(resource)},
                 status' = [status EXCEPT ![i] = s]
          PROVE  /\ status' \in Seq(Status) /\ Len(status') >= Len(status)
                 /\ \A j \in 1 .. Len(status) :
                       status[j] = MovedStatus(resource) => status'[j] = MovedStatus(resource)
        <3>1. s \in Status
            BY <1>1, MovedType DEF Status
        <3> QED
            BY <1>1, <2>2, <3>1
    <2> QED
        BY <2>1, <2>2 DEF ProviderMoves
<1>3. Listed' = Listed
    BY <1>1 DEF Listed
<1>4. \A i \in 1 .. Len(status) : i \in 1 .. Len(status')
    BY <1>1, <1>2
<1>5. OffsetIsBehind => OffsetIsBehind'
    <2> SUFFICES ASSUME OffsetIsBehind, NEW i \in 1 .. present, i > Len(status') - params.skip
                 PROVE  i \in Listed
        BY <1>1, <1>3 DEF OffsetIsBehind
    <2>1. i > Len(status) - params.skip
        BY <1>1, <1>2 DEF ListingInv
    <2> QED
        BY <2>1 DEF OffsetIsBehind
<1>6. NothingIsSkipped'
    BY <1>1, <1>2, <1>3 DEF ListingInv, NothingIsSkipped
<1>7. present <= Len(status') /\ params.skip <= Len(status')
    BY <1>1, <1>2 DEF ListingInv
<1> QED
    BY <1>1, <1>2, <1>3, <1>4, <1>5, <1>6, <1>7 DEF ListingInv

\* One page: the items from the offset on, and all of them if it is not full.
LEMMA PageMeaning ==
    ASSUME ListingInv, lister = "paging"
    PROVE  LET last == Len(status) - params.skip
           IN  /\ last \in Nat /\ Page \in Seq(1 .. Len(status)) /\ Len(Page) <= last
               /\ \A i \in 1 .. last : i > last - Len(Page) => \E k \in DOMAIN Page : Page[k] = i
               /\ LastPage(Page) => Len(Page) = last
<1> DEFINE last == Len(status) - params.skip
           n    == IF last < params.count THEN last ELSE params.count
<1>1. /\ last \in Nat /\ Len(status) \in Nat /\ params.skip \in Nat
      /\ params.count \in Nat /\ params.count >= 1 /\ params.count <= PageLimit
      /\ PageLimit \in Nat
    BY ListingAssumption DEF ListingInv
<1>2. Page = [k \in 1 .. n |-> last - k + 1]
    BY <1>1 DEF Page
<1>3. n \in Nat /\ n <= last
    BY <1>1
<1>4. \A k \in 1 .. n : last - k + 1 \in 1 .. Len(status)
    BY <1>1, <1>3
<1> HIDE DEF n
<1>5. Page \in Seq(1 .. Len(status)) /\ Len(Page) = n /\ DOMAIN Page = 1 .. n
    BY <1>1, <1>2, <1>3, <1>4
<1>6. ASSUME NEW i \in 1 .. last, i > last - n
      PROVE  \E k \in DOMAIN Page : Page[k] = i
    <2>1. last - i + 1 \in 1 .. n /\ last - (last - i + 1) + 1 = i
        BY <1>1, <1>3, <1>6
    <2> QED
        BY <1>2, <1>5, <2>1
<1>7. LastPage(Page) => n = last
    BY <1>1, <1>5 DEF LastPage, n
<1> QED
    BY <1>1, <1>3, <1>5, <1>6, <1>7

LEMMA PageKeeps ==
    ASSUME ListingInv, ReadPage
    PROVE  ListingInv'
<1> DEFINE last == Len(status) - params.skip
           page == [k \in DOMAIN Page |-> Normalized(Page[k])]
<1>1. /\ last \in Nat /\ Page \in Seq(1 .. Len(status)) /\ Len(Page) <= last
      /\ \A i \in 1 .. last : i > last - Len(Page) => \E k \in DOMAIN Page : Page[k] = i
      /\ LastPage(Page) => Len(Page) = last
    BY PageMeaning DEF ReadPage
<1>2. /\ yielded' = yielded \o page
      /\ lister' = IF LastPage(Page) THEN "done" ELSE "paging"
      /\ params' = IF LastPage(Page) THEN params ELSE [params EXCEPT !.skip = @ + Len(Page)]
      /\ UNCHANGED <<resource, status, present>> /\ lister = "paging"
    BY DEF ReadPage
<1>3. /\ resource \in Resource /\ status \in Seq(Status) /\ Len(status) \in Nat
      /\ Len(Page) \in Nat /\ params \in [count : Nat, skip : Nat]
      /\ yielded \in Seq(Yield) /\ present \in Nat /\ present <= Len(status)
    BY <1>1 DEF ListingInv
<1>4. \A i \in 1 .. Len(status) :
         /\ Normalized(i) \in Yield /\ Normalized(i).id = i
         /\ Normalized(i).status = MovedStatus(resource) => status[i] = MovedStatus(resource)
    BY <1>3, MovedIsSo DEF Normalized, Yield
<1>5. /\ page \in Seq(Yield) /\ Len(page) = Len(Page)
      /\ \A k \in 1 .. Len(Page) : page[k] = Normalized(Page[k]) /\ Page[k] \in 1 .. Len(status)
    <2>1. DOMAIN Page = 1 .. Len(Page) /\ \A k \in 1 .. Len(Page) : Page[k] \in 1 .. Len(status)
        BY <1>1
    <2>2. page = [k \in 1 .. Len(Page) |-> Normalized(Page[k])]
        BY <2>1
    <2> QED
        BY <1>3, <1>4, <2>1, <2>2
<1> HIDE DEF page
<1>6. /\ yielded' \in Seq(Yield)
      /\ Len(yielded') = Len(yielded) + Len(page) /\ Len(yielded) \in Nat
      /\ \A k \in 1 .. Len(yielded) + Len(page) :
            yielded'[k] = IF k <= Len(yielded) THEN yielded[k] ELSE page[k - Len(yielded)]
    <2>1. yielded \in Seq(Yield) /\ page \in Seq(Yield) /\ yielded' = yielded \o page
        BY <1>2, <1>3, <1>5
    <2>2. /\ yielded \o page \in Seq(Yield)
          /\ Len(yielded \o page) = Len(yielded) + Len(page)
          /\ \A k \in 1 .. Len(yielded) + Len(page) :
                (yielded \o page)[k] = IF k <= Len(yielded) THEN yielded[k]
                                       ELSE page[k - Len(yielded)]
        BY <2>1, ConcatProperties
    <2>3. Len(yielded) \in Nat
        BY <2>1
    <2>4. yielded' \in Seq(Yield)
        BY <2>1, <2>2
    <2> QED
        BY <2>1, <2>2, <2>3, <2>4
<1>7. ASSUME NEW k \in DOMAIN yielded'
      PROVE  /\ yielded'[k].id \in 1 .. Len(status)
             /\ yielded'[k].status = MovedStatus(resource) =>
                    status[yielded'[k].id] = MovedStatus(resource)
    <2>1. k \in 1 .. Len(yielded) + Len(Page) /\ Len(yielded) \in Nat
        BY <1>5, <1>6
    <2>2. CASE k <= Len(yielded)
        <3>1. k \in DOMAIN yielded /\ yielded'[k] = yielded[k]
            BY <1>3, <1>5, <1>6, <2>1, <2>2
        <3> QED
            BY <3>1 DEF ListingInv, NothingIsSkipped
    <2>3. CASE ~ (k <= Len(yielded))
        <3>1. /\ k - Len(yielded) \in 1 .. Len(Page)
              /\ yielded'[k] = page[k - Len(yielded)]
            BY <1>3, <1>5, <1>6, <2>1, <2>3
        <3>2. /\ yielded'[k] = Normalized(Page[k - Len(yielded)])
              /\ Page[k - Len(yielded)] \in 1 .. Len(status)
            BY <1>5, <3>1
        <3> QED
            BY <1>4, <3>2
    <2> QED
        BY <2>2, <2>3
<1>8. ASSUME NEW i \in 1 .. present, i > last - Len(Page)
      PROVE  i \in Listed'
    <2>1. CASE i > last
        <3>1. i \in Listed
            BY <1>2, <2>1 DEF ListingInv, OffsetIsBehind
        <3>2. PICK k \in 1 .. Len(yielded) : yielded[k].id = i
            BY <1>3, <3>1 DEF Listed
        <3>3. k \in DOMAIN yielded' /\ yielded'[k] = yielded[k]
            BY <1>3, <1>5, <1>6, <3>2
        <3> QED
            BY <3>2, <3>3 DEF Listed
    <2>2. CASE i \in 1 .. last
        <3>1. PICK k \in 1 .. Len(Page) : Page[k] = i
            BY <1>1, <1>5, <1>8, <2>2
        <3>2. page[k].id = i
            BY <1>4, <1>5, <3>1
        <3>3. /\ Len(yielded) + k \in 1 .. Len(yielded) + Len(page)
              /\ ~ (Len(yielded) + k <= Len(yielded)) /\ Len(yielded) + k - Len(yielded) = k
            BY <1>5, <1>6
        <3>4. Len(yielded) + k \in DOMAIN yielded' /\ yielded'[Len(yielded) + k] = page[k]
            BY <1>6, <3>3
        <3> QED
            BY <3>2, <3>4 DEF Listed
    <2> QED
        BY <1>1, <2>1, <2>2
<1>9. CASE LastPage(Page)
    <2>1. 1 .. present \subseteq Listed'
        BY <1>1, <1>3, <1>8, <1>9
    <2>2. NothingIsSkipped'
        BY <1>2, <1>7, <2>1 DEF NothingIsSkipped
    <2> QED
        BY <1>2, <1>3, <1>6, <1>7, <1>9, <2>2 DEF ListingInv
<1>10. CASE ~ LastPage(Page)
    <2>1. /\ params' \in [count : Nat, skip : Nat] /\ params'.count = params.count
          /\ params'.skip = params.skip + Len(Page)
        <3>1. params' = [params EXCEPT !.skip = params.skip + Len(Page)]
            BY <1>2, <1>10
        <3>2. params.skip + Len(Page) \in Nat
            BY <1>3
        <3> QED
            BY <1>3, <3>1, <3>2
    <2>2. params'.skip <= Len(status)
        BY <1>1, <1>3, <2>1
    <2>3. OffsetIsBehind'
        BY <1>2, <1>3, <1>8, <2>1 DEF OffsetIsBehind
    <2>4. NothingIsSkipped'
        BY <1>2, <1>7, <1>10 DEF NothingIsSkipped
    <2> QED
        BY <1>2, <1>3, <1>6, <1>7, <1>10, <2>1, <2>2, <2>3, <2>4 DEF ListingInv
<1> QED
    BY <1>9, <1>10

LEMMA ListingNext == ListingInv /\ [ListNext]_listVars => ListingInv'
<1> SUFFICES ASSUME ListingInv, [ListNext]_listVars PROVE ListingInv'
    OBVIOUS
<1>1. CASE UNCHANGED listVars
    BY <1>1 DEF listVars, ListingInv, NothingIsSkipped, OffsetIsBehind, Listed
<1>2. ASSUME NEW c \in Counts, BeginListing(c) PROVE ListingInv'
    <2>1. PageCount(c) \in 1 .. PageLimit /\ PageCount(c) \in Nat
        BY ListingAssumption DEF PageCount
    <2>2. /\ params' = [count |-> PageCount(c), skip |-> 0] /\ lister' = "paging"
          /\ present' = Len(status) /\ yielded = <<>>
          /\ UNCHANGED <<resource, status, yielded>>
        BY <1>2 DEF BeginListing, ListingInv
    <2>3. OffsetIsBehind' /\ NothingIsSkipped'
        BY <2>2 DEF OffsetIsBehind, NothingIsSkipped, ListingInv
    <2> QED
        BY <2>1, <2>2, <2>3 DEF ListingInv
<1>3. CASE PageFails
    BY <1>3 DEF PageFails, ListingInv, NothingIsSkipped
<1> QED
    BY <1>1, <1>2, <1>3, MovesKeep, PageKeeps DEF ListNext

\* An iteration that ends without an error has yielded every item there was when it
\* started, and is right about the money that has moved (_iter_*, _map_*_status).
THEOREM ListingComplete == ListSpec => []NothingIsSkipped
<1>1. ListingInv => NothingIsSkipped
    BY DEF ListingInv
<1> QED
    BY <1>1, ListingInit, ListingNext, PTL DEF ListSpec
=============================================================================
