--------------------------- MODULE SubstrateProofs ---------------------------
(***************************************************************************)
(* Two theorems about Substrate, for every number of requests, of threads, *)
(* of restarts and of tables: what the endpoints show was stored, and a    *)
(* seed that nothing runs beside repairs what was left before it.          *)
(*                                                                         *)
(* A request carries the rows it has to store from the lists of its world  *)
(* to its session and from there to the database; nothing another request  *)
(* does takes them away on the way, and nothing that has been committed is *)
(* ever taken out of what the sessions hold persistent. A seed that is     *)
(* alone finds at each statement what it left at the last one.             *)
(***************************************************************************)
EXTENDS Substrate, FoldLemmas, TLAPS

USE SubstrateAssumption DEF SubstrateAssumption

\* What request r has to store is among the batches s.
Carries(r, s) == IF req[r].op = "seed" THEN Batch(r, r, 0) \in s ELSE \E b \in s : b.by = r

\* A request that runs works on a world that some request made, and its rows are
\* where its progress says.
RequestIsSound(r) ==
    /\ DOMAIN req[r] = DOMAIN New
    /\ req[r].pc # "done" => req[r].code = 0
    /\ req[r].pc \notin {"new", "done"} =>
          /\ req[r].world \in Request /\ req[req[r].world].pc # "new"
          /\ req[r].op = "seed" => req[r].world = r
    /\ req[r].op = "metrics" => req[r].pc \in {"read", "done"}
    /\ req[r].pc = "read" => req[r].op = "metrics"
    /\ req[r].pc = "append" => req[r].op = "inject" /\ req[r].plan # {}
    /\ req[r].pc \in {"spike", "planDrop", "drop", "create"} => Carries(r, rows[req[r].world])
    /\ req[r].pc = "commit" => Carries(r, session[r] \cup stored)
    /\ req[r].pc = "publish" => Carries(r, stored)
    /\ req[r].code = 200 /\ req[r].op \in {"seed", "inject"} => Carries(r, stored)

WorldIsStored ==
    world # NoWorld =>
        world \in Request /\ req[world].pc # "new" /\ Batch(world, world, 0) \in stored

SubInv ==
    /\ DOMAIN req = Request /\ DOMAIN rows = Request /\ DOMAIN session = Request
    /\ WorldIsStored
    /\ \A r \in Request : RequestIsSound(r)

-----------------------------------------------------------------------------
\* One request moves on, and leaves the rows of the others where they are.
LEMMA OneMoves ==
    ASSUME SubInv, NEW r \in Request, NEW x, req' = [req EXCEPT ![r] = x],
           req[r].pc # "new" => x.pc # "new",
           DOMAIN rows' = Request, DOMAIN session' = Request,
           stored \subseteq stored',
           \A q \in Request \ {r} : session'[q] = session[q],
           \A w \in Request : req[w].pc # "new" => rows[w] \subseteq rows'[w],
           WorldIsStored', RequestIsSound(r)'
    PROVE  SubInv'
<1>1. DOMAIN req' = Request /\ \A q \in Request \ {r} : req'[q] = req[q]
    BY DEF SubInv
<1>2. \A q \in Request : req[q].pc # "new" => req'[q].pc # "new"
    BY <1>1 DEF SubInv
<1>3. ASSUME NEW q \in Request \ {r} PROVE RequestIsSound(q)'
  <2>1. RequestIsSound(q) /\ req'[q] = req[q] /\ session'[q] = session[q]
      BY <1>1 DEF SubInv
  <2>2. ASSUME NEW s, NEW t, s \subseteq t, Carries(q, s) PROVE Carries(q, t)'
      BY <2>1, <2>2 DEF Carries
  <2>3. session[q] \cup stored \subseteq session'[q] \cup stored'
      BY <2>1
  <2> QED
      BY <1>2, <2>1, <2>2, <2>3 DEF RequestIsSound
<1> QED
    BY <1>1, <1>3 DEF SubInv

LEMMA NewFields ==
    /\ DOMAIN New = {"op", "pc", "world", "plan", "snapshot", "spiked", "code"}
    /\ New.op = "none" /\ New.pc = "new" /\ New.code = 0
BY DEF New

\* The request is answered, and its session closed.
LEMMA AnswerKeeps ==
    ASSUME SubInv, NEW r \in Request, NEW code, Answer(r, code),
           req[r].pc \notin {"new", "done"},
           rows' = rows, stored \subseteq stored', WorldIsStored',
           code = 200 /\ req[r].op \in {"seed", "inject"} => Carries(r, stored')
    PROVE  SubInv'
<1> DEFINE x == [req[r] EXCEPT !.pc = "done", !.code = code, !.plan = {}, !.snapshot = {}]
<1>1. DOMAIN req = Request /\ DOMAIN req[r] = DOMAIN New
    BY DEF SubInv, RequestIsSound
<1>2. req' = [req EXCEPT ![r] = x]
    BY <1>1 DEF Answer
<1>3. /\ x.pc = "done" /\ x.code = code /\ x.op = req[r].op /\ x.world = req[r].world
      /\ DOMAIN x = DOMAIN New
    BY <1>1, NewFields
<1> HIDE DEF x
<1>4. req'[r] = x
    BY <1>1, <1>2
<1>5. RequestIsSound(r)'
  <2>1. code = 200 /\ req[r].op \in {"seed", "inject"} => Carries(r, stored)'
      BY <1>3, <1>4 DEF Carries
  <2>2. x.op # "metrics" \/ x.pc = "done"
      BY <1>3
  <2> QED
      BY <1>3, <1>4, <2>1 DEF RequestIsSound
<1>6. /\ DOMAIN rows' = Request /\ DOMAIN session' = Request
      /\ \A q \in Request \ {r} : session'[q] = session[q]
    BY DEF SubInv, Answer
<1> QED
    BY <1>2, <1>3, <1>5, <1>6, OneMoves

\* A request that stores rows moves to its next statement.
LEMMA NextStatement ==
    ASSUME SubInv, NEW r \in Request, NEW x, req' = [req EXCEPT ![r] = x],
           req[r].pc \notin {"new", "done", "read"},
           DOMAIN x = DOMAIN New,
           x.op = req[r].op, x.world = req[r].world, x.code = req[r].code,
           x.pc \in {"spike", "planDrop", "drop", "create", "commit", "publish"},
           x.pc \in {"spike", "planDrop", "drop", "create"} => Carries(r, rows'[req[r].world]),
           x.pc = "commit" => Carries(r, session'[r] \cup stored'),
           x.pc = "publish" => Carries(r, stored'),
           DOMAIN rows' = Request, DOMAIN session' = Request,
           stored \subseteq stored', world' = world,
           \A q \in Request \ {r} : session'[q] = session[q],
           \A w \in Request : rows[w] \subseteq rows'[w]
    PROVE  SubInv'
<1>1. DOMAIN req = Request /\ RequestIsSound(r)
    BY DEF SubInv
<1>2. req'[r] = x /\ \A q \in Request : req[q].pc # "new" => req'[q].pc # "new"
    BY <1>1
<1>3. \A s : Carries(r, s) => (req'[r].op = "seed" => Batch(r, r, 0) \in s)
                              /\ (req'[r].op # "seed" => \E b \in s : b.by = r)
    BY <1>2 DEF Carries
<1>4. WorldIsStored'
    BY <1>2 DEF SubInv, WorldIsStored
<1>5. /\ x.pc \in {"spike", "planDrop", "drop", "create"} => Carries(r, rows[req[r].world])'
      /\ x.pc = "commit" => Carries(r, session[r] \cup stored)'
      /\ x.pc = "publish" => Carries(r, stored)'
    BY <1>2, <1>3 DEF Carries
<1>6. RequestIsSound(r)'
    BY <1>1, <1>2, <1>5 DEF RequestIsSound
<1> QED
    BY <1>4, <1>6, OneMoves

-----------------------------------------------------------------------------
(***************************************************************************)
(* The statements.                                                         *)
(***************************************************************************)
\* A request begins.
LEMMA BeginKeeps ==
    ASSUME SubInv, NEW r \in Request, BeginSeed(r) \/ BeginInject(r) \/ BeginMetrics(r)
    PROVE  SubInv'
<1>1. /\ DOMAIN req = Request /\ DOMAIN rows = Request /\ DOMAIN session = Request
      /\ req[r].pc = "new" /\ UNCHANGED <<world, stored, session>>
    BY DEF SubInv, BeginSeed, BeginInject, BeginMetrics, Arrives, memory
<1>2. ASSUME NEW x, req' = [req EXCEPT ![r] = x], x.pc # "new" PROVE WorldIsStored'
    BY <1>1, <1>2 DEF SubInv, WorldIsStored
<1>3. \A w \in Request : req[w].pc # "new" => w # r
    BY <1>1
<1>4. CASE BeginSeed(r)
  <2> DEFINE x == [New EXCEPT !.op = "seed", !.pc = "planDrop", !.world = r]
  <2>1. req' = [req EXCEPT ![r] = x] /\ rows' = [rows EXCEPT ![r] = {Batch(r, r, 0)}]
      BY <1>4 DEF BeginSeed
  <2>2. /\ x.op = "seed" /\ x.pc = "planDrop" /\ x.world = r /\ x.code = 0
        /\ DOMAIN x = DOMAIN New
      BY NewFields
  <2> HIDE DEF x
  <2>3. /\ req'[r] = x /\ rows'[r] = {Batch(r, r, 0)}
        /\ DOMAIN rows' = Request /\ \A w \in Request \ {r} : rows'[w] = rows[w]
      BY <1>1, <2>1
  <2>4. RequestIsSound(r)'
      BY <2>2, <2>3 DEF RequestIsSound, Carries
  <2> QED
      BY <1>1, <1>2, <1>3, <2>1, <2>2, <2>3, <2>4, OneMoves
<1>5. CASE BeginInject(r)
  <2>1. rows' = rows
      BY <1>5 DEF BeginInject, memory
  <2>2. CASE world = NoWorld
    <3> DEFINE x == [New EXCEPT !.op = "inject", !.pc = "done", !.code = 409]
    <3>1. req' = [req EXCEPT ![r] = x]
        BY <1>5, <2>2 DEF BeginInject
    <3>2. /\ x.op = "inject" /\ x.pc = "done" /\ x.code = 409 /\ DOMAIN x = DOMAIN New
        BY NewFields
    <3> HIDE DEF x
    <3>3. req'[r] = x
        BY <1>1, <3>1
    <3>4. RequestIsSound(r)'
        BY <3>2, <3>3 DEF RequestIsSound
    <3> QED
        BY <1>1, <1>2, <2>1, <3>1, <3>2, <3>4, OneMoves
  <2>3. CASE world # NoWorld
    <3> DEFINE x == [New EXCEPT !.op = "inject", !.pc = "append", !.world = world,
                                !.plan = {NextPlace(world)}]
    <3>1. req' = [req EXCEPT ![r] = x]
        BY <1>5, <2>3 DEF BeginInject
    <3>2. /\ x.op = "inject" /\ x.pc = "append" /\ x.world = world /\ x.code = 0
          /\ x.plan = {NextPlace(world)} /\ DOMAIN x = DOMAIN New
        BY NewFields
    <3> HIDE DEF x
    <3>3. /\ req'[r] = x /\ world \in Request /\ world # r
          /\ req'[world].pc # "new"
        BY <1>1, <2>3, <3>1 DEF SubInv, WorldIsStored
    <3>4. RequestIsSound(r)'
        BY <1>1, <3>2, <3>3 DEF RequestIsSound
    <3> QED
        BY <1>1, <1>2, <2>1, <3>1, <3>2, <3>4, OneMoves
  <2> QED
      BY <2>2, <2>3
<1>6. CASE BeginMetrics(r)
  <2>1. rows' = rows
      BY <1>6 DEF BeginMetrics, memory
  <2>2. CASE world = NoWorld
    <3> DEFINE x == [New EXCEPT !.op = "metrics", !.pc = "done", !.code = 409]
    <3>1. req' = [req EXCEPT ![r] = x]
        BY <1>6, <2>2 DEF BeginMetrics
    <3>2. /\ x.op = "metrics" /\ x.pc = "done" /\ x.code = 409 /\ DOMAIN x = DOMAIN New
        BY NewFields
    <3> HIDE DEF x
    <3>3. req'[r] = x
        BY <1>1, <3>1
    <3>4. RequestIsSound(r)'
        BY <3>2, <3>3 DEF RequestIsSound
    <3> QED
        BY <1>1, <1>2, <2>1, <3>1, <3>2, <3>4, OneMoves
  <2>3. CASE world # NoWorld
    <3> DEFINE x == [New EXCEPT !.op = "metrics", !.pc = "read", !.world = world,
                                !.snapshot = rows[world], !.spiked = world \in spiked]
    <3>1. req' = [req EXCEPT ![r] = x]
        BY <1>6, <2>3 DEF BeginMetrics
    <3>2. /\ x.op = "metrics" /\ x.pc = "read" /\ x.world = world /\ x.code = 0
          /\ DOMAIN x = DOMAIN New
        BY NewFields
    <3> HIDE DEF x
    <3>3. /\ req'[r] = x /\ world \in Request /\ world # r
          /\ req'[world].pc # "new"
        BY <1>1, <2>3, <3>1 DEF SubInv, WorldIsStored
    <3>4. RequestIsSound(r)'
        BY <1>1, <3>2, <3>3 DEF RequestIsSound
    <3> QED
        BY <1>1, <1>2, <2>1, <3>1, <3>2, <3>4, OneMoves
  <2> QED
      BY <2>2, <2>3
<1> QED
    BY <1>4, <1>5, <1>6

\* What the statements below share: the request is one that stores rows.
LEMMA Storing ==
    ASSUME SubInv, NEW r \in Request,
           req[r].pc \in {"append", "spike", "planDrop", "drop", "create", "commit", "publish"}
    PROVE  /\ DOMAIN req = Request /\ DOMAIN rows = Request /\ DOMAIN session = Request
           /\ DOMAIN req[r] = DOMAIN New /\ req[r].op # "metrics" /\ req[r].code = 0
           /\ req[r].world \in Request
           /\ req[r].pc \notin {"new", "done", "read"}
BY DEF SubInv, RequestIsSound

\* The rows of an incident appear in the lists of the world, and the incident is set.
LEMMA IncidentKeeps ==
    ASSUME SubInv, NEW r \in Request, AppendRows(r) \/ SetIncident(r)
    PROVE  SubInv'
<1>1. CASE AppendRows(r)
  <2> DEFINE w == req[r].world
             x == [req[r] EXCEPT !.pc = "spike"]
  <2>1. /\ req[r].pc = "append" /\ UNCHANGED <<world, stored, session>>
        /\ rows' = [rows EXCEPT ![w] = @ \cup {Batch(w, r, place) : place \in req[r].plan}]
        /\ req' = [req EXCEPT ![r] = x]
      BY <1>1 DEF AppendRows, Goto
  <2>2. /\ DOMAIN req = Request /\ DOMAIN rows = Request /\ DOMAIN session = Request
        /\ DOMAIN req[r] = DOMAIN New /\ w \in Request
        /\ req[r].pc \notin {"new", "done", "read"}
      BY <2>1, Storing
  <2>3. /\ DOMAIN x = DOMAIN New /\ x.pc = "spike"
        /\ x.op = req[r].op /\ x.world = req[r].world /\ x.code = req[r].code
      BY <2>2, NewFields
  <2>4. req[r].op = "inject" /\ req[r].plan # {}
      BY <2>1 DEF SubInv, RequestIsSound
  <2>5. /\ rows'[w] = rows[w] \cup {Batch(w, r, place) : place \in req[r].plan}
        /\ DOMAIN rows' = Request /\ \A v \in Request : rows[v] \subseteq rows'[v]
      BY <2>1, <2>2
  <2>6. Carries(r, rows'[w])
    <3>1. PICK place \in req[r].plan : TRUE
        BY <2>4
    <3>2. Batch(w, r, place) \in rows'[w] /\ Batch(w, r, place).by = r
        BY <2>5, <3>1 DEF Batch
    <3> QED
        BY <2>4, <3>2 DEF Carries
  <2> HIDE DEF x
  <2> QED
      BY <2>1, <2>2, <2>3, <2>5, <2>6, NextStatement
<1>2. CASE SetIncident(r)
  <2> DEFINE x == [req[r] EXCEPT !.pc = "planDrop"]
  <2>1. /\ req[r].pc = "spike" /\ UNCHANGED <<world, rows, stored, session>>
        /\ req' = [req EXCEPT ![r] = x]
      BY <1>2 DEF SetIncident, Goto
  <2>2. /\ DOMAIN rows = Request /\ DOMAIN session = Request
        /\ DOMAIN req[r] = DOMAIN New /\ req[r].pc \notin {"new", "done", "read"}
      BY <2>1, Storing
  <2>3. /\ DOMAIN x = DOMAIN New /\ x.pc = "planDrop"
        /\ x.op = req[r].op /\ x.world = req[r].world /\ x.code = req[r].code
      BY <2>2, NewFields
  <2>4. Carries(r, rows[req[r].world])
      BY <2>1 DEF SubInv, RequestIsSound
  <2> HIDE DEF x
  <2> QED
      BY <2>1, <2>2, <2>3, <2>4, NextStatement
<1> QED
    BY <1>1, <1>2

LEMMA ReadKeeps == ASSUME SubInv, NEW r \in Request, ReadAttempts(r) PROVE SubInv'
<1>1. /\ req[r].pc = "read" /\ UNCHANGED <<world, rows, stored>>
      /\ \E code : Answer(r, code)
    BY DEF ReadAttempts, memory
<1>2. PICK code : Answer(r, code)
    BY <1>1
<1>3. req[r].op = "metrics"
    BY <1>1 DEF SubInv, RequestIsSound
<1>4. WorldIsStored'
    BY <1>1, <1>2 DEF SubInv, WorldIsStored, RequestIsSound, Answer
<1> QED
    BY <1>1, <1>2, <1>3, <1>4, AnswerKeeps

\* The tables are dropped and made again: nothing a request carries depends on them.
LEMMA ResetKeeps ==
    ASSUME SubInv, NEW r \in Request, PlanDrop(r) \/ Drop(r) \/ PlanCreate(r) \/ Create(r)
    PROVE  SubInv'
<1>1. /\ req[r].pc \in {"planDrop", "drop", "create"} /\ UNCHANGED <<world, rows, stored>>
    BY DEF PlanDrop, Drop, PlanCreate, Create, memory
<1>2. /\ DOMAIN req = Request /\ DOMAIN rows = Request /\ DOMAIN session = Request
      /\ DOMAIN req[r] = DOMAIN New /\ req[r].pc \notin {"new", "done", "read"}
    BY <1>1, Storing
<1>3. Carries(r, rows[req[r].world])
    BY <1>1 DEF SubInv, RequestIsSound
<1>4. CASE Answer(r, 500)
  <2>1. WorldIsStored'
      BY <1>1, <1>2, <1>4 DEF SubInv, WorldIsStored, Answer
  <2> QED
      BY <1>1, <1>2, <1>4, <2>1, AnswerKeeps
<1>5. ASSUME NEW pc \in {"drop", "create"}, NEW plan,
             req' = [req EXCEPT ![r] = [req[r] EXCEPT !.pc = pc, !.plan = plan]],
             session' = session
      PROVE  SubInv'
  <2> DEFINE x == [req[r] EXCEPT !.pc = pc, !.plan = plan]
  <2>1. /\ DOMAIN x = DOMAIN New /\ x.pc = pc
        /\ x.op = req[r].op /\ x.world = req[r].world /\ x.code = req[r].code
      BY <1>2, NewFields
  <2>2. req' = [req EXCEPT ![r] = x]
      BY <1>5
  <2> HIDE DEF x
  <2> QED
      BY <1>1, <1>2, <1>3, <1>5, <2>1, <2>2, NextStatement
<1>6. CASE PlanDrop(r)
  <2>1. req' = [req EXCEPT ![r] = [req[r] EXCEPT !.pc = "drop", !.plan = tables]]
      BY <1>2, <1>6 DEF PlanDrop
  <2> QED
      BY <1>5, <1>6, <2>1 DEF PlanDrop
<1>7. CASE PlanCreate(r)
  <2>1. req' = [req EXCEPT ![r] = [req[r] EXCEPT !.pc = "create", !.plan = Table \ tables]]
      BY <1>2, <1>7 DEF PlanCreate
  <2> QED
      BY <1>5, <1>7, <2>1 DEF PlanCreate
<1>8. ASSUME NEW t, req[r].pc \in {"drop", "create"},
             req' = [req EXCEPT ![r].plan = @ \ {t}], session' = session
      PROVE  SubInv'
  <2>1. req' = [req EXCEPT ![r] = [req[r] EXCEPT !.pc = req[r].pc, !.plan = req[r].plan \ {t}]]
    <3>1. [req[r] EXCEPT !.plan = req[r].plan \ {t}] =
             [req[r] EXCEPT !.pc = req[r].pc, !.plan = req[r].plan \ {t}]
        BY <1>2, NewFields
    <3> QED
        BY <1>2, <1>8, <3>1
  <2> QED
      BY <1>5, <1>8, <2>1
<1>9. CASE Drop(r)
    BY <1>4, <1>8, <1>9 DEF Drop
<1>10. CASE Create(r)
    BY <1>4, <1>8, <1>10 DEF Create
<1> QED
    BY <1>6, <1>7, <1>9, <1>10

\* The rows reach the session, the database, and the answer.
LEMMA PersistKeeps ==
    ASSUME SubInv, NEW r \in Request, AddRows(r) \/ Commit(r) \/ Publish(r)
    PROVE  SubInv'
<1>1. /\ req[r].pc \in {"create", "commit", "publish"} /\ rows' = rows
      /\ stored \subseteq stored'
    BY DEF AddRows, Commit, Publish, memory
<1>2. /\ DOMAIN req = Request /\ DOMAIN rows = Request /\ DOMAIN session = Request
      /\ DOMAIN req[r] = DOMAIN New /\ req[r].pc \notin {"new", "done", "read"}
      /\ RequestIsSound(r)
    BY <1>1, Storing DEF SubInv
<1>3. ASSUME NEW code, Answer(r, code), code # 200, world' = world PROVE SubInv'
  <2>1. WorldIsStored'
      BY <1>1, <1>2, <1>3 DEF SubInv, WorldIsStored, Answer
  <2> QED
      BY <1>1, <1>2, <1>3, <2>1, AnswerKeeps
<1>4. ASSUME NEW pc \in {"commit", "publish"}, Goto(r, pc), world' = world,
             DOMAIN session' = Request,
             \A q \in Request \ {r} : session'[q] = session[q],
             pc = "commit" => Carries(r, session'[r] \cup stored'),
             pc = "publish" => Carries(r, stored')
      PROVE  SubInv'
  <2> DEFINE x == [req[r] EXCEPT !.pc = pc]
  <2>1. /\ DOMAIN x = DOMAIN New /\ x.pc = pc
        /\ x.op = req[r].op /\ x.world = req[r].world /\ x.code = req[r].code
      BY <1>2, NewFields
  <2>2. req' = [req EXCEPT ![r] = x]
      BY <1>4 DEF Goto
  <2> HIDE DEF x
  <2> QED
      BY <1>1, <1>2, <1>4, <2>1, <2>2, NextStatement
<1>5. CASE AddRows(r)
  <2>1. CASE Answer(r, 500)
      BY <1>3, <1>5, <2>1 DEF AddRows, memory
  <2>2. CASE /\ session' = [session EXCEPT ![r] = rows[req[r].world] \ stored]
             /\ Goto(r, "commit")
    <3>1. /\ DOMAIN session' = Request /\ \A q \in Request \ {r} : session'[q] = session[q]
          /\ session'[r] = rows[req[r].world] \ stored
        BY <1>2, <2>2
    <3>2. rows[req[r].world] \subseteq session'[r] \cup stored'
        BY <1>1, <3>1
    <3>3. Carries(r, rows[req[r].world])
        BY <1>2, <1>5 DEF AddRows, RequestIsSound
    <3>4. Carries(r, session'[r] \cup stored')
        BY <3>2, <3>3 DEF Carries
    <3> QED
        BY <1>4, <1>5, <2>2, <3>1, <3>4 DEF AddRows, memory
  <2> QED
      BY <1>5, <2>1, <2>2 DEF AddRows
<1>6. CASE Commit(r)
  <2>1. CASE Answer(r, 500)
      BY <1>3, <1>6, <2>1 DEF Commit, memory
  <2>2. CASE /\ stored' = stored \cup session[r]
             /\ session' = [session EXCEPT ![r] = {}]
             /\ Goto(r, "publish")
    <3>1. DOMAIN session' = Request /\ \A q \in Request \ {r} : session'[q] = session[q]
        BY <1>2, <2>2
    <3>2. Carries(r, session[r] \cup stored)
        BY <1>2, <1>6 DEF Commit, RequestIsSound
    <3>3. Carries(r, stored')
        BY <2>2, <3>2 DEF Carries
    <3> QED
        BY <1>4, <1>6, <2>2, <3>1, <3>3 DEF Commit, memory
  <2> QED
      BY <1>6, <2>1, <2>2 DEF Commit
<1>7. CASE Publish(r)
  <2>1. /\ req[r].pc = "publish" /\ stored' = stored /\ Answer(r, 200)
        /\ world' = IF req[r].op = "seed" THEN req[r].world ELSE world
      BY <1>7 DEF Publish
  <2>2. Carries(r, stored) /\ (req[r].op = "seed" => req[r].world = r)
      BY <1>2, <2>1 DEF RequestIsSound
  <2>3. req'[r].pc = "done" /\ \A q \in Request \ {r} : req'[q] = req[q]
      BY <1>2, <2>1, NewFields DEF Answer
  <2>4. WorldIsStored'
    <3>1. CASE req[r].op = "seed"
        BY <2>1, <2>2, <2>3, <3>1 DEF Carries, WorldIsStored
    <3>2. CASE req[r].op # "seed"
        BY <1>2, <2>1, <2>3, <3>2 DEF SubInv, WorldIsStored
    <3> QED
        BY <3>1, <3>2
  <2> QED
      BY <1>1, <1>2, <2>1, <2>2, <2>4, AnswerKeeps
<1> QED
    BY <1>5, <1>6, <1>7

\* The process ends: no world is shown, and whoever was running is never answered.
LEMMA RestartKeeps == ASSUME SubInv, Restart PROVE SubInv'
<1>1. /\ world' = NoWorld /\ stored' = stored
      /\ DOMAIN req' = Request /\ DOMAIN rows' = Request /\ DOMAIN session' = Request
    BY DEF Restart
<1>2. ASSUME NEW r \in Request PROVE RequestIsSound(r)'
  <2> DEFINE x == [New EXCEPT !.pc = "done"]
  <2>1. /\ DOMAIN x = DOMAIN New /\ x.pc = "done" /\ x.code = 0 /\ x.op = "none"
      BY NewFields
  <2>2. req'[r] = IF r \in Running THEN x ELSE req[r]
      BY DEF Restart
  <2> HIDE DEF x
  <2>3. CASE r \in Running
      BY <2>1, <2>2, <2>3 DEF RequestIsSound
  <2>4. CASE r \notin Running
    <3>1. req'[r] = req[r] /\ req[r].pc \in {"new", "done"} /\ RequestIsSound(r)
        BY <2>2, <2>4 DEF Running, SubInv
    <3> QED
        BY <1>1, <3>1 DEF RequestIsSound, Carries
  <2> QED
      BY <2>3, <2>4
<1> QED
    BY <1>1, <1>2 DEF SubInv, WorldIsStored

LEMMA SubInitInv == Init => SubInv
<1> SUFFICES ASSUME Init PROVE SubInv
    OBVIOUS
<1>1. /\ DOMAIN req = Request /\ DOMAIN rows = Request /\ DOMAIN session = Request
      /\ world = NoWorld /\ \A r \in Request : req[r] = New
    BY DEF Init
<1>2. \A r \in Request : RequestIsSound(r)
    BY <1>1, NewFields DEF RequestIsSound
<1> QED
    BY <1>1, <1>2 DEF SubInv, WorldIsStored

LEMMA SubStepInv == SubInv /\ [Next]_vars => SubInv'
<1> SUFFICES ASSUME SubInv, [Next]_vars PROVE SubInv'
    OBVIOUS
<1>1. CASE UNCHANGED vars
    BY <1>1 DEF vars, SubInv, WorldIsStored, RequestIsSound, Carries
<1>2. CASE \E r \in Request : BeginSeed(r) \/ BeginInject(r) \/ BeginMetrics(r)
    BY <1>2, BeginKeeps
<1>3. CASE \E r \in Request : AppendRows(r) \/ SetIncident(r) \/ ReadAttempts(r)
    BY <1>3, IncidentKeeps, ReadKeeps
<1>4. CASE \E r \in Request : PlanDrop(r) \/ Drop(r) \/ PlanCreate(r) \/ Create(r)
    BY <1>4, ResetKeeps
<1>5. CASE \E r \in Request : AddRows(r) \/ Commit(r) \/ Publish(r)
    BY <1>5, PersistKeeps
<1>6. CASE Restart
    BY <1>6, RestartKeeps
<1> QED
    BY <1>1, <1>2, <1>3, <1>4, <1>5, <1>6 DEF Next

-----------------------------------------------------------------------------
(***************************************************************************)
(* What is shown was stored.                                               *)
(***************************************************************************)
\* However the requests interleave, fail or are cut off, the invariant holds.
THEOREM SubInvariance == Spec => []SubInv
<1> QED
    BY SubInitInv, SubStepInv, PTL DEF Spec

\* The world that requests read, and the rows of every seed and injection answered with
\* success, were accepted by the database (routers/demo.py, services/financial_state.py).
THEOREM ShownStored == Spec => []ShownWasStored
<1>1. SubInv => ShownWasStored
  <2> SUFFICES ASSUME SubInv PROVE ShownWasStored
      OBVIOUS
  <2>1. world # NoWorld => Batch(world, world, 0) \in stored
      BY DEF SubInv, WorldIsStored
  <2>2. ASSUME NEW r \in Request, req[r].code = 200, req[r].op \in {"seed", "inject"}
        PROVE  \E b \in stored : b.by = r
    <3>1. Carries(r, stored)
        BY <2>2 DEF SubInv, RequestIsSound
    <3>2. Batch(r, r, 0).by = r
        BY DEF Batch
    <3> QED
        BY <3>1, <3>2 DEF Carries
  <2> QED
      BY <2>1, <2>2 DEF ShownWasStored
<1> QED
    BY <1>1, SubInvariance, PTL

-----------------------------------------------------------------------------
(***************************************************************************)
(* A seed that nothing ran beside. Requests begin in the order of their    *)
(* numbers: as long as such a request runs, those before it have ended and *)
(* those after it have not begun, so that the tables and the lists are as  *)
(* it has left them at its last statement.                                 *)
(***************************************************************************)
\* Whose batches there are, and how far their request has come: a world is shared once
\* its seed has been answered, and stored when its seed publishes it.
BatchesAreOwned ==
    /\ world # NoWorld => req[world].pc = "done"
    /\ \A q \in Request :
          /\ q \in Running /\ req[q].op # "seed" => req[req[q].world].pc = "done"
          /\ q \in Running /\ req[q].op = "seed" => rows[q] = {Batch(q, q, 0)}
          /\ \A b \in rows[q] : b.world = q
          /\ \A b \in session[q] : b.world = req[q].world /\ req[q].pc = "commit"
    /\ \A b \in stored : b.world \in Request /\ req[b.world].pc \in {"publish", "done"}

\* A table that is not in the file has no rows; what is to be dropped or made is a table.
FileIsSound ==
    /\ tables \in SUBSET Table /\ DOMAIN db = Table
    /\ \A t \in Table \ tables : db[t] = {}
    /\ \A q \in Request : req[q].pc \in {"drop", "create"} => req[q].plan \in SUBSET Table

InOrder == \A p, q \in Request : p < q /\ req[p].pc = "new" => req[q].pc = "new"

Only(r) == \A t \in Table : db[t] = {Batch(r, r, 0)}

\* A seed that nothing runs beside finds at each statement what it has left there.
SeedIsClean(r) ==
    /\ req[r].pc = "drop" => req[r].plan = tables
    /\ req[r].pc = "create" => req[r].plan = Table \ tables /\ \A t \in Table : db[t] = {}
    /\ req[r].pc = "commit" => /\ tables = Table /\ session[r] = {Batch(r, r, 0)}
                               /\ \A t \in Table : db[t] = {}
    /\ req[r].pc = "publish" => Only(r)
    /\ req[r].pc = "done" =>
          /\ req[r].code = 200
          /\ (\A q \in Request : q > r => req[q].pc = "new") => world = r /\ Only(r)

Undisturbed(r) ==
    /\ req[r].pc # "new"
    /\ \A q \in Request : q < r => req[q].pc = "done"
    /\ req[r].pc # "done" => \A q \in Request : q > r => req[q].pc = "new"
    /\ req[r].pc = "read" => req[r].snapshot = rows[req[r].world]
    /\ req[r].op = "metrics" => req[r].code # 500
    /\ req[r].op = "seed" => SeedIsClean(r)

RepairInv ==
    /\ BatchesAreOwned /\ FileIsSound /\ InOrder
    /\ alone \subseteq Request /\ \A r \in alone : Undisturbed(r)

LEMMA RequestIsInt == Request \subseteq Int
BY DEF Request

\* Request r executes a statement, and leaves what the others have.
LEMMA OneStatement ==
    ASSUME SubInv, RepairInv, NEW r \in Request, \A q \in Request \ {r} : req'[q] = req[q],
           req[r].pc \notin {"new", "done"}, alone' = alone,
           req'[r].pc \notin {"new", "read"}, req'[r].op = req[r].op, req'[r].world = req[r].world,
           req[r].pc = "publish" => req'[r].pc \in {"publish", "done"},
           world' = world \/ (world' = r /\ req'[r].pc = "done"),
           \A q \in Request : \/ rows'[q] = rows[q]
                              \/ req[q].pc = "done" /\ \A b \in rows'[q] : b.world = q,
           \A q \in Request \ {r} : session'[q] = session[q],
           \A b \in session'[r] : b.world = req'[r].world /\ req'[r].pc = "commit",
           \A b \in stored' \ stored :
              \/ b.world = r /\ req'[r].pc = "publish"
              \/ b.world \in Request \ {r} /\ req[b.world].pc = "done",
           FileIsSound',
           r \in alone /\ req'[r].op = "metrics" => req'[r].code # 500,
           r \in alone /\ req'[r].op = "seed" => SeedIsClean(r)'
    PROVE  RepairInv'
<1> DEFINE x == req'[r]
<1>1. /\ req'[r] = x /\ \A q \in Request \ {r} : req'[q] = req[q]
    OBVIOUS
<1>2. InOrder'
    BY <1>1 DEF RepairInv, InOrder
<1>3. BatchesAreOwned'
    <2>1. world' # NoWorld => req'[world'].pc = "done"
        <3>1. world # NoWorld => world \in Request /\ req[world].pc = "done"
            BY DEF RepairInv, BatchesAreOwned, SubInv, WorldIsStored
        <3> QED
            BY <1>1, <3>1
    <2>2. \A b \in stored' : b.world \in Request /\ req'[b.world].pc \in {"publish", "done"}
        <3> TAKE b \in stored'
        <3>1. CASE b \in stored
            <4>1. b.world \in Request /\ req[b.world].pc \in {"publish", "done"}
                BY <3>1 DEF RepairInv, BatchesAreOwned
            <4> QED
                BY <1>1, <4>1
        <3>2. CASE b \notin stored
            BY <1>1, <3>2
        <3> QED
            BY <3>1, <3>2
    <2>3. ASSUME NEW q \in Request
          PROVE  /\ q \in Running' /\ req'[q].op # "seed" => req'[req'[q].world].pc = "done"
                 /\ q \in Running' /\ req'[q].op = "seed" => rows'[q] = {Batch(q, q, 0)}
                 /\ \A b \in rows'[q] : b.world = q
                 /\ \A b \in session'[q] : b.world = req'[q].world /\ req'[q].pc = "commit"
        <3>1. /\ q \in Running /\ req[q].op # "seed" => req[req[q].world].pc = "done"
              /\ q \in Running /\ req[q].op = "seed" => rows[q] = {Batch(q, q, 0)}
              /\ \A b \in rows[q] : b.world = q
              /\ \A b \in session[q] : b.world = req[q].world /\ req[q].pc = "commit"
              /\ q \in Running => req[q].world \in Request
            BY DEF RepairInv, BatchesAreOwned, SubInv, RequestIsSound, Running
        <3>2. /\ q \in Running' => q \in Running
              /\ q \in Running => req[q].pc # "done"
            BY <1>1 DEF Running
        <3>3. req'[q].op = req[q].op /\ req'[q].world = req[q].world
            BY <1>1
        <3>4. \A p \in Request : req[p].pc = "done" => req'[p].pc = "done"
            BY <1>1
        <3>5. \A b \in session'[q] : b.world = req'[q].world /\ req'[q].pc = "commit"
            BY <1>1, <3>1
        <3> QED
            BY <3>1, <3>2, <3>3, <3>4, <3>5
    <2> QED
        BY <2>1, <2>2, <2>3 DEF BatchesAreOwned
<1>4. ASSUME NEW s \in alone PROVE s \in Request /\ Undisturbed(s)'
    <2>1. s \in Request /\ Undisturbed(s)
        BY DEF RepairInv
    <2>2. CASE s = r
        <3>1. /\ \A q \in Request : q < r => req'[q].pc = "done"
              /\ \A q \in Request : q > r => req'[q].pc = "new"
            <4>1. \A q \in Request : q < r \/ q > r => q # r
                BY RequestIsInt
            <4> QED
                BY <1>1, <2>1, <2>2, <4>1 DEF Undisturbed
        <3> QED
            BY <1>1, <2>2, <3>1 DEF Undisturbed
    <2>3. CASE s # r
        <3>1. s < r \/ r < s
            BY <2>1, <2>3, RequestIsInt
        <3>2. req[s].pc = "done" /\ r > s
            BY <2>1, <3>1 DEF Undisturbed
        <3>3. req'[s] = req[s]
            BY <1>1, <2>1, <2>3
        <3>4. \A q \in Request : q < s => req'[q].pc = "done"
            BY <1>1, <2>1 DEF Undisturbed
        <3>5. req'[r].pc # "new"
            BY <1>1
        <3>6. SeedIsClean(s) => SeedIsClean(s)'
            BY <3>2, <3>3, <3>5 DEF SeedIsClean
        <3> QED
            BY <2>1, <3>2, <3>3, <3>4, <3>6 DEF Undisturbed
    <2> QED
        BY <2>2, <2>3
<1> QED
    BY <1>2, <1>3, <1>4 DEF RepairInv

\* Request r begins.
LEMMA BeginIsSound ==
    ASSUME SubInv, RepairInv, NEW r \in Request, Arrives(r), \A q \in Request \ {r} : req'[q] = req[q],
           world' = world, stored' = stored, session' = session, tables' = tables, db' = db,
           \A q \in Request \ {r} : rows'[q] = rows[q],
           \A b \in rows'[r] : b.world = r,
           req'[r].pc \in {"done", "planDrop", "append", "read"},
           req'[r].pc # "done" /\ req'[r].op = "seed" => rows'[r] = {Batch(r, r, 0)},
           req'[r].pc # "done" /\ req'[r].op # "seed" =>
              world # NoWorld /\ req'[r].world = world,
           req'[r].pc = "read" => req'[r].snapshot = rows'[req'[r].world],
           req'[r].op = "metrics" => req'[r].code # 500,
           req'[r].op = "seed" => req'[r].pc = "planDrop"
    PROVE  RepairInv'
<1> DEFINE x == req'[r]
<1>1. /\ req'[r] = x /\ req[r].pc = "new"
      /\ \A q \in Request \ {r} : req'[q] = req[q]
      /\ \A q \in 1 .. r - 1 : req[q].pc # "new"
      /\ x.pc # "new"
    BY DEF Arrives
<1>2. \A q \in Request : q < r => req[q].pc # "new"
    BY <1>1 DEF Request
<1>3. InOrder'
    BY <1>1, <1>2 DEF RepairInv, InOrder
<1>4. FileIsSound'
    BY <1>1 DEF RepairInv, FileIsSound
<1>5. BatchesAreOwned'
    <2>1. world # NoWorld => world \in Request /\ req[world].pc = "done" /\ req'[world].pc = "done"
        BY <1>1 DEF RepairInv, BatchesAreOwned, SubInv, WorldIsStored
    <2>2. \A b \in stored : b.world \in Request /\ req'[b.world].pc \in {"publish", "done"}
        <3> TAKE b \in stored
        <3>1. b.world \in Request /\ req[b.world].pc \in {"publish", "done"}
            BY DEF RepairInv, BatchesAreOwned
        <3> QED
            BY <1>1, <3>1
    <2>3. ASSUME NEW q \in Request
          PROVE  /\ q \in Running' /\ req'[q].op # "seed" => req'[req'[q].world].pc = "done"
                 /\ q \in Running' /\ req'[q].op = "seed" => rows'[q] = {Batch(q, q, 0)}
                 /\ \A b \in rows'[q] : b.world = q
                 /\ \A b \in session'[q] : b.world = req'[q].world /\ req'[q].pc = "commit"
        <3>1. /\ q \in Running /\ req[q].op # "seed" => req[req[q].world].pc = "done"
              /\ q \in Running /\ req[q].op = "seed" => rows[q] = {Batch(q, q, 0)}
              /\ \A b \in rows[q] : b.world = q
              /\ \A b \in session[q] : b.world = req[q].world /\ req[q].pc = "commit"
              /\ q \in Running => req[q].world \in Request
            BY DEF RepairInv, BatchesAreOwned, SubInv, RequestIsSound, Running
        <3>2. CASE q = r
            <4>1. session'[r] = {}
                BY <1>1, <3>1, <3>2
            <4>2. r \in Running' => x.pc # "done"
                BY <1>1 DEF Running
            <4> QED
                BY <1>1, <2>1, <3>2, <4>1, <4>2
        <3>3. CASE q # r
            <4>1. q \in Running' => q \in Running
                BY <1>1, <3>3 DEF Running
            <4>2. \A p \in Request : req[p].pc = "done" => req'[p].pc = "done"
                BY <1>1
            <4> QED
                BY <1>1, <3>1, <3>3, <4>1, <4>2
        <3> QED
            BY <3>2, <3>3
    <2> QED
        BY <2>1, <2>2, <2>3 DEF BatchesAreOwned
<1>6. alone' = IF Running = {} THEN alone \cup {r} ELSE alone \ Running
    BY DEF Arrives
<1>7. ASSUME NEW s \in alone' PROVE s \in Request /\ Undisturbed(s)'
    <2>1. CASE s = r
        <3>1. r \notin alone
            BY <1>1 DEF RepairInv, Undisturbed
        <3>2. Running = {}
            BY <1>6, <2>1, <3>1
        <3>3. \A q \in Request : q < r => req[q].pc = "done"
            BY <1>2, <3>2 DEF Running
        <3>4. \A q \in Request : q > r => req[q].pc = "new"
            BY <1>1 DEF RepairInv, InOrder
        <3>5. \A q \in Request : q < r \/ q > r => q # r
            BY RequestIsInt
        <3>6. x.op = "seed" => SeedIsClean(r)'
            BY <1>1 DEF SeedIsClean
        <3> QED
            BY <1>1, <2>1, <3>3, <3>4, <3>5, <3>6 DEF Undisturbed
    <2>2. CASE s # r
        <3>1. s \in alone /\ s \notin Running
            BY <1>6, <2>2
        <3>2. s \in Request /\ Undisturbed(s)
            BY <3>1 DEF RepairInv
        <3>3. req[s].pc = "done" /\ req'[s] = req[s]
            BY <1>1, <2>2, <3>1, <3>2 DEF Running, Undisturbed
        <3>4. r > s
            <4>1. ~ (r < s)
                BY <1>1, <3>2 DEF Undisturbed
            <4>2. r \in Int /\ s \in Int
                BY <3>2, RequestIsInt
            <4> QED
                BY <2>2, <4>1, <4>2
        <3>5. \A q \in Request : q < s => req'[q].pc = "done"
            BY <1>1, <3>2 DEF Undisturbed
        <3>6. SeedIsClean(s) => SeedIsClean(s)'
            BY <1>1, <3>3, <3>4 DEF SeedIsClean
        <3> QED
            BY <3>2, <3>3, <3>5, <3>6 DEF Undisturbed
    <2> QED
        BY <2>1, <2>2
<1> QED
    BY <1>3, <1>4, <1>5, <1>7 DEF RepairInv

-----------------------------------------------------------------------------
(***************************************************************************)
(* The statements, for the repair.                                         *)
(***************************************************************************)
LEMMA BeginRepairs ==
    ASSUME SubInv, RepairInv, NEW r \in Request, BeginSeed(r) \/ BeginInject(r) \/ BeginMetrics(r)
    PROVE  RepairInv'
<1>1. /\ Arrives(r) /\ DOMAIN req = Request /\ DOMAIN rows = Request /\ req[r].pc = "new"
      /\ UNCHANGED <<world, stored, session, tables, db>>
      /\ \A b \in rows[r] : b.world = r
    BY DEF BeginSeed, BeginInject, BeginMetrics, Arrives, file, memory, SubInv, RepairInv,
           BatchesAreOwned
<1>2. CASE BeginSeed(r)
    <2> DEFINE x == [New EXCEPT !.op = "seed", !.pc = "planDrop", !.world = r]
    <2>1. req' = [req EXCEPT ![r] = x] /\ rows' = [rows EXCEPT ![r] = {Batch(r, r, 0)}]
        BY <1>2 DEF BeginSeed
    <2>2. x.op = "seed" /\ x.pc = "planDrop"
        BY NewFields
    <2>3. /\ rows'[r] = {Batch(r, r, 0)} /\ \A q \in Request \ {r} : rows'[q] = rows[q]
          /\ \A b \in rows'[r] : b.world = r
        BY <1>1, <2>1 DEF Batch
    <2> HIDE DEF x
    <2>4. req'[r] = x /\ \A q \in Request \ {r} : req'[q] = req[q]
        BY <1>1, <2>1
    <2> QED
        BY <1>1, <2>1, <2>2, <2>3, <2>4, BeginIsSound
<1>3. CASE BeginInject(r)
    <2>1. rows' = rows
        BY <1>3 DEF BeginInject, memory
    <2>2. CASE world = NoWorld
        <3> DEFINE x == [New EXCEPT !.op = "inject", !.pc = "done", !.code = 409]
        <3>1. req' = [req EXCEPT ![r] = x]
            BY <1>3, <2>2 DEF BeginInject
        <3>2. x.op = "inject" /\ x.pc = "done"
            BY NewFields
        <3> HIDE DEF x
        <3>3. req'[r] = x /\ \A q \in Request \ {r} : req'[q] = req[q]
            BY <1>1, <3>1
        <3> QED
            BY <1>1, <2>1, <3>1, <3>2, <3>3, BeginIsSound
    <2>3. CASE world # NoWorld
        <3> DEFINE x == [New EXCEPT !.op = "inject", !.pc = "append", !.world = world,
                                    !.plan = {NextPlace(world)}]
        <3>1. req' = [req EXCEPT ![r] = x]
            BY <1>3, <2>3 DEF BeginInject
        <3>2. x.op = "inject" /\ x.pc = "append" /\ x.world = world
            BY NewFields
        <3> HIDE DEF x
        <3>3. req'[r] = x /\ \A q \in Request \ {r} : req'[q] = req[q]
            BY <1>1, <3>1
        <3> QED
            BY <1>1, <2>1, <2>3, <3>1, <3>2, <3>3, BeginIsSound
    <2> QED
        BY <2>2, <2>3
<1>4. CASE BeginMetrics(r)
    <2>1. rows' = rows
        BY <1>4 DEF BeginMetrics, memory
    <2>2. CASE world = NoWorld
        <3> DEFINE x == [New EXCEPT !.op = "metrics", !.pc = "done", !.code = 409]
        <3>1. req' = [req EXCEPT ![r] = x]
            BY <1>4, <2>2 DEF BeginMetrics
        <3>2. x.op = "metrics" /\ x.pc = "done" /\ x.code = 409
            BY NewFields
        <3> HIDE DEF x
        <3>3. x.op # "seed" /\ x.code # 500 /\ x.pc # "read"
            BY <3>2
        <3>4. req'[r] = x /\ \A q \in Request \ {r} : req'[q] = req[q]
            BY <1>1, <3>1
        <3> QED
            BY <1>1, <2>1, <3>1, <3>2, <3>3, <3>4, BeginIsSound
    <2>3. CASE world # NoWorld
        <3> DEFINE x == [New EXCEPT !.op = "metrics", !.pc = "read", !.world = world,
                                    !.snapshot = rows[world], !.spiked = world \in spiked]
        <3>1. req' = [req EXCEPT ![r] = x]
            BY <1>4, <2>3 DEF BeginMetrics
        <3>2. /\ x.op = "metrics" /\ x.pc = "read" /\ x.world = world /\ x.code = 0
              /\ x.snapshot = rows[world]
            BY NewFields DEF New
        <3> HIDE DEF x
        <3>3. x.op # "seed" /\ x.code # 500 /\ x.snapshot = rows'[x.world]
            BY <2>1, <3>2
        <3>4. req'[r] = x /\ \A q \in Request \ {r} : req'[q] = req[q]
            BY <1>1, <3>1
        <3> QED
            BY <1>1, <2>1, <2>3, <3>1, <3>2, <3>3, <3>4, BeginIsSound
    <2> QED
        BY <2>2, <2>3
<1> QED
    BY <1>2, <1>3, <1>4

\* What every statement needs to know of the request that executes it.
LEMMA Executing ==
    ASSUME SubInv, RepairInv, NEW r \in Request, req[r].pc \notin {"new", "done"}
    PROVE  /\ DOMAIN req = Request /\ DOMAIN rows = Request /\ DOMAIN session = Request
           /\ DOMAIN req[r] = DOMAIN New /\ r \in Running
           /\ req[r].world \in Request /\ (req[r].op = "seed" => req[r].world = r)
           /\ req[r].op # "seed" => req[r].world # r /\ req[req[r].world].pc = "done"
           /\ req[r].op = "seed" => rows[r] = {Batch(r, r, 0)}
           /\ \A b \in session[r] : b.world = req[r].world /\ req[r].pc = "commit"
           /\ r \in alone => Undisturbed(r)
           /\ FileIsSound
<1>1. r \in Running
    BY DEF Running
<1> QED
    <2>1. /\ DOMAIN req = Request /\ DOMAIN rows = Request /\ DOMAIN session = Request
          /\ RequestIsSound(r)
        BY DEF SubInv
    <2>2. /\ DOMAIN req[r] = DOMAIN New /\ req[r].world \in Request
          /\ req[r].op = "seed" => req[r].world = r
        BY <2>1 DEF RequestIsSound
    <2>3. /\ req[r].op # "seed" => req[req[r].world].pc = "done"
          /\ req[r].op = "seed" => rows[r] = {Batch(r, r, 0)}
          /\ \A b \in session[r] : b.world = req[r].world /\ req[r].pc = "commit"
        BY <1>1 DEF RepairInv, BatchesAreOwned
    <2>4. req[r].op # "seed" => req[r].world # r
        BY <2>3
    <2>5. FileIsSound /\ (r \in alone => Undisturbed(r))
        BY DEF RepairInv
    <2> QED
        BY <1>1, <2>1, <2>2, <2>3, <2>4, <2>5

LEMMA AnswerRecord ==
    ASSUME NEW r \in Request, NEW code, Answer(r, code), DOMAIN session = Request,
           DOMAIN req = Request, DOMAIN req[r] = DOMAIN New
    PROVE  /\ req'[r].pc = "done" /\ req'[r].code = code
           /\ req'[r].op = req[r].op /\ req'[r].world = req[r].world
           /\ \A q \in Request \ {r} : req'[q] = req[q]
           /\ session'[r] = {} /\ \A q \in Request \ {r} : session'[q] = session[q]
<1> DEFINE x == [req[r] EXCEPT !.pc = "done", !.code = code, !.plan = {}, !.snapshot = {}]
<1>1. req' = [req EXCEPT ![r] = x] /\ session' = [session EXCEPT ![r] = {}]
    BY DEF Answer
<1>2. x.pc = "done" /\ x.code = code /\ x.op = req[r].op /\ x.world = req[r].world
    BY NewFields
<1> HIDE DEF x
<1> QED
    BY <1>1, <1>2

\* A request that nothing runs beside is not answered with a failure.
LEMMA AnswerRepairs ==
    ASSUME SubInv, RepairInv, NEW r \in Request, NEW code, Answer(r, code),
           req[r].pc \notin {"new", "done"}, alone' = alone,
           world' = world \/ world' = r,
           rows' = rows, stored' = stored, tables' = tables, db' = db,
           r \in alone /\ req[r].op = "metrics" => code # 500,
           r \in alone /\ req[r].op = "seed" => code = 200 /\ world' = r /\ Only(r)
    PROVE  RepairInv'
<1>1. DOMAIN req = Request /\ DOMAIN session = Request /\ DOMAIN req[r] = DOMAIN New
    BY Executing
<1>2. /\ req'[r].pc = "done" /\ req'[r].code = code
      /\ req'[r].op = req[r].op /\ req'[r].world = req[r].world
      /\ \A q \in Request \ {r} : req'[q] = req[q]
      /\ session'[r] = {} /\ \A q \in Request \ {r} : session'[q] = session[q]
    BY <1>1, AnswerRecord
<1>3. FileIsSound'
    BY <1>2 DEF RepairInv, FileIsSound
<1>4. r \in alone /\ req[r].op = "seed" => SeedIsClean(r)'
    BY <1>2 DEF SeedIsClean, Only
<1> QED
    BY <1>2, <1>3, <1>4, OneStatement

LEMMA IncidentRepairs ==
    ASSUME SubInv, RepairInv, NEW r \in Request,
           AppendRows(r) \/ SetIncident(r) \/ ReadAttempts(r)
    PROVE  RepairInv'
<1>1. /\ req[r].pc \in {"append", "spike", "read"} /\ req[r].pc \notin {"new", "done"}
      /\ UNCHANGED <<world, stored, tables, db, alone>>
    BY DEF AppendRows, SetIncident, ReadAttempts, file, memory
<1>3. ASSUME NEW pc \in {"spike", "planDrop"}, Goto(r, pc), session' = session,
             req[r].op # "metrics", req[r].op = "seed" => pc = "planDrop",
             \A q \in Request : \/ rows'[q] = rows[q]
                                \/ req[q].pc = "done" /\ \A b \in rows'[q] : b.world = q,
             req[r].pc # "commit"
      PROVE  RepairInv'
    <2> DEFINE x == [req[r] EXCEPT !.pc = pc]
    <2>1. /\ DOMAIN req = Request /\ DOMAIN req[r] = DOMAIN New
          /\ \A b \in session[r] : FALSE
        BY <1>1, <1>3, Executing
    <2>2. x.pc = pc /\ x.op = req[r].op /\ x.world = req[r].world
        BY <1>3, <2>1, NewFields
    <2>3. req'[r] = x /\ \A q \in Request \ {r} : req'[q] = req[q]
        BY <1>3, <2>1 DEF Goto
    <2> HIDE DEF x
    <2>4. x.pc \notin {"new", "read"} /\ x.op # "metrics" /\ req[r].pc # "publish"
        BY <1>1, <1>3, <2>2
    <2>6. x.op = "seed" => SeedIsClean(r)'
        BY <1>3, <2>2, <2>3 DEF SeedIsClean
    <2>5. \A b \in session'[r] : b.world = x.world /\ x.pc = "commit"
        BY <1>3, <2>1
    <2>7. FileIsSound'
        BY <1>1, <1>3, <2>2, <2>3 DEF RepairInv, FileIsSound
    <2> QED
        BY <1>1, <1>3, <2>2, <2>3, <2>4, <2>5, <2>6, <2>7, OneStatement
<1>4. CASE AppendRows(r)
    <2> DEFINE w == req[r].world
               new == {Batch(w, r, place) : place \in req[r].plan}
    <2>1. /\ req[r].pc = "append" /\ Goto(r, "spike") /\ session' = session
          /\ rows' = [rows EXCEPT ![w] = rows[w] \cup new]
        BY <1>4 DEF AppendRows
    <2>2. req[r].op = "inject"
        BY <2>1 DEF SubInv, RequestIsSound
    <2>3. DOMAIN rows = Request /\ w \in Request /\ req[w].pc = "done"
        BY <1>1, <2>2, Executing
    <2>4. \A b \in rows'[w] : b.world = w
        <3>1. \A b \in rows[w] : b.world = w
            BY <2>3 DEF RepairInv, BatchesAreOwned
        <3>2. \A b \in new : b.world = w
            BY DEF Batch
        <3> QED
            BY <2>1, <2>3, <3>1, <3>2
    <2>5. \A q \in Request : \/ rows'[q] = rows[q]
                             \/ req[q].pc = "done" /\ \A b \in rows'[q] : b.world = q
        BY <2>1, <2>3, <2>4
    <2> QED
        BY <1>3, <2>1, <2>2, <2>5
<1>5. CASE SetIncident(r)
    <2>1. /\ req[r].pc = "spike" /\ Goto(r, "planDrop") /\ session' = session /\ rows' = rows
        BY <1>5 DEF SetIncident
    <2>2. req[r].op # "metrics"
        BY <2>1 DEF SubInv, RequestIsSound
    <2> QED
        BY <1>3, <2>1, <2>2
<1>6. CASE ReadAttempts(r)
    <2> DEFINE code == IF req[r].spiked /\ rows[req[r].world] # req[r].snapshot THEN 500 ELSE 200
    <2>1. req[r].pc = "read" /\ Answer(r, code) /\ rows' = rows
        BY <1>6 DEF ReadAttempts, memory
    <2>2. r \in alone => code # 500
        BY <1>1, <2>1, Executing DEF Undisturbed
    <2>3. req[r].op = "metrics"
        BY <2>1 DEF SubInv, RequestIsSound
    <2> HIDE DEF code
    <2> QED
        BY <1>1, <2>1, <2>2, <2>3, AnswerRepairs
<1> QED
    BY <1>4, <1>5, <1>6

\* Request r empties the file or makes its tables.
LEMMA ResetStep ==
    ASSUME SubInv, RepairInv, NEW r \in Request, req[r].pc \in {"planDrop", "drop", "create"},
           \A q \in Request \ {r} : req'[q] = req[q],
           req'[r].pc \in {"drop", "create"}, req'[r].plan \in SUBSET Table,
           req'[r].op = req[r].op, req'[r].world = req[r].world,
           world' = world, rows' = rows, stored' = stored, session' = session, alone' = alone,
           tables' \in SUBSET Table, DOMAIN db' = Table,
           \A t \in Table \ tables' : db'[t] = {},
           r \in alone /\ req[r].op = "seed" => SeedIsClean(r)'
    PROVE  RepairInv'
<1>1. FileIsSound'
    BY DEF RepairInv, FileIsSound
<1>2. req[r].op # "metrics"
    BY DEF SubInv, RequestIsSound
<1>3. \A b \in session'[r] : FALSE
    BY Executing
<1> QED
    BY <1>1, <1>2, <1>3, OneStatement

LEMMA TableBounds ==
    ASSUME NEW S \in SUBSET Table, S # {}
    PROVE  Max(S) \in S /\ Min(S) \in S
<1>1. S \in SUBSET (0 .. NumTables) /\ S \in SUBSET Nat
    BY DEF Table
<1> QED
    BY <1>1, MaxIsGreatest, MinIsLeast

LEMMA ResetRepairs ==
    ASSUME SubInv, RepairInv, NEW r \in Request,
           PlanDrop(r) \/ Drop(r) \/ PlanCreate(r) \/ Create(r)
    PROVE  RepairInv'
<1>1. /\ req[r].pc \in {"planDrop", "drop", "create"} /\ req[r].pc \notin {"new", "done"}
      /\ UNCHANGED <<world, rows, stored, alone>>
    BY DEF PlanDrop, Drop, PlanCreate, Create, memory
<1>2. /\ DOMAIN req = Request /\ DOMAIN req[r] = {"op", "pc", "world", "plan", "snapshot", "spiked", "code"}
      /\ tables \in SUBSET Table /\ DOMAIN db = Table /\ \A t \in Table \ tables : db[t] = {}
      /\ req[r].pc \in {"drop", "create"} => req[r].plan \in SUBSET Table
      /\ r \in alone => Undisturbed(r)
    BY <1>1, Executing, NewFields DEF FileIsSound
<1>3. req[r].op # "metrics"
    BY <1>1 DEF SubInv, RequestIsSound
\* A seed that nothing runs beside finds the tables as it planned.
<1>4. ASSUME Answer(r, 500), tables' = tables, db' = db,
             ~ (r \in alone /\ req[r].op = "seed")
      PROVE  RepairInv'
    BY <1>1, <1>3, <1>4, AnswerRepairs
<1>5. CASE PlanDrop(r)
    <2>1. /\ req' = [req EXCEPT ![r].pc = "drop", ![r].plan = tables]
          /\ session' = session /\ tables' = tables /\ db' = db
        BY <1>5 DEF PlanDrop, file
    <2>2. /\ req'[r].pc = "drop" /\ req'[r].plan = tables /\ req'[r].op = req[r].op
          /\ req'[r].world = req[r].world /\ \A q \in Request \ {r} : req'[q] = req[q]
        BY <1>2, <2>1
    <2>3. SeedIsClean(r)'
        BY <2>1, <2>2 DEF SeedIsClean
    <2> QED
        BY <1>1, <1>2, <2>1, <2>2, <2>3, ResetStep
<1>6. CASE Drop(r)
    <2> DEFINE t == Max(req[r].plan)
    <2>1. /\ req[r].pc = "drop" /\ t \in req[r].plan /\ t \in Table
        BY <1>2, <1>6, TableBounds DEF Drop
    <2>2. r \in alone /\ req[r].op = "seed" => req[r].plan = tables
        BY <1>2, <2>1 DEF Undisturbed, SeedIsClean
    <2>3. CASE t \in tables
        <3>1. /\ tables' = tables \ {t} /\ db' = [db EXCEPT ![t] = {}] /\ session' = session
              /\ req' = [req EXCEPT ![r].plan = @ \ {t}]
            BY <1>6, <2>3 DEF Drop
        <3> HIDE DEF t
        <3>2. /\ req'[r].pc = "drop" /\ req'[r].plan = req[r].plan \ {t}
              /\ req'[r].op = req[r].op
              /\ req'[r].world = req[r].world /\ \A q \in Request \ {r} : req'[q] = req[q]
            BY <1>2, <2>1, <3>1
        <3>3. /\ tables' \in SUBSET Table /\ DOMAIN db' = Table
              /\ \A u \in Table \ tables' : db'[u] = {}
            BY <1>2, <2>1, <3>1
        <3>4. r \in alone /\ req[r].op = "seed" => SeedIsClean(r)'
            BY <2>2, <3>1, <3>2 DEF SeedIsClean
        <3>5. req'[r].plan \in SUBSET Table
            BY <1>2, <2>1, <3>2
        <3> QED
            BY <1>1, <3>1, <3>2, <3>3, <3>4, <3>5, ResetStep
    <2>4. CASE t \notin tables
        <3>1. Answer(r, 500) /\ tables' = tables /\ db' = db
            BY <1>6, <2>4 DEF Drop, file
        <3> QED
            BY <1>4, <2>1, <2>2, <2>4, <3>1
    <2> QED
        BY <2>3, <2>4
<1>7. CASE PlanCreate(r)
    <2>1. /\ req' = [req EXCEPT ![r].pc = "create", ![r].plan = Table \ tables]
          /\ session' = session /\ tables' = tables /\ db' = db
          /\ req[r].pc = "drop" /\ req[r].plan = {}
        BY <1>7 DEF PlanCreate, file
    <2>2. /\ req'[r].pc = "create" /\ req'[r].plan = Table \ tables /\ req'[r].op = req[r].op
          /\ req'[r].world = req[r].world /\ \A q \in Request \ {r} : req'[q] = req[q]
        BY <1>2, <2>1
    <2>3. r \in alone /\ req[r].op = "seed" => SeedIsClean(r)'
        <3>1. r \in alone /\ req[r].op = "seed" => tables = {}
            BY <1>2, <2>1 DEF Undisturbed, SeedIsClean
        <3> QED
            BY <1>2, <2>1, <2>2, <3>1 DEF SeedIsClean
    <2> QED
        BY <1>1, <1>2, <2>1, <2>2, <2>3, ResetStep
<1>8. CASE Create(r)
    <2> DEFINE t == Min(req[r].plan)
    <2>1. /\ req[r].pc = "create" /\ t \in req[r].plan /\ t \in Table /\ db' = db
        BY <1>2, <1>8, TableBounds DEF Create
    <2>2. r \in alone /\ req[r].op = "seed" =>
             req[r].plan = Table \ tables /\ \A u \in Table : db[u] = {}
        BY <1>2, <2>1 DEF Undisturbed, SeedIsClean
    <2>3. CASE t \notin tables
        <3>1. /\ tables' = tables \cup {t} /\ session' = session
              /\ req' = [req EXCEPT ![r].plan = @ \ {t}]
            BY <1>8, <2>3 DEF Create
        <3> HIDE DEF t
        <3>2. /\ req'[r].pc = "create" /\ req'[r].plan = req[r].plan \ {t}
              /\ req'[r].op = req[r].op
              /\ req'[r].world = req[r].world /\ \A q \in Request \ {r} : req'[q] = req[q]
            BY <1>2, <2>1, <3>1
        <3>3. /\ tables' \in SUBSET Table /\ DOMAIN db' = Table
              /\ \A u \in Table \ tables' : db'[u] = {}
            BY <1>2, <2>1, <3>1
        <3>4. r \in alone /\ req[r].op = "seed" => SeedIsClean(r)'
            BY <2>1, <2>2, <3>1, <3>2 DEF SeedIsClean
        <3>5. req'[r].plan \in SUBSET Table
            BY <1>2, <2>1, <3>2
        <3> QED
            BY <1>1, <3>1, <3>2, <3>3, <3>4, <3>5, ResetStep
    <2>4. CASE t \in tables
        <3>1. Answer(r, 500) /\ tables' = tables
            BY <1>8, <2>4 DEF Create
        <3> QED
            BY <1>4, <2>1, <2>2, <2>4, <3>1
    <2> QED
        BY <2>3, <2>4
<1> QED
    BY <1>5, <1>6, <1>7, <1>8

LEMMA PersistRepairs ==
    ASSUME SubInv, RepairInv, NEW r \in Request, AddRows(r) \/ Commit(r) \/ Publish(r)
    PROVE  RepairInv'
<1> DEFINE w == req[r].world
<1>1. /\ req[r].pc \in {"create", "commit", "publish"} /\ req[r].pc \notin {"new", "done"}
      /\ UNCHANGED <<rows, tables, alone>>
    BY DEF AddRows, Commit, Publish, memory, file
<1>2. /\ DOMAIN req = Request /\ DOMAIN session = Request
      /\ DOMAIN req[r] = {"op", "pc", "world", "plan", "snapshot", "spiked", "code"}
      /\ w \in Request /\ (req[r].op = "seed" => w = r /\ rows[r] = {Batch(r, r, 0)})
      /\ req[r].op # "seed" => w # r /\ req[w].pc = "done"
      /\ \A b \in session[r] : b.world = w
      /\ \A b \in rows[w] : b.world = w
      /\ r \in alone => Undisturbed(r)
      /\ tables \in SUBSET Table /\ DOMAIN db = Table /\ \A t \in Table \ tables : db[t] = {}
    <2>1. \A b \in rows[w] : b.world = w
        BY <1>1, Executing DEF RepairInv, BatchesAreOwned
    <2> QED
        BY <1>1, <2>1, Executing, NewFields DEF FileIsSound
<1>3. req[r].op # "metrics"
    BY <1>1 DEF SubInv, RequestIsSound
\* The request moves to its next statement.
<1>4. ASSUME NEW pc \in {"commit", "publish"}, Goto(r, pc), world' = world,
             \A q \in Request \ {r} : session'[q] = session[q],
             \A b \in session'[r] : b.world = w /\ pc = "commit",
             \A b \in stored' \ stored : b.world = w /\ pc = "publish",
             DOMAIN db' = Table, \A t \in Table \ tables : db'[t] = {},
             r \in alone /\ req[r].op = "seed" =>
                /\ pc = "commit" => /\ tables' = Table /\ session'[r] = {Batch(r, r, 0)}
                                    /\ \A t \in Table : db'[t] = {}
                /\ pc = "publish" => \A t \in Table : db'[t] = {Batch(r, r, 0)},
             req[r].pc # "publish"
      PROVE  RepairInv'
    <2>1. /\ req'[r].pc = pc /\ req'[r].op = req[r].op /\ req'[r].world = w
          /\ \A q \in Request \ {r} : req'[q] = req[q]
        BY <1>2, <1>4 DEF Goto
    <2>2. FileIsSound'
        BY <1>1, <1>2, <1>4, <2>1 DEF RepairInv, FileIsSound
    <2>3. r \in alone /\ req[r].op = "seed" => SeedIsClean(r)'
        BY <1>4, <2>1 DEF SeedIsClean, Only
    <2>4. \A b \in stored' \ stored :
             \/ b.world = r /\ req'[r].pc = "publish"
             \/ b.world \in Request \ {r} /\ req[b.world].pc = "done"
        BY <1>2, <1>4, <2>1
    <2>5. req'[r].pc \notin {"new", "read"} /\ req'[r].op # "metrics"
        BY <1>3, <2>1
    <2>6. \A b \in session'[r] : b.world = req'[r].world /\ req'[r].pc = "commit"
        BY <1>4, <2>1
    <2>7. req'[r].world = req[r].world
        BY <2>1
    <2> HIDE DEF w
    <2> QED
        BY <1>1, <1>4, <2>1, <2>2, <2>3, <2>4, <2>5, <2>6, <2>7, OneStatement
\* The request fails, as a seed that nothing runs beside does not.
<1>5. ASSUME Answer(r, 500), world' = world, stored' = stored, db' = db,
             ~ (r \in alone /\ req[r].op = "seed")
      PROVE  RepairInv'
    BY <1>1, <1>3, <1>5, AnswerRepairs
<1>6. CASE AddRows(r)
    <2> DEFINE busy == \E q \in Request \ {r} : req[q].pc = "commit" /\ req[q].world = w
    <2>1. /\ req[r].pc = "create" /\ req[r].plan = {}
          /\ world' = world /\ stored' = stored /\ db' = db
        BY <1>6 DEF AddRows, memory, file
    <2>2. r \in alone /\ req[r].op = "seed" =>
             tables = Table /\ (\A t \in Table : db[t] = {}) /\ ~ busy
        <3> SUFFICES ASSUME r \in alone, req[r].op = "seed"
                     PROVE  tables = Table /\ (\A t \in Table : db[t] = {}) /\ ~ busy
            OBVIOUS
        <3>1. tables = Table /\ \A t \in Table : db[t] = {}
            BY <1>2, <2>1 DEF Undisturbed, SeedIsClean
        <3>2. ASSUME NEW q \in Request \ {r} PROVE req[q].pc # "commit"
            <4>1. q < r \/ q > r
                BY RequestIsInt
            <4> QED
                BY <1>2, <2>1, <4>1 DEF Undisturbed
        <3> QED
            BY <3>1, <3>2
    <2>3. CASE busy
        <3>1. Answer(r, 500)
            BY <1>6, <2>3 DEF AddRows
        <3> QED
            BY <1>5, <2>1, <2>2, <2>3, <3>1
    <2>4. CASE ~ busy
        <3>1. /\ session' = [session EXCEPT ![r] = rows[w] \ stored] /\ Goto(r, "commit")
            BY <1>6, <2>4 DEF AddRows
        <3>2. req[r].op = "seed" => Batch(r, r, 0) \notin stored
            BY <2>1 DEF RepairInv, BatchesAreOwned, Batch
        <3>3. /\ session'[r] = rows[w] \ stored
              /\ \A q \in Request \ {r} : session'[q] = session[q]
            BY <1>2, <3>1
        <3>4. req[r].op = "seed" => session'[r] = {Batch(r, r, 0)}
            BY <1>2, <3>2, <3>3
        <3>5. \A b \in session'[r] : b.world = w
            BY <1>2, <3>3
        <3> HIDE DEF w, busy
        <3> QED
            BY <1>1, <1>2, <1>4, <2>1, <2>2, <3>1, <3>3, <3>4, <3>5
    <2> QED
        BY <2>3, <2>4
<1>7. CASE Commit(r)
    <2>1. req[r].pc = "commit" /\ world' = world
        BY <1>7 DEF Commit, memory
    <2>2. r \in alone /\ req[r].op = "seed" =>
             /\ tables = Table /\ session[r] = {Batch(r, r, 0)}
             /\ \A t \in Table : db[t] = {}
        BY <1>2, <2>1 DEF Undisturbed, SeedIsClean
    <2>3. CASE Insertable(r)
        <3>1. /\ db' = [t \in Table |-> db[t] \cup session[r]]
              /\ stored' = stored \cup session[r]
              /\ session' = [session EXCEPT ![r] = {}] /\ Goto(r, "publish")
            BY <1>7, <2>3 DEF Commit
        <3>2. session[r] # {} => tables = Table
            BY <2>3 DEF Insertable
        <3>3. DOMAIN db' = Table /\ \A t \in Table \ tables : db'[t] = {}
            BY <1>2, <3>1, <3>2
        <3>4. /\ session'[r] = {}
              /\ \A q \in Request \ {r} : session'[q] = session[q]
            BY <1>2, <3>1
        <3>5. \A b \in stored' \ stored : b.world = w
            BY <1>2, <3>1
        <3>6. r \in alone /\ req[r].op = "seed" => \A t \in Table : db'[t] = {Batch(r, r, 0)}
            BY <2>2, <3>1
        <3> HIDE DEF w
        <3> QED
            BY <1>4, <2>1, <3>1, <3>3, <3>4, <3>5, <3>6
    <2>4. CASE ~ Insertable(r)
        <3>1. Answer(r, 500) /\ db' = db /\ stored' = stored
            BY <1>7, <2>4 DEF Commit
        <3>2. ~ (r \in alone /\ req[r].op = "seed")
            <4> SUFFICES ASSUME r \in alone, req[r].op = "seed" PROVE Insertable(r)
                BY <2>4
            <4>1. \A b \in session[r], c \in session[r] \cup UNION {db[t] : t \in Table} : b = c
                BY <2>2
            <4> QED
                BY <2>2, <4>1 DEF Insertable, Conflicts
        <3> QED
            BY <1>5, <2>1, <3>1, <3>2
    <2> QED
        BY <2>3, <2>4
<1>8. CASE Publish(r)
    <2>1. /\ req[r].pc = "publish" /\ Answer(r, 200) /\ stored' = stored /\ db' = db
          /\ world' = IF req[r].op = "seed" THEN w ELSE world
        BY <1>8 DEF Publish, file
    <2>2. r \in alone /\ req[r].op = "seed" => world' = r /\ Only(r)
        BY <1>2, <2>1 DEF Undisturbed, SeedIsClean
    <2>3. world' = world \/ world' = r
        BY <1>2, <2>1
    <2> QED
        BY <1>1, <1>3, <2>1, <2>2, <2>3, AnswerRepairs
<1> QED
    BY <1>6, <1>7, <1>8

\* A restart leaves nothing running, and the file as it is.
LEMMA RestartRepairs == ASSUME SubInv, RepairInv, Restart PROVE RepairInv'
<1> DEFINE x == [New EXCEPT !.pc = "done"]
<1>1. /\ req' = [r \in Request |-> IF r \in Running THEN x ELSE req[r]]
      /\ rows' = [r \in Request |-> {}] /\ session' = [r \in Request |-> {}]
      /\ alone' = {} /\ world' = NoWorld
      /\ UNCHANGED <<stored, tables, db>>
    BY DEF Restart, file
<1>2. x.pc = "done"
    BY NewFields
<1> HIDE DEF x
<1>3. \A r \in Request : /\ req'[r].pc \in {"new", "done"}
                         /\ req'[r].pc = "new" <=> req[r].pc = "new"
    BY <1>1, <1>2 DEF Running
<1>4. InOrder'
    BY <1>3 DEF RepairInv, InOrder
<1>5. FileIsSound'
    BY <1>1, <1>3 DEF RepairInv, FileIsSound
<1>6. BatchesAreOwned'
    <2>1. \A b \in stored' : b.world \in Request /\ req'[b.world].pc \in {"publish", "done"}
        BY <1>1, <1>3 DEF RepairInv, BatchesAreOwned
    <2>2. \A q \in Request : q \notin Running'
        BY <1>3 DEF Running
    <2> QED
        BY <1>1, <2>1, <2>2 DEF BatchesAreOwned
<1> QED
    BY <1>1, <1>4, <1>5, <1>6 DEF RepairInv

LEMMA RepairInitInv == Init => RepairInv
<1> SUFFICES ASSUME Init PROVE RepairInv
    OBVIOUS
<1>1. /\ world = NoWorld /\ stored = {} /\ alone = {} /\ tables \in SUBSET Table
      /\ rows = [r \in Request |-> {}] /\ session = [r \in Request |-> {}]
      /\ db = [t \in Table |-> {}] /\ \A r \in Request : req[r].pc = "new"
    BY NewFields DEF Init
<1>2. BatchesAreOwned
    BY <1>1 DEF BatchesAreOwned, Running
<1>3. FileIsSound
    BY <1>1 DEF FileIsSound
<1> QED
    BY <1>1, <1>2, <1>3 DEF RepairInv, InOrder

LEMMA RepairStepInv == SubInv /\ RepairInv /\ [Next]_vars => RepairInv'
<1> SUFFICES ASSUME SubInv, RepairInv, [Next]_vars PROVE RepairInv'
    OBVIOUS
<1>1. CASE UNCHANGED vars
    BY <1>1 DEF vars, RepairInv, BatchesAreOwned, FileIsSound, InOrder, Undisturbed,
                SeedIsClean, Only, Running
<1>2. CASE \E r \in Request : BeginSeed(r) \/ BeginInject(r) \/ BeginMetrics(r)
    BY <1>2, BeginRepairs
<1>3. CASE \E r \in Request : AppendRows(r) \/ SetIncident(r) \/ ReadAttempts(r)
    BY <1>3, IncidentRepairs
<1>4. CASE \E r \in Request : PlanDrop(r) \/ Drop(r) \/ PlanCreate(r) \/ Create(r)
    BY <1>4, ResetRepairs
<1>5. CASE \E r \in Request : AddRows(r) \/ Commit(r) \/ Publish(r)
    BY <1>5, PersistRepairs
<1>6. CASE Restart
    BY <1>6, RestartRepairs
<1> QED
    BY <1>1, <1>2, <1>3, <1>4, <1>5, <1>6 DEF Next

\* However the requests interleave, fail or are cut off, a seed that nothing runs beside
\* finds what it has left: the tables it dropped and made, its rows, and no other's.
THEOREM RepairInvariance == Spec => []RepairInv
<1> QED
    BY SubInvariance, RepairInitInv, RepairStepInv, PTL DEF Spec

\* A seed that nothing ran beside succeeds whatever was left before it, publishes its own
\* world and stores exactly that; and without another request beside it, no reading fails
\* (reset_db and persist_world of services/financial_state.py, routers/demo.py).
THEOREM SeedCorrect == Spec => []SeedRepairs
<1>1. RepairInv => SeedRepairs
    BY DEF RepairInv, Undisturbed, SeedIsClean, Only, SeedRepairs
<1> QED
    BY <1>1, RepairInvariance, PTL
=============================================================================
