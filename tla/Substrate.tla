------------------------------ MODULE Substrate ------------------------------
(***************************************************************************)
(* The endpoints of the financial substrate: /demo/seed,                   *)
(* /demo/inject-incident, and /demo/metrics with /demo/evidence. They are  *)
(* synchronous, so the server runs each request in a thread of its own;    *)
(* they share app.state.world, its lists and its rows, and the tables of   *)
(* the database file, without a lock. A step here is a statement between   *)
(* two points where another thread may run. A restart of the process loses *)
(* the world and keeps the file.                                           *)
(*                                                                         *)
(* What a world contains is MerchantWorld; here it is its batches: the     *)
(* baseline, and one for every incident. No thread waits for the lock of   *)
(* the database longer than the driver does (5 s).                         *)
(***************************************************************************)
EXTENDS Integers, FiniteSets, FiniteSetsExt

CONSTANTS
    Requests,       \* bound: the number of requests
    Active,         \* bound: the requests that run at the same time
    Restarts,       \* bound: restarts of the process
    NumTables,      \* the tables, numbered in the order of their creation
    NoWorld         \* app.state.world is None

ASSUME SubstrateAssumption ==
    /\ Requests \in Nat /\ Active \in Nat /\ Restarts \in Nat
    /\ NumTables \in Nat \ {0} /\ NoWorld \notin Nat

Request == 1 .. Requests
Table   == 1 .. NumTables

VARIABLES
    world,          \* app.state.world: the request that seeded it, or NoWorld
    rows,           \* rows[w]: the batches in the lists of world w
    spiked,         \* the worlds whose incident is set
    stored,         \* the batches that have been committed: SQLAlchemy inserts no row twice
    session,        \* session[r]: what request r has added to its session
    tables,         \* the tables of the file
    db,             \* db[t]: the batches with rows in table t
    req,            \* req[r]: request r, where it is and what it has read
    alone,          \* history variable: the requests nothing has run beside
    restarts

vars == <<world, rows, spiked, stored, session, tables, db, req, alone, restarts>>

memory == <<world, rows, spiked>>
file   == <<tables, db>>

New == [op |-> "none", pc |-> "new", world |-> NoWorld, plan |-> {}, snapshot |-> {},
        spiked |-> FALSE, code |-> 0]

\* A batch: the world it belongs to, the request that made it, and its place among the
\* batches of its world, which is where its ids start.
Batch(w, r, place) == [world |-> w, by |-> r, place |-> place]

\* Rows with the same ids: the same place in another world, or made side by side.
Conflicts(b, c) == b # c /\ b.place = c.place

NextPlace(w) == Max({b.place : b \in rows[w]}) + 1

\* No table is made at the start of the process, and an earlier one may have left any.
Init ==
    /\ world = NoWorld
    /\ rows = [r \in Request |-> {}]
    /\ spiked = {} /\ stored = {}
    /\ session = [r \in Request |-> {}]
    /\ tables \in SUBSET Table
    /\ db = [t \in Table |-> {}]
    /\ req = [r \in Request |-> New]
    /\ alone = {} /\ restarts = 0

-----------------------------------------------------------------------------
Running == {r \in Request : req[r].pc \notin {"new", "done"}}

Goto(r, pc) == req' = [req EXCEPT ![r].pc = pc]

\* The answer; leaving the block closes the session, and its rows are free again.
Answer(r, code) ==
    /\ req' = [req EXCEPT ![r].pc = "done", ![r].code = code, ![r].plan = {},
                          ![r].snapshot = {}]
    /\ session' = [session EXCEPT ![r] = {}]

\* Requests are numbered as they arrive; one that begins or runs beside others is not alone.
Arrives(r) ==
    /\ req[r].pc = "new" /\ \A q \in 1 .. r - 1 : req[q].pc # "new"
    /\ Cardinality(Running) < Active
    /\ alone' = IF Running = {} THEN alone \cup {r} ELSE alone \ Running

\* Mutant: the world is published before it is stored.
BeginSeedInPublic(r) ==
    /\ Arrives(r)
    /\ rows' = [rows EXCEPT ![r] = {Batch(r, r, 0)}]
    /\ world' = r
    /\ req' = [req EXCEPT ![r] = [New EXCEPT !.op = "seed", !.pc = "planDrop", !.world = r]]
    /\ UNCHANGED <<spiked, stored, session, file, restarts>>

\* generate_merchant_world makes a world only this thread knows.
BeginSeed(r) ==
    /\ Arrives(r)
    /\ rows' = [rows EXCEPT ![r] = {Batch(r, r, 0)}]
    /\ req' = [req EXCEPT ![r] = [New EXCEPT !.op = "seed", !.pc = "planDrop", !.world = r]]
    /\ UNCHANGED <<world, spiked, stored, session, file, restarts>>

\* _require_world: 409 without one. inject_incident takes its ids from the lists.
BeginInject(r) ==
    /\ Arrives(r)
    /\ IF world = NoWorld
       THEN req' = [req EXCEPT ![r] = [New EXCEPT !.op = "inject", !.pc = "done", !.code = 409]]
       ELSE req' = [req EXCEPT ![r] = [New EXCEPT !.op = "inject", !.pc = "append", !.world = world,
                                !.plan = {NextPlace(world)}]]
    /\ UNCHANGED <<memory, stored, session, file, restarts>>

\* The rows are appended, then the incident is set.
AppendRows(r) ==
    /\ req[r].pc = "append"
    /\ rows' = [rows EXCEPT ![req[r].world] =
                   @ \cup {Batch(req[r].world, r, place) : place \in req[r].plan}]
    /\ Goto(r, "spike")
    /\ UNCHANGED <<world, spiked, stored, session, file, alone, restarts>>

SetIncident(r) ==
    /\ req[r].pc = "spike"
    /\ spiked' = spiked \cup {req[r].world}
    /\ Goto(r, "planDrop")
    /\ UNCHANGED <<world, rows, stored, session, file, alone, restarts>>

\* The engine indexes the payments there are, and takes the window of the incident.
BeginMetrics(r) ==
    /\ Arrives(r)
    /\ req' = [req EXCEPT ![r] =
                  IF world = NoWorld
                  THEN [New EXCEPT !.op = "metrics", !.pc = "done", !.code = 409]
                  ELSE [New EXCEPT !.op = "metrics", !.pc = "read", !.world = world,
                                   !.snapshot = rows[world], !.spiked = world \in spiked]]
    /\ UNCHANGED <<memory, stored, session, file, restarts>>

\* It groups the attempts there are now: one of the window whose payment is not indexed
\* is a KeyError. Without an incident, those of an incident are outside its window.
ReadAttempts(r) ==
    /\ req[r].pc = "read"
    /\ Answer(r, IF req[r].spiked /\ rows[req[r].world] # req[r].snapshot THEN 500 ELSE 200)
    /\ UNCHANGED <<memory, stored, file, alone, restarts>>

-----------------------------------------------------------------------------
(***************************************************************************)
(* reset_db: drop_all looks which tables exist, then drops those, in       *)
(* reverse order; create_all looks which are missing, then creates those.  *)
(* A statement that finds it otherwise raises, and the request ends.       *)
(***************************************************************************)
\* Mutant: nothing is dropped.
PlanNoDrop(r) ==
    /\ req[r].pc = "planDrop"
    /\ req' = [req EXCEPT ![r].pc = "drop", ![r].plan = {}]
    /\ UNCHANGED <<memory, stored, session, file, alone, restarts>>

PlanDrop(r) ==
    /\ req[r].pc = "planDrop"
    /\ req' = [req EXCEPT ![r].pc = "drop", ![r].plan = tables]
    /\ UNCHANGED <<memory, stored, session, file, alone, restarts>>

Drop(r) ==
    /\ req[r].pc = "drop" /\ req[r].plan # {}
    /\ LET t == Max(req[r].plan)
       IN  IF t \in tables
           THEN /\ tables' = tables \ {t}
                /\ db' = [db EXCEPT ![t] = {}]
                /\ req' = [req EXCEPT ![r].plan = @ \ {t}]
                /\ UNCHANGED session
           ELSE Answer(r, 500) /\ UNCHANGED file
    /\ UNCHANGED <<memory, stored, alone, restarts>>

PlanCreate(r) ==
    /\ req[r].pc = "drop" /\ req[r].plan = {}
    /\ req' = [req EXCEPT ![r].pc = "create", ![r].plan = Table \ tables]
    /\ UNCHANGED <<memory, stored, session, file, alone, restarts>>

Create(r) ==
    /\ req[r].pc = "create" /\ req[r].plan # {}
    /\ LET t == Min(req[r].plan)
       IN  IF t \notin tables
           THEN /\ tables' = tables \cup {t}
                /\ req' = [req EXCEPT ![r].plan = @ \ {t}]
                /\ UNCHANGED session
           ELSE Answer(r, 500) /\ UNCHANGED tables
    /\ UNCHANGED <<memory, stored, db, alone, restarts>>

(***************************************************************************)
(* persist_world: the rows of the world are added to a session, which      *)
(* raises if they belong to another; the commit inserts those that are not *)
(* persistent yet, all or none.                                            *)
(***************************************************************************)
AddRows(r) ==
    /\ req[r].pc = "create" /\ req[r].plan = {}
    /\ IF \E q \in Request \ {r} : req[q].pc = "commit" /\ req[q].world = req[r].world
       THEN Answer(r, 500)
       ELSE /\ session' = [session EXCEPT ![r] = rows[req[r].world] \ stored]
            /\ Goto(r, "commit")
    /\ UNCHANGED <<memory, stored, file, alone, restarts>>

Insertable(r) ==
    /\ session[r] # {} => tables = Table
    /\ \A b \in session[r] :
          \A c \in session[r] \cup UNION {db[t] : t \in Table} : ~ Conflicts(b, c)

Commit(r) ==
    /\ req[r].pc = "commit"
    /\ IF Insertable(r)
       THEN /\ db' = [t \in Table |-> db[t] \cup session[r]]
            /\ stored' = stored \cup session[r]
            /\ session' = [session EXCEPT ![r] = {}]
            /\ Goto(r, "publish")
       ELSE Answer(r, 500) /\ UNCHANGED <<db, stored>>
    /\ UNCHANGED <<memory, tables, alone, restarts>>

\* seed publishes its world; both answer with a summary of theirs.
Publish(r) ==
    /\ req[r].pc = "publish"
    /\ world' = IF req[r].op = "seed" THEN req[r].world ELSE world
    /\ Answer(r, 200)
    /\ UNCHANGED <<rows, spiked, stored, file, alone, restarts>>

\* The process ends wherever its threads are, and starts again.
Restart ==
    /\ restarts < Restarts
    /\ restarts' = restarts + 1
    /\ world' = NoWorld
    /\ rows' = [r \in Request |-> {}] /\ spiked' = {}
    /\ session' = [r \in Request |-> {}]
    /\ req' = [r \in Request |-> IF r \in Running THEN [New EXCEPT !.pc = "done"] ELSE req[r]]
    /\ alone' = {}
    /\ UNCHANGED <<stored, file>>

Next ==
    \/ \E r \in Request : BeginSeed(r) \/ BeginInject(r) \/ BeginMetrics(r)
    \/ \E r \in Request : AppendRows(r) \/ SetIncident(r) \/ ReadAttempts(r)
    \/ \E r \in Request : PlanDrop(r) \/ Drop(r) \/ PlanCreate(r) \/ Create(r)
    \/ \E r \in Request : AddRows(r) \/ Commit(r) \/ Publish(r)
    \/ Restart

Spec == Init /\ [][Next]_vars

-----------------------------------------------------------------------------
(***************************************************************************)
(* Properties.                                                             *)
(***************************************************************************)
\* Whatever fails or restarts beside it, the database has accepted the baseline of the
\* world that other requests read, and the rows of every seed and injection that was
\* answered with success.
ShownWasStored ==
    /\ world # NoWorld => Batch(world, world, 0) \in stored
    /\ \A r \in Request : req[r].code = 200 /\ req[r].op \in {"seed", "inject"} =>
          \E b \in stored : b.by = r

\* A seed that nothing ran beside repairs what earlier requests or a restart have left:
\* it succeeds, publishes its own world, and stores exactly that. And without another
\* request beside it, no reading fails.
SeedRepairs ==
    \A r \in alone :
        /\ req[r].op = "metrics" => req[r].code # 500
        /\ req[r].op = "seed" /\ req[r].pc = "done" =>
              /\ req[r].code = 200
              /\ (\A q \in Request : q > r => req[q].pc = "new") =>
                    world = r /\ \A t \in Table : db[t] = {Batch(r, r, 0)}
=============================================================================
