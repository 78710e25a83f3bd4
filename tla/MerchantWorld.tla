---------------------------- MODULE MerchantWorld ----------------------------
(***************************************************************************)
(* The merchant the demonstration treats: a healthy baseline of orders,    *)
(* generated in the order of their times, and incidents added to it. Each  *)
(* order has one payment of one or two attempts. Every draw of the random  *)
(* generator is a choice here: with positive weights, whatever can be      *)
(* drawn is drawn under some seed. On top of the world: what analytics and *)
(* evidence compute of it, and what the planner selects from it.           *)
(*                                                                         *)
(* Times are clock hours from baseline_start; amounts are drawn from a set.*)
(***************************************************************************)
EXTENDS Integers, Sequences, FiniteSets, FiniteSetsExt

CONSTANTS
    Customer,       \* the customers
    Method,         \* PaymentMethod
    Reason,         \* FailureReason
    Amount,         \* the amounts an order may have
    Days, DayLength,\* the length of the baseline in days, and of a day in hours
    NumOrders,      \* the values of config.num_orders
    IncidentOrders, \* incident.num_orders
    Windows,        \* the windows an incident may be given
    MaxOrders,      \* bound: orders of the world, those of the incidents included
    MaxTargets,     \* max_targets
    Affected,       \* the method the diagnosis finds affected, or None
    None

BaselineEnd == Days * DayLength

ASSUME WorldAssumption ==
    /\ Customer # {} /\ Method # {} /\ Reason # {} /\ Amount \subseteq Nat
    /\ IsFiniteSet(Method)
    /\ Days \in Nat \ {0} /\ DayLength \in Nat \ {0} /\ NumOrders \subseteq Nat
    /\ IncidentOrders \in Nat \ {0}
    /\ Windows \subseteq Nat \X Nat /\ \A w \in Windows : w[1] < w[2]
    /\ MaxOrders \in Nat /\ MaxTargets \in Nat \ {0}
    /\ Affected \in Method \cup {None} /\ None \notin Method \cup Reason

VARIABLES
    orders, payments, attempts,     \* the tables of the world, in the order of generation
    incident,                       \* the window of the incident, or None
    batch,                          \* the window being filled, None when the world is at rest
    left,                           \* orders still to be made of the batch
    injected                        \* incidents injected so far

vars == <<orders, payments, attempts, incident, batch, left, injected>>

BaselineWindow == <<0, BaselineEnd>>

\* generate_merchant_world starts from customers only.
Init ==
    /\ orders = <<>> /\ payments = <<>> /\ attempts = <<>>
    /\ incident = None
    /\ batch = BaselineWindow
    /\ left \in NumOrders
    /\ injected = 0

-----------------------------------------------------------------------------
(***************************************************************************)
(* One order with its payment and attempts.                                *)
(***************************************************************************)
Ids(table) == {table[i].id : i \in DOMAIN table}

\* Mutant: the ids of an incident continue from the number of payments.
NextIdOfPayments(table) == Len(payments) + 1

\* The counters of the generator, and the maximum an incident continues from.
NextId(table) == Max(Ids(table) \cup {0}) + 1

HasOrdered(c) == \E i \in DOMAIN orders : orders[i].customer = c

Cohort(c) == IF HasOrdered(c) THEN "RETURNING" ELSE "NEW"

\* The results of the attempts: a first failure may be retried once.
FirstTry == {<<"SUCCESS">>, <<"FAILED">>}
Retried  == FirstTry \cup {<<"FAILED", "SUCCESS">>, <<"FAILED", "FAILED">>}

Failed(results) == \A k \in DOMAIN results : results[k] = "FAILED"

PaymentOf(id, order, m, a, t, results, reason) ==
    [id |-> id, order |-> order, method |-> m, amount |-> a, at |-> t,
     status |-> IF Failed(results) THEN "FAILED" ELSE "CAPTURED",
     error  |-> IF Failed(results) THEN reason ELSE None,
     attempt_count |-> Len(results)]

AttemptsOf(id, payment, t, results, reason) ==
    [k \in DOMAIN results |->
        [id |-> id + k - 1, payment |-> payment, index |-> k - 1, at |-> t,
         status |-> results[k], error |-> IF results[k] = "FAILED" THEN reason ELSE None]]

OrderOf(id, c, a, t, results) ==
    [id |-> id, customer |-> c, amount |-> a, at |-> t, cohort |-> Cohort(c),
     status |-> IF Failed(results) THEN "FAILED" ELSE "PAID"]

Append3(t, c, m, a, results, reason) ==
    LET o == OrderOf(NextId(orders), c, a, t, results)
        p == PaymentOf(NextId(payments), o.id, m, a, t, results, reason)
    IN  /\ orders' = Append(orders, o)
        /\ payments' = Append(payments, p)
        /\ attempts' = attempts \o AttemptsOf(NextId(attempts), p.id, t, results, reason)

LastTime == IF orders = <<>> THEN 0 ELSE orders[Len(orders)].at

\* The skeleton is sorted by time. The two pools of customers, those who have ordered
\* and those who have not, are both drawn from while neither is empty.
GenerateOrder ==
    /\ batch = BaselineWindow /\ injected = 0 /\ left > 0
    /\ \E t \in LastTime .. BaselineEnd - 1, c \in Customer, m \in Method, a \in Amount,
          results \in Retried, reason \in Reason :
          Append3(t, c, m, a, results, reason)
    /\ left' = left - 1
    /\ UNCHANGED <<incident, batch, injected>>

\* The finished baseline, or the finished incident, is the world.
FinishBatch ==
    /\ batch # None /\ left = 0
    /\ incident' = IF injected = 0 THEN None ELSE batch
    /\ batch' = None
    /\ UNCHANGED <<orders, payments, attempts, left, injected>>

BeginIncident(w) ==
    /\ batch = None /\ Len(orders) + IncidentOrders <= MaxOrders
    /\ batch' = w
    /\ left' = IncidentOrders
    /\ injected' = injected + 1
    /\ UNCHANGED <<orders, payments, attempts, incident>>

\* Mutant: the window is centred on its start.
IncidentTimesAround(w) == w[1] - 1 .. w[2]

\* randrange(window_seconds + 1): the end of the window included.
IncidentTimes(w) == w[1] .. w[2]

\* One attempt per payment, at any time of the window.
InjectOrder ==
    /\ batch # None /\ injected > 0 /\ left > 0
    /\ \E t \in IncidentTimes(batch), c \in Customer, m \in Method, a \in Amount,
          results \in FirstTry, reason \in Reason :
          Append3(t, c, m, a, results, reason)
    /\ left' = left - 1
    /\ UNCHANGED <<incident, batch, injected>>

Next ==
    \/ GenerateOrder
    \/ FinishBatch
    \/ \E w \in Windows : BeginIncident(w)
    \/ InjectOrder

Spec == Init /\ [][Next]_vars

-----------------------------------------------------------------------------
(***************************************************************************)
(* AnalyticsEngine. A set of attempts is a set of indices; a rate is a     *)
(* pair of the failed and the total.                                       *)
(***************************************************************************)
SumOf(f) == MapThenSumSet(LAMBDA x : f[x], DOMAIN f)

ResolveWindow(w) == w

CurrentWindow ==
    IF incident # None THEN ResolveWindow(incident) ELSE <<BaselineEnd - DayLength, BaselineEnd>>

\* attempts_in: the end of the window excluded.
AttemptsIn(w) == {i \in DOMAIN attempts : w[1] <= attempts[i].at /\ attempts[i].at < w[2]}

AttemptMetrics(s) == <<Cardinality({i \in s : attempts[i].status = "FAILED"}), Cardinality(s)>>

PaymentFor(i) == payments[CHOOSE j \in DOMAIN payments : payments[j].id = attempts[i].payment]
OrderFor(i)   == orders[CHOOSE j \in DOMAIN orders : orders[j].id = PaymentFor(i).order]

MethodFor(i) == PaymentFor(i).method
CohortFor(i) == OrderFor(i).cohort

\* _group_failure_rate: the metrics of every group of the attempts that key classifies.
Group(groups, key) == [g \in groups |-> AttemptMetrics({i \in DOMAIN key : key[i] = g})]

PaymentMethods == Group(Method, [i \in AttemptsIn(CurrentWindow) |-> MethodFor(i)])
Cohorts        == Group({"NEW", "RETURNING"}, [i \in AttemptsIn(CurrentWindow) |-> CohortFor(i)])

\* _bucket_by: hours with an attempt in them.
TemporalHourly ==
    LET hour == [i \in AttemptsIn(CurrentWindow) |-> attempts[i].at]
    IN  Group(Range(hour), hour)

\* Mutant: the last day is left out.
DaysButLast == 0 .. Days - 2

BaselineDays == 0 .. Days - 1

BaselineDaily ==
    Group(BaselineDays, [i \in AttemptsIn(BaselineWindow) |-> attempts[i].at \div DayLength])

ReasonFor(i) == attempts[i].error

FailureReasons ==
    LET s == {i \in AttemptsIn(CurrentWindow) : attempts[i].status = "FAILED"}
    IN  [r \in {ReasonFor(i) : i \in s} \ {None} |->
            Cardinality({i \in s : ReasonFor(i) = r})]

Monetary ==
    LET s == {j \in DOMAIN payments : CurrentWindow[1] <= payments[j].at
                                      /\ payments[j].at < CurrentWindow[2]}
        Amounts(js) == SumOf([j \in js |-> payments[j].amount])
    IN  [total  |-> Amounts(s), failed |-> Amounts({j \in s : payments[j].status = "FAILED"})]

(***************************************************************************)
(* anomaly: z >= 3, where z is the distance of the current rate from the   *)
(* mean of the daily rates in sample deviations, or in itself if they do   *)
(* not deviate. The rates are scaled to a common denominator.              *)
(***************************************************************************)
Scaled(rates, current) ==
    LET scale     == ProductSet({rates[d][2] : d \in DOMAIN rates} \cup {current[2]})
        Times(r)  == IF r[2] = 0 THEN 0 ELSE r[1] * (scale \div r[2])
        rate      == [d \in DOMAIN rates |-> Times(rates[d])]
    IN  [n |-> Cardinality(DOMAIN rates), sum |-> SumOf(rate),
         squares |-> SumOf([d \in DOMAIN rates |-> rate[d] * rate[d]]),
         current |-> Times(current)]

DailyRates == [d \in {d \in BaselineDays : BaselineDaily[d][2] > 0} |-> BaselineDaily[d]]

Exceeds(x) ==
    LET spread == x.n * x.squares - x.sum * x.sum
        excess == x.n * x.current - x.sum
    IN  spread > 0 /\ excess >= 0 /\ excess * excess * (x.n - 1) >= 9 * x.n * spread

IsAnomalous == Exceeds(Scaled(DailyRates, AttemptMetrics(AttemptsIn(CurrentWindow))))

\* build_bundle
Bundle == [overall |-> AttemptMetrics(AttemptsIn(CurrentWindow)),
           baseline |-> AttemptMetrics(AttemptsIn(BaselineWindow)),
           temporal |-> TemporalHourly, daily |-> BaselineDaily, methods |-> PaymentMethods,
           cohorts |-> Cohorts, reasons |-> FailureReasons, monetary |-> Monetary,
           anomaly |-> IsAnomalous]

-----------------------------------------------------------------------------
(***************************************************************************)
(* What the planner selects.                                               *)
(***************************************************************************)
\* Mutant: a payment with a failed attempt is taken for a failed one.
FailedOnce(p) == \E i \in DOMAIN attempts : attempts[i].payment = p.id /\ attempts[i].status = "FAILED"

Recoverable(p) == p.status = "FAILED"

Eligible(p) ==
    /\ Recoverable(p)
    /\ Affected # None => p.method = Affected
    /\ \E k \in DOMAIN orders : orders[k].id = p.order

\* _select_targets: the list after the first n payments of the world, whatever their
\* time; the loop is left when the list is full.
Selected[n \in 0 .. Len(payments)] ==
    IF n = 0 THEN <<>>
    ELSE IF Eligible(payments[n]) /\ Len(Selected[n - 1]) < MaxTargets
         THEN Append(Selected[n - 1], payments[n])
         ELSE Selected[n - 1]

Targets == Selected[Len(payments)]

-----------------------------------------------------------------------------
(***************************************************************************)
(* Properties.                                                             *)
(***************************************************************************)
\* The ids of a table are distinct, and every reference has its row, across the baseline
\* and any number of incidents: the engine finds a method and a cohort for each attempt.
IdsAreUnique ==
    /\ Cardinality(Ids(orders)) = Len(orders)
    /\ Cardinality(Ids(payments)) = Len(payments)
    /\ Cardinality(Ids(attempts)) = Len(attempts)
    /\ \A i \in DOMAIN attempts : attempts[i].payment \in Ids(payments)
    /\ \A j \in DOMAIN payments : payments[j].order \in Ids(orders)

\* Exactly the first order made for a customer is that of a new customer, even when an
\* incident is added to a baseline in which the customer has ordered.
CohortsTellTheFirstOrder ==
    \A i \in DOMAIN orders :
        orders[i].cohort = "NEW" <=> \A k \in 1 .. i - 1 : orders[k].customer # orders[i].customer

\* A payment has failed exactly if all its attempts have, its order agrees, and it
\* carries a reason exactly then.
PaymentsFollowAttempts ==
    \A j \in DOMAIN payments :
        LET p == payments[j]
            its == {i \in DOMAIN attempts : attempts[i].payment = p.id}
        IN  /\ Cardinality(its) = p.attempt_count
            /\ p.status = "FAILED" <=> \A i \in its : attempts[i].status = "FAILED"
            /\ p.status = "FAILED" <=> p.error # None
            /\ \A k \in DOMAIN orders :
                  orders[k].id = p.order => (orders[k].status = "PAID" <=> p.status = "CAPTURED")

\* The three tables stay one world through the baseline and any number of incidents,
\* each generated from what is there: its ids, its references, the history of its
\* customers and the fate of its payments.
WorldIsConsistent == IdsAreUnique /\ CohortsTellTheFirstOrder /\ PaymentsFollowAttempts

AddsUp(groups, whole) ==
    whole = <<SumOf([g \in DOMAIN groups |-> groups[g][1]]),
              SumOf([g \in DOMAIN groups |-> groups[g][2]])>>

\* Every breakdown of the evidence accounts for every attempt it breaks down: by method,
\* by cohort and by hour the current ones, by day those of the baseline, by reason the
\* failures, retries included; and no money has failed where no attempt has.
EvidenceAddsUp ==
    LET b == Bundle
    IN  /\ AddsUp(b.methods, b.overall) /\ AddsUp(b.cohorts, b.overall)
        /\ AddsUp(b.temporal, b.overall) /\ AddsUp(b.daily, b.baseline)
        /\ SumOf(b.reasons) = b.overall[1]
        /\ b.overall[1] = 0 => b.monetary.failed = 0

\* An anomaly is a rate of failures above the mean of the days that had attempts.
AnomalyMeansWorse ==
    IsAnomalous =>
        LET x == Scaled(DailyRates, AttemptMetrics(AttemptsIn(CurrentWindow)))
        IN  x.n * x.current > x.sum

\* The evidence a diagnosis is made from accounts for the world, and calls an anomaly only
\* what is worse than the baseline.
EvidenceIsSound == EvidenceAddsUp /\ AnomalyMeansWorse

\* No target of a plan has been paid, none is there twice, and when the plan is not full
\* no failed payment of the affected method is missing.
TargetsAreOwed ==
    LET targets == Targets
    IN  /\ Len(targets) <= MaxTargets
        /\ \A i, j \in DOMAIN targets : i # j => targets[i].id # targets[j].id
        /\ \A i \in DOMAIN targets, k \in DOMAIN orders :
              orders[k].id = targets[i].order => orders[k].status = "FAILED"
        /\ Len(targets) < MaxTargets =>
              \A k \in DOMAIN orders, j \in DOMAIN payments :
                  /\ orders[k].status = "FAILED" /\ payments[j].order = orders[k].id
                  /\ Affected \in {None, payments[j].method}
                  => \E i \in DOMAIN targets : targets[i] = payments[j]

\* "The base dataset is untouched; incident data is additive": no row is changed, and an
\* incident after the baseline leaves every figure of the baseline as it was.
BaselineIsUntouched ==
    [][/\ orders = SubSeq(orders', 1, Len(orders)) /\ payments = SubSeq(payments', 1, Len(payments))
       /\ attempts = SubSeq(attempts', 1, Len(attempts))
       /\ injected > 0 /\ batch # None /\ batch[1] >= BaselineEnd =>
             /\ BaselineDaily' = BaselineDaily
             /\ AttemptMetrics(AttemptsIn(BaselineWindow))' = AttemptMetrics(AttemptsIn(BaselineWindow))]_vars
=============================================================================
