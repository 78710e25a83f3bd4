------------------------- MODULE MerchantWorldProofs -------------------------
(***************************************************************************)
(* Theorems about MerchantWorld, for every set of customers, methods,      *)
(* reasons and amounts, every length of the baseline and any number of     *)
(* incidents.                                                              *)
(*                                                                         *)
(* The tables grow row by row: the k-th row of a table has the id k, and   *)
(* the k-th payment belongs to the k-th order. From these positions every  *)
(* reference and every group of attempts can be told.                      *)
(***************************************************************************)
EXTENDS MerchantWorld, FoldLemmas, SequenceTheorems

Cohorted == {"NEW", "RETURNING"}

OrderRow == [id : Nat, customer : Customer, amount : Amount, at : Nat, cohort : Cohorted,
             status : {"PAID", "FAILED"}]

PaymentRow == [id : Nat, order : Nat, method : Method, amount : Amount, at : Nat,
               status : {"CAPTURED", "FAILED"}, error : Reason \cup {None},
               attempt_count : Nat]

AttemptRow == [id : Nat, payment : Nat, index : Nat, at : Nat,
               status : {"SUCCESS", "FAILED"}, error : Reason \cup {None}]

Numbered(table) == \A i \in 1 .. Len(table) : table[i].id = i

\* The attempts of payment j in the table as.
AttemptsOfPayment(j, as) == {i \in 1 .. Len(as) : as[i].payment = j}

\* What became of payment p and its order o is what became of its attempts.
Fate(o, p, its, as) ==
    /\ Cardinality(its) = p.attempt_count
    /\ p.status = "FAILED" <=> \A i \in its : as[i].status = "FAILED"
    /\ p.status = "FAILED" <=> p.error # None
    /\ o.status = "PAID" <=> p.status = "CAPTURED"
    /\ \A i \in its : /\ as[i].at = p.at
                      /\ as[i].status = "FAILED" => as[i].error # None
    /\ its # {}

FateOf(j, os, ps, as) == Fate(os[j], ps[j], AttemptsOfPayment(j, as), as)

TablesFit ==
    /\ orders \in Seq(OrderRow) /\ payments \in Seq(PaymentRow) /\ attempts \in Seq(AttemptRow)
    /\ Len(payments) = Len(orders)
    /\ Numbered(orders) /\ Numbered(payments) /\ Numbered(attempts)
    /\ \A j \in 1 .. Len(payments) : payments[j].order = j /\ FateOf(j, orders, payments, attempts)
    /\ \A i \in 1 .. Len(attempts) : attempts[i].payment \in 1 .. Len(payments)

WorldInv ==
    /\ TablesFit
    /\ CohortsTellTheFirstOrder
    /\ incident = None \/ incident \in Windows \cup {BaselineWindow}
    /\ batch = None \/ batch \in Windows \cup {BaselineWindow}
    /\ left \in Nat

-----------------------------------------------------------------------------
LEMMA IdsOfNumbered ==
    ASSUME NEW R, NEW table \in Seq(R), Numbered(table)
    PROVE  /\ Ids(table) = 1 .. Len(table)
           /\ Cardinality(Ids(table)) = Len(table)
           /\ NextId(table) = Len(table) + 1
<1>1. Len(table) \in Nat /\ DOMAIN table = 1 .. Len(table)
    OBVIOUS
<1>2. Ids(table) = 1 .. Len(table)
    BY <1>1 DEF Ids, Numbered
<1>3. Cardinality(1 .. Len(table)) = Len(table)
    BY <1>1, FS_Interval
<1>4. Ids(table) \cup {0} = 0 .. Len(table)
    BY <1>1, <1>2
<1>5. Max(0 .. Len(table)) = Len(table)
    <2>1. /\ Len(table) \in 0 .. Len(table)
          /\ \A n \in 0 .. Len(table) : Len(table) >= n
        BY <1>1
    <2>2. ASSUME NEW m \in 0 .. Len(table), \A n \in 0 .. Len(table) : m >= n
          PROVE  m = Len(table)
        <3> DEFINE top == Len(table)
        <3>1. m >= top /\ m <= top /\ m \in Int /\ top \in Int
            BY <1>1, <2>1, <2>2
        <3> HIDE DEF top
        <3>2. m = top
            BY <3>1
        <3> QED
            BY <3>2 DEF top
    <2> QED
        BY <2>1, <2>2 DEF Max
<1> QED
    BY <1>2, <1>3, <1>4, <1>5 DEF NextId

\* Two attempts at most, the first of them always there.
LEMMA ResultsType ==
    ASSUME NEW results \in Retried
    PROVE  /\ results \in Seq({"SUCCESS", "FAILED"})
           /\ Len(results) \in Nat /\ Len(results) >= 1 /\ DOMAIN results = 1 .. Len(results)
           /\ \A k \in 1 .. Len(results) : results[k] \in {"SUCCESS", "FAILED"}
<1>1. ASSUME NEW x \in {"SUCCESS", "FAILED"}, results = <<x>>
      PROVE  /\ results \in Seq({"SUCCESS", "FAILED"}) /\ Len(results) = 1
             /\ \A k \in 1 .. 1 : results[k] \in {"SUCCESS", "FAILED"}
    BY <1>1
<1>2. ASSUME NEW x \in {"SUCCESS", "FAILED"}, NEW y \in {"SUCCESS", "FAILED"},
             results = <<x, y>>
      PROVE  /\ results \in Seq({"SUCCESS", "FAILED"}) /\ Len(results) = 2
             /\ \A k \in 1 .. 2 : results[k] \in {"SUCCESS", "FAILED"}
    BY <1>2
<1>3. \/ \E x \in {"SUCCESS", "FAILED"} : results = <<x>>
      \/ \E x, y \in {"SUCCESS", "FAILED"} : results = <<x, y>>
    BY DEF Retried, FirstTry
<1>4. CASE \E x \in {"SUCCESS", "FAILED"} : results = <<x>>
    BY <1>1, <1>4
<1>5. CASE \E x, y \in {"SUCCESS", "FAILED"} : results = <<x, y>>
    BY <1>2, <1>5
<1> QED
    BY <1>3, <1>4, <1>5

-----------------------------------------------------------------------------
(***************************************************************************)
(* One more order.                                                         *)
(***************************************************************************)
\* What Append3 does, row by row.
LEMMA AppendEffect ==
    ASSUME TablesFit, NEW t \in Nat, NEW c \in Customer, NEW m \in Method, NEW a \in Amount,
           NEW results \in Retried, NEW reason \in Reason,
           Append3(t, c, m, a, results, reason)
    PROVE  LET n == Len(orders)
               l == Len(attempts)
               o == OrderOf(n + 1, c, a, t, results)
               p == PaymentOf(n + 1, n + 1, m, a, t, results, reason)
               its == AttemptsOf(l + 1, n + 1, t, results, reason)
           IN  /\ n \in Nat /\ l \in Nat
               /\ orders' \in Seq(OrderRow) /\ payments' \in Seq(PaymentRow)
               /\ attempts' \in Seq(AttemptRow)
               /\ Len(orders') = n + 1 /\ Len(payments') = n + 1
               /\ Len(attempts') = l + Len(results)
               /\ \A i \in 1 .. n : orders'[i] = orders[i] /\ payments'[i] = payments[i]
               /\ \A i \in 1 .. l : attempts'[i] = attempts[i]
               /\ orders'[n + 1] = o /\ payments'[n + 1] = p
               /\ \A k \in 1 .. Len(results) : attempts'[l + k] = its[k]
<1> DEFINE n == Len(orders)
           l == Len(attempts)
           o == OrderOf(n + 1, c, a, t, results)
           p == PaymentOf(n + 1, n + 1, m, a, t, results, reason)
           its == AttemptsOf(l + 1, n + 1, t, results, reason)
<1>1. /\ n \in Nat /\ l \in Nat /\ Len(payments) = n
      /\ orders \in Seq(OrderRow) /\ payments \in Seq(PaymentRow) /\ attempts \in Seq(AttemptRow)
      /\ Numbered(orders) /\ Numbered(payments) /\ Numbered(attempts)
    BY DEF TablesFit
<1>2. NextId(orders) = n + 1 /\ NextId(payments) = n + 1 /\ NextId(attempts) = l + 1
    BY <1>1, IdsOfNumbered
<1>3. o.id = n + 1
    BY DEF OrderOf
<1>4. /\ orders' = Append(orders, o) /\ payments' = Append(payments, p)
      /\ attempts' = attempts \o AttemptsOf(l + 1, p.id, t, results, reason)
    BY <1>2, <1>3 DEF Append3
<1>5. p.id = n + 1
    BY DEF PaymentOf
<1>6. attempts' = attempts \o its
    BY <1>4, <1>5
<1>7. o \in OrderRow
    BY <1>1 DEF OrderOf, OrderRow, Cohort, Cohorted
<1>8. p \in PaymentRow
    BY <1>1, ResultsType DEF PaymentOf, PaymentRow
<1>9. its \in Seq(AttemptRow) /\ Len(its) = Len(results)
    <2>1. DOMAIN results = 1 .. Len(results) /\ Len(results) \in Nat
        BY ResultsType
    <2>2. its = [k \in 1 .. Len(results) |->
                    [id |-> l + 1 + k - 1, payment |-> n + 1, index |-> k - 1, at |-> t,
                     status |-> results[k],
                     error |-> IF results[k] = "FAILED" THEN reason ELSE None]]
        BY <2>1 DEF AttemptsOf
    <2>3. ASSUME NEW k \in 1 .. Len(results)
          PROVE  [id |-> l + 1 + k - 1, payment |-> n + 1, index |-> k - 1, at |-> t,
                  status |-> results[k],
                  error |-> IF results[k] = "FAILED" THEN reason ELSE None] \in AttemptRow
        <3>1. l + 1 + k - 1 \in Nat /\ k - 1 \in Nat /\ n + 1 \in Nat
            BY <1>1, <2>1
        <3>2. results[k] \in {"SUCCESS", "FAILED"}
            BY ResultsType
        <3> QED
            BY <3>1, <3>2 DEF AttemptRow
    <2> QED
        BY <2>1, <2>2, <2>3
<1> HIDE DEF o, p, its
<1>10. /\ orders' \in Seq(OrderRow) /\ Len(orders') = n + 1 /\ orders'[n + 1] = o
       /\ \A i \in 1 .. n : orders'[i] = orders[i]
    BY <1>1, <1>4, <1>7
<1>11. /\ payments' \in Seq(PaymentRow) /\ Len(payments') = n + 1 /\ payments'[n + 1] = p
       /\ \A i \in 1 .. n : payments'[i] = payments[i]
    BY <1>1, <1>4, <1>8
<1>12. /\ attempts' \in Seq(AttemptRow) /\ Len(attempts') = l + Len(its)
       /\ \A i \in 1 .. l + Len(its) :
             attempts'[i] = IF i <= l THEN attempts[i] ELSE its[i - l]
    <2>1. attempts \in Seq(AttemptRow) /\ its \in Seq(AttemptRow)
        BY <1>1, <1>9
    <2>2. /\ attempts \o its \in Seq(AttemptRow)
          /\ Len(attempts \o its) = Len(attempts) + Len(its)
          /\ \A i \in 1 .. Len(attempts) + Len(its) :
                (attempts \o its)[i] = IF i <= Len(attempts) THEN attempts[i]
                                       ELSE its[i - Len(attempts)]
        BY <2>1, ConcatProperties
    <2> QED
        BY <1>6, <2>2
<1>13. Len(results) \in Nat
    BY ResultsType
<1>14. \A i \in 1 .. l : attempts'[i] = attempts[i]
    BY <1>1, <1>9, <1>12, <1>13
<1>15. \A k \in 1 .. Len(results) : attempts'[l + k] = its[k]
    <2> TAKE k \in 1 .. Len(results)
    <2>1. l + k \in 1 .. l + Len(its) /\ ~ (l + k <= l) /\ l + k - l = k
        BY <1>1, <1>9, <1>13
    <2> QED
        BY <1>12, <2>1
<1> QED
    BY <1>1, <1>9, <1>10, <1>11, <1>12, <1>14, <1>15 DEF o, p, its

LEMMA TablesGrow ==
    ASSUME TablesFit, CohortsTellTheFirstOrder,
           NEW t \in Nat, NEW c \in Customer, NEW m \in Method, NEW a \in Amount,
           NEW results \in Retried, NEW reason \in Reason,
           Append3(t, c, m, a, results, reason)
    PROVE  TablesFit' /\ CohortsTellTheFirstOrder'
<1> DEFINE n == Len(orders)
           l == Len(attempts)
           L == Len(results)
           o == OrderOf(n + 1, c, a, t, results)
           p == PaymentOf(n + 1, n + 1, m, a, t, results, reason)
           its == AttemptsOf(l + 1, n + 1, t, results, reason)
<1>1. /\ n \in Nat /\ l \in Nat
      /\ orders' \in Seq(OrderRow) /\ payments' \in Seq(PaymentRow)
      /\ attempts' \in Seq(AttemptRow)
      /\ Len(orders') = n + 1 /\ Len(payments') = n + 1
      /\ Len(attempts') = l + Len(results)
      /\ \A i \in 1 .. n : orders'[i] = orders[i] /\ payments'[i] = payments[i]
      /\ \A i \in 1 .. l : attempts'[i] = attempts[i]
      /\ orders'[n + 1] = o /\ payments'[n + 1] = p
      /\ \A k \in 1 .. Len(results) : attempts'[l + k] = its[k]
    BY AppendEffect
<1>2. L \in Nat /\ L >= 1 /\ DOMAIN results = 1 .. L
    BY ResultsType
<1>3. \A k \in 1 .. L : /\ its[k].id = l + 1 + k - 1 /\ its[k].payment = n + 1
                        /\ its[k].at = t /\ its[k].status = results[k]
                        /\ results[k] = "FAILED" => its[k].error = reason
    BY <1>2 DEF AttemptsOf
<1>a. /\ o.id = n + 1 /\ o.cohort = Cohort(c) /\ o.customer = c
      /\ o.status = IF Failed(results) THEN "FAILED" ELSE "PAID"
    BY DEF OrderOf
<1>b. /\ p.id = n + 1 /\ p.order = n + 1 /\ p.at = t /\ p.attempt_count = L
      /\ p.status = IF Failed(results) THEN "FAILED" ELSE "CAPTURED"
      /\ p.error = IF Failed(results) THEN reason ELSE None
    BY DEF PaymentOf
<1> HIDE DEF o, p, its
<1>4. \A k \in 1 .. L : /\ attempts'[l + k].id = l + k /\ attempts'[l + k].payment = n + 1
                        /\ attempts'[l + k].at = t /\ attempts'[l + k].status = results[k]
                        /\ results[k] = "FAILED" => attempts'[l + k].error = reason
    <2> TAKE k \in 1 .. L
    <2>1. l + 1 + k - 1 = l + k /\ attempts'[l + k] = its[k]
        BY <1>1, <1>2
    <2> QED
        BY <1>3, <2>1
<1>5. /\ Len(payments) = n /\ Numbered(orders) /\ Numbered(payments) /\ Numbered(attempts)
      /\ \A j \in 1 .. n : payments[j].order = j /\ FateOf(j, orders, payments, attempts)
      /\ \A i \in 1 .. l : attempts[i].payment \in 1 .. n
    BY DEF TablesFit
<1>6. \A i \in 1 .. l + L : i \in 1 .. l \/ (i - l \in 1 .. L /\ i = l + (i - l))
    BY <1>1, <1>2
<1>7. Numbered(orders)' /\ Numbered(payments)' /\ Numbered(attempts)'
    <2>1. \A i \in 1 .. n + 1 : i \in 1 .. n \/ i = n + 1
        BY <1>1
    <2>2. \A i \in 1 .. n + 1 : orders'[i].id = i /\ payments'[i].id = i
        BY <1>1, <1>5, <1>a, <1>b, <2>1 DEF Numbered
    <2>3. ASSUME NEW i \in 1 .. l + L PROVE attempts'[i].id = i
        <3>1. CASE i \in 1 .. l
            BY <1>1, <1>5, <3>1 DEF Numbered
        <3>2. CASE i - l \in 1 .. L /\ i = l + (i - l)
            BY <1>4, <3>2
        <3> QED
            BY <1>6, <3>1, <3>2
    <2> QED
        BY <1>1, <2>2, <2>3 DEF Numbered
<1>8. \A i \in 1 .. l + L : attempts'[i].payment = IF i \in 1 .. l THEN attempts[i].payment ELSE n + 1
    <2> TAKE i \in 1 .. l + L
    <2>1. CASE i \in 1 .. l
        BY <1>1, <2>1
    <2>2. CASE i \notin 1 .. l
        <3>1. i - l \in 1 .. L /\ i = l + (i - l)
            BY <1>6, <2>2
        <3> QED
            BY <1>4, <2>2, <3>1
    <2> QED
        BY <2>1, <2>2
<1>9. \A i \in 1 .. l + L : attempts'[i].payment \in 1 .. n + 1
    BY <1>1, <1>5, <1>8
<1>10. ASSUME NEW j \in 1 .. n
       PROVE  payments'[j].order = j /\ FateOf(j, orders', payments', attempts')
    <2>1. AttemptsOfPayment(j, attempts') = AttemptsOfPayment(j, attempts)
        <3>1. j # n + 1
            BY <1>1
        <3>2. \A i : i \in 1 .. l => i \in 1 .. l + L
            BY <1>1, <1>2
        <3> QED
            BY <1>1, <1>8, <3>1, <3>2 DEF AttemptsOfPayment
    <2>2. \A i \in AttemptsOfPayment(j, attempts) : attempts'[i] = attempts[i]
        BY <1>1 DEF AttemptsOfPayment
    <2>3. orders'[j] = orders[j] /\ payments'[j] = payments[j]
        BY <1>1
    <2>4. payments[j].order = j
        BY <1>5
    <2>5. Fate(orders[j], payments[j], AttemptsOfPayment(j, attempts), attempts)
        BY <1>5 DEF FateOf
    <2>6. Fate(orders[j], payments[j], AttemptsOfPayment(j, attempts), attempts')
        BY <2>2, <2>5 DEF Fate
    <2>7. FateOf(j, orders', payments', attempts')
        BY <2>1, <2>3, <2>6 DEF FateOf
    <2> QED
        BY <2>3, <2>4, <2>7
<1>11. payments'[n + 1].order = n + 1 /\ FateOf(n + 1, orders', payments', attempts')
    <2>1. AttemptsOfPayment(n + 1, attempts') = l + 1 .. l + L
        <3>1. \A i \in 1 .. l : attempts[i].payment # n + 1
            BY <1>1, <1>5
        <3>2. \A i \in 1 .. l + L : attempts'[i].payment = n + 1 <=> i \notin 1 .. l
            BY <1>8, <3>1
        <3>3. \A i : i \in l + 1 .. l + L <=> i \in 1 .. l + L /\ i \notin 1 .. l
            BY <1>1, <1>2
        <3> QED
            BY <1>1, <3>2, <3>3 DEF AttemptsOfPayment
    <2>2. Cardinality(l + 1 .. l + L) = L
        <3>1. l + 1 \in Int /\ l + L \in Int /\ (l + 1 > l + L <=> L = 0)
              /\ (l + L) - (l + 1) + 1 = L
            BY <1>1, <1>2
        <3> QED
            BY <1>2, <3>1, FS_Interval
    <2>7. reason # None
        BY WorldAssumption
    <2>8. Failed(results) <=> \A i \in l + 1 .. l + L : attempts'[i].status = "FAILED"
        <3>1. \A i \in l + 1 .. l + L : i - l \in 1 .. L /\ i = l + (i - l)
            BY <1>1, <1>2
        <3>2. \A k \in 1 .. L : l + k \in l + 1 .. l + L
            BY <1>1, <1>2
        <3> QED
            BY <1>2, <1>4, <3>1, <3>2 DEF Failed
    <2>9. \A i \in l + 1 .. l + L :
             attempts'[i].at = t /\ (attempts'[i].status = "FAILED" => attempts'[i].error = reason)
        <3> TAKE i \in l + 1 .. l + L
        <3>1. PICK k \in 1 .. L : i = l + k
            <4>1. i - l \in 1 .. L /\ i = l + (i - l)
                BY <1>1, <1>2
            <4> QED
                BY <4>1
        <3>2. /\ attempts'[l + k].at = t /\ attempts'[l + k].status = results[k]
              /\ results[k] = "FAILED" => attempts'[l + k].error = reason
            BY <1>4
        <3> QED
            BY <3>1, <3>2
    <2>10. l + 1 \in l + 1 .. l + L
        BY <1>1, <1>2
    <2>11. Fate(o, p, l + 1 .. l + L, attempts')
        BY <1>a, <1>b, <2>2, <2>7, <2>8, <2>9, <2>10 DEF Fate
    <2> QED
        BY <1>1, <1>b, <2>1, <2>11 DEF FateOf
<1>12. TablesFit'
    <2>1. \A j \in 1 .. n + 1 : j \in 1 .. n \/ j = n + 1
        BY <1>1
    <2>2. \A j \in 1 .. n + 1 :
             payments'[j].order = j /\ FateOf(j, orders', payments', attempts')
        BY <1>10, <1>11, <2>1
    <2> QED
        BY <1>1, <1>7, <1>9, <2>2 DEF TablesFit
<1>13. CohortsTellTheFirstOrder'
    <2>1. orders'[n + 1].cohort = "NEW" <=> \A k \in 1 .. n : orders[k].customer # c
        <3>2. DOMAIN orders = 1 .. n
            BY DEF TablesFit
        <3> QED
            BY <1>1, <1>a, <3>2 DEF Cohort, HasOrdered
    <2>2. orders'[n + 1].customer = c
        BY <1>1, <1>a
    <2>3. DOMAIN orders = 1 .. n /\ DOMAIN orders' = 1 .. n + 1
        BY <1>1 DEF TablesFit
    <2> SUFFICES ASSUME NEW i \in 1 .. n + 1
                 PROVE  orders'[i].cohort = "NEW" <=>
                           \A k \in 1 .. i - 1 : orders'[k].customer # orders'[i].customer
        BY <2>3 DEF CohortsTellTheFirstOrder
    <2>4. \A k \in 1 .. i - 1 : k \in 1 .. n
        BY <1>1
    <2>5. CASE i \in 1 .. n
        <3>1. orders[i].cohort = "NEW" <=>
                 \A k \in 1 .. i - 1 : orders[k].customer # orders[i].customer
            BY <2>3, <2>5 DEF CohortsTellTheFirstOrder
        <3> QED
            BY <1>1, <2>4, <2>5, <3>1
    <2>6. CASE i = n + 1
        <3>1. i - 1 = n
            BY <1>1, <2>6
        <3> QED
            BY <1>1, <2>1, <2>2, <2>6, <3>1
    <2> QED
        BY <1>1, <2>5, <2>6
<1> QED
    BY <1>12, <1>13

-----------------------------------------------------------------------------
(***************************************************************************)
(* The inductive invariant of the world.                                   *)
(***************************************************************************)
LEMMA BaselineType == BaselineEnd \in Nat /\ BaselineWindow \in Nat \X Nat
BY WorldAssumption DEF BaselineEnd, BaselineWindow

LEMMA WindowType ==
    ASSUME NEW w \in Windows \cup {BaselineWindow}
    PROVE  w[1] \in Nat /\ w[2] \in Nat
BY WorldAssumption, BaselineType

LEMMA WorldInit == Init => WorldInv
<1> SUFFICES ASSUME Init PROVE WorldInv
    OBVIOUS
<1>1. orders = <<>> /\ payments = <<>> /\ attempts = <<>> /\ Len(<<>>) = 0
    BY DEF Init
<1>2. TablesFit
    BY <1>1 DEF TablesFit, Numbered
<1>3. CohortsTellTheFirstOrder
    BY <1>1 DEF CohortsTellTheFirstOrder
<1>4. left \in Nat
    BY WorldAssumption DEF Init
<1> QED
    BY <1>2, <1>3, <1>4 DEF Init, WorldInv

\* An order of the baseline, or of an incident, at its time.
LEMMA OrderStep ==
    ASSUME WorldInv, GenerateOrder \/ InjectOrder
    PROVE  \E t \in Nat, c \in Customer, m \in Method, a \in Amount,
              results \in Retried, reason \in Reason :
              /\ Append3(t, c, m, a, results, reason)
              /\ InjectOrder => t >= batch[1]
<1>1. CASE GenerateOrder /\ ~ InjectOrder
    <2>1. LastTime \in Nat
        <3>1. CASE orders = <<>>
            BY <3>1 DEF LastTime
        <3>2. CASE orders # <<>>
            <4>1. orders \in Seq(OrderRow)
                BY DEF WorldInv, TablesFit
            <4>2. orders[Len(orders)] \in OrderRow
                BY <3>2, <4>1
            <4> QED
                BY <3>2, <4>2 DEF LastTime, OrderRow
        <3> QED
            BY <3>1, <3>2
    <2>2. PICK t \in LastTime .. BaselineEnd - 1, c \in Customer, m \in Method, a \in Amount,
               results \in Retried, reason \in Reason : Append3(t, c, m, a, results, reason)
        BY <1>1 DEF GenerateOrder
    <2>3. t \in Nat
        BY <2>1, BaselineType
    <2> QED
        BY <1>1, <2>2, <2>3
<1>2. CASE InjectOrder
    <2>1. batch[1] \in Nat /\ batch[2] \in Nat
        BY <1>2, WindowType DEF InjectOrder, WorldInv
    <2>2. PICK t \in batch[1] .. batch[2], c \in Customer, m \in Method, a \in Amount,
               results \in FirstTry, reason \in Reason : Append3(t, c, m, a, results, reason)
        BY <1>2 DEF InjectOrder, IncidentTimes
    <2>3. t \in Nat /\ t >= batch[1] /\ results \in Retried
        BY <2>1, <2>2 DEF Retried
    <2> QED
        BY <2>2, <2>3
<1> QED
    BY <1>1, <1>2

LEMMA WorldNext == WorldInv /\ [Next]_vars => WorldInv'
<1> SUFFICES ASSUME WorldInv, [Next]_vars PROVE WorldInv'
    OBVIOUS
<1>1. ASSUME UNCHANGED <<orders, payments, attempts>>
      PROVE  TablesFit' /\ CohortsTellTheFirstOrder'
    BY <1>1 DEF WorldInv, TablesFit, CohortsTellTheFirstOrder, Numbered
<1>2. CASE GenerateOrder \/ InjectOrder
    <2>1. TablesFit' /\ CohortsTellTheFirstOrder'
        BY <1>2, OrderStep, TablesGrow DEF WorldInv
    <2>2. /\ UNCHANGED <<incident, batch>> /\ left' \in Nat
        BY <1>2 DEF GenerateOrder, InjectOrder, WorldInv
    <2> QED
        BY <2>1, <2>2 DEF WorldInv
<1>3. CASE FinishBatch
    BY <1>1, <1>3 DEF FinishBatch, WorldInv
<1>4. ASSUME NEW w \in Windows, BeginIncident(w) PROVE WorldInv'
    BY <1>1, <1>4, WorldAssumption DEF BeginIncident, WorldInv
<1>5. CASE UNCHANGED vars
    BY <1>1, <1>5 DEF vars, WorldInv
<1> QED
    BY <1>2, <1>3, <1>4, <1>5 DEF Next

\* The tables stay in step: rows are numbered, an order and its payment have the same
\* number, and every attempt belongs to one of them.
THEOREM WorldInvariance == Spec => []WorldInv
BY WorldInit, WorldNext, PTL DEF Spec

\* The tables are one world: ids, references, cohorts and the fate of payments
\* (generate_merchant_world, inject_incident).
THEOREM WorldCorrect == Spec => []WorldIsConsistent
<1>1. WorldInv => WorldIsConsistent
    <2> SUFFICES ASSUME WorldInv PROVE WorldIsConsistent
        OBVIOUS
    <2>1. /\ orders \in Seq(OrderRow) /\ payments \in Seq(PaymentRow)
          /\ attempts \in Seq(AttemptRow) /\ Len(payments) = Len(orders)
          /\ Numbered(orders) /\ Numbered(payments) /\ Numbered(attempts)
          /\ \A j \in 1 .. Len(payments) :
                payments[j].order = j /\ FateOf(j, orders, payments, attempts)
          /\ \A i \in 1 .. Len(attempts) : attempts[i].payment \in 1 .. Len(payments)
        BY DEF WorldInv, TablesFit
    <2>2. /\ DOMAIN orders = 1 .. Len(orders) /\ DOMAIN payments = 1 .. Len(payments)
          /\ DOMAIN attempts = 1 .. Len(attempts)
        BY <2>1
    <2>3. IdsAreUnique
        <3>1. /\ Ids(orders) = 1 .. Len(orders) /\ Cardinality(Ids(orders)) = Len(orders)
              /\ Ids(payments) = 1 .. Len(payments) /\ Cardinality(Ids(payments)) = Len(payments)
              /\ Cardinality(Ids(attempts)) = Len(attempts)
            BY <2>1, IdsOfNumbered
        <3> QED
            BY <2>1, <2>2, <3>1 DEF IdsAreUnique
    <2>4. PaymentsFollowAttempts
        <3> SUFFICES ASSUME NEW j \in 1 .. Len(payments)
                     PROVE  LET p == payments[j]
                                its == {i \in 1 .. Len(attempts) : attempts[i].payment = p.id}
                            IN  /\ Cardinality(its) = p.attempt_count
                                /\ p.status = "FAILED" <=>
                                      \A i \in its : attempts[i].status = "FAILED"
                                /\ p.status = "FAILED" <=> p.error # None
                                /\ \A k \in 1 .. Len(orders) : orders[k].id = p.order =>
                                      (orders[k].status = "PAID" <=> p.status = "CAPTURED")
            BY <2>2 DEF PaymentsFollowAttempts
        <3>1. payments[j].id = j /\ payments[j].order = j
            BY <2>1 DEF Numbered
        <3>2. Fate(orders[j], payments[j], AttemptsOfPayment(j, attempts), attempts)
            BY <2>1 DEF FateOf
        <3>3. \A k \in 1 .. Len(orders) : orders[k].id = j => k = j
            BY <2>1 DEF Numbered
        <3> QED
            BY <3>1, <3>2, <3>3 DEF Fate, AttemptsOfPayment
    <2> QED
        BY <2>3, <2>4 DEF WorldIsConsistent, WorldInv
<1> QED
    BY <1>1, WorldInvariance, PTL

-----------------------------------------------------------------------------
(***************************************************************************)
(* The baseline. An incident after it adds attempts that none of its       *)
(* figures count.                                                          *)
(***************************************************************************)
LEMMA TablesAreKept ==
    ASSUME WorldInv, [Next]_vars
    PROVE  /\ orders = SubSeq(orders', 1, Len(orders))
           /\ payments = SubSeq(payments', 1, Len(payments))
           /\ attempts = SubSeq(attempts', 1, Len(attempts))
<1>1. ASSUME NEW R, NEW s \in Seq(R), NEW u \in Seq(R), Len(u) >= Len(s),
             \A i \in 1 .. Len(s) : u[i] = s[i]
      PROVE  s = SubSeq(u, 1, Len(s))
    <2>1. /\ SubSeq(u, 1, Len(s)) \in Seq(R) /\ Len(SubSeq(u, 1, Len(s))) = Len(s)
          /\ \A i \in 1 .. Len(s) : SubSeq(u, 1, Len(s))[i] = u[i]
        BY <1>1
    <2> QED
        BY <1>1, <2>1
<1>2. /\ orders \in Seq(OrderRow) /\ payments \in Seq(PaymentRow)
      /\ attempts \in Seq(AttemptRow) /\ Len(payments) = Len(orders)
    BY DEF WorldInv, TablesFit
<1>3. CASE UNCHANGED <<orders, payments, attempts>>
    BY <1>1, <1>2, <1>3
<1>4. CASE GenerateOrder \/ InjectOrder
    <2>1. PICK t \in Nat, c \in Customer, m \in Method, a \in Amount,
               results \in Retried, reason \in Reason : Append3(t, c, m, a, results, reason)
        BY <1>4, OrderStep
    <2> DEFINE n == Len(orders)
               l == Len(attempts)
    <2>2. /\ n \in Nat /\ l \in Nat /\ Len(results) \in Nat
          /\ orders' \in Seq(OrderRow) /\ payments' \in Seq(PaymentRow)
          /\ attempts' \in Seq(AttemptRow)
          /\ Len(orders') = n + 1 /\ Len(payments') = n + 1
          /\ Len(attempts') = l + Len(results)
          /\ \A i \in 1 .. n : orders'[i] = orders[i] /\ payments'[i] = payments[i]
          /\ \A i \in 1 .. l : attempts'[i] = attempts[i]
        BY <2>1, AppendEffect, ResultsType DEF WorldInv
    <2>3. Len(orders') >= n /\ Len(payments') >= Len(payments) /\ Len(attempts') >= l
        BY <1>2, <2>2
    <2> QED
        BY <1>1, <1>2, <2>2, <2>3
<1> QED
    BY <1>3, <1>4 DEF Next, FinishBatch, BeginIncident, vars

LEMMA BaselineIsKept ==
    ASSUME WorldInv, [Next]_vars, injected > 0, batch # None, batch[1] >= BaselineEnd
    PROVE  /\ BaselineDaily' = BaselineDaily
           /\ AttemptMetrics(AttemptsIn(BaselineWindow))' = AttemptMetrics(AttemptsIn(BaselineWindow))
<1> DEFINE l == Len(attempts)
           base == AttemptsIn(BaselineWindow)
<1>1. attempts \in Seq(AttemptRow) /\ l \in Nat /\ BaselineEnd \in Nat
    BY BaselineType DEF WorldInv, TablesFit
<1>2. /\ AttemptsIn(BaselineWindow)' = AttemptsIn(BaselineWindow)
      /\ \A i \in AttemptsIn(BaselineWindow) : attempts'[i] = attempts[i]
    <2>1. CASE attempts' = attempts
        BY <2>1 DEF AttemptsIn, BaselineWindow
    <2>2. CASE InjectOrder
        <3>1. PICK t \in Nat, c \in Customer, m \in Method, a \in Amount,
                   results \in Retried, reason \in Reason :
                   Append3(t, c, m, a, results, reason) /\ t >= batch[1]
            BY <2>2, OrderStep
        <3>2. /\ attempts' \in Seq(AttemptRow) /\ Len(attempts') = l + Len(results)
              /\ \A i \in 1 .. l : attempts'[i] = attempts[i]
              /\ \A k \in 1 .. Len(results) : attempts'[l + k] =
                    AttemptsOf(l + 1, Len(orders) + 1, t, results, reason)[k]
            BY <3>1, AppendEffect DEF WorldInv
        <3>3. Len(results) \in Nat /\ DOMAIN results = 1 .. Len(results)
            BY ResultsType
        <3>4. \A k \in 1 .. Len(results) : attempts'[l + k].at = t
            <4> DEFINE its == AttemptsOf(l + 1, Len(orders) + 1, t, results, reason)
            <4>1. \A k \in 1 .. Len(results) : its[k].at = t
                BY <3>3 DEF AttemptsOf
            <4>2. \A k \in 1 .. Len(results) : attempts'[l + k] = its[k]
                BY <3>2
            <4> HIDE DEF its
            <4> QED
                BY <4>1, <4>2
        <3>5. t >= BaselineEnd
            <4>1. batch[1] \in Nat
                BY WindowType DEF WorldInv
            <4> QED
                BY <1>1, <3>1, <4>1
        <3>6. \A i \in 1 .. l + Len(results) : i \in 1 .. l \/ attempts'[i].at = t
            <4> TAKE i \in 1 .. l + Len(results)
            <4>1. i \in 1 .. l \/ (i - l \in 1 .. Len(results) /\ i = l + (i - l))
                BY <1>1, <3>3
            <4> QED
                BY <3>4, <4>1
        <3>7. \A i \in 1 .. l : i \in 1 .. l + Len(results)
            BY <1>1, <3>3
        <3>8. DOMAIN attempts = 1 .. l /\ DOMAIN attempts' = 1 .. l + Len(results)
            BY <1>1, <3>2
        <3>9. ~ (t < BaselineEnd)
            BY <1>1, <3>5
        <3> QED
            BY <3>2, <3>6, <3>7, <3>8, <3>9 DEF AttemptsIn, BaselineWindow
    <2> QED
        BY <2>1, <2>2 DEF Next, GenerateOrder, FinishBatch, BeginIncident, vars
<1> HIDE DEF base
<1>4. AttemptMetrics(AttemptsIn(BaselineWindow))' = AttemptMetrics(AttemptsIn(BaselineWindow))
    <2>1. {i \in base : attempts'[i].status = "FAILED"} = {i \in base : attempts[i].status = "FAILED"}
        BY <1>2 DEF base
    <2> QED
        BY <1>2, <2>1 DEF AttemptMetrics, base
<1>5. BaselineDaily' = BaselineDaily
    <2> DEFINE day  == [i \in AttemptsIn(BaselineWindow) |-> attempts[i].at \div DayLength]
    <2>1. day' = day /\ DOMAIN day = base
        BY <1>2 DEF base
    <2>2. \A g \in BaselineDays : {i \in DOMAIN day : day[i] = g} \in SUBSET base
        BY <2>1
    <2> HIDE DEF day
    <2>3. \A g \in BaselineDays :
             AttemptMetrics({i \in DOMAIN day : day[i] = g})' =
                 AttemptMetrics({i \in DOMAIN day : day[i] = g})
        <3> TAKE g \in BaselineDays
        <3> DEFINE s == {i \in DOMAIN day : day[i] = g}
        <3>1. s' = s /\ s \in SUBSET base
            BY <2>1, <2>2
        <3>2. {i \in s : attempts'[i].status = "FAILED"} = {i \in s : attempts[i].status = "FAILED"}
            BY <1>2, <3>1 DEF base
        <3> QED
            BY <3>1, <3>2 DEF AttemptMetrics
    <2>4. BaselineDaily = [g \in BaselineDays |-> AttemptMetrics({i \in DOMAIN day : day[i] = g})]
        BY DEF BaselineDaily, Group, day
    <2>5. BaselineDaily' =
             [g \in BaselineDays |-> AttemptMetrics({i \in DOMAIN day : day[i] = g})']
        BY DEF BaselineDaily, Group, day, BaselineDays
    <2> QED
        BY <2>3, <2>4, <2>5
<1> QED
    BY <1>4, <1>5

\* The base dataset is untouched, incident data is additive (inject_incident).
THEOREM BaselineKept == Spec => BaselineIsUntouched
<1>1. WorldInv /\ [Next]_vars =>
         [/\ orders = SubSeq(orders', 1, Len(orders))
          /\ payments = SubSeq(payments', 1, Len(payments))
          /\ attempts = SubSeq(attempts', 1, Len(attempts))
          /\ injected > 0 /\ batch # None /\ batch[1] >= BaselineEnd =>
                /\ BaselineDaily' = BaselineDaily
                /\ AttemptMetrics(AttemptsIn(BaselineWindow))' =
                      AttemptMetrics(AttemptsIn(BaselineWindow))]_vars
    BY TablesAreKept, BaselineIsKept
<1> QED
    BY <1>1, WorldInvariance, PTL DEF Spec, BaselineIsUntouched

-----------------------------------------------------------------------------
(***************************************************************************)
(* What the planner selects.                                               *)
(***************************************************************************)
\* One turn of the loop of _select_targets.
Turn(list, n) ==
    IF Eligible(payments[n]) /\ Len(list) < MaxTargets THEN Append(list, payments[n]) ELSE list

\* g holds the lists after the first turns, up to the m-th.
Turns(g, m) == g = [n \in 0 .. m |-> IF n = 0 THEN <<>> ELSE Turn(g[n - 1], n)]

LEMMA SelectedTurns ==
    ASSUME payments \in Seq(PaymentRow)
    PROVE  Turns(Selected, Len(payments))
<1> DEFINE N == Len(payments)
           Bad == {m \in 0 .. N : ~ \E g : Turns(g, m)}
<1>1. N \in Nat
    OBVIOUS
<1>2. CASE Bad = {}
    <2>1. \E g : Turns(g, N)
        BY <1>1, <1>2
    <2> QED
        BY <2>1 DEF Selected, Turns, Turn
<1>3. ASSUME Bad # {} PROVE FALSE
    <2>1. Bad \in SUBSET Nat
        BY <1>1
    <2>2. PICK m \in Bad : \A k \in Bad : m <= k
        BY <1>3, <2>1, LeastNatural
    <2>3. CASE m = 0
        <3>1. Turns([n \in 0 .. 0 |-> <<>>], 0)
            BY DEF Turns
        <3> QED
            BY <2>2, <2>3, <3>1
    <2>4. CASE m # 0
        <3>1. m - 1 \in 0 .. N /\ m - 1 < m
            BY <1>1, <2>4
        <3>2. PICK g : Turns(g, m - 1)
            BY <2>2, <3>1
        <3> DEFINE h == [n \in 0 .. m |-> IF n = m THEN Turn(g[m - 1], m) ELSE g[n]]
        <3>3. ASSUME NEW n \in 0 .. m
              PROVE  h[n] = IF n = 0 THEN <<>> ELSE Turn(h[n - 1], n)
            <4>1. CASE n = 0
                <5>1. n # m /\ n \in 0 .. m - 1
                    BY <2>4, <3>1, <4>1
                <5> QED
                    BY <3>2, <4>1, <5>1 DEF Turns
            <4>2. CASE n # 0 /\ n # m
                <5>1. n \in 0 .. m - 1 /\ n - 1 \in 0 .. m /\ n - 1 # m
                    BY <3>1, <4>2
                <5>2. g[n] = Turn(g[n - 1], n)
                    BY <3>2, <4>2, <5>1 DEF Turns
                <5> QED
                    BY <4>2, <5>1, <5>2
            <4>3. CASE n = m
                <5>1. n - 1 \in 0 .. m /\ n - 1 # m
                    BY <2>4, <3>1, <4>3
                <5> QED
                    BY <2>4, <4>3, <5>1
            <4> QED
                BY <4>1, <4>2, <4>3
        <3>4. h = [n \in 0 .. m |-> h[n]]
            OBVIOUS
        <3> HIDE DEF h
        <3>5. Turns(h, m)
            BY <3>3, <3>4 DEF Turns
        <3> QED
            BY <2>2, <3>5
    <2> QED
        BY <2>3, <2>4
<1> QED
    BY <1>2, <1>3

\* What is in the list after n turns: eligible payments in the order of the world, and,
\* as long as the list is not full, all of them.
Chosen(list, n) ==
    /\ list \in Seq(PaymentRow) /\ Len(list) <= MaxTargets
    /\ \A i \in 1 .. Len(list) : \E j \in 1 .. n : list[i] = payments[j] /\ Eligible(payments[j])
    /\ \A i, k \in 1 .. Len(list) : i < k => list[i].id < list[k].id
    /\ Len(list) < MaxTargets =>
          \A j \in 1 .. n : Eligible(payments[j]) => \E i \in 1 .. Len(list) : list[i] = payments[j]

LEMMA TurnChooses ==
    ASSUME payments \in Seq(PaymentRow), Numbered(payments),
           NEW n \in 1 .. Len(payments), NEW list, Chosen(list, n - 1)
    PROVE  Chosen(Turn(list, n), n)
<1> DEFINE new == Append(list, payments[n])
           L == Len(list)
<1>1. /\ list \in Seq(PaymentRow) /\ L \in Nat /\ MaxTargets \in Nat /\ n \in Nat
      /\ payments[n] \in PaymentRow /\ L <= MaxTargets
    BY WorldAssumption DEF Chosen
<1>2. \A j \in 1 .. n : j \in 1 .. n - 1 \/ j = n
    BY <1>1
<1>3. \A j \in 1 .. n - 1 : j \in 1 .. n
    BY <1>1
<1>4. CASE Eligible(payments[n]) /\ L < MaxTargets
    <2>1. /\ new \in Seq(PaymentRow) /\ Len(new) = L + 1 /\ new[L + 1] = payments[n]
          /\ \A i \in 1 .. L : new[i] = list[i]
        BY <1>1
    <2>2. \A i \in 1 .. L + 1 : i \in 1 .. L \/ i = L + 1
        BY <1>1
    <2>3. L + 1 <= MaxTargets
        BY <1>1, <1>4
    <2> HIDE DEF new
    <2>4. \A i \in 1 .. L + 1 : \E j \in 1 .. n : new[i] = payments[j] /\ Eligible(payments[j])
        <3> TAKE i \in 1 .. L + 1
        <3>1. CASE i \in 1 .. L
            <4>1. PICK j \in 1 .. n - 1 : list[i] = payments[j] /\ Eligible(payments[j])
                BY <3>1 DEF Chosen
            <4> QED
                BY <1>3, <2>1, <3>1, <4>1
        <3>2. CASE i = L + 1
            <4>1. n \in 1 .. n
                BY <1>1
            <4> QED
                BY <1>4, <2>1, <3>2, <4>1
        <3> QED
            BY <2>2, <3>1, <3>2
    <2>5. ASSUME NEW i \in 1 .. L + 1, NEW k \in 1 .. L + 1, i < k
          PROVE  new[i].id < new[k].id
        <3>1. CASE k \in 1 .. L
            <4>1. i \in 1 .. L
                BY <1>1, <2>5, <3>1
            <4> QED
                BY <2>1, <2>5, <3>1, <4>1 DEF Chosen
        <3>2. CASE k = L + 1
            <4>1. i \in 1 .. L
                BY <1>1, <2>5, <3>2
            <4>2. PICK j \in 1 .. n - 1 : new[i] = payments[j]
                BY <2>1, <4>1 DEF Chosen
            <4>3. payments[j].id = j /\ payments[n].id = n
                BY <1>1, <4>2 DEF Numbered
            <4>4. j < n
                BY <1>1
            <4> QED
                BY <2>1, <3>2, <4>2, <4>3, <4>4
        <3> QED
            BY <2>2, <3>1, <3>2
    <2>6. \A j \in 1 .. n : L + 1 < MaxTargets /\ Eligible(payments[j]) =>
             \E i \in 1 .. L + 1 : new[i] = payments[j]
        <3>1. \A i \in 1 .. L : i \in 1 .. L + 1
            BY <1>1
        <3>2. L + 1 \in 1 .. L + 1
            BY <1>1
        <3> QED
            BY <1>2, <1>4, <2>1, <3>1, <3>2 DEF Chosen
    <2>7. Chosen(new, n)
        BY <2>1, <2>3, <2>4, <2>5, <2>6 DEF Chosen
    <2> QED
        BY <1>4, <2>7 DEF Turn, new
<1>5. CASE ~ (Eligible(payments[n]) /\ L < MaxTargets)
    <2>1. Turn(list, n) = list
        BY <1>5 DEF Turn
    <2>2. Chosen(list, n)
        BY <1>2, <1>3, <1>5 DEF Chosen
    <2> QED
        BY <2>1, <2>2
<1> QED
    BY <1>4, <1>5

LEMMA TargetsAreChosen ==
    ASSUME WorldInv
    PROVE  Chosen(Targets, Len(payments))
<1> DEFINE N == Len(payments)
           Bad == {n \in 0 .. N : ~ Chosen(Selected[n], n)}
<1>1. payments \in Seq(PaymentRow) /\ Numbered(payments) /\ N \in Nat
    BY DEF WorldInv, TablesFit
<1>2. Turns(Selected, N)
    BY <1>1, SelectedTurns
<1>3. ASSUME Bad # {} PROVE FALSE
    <2>1. Bad \in SUBSET Nat
        BY <1>1
    <2>2. PICK n \in Bad : \A k \in Bad : n <= k
        BY <1>3, <2>1, LeastNatural
    <2>3. CASE n = 0
        <3>1. Selected[n] = <<>>
            BY <1>1, <1>2, <2>2, <2>3 DEF Turns
        <3>2. Chosen(<<>>, 0)
            BY WorldAssumption DEF Chosen
        <3> QED
            BY <2>2, <2>3, <3>1, <3>2
    <2>4. CASE n # 0
        <3>1. n - 1 \in 0 .. N /\ n \in 1 .. N /\ ~ (n <= n - 1)
            BY <1>1, <2>4
        <3>2. Chosen(Selected[n - 1], n - 1)
            BY <2>2, <3>1
        <3>3. Selected[n] = Turn(Selected[n - 1], n)
            BY <1>2, <2>2, <2>4 DEF Turns
        <3> QED
            BY <1>1, <2>2, <3>1, <3>2, <3>3, TurnChooses
    <2> QED
        BY <2>3, <2>4
<1>4. N \in 0 .. N
    BY <1>1
<1> QED
    BY <1>3, <1>4 DEF Targets

\* The planner never takes a paid order, takes none twice, keeps to its limit and, below
\* it, misses no failed payment of the affected method (_select_targets).
THEOREM TargetsCorrect == Spec => []TargetsAreOwed
<1>1. WorldInv => TargetsAreOwed
    <2> SUFFICES ASSUME WorldInv PROVE TargetsAreOwed
        OBVIOUS
    <2> DEFINE targets == Targets
               N == Len(payments)
    <2>1. Chosen(targets, N)
        BY TargetsAreChosen
    <2> HIDE DEF targets
    <2>2. /\ N \in Nat /\ Len(orders) = N /\ payments \in Seq(PaymentRow)
          /\ orders \in Seq(OrderRow)
          /\ DOMAIN orders = 1 .. N /\ DOMAIN payments = 1 .. N
          /\ \A j \in 1 .. N : /\ orders[j].id = j /\ payments[j].order = j
                               /\ orders[j].status = "PAID" <=> payments[j].status = "CAPTURED"
        BY DEF WorldInv, TablesFit, Numbered, FateOf, Fate
    <2>3. \A j \in 1 .. N : orders[j].status = "FAILED" <=> payments[j].status = "FAILED"
        <3>1. \A j \in 1 .. N : /\ orders[j].status \in {"PAID", "FAILED"}
                                /\ payments[j].status \in {"CAPTURED", "FAILED"}
            <4> TAKE j \in 1 .. N
            <4>1. orders[j] \in OrderRow /\ payments[j] \in PaymentRow
                BY <2>2
            <4> QED
                BY <4>1 DEF OrderRow, PaymentRow
        <3> QED
            BY <2>2, <3>1
    <2>4. DOMAIN targets = 1 .. Len(targets) /\ Len(targets) \in Nat
        BY <2>1 DEF Chosen
    <2>5. ASSUME NEW i \in 1 .. Len(targets), NEW j \in 1 .. Len(targets), i # j
          PROVE  targets[i].id # targets[j].id
        <3>1. i < j \/ j < i
            BY <2>4, <2>5
        <3>2. targets[i].id \in Nat /\ targets[j].id \in Nat
            <4>1. targets[i] \in PaymentRow /\ targets[j] \in PaymentRow
                BY <2>1 DEF Chosen
            <4> QED
                BY <4>1 DEF PaymentRow
        <3> QED
            BY <2>1, <3>1, <3>2 DEF Chosen
    <2>6. ASSUME NEW i \in 1 .. Len(targets), NEW k \in 1 .. N, orders[k].id = targets[i].order
          PROVE  orders[k].status = "FAILED"
        <3>1. PICK j \in 1 .. N : targets[i] = payments[j] /\ Eligible(payments[j])
            BY <2>1 DEF Chosen
        <3>2. k = j
            BY <2>2, <2>6, <3>1
        <3> QED
            BY <2>3, <3>1, <3>2 DEF Eligible, Recoverable
    <2>7. ASSUME Len(targets) < MaxTargets, NEW k \in 1 .. N, NEW j \in 1 .. N,
                 orders[k].status = "FAILED", payments[j].order = orders[k].id,
                 Affected \in {None, payments[j].method}
          PROVE  \E i \in 1 .. Len(targets) : targets[i] = payments[j]
        <3>1. k = j
            BY <2>2, <2>7
        <3>2. Eligible(payments[j])
            BY <2>2, <2>3, <2>7, <3>1 DEF Eligible, Recoverable
        <3> QED
            BY <2>1, <2>7, <3>2 DEF Chosen
    <2>8. Len(targets) <= MaxTargets
        BY <2>1 DEF Chosen
    <2> QED
        BY <2>2, <2>4, <2>5, <2>6, <2>7, <2>8 DEF TargetsAreOwed, targets
<1> QED
    BY <1>1, WorldInvariance, PTL

-----------------------------------------------------------------------------
(***************************************************************************)
(* The evidence.                                                           *)
(***************************************************************************)
LEMMA SumOfIsOver == ASSUME NEW f PROVE SumOf(f) = SumOver(f, DOMAIN f)
BY DEF SumOf, SumOver

FailedIn(s) == {i \in s : attempts[i].status = "FAILED"}

\* A classification of the attempts in s by finitely many groups accounts for all of them.
LEMMA GroupsAddUp ==
    ASSUME NEW s, IsFiniteSet(s), NEW G, IsFiniteSet(G), NEW key, DOMAIN key = s,
           \A i \in s : key[i] \in G
    PROVE  AddsUp(Group(G, key), AttemptMetrics(s))
<1> DEFINE groups == Group(G, key)
           F == FailedIn(s)
           failed == [g \in DOMAIN groups |-> groups[g][1]]
           total  == [g \in DOMAIN groups |-> groups[g][2]]
           countF == [g \in G |-> Cardinality({i \in F : key[i] = g})]
           countS == [g \in G |-> Cardinality({i \in s : key[i] = g})]
<1>1. DOMAIN groups = G
    BY DEF Group
<1>2. ASSUME NEW g \in G
      PROVE  failed[g] = countF[g] /\ total[g] = countS[g]
    <2> DEFINE its == {i \in s : key[i] = g}
    <2>1. groups[g] = AttemptMetrics(its)
        BY DEF Group
    <2>2. {i \in its : attempts[i].status = "FAILED"} = {i \in F : key[i] = g}
        BY DEF FailedIn
    <2>3. AttemptMetrics(its) = <<Cardinality({i \in F : key[i] = g}), Cardinality(its)>>
        BY <2>2 DEF AttemptMetrics
    <2> HIDE DEF groups
    <2>4. groups[g][1] = Cardinality({i \in F : key[i] = g}) /\ groups[g][2] = Cardinality(its)
        BY <2>1, <2>3
    <2> QED
        BY <1>1, <2>4
<1>3. IsFiniteSet(F) /\ \A i \in F : key[i] \in G
    BY FS_Subset DEF FailedIn
<1>4. SumOver(countF, G) = Cardinality(F) /\ SumOver(countS, G) = Cardinality(s)
    <2> HIDE DEF F
    <2> QED
        BY <1>3, SumOfGroups
<1>5. DOMAIN failed = G /\ DOMAIN total = G
    BY <1>1
<1> HIDE DEF failed, total, countF, countS
<1>6. SumOver(failed, G) = SumOver(countF, G) /\ SumOver(total, G) = SumOver(countS, G)
    BY <1>2, SumSame
<1>7. SumOf(failed) = Cardinality(F) /\ SumOf(total) = Cardinality(s)
    BY <1>4, <1>5, <1>6, SumOfIsOver
<1> QED
    BY <1>7 DEF AddsUp, AttemptMetrics, FailedIn, failed, total

LEMMA FateOfAttempt ==
    ASSUME NEW o, NEW p, NEW its, NEW as, Fate(o, p, its, as), NEW i \in its
    PROVE  /\ as[i].at = p.at
           /\ as[i].status = "FAILED" => as[i].error # None
           /\ p.status = "FAILED" => as[i].status = "FAILED"
BY DEF Fate

\* The rows an attempt leads to.
LEMMA AttemptIsPlaced ==
    ASSUME WorldInv, NEW i \in DOMAIN attempts
    PROVE  /\ attempts[i].payment \in 1 .. Len(payments)
           /\ PaymentFor(i) = payments[attempts[i].payment]
           /\ MethodFor(i) \in Method /\ CohortFor(i) \in Cohorted
           /\ attempts[i].at \in Nat
           /\ attempts[i].at = payments[attempts[i].payment].at
           /\ attempts[i].status = "FAILED" => attempts[i].error # None
<1> DEFINE j == attempts[i].payment
<1>1. /\ payments \in Seq(PaymentRow) /\ attempts \in Seq(AttemptRow) /\ orders \in Seq(OrderRow)
      /\ Numbered(payments) /\ Numbered(orders) /\ Len(orders) = Len(payments)
      /\ DOMAIN payments = 1 .. Len(payments) /\ DOMAIN orders = 1 .. Len(payments)
      /\ DOMAIN attempts = 1 .. Len(attempts)
      /\ \A k \in 1 .. Len(attempts) : attempts[k].payment \in 1 .. Len(payments)
      /\ \A k \in 1 .. Len(payments) :
            payments[k].order = k /\ FateOf(k, orders, payments, attempts)
    BY DEF WorldInv, TablesFit
<1>2. j \in 1 .. Len(payments) /\ attempts[i] \in AttemptRow
      /\ payments[j] \in PaymentRow /\ orders[j] \in OrderRow
    BY <1>1
<1>3. i \in AttemptsOfPayment(j, attempts)
    BY <1>1 DEF AttemptsOfPayment
<1>4. /\ attempts[i].at = payments[j].at
      /\ attempts[i].status = "FAILED" => attempts[i].error # None
    <2>1. Fate(orders[j], payments[j], AttemptsOfPayment(j, attempts), attempts)
        BY <1>1, <1>2 DEF FateOf
    <2> HIDE DEF j
    <2> QED
        BY <1>3, <2>1, FateOfAttempt
<1>5. PaymentFor(i) = payments[j]
    <2>1. (CHOOSE k \in DOMAIN payments : payments[k].id = j) = j
        BY <1>1, <1>2 DEF Numbered
    <2> QED
        BY <2>1 DEF PaymentFor
<1>6. OrderFor(i) = orders[j]
    <2>1. PaymentFor(i).order = j
        BY <1>1, <1>2, <1>5
    <2>2. (CHOOSE k \in DOMAIN orders : orders[k].id = j) = j
        BY <1>1, <1>2 DEF Numbered
    <2> QED
        BY <2>1, <2>2 DEF OrderFor
<1>7. MethodFor(i) \in Method /\ CohortFor(i) \in Cohorted
    BY <1>2, <1>5, <1>6 DEF MethodFor, CohortFor, PaymentRow, OrderRow
<1>8. attempts[i].at \in Nat
    BY <1>2 DEF AttemptRow
<1> QED
    BY <1>2, <1>4, <1>5, <1>7, <1>8

LEMMA WindowOfAttempts ==
    ASSUME WorldInv, NEW w
    PROVE  IsFiniteSet(AttemptsIn(w)) /\ AttemptsIn(w) \subseteq DOMAIN attempts
<1>1. DOMAIN attempts = 1 .. Len(attempts) /\ Len(attempts) \in Nat
    BY DEF WorldInv, TablesFit
<1>2. AttemptsIn(w) \subseteq DOMAIN attempts
    BY DEF AttemptsIn
<1>3. IsFiniteSet(1 .. Len(attempts))
    BY <1>1, FS_Interval
<1> QED
    BY <1>1, <1>2, <1>3, FS_Subset

\* Every breakdown of the evidence adds up.
LEMMA CurrentAddsUp ==
    ASSUME WorldInv
    PROVE  LET overall == AttemptMetrics(AttemptsIn(CurrentWindow))
           IN  AddsUp(PaymentMethods, overall) /\ AddsUp(Cohorts, overall)
               /\ AddsUp(TemporalHourly, overall)
<1> DEFINE s == AttemptsIn(CurrentWindow)
           methods == [i \in s |-> MethodFor(i)]
           cohorts == [i \in s |-> CohortFor(i)]
           hour == [i \in s |-> attempts[i].at]
<1>1. IsFiniteSet(s) /\ s \subseteq DOMAIN attempts
    BY WindowOfAttempts
<1>2. \A i \in s : MethodFor(i) \in Method /\ CohortFor(i) \in Cohorted
    BY <1>1, AttemptIsPlaced
<1> HIDE DEF s
<1>3. IsFiniteSet(Method)
    BY WorldAssumption
<1>4. IsFiniteSet({"NEW", "RETURNING"})
    <2>1. IsFiniteSet({"NEW"})
        BY FS_Singleton
    <2>2. {"NEW", "RETURNING"} = {"NEW"} \cup {"RETURNING"}
        OBVIOUS
    <2> QED
        BY <2>1, <2>2, FS_AddElement
<1>5. DOMAIN hour = s /\ Range(hour) = {hour[i] : i \in s}
    BY DEF Range
<1>6. IsFiniteSet(Range(hour)) /\ \A i \in s : hour[i] \in Range(hour)
    <2> HIDE DEF hour
    <2> QED
        BY <1>1, <1>5, ImageIsFinite
<1>7. DOMAIN methods = s /\ \A i \in s : methods[i] \in Method
    BY <1>2
<1>8. DOMAIN cohorts = s /\ \A i \in s : cohorts[i] \in {"NEW", "RETURNING"}
    BY <1>2 DEF Cohorted
<1> HIDE DEF methods, cohorts, hour
<1>9. /\ AddsUp(Group(Method, methods), AttemptMetrics(s))
      /\ AddsUp(Group({"NEW", "RETURNING"}, cohorts), AttemptMetrics(s))
      /\ AddsUp(Group(Range(hour), hour), AttemptMetrics(s))
    BY <1>1, <1>3, <1>4, <1>5, <1>6, <1>7, <1>8, GroupsAddUp
<1> QED
    BY <1>9 DEF PaymentMethods, Cohorts, TemporalHourly, s, methods, cohorts, hour

\* The days cover the baseline.
LEMMA DayOfHour ==
    ASSUME NEW t \in Nat, t < BaselineEnd
    PROVE  t \div DayLength \in BaselineDays
<1> DEFINE q == t \div DayLength
           r == t % DayLength
<1>1. Days \in Nat /\ DayLength \in Nat /\ DayLength > 0
    BY WorldAssumption
<1>2. q \in Nat /\ r \in Nat /\ t = DayLength * q + r
    BY <1>1
<1> HIDE DEF q, r
<1>3. ASSUME ~ (q < Days) PROVE FALSE
    <2>1. PICK e \in Nat : q = Days + e
        <3>1. q - Days \in Nat /\ q = Days + (q - Days)
            BY <1>1, <1>2, <1>3
        <3> QED
            BY <3>1
    <2>2. DayLength * q = DayLength * Days + DayLength * e
        BY <1>1, <2>1
    <2>3. DayLength * e \in Nat /\ DayLength * Days \in Nat
        BY <1>1, <2>1
    <2>4. DayLength * Days = BaselineEnd
        BY <1>1 DEF BaselineEnd
    <2> QED
        BY <1>2, <2>2, <2>3, <2>4
<1>4. q \in 0 .. Days - 1
    BY <1>1, <1>2, <1>3
<1> QED
    BY <1>4 DEF q, BaselineDays

LEMMA BaselineAddsUp ==
    ASSUME WorldInv
    PROVE  AddsUp(BaselineDaily, AttemptMetrics(AttemptsIn(BaselineWindow)))
<1> DEFINE s == AttemptsIn(BaselineWindow)
           day == [i \in s |-> attempts[i].at \div DayLength]
<1>1. IsFiniteSet(s) /\ s \subseteq DOMAIN attempts
    BY WindowOfAttempts
<1>2. \A i \in s : day[i] \in BaselineDays
    <2> TAKE i \in s
    <2>1. attempts[i].at \in Nat
        BY <1>1, AttemptIsPlaced
    <2>2. attempts[i].at < BaselineEnd
        BY DEF AttemptsIn, BaselineWindow
    <2> QED
        BY <2>1, <2>2, DayOfHour
<1>3. IsFiniteSet(BaselineDays)
    BY WorldAssumption, FS_Interval DEF BaselineDays
<1>4. DOMAIN day = s
    OBVIOUS
<1> HIDE DEF s, day
<1>5. AddsUp(Group(BaselineDays, day), AttemptMetrics(s))
    BY <1>1, <1>2, <1>3, <1>4, GroupsAddUp
<1> QED
    BY <1>5 DEF BaselineDaily, s, day

\* Every failed attempt has a reason and is counted under it.
LEMMA ReasonsAddUp ==
    ASSUME WorldInv
    PROVE  SumOf(FailureReasons) = AttemptMetrics(AttemptsIn(CurrentWindow))[1]
<1> DEFINE s == {i \in AttemptsIn(CurrentWindow) : attempts[i].status = "FAILED"}
           key == [i \in s |-> ReasonFor(i)]
           R == {key[i] : i \in s}
           count == [r \in R |-> Cardinality({i \in s : key[i] = r})]
<1>1. IsFiniteSet(s) /\ s \subseteq DOMAIN attempts
    BY WindowOfAttempts, FS_Subset
<1>2. \A i \in s : ReasonFor(i) # None
    BY <1>1, AttemptIsPlaced DEF ReasonFor
<1>3. {ReasonFor(i) : i \in s} \ {None} = R
    BY <1>2
<1>4. \A r : {i \in s : ReasonFor(i) = r} = {i \in s : key[i] = r}
    OBVIOUS
<1>5. FailureReasons = count
    BY <1>3, <1>4 DEF FailureReasons
<1>6. IsFiniteSet(R) /\ \A i \in s : key[i] \in R
    <2> HIDE DEF key, s
    <2> QED
        BY <1>1, ImageIsFinite
<1>7. SumOver(count, R) = Cardinality(s)
    <2> HIDE DEF key, s, R
    <2> QED
        BY <1>1, <1>6, SumOfGroups
<1>8. DOMAIN count = R
    OBVIOUS
<1> HIDE DEF count, R, key
<1>9. SumOf(FailureReasons) = Cardinality(s)
    BY <1>5, <1>7, <1>8, SumOfIsOver
<1> QED
    BY <1>9 DEF AttemptMetrics

\* A payment has failed only together with its attempts, at their time.
LEMMA NoMoneyWithoutFailure ==
    ASSUME WorldInv, AttemptMetrics(AttemptsIn(CurrentWindow))[1] = 0
    PROVE  Monetary.failed = 0
<1> DEFINE w == CurrentWindow
           s == {j \in DOMAIN payments : w[1] <= payments[j].at /\ payments[j].at < w[2]}
           failed == {j \in s : payments[j].status = "FAILED"}
           amounts == [j \in failed |-> payments[j].amount]
           F == {i \in AttemptsIn(w) : attempts[i].status = "FAILED"}
<1>1. F = {}
    <2>1. IsFiniteSet(F)
        BY WindowOfAttempts, FS_Subset
    <2>2. Cardinality(F) = 0
        BY DEF AttemptMetrics
    <2> QED
        BY <2>1, <2>2, FS_EmptySet
<1>2. failed = {}
    <2> SUFFICES ASSUME NEW j \in failed PROVE FALSE
        OBVIOUS
    <2>1. /\ DOMAIN payments = 1 .. Len(payments) /\ DOMAIN attempts = 1 .. Len(attempts)
          /\ \A k \in 1 .. Len(payments) : FateOf(k, orders, payments, attempts)
        BY DEF WorldInv, TablesFit
    <2>2. j \in 1 .. Len(payments) /\ payments[j].status = "FAILED"
        BY <2>1
    <2>3. Fate(orders[j], payments[j], AttemptsOfPayment(j, attempts), attempts)
        BY <2>1, <2>2 DEF FateOf
    <2>4. PICK i \in AttemptsOfPayment(j, attempts) :
             attempts[i].status = "FAILED" /\ attempts[i].at = payments[j].at
        <3>1. PICK i \in AttemptsOfPayment(j, attempts) : TRUE
            BY <2>3 DEF Fate
        <3>2. attempts[i].status = "FAILED" /\ attempts[i].at = payments[j].at
            BY <2>2, <2>3, <3>1, FateOfAttempt
        <3> QED
            BY <3>2
    <2>5. i \in F
        BY <2>1, <2>4 DEF AttemptsOfPayment, AttemptsIn
    <2> QED
        BY <1>1, <2>5
<1>3. Monetary.failed = SumOf(amounts)
    BY DEF Monetary
<1>4. DOMAIN amounts = {}
    BY <1>2
<1> HIDE DEF amounts
<1> QED
    BY <1>3, <1>4, SumOfIsOver, SumEmpty

LEMMA EvidenceIsComplete == WorldInv => EvidenceAddsUp
<1> SUFFICES ASSUME WorldInv PROVE EvidenceAddsUp
    OBVIOUS
<1>1. /\ Bundle.methods = PaymentMethods /\ Bundle.cohorts = Cohorts
      /\ Bundle.temporal = TemporalHourly /\ Bundle.daily = BaselineDaily
      /\ Bundle.reasons = FailureReasons /\ Bundle.monetary = Monetary
      /\ Bundle.overall = AttemptMetrics(AttemptsIn(CurrentWindow))
      /\ Bundle.baseline = AttemptMetrics(AttemptsIn(BaselineWindow))
    BY DEF Bundle
<1> QED
    BY <1>1, CurrentAddsUp, BaselineAddsUp, ReasonsAddUp, NoMoneyWithoutFailure DEF EvidenceAddsUp

(***************************************************************************)
(* The anomaly. A rate above the mean of the days is one whose excess is   *)
(* positive: were it zero, the spread could not be.                        *)
(***************************************************************************)
LEMMA ExcessIsPositive ==
    ASSUME NEW n \in Nat, NEW sum \in Int, NEW squares \in Int, NEW current \in Int,
           n * squares - sum * sum > 0, n * current - sum >= 0,
           (n * current - sum) * (n * current - sum) * (n - 1)
               >= 9 * n * (n * squares - sum * sum)
    PROVE  n * current > sum
<1> DEFINE spread == n * squares - sum * sum
           excess == n * current - sum
<1>1. n * squares \in Int /\ sum * sum \in Int /\ n * current \in Int
    OBVIOUS
<1>2. spread \in Int /\ spread > 0 /\ excess \in Int /\ excess >= 0
    BY <1>1
<1>3. excess * excess * (n - 1) >= 9 * n * spread
    OBVIOUS
<1>4. excess = n * current - sum
    OBVIOUS
<1>5. CASE n = 0
    <2>1. n * squares = 0 /\ n * current = 0
        BY <1>5
    <2>2. sum * sum < 0
        BY <1>1, <2>1
    <2>3. sum * sum >= 0
        OBVIOUS
    <2> QED
        BY <1>1, <2>2, <2>3
<1>6. CASE n > 0 /\ excess = 0
    <2> HIDE DEF spread, excess
    <2>1. excess * excess * (n - 1) = 0
        BY <1>6
    <2>2. n * spread > 0
        BY <1>2, <1>6
    <2>3. 9 * n * spread = 9 * (n * spread) /\ n * spread \in Int
        BY <1>2
    <2> QED
        BY <1>3, <2>1, <2>2, <2>3
<1>7. CASE excess > 0
    <2> HIDE DEF excess
    <2> QED
        BY <1>1, <1>4, <1>7
<1> QED
    BY <1>2, <1>5, <1>6, <1>7

\* A rate: the failed and the total.
LEMMA MetricsType ==
    ASSUME NEW s, IsFiniteSet(s)
    PROVE  AttemptMetrics(s)[1] \in Nat /\ AttemptMetrics(s)[2] \in Nat
<1>1. IsFiniteSet({i \in s : attempts[i].status = "FAILED"})
    BY FS_Subset
<1>2. /\ Cardinality({i \in s : attempts[i].status = "FAILED"}) \in Nat
      /\ Cardinality(s) \in Nat
    BY <1>1, FS_CardinalityType
<1> QED
    BY <1>2 DEF AttemptMetrics

LEMMA ScaledType ==
    ASSUME NEW rates, IsFiniteSet(DOMAIN rates), NEW current,
           \A d \in DOMAIN rates : rates[d][1] \in Nat /\ rates[d][2] \in Nat,
           current[1] \in Nat /\ current[2] \in Nat
    PROVE  LET x == Scaled(rates, current)
           IN  x.n \in Nat /\ x.sum \in Int /\ x.squares \in Int /\ x.current \in Int
<1> DEFINE D == DOMAIN rates
           totals == {rates[d][2] : d \in D} \cup {current[2]}
           scale == ProductSet(totals)
           Times(r) == IF r[2] = 0 THEN 0 ELSE r[1] * (scale \div r[2])
           rate == [d \in D |-> Times(rates[d])]
           square == [d \in D |-> rate[d] * rate[d]]
<1>1. scale \in Int
    <2> DEFINE second == [d \in D |-> rates[d][2]]
    <2>1. IsFiniteSet({second[d] : d \in D})
        <3> HIDE DEF second
        <3> QED
            BY ImageIsFinite
    <2>2. IsFiniteSet({second[d] : d \in D} \cup {current[2]})
        BY <2>1, FS_AddElement
    <2>3. totals = {second[d] : d \in D} \cup {current[2]}
        OBVIOUS
    <2>4. \A k \in totals : k \in Int
        OBVIOUS
    <2> HIDE DEF totals, second
    <2> QED
        BY <2>2, <2>3, <2>4, ProductType
<1> HIDE DEF scale
<1>2. ASSUME NEW r, r[1] \in Nat, r[2] \in Nat
      PROVE  Times(r) \in Int
    <2>1. CASE r[2] = 0
        BY <2>1
    <2>2. CASE r[2] # 0
        <3> DEFINE q == scale \div r[2]
        <3>1. q \in Int
            BY <1>1, <1>2, <2>2
        <3> HIDE DEF q
        <3>2. r[1] * q \in Int
            BY <1>2, <3>1
        <3> QED
            BY <2>2, <3>2 DEF q
    <2> QED
        BY <2>1, <2>2
<1>3. Times(current) \in Int
    BY <1>2
<1>4. \A d \in D : Times(rates[d]) \in Int
    BY <1>2
<1> HIDE DEF Times
<1>5. \A d \in D : rate[d] \in Int
    BY <1>4
<1>6. DOMAIN rate = D /\ DOMAIN square = D
    OBVIOUS
<1>7. \A d \in D : square[d] \in Int
    <2> HIDE DEF rate
    <2> QED
        BY <1>5
<1> HIDE DEF rate, square
<1>8. SumOf(rate) \in Int /\ SumOf(square) \in Int
    BY <1>5, <1>6, <1>7, SumOfIsOver, SumType
<1>9. Cardinality(D) \in Nat
    BY FS_CardinalityType
<1>10. Scaled(rates, current) = [n |-> Cardinality(D), sum |-> SumOf(rate),
                                 squares |-> SumOf(square), current |-> Times(current)]
    BY DEF Scaled, rate, square, Times, scale
<1> HIDE DEF D
<1> QED
    BY <1>3, <1>8, <1>9, <1>10

LEMMA AnomalyIsWorse == WorldInv => AnomalyMeansWorse
<1> SUFFICES ASSUME WorldInv, IsAnomalous
             PROVE  LET x == Scaled(DailyRates, AttemptMetrics(AttemptsIn(CurrentWindow)))
                    IN  x.n * x.current > x.sum
    BY DEF AnomalyMeansWorse
<1> DEFINE current == AttemptMetrics(AttemptsIn(CurrentWindow))
           x == Scaled(DailyRates, current)
<1>1. current[1] \in Nat /\ current[2] \in Nat
    BY WindowOfAttempts, MetricsType
<1>2. DOMAIN DailyRates \subseteq BaselineDays
    BY DEF DailyRates
<1>3. IsFiniteSet(DOMAIN DailyRates)
    <2>1. IsFiniteSet(BaselineDays)
        BY WorldAssumption, FS_Interval DEF BaselineDays
    <2> QED
        BY <1>2, <2>1, FS_Subset
<1>4. ASSUME NEW d \in DOMAIN DailyRates
      PROVE  DailyRates[d][1] \in Nat /\ DailyRates[d][2] \in Nat
    <2> DEFINE day == [i \in AttemptsIn(BaselineWindow) |-> attempts[i].at \div DayLength]
               its == {i \in DOMAIN day : day[i] = d}
    <2>1. IsFiniteSet(its)
        BY WindowOfAttempts, FS_Subset
    <2>2. d \in BaselineDays
        BY <1>2
    <2>3. DailyRates[d] = AttemptMetrics(its)
        BY <1>4, <2>2 DEF DailyRates, BaselineDaily, Group
    <2> HIDE DEF its
    <2> QED
        BY <2>1, <2>3, MetricsType
<1> HIDE DEF current
<1>5. x.n \in Nat /\ x.sum \in Int /\ x.squares \in Int /\ x.current \in Int
    BY <1>1, <1>3, <1>4, ScaledType
<1>6. Exceeds(x)
    BY DEF IsAnomalous, current
<1> HIDE DEF x
<1>7. /\ x.n * x.squares - x.sum * x.sum > 0 /\ x.n * x.current - x.sum >= 0
      /\ (x.n * x.current - x.sum) * (x.n * x.current - x.sum) * (x.n - 1)
            >= 9 * x.n * (x.n * x.squares - x.sum * x.sum)
    BY <1>6 DEF Exceeds
<1>8. x.n * x.current > x.sum
    BY <1>5, <1>7, ExcessIsPositive
<1> QED
    BY <1>8 DEF x, current

\* The evidence accounts for every attempt of its windows, and calls an anomaly only what
\* is worse than the baseline (AnalyticsEngine, EvidenceBuilder.build_bundle).
THEOREM EvidenceCorrect == Spec => []EvidenceIsSound
BY WorldInvariance, EvidenceIsComplete, AnomalyIsWorse, PTL DEF EvidenceIsSound
=============================================================================
