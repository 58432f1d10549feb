---------------------- MODULE AccountsAndPaymentsProofs ----------------------
(***************************************************************************)
(* Two services that share no state, each for any values of its constants. *)
(* Payments: no payment shows more refunded than was paid unless a webhook *)
(* or the admin said so, and one that nobody disturbed shows what its      *)
(* Refund rows add up to.  The invariants say of every request under way   *)
(* what its copy of the payment adds to the rows, and whose word it is.    *)
(* Authentication: passwords that were set stay, every user has a profile, *)
(* and logins that overlap slip past the limit only as many at a time as   *)
(* there are threads.  The invariants say of every request under way what  *)
(* it will write, and which logins the limit has let pass.                 *)
(***************************************************************************)
EXTENDS Payments, Authentication, FiniteSetTheorems, TLAPS

-----------------------------------------------------------------------------
(* Payments. *)

Clean(p)    == p \notin disturbed \union apart
Holds(w, p) == Busy(w) /\ job[w].holds /\ job[w].id = p

\* What a request has left to do, and whether it holds a payment meanwhile.
LastTodo    == {<<"save">>, <<"save", "processed">>}
HoldingTodo == {<<"refund", "save">>, <<"save">>, <<"save", "processed">>,
                <<"dispute", "save", "processed">>}
FreeTodo    == {<<"refund">>, <<"store", "find", "processed">>, <<"find", "processed">>,
                <<"processed">>, <<"failed">>, <<"subscription">>}
Shaped(j)   ==
  /\ j.todo \in IF j.holds THEN HoldingTodo ELSE FreeTodo
  /\ j.todo \in {<<"store", "find", "processed">>, <<"find", "processed">>} => j.event \in EventType

UnderWay == [todo : HoldingTodo \union FreeTodo, id : Ids, holds : BOOLEAN, copy : Payment,
             amount : Int, event : EventType \union {"form", Missing}, sound : BOOLEAN,
             hook : Hooks \union {Missing}, status : SubscriptionStatus]

RowsTyped ==
  /\ payment \in [Ids -> Payment \union {Missing}]
  /\ requested \in [Ids -> Int]
  /\ subscription \in SubscriptionStatus
  /\ job \in [Workers -> UnderWay \union {<< >>}]
  /\ \A w \in Workers : Busy(w) => Shaped(job[w])

\* A payment that has had no row has left no trace.
FreshUntouched ==
  \A p \in fresh \intersect Ids :
    /\ ~Exists(p) /\ requested[p] = 0
    /\ \A w \in Workers : ~Holds(w, p)

\* Who shares a payment has disturbed it; a Refund row without the payment's save
\* puts it apart.
Alone ==
  \A p \in Ids : Clean(p) =>
    /\ \A v, w \in Workers : Holds(v, p) /\ Holds(w, p) => v = w
    /\ \A w \in Workers : Busy(w) /\ job[w].todo = <<"refund">> => job[w].id # p

\* A clean payment that nobody holds agrees with its Refund rows ...
RestAgrees ==
  \A p \in Ids : Clean(p) /\ Exists(p) /\ (\A w \in Workers : ~Holds(w, p)) =>
    payment[p].refunded = requested[p]

\* ... and the copy of a holder agrees with those of the save, once its own Refund
\* row is inserted; an amount that came from outside is another matter.
CopyAgrees ==
  \A p \in Ids : \A w \in Workers : Clean(p) /\ Holds(w, p) =>
    /\ Exists(p)
    /\ \/ job[w].event \in Outside /\ job[w].todo \in LastTodo
       \/ /\ job[w].todo = <<"refund", "save">>
          /\ job[w].copy.refunded = requested[p] + job[w].amount
       \/ /\ job[w].todo # <<"refund", "save">>
          /\ job[w].copy.refunded = requested[p]

\* A webhook that opens a dispute may yet let go of the payment as it has read it.
ReadAgrees ==
  \A p \in Ids : \A w \in Workers :
    Clean(p) /\ Holds(w, p) /\ job[w].todo = <<"dispute", "save", "processed">> =>
      payment[p].refunded = requested[p]

RefundInv == RowsTyped /\ FreshUntouched /\ Alone /\ RestAgrees /\ CopyAgrees /\ ReadAgrees

-----------------------------------------------------------------------------
(* Types. *)

LEMMA RefundedTyped ==
  ASSUME NEW row \in Payment, NEW n \in Int
  PROVE  /\ WithRefunded(row, n) \in Payment
         /\ WithRefunded(row, n).refunded = n /\ WithRefunded(row, n).amount = row.amount
BY DEF WithRefunded, Payment, PaymentStatus

\* Another status is all that most handlers write.
LEMMA StatusTyped ==
  ASSUME NEW row \in Payment, NEW st \in PaymentStatus
  PROVE  /\ [row EXCEPT !.status = st] \in Payment
         /\ [row EXCEPT !.status = st].refunded = row.refunded
         /\ [row EXCEPT !.status = st].amount = row.amount
BY DEF Payment

\* Whatever a webhook makes of a payment is one.
LEMMA AppliedTyped ==
  ASSUME NEW e \in EventType, NEW row \in Payment, NEW a \in Int
  PROVE  /\ Applied(e, row, a) \in Payment
         /\ e # "charge.refunded" => /\ Applied(e, row, a).refunded = row.refunded
                                     /\ Applied(e, row, a).amount = row.amount
<1>1. CASE e = "payment_intent.succeeded"
  BY <1>1, StatusTyped DEF Applied, PaymentStatus
<1>2. CASE e = "payment_intent.payment_failed"
  BY <1>2, StatusTyped DEF Applied, PaymentStatus
<1>3. CASE e = "charge.refunded"
  BY <1>3, RefundedTyped DEF Applied
<1>4. CASE e = "charge.dispute.created"
  BY <1>4, StatusTyped DEF Applied, PaymentStatus
<1> QED
  BY <1>1, <1>2, <1>3, <1>4 DEF EventType

\* A request that starts is one under way.
LEMMA TaskTyped ==
  ASSUME NEW todo \in HoldingTodo \union FreeTodo, NEW p \in Ids, NEW holds \in BOOLEAN,
         NEW copy \in Payment, NEW a \in Int
  PROVE  /\ Task(todo, p, holds, copy, a) \in UnderWay
         /\ \A e \in EventType, h \in Hooks, b \in BOOLEAN :
              [Task(todo, p, holds, copy, a) EXCEPT !.event = e, !.hook = h, !.sound = b]
                \in UnderWay
         /\ [Task(todo, p, holds, copy, a) EXCEPT !.event = "form"] \in UnderWay
         /\ \A s \in SubscriptionStatus :
              [Task(todo, p, holds, copy, a) EXCEPT !.status = s] \in UnderWay
BY DEF Task, UnderWay, SubscriptionStatus

\* The next statements of a request under way, and what its holds and copy become.
LEMMA NextTyped ==
  ASSUME NEW j \in UnderWay
  PROVE  /\ \A todo \in HoldingTodo \union FreeTodo :
              /\ [j EXCEPT !.todo = todo] \in UnderWay
              /\ \A b \in BOOLEAN : [[j EXCEPT !.holds = b] EXCEPT !.todo = todo] \in UnderWay
              /\ \A b \in BOOLEAN : [j EXCEPT !.todo = todo, !.holds = b] \in UnderWay
              /\ \A b \in BOOLEAN, c \in Payment :
                   [j EXCEPT !.todo = todo, !.holds = b, !.copy = c] \in UnderWay
BY DEF UnderWay

LEMMA UnbornTyped ==
  ASSUME NEW price \in Nat
  PROVE  Unborn(price) \in Payment /\ Unborn(price).refunded = 0
BY DEF Unborn, Payment, PaymentStatus

\* What the admin fills in.
LEMMA FormTyped ==
  ASSUME NEW s \in Patched, NEW price \in Prices, NEW a \in Amounts
  PROVE  [status |-> s, amount |-> price, refunded |-> a] \in Payment
BY PaymentConstants DEF Patched, Payment, PaymentStatus

LEMMA NoCopyTyped == NoCopy \in Payment
BY UnbornTyped DEF NoCopy

\* A request that starts holds its payment from the start, or not at all.
LEMMA StartTyped ==
  ASSUME RowsTyped, NEW w \in Workers, NEW task \in UnderWay, Shaped(task), Start(w, task),
         UNCHANGED <<payment, requested, subscription>>
  PROVE  RowsTyped'
BY DEF RowsTyped, Start, Busy

LEMMA RequestsTyped ==
  ASSUME RowsTyped, NEW w \in Workers, NEW p \in Ids, Request(w, p)
  PROVE  RowsTyped'
<1>1. CASE UpdatePayment(w, p)
  <2>1. PICK s \in Patched :
          Start(w, Task(<<"save">>, p, TRUE, [payment[p] EXCEPT !.status = s], 0))
    BY <1>1 DEF UpdatePayment
  <2>2. [payment[p] EXCEPT !.status = s] \in Payment
    BY <1>1 DEF UpdatePayment, Exists, RowsTyped, Payment, Patched, PaymentStatus
  <2> DEFINE t == Task(<<"save">>, p, TRUE, [payment[p] EXCEPT !.status = s], 0)
  <2>3. t \in UnderWay
    <3>1. <<"save">> \in HoldingTodo /\ 0 \in Int
      BY DEF HoldingTodo
    <3> QED
      BY <2>2, <3>1, TaskTyped
  <2>4. Shaped(t)
    BY DEF Shaped, Task, HoldingTodo
  <2> QED
    BY <1>1, <2>1, <2>3, <2>4, StartTyped DEF UpdatePayment
<1>2. CASE RequestRefund(w, p)
  <2>1. PICK a \in Amounts \union {0} :
          /\ a # 0 => a <= Refundable(payment[p])
          /\ Start(w, Task(<<"refund", "save">>, p, TRUE,
               WithRefunded(payment[p], payment[p].refunded + Granted(payment[p], a)),
               Granted(payment[p], a)))
    BY <1>2 DEF RequestRefund
  <2> DEFINE g == Granted(payment[p], a)
             t == Task(<<"refund", "save">>, p, TRUE,
                       WithRefunded(payment[p], payment[p].refunded + g), g)
  <2>2. payment[p] \in Payment /\ payment[p].refunded \in Int /\ payment[p].amount \in Nat
    BY <1>2 DEF RequestRefund, Exists, RowsTyped, Payment
  <2>3. g \in Int /\ payment[p].refunded + g \in Int
    <3>1. a \in Int
      BY <2>1, PaymentConstants
    <3> QED
      BY <2>2, <3>1 DEF Granted, Refundable
  <2>4. WithRefunded(payment[p], payment[p].refunded + g) \in Payment
    BY <2>2, <2>3, RefundedTyped
  <2>5. t \in UnderWay
    BY <2>3, <2>4, TaskTyped DEF HoldingTodo
  <2>6. Shaped(t)
    BY DEF Shaped, Task, HoldingTodo
  <2> QED
    BY <1>2, <2>1, <2>5, <2>6, StartTyped DEF RequestRefund
<1>3. CASE ListRefund(w, p)
  <2>1. PICK a \in Amounts : Start(w, Task(<<"refund">>, p, FALSE, NoCopy, a))
    BY <1>3 DEF ListRefund
  <2>2. a \in Int
    BY PaymentConstants
  <2> DEFINE t == Task(<<"refund">>, p, FALSE, NoCopy, a)
  <2>3. t \in UnderWay
    BY <2>2, TaskTyped, NoCopyTyped DEF FreeTodo
  <2>4. Shaped(t)
    BY DEF Shaped, Task, FreeTodo
  <2> QED
    BY <1>3, <2>1, <2>3, <2>4, StartTyped DEF ListRefund
<1>4. CASE ChangeSubscription(w, p)
  <2>1. PICK s \in {"canceled", subscription} :
          Start(w, [Task(<<"subscription">>, p, FALSE, NoCopy, 0) EXCEPT !.status = s])
    BY <1>4 DEF ChangeSubscription
  <2> DEFINE t == [Task(<<"subscription">>, p, FALSE, NoCopy, 0) EXCEPT !.status = s]
  <2>2. s \in SubscriptionStatus
    BY DEF SubscriptionStatus, RowsTyped
  <2>3. t \in UnderWay
    <3>1. <<"subscription">> \in FreeTodo /\ 0 \in Int
      BY DEF FreeTodo
    <3> QED
      BY <2>2, <3>1, TaskTyped, NoCopyTyped
  <2>4. Shaped(t)
    BY DEF Shaped, Task, FreeTodo
  <2> QED
    BY <1>4, <2>1, <2>3, <2>4, StartTyped DEF ChangeSubscription
<1>5. ASSUME NEW h \in Hooks, ReceiveWebhook(w, h, p) PROVE RowsTyped'
  <2>1. PICK e \in EventType, a \in Amounts \union {0}, b \in BOOLEAN :
          Start(w, [Task(<<"store", "find", "processed">>, p, FALSE, NoCopy, a)
                      EXCEPT !.event = e, !.hook = h, !.sound = b])
    BY <1>5 DEF ReceiveWebhook
  <2> DEFINE t == [Task(<<"store", "find", "processed">>, p, FALSE, NoCopy, a)
                     EXCEPT !.event = e, !.hook = h, !.sound = b]
  <2>2. a \in Int
    BY PaymentConstants
  <2>3. t \in UnderWay
    BY <2>2, TaskTyped, NoCopyTyped DEF FreeTodo
  <2>4. Shaped(t)
    BY DEF Shaped, Task, FreeTodo
  <2> QED
    BY <1>5, <2>1, <2>3, <2>4, StartTyped DEF ReceiveWebhook
<1>6. CASE AdminForm(w, p)
  <2>1. PICK s \in Patched, price \in Prices, a \in Amounts :
          Start(w, [Task(<<"save">>, p, TRUE, [status |-> s, amount |-> price, refunded |-> a], 0)
                      EXCEPT !.event = "form"])
    BY <1>6 DEF AdminForm
  <2> DEFINE row == [status |-> s, amount |-> price, refunded |-> a]
             t == [Task(<<"save">>, p, TRUE, row, 0) EXCEPT !.event = "form"]
  <2>2. row \in Payment
    BY FormTyped
  <2>3. t \in UnderWay
    <3>1. <<"save">> \in HoldingTodo /\ 0 \in Int
      BY DEF HoldingTodo
    <3> QED
      BY <2>2, <3>1, TaskTyped
  <2>4. Shaped(t)
    BY DEF Shaped, Task, HoldingTodo
  <2> QED
    BY <1>6, <2>1, <2>3, <2>4, StartTyped DEF AdminForm
<1> QED
  BY <1>1, <1>2, <1>3, <1>4, <1>5, <1>6 DEF Request

\* The statements keep the types.
LEMMA StatementsTyped ==
  ASSUME RowsTyped, NEW w \in Workers, Execute(w) \/ Crash(w)
  PROVE  RowsTyped'
<1> DEFINE j == job[w]
<1> USE DEF RowsTyped, Busy, Runs, Advance, Finished
<1>1. j \in UnderWay /\ Shaped(j) /\ j.id \in Ids /\ j.copy \in Payment /\ j.amount \in Int
  BY DEF Execute, StoreWebhook, FindPayment, InsertRefund, InsertDispute, SavePayment,
         SaveWebhook, SaveSubscription, Crash, UnderWay
<1>2. ASSUME NEW n \in UnderWay, Shaped(n), job' = [job EXCEPT ![w] = n],
             payment' \in [Ids -> Payment \union {Missing}], requested' \in [Ids -> Int],
             subscription' \in SubscriptionStatus
      PROVE  RowsTyped'
  BY <1>2
<1>3. ASSUME job' = [job EXCEPT ![w] = << >>],
             payment' \in [Ids -> Payment \union {Missing}], requested' \in [Ids -> Int],
             subscription' \in SubscriptionStatus
      PROVE  RowsTyped'
  BY <1>3
<1>4. CASE StoreWebhook(w)
  <2>1. j.todo = <<"store", "find", "processed">> /\ ~j.holds
    BY <1>1, <1>4 DEF StoreWebhook, Shaped, HoldingTodo, FreeTodo
  <2>2. job' = [job EXCEPT ![w] = [j EXCEPT !.todo = <<"find", "processed">>]]
    BY <1>4, <2>1 DEF StoreWebhook
  <2>3. [j EXCEPT !.todo = <<"find", "processed">>] \in UnderWay
    BY <1>1, NextTyped DEF FreeTodo
  <2>4. Shaped([j EXCEPT !.todo = <<"find", "processed">>])
    BY <1>1, <2>1 DEF Shaped, FreeTodo, UnderWay
  <2> QED
    BY <1>4, <2>2, <2>3, <2>4 DEF StoreWebhook
<1>5. CASE FindPayment(w)
  <2>1. j.todo = <<"find", "processed">> /\ ~j.holds
    BY <1>1, <1>5 DEF FindPayment, Shaped, HoldingTodo, FreeTodo
  <2>2. CASE Exists(j.id) /\ (j.sound \/ j.event # "charge.refunded")
    <3> DEFINE todo == IF j.event = "charge.dispute.created"
                         THEN <<"dispute", "save", "processed">> ELSE <<"save", "processed">>
               copy == Applied(j.event, payment[j.id], j.amount)
               n == [j EXCEPT !.todo = todo, !.holds = TRUE, !.copy = copy]
    <3>1. job' = [job EXCEPT ![w] = n]
      BY <1>5, <2>2 DEF FindPayment
    <3>2. j.event \in EventType
      BY <1>1, <2>1 DEF Shaped
    <3>3. copy \in Payment
      BY <1>1, <2>2, <3>2, AppliedTyped DEF Exists
    <3>4. n \in UnderWay
      BY <1>1, <3>3, NextTyped DEF HoldingTodo
    <3>5. Shaped(n)
      BY <1>1 DEF Shaped, HoldingTodo, UnderWay
    <3> QED
      BY <1>2, <1>5, <3>1, <3>4, <3>5 DEF FindPayment
  <2>3. CASE ~(Exists(j.id) /\ (j.sound \/ j.event # "charge.refunded"))
    <3> DEFINE todo == IF Exists(j.id) THEN <<"failed">> ELSE <<"processed">>
    <3>1. job' = [job EXCEPT ![w] = [j EXCEPT !.todo = todo]]
      BY <1>5, <2>3 DEF FindPayment
    <3>2. [j EXCEPT !.todo = todo] \in UnderWay
      BY <1>1, NextTyped DEF FreeTodo
    <3>3. Shaped([j EXCEPT !.todo = todo])
      BY <1>1, <2>1 DEF Shaped, FreeTodo, UnderWay
    <3> QED
      BY <1>2, <1>5, <3>1, <3>2, <3>3 DEF FindPayment
  <2> QED
    BY <2>2, <2>3
<1>6. CASE InsertRefund(w)
  <2>1. \/ j.todo = <<"refund", "save">> /\ j.holds
        \/ j.todo = <<"refund">> /\ ~j.holds
    BY <1>1, <1>6 DEF InsertRefund, Shaped, HoldingTodo, FreeTodo
  <2>2. requested' \in [Ids -> Int]
    BY <1>1, <1>6, PaymentConstants DEF InsertRefund
  <2>3. CASE job' = [job EXCEPT ![w] = << >>]
    BY <1>3, <1>6, <2>2, <2>3 DEF InsertRefund
  <2>4. CASE j.todo = <<"refund", "save">> /\ job' # [job EXCEPT ![w] = << >>]
    <3>1. job' = [job EXCEPT ![w] = [j EXCEPT !.todo = <<"save">>]]
      BY <1>6, <2>4 DEF InsertRefund
    <3>2. [j EXCEPT !.todo = <<"save">>] \in UnderWay
      BY <1>1, NextTyped DEF HoldingTodo
    <3>3. Shaped([j EXCEPT !.todo = <<"save">>])
      BY <1>1, <2>1, <2>4 DEF Shaped, HoldingTodo, UnderWay
    <3> QED
      BY <1>2, <1>6, <2>2, <3>1, <3>2, <3>3 DEF InsertRefund
  <2>5. CASE j.todo = <<"refund">>
    <3>1. job' = [job EXCEPT ![w] = << >>]
      BY <1>6, <2>5 DEF InsertRefund
    <3> QED
      BY <2>3, <3>1
  <2> QED
    BY <2>1, <2>3, <2>4, <2>5
<1>7. CASE InsertDispute(w)
  <2>1. j.todo = <<"dispute", "save", "processed">> /\ j.holds
    BY <1>1, <1>7 DEF InsertDispute, Shaped, HoldingTodo, FreeTodo
  <2> DEFINE n == IF Exists(j.id) /\ j.sound THEN [j EXCEPT !.todo = <<"save", "processed">>]
                  ELSE [j EXCEPT !.todo = <<"failed">>, !.holds = FALSE]
  <2>2. job' = [job EXCEPT ![w] = n]
    BY <1>7, <2>1 DEF InsertDispute
  <2>3. n \in UnderWay
    BY <1>1, NextTyped DEF HoldingTodo, FreeTodo
  <2>4. Shaped(n)
    BY <1>1, <2>1 DEF Shaped, HoldingTodo, FreeTodo, UnderWay
  <2> QED
    BY <1>2, <1>7, <2>2, <2>3, <2>4 DEF InsertDispute
<1>8. CASE SavePayment(w)
  <2>1. j.todo \in {<<"save">>, <<"save", "processed">>}
    BY <1>1, <1>8 DEF SavePayment, Shaped, HoldingTodo, FreeTodo
  <2>2. payment' \in [Ids -> Payment \union {Missing}]
    BY <1>1, <1>8 DEF SavePayment
  <2>3. CASE j.todo = <<"save">>
    BY <1>3, <1>8, <2>2, <2>3 DEF SavePayment
  <2>4. CASE j.todo = <<"save", "processed">>
    <3> DEFINE n == [[j EXCEPT !.holds = FALSE] EXCEPT !.todo = <<"processed">>]
    <3>1. job' = [job EXCEPT ![w] = n]
      BY <1>8, <2>4 DEF SavePayment
    <3>2. n \in UnderWay
      BY <1>1, NextTyped DEF FreeTodo
    <3>3. Shaped(n)
      BY <1>1 DEF Shaped, FreeTodo, UnderWay
    <3> QED
      BY <1>2, <1>8, <2>2, <3>1, <3>2, <3>3 DEF SavePayment
  <2> QED
    BY <2>1, <2>3, <2>4
<1>9. CASE SaveWebhook(w)
  <2>1. PICK outcome \in {"processed", "failed"} : Runs(w, outcome) /\ Advance(w)
    BY <1>9 DEF SaveWebhook
  <2>2. j.todo = <<"processed">> \/ j.todo = <<"failed">>
    BY <1>1, <2>1 DEF Shaped, HoldingTodo, FreeTodo
  <2>3. Tail(j.todo) = << >>
    <3>1. CASE j.todo = <<"processed">>
      BY <3>1
    <3>2. CASE j.todo = <<"failed">>
      BY <3>2
    <3> QED
      BY <2>2, <3>1, <3>2
  <2>4. job' = [job EXCEPT ![w] = << >>]
    BY <2>1, <2>3
  <2> QED
    BY <1>3, <1>9, <2>4 DEF SaveWebhook
<1>10. CASE SaveSubscription(w)
  <2>1. j.todo = <<"subscription">> /\ j.status \in SubscriptionStatus
    BY <1>1, <1>10 DEF SaveSubscription, Shaped, HoldingTodo, FreeTodo, UnderWay
  <2>2. job' = [job EXCEPT ![w] = << >>]
    BY <1>10, <2>1 DEF SaveSubscription
  <2> QED
    BY <1>3, <1>10, <2>1, <2>2 DEF SaveSubscription
<1>11. CASE Crash(w)
  BY <1>3, <1>11 DEF Crash
<1> QED
  BY <1>4, <1>5, <1>6, <1>7, <1>8, <1>9, <1>10, <1>11 DEF Execute

-----------------------------------------------------------------------------
(* Steps of a request and its payment.  In each lemma w goes from job[w] to j *)
(* and the other requests stay as they are.                                   *)

LEMMA OthersHold ==
  ASSUME RowsTyped, NEW w \in Workers, NEW j, job' = [job EXCEPT ![w] = j]
  PROVE  /\ \A v \in Workers \ {w} : job'[v] = job[v]
         /\ \A v \in Workers \ {w} : \A p : Holds(v, p)' <=> Holds(v, p)
         /\ job'[w] = j
         /\ \A p : Holds(w, p)' <=> j # << >> /\ j.holds /\ j.id = p
BY DEF RowsTyped, Holds, Busy

\* w holds nothing, before and after.
LEMMA FreeKeeps ==
  ASSUME RefundInv, RowsTyped', NEW w \in Workers, NEW j, job' = [job EXCEPT ![w] = j],
         \A p : ~Holds(w, p),
         j # << >> => ~j.holds /\ (j.todo = <<"refund">> => j.id \in apart'),
         UNCHANGED <<payment, requested, fresh>>,
         disturbed \subseteq disturbed', apart \subseteq apart'
  PROVE  RefundInv'
<1> USE OthersHold DEF RefundInv
<1>1. \A v \in Workers, p \in Ids : Holds(v, p)' <=> Holds(v, p)
  OBVIOUS
<1>2. \A p \in Ids : Clean(p)' => Clean(p)
  BY DEF Clean
<1>3. \A p : Exists(p)' <=> Exists(p)
  BY DEF Exists
<1>4. FreshUntouched'
  BY <1>1, <1>3 DEF FreshUntouched
<1>5. Alone'
  <2>1. \A p \in Ids : Clean(p)' => \A v \in Workers : Busy(v)' /\ job'[v].todo = <<"refund">> => job'[v].id # p
    BY <1>2 DEF Alone, Clean, Busy
  <2> QED
    BY <1>1, <1>2, <2>1 DEF Alone
<1>6. RestAgrees'
  BY <1>1, <1>2, <1>3 DEF RestAgrees
<1>7. CopyAgrees'
  BY <1>1, <1>2, <1>3 DEF CopyAgrees
<1>8. ReadAgrees'
  BY <1>1, <1>2 DEF ReadAgrees
<1> QED
  BY <1>4, <1>5, <1>6, <1>7, <1>8

\* w begins to hold p, which disturbs it if another holds it already.
LEMMA HoldKeeps ==
  ASSUME RefundInv, RowsTyped', NEW w \in Workers, NEW j, job' = [job EXCEPT ![w] = j],
         NEW p \in Ids, Exists(p), \A q : ~Holds(w, q), j # << >>, j.holds, j.id = p,
         UNCHANGED <<payment, requested, fresh, apart>>,
         disturbed' = disturbed \union {q \in {p} : Held(q)},
         payment[p].refunded = requested[p] =>
           \/ j.event \in Outside /\ j.todo \in LastTodo
           \/ j.todo = <<"refund", "save">> /\ j.copy.refunded = requested[p] + j.amount
           \/ j.todo # <<"refund", "save">> /\ j.copy.refunded = requested[p]
  PROVE  RefundInv'
<1> USE DEF RefundInv
<1>0. /\ \A v \in Workers \ {w} : job'[v] = job[v]
      /\ \A v \in Workers \ {w} : \A q : Holds(v, q)' <=> Holds(v, q)
      /\ job'[w] = j
      /\ \A q : Holds(w, q)' <=> q = p
  BY OthersHold
<1>1. \A q \in Ids \ {p} : \A v \in Workers : Holds(v, q)' <=> Holds(v, q)
  BY <1>0
<1>2. \A q \in Ids : Clean(q)' => Clean(q)
  BY DEF Clean
<1>3. \A q : Exists(q)' <=> Exists(q)
  BY DEF Exists
<1>4. Clean(p)' => \A v \in Workers : ~Holds(v, p)
  BY DEF Clean, Held, Holds
<1>5. FreshUntouched'
  BY <1>1, <1>3 DEF FreshUntouched
<1>6. Alone'
  <2>1. j.todo # <<"refund">>
    <3>1. Shaped(j)
      BY <1>0 DEF RowsTyped, Busy, Shaped
    <3>2. j.todo \in HoldingTodo
      BY <3>1 DEF Shaped
    <3> QED
      BY <3>2 DEF HoldingTodo
  <2>2. \A q \in Ids : Clean(q)' => \A v \in Workers : Busy(v)' /\ job'[v].todo = <<"refund">> => job'[v].id # q
    BY <1>0, <1>2, <2>1 DEF Alone, Busy
  <2>3. \A q \in Ids \ {p} : Clean(q)' => \A u, v \in Workers : Holds(u, q)' /\ Holds(v, q)' => u = v
    BY <1>1, <1>2 DEF Alone
  <2>4. Clean(p)' => \A u, v \in Workers : Holds(u, p)' /\ Holds(v, p)' => u = v
    BY <1>0, <1>4
  <2> QED
    BY <2>2, <2>3, <2>4 DEF Alone
<1>7. RestAgrees'
  <2>1. Holds(w, p)'
    BY <1>0
  <2> QED
    BY <1>1, <1>2, <1>3, <2>1 DEF RestAgrees
<1>8. CopyAgrees'
  <2>1. ASSUME NEW q \in Ids \ {p}, NEW v \in Workers, Clean(q)', Holds(v, q)'
        PROVE  v # w /\ job'[v] = job[v] /\ Clean(q) /\ Holds(v, q)
    BY <1>0, <1>1, <1>2, <2>1
  <2>2. ASSUME NEW v \in Workers, Clean(p)', Holds(v, p)'
        PROVE  v = w /\ payment[p].refunded = requested[p]
    BY <1>0, <1>2, <1>4, <2>2 DEF RestAgrees
  <2>3. ASSUME NEW q \in Ids, NEW v \in Workers, Clean(q)', Holds(v, q)'
        PROVE  /\ Exists(q)'
               /\ \/ job'[v].event \in Outside /\ job'[v].todo \in LastTodo
                  \/ /\ job'[v].todo = <<"refund", "save">>
                     /\ job'[v].copy.refunded = requested[q] + job'[v].amount
                  \/ /\ job'[v].todo # <<"refund", "save">>
                     /\ job'[v].copy.refunded = requested[q]
    <3>1. CASE q = p
      BY <1>0, <1>3, <2>2, <2>3, <3>1
    <3>2. CASE q # p
      BY <1>3, <2>1, <2>3, <3>2 DEF CopyAgrees
    <3> QED
      BY <3>1, <3>2
  <2> QED
    BY <2>3 DEF CopyAgrees
<1>9. ReadAgrees'
  <2>1. ASSUME NEW q \in Ids, NEW v \in Workers, Clean(q)', Holds(v, q)',
               job'[v].todo = <<"dispute", "save", "processed">>
        PROVE  payment[q].refunded = requested[q]
    <3>1. CASE q = p
      BY <1>2, <1>3, <1>4, <2>1, <3>1 DEF RestAgrees
    <3>2. CASE q # p
      BY <1>0, <1>1, <1>2, <2>1, <3>2 DEF ReadAgrees
    <3> QED
      BY <3>1, <3>2
  <2> QED
    BY <2>1 DEF ReadAgrees
<1> QED
  BY <1>5, <1>6, <1>7, <1>8, <1>9

\* w lets go of p, which is not clean any more, or agrees with its Refund rows.
LEMMA DropKeeps ==
  ASSUME RefundInv, RowsTyped', NEW w \in Workers, NEW j, job' = [job EXCEPT ![w] = j],
         NEW p \in Ids, Holds(w, p), Clean(p)' => payment[p].refunded = requested[p],
         j # << >> => ~j.holds /\ j.todo # <<"refund">>,
         UNCHANGED <<payment, requested, fresh>>,
         disturbed \subseteq disturbed', apart \subseteq apart'
  PROVE  RefundInv'
<1> USE DEF RefundInv
<1>0. /\ \A v \in Workers \ {w} : job'[v] = job[v]
      /\ \A v \in Workers \ {w} : \A q : Holds(v, q)' <=> Holds(v, q)
      /\ job'[w] = j
      /\ \A q : ~Holds(w, q)' /\ (q # p => ~Holds(w, q))
  <2>1. /\ \A v \in Workers \ {w} : job'[v] = job[v]
        /\ \A v \in Workers \ {w} : \A q : Holds(v, q)' <=> Holds(v, q)
        /\ job'[w] = j
        /\ \A q : ~Holds(w, q)'
    BY OthersHold
  <2> QED
    BY <2>1 DEF Holds
<1>1. \A q \in Ids : Clean(q)' => Clean(q)
  BY DEF Clean
<1>2. \A q : Exists(q)' <=> Exists(q)
  BY DEF Exists
<1>3. \A q \in Ids \ {p} : \A v \in Workers : Holds(v, q)' <=> Holds(v, q)
  BY <1>0
<1>4. FreshUntouched'
  BY <1>0, <1>2 DEF FreshUntouched
<1>5. Alone'
  <2>1. \A q \in Ids : Clean(q)' => \A v \in Workers : Busy(v)' /\ job'[v].todo = <<"refund">> => job'[v].id # q
    BY <1>0, <1>1 DEF Alone, Busy
  <2> QED
    BY <1>0, <1>1, <2>1 DEF Alone
<1>6. RestAgrees'
  BY <1>1, <1>2, <1>3 DEF RestAgrees
<1>7. ASSUME NEW q \in Ids, NEW v \in Workers, Clean(q)', Holds(v, q)'
      PROVE  Clean(q) /\ Holds(v, q) /\ Exists(q)' /\ job'[v] = job[v]
  BY <1>0, <1>1, <1>2, <1>7 DEF CopyAgrees
<1>8. CopyAgrees' /\ ReadAgrees'
  BY <1>7 DEF CopyAgrees, ReadAgrees
<1> QED
  BY <1>4, <1>5, <1>6, <1>8

\* w goes on with what it holds: its Refund row is inserted, or nothing is.
LEMMA GoesOnKeeps ==
  ASSUME RefundInv, RowsTyped', NEW w \in Workers, NEW j, job' = [job EXCEPT ![w] = j],
         NEW p \in Ids, Holds(w, p), Exists(p), j # << >>, j.holds, j.id = p, j.todo \in LastTodo,
         j.copy = job[w].copy,
         j.event = job[w].event, job[w].todo \notin LastTodo,
         NEW n \in Int, requested' = [requested EXCEPT ![p] = @ + n],
         job[w].todo = <<"refund", "save">> => n = job[w].amount,
         job[w].todo # <<"refund", "save">> => n = 0,
         UNCHANGED <<payment, fresh, disturbed, apart>>
  PROVE  RefundInv'
<1> USE DEF RefundInv
<1>0. /\ \A v \in Workers \ {w} : job'[v] = job[v]
      /\ \A v \in Workers : \A q : Holds(v, q)' <=> Holds(v, q)
      /\ job'[w] = j
  <2>1. /\ \A v \in Workers \ {w} : job'[v] = job[v]
        /\ \A v \in Workers \ {w} : \A q : Holds(v, q)' <=> Holds(v, q)
        /\ job'[w] = j
        /\ \A q : Holds(w, q)' <=> j # << >> /\ j.holds /\ j.id = q
    BY OthersHold
  <2>2. \A q : Holds(w, q)' <=> Holds(w, q)
    BY <2>1 DEF Holds
  <2> QED
    BY <2>1, <2>2
<1>1. \A q : (Clean(q)' <=> Clean(q)) /\ (Exists(q)' <=> Exists(q))
  BY DEF Clean, Exists
<1>2. \A q \in Ids \ {p} : requested'[q] = requested[q]
  BY DEF RowsTyped
<1>3. requested'[p] = requested[p] + n /\ requested[p] \in Int
  BY DEF RowsTyped
<1>4. FreshUntouched'
  BY <1>0, <1>1, <1>2 DEF FreshUntouched
<1>5. Alone'
  BY <1>0, <1>1 DEF Alone, Busy, LastTodo
<1>6. RestAgrees'
  BY <1>0, <1>1, <1>2 DEF RestAgrees
<1>7. CopyAgrees'
  <2>1. ASSUME NEW q \in Ids, NEW v \in Workers, Clean(q)', Holds(v, q)'
        PROVE  /\ Exists(q)'
               /\ \/ job'[v].event \in Outside /\ job'[v].todo \in LastTodo
                  \/ /\ job'[v].todo = <<"refund", "save">>
                     /\ job'[v].copy.refunded = requested'[q] + job'[v].amount
                  \/ /\ job'[v].todo # <<"refund", "save">>
                     /\ job'[v].copy.refunded = requested'[q]
    <3>1. CASE v = w
      <4>1. q = p
        BY <1>0, <2>1, <3>1 DEF Holds
      <4>2. j.copy.refunded = requested'[p]
        BY <1>0, <1>1, <1>3, <2>1, <3>1, <4>1 DEF CopyAgrees
      <4> QED
        BY <1>0, <1>1, <3>1, <4>1, <4>2 DEF LastTodo
    <3>2. CASE v # w
      <4>1. q # p
        BY <1>0, <1>1, <2>1, <3>2 DEF Alone
      <4> QED
        BY <1>0, <1>1, <1>2, <2>1, <3>2, <4>1 DEF CopyAgrees
    <3> QED
      BY <3>1, <3>2
  <2> QED
    BY <2>1 DEF CopyAgrees
<1>8. ReadAgrees'
  <2>1. ASSUME NEW q \in Ids, NEW v \in Workers, Clean(q)', Holds(v, q)',
               job'[v].todo = <<"dispute", "save", "processed">>
        PROVE  q # p /\ v # w
    BY <1>0, <1>1, <2>1 DEF Alone, LastTodo, Holds
  <2> QED
    BY <1>0, <1>1, <1>2, <2>1 DEF ReadAgrees
<1> QED
  BY <1>4, <1>5, <1>6, <1>7, <1>8

-----------------------------------------------------------------------------
(* The requests and their statements keep the invariant. *)

LEMMA RequestKeeps ==
  ASSUME RefundInv, NEW w \in Workers, NEW p \in Ids, Request(w, p)
  PROVE  RefundInv'
<1> USE DEF RefundInv
<1>1. RowsTyped' /\ ~Busy(w) /\ \A q : ~Holds(w, q)
  BY RequestsTyped DEF Request, UpdatePayment, RequestRefund, ListRefund, ChangeSubscription,
     AdminForm, ReceiveWebhook, Start, Holds
<1>2. CASE UpdatePayment(w, p)
  <2>1. PICK s \in Patched :
          Start(w, Task(<<"save">>, p, TRUE, [payment[p] EXCEPT !.status = s], 0))
    BY <1>2 DEF UpdatePayment
  <2> DEFINE t == Task(<<"save">>, p, TRUE, [payment[p] EXCEPT !.status = s], 0)
  <2>2. payment[p] \in Payment
    BY <1>2 DEF UpdatePayment, Exists, RowsTyped
  <2>3. t # << >> /\ t.holds /\ t.id = p /\ t.todo = <<"save">> /\ t.copy.refunded = payment[p].refunded
    BY <2>2 DEF Task, Payment
  <2>4. job' = [job EXCEPT ![w] = t] /\ disturbed' = disturbed \union {q \in {p} : Held(q)}
    BY <2>1, <2>3 DEF Start
  <2>5. Exists(p) /\ UNCHANGED <<payment, requested, fresh, apart>>
    BY <1>2 DEF UpdatePayment
  <2> HIDE DEF t
  <2>6. t.todo # <<"refund", "save">>
    BY <2>3
  <2> QED
    BY <1>1, <2>3, <2>4, <2>5, <2>6, HoldKeeps
<1>3. CASE RequestRefund(w, p)
  <2>1. PICK a \in Amounts \union {0} :
          Start(w, Task(<<"refund", "save">>, p, TRUE,
               WithRefunded(payment[p], payment[p].refunded + Granted(payment[p], a)),
               Granted(payment[p], a)))
    BY <1>3 DEF RequestRefund
  <2> DEFINE t == Task(<<"refund", "save">>, p, TRUE,
                       WithRefunded(payment[p], payment[p].refunded + Granted(payment[p], a)),
                       Granted(payment[p], a))
  <2>2. /\ t # << >> /\ t.holds /\ t.id = p /\ t.todo = <<"refund", "save">>
        /\ t.copy.refunded = payment[p].refunded + t.amount
    BY DEF Task, WithRefunded
  <2>3. job' = [job EXCEPT ![w] = t] /\ disturbed' = disturbed \union {q \in {p} : Held(q)}
    BY <2>1, <2>2 DEF Start
  <2> HIDE DEF t
  <2> QED
    BY <1>1, <1>3, <2>2, <2>3, HoldKeeps DEF RequestRefund
<1>4. ASSUME NEW t, ~t.holds, Start(w, t), t.todo = <<"refund">> => t.id \in apart',
             UNCHANGED <<payment, requested, fresh>>, apart \subseteq apart'
      PROVE  RefundInv'
  <2>1. job' = [job EXCEPT ![w] = t] /\ disturbed \subseteq disturbed'
    BY <1>4 DEF Start
  <2> QED
    BY <1>1, <1>4, <2>1, FreeKeeps
<1>5. CASE ListRefund(w, p)
  <2>1. PICK a \in Amounts : Start(w, Task(<<"refund">>, p, FALSE, NoCopy, a))
    BY <1>5 DEF ListRefund
  <2>2. ~Task(<<"refund">>, p, FALSE, NoCopy, a).holds /\ Task(<<"refund">>, p, FALSE, NoCopy, a).id = p
    BY DEF Task
  <2> QED
    BY <1>4, <1>5, <2>1, <2>2 DEF ListRefund
<1>6. CASE ChangeSubscription(w, p)
  <2>1. PICK s \in {"canceled", subscription} :
          Start(w, [Task(<<"subscription">>, p, FALSE, NoCopy, 0) EXCEPT !.status = s])
    BY <1>6 DEF ChangeSubscription
  <2> DEFINE t == [Task(<<"subscription">>, p, FALSE, NoCopy, 0) EXCEPT !.status = s]
  <2>2. ~t.holds /\ t.todo # <<"refund">>
    BY DEF Task
  <2> QED
    BY <1>4, <1>6, <2>1, <2>2 DEF ChangeSubscription
<1>7. ASSUME NEW h \in Hooks, ReceiveWebhook(w, h, p) PROVE RefundInv'
  <2>1. PICK e \in EventType, a \in Amounts \union {0}, b \in BOOLEAN :
          Start(w, [Task(<<"store", "find", "processed">>, p, FALSE, NoCopy, a)
                      EXCEPT !.event = e, !.hook = h, !.sound = b])
    BY <1>7 DEF ReceiveWebhook
  <2> DEFINE t == [Task(<<"store", "find", "processed">>, p, FALSE, NoCopy, a)
                     EXCEPT !.event = e, !.hook = h, !.sound = b]
  <2>2. ~t.holds /\ t.todo # <<"refund">>
    BY DEF Task
  <2> QED
    BY <1>4, <1>7, <2>1, <2>2 DEF ReceiveWebhook
<1>8. CASE AdminForm(w, p)
  <2>1. PICK s \in Patched, price \in Prices, a \in Amounts :
          Start(w, [Task(<<"save">>, p, TRUE, [status |-> s, amount |-> price, refunded |-> a], 0)
                      EXCEPT !.event = "form"])
    BY <1>8 DEF AdminForm
  <2> DEFINE t == [Task(<<"save">>, p, TRUE, [status |-> s, amount |-> price, refunded |-> a], 0)
                      EXCEPT !.event = "form"]
  <2>2. t # << >> /\ t.holds /\ t.id = p /\ t.todo = <<"save">> /\ t.event = "form"
    BY DEF Task
  <2>3. job' = [job EXCEPT ![w] = t] /\ disturbed' = disturbed \union {q \in {p} : Held(q)}
    BY <2>1, <2>2 DEF Start
  <2>4. Exists(p) /\ UNCHANGED <<payment, requested, fresh, apart>>
    BY <1>8 DEF AdminForm
  <2> HIDE DEF t
  <2>5. t.event \in Outside /\ t.todo \in LastTodo
    BY <2>2 DEF Outside, LastTodo
  <2> QED
    BY <1>1, <2>2, <2>3, <2>4, <2>5, HoldKeeps
<1> QED
  BY <1>2, <1>3, <1>5, <1>6, <1>7, <1>8 DEF Request

LEMMA FindKeeps ==
  ASSUME RefundInv, NEW w \in Workers, FindPayment(w)
  PROVE  RefundInv'
<1> DEFINE j == job[w]
<1> USE DEF RefundInv
<1>1. /\ RowsTyped' /\ j \in UnderWay /\ Shaped(j) /\ j.id \in Ids /\ j.amount \in Int
      /\ j.todo = <<"find", "processed">> /\ ~j.holds /\ j.event \in EventType
      /\ \A q : ~Holds(w, q)
  <2>1. RowsTyped' /\ j \in UnderWay /\ Shaped(j) /\ Head(j.todo) = "find"
    BY StatementsTyped DEF Execute, FindPayment, Runs, RowsTyped, Busy
  <2>2. j.todo = <<"find", "processed">> /\ ~j.holds
    BY <2>1 DEF Shaped, HoldingTodo, FreeTodo
  <2> QED
    BY <2>1, <2>2 DEF Shaped, UnderWay, Holds
<1>2. CASE Exists(j.id) /\ (j.sound \/ j.event # "charge.refunded")
  <2> DEFINE todo == IF j.event = "charge.dispute.created"
                       THEN <<"dispute", "save", "processed">> ELSE <<"save", "processed">>
             copy == Applied(j.event, payment[j.id], j.amount)
             n == [j EXCEPT !.todo = todo, !.holds = TRUE, !.copy = copy]
  <2>1. job' = [job EXCEPT ![w] = n] /\ disturbed' = disturbed \union {q \in {j.id} : Held(q)}
    BY <1>2 DEF FindPayment
  <2>2. j.event = "charge.refunded" \/ copy.refunded = payment[j.id].refunded
    BY <1>1, <1>2, AppliedTyped DEF Exists, RowsTyped
  <2>3. /\ n # << >> /\ n.holds /\ n.id = j.id /\ n.event = j.event /\ n.copy = copy
        /\ n.todo # <<"refund", "save">>
        /\ j.event = "charge.refunded" => n.todo = <<"save", "processed">>
    <3>1. todo # <<"refund", "save">>
      OBVIOUS
    <3>2. j.event = "charge.refunded" => todo = <<"save", "processed">>
      OBVIOUS
    <3> HIDE DEF todo, copy
    <3>3. n.holds /\ n.id = j.id /\ n.event = j.event /\ n.copy = copy /\ n.todo = todo
      BY <1>1 DEF UnderWay
    <3>4. n # << >>
      <4>1. "id" \in DOMAIN n
        BY <1>1 DEF UnderWay
      <4> HIDE DEF n
      <4> QED
        BY <4>1
    <3> QED
      BY <3>1, <3>2, <3>3, <3>4
  <2> HIDE DEF n, copy
  <2> QED
    BY <1>1, <1>2, <2>1, <2>2, <2>3, HoldKeeps DEF FindPayment, Outside, LastTodo
<1>3. CASE ~(Exists(j.id) /\ (j.sound \/ j.event # "charge.refunded"))
  <2> DEFINE n == [j EXCEPT !.todo = IF Exists(j.id) THEN <<"failed">> ELSE <<"processed">>]
  <2>1. job' = [job EXCEPT ![w] = n] /\ disturbed' = disturbed
    BY <1>3 DEF FindPayment
  <2>2. ~n.holds /\ n.todo # <<"refund">>
    BY <1>1 DEF UnderWay
  <2> HIDE DEF n
  <2> QED
    BY <1>1, <2>1, <2>2, FreeKeeps DEF FindPayment
<1> QED
  BY <1>2, <1>3

\* A Refund row is inserted, or its payment is gone.
LEMMA InsertRefundKeeps ==
  ASSUME RefundInv, NEW w \in Workers, InsertRefund(w)
  PROVE  RefundInv'
<1> DEFINE j == job[w]
<1> USE DEF RefundInv
<1>1. /\ RowsTyped' /\ j \in UnderWay /\ Shaped(j) /\ j.id \in Ids /\ j.amount \in Int /\ Busy(w)
      /\ (j.todo = <<"refund", "save">> /\ j.holds) \/ (j.todo = <<"refund">> /\ ~j.holds)
  <2>1. RowsTyped' /\ j \in UnderWay /\ Shaped(j) /\ Head(j.todo) = "refund" /\ Busy(w)
    BY StatementsTyped DEF Execute, InsertRefund, Runs, RowsTyped, Busy
  <2>2. (j.todo = <<"refund", "save">> /\ j.holds) \/ (j.todo = <<"refund">> /\ ~j.holds)
    BY <2>1 DEF Shaped, HoldingTodo, FreeTodo
  <2>3. j.id \in Ids /\ j.amount \in Int
    BY <2>1, PaymentConstants DEF UnderWay
  <2> QED
    BY <2>1, <2>2, <2>3
<1>2. CASE j.holds /\ Exists(j.id)
  <2> DEFINE n == [j EXCEPT !.todo = <<"save">>]
  <2>1. job' = [job EXCEPT ![w] = n] /\ requested' = [requested EXCEPT ![j.id] = @ + j.amount]
    <3>1. j.todo = <<"refund", "save">>
      BY <1>1, <1>2
    <3>2. Tail(j.todo) = <<"save">>
      BY <3>1
    <3>3. Tail(j.todo) # << >>
      BY <3>2
    <3> QED
      BY <1>2, <3>2, <3>3 DEF InsertRefund, Advance, Finished
  <2>2. n.holds /\ n.id = j.id /\ n.event = j.event /\ n.copy = j.copy /\ n.todo = <<"save">>
    BY <1>1, <1>2 DEF UnderWay
  <2>3. n # << >>
    <3>1. "id" \in DOMAIN n
      BY <1>1 DEF UnderWay
    <3> HIDE DEF n
    <3> QED
      BY <3>1
  <2> HIDE DEF n
  <2>4. n.todo \in LastTodo
    BY <2>2 DEF LastTodo
  <2>5. j.todo \notin LastTodo /\ j.todo = <<"refund", "save">>
    BY <1>1, <1>2 DEF LastTodo
  <2>6. Holds(w, j.id) /\ UNCHANGED <<payment, fresh, disturbed, apart>>
    BY <1>1, <1>2 DEF Holds, InsertRefund
  <2> QED
    BY <1>1, <1>2, <2>1, <2>2, <2>3, <2>4, <2>5, <2>6, GoesOnKeeps
<1>3. CASE j.holds /\ ~Exists(j.id)
  <2>1. job' = [job EXCEPT ![w] = << >>] /\ Holds(w, j.id)
        /\ UNCHANGED <<payment, requested, fresh, disturbed, apart>>
    BY <1>1, <1>3 DEF InsertRefund, Holds
  <2>2. ~Clean(j.id)
    BY <1>1, <1>3, <2>1 DEF CopyAgrees
  <2>3. PICK p \in Ids : p = j.id
    BY <1>1
  <2>4. ~Clean(p)' /\ Holds(w, p)
    BY <2>1, <2>2, <2>3 DEF Clean
  <2> QED
    BY <1>1, <2>1, <2>4, DropKeeps
<1>4. CASE ~j.holds
  <2>1. job' = [job EXCEPT ![w] = << >>] /\ \A q : ~Holds(w, q)
    <3>1. j.todo = <<"refund">>
      BY <1>1, <1>4
    <3>2. Tail(j.todo) = << >>
      BY <3>1
    <3> QED
      BY <1>4, <3>2 DEF InsertRefund, Advance, Finished, Holds
  <2>2. CASE ~Exists(j.id)
    BY <1>1, <2>1, <2>2, FreeKeeps DEF InsertRefund
  <2>3. CASE Exists(j.id)
    <3>1. /\ ~Clean(j.id) /\ j.id \notin fresh
          /\ UNCHANGED <<payment, fresh, disturbed, apart>>
          /\ requested' = [requested EXCEPT ![j.id] = @ + j.amount]
      BY <1>1, <1>4, <2>3 DEF Alone, FreshUntouched, InsertRefund
    <3>2. \A q \in Ids : Clean(q) \/ q \in fresh => requested'[q] = requested[q]
      BY <3>1 DEF RowsTyped
    <3>3. \A q : (Clean(q)' <=> Clean(q)) /\ (Exists(q)' <=> Exists(q))
      BY <3>1 DEF Clean, Exists
    <3>4. /\ \A v \in Workers : \A q : Holds(v, q)' <=> Holds(v, q)
          /\ \A v \in Workers : \A q : Holds(v, q)' => job'[v] = job[v]
          /\ \A v \in Workers : Busy(v)' => job'[v] = job[v] /\ Busy(v)
      BY <2>1 DEF RowsTyped, Holds, Busy
    <3>5. FreshUntouched' /\ Alone'
      BY <3>1, <3>2, <3>3, <3>4 DEF FreshUntouched, Alone
    <3>6. RestAgrees' /\ CopyAgrees' /\ ReadAgrees'
      BY <3>1, <3>2, <3>3, <3>4 DEF RestAgrees, CopyAgrees, ReadAgrees
    <3> QED
      BY <1>1, <3>5, <3>6
  <2> QED
    BY <2>2, <2>3
<1> QED
  BY <1>2, <1>3, <1>4

LEMMA InsertDisputeKeeps ==
  ASSUME RefundInv, NEW w \in Workers, InsertDispute(w)
  PROVE  RefundInv'
<1> DEFINE j == job[w]
<1> USE DEF RefundInv
<1>1. /\ RowsTyped' /\ j \in UnderWay /\ j.id \in Ids /\ Busy(w)
      /\ j.todo = <<"dispute", "save", "processed">> /\ j.holds /\ Holds(w, j.id)
  <2>1. RowsTyped' /\ j \in UnderWay /\ Shaped(j) /\ Head(j.todo) = "dispute" /\ Busy(w)
    BY StatementsTyped DEF Execute, InsertDispute, Runs, RowsTyped, Busy
  <2>2. j.todo = <<"dispute", "save", "processed">> /\ j.holds
    BY <2>1 DEF Shaped, HoldingTodo, FreeTodo
  <2> QED
    BY <2>1, <2>2 DEF UnderWay, Holds
<1>2. CASE Exists(j.id) /\ j.sound
  <2> DEFINE n == [j EXCEPT !.todo = <<"save", "processed">>]
  <2>1. job' = [job EXCEPT ![w] = n]
    BY <1>1, <1>2 DEF InsertDispute, Advance, Finished
  <2>2. n.holds /\ n.id = j.id /\ n.event = j.event /\ n.copy = j.copy
        /\ n.todo = <<"save", "processed">>
    BY <1>1 DEF UnderWay
  <2>3. n # << >>
    <3>1. "id" \in DOMAIN n
      BY <1>1 DEF UnderWay
    <3> HIDE DEF n
    <3> QED
      BY <3>1
  <2> HIDE DEF n
  <2>4. n.todo \in LastTodo
    BY <2>2 DEF LastTodo
  <2>5. j.todo \notin LastTodo /\ j.todo # <<"refund", "save">>
    BY <1>1 DEF LastTodo
  <2>6. UNCHANGED <<payment, fresh, disturbed, apart, requested>>
    BY <1>2 DEF InsertDispute
  <2>7. requested' = [requested EXCEPT ![j.id] = @ + 0]
    BY <1>1, <2>6 DEF RowsTyped
  <2>8. Exists(j.id) /\ 0 \in Int
    BY <1>2
  <2> QED
    BY <1>1, <2>1, <2>2, <2>3, <2>4, <2>5, <2>6, <2>7, <2>8, GoesOnKeeps
<1>3. CASE ~(Exists(j.id) /\ j.sound)
  <2> DEFINE n == [j EXCEPT !.todo = <<"failed">>, !.holds = FALSE]
  <2>1. job' = [job EXCEPT ![w] = n]
        /\ UNCHANGED <<payment, requested, fresh, disturbed, apart>>
    BY <1>3 DEF InsertDispute
  <2>2. ~n.holds /\ n.todo # <<"refund">>
    BY <1>1 DEF UnderWay
  <2>3. PICK p \in Ids : p = j.id
    BY <1>1
  <2>4. Clean(p)' => payment[p].refunded = requested[p]
    BY <1>1, <2>1, <2>3 DEF ReadAgrees, Clean
  <2> HIDE DEF n
  <2> QED
    BY <1>1, <2>1, <2>2, <2>3, <2>4, DropKeeps
<1> QED
  BY <1>2, <1>3

\* The holder writes its copy and lets go.
LEMMA SaveKeeps ==
  ASSUME RefundInv, NEW w \in Workers, SavePayment(w)
  PROVE  RefundInv'
<1> USE DEF RefundInv
<1>0. PICK p \in Ids : p = job[w].id
  BY DEF SavePayment, Runs, RowsTyped, UnderWay, Busy
<1> DEFINE j == job[w]
<1>1. /\ RowsTyped' /\ j \in UnderWay /\ Holds(w, p) /\ j.copy \in Payment
      /\ j.todo = <<"save">> \/ j.todo = <<"save", "processed">>
  <2>1. RowsTyped' /\ j \in UnderWay /\ Shaped(j) /\ Head(j.todo) = "save" /\ Busy(w)
    BY StatementsTyped DEF Execute, SavePayment, Runs, RowsTyped, Busy
  <2>2. (j.todo = <<"save">> \/ j.todo = <<"save", "processed">>) /\ j.holds
    BY <2>1 DEF Shaped, HoldingTodo, FreeTodo
  <2> QED
    BY <1>0, <2>1, <2>2 DEF UnderWay, Holds
<1>2. PICK n : job' = [job EXCEPT ![w] = n] /\ (n # << >> => ~n.holds /\ n.todo # <<"refund">>)
  <2>1. CASE j.todo = <<"save">>
    <3>1. job' = [job EXCEPT ![w] = << >>]
      BY <2>1 DEF SavePayment, Finished
    <3> QED
      BY <3>1
  <2>2. CASE j.todo = <<"save", "processed">>
    <3> DEFINE m == [[j EXCEPT !.holds = FALSE] EXCEPT !.todo = <<"processed">>]
    <3>1. job' = [job EXCEPT ![w] = m]
      BY <2>2 DEF SavePayment, Finished
    <3>2. ~m.holds /\ m.todo # <<"refund">>
      BY <1>1 DEF UnderWay
    <3> QED
      BY <3>1, <3>2
  <2> QED
    BY <1>1, <2>1, <2>2
<1>3. /\ payment' = [payment EXCEPT ![p] = j.copy]
      /\ apart' = IF j.event \in Outside THEN apart \union {p} ELSE apart
      /\ UNCHANGED <<fresh, requested, disturbed>>
  BY <1>0 DEF SavePayment
<1>4. /\ \A v \in Workers \ {w} : job'[v] = job[v]
      /\ \A v \in Workers \ {w} : \A q : Holds(v, q)' <=> Holds(v, q)
      /\ job'[w] = n
      /\ \A q : ~Holds(w, q)' /\ (q # p => ~Holds(w, q))
  <2>1. /\ \A v \in Workers \ {w} : job'[v] = job[v]
        /\ \A v \in Workers \ {w} : \A q : Holds(v, q)' <=> Holds(v, q)
        /\ job'[w] = n
        /\ \A q : Holds(w, q)' <=> n # << >> /\ n.holds /\ n.id = q
    BY <1>2, OthersHold
  <2> QED
    BY <1>1, <1>2, <2>1 DEF Holds
<1>5. /\ \A q \in Ids : Clean(q)' => Clean(q)
      /\ \A q \in Ids \ {p} : payment'[q] = payment[q] /\ (Exists(q)' <=> Exists(q))
      /\ p \notin fresh
  BY <1>1, <1>3 DEF Clean, Exists, RowsTyped, FreshUntouched
<1>6. FreshUntouched'
  BY <1>3, <1>4, <1>5 DEF FreshUntouched
<1>7. Alone'
  <2>1. \A q \in Ids : Clean(q)' => \A v \in Workers : Busy(v)' /\ job'[v].todo = <<"refund">> => job'[v].id # q
    BY <1>2, <1>4, <1>5 DEF Alone, Busy
  <2>2. \A q \in Ids : Clean(q)' => \A u, v \in Workers : Holds(u, q)' /\ Holds(v, q)' => u = v
    BY <1>4, <1>5 DEF Alone
  <2> QED
    BY <2>1, <2>2 DEF Alone
<1>8. RestAgrees'
  <2>1. ASSUME Clean(p)'
        PROVE  payment'[p].refunded = requested'[p]
    <3>1. j.event \notin Outside /\ Clean(p)
      BY <1>3, <1>5, <2>1 DEF Clean
    <3>2. j.todo # <<"refund", "save">>
      BY <1>1
    <3>3. j.copy.refunded = requested[p]
      BY <1>1, <3>1, <3>2 DEF CopyAgrees
    <3>4. payment'[p] = j.copy
      BY <1>3 DEF RowsTyped
    <3> QED
      BY <1>3, <3>3, <3>4
  <2>2. \A q \in Ids \ {p} : \A v \in Workers : Holds(v, q)' <=> Holds(v, q)
    BY <1>4
  <2> QED
    BY <1>3, <1>5, <2>1, <2>2 DEF RestAgrees
<1>9. CopyAgrees' /\ ReadAgrees'
  <2>1. ASSUME NEW q \in Ids, NEW v \in Workers, Clean(q)', Holds(v, q)'
        PROVE  Clean(q) /\ Holds(v, q) /\ Exists(q)' /\ job'[v] = job[v]
    <3>1. v # w /\ Holds(v, q) /\ Clean(q) /\ job'[v] = job[v]
      BY <1>4, <1>5, <2>1
    <3>2. q # p
      BY <1>1, <3>1 DEF Alone
    <3> QED
      BY <1>5, <3>1, <3>2 DEF CopyAgrees
  <2>2. \A q \in Ids, v \in Workers : Clean(q)' /\ Holds(v, q)' => q # p
    BY <1>1, <1>4, <1>5, <2>1 DEF Alone
  <2> QED
    BY <1>3, <1>5, <2>1, <2>2 DEF CopyAgrees, ReadAgrees
<1> QED
  BY <1>1, <1>6, <1>7, <1>8, <1>9

\* The other statements of a request, and its death.
LEMMA OthersKeep ==
  ASSUME RefundInv, NEW w \in Workers,
         StoreWebhook(w) \/ SaveWebhook(w) \/ SaveSubscription(w) \/ Crash(w)
  PROVE  RefundInv'
<1> DEFINE j == job[w]
<1> USE DEF RefundInv
<1>1. RowsTyped' /\ j \in UnderWay /\ Shaped(j) /\ Busy(w)
  BY StatementsTyped DEF Execute, StoreWebhook, SaveWebhook, SaveSubscription, Crash, Runs,
     RowsTyped, Busy
<1>2. CASE StoreWebhook(w) \/ SaveWebhook(w) \/ SaveSubscription(w)
  <2>1. Head(j.todo) \in {"store", "processed", "failed", "subscription"} /\ Advance(w)
        /\ UNCHANGED <<payment, requested, fresh, disturbed, apart>>
    BY <1>2 DEF StoreWebhook, SaveWebhook, SaveSubscription, Runs
  <2>2. ~j.holds /\ (Tail(j.todo) = << >> \/ Tail(j.todo) = <<"find", "processed">>)
    <3>1. j.todo \in {<<"store", "find", "processed">>, <<"processed">>, <<"failed">>, <<"subscription">>}
          /\ ~j.holds
      BY <1>1, <2>1 DEF Shaped, HoldingTodo, FreeTodo
    <3>2. CASE j.todo = <<"store", "find", "processed">>
      BY <3>1, <3>2
    <3>3. CASE j.todo = <<"processed">>
      BY <3>1, <3>3
    <3>4. CASE j.todo = <<"failed">>
      BY <3>1, <3>4
    <3>5. CASE j.todo = <<"subscription">>
      BY <3>1, <3>5
    <3> QED
      BY <3>1, <3>2, <3>3, <3>4, <3>5
  <2>3. \A q : ~Holds(w, q)
    BY <2>2 DEF Holds
  <2>4. CASE Tail(j.todo) = << >>
    <3>1. job' = [job EXCEPT ![w] = << >>]
      BY <2>1, <2>4 DEF Advance, Finished
    <3> QED
      BY <1>1, <2>1, <2>3, <3>1, FreeKeeps
  <2>5. CASE Tail(j.todo) = <<"find", "processed">>
    <3> DEFINE n == [j EXCEPT !.todo = <<"find", "processed">>]
    <3>0. Tail(j.todo) # << >>
      BY <2>5
    <3>1. job' = [job EXCEPT ![w] = n]
      BY <2>1, <2>5, <3>0 DEF Advance, Finished
    <3>2. ~n.holds /\ n.todo # <<"refund">>
      BY <1>1, <2>2 DEF UnderWay
    <3> HIDE DEF n
    <3> QED
      BY <1>1, <2>1, <2>3, <3>1, <3>2, FreeKeeps
  <2> QED
    BY <2>2, <2>4, <2>5
<1>3. CASE Crash(w)
  <2>1. /\ job' = [job EXCEPT ![w] = << >>] /\ UNCHANGED <<payment, requested, fresh, apart>>
        /\ disturbed' = disturbed \union {p \in {j.id} : j.holds}
    BY <1>3 DEF Crash
  <2>2. CASE j.holds
    <3>1. PICK p \in Ids : p = j.id
      BY <1>1 DEF UnderWay
    <3>2. Holds(w, p) /\ ~Clean(p)'
      BY <1>1, <2>1, <2>2, <3>1 DEF Holds, Clean
    <3> QED
      BY <1>1, <2>1, <3>2, DropKeeps
  <2>3. CASE ~j.holds
    <3>1. \A q : ~Holds(w, q)
      BY <2>3 DEF Holds
    <3> QED
      BY <1>1, <2>1, <3>1, FreeKeeps
  <2> QED
    BY <2>2, <2>3
<1> QED
  BY <1>2, <1>3

\* Rows come and go, and the admin marks them or sets columns apart from each other.
LEMMA RowsKeep ==
  ASSUME RefundInv, NEW p \in Ids,
         \/ CreatePayment(p) \/ DestroyPayment(p) \/ AdminMark(p)
         \/ AdminAdd(p) \/ AdminRefund(p)
  PROVE  RefundInv'
<1> USE DEF RefundInv
<1>1. \A v \in Workers : /\ job'[v] = job[v] /\ (Busy(v)' <=> Busy(v))
                         /\ \A q : Holds(v, q)' <=> Holds(v, q)
  BY DEF CreatePayment, DestroyPayment, AdminMark, AdminAdd, AdminRefund, Holds, Busy
<1>2. CASE CreatePayment(p)
  <2>1. PICK price \in Prices : payment' = [payment EXCEPT ![p] = Unborn(price)]
    BY <1>2 DEF CreatePayment
  <2>2. /\ fresh' = fresh \ {p} /\ p \in fresh
        /\ UNCHANGED <<requested, disturbed, apart, subscription, job>>
    BY <1>2 DEF CreatePayment
  <2>3. Unborn(price) \in Payment /\ Unborn(price).refunded = 0
    BY UnbornTyped, PaymentConstants
  <2> DEFINE row == Unborn(price)
  <2> HIDE DEF row
  <2>4. RowsTyped'
    BY <2>1, <2>2, <2>3 DEF RowsTyped, Busy, row
  <2>5. /\ \A q : Clean(q)' <=> Clean(q)
        /\ \A q \in Ids \ {p} : payment'[q] = payment[q] /\ (Exists(q)' <=> Exists(q))
        /\ payment'[p].refunded = 0 /\ requested[p] = 0 /\ \A v \in Workers : ~Holds(v, p)
    BY <2>1, <2>2, <2>3 DEF Clean, Exists, RowsTyped, FreshUntouched
  <2>6. FreshUntouched' /\ Alone'
    BY <1>1, <2>2, <2>5 DEF FreshUntouched, Alone
  <2>7. RestAgrees'
    BY <1>1, <2>2, <2>5 DEF RestAgrees
  <2>8. CopyAgrees' /\ ReadAgrees'
    BY <1>1, <2>2, <2>5 DEF CopyAgrees, ReadAgrees
  <2> QED
    BY <2>4, <2>6, <2>7, <2>8
<1>3. CASE DestroyPayment(p)
  <2>1. RowsTyped'
    BY <1>3 DEF DestroyPayment, RowsTyped, Busy
  <2>2. /\ payment' = [payment EXCEPT ![p] = Missing] /\ requested' = [requested EXCEPT ![p] = 0]
        /\ disturbed' = (IF Held(p) THEN disturbed \union {p} ELSE disturbed)
        /\ UNCHANGED <<fresh, apart>>
    BY <1>3 DEF DestroyPayment
  <2>3. /\ \A q : Clean(q)' => Clean(q)
        /\ \A q \in Ids \ {p} : /\ payment'[q] = payment[q] /\ (Exists(q)' <=> Exists(q))
                               /\ requested'[q] = requested[q]
        /\ ~Exists(p)' /\ requested'[p] = 0
        /\ Clean(p)' => \A v \in Workers : ~Holds(v, p)
    BY <2>2 DEF Clean, Exists, RowsTyped, Held, Holds
  <2>4. FreshUntouched' /\ Alone'
    BY <1>1, <2>2, <2>3 DEF FreshUntouched, Alone
  <2>5. RestAgrees'
    BY <1>1, <2>3 DEF RestAgrees
  <2>6. CopyAgrees' /\ ReadAgrees'
    BY <1>1, <2>3 DEF CopyAgrees, ReadAgrees
  <2> QED
    BY <2>1, <2>4, <2>5, <2>6
<1>4. CASE AdminMark(p)
  <2>1. PICK s \in {"succeeded", "failed", "refunded"} : payment' = [payment EXCEPT ![p].status = s]
    BY <1>4 DEF AdminMark
  <2>2. \A row \in Payment : /\ [row EXCEPT !.status = s] \in Payment
                             /\ [row EXCEPT !.status = s].refunded = row.refunded
    BY StatusTyped DEF PaymentStatus
  <2>3. payment[p] \in Payment /\ UNCHANGED <<requested, disturbed, apart, fresh, subscription, job>>
    BY <1>4 DEF AdminMark, Exists, RowsTyped
  <2>4. payment'[p] = [payment[p] EXCEPT !.status = s]
    BY <2>1 DEF RowsTyped
  <2>5. /\ \A q : Clean(q)' <=> Clean(q)
        /\ \A q \in Ids \ {p} : payment'[q] = payment[q]
        /\ payment'[p] \in Payment /\ payment'[p].refunded = payment[p].refunded
    BY <2>1, <2>2, <2>3, <2>4 DEF Clean, RowsTyped
  <2>6. \A q \in Ids : Exists(q)' <=> Exists(q)
    BY <2>3, <2>5, PaymentConstants DEF Exists, Payment
  <2>7. RowsTyped'
    BY <2>1, <2>3, <2>5 DEF RowsTyped, Busy
  <2>8. FreshUntouched' /\ Alone'
    BY <1>1, <2>3, <2>5, <2>6 DEF FreshUntouched, Alone
  <2>9. RestAgrees'
    BY <1>1, <2>3, <2>5, <2>6 DEF RestAgrees
  <2>10. CopyAgrees' /\ ReadAgrees'
    BY <1>1, <2>3, <2>5, <2>6 DEF CopyAgrees, ReadAgrees
  <2> QED
    BY <2>7, <2>8, <2>9, <2>10
<1>5. CASE AdminAdd(p) \/ AdminRefund(p)
  <2>1. /\ apart' = apart \union {p} /\ UNCHANGED <<disturbed, subscription, job>>
        /\ fresh' \subseteq fresh \ {p}
        /\ \A q \in Ids \ {p} : payment'[q] = payment[q] /\ requested'[q] = requested[q]
    <3>1. p \notin fresh \/ AdminAdd(p)
      BY <1>5 DEF AdminRefund, FreshUntouched
    <3> QED
      BY <1>5, <3>1 DEF AdminAdd, AdminRefund, RowsTyped
  <2>2. RowsTyped'
    <3>1. CASE AdminAdd(p)
      <4>1. PICK s \in Patched, price \in Prices, a \in Amounts :
              payment' = [payment EXCEPT ![p] = [status |-> s, amount |-> price, refunded |-> a]]
        BY <3>1 DEF AdminAdd
      <4> QED
        BY <3>1, <4>1, FormTyped DEF AdminAdd, RowsTyped, Busy
    <3>2. CASE AdminRefund(p)
      <4>1. PICK a \in Amounts : requested' = [requested EXCEPT ![p] = @ + a]
        BY <3>2 DEF AdminRefund
      <4> QED
        BY <3>2, <4>1, PaymentConstants DEF AdminRefund, RowsTyped, Busy
    <3> QED
      BY <1>5, <3>1, <3>2
  <2>3. \A q \in Ids : /\ Clean(q)' => q # p /\ Clean(q)
                       /\ q # p => (Exists(q)' <=> Exists(q))
    BY <2>1 DEF Clean, Exists
  <2>4. FreshUntouched' /\ Alone'
    BY <1>1, <2>1, <2>3 DEF FreshUntouched, Alone
  <2>5. RestAgrees' /\ CopyAgrees' /\ ReadAgrees'
    BY <1>1, <2>1, <2>3 DEF RestAgrees, CopyAgrees, ReadAgrees
  <2> QED
    BY <2>2, <2>4, <2>5
<1> QED
  BY <1>2, <1>3, <1>4, <1>5

-----------------------------------------------------------------------------
\* RefundInv is inductive.
THEOREM RefundInvariance == Spec => []RefundInv
<1>1. Init => RefundInv
  BY DEF Init, RefundInv, RowsTyped, FreshUntouched, Alone, RestAgrees, CopyAgrees,
     ReadAgrees, Holds, Busy, Exists, SubscriptionStatus
<1>2. RefundInv /\ [Next]_vars => RefundInv'
  <2> SUFFICES ASSUME RefundInv, [Next]_vars PROVE RefundInv'
    OBVIOUS
  <2>1. ASSUME NEW w \in Workers, Execute(w) \/ Crash(w) PROVE RefundInv'
    BY <2>1, FindKeeps, InsertRefundKeeps, InsertDisputeKeeps, SaveKeeps, OthersKeep DEF Execute
  <2>2. CASE UNCHANGED vars
    BY <2>2 DEF vars, RefundInv, RowsTyped, FreshUntouched, Alone, RestAgrees, CopyAgrees,
       ReadAgrees, Holds, Busy, Exists, Clean
  <2> QED
    BY <2>1, <2>2, RequestKeeps, RowsKeep DEF Next
<1> QED
  BY <1>1, <1>2, PTL DEF Spec

\* Only a form or the word of a webhook exceeds the amount of a payment, in its row or in
\* a copy that is about to be written.
Restrained ==
  \A p \in Ids \ overstated :
    /\ Exists(p) => payment[p].refunded <= payment[p].amount
    /\ \A w \in Workers : Holds(w, p) /\ job[w].event \notin Outside =>
         job[w].copy.refunded <= job[w].copy.amount

\* A request that holds no more than its payment had when it was read, or keeps what it held.
LEMMA CopiesRestrained ==
  ASSUME RowsTyped, Restrained, NEW w \in Workers, NEW j, job' = [job EXCEPT ![w] = j],
         UNCHANGED <<payment, overstated>>,
         j # << >> /\ j.holds /\ j.event \notin Outside /\ j.id \in Ids \ overstated =>
           j.copy.refunded <= j.copy.amount
  PROVE  Restrained'
<1>1. /\ \A v \in Workers \ {w} : job'[v] = job[v]
      /\ \A v \in Workers \ {w} : \A q : Holds(v, q)' <=> Holds(v, q)
      /\ job'[w] = j
      /\ \A q : Holds(w, q)' <=> j # << >> /\ j.holds /\ j.id = q
  BY OthersHold
<1>2. \A q : Exists(q)' <=> Exists(q)
  BY DEF Exists
<1> QED
  BY <1>1, <1>2 DEF Restrained

LEMMA RequestsRestrained ==
  ASSUME RowsTyped, Restrained, NEW w \in Workers, NEW p \in Ids, Request(w, p)
  PROVE  Restrained'
<1>1. UNCHANGED <<payment, overstated>>
  BY DEF Request, UpdatePayment, RequestRefund, ListRefund, ChangeSubscription, AdminForm,
     ReceiveWebhook
<1>2. CASE UpdatePayment(w, p)
  <2>1. PICK s \in Patched :
          Start(w, Task(<<"save">>, p, TRUE, [payment[p] EXCEPT !.status = s], 0))
    BY <1>2 DEF UpdatePayment
  <2> DEFINE row == [payment[p] EXCEPT !.status = s]
             t == Task(<<"save">>, p, TRUE, row, 0)
  <2>2. row.refunded = payment[p].refunded /\ row.amount = payment[p].amount /\ Exists(p)
    BY <1>2, StatusTyped DEF UpdatePayment, Exists, RowsTyped, Patched, PaymentStatus
  <2>3. t.copy = row /\ t.id = p /\ job' = [job EXCEPT ![w] = t]
    BY <2>1 DEF Task, Start
  <2> HIDE DEF t, row
  <2>4. p \in Ids \ overstated => payment[p].refunded <= payment[p].amount
    BY <2>2 DEF Restrained
  <2> QED
    BY <1>1, <2>2, <2>3, <2>4, CopiesRestrained
<1>3. CASE RequestRefund(w, p)
  <2>1. PICK a \in Amounts \union {0} :
          /\ a # 0 => a <= Refundable(payment[p])
          /\ Start(w, Task(<<"refund", "save">>, p, TRUE,
               WithRefunded(payment[p], payment[p].refunded + Granted(payment[p], a)),
               Granted(payment[p], a)))
    BY <1>3 DEF RequestRefund
  <2> DEFINE g == Granted(payment[p], a)
             row == WithRefunded(payment[p], payment[p].refunded + g)
             t == Task(<<"refund", "save">>, p, TRUE, row, g)
  <2>2. payment[p].refunded \in Int /\ payment[p].amount \in Nat /\ a \in Int
    BY <1>3, PaymentConstants DEF RequestRefund, Exists, RowsTyped, Payment
  <2>3. g \in Int /\ payment[p].refunded + g <= payment[p].amount
    BY <2>1, <2>2 DEF Granted, Refundable
  <2>4. row.refunded = payment[p].refunded + g /\ row.amount = payment[p].amount
    BY DEF WithRefunded
  <2>5. t.copy = row /\ job' = [job EXCEPT ![w] = t]
    BY <2>1 DEF Task, Start
  <2> HIDE DEF t, row
  <2> QED
    BY <1>1, <2>3, <2>4, <2>5, CopiesRestrained
<1>4. ASSUME NEW t, ~t.holds \/ t.event \in Outside, Start(w, t) PROVE Restrained'
  <2>1. job' = [job EXCEPT ![w] = t]
    BY <1>4 DEF Start
  <2> QED
    BY <1>1, <1>4, <2>1, CopiesRestrained
<1>5. CASE ListRefund(w, p)
  <2>1. PICK a \in Amounts : Start(w, Task(<<"refund">>, p, FALSE, NoCopy, a))
    BY <1>5 DEF ListRefund
  <2>2. ~Task(<<"refund">>, p, FALSE, NoCopy, a).holds
    BY DEF Task
  <2> QED
    BY <1>4, <2>1, <2>2
<1>6. CASE ChangeSubscription(w, p)
  <2>1. PICK s \in {"canceled", subscription} :
          Start(w, [Task(<<"subscription">>, p, FALSE, NoCopy, 0) EXCEPT !.status = s])
    BY <1>6 DEF ChangeSubscription
  <2>2. ~[Task(<<"subscription">>, p, FALSE, NoCopy, 0) EXCEPT !.status = s].holds
    BY DEF Task
  <2> QED
    BY <1>4, <2>1, <2>2
<1>7. ASSUME NEW h \in Hooks, ReceiveWebhook(w, h, p) PROVE Restrained'
  <2>1. PICK e \in EventType, a \in Amounts \union {0}, b \in BOOLEAN :
          Start(w, [Task(<<"store", "find", "processed">>, p, FALSE, NoCopy, a)
                      EXCEPT !.event = e, !.hook = h, !.sound = b])
    BY <1>7 DEF ReceiveWebhook
  <2>2. ~[Task(<<"store", "find", "processed">>, p, FALSE, NoCopy, a)
            EXCEPT !.event = e, !.hook = h, !.sound = b].holds
    BY DEF Task
  <2> QED
    BY <1>4, <2>1, <2>2
<1>8. CASE AdminForm(w, p)
  <2>1. PICK s \in Patched, price \in Prices, a \in Amounts :
          Start(w, [Task(<<"save">>, p, TRUE, [status |-> s, amount |-> price, refunded |-> a], 0)
                      EXCEPT !.event = "form"])
    BY <1>8 DEF AdminForm
  <2>2. [Task(<<"save">>, p, TRUE, [status |-> s, amount |-> price, refunded |-> a], 0)
           EXCEPT !.event = "form"].event \in Outside
    BY DEF Task, Outside
  <2> QED
    BY <1>4, <2>1, <2>2
<1> QED
  BY <1>2, <1>3, <1>5, <1>6, <1>7, <1>8 DEF Request

LEMMA StatementsRestrained ==
  ASSUME RowsTyped, Restrained, NEW w \in Workers, Execute(w) \/ Crash(w)
  PROVE  Restrained'
<1> DEFINE j == job[w]
<1>1. Busy(w) /\ j \in UnderWay /\ Shaped(j) /\ j.id \in Ids
  BY DEF Execute, StoreWebhook, FindPayment, InsertRefund, InsertDispute, SavePayment,
         SaveWebhook, SaveSubscription, Crash, UnderWay, RowsTyped, Runs, Busy
<1>2. j.holds /\ j.event \notin Outside /\ j.id \notin overstated =>
        j.copy.refunded <= j.copy.amount
  BY <1>1 DEF Restrained, Holds
<1>3. ASSUME UNCHANGED <<payment, overstated>>, Advance(w) \/ job' = [job EXCEPT ![w] = << >>]
      PROVE  Restrained'
  <2>1. CASE job' = [job EXCEPT ![w] = << >>]
    BY <1>3, <2>1, CopiesRestrained
  <2>2. CASE job' = [job EXCEPT ![w] = [j EXCEPT !.todo = Tail(j.todo)]]
    <3> DEFINE n == [j EXCEPT !.todo = Tail(j.todo)]
    <3>1. n.holds = j.holds /\ n.event = j.event /\ n.id = j.id /\ n.copy = j.copy
      BY <1>1 DEF UnderWay
    <3> HIDE DEF n
    <3> QED
      BY <1>2, <1>3, <2>2, <3>1, CopiesRestrained DEF n
  <2> QED
    BY <1>3, <2>1, <2>2 DEF Advance, Finished
<1>4. CASE StoreWebhook(w) \/ SaveWebhook(w) \/ SaveSubscription(w) \/ InsertRefund(w) \/ Crash(w)
  BY <1>3, <1>4 DEF StoreWebhook, SaveWebhook, SaveSubscription, InsertRefund, Crash
<1>5. CASE FindPayment(w)
  <2>1. j.todo = <<"find", "processed">> /\ ~j.holds /\ j.event \in EventType /\ j.amount \in Int
    <3>1. Head(j.todo) = "find"
      BY <1>5 DEF FindPayment, Runs
    <3>2. j.todo = <<"find", "processed">> /\ ~j.holds
      BY <1>1, <3>1 DEF Shaped, HoldingTodo, FreeTodo
    <3> QED
      BY <1>1, <3>2 DEF Shaped, UnderWay
  <2>2. CASE Exists(j.id) /\ (j.sound \/ j.event # "charge.refunded")
    <3> DEFINE todo == IF j.event = "charge.dispute.created"
                         THEN <<"dispute", "save", "processed">> ELSE <<"save", "processed">>
               copy == Applied(j.event, payment[j.id], j.amount)
               n == [j EXCEPT !.todo = todo, !.holds = TRUE, !.copy = copy]
    <3>1. job' = [job EXCEPT ![w] = n] /\ UNCHANGED <<payment, overstated>>
      BY <1>5, <2>2 DEF FindPayment
    <3>2. j.event \notin Outside =>
            copy.refunded = payment[j.id].refunded /\ copy.amount = payment[j.id].amount
      BY <1>1, <2>1, <2>2, AppliedTyped DEF Exists, RowsTyped, Outside
    <3> HIDE DEF todo, copy
    <3>3. n.event = j.event /\ n.id = j.id /\ n.copy = copy
      BY <1>1 DEF UnderWay
    <3> HIDE DEF n
    <3>4. j.id \notin overstated => payment[j.id].refunded <= payment[j.id].amount
      BY <1>1, <2>2 DEF Restrained
    <3> QED
      BY <3>1, <3>2, <3>3, <3>4, CopiesRestrained
  <2>3. CASE ~(Exists(j.id) /\ (j.sound \/ j.event # "charge.refunded"))
    <3> DEFINE n == [j EXCEPT !.todo = IF Exists(j.id) THEN <<"failed">> ELSE <<"processed">>]
    <3>1. job' = [job EXCEPT ![w] = n] /\ UNCHANGED <<payment, overstated>>
      BY <1>5, <2>3 DEF FindPayment
    <3>2. ~n.holds
      BY <1>1, <2>1 DEF UnderWay
    <3> HIDE DEF n
    <3> QED
      BY <3>1, <3>2, CopiesRestrained
  <2> QED
    BY <2>2, <2>3
<1>6. CASE InsertDispute(w)
  <2>1. CASE Exists(j.id) /\ j.sound
    BY <1>3, <1>6, <2>1 DEF InsertDispute
  <2>2. CASE ~(Exists(j.id) /\ j.sound)
    <3> DEFINE n == [j EXCEPT !.todo = <<"failed">>, !.holds = FALSE]
    <3>1. job' = [job EXCEPT ![w] = n] /\ UNCHANGED <<payment, overstated>>
      BY <1>6, <2>2 DEF InsertDispute
    <3>2. ~n.holds
      BY <1>1 DEF UnderWay
    <3> HIDE DEF n
    <3> QED
      BY <3>1, <3>2, CopiesRestrained
  <2> QED
    BY <2>1, <2>2
<1>7. CASE SavePayment(w)
  <2>1. /\ payment' = [payment EXCEPT ![j.id] = j.copy]
        /\ overstated' = IF j.event \in Outside /\ j.copy.refunded > j.copy.amount
                           THEN overstated \union {j.id} ELSE overstated
    BY <1>7 DEF SavePayment
  <2>2. PICK n : job' = [job EXCEPT ![w] = n] /\ (n # << >> => ~n.holds)
    <3> DEFINE m == [[j EXCEPT !.holds = FALSE] EXCEPT !.todo = Tail(j.todo)]
    <3>1. job' = [job EXCEPT ![w] = << >>] \/ job' = [job EXCEPT ![w] = m]
      BY <1>7 DEF SavePayment, Finished
    <3>2. ~m.holds
      BY <1>1 DEF UnderWay
    <3> HIDE DEF m
    <3> QED
      BY <3>1, <3>2
  <2>3. /\ \A v \in Workers \ {w} : job'[v] = job[v]
        /\ \A v \in Workers \ {w} : \A q : Holds(v, q)' <=> Holds(v, q)
        /\ \A q : ~Holds(w, q)'
    BY <2>2, OthersHold
  <2>4. j.holds
    <3>1. Head(j.todo) = "save"
      BY <1>7 DEF SavePayment, Runs
    <3> QED
      BY <1>1, <3>1 DEF Shaped, HoldingTodo, FreeTodo
  <2>5. overstated \subseteq overstated'
        /\ \A q \in Ids : payment'[q] = IF q = j.id THEN j.copy ELSE payment[q]
    BY <1>1, <2>1 DEF RowsTyped
  <2>6. j.id \notin overstated' => j.copy.refunded <= j.copy.amount
    <3>1. j.copy.refunded \in Int /\ j.copy.amount \in Int
      BY <1>1 DEF UnderWay, Payment
    <3>2. j.id \notin overstated' =>
            j.id \notin overstated /\ ~(j.event \in Outside /\ j.copy.refunded > j.copy.amount)
      BY <2>1
    <3> QED
      BY <1>2, <2>4, <3>1, <3>2
  <2> QED
    BY <1>1, <2>3, <2>5, <2>6 DEF Restrained, Exists
<1> QED
  BY <1>4, <1>5, <1>6, <1>7 DEF Execute

LEMMA RowsRestrained ==
  ASSUME RowsTyped, Restrained, NEW p \in Ids,
         \/ CreatePayment(p) \/ DestroyPayment(p) \/ AdminMark(p)
         \/ AdminAdd(p) \/ AdminRefund(p)
  PROVE  Restrained'
<1>1. job' = job /\ overstated \subseteq overstated'
  BY DEF CreatePayment, DestroyPayment, AdminMark, AdminAdd, AdminRefund
<1>2. \A w \in Workers, q \in Ids : Holds(w, q)' <=> Holds(w, q)
  BY <1>1 DEF Holds, Busy
<1>3. \A q \in Ids \ {p} : payment'[q] = payment[q]
  BY DEF CreatePayment, DestroyPayment, AdminMark, AdminAdd, AdminRefund, RowsTyped
<1>4. p \notin overstated' /\ Exists(p)' => payment'[p].refunded <= payment'[p].amount
  <2>1. CASE CreatePayment(p)
    <3>1. PICK price \in Prices : payment' = [payment EXCEPT ![p] = Unborn(price)]
      BY <2>1 DEF CreatePayment
    <3>2. payment'[p] = Unborn(price) /\ price \in Nat
      BY <3>1, PaymentConstants DEF RowsTyped
    <3> QED
      BY <3>2 DEF Unborn
  <2>2. CASE DestroyPayment(p)
    BY <2>2 DEF DestroyPayment, RowsTyped, Exists
  <2>3. CASE AdminMark(p)
    <3>1. PICK s \in {"succeeded", "failed", "refunded"} :
            payment' = [payment EXCEPT ![p].status = s]
      BY <2>3 DEF AdminMark
    <3>2. payment[p] \in Payment /\ Exists(p) /\ overstated' = overstated
      BY <2>3 DEF AdminMark, RowsTyped, Exists
    <3>3. /\ payment'[p] = [payment[p] EXCEPT !.status = s]
          /\ payment'[p].refunded = payment[p].refunded /\ payment'[p].amount = payment[p].amount
      BY <3>1, <3>2, StatusTyped DEF RowsTyped, PaymentStatus
    <3> QED
      BY <3>2, <3>3 DEF Restrained
  <2>4. CASE AdminAdd(p)
    <3>1. PICK s \in Patched, price \in Prices, a \in Amounts :
            /\ payment' = [payment EXCEPT ![p] = [status |-> s, amount |-> price, refunded |-> a]]
            /\ overstated' = IF a > price THEN overstated \union {p} ELSE overstated
      BY <2>4 DEF AdminAdd
    <3>2. payment'[p] = [status |-> s, amount |-> price, refunded |-> a] /\ price \in Nat /\ a \in Int
      BY <3>1, PaymentConstants DEF RowsTyped
    <3> QED
      BY <3>1, <3>2
  <2>5. CASE AdminRefund(p)
    BY <2>5 DEF AdminRefund, Restrained, Exists
  <2> QED
    BY <2>1, <2>2, <2>3, <2>4, <2>5
<1> QED
  BY <1>1, <1>2, <1>3, <1>4 DEF Restrained, Exists

\* However refund requests, updates, forms and webhooks interleave, no payment shows more
\* refunded than paid unless a webhook or a form has said so.
THEOREM NeverTooMuch == Spec => []NeverOverRefunded
<1>1. Init => Restrained
  BY DEF Init, Restrained, Exists, Holds, Busy
<1>2. RowsTyped /\ Restrained /\ [Next]_vars => Restrained'
  <2> SUFFICES ASSUME RowsTyped, Restrained, [Next]_vars PROVE Restrained'
    OBVIOUS
  <2>1. CASE UNCHANGED vars
    BY <2>1 DEF vars, Restrained, Exists, Holds, Busy
  <2> QED
    BY <2>1, RequestsRestrained, StatementsRestrained, RowsRestrained DEF Next
<1>3. RefundInv => RowsTyped
  BY DEF RefundInv
<1>4. Restrained => NeverOverRefunded
  BY DEF Restrained, NeverOverRefunded
<1> QED
  BY <1>1, <1>2, <1>3, <1>4, RefundInvariance, PTL DEF Spec

\* A payment that nobody disturbed shows what its Refund rows add up to.
THEOREM UndisturbedAgree == Spec => []UndisturbedRefunds
<1>1. RefundInv => UndisturbedRefunds
  <2> SUFFICES ASSUME RefundInv, NEW p \in Ids \ (disturbed \union apart), Exists(p), ~Held(p)
               PROVE  payment[p].refunded = requested[p]
    BY DEF UndisturbedRefunds
  <2>1. Clean(p) /\ \A w \in Workers : ~Holds(w, p)
    BY DEF Clean, Held, Holds
  <2> QED
    BY <2>1 DEF RefundInv, RestAgrees
<1> QED
  BY <1>1, RefundInvariance, PTL


-----------------------------------------------------------------------------
(* Requests about a user, by what they hold. *)

InsertJob == [stage : {"profile", "role", "password", "fail"}, user : Users,
              resume : {"password", "fail", "end"}, password : Passwords \union {Nobody}, email : Addresses]
MailJob   == [stage : {"mail"}, user : Users, kind : Kinds]
TokenJob  == [stage : {"create", "assign"}, user : Users, kind : Kinds, resume : {"assign", "end"}]
MarkJob   == [stage : {"mark", "user"}, user : Users, kind : Kinds, token : Tokens, row : Token,
              password : Passwords]
ResetJob  == [stage : {"save"}, user : Users, token : Tokens, row : User, sets : BOOLEAN]
RenameJob == [stage : {"save"}, user : Users, row : User, sets : BOOLEAN]
EditJob   == [stage : {"edit"}, user : Users, row : User]
SaveJobs  == ResetJob \union RenameJob
UserJob   == InsertJob \union MailJob \union TokenJob \union MarkJob \union SaveJobs \union EditJob

AccountRowsTyped ==
  /\ users \in [Users -> User \union {Nobody}] /\ born \subseteq Users
  /\ profiles \subseteq Users /\ customer \in [Users -> RoleState]
  /\ tokens \in [Tokens -> Token \union {Nobody}]
  /\ received \in 0 .. MaxAccounts
  /\ spent \subseteq Tokens /\ shared \subseteq Users
  /\ latest \in [Users -> Passwords \union {Nobody}] /\ cut \subseteq Users

\* Whatever rows and requests are about was created; nobody else has a password.
KnownUsers ==
  /\ \A u \in Users : users[u] # Nobody => u \in born
  /\ \A t \in Tokens : tokens[t] # Nobody => tokens[t].user \in born
  /\ \A u \in Users \ born : latest[u] = Nobody

\* What a request will write has the password that was set last, or sets it.
Faithful(req, password) ==
  /\ req.stage = "save" => req.sets \/ req.row.password = password
  /\ req.stage = "edit" => req.row.password = password

Sound(req) ==
  /\ req \in UserJob /\ req.user \in born
  /\ req.stage = "mark" => req.row.user = req.user
  /\ req.user \notin shared => Faithful(req, latest[req.user])

RequestsSound == handler \in [Handlers -> UserJob \union {<< >>}] /\ \A h \in Handlers : ~Open(h) => Sound(handler[h])

OneRequest == \A g, h \in Handlers :
  ~Open(g) /\ ~Open(h) /\ handler[g].user = handler[h].user /\ handler[g].user \notin shared => g = h

PasswordsKept == \A u \in Users \ shared : users[u] # Nobody => users[u].password = latest[u]

ProfilesAwaited == \A u \in Users \ cut : users[u] # Nobody =>
  u \in profiles \/ \E h \in Handlers : OnTask(h, "profile") /\ handler[h].user = u

AccountInv == AccountRowsTyped /\ KnownUsers /\ RequestsSound /\ OneRequest /\ PasswordsKept /\ ProfilesAwaited

-----------------------------------------------------------------------------
(* Requests. *)

LEMMA JobAt ==
  ASSUME AccountInv, NEW h \in Handlers, ~Open(h)
  PROVE  /\ handler[h] \in UserJob /\ handler[h].user \in Users /\ handler[h].user \in born
         /\ handler[h].stage \in {"profile", "role", "password", "fail"} => handler[h] \in InsertJob
         /\ handler[h].stage = "mail" => handler[h] \in MailJob
         /\ handler[h].stage \in {"create", "assign"} => handler[h] \in TokenJob
         /\ handler[h].stage \in {"mark", "user"} => handler[h] \in MarkJob
         /\ handler[h].stage = "save" => handler[h] \in SaveJobs
         /\ handler[h].stage = "edit" => handler[h] \in EditJob
<1>1. handler[h] \in UserJob /\ handler[h].user \in born
  BY DEF AccountInv, RequestsSound, Sound
<1> QED
  BY <1>1 DEF UserJob, InsertJob, MailJob, TokenJob, MarkJob, SaveJobs, ResetJob, RenameJob, EditJob

\* A request goes on, or ends.
LEMMA Continues ==
  ASSUME AccountInv, NEW h \in Handlers, ~Open(h), NEW req, Become(h, req),
         \/ req = << >>
         \/ /\ req \in UserJob /\ req.user = handler[h].user
            /\ req.stage = "mark" => req.row.user = req.user
            /\ req.user \notin shared => Faithful(req, latest'[req.user]),
         born' = born, shared' = shared,
         \A v \in Users : v # handler[h].user => latest'[v] = latest[v]
  PROVE  RequestsSound' /\ OneRequest'
<1> DEFINE u == handler[h].user
<1>0. handler \in [Handlers -> UserJob \union {<< >>}] /\ u \in born
  BY JobAt DEF AccountInv, RequestsSound
<1>1. handler' = [handler EXCEPT ![h] = req] /\ handler' \in [Handlers -> UserJob \union {<< >>}]
  BY <1>0 DEF Become
<1>2. ASSUME NEW g \in Handlers, ~Open(g)' PROVE Sound(handler[g])'
  <2>1. CASE g = h
    BY <1>0, <1>1, <1>2, <2>1 DEF Sound, Open, Faithful
  <2>2. CASE g # h
    <3>1. handler'[g] = handler[g] /\ ~Open(g) /\ Sound(handler[g])
      BY <1>0, <1>1, <1>2, <2>2 DEF Open, AccountInv, RequestsSound
    <3>2. handler[g].user = u => u \in shared
      BY <2>2, <3>1 DEF AccountInv, OneRequest
    <3>3. handler[g].user \in Users
      BY <3>1, JobAt
    <3> QED
      BY <3>1, <3>2, <3>3 DEF Sound, Faithful
  <2> QED
    BY <2>1, <2>2
<1>3. ASSUME NEW f \in Handlers, NEW g \in Handlers, ~Open(f)', ~Open(g)',
             handler'[f].user = handler'[g].user, handler'[f].user \notin shared'
      PROVE  f = g
  <2>1. ASSUME NEW k \in Handlers, ~Open(k)' PROVE ~Open(k) /\ handler[k].user = handler'[k].user
    BY <1>0, <1>1, <2>1 DEF Open
  <2> QED
    BY <1>3, <2>1 DEF AccountInv, OneRequest
<1> QED
  BY <1>1, <1>2, <1>3 DEF RequestsSound, OneRequest

\* A request begins.
LEMMA Starts ==
  ASSUME AccountInv, NEW h \in Handlers, Open(h), NEW req \in UserJob, Become(h, req),
         req.user \in born', req.stage = "mark" => req.row.user = req.user,
         req.user \notin shared' => Faithful(req, latest'[req.user]),
         born \subseteq born', shared' = shared \union Meets(req.user), latest' = latest
  PROVE  RequestsSound' /\ OneRequest'
<1>0. handler \in [Handlers -> UserJob \union {<< >>}]
  BY DEF AccountInv, RequestsSound
<1>1. handler' = [handler EXCEPT ![h] = req] /\ handler' \in [Handlers -> UserJob \union {<< >>}]
  BY <1>0 DEF Become
<1>2. ASSUME NEW g \in Handlers, ~Open(g)' PROVE Sound(handler[g])'
  <2>1. CASE g = h
    BY <1>0, <1>1, <2>1 DEF Sound, Faithful
  <2>2. CASE g # h
    <3>1. handler'[g] = handler[g] /\ ~Open(g) /\ Sound(handler[g])
      BY <1>0, <1>1, <1>2, <2>2 DEF Open, AccountInv, RequestsSound
    <3> QED
      BY <3>1 DEF Sound, Faithful
  <2> QED
    BY <2>1, <2>2
<1>3. ASSUME NEW g \in Handlers, g # h, ~Open(g)', handler'[g].user = req.user
      PROVE  req.user \in shared'
  <2>1. g \in OnUser(req.user)
    BY <1>0, <1>1, <1>3 DEF Open, OnUser
  <2> QED
    BY <2>1 DEF Meets
<1>4. ASSUME NEW f \in Handlers, NEW g \in Handlers, ~Open(f)', ~Open(g)',
             handler'[f].user = handler'[g].user, handler'[f].user \notin shared'
      PROVE  f = g
  <2>1. handler'[h].user = req.user
    BY <1>0, <1>1
  <2>2. CASE f = h \/ g = h
    BY <1>3, <1>4, <2>1, <2>2
  <2>3. CASE f # h /\ g # h
    BY <1>0, <1>1, <1>4, <2>3 DEF Open, AccountInv, OneRequest
  <2> QED
    BY <2>2, <2>3
<1> QED
  BY <1>1, <1>2, <1>4 DEF RequestsSound, OneRequest

\* No request moves.
LEMMA Rests ==
  ASSUME AccountInv, handler' = handler, born \subseteq born', shared \subseteq shared',
         \A v \in born : latest'[v] = latest[v]
  PROVE  RequestsSound' /\ OneRequest'
<1>1. ASSUME NEW g \in Handlers, ~Open(g)' PROVE Sound(handler[g])'
  BY <1>1 DEF Open, AccountInv, RequestsSound, Sound, Faithful
<1> QED
  BY <1>1 DEF AccountInv, RequestsSound, OneRequest, Open

\* Whoever has no profile yet is waited for by the request that inserted it.
LEMMA Awaited ==
  ASSUME AccountInv, NEW h \in Handlers, NEW req, Become(h, req), cut \subseteq cut',
         \A v \in Users \ cut' : users'[v] # Nobody =>
           \/ users[v] # Nobody /\ (v \in profiles => v \in profiles')
           \/ v \in profiles'
           \/ req # << >> /\ req.stage = "profile" /\ req.user = v,
         OnTask(h, "profile") /\ handler[h].user \notin cut' /\ users'[handler[h].user] # Nobody =>
           handler[h].user \in profiles'
  PROVE  ProfilesAwaited'
<1>0. handler' = [handler EXCEPT ![h] = req] /\ DOMAIN handler = Handlers
  BY DEF Become, AccountInv, RequestsSound
<1> SUFFICES ASSUME NEW v \in Users, v \notin cut', users'[v] # Nobody, v \notin profiles'
             PROVE  \E g \in Handlers : OnTask(g, "profile")' /\ handler'[g].user = v
  BY DEF ProfilesAwaited
<1>1. CASE req # << >> /\ req.stage = "profile" /\ req.user = v
  BY <1>0, <1>1 DEF OnTask, Open
<1>2. CASE users[v] # Nobody /\ v \notin profiles
  <2>1. PICK g \in Handlers : OnTask(g, "profile") /\ handler[g].user = v
    BY <1>2 DEF AccountInv, ProfilesAwaited
  <2>2. g # h
    BY <2>1
  <2> QED
    BY <1>0, <2>1, <2>2 DEF OnTask, Open
<1> QED
  BY <1>1, <1>2

\* save() of a user.
LEMMA Writes ==
  ASSUME AccountInv, NEW h \in Handlers, ~Open(h), NEW row \in User, NEW resume \in {"fail", "end"}, NEW sets \in BOOLEAN,
         Write(h, handler[h].user, row, resume), handler[h].stage # "profile",
         resume = "fail" => handler[h] \in InsertJob,
         latest' = IF Free(handler[h].user, row.email) /\ sets
                   THEN [latest EXCEPT ![handler[h].user] = row.password] ELSE latest,
         handler[h].user \notin shared => sets \/ row.password = latest[handler[h].user],
         spent' \subseteq Tokens, UNCHANGED <<born, profiles, customer, tokens, received, shared, cut>>
  PROVE  AccountInv'
<1> DEFINE u == handler[h].user
           insert == [stage |-> "profile", user |-> u, resume |-> resume, password |-> Nobody, email |-> row.email]
<1>0. u \in Users /\ u \in born /\ row.password \in Passwords \union {Nobody} /\ row.email \in Addresses
  BY JobAt DEF User
<1>1. AccountRowsTyped
  BY DEF AccountInv
<1>2. latest' \in [Users -> Passwords \union {Nobody}] /\ \A v \in Users : v # u => latest'[v] = latest[v]
  BY <1>0, <1>1 DEF AccountRowsTyped
<1>3. Free(u, row.email) /\ u \notin shared => latest'[u] = row.password
  BY <1>0, <1>1 DEF AccountRowsTyped
<1>4. \/ ~Free(u, row.email) /\ users' = users /\ latest' = latest
      \/ Free(u, row.email) /\ users' = [users EXCEPT ![u] = row]
  BY DEF Write
<1>5. AccountRowsTyped'
  BY <1>0, <1>1, <1>2, <1>4 DEF AccountRowsTyped
<1>6. KnownUsers'
  <2>1. \A v \in Users : users'[v] # Nobody => v \in born
    BY <1>0, <1>1, <1>4 DEF AccountRowsTyped, AccountInv, KnownUsers
  <2> QED
    BY <1>0, <1>2, <2>1 DEF AccountInv, KnownUsers
<1>7. PICK req : /\ Become(h, req)
                 /\ \/ req = << >>
                    \/ req = [handler[h] EXCEPT !.stage = "fail"] /\ handler[h] \in InsertJob
                    \/ req = insert
                 /\ users[u] = Nobody /\ users' # users => req = insert
  BY <1>0 DEF Write, Close
<1>8. \/ req = << >>
      \/ req \in UserJob /\ req.user = u /\ req.stage \in {"fail", "profile"}
  BY <1>0, <1>7 DEF UserJob, InsertJob
<1>9. RequestsSound' /\ OneRequest'
  BY <1>2, <1>7, <1>8, Continues DEF Faithful
<1>10. PasswordsKept'
  <2> SUFFICES ASSUME NEW v \in Users, v \notin shared, users'[v] # Nobody
               PROVE  users'[v].password = latest'[v]
    BY DEF PasswordsKept
  <2>1. \/ users'[v] = users[v] /\ latest'[v] = latest[v]
        \/ v = u /\ users'[v] = row /\ Free(u, row.email)
    BY <1>1, <1>2, <1>4 DEF AccountRowsTyped
  <2>2. CASE users'[v] = row /\ v = u /\ Free(u, row.email)
    BY <1>3, <2>2
  <2>3. CASE users'[v] = users[v] /\ latest'[v] = latest[v]
    BY <2>3 DEF AccountInv, PasswordsKept
  <2> QED
    BY <2>1, <2>2, <2>3
<1>11. ASSUME NEW v \in Users, users'[v] # Nobody
       PROVE  users[v] # Nobody \/ (req # << >> /\ req.stage = "profile" /\ req.user = v)
  <2> SUFFICES ASSUME users[v] = Nobody PROVE req # << >> /\ req.stage = "profile" /\ req.user = v
    OBVIOUS
  <2>1. v = u /\ users' # users
    BY <1>1, <1>4, <1>11 DEF AccountRowsTyped
  <2>2. req = insert
    BY <1>7, <2>1
  <2>3. DOMAIN req = {"stage", "user", "resume", "password", "email"} /\ DOMAIN << >> = {}
    BY <2>2
  <2> QED
    BY <2>1, <2>2, <2>3
<1>12. ProfilesAwaited'
  BY <1>7, <1>11, Awaited DEF OnTask
<1> QED
  BY <1>5, <1>6, <1>9, <1>10, <1>12 DEF AccountInv

-----------------------------------------------------------------------------
(* Every step. *)

LEMMA AccountsStart == AccountInit => AccountInv
<1> SUFFICES ASSUME AccountInit PROVE AccountInv
  OBVIOUS
<1>1. \A h \in Handlers : Open(h)
  BY DEF AccountInit, Open
<1>2. AccountRowsTyped
  BY AccountConstants DEF AccountInit, AccountRowsTyped, RoleState
<1> QED
  BY <1>1, <1>2 DEF AccountInit, AccountInv, KnownUsers, RequestsSound, OneRequest, PasswordsKept, ProfilesAwaited

\* A request that leaves users and their passwords alone, and what goes with it.
LEMMA Moves ==
  ASSUME AccountInv, NEW h \in Handlers, ~Open(h), NEW req, Become(h, req),
         \/ req = << >>
         \/ /\ req \in UserJob /\ req.user = handler[h].user /\ req.stage # "profile"
            /\ req.stage = "mark" => req.row.user = req.user
            /\ req.user \notin shared => Faithful(req, latest[req.user]),
         OnTask(h, "profile") => users[handler[h].user] = Nobody \/ handler[h].user \in profiles' \union cut',
         profiles \subseteq profiles', profiles' \subseteq Users, customer' \in [Users -> RoleState],
         tokens' \in [Tokens -> Token \union {Nobody}], \A t \in Tokens : tokens'[t] # Nobody => tokens'[t].user \in born,
         cut \subseteq cut', cut' \subseteq Users, UNCHANGED <<users, born, received, spent, shared, latest>>
  PROVE  AccountInv'
<1>1. AccountRowsTyped' /\ KnownUsers'
  BY DEF AccountInv, AccountRowsTyped, KnownUsers
<1>2. RequestsSound' /\ OneRequest'
  BY Continues
<1>3. PasswordsKept'
  BY DEF AccountInv, PasswordsKept
<1>4. ProfilesAwaited'
  BY Awaited DEF OnTask
<1> QED
  BY <1>1, <1>2, <1>3, <1>4 DEF AccountInv

\* A request about a user that exists begins.
LEMMA Asks ==
  ASSUME AccountInv, NEW h \in Handlers, Open(h), NEW req \in UserJob, Become(h, req), Receive,
         req.user \in born, req.stage # "profile", req.stage = "mark" => req.row.user = req.user,
         users[req.user] # Nobody => req.user \in shared \/ Faithful(req, users[req.user].password),
         users[req.user] = Nobody => req.stage \notin {"save", "edit"},
         tokens' \in [Tokens -> Token \union {Nobody}], \A t \in Tokens : tokens'[t] # Nobody => tokens'[t].user \in born,
         shared' = shared \union Meets(req.user), UNCHANGED <<users, born, profiles, customer, spent, latest, cut>>
  PROVE  AccountInv'
<1>0. req.user \in Users
  BY DEF AccountInv, AccountRowsTyped
<1>1. AccountRowsTyped'
  BY <1>0, AccountConstants DEF AccountInv, AccountRowsTyped, Receive, Meets
<1>2. KnownUsers'
  BY DEF AccountInv, KnownUsers
<1>3. req.user \notin shared => Faithful(req, latest[req.user])
  BY <1>0 DEF AccountInv, PasswordsKept, Faithful
<1>4. RequestsSound' /\ OneRequest'
  BY <1>3, Starts
<1>5. PasswordsKept'
  BY DEF AccountInv, PasswordsKept
<1>6. ProfilesAwaited'
  BY Awaited DEF OnTask
<1> QED
  BY <1>1, <1>2, <1>4, <1>5, <1>6 DEF AccountInv

LEMMA GivenTyped ==
  ASSUME AccountInv, NEW u \in Users
  PROVE  Given(u) \in [Users -> RoleState]
BY DEF AccountInv, AccountRowsTyped, Given, RoleState

\* The requests under way.
LEMMA InsertsGoOn ==
  ASSUME AccountInv, NEW h \in Handlers,
         CreateProfile(h) \/ GiveRole(h) \/ SecondProfile(h)
  PROVE  AccountInv'
<1> DEFINE u == handler[h].user
<1>0. ~Open(h) /\ u \in Users /\ handler[h] \in InsertJob /\ AccountRowsTyped /\ KnownUsers
  BY JobAt DEF CreateProfile, GiveRole, SecondProfile, OnTask, AccountInv
<1>1. CASE CreateProfile(h)
  <2>1. PICK req : /\ Become(h, req)
                   /\ \/ req = << >> /\ users[u] = Nobody /\ profiles' = profiles
                      \/ req = [handler[h] EXCEPT !.stage = "role"] /\ profiles' = profiles \union {u}
    BY <1>1 DEF CreateProfile, Close
  <2>2. req = << >> \/ (req \in UserJob /\ req.user = u /\ req.stage = "role")
    BY <1>0, <2>1 DEF InsertJob, UserJob
  <2>3. UNCHANGED <<users, born, customer, tokens, received, spent, shared, latest, cut>>
    BY <1>1 DEF CreateProfile, traceVars
  <2> QED
    BY <1>0, <2>1, <2>2, <2>3, Moves DEF Faithful, AccountRowsTyped, KnownUsers
<1>2. CASE GiveRole(h)
  <2>1. UNCHANGED <<users, born, profiles, tokens, received, spent, shared, latest, cut>>
        /\ customer' \in {customer, Given(u)} /\ handler[h].stage = "role"
    BY <1>2 DEF GiveRole, traceVars, OnTask
  <2>2. PICK req : /\ Become(h, req)
                   /\ \/ req = << >>
                      \/ req = [handler[h] EXCEPT !.stage = handler[h].resume] /\ handler[h].resume # "end"
    BY <1>2 DEF GiveRole, Close, Continue
  <2>3. req = << >> \/ (req \in UserJob /\ req.user = u /\ req.stage \in {"password", "fail"})
    BY <1>0, <2>2 DEF InsertJob, UserJob
  <2> QED
    BY <1>0, <2>1, <2>2, <2>3, Moves, GivenTyped DEF Faithful, AccountRowsTyped, KnownUsers, OnTask
<1>3. CASE SecondProfile(h)
  <2>1. UNCHANGED <<users, born, customer, tokens, received, spent, shared, latest, cut>>
        /\ handler[h].stage = "fail" /\ profiles' \in {profiles, profiles \union {u}}
    BY <1>3 DEF SecondProfile, traceVars, OnTask
  <2>2. PICK req : /\ Become(h, req)
                   /\ req = << >> \/ req = [stage |-> "mail", user |-> u, kind |-> "verification"]
    BY <1>3 DEF SecondProfile, Close
  <2>3. req = << >> \/ (req \in UserJob /\ req.user = u /\ req.stage = "mail")
    BY <1>0, <2>2 DEF MailJob, UserJob, Kinds
  <2> QED
    BY <1>0, <2>1, <2>2, <2>3, Moves DEF Faithful, AccountRowsTyped, KnownUsers, OnTask
<1> QED
  BY <1>1, <1>2, <1>3

LEMMA TokensGoOn ==
  ASSUME AccountInv, NEW h \in Handlers,
         MailToken(h) \/ CreateToken(h) \/ AssignCustomer(h) \/ MarkToken(h) \/ ReadUser(h)
  PROVE  AccountInv'
<1> DEFINE u == handler[h].user
<1>0. ~Open(h) /\ u \in Users /\ u \in born /\ AccountRowsTyped /\ KnownUsers
  BY JobAt DEF MailToken, CreateToken, AssignCustomer, MarkToken, ReadUser, OnTask, AccountInv
<1>1. CASE MailToken(h)
  <2> DEFINE req == [stage |-> "create", user |-> u, kind |-> "verification", resume |-> "assign"]
  <2>1. UNCHANGED <<users, born, profiles, customer, received, spent, shared, latest, cut>>
        /\ handler[h].stage = "mail" /\ tokens' = Others(u, "verification") /\ Become(h, req)
    BY <1>1 DEF MailToken, traceVars, OnTask
  <2>2. req \in UserJob /\ req.user = u /\ req.stage = "create"
    BY <1>0 DEF TokenJob, UserJob, Kinds
  <2>3. tokens' \in [Tokens -> Token \union {Nobody}] /\ \A t \in Tokens : tokens'[t] # Nobody => tokens'[t].user \in born
    BY <1>0, <2>1 DEF Others, AccountRowsTyped, KnownUsers
  <2> QED
    BY <1>0, <2>1, <2>2, <2>3, Moves DEF Faithful, AccountRowsTyped, OnTask
<1>2. CASE CreateToken(h)
  <2>1. UNCHANGED <<users, born, profiles, customer, received, spent, shared, latest, cut>>
        /\ handler[h].stage = "create" /\ handler[h] \in TokenJob
    BY <1>2, JobAt DEF CreateToken, traceVars, OnTask
  <2>2. PICK req : /\ Become(h, req)
                   /\ \/ req = << >>
                      \/ req = [handler[h] EXCEPT !.stage = handler[h].resume] /\ handler[h].resume # "end"
    BY <1>2 DEF CreateToken, Close, Continue
  <2>3. req = << >> \/ (req \in UserJob /\ req.user = u /\ req.stage = "assign")
    BY <1>0, <2>1, <2>2 DEF TokenJob, UserJob
  <2>4. tokens' = tokens \/ \E t \in Tokens : tokens' = [tokens EXCEPT ![t] =
          [user |-> u, kind |-> handler[h].kind, usable |-> TRUE]]
    BY <1>2 DEF CreateToken
  <2>5. tokens' \in [Tokens -> Token \union {Nobody}] /\ \A t \in Tokens : tokens'[t] # Nobody => tokens'[t].user \in born
    <3> DEFINE new == [user |-> u, kind |-> handler[h].kind, usable |-> TRUE]
    <3>1. new \in Token /\ new.user = u
      BY <1>0, <2>1 DEF Token, TokenJob
    <3>2. tokens' = tokens \/ \E t \in Tokens : tokens' = [tokens EXCEPT ![t] = new]
      BY <2>4
    <3> HIDE DEF new
    <3> QED
      BY <1>0, <3>1, <3>2 DEF AccountRowsTyped, KnownUsers
  <2> QED
    BY <1>0, <2>1, <2>2, <2>3, <2>5, Moves DEF Faithful, AccountRowsTyped, OnTask
<1>3. CASE AssignCustomer(h)
  <2>1. UNCHANGED <<users, born, profiles, tokens, received, spent, shared, latest, cut>>
        /\ handler[h].stage = "assign" /\ customer' \in {customer, Given(u)} /\ Become(h, << >>)
    BY <1>3 DEF AssignCustomer, traceVars, OnTask, Close
  <2> QED
    BY <1>0, <2>1, Moves, GivenTyped DEF AccountRowsTyped, KnownUsers, OnTask
<1>4. CASE MarkToken(h)
  <2>1. UNCHANGED <<users, born, profiles, customer, received, spent, shared, latest, cut>>
        /\ handler[h].stage = "mark" /\ handler[h] \in MarkJob /\ handler[h].row.user = u
    BY <1>4, JobAt DEF MarkToken, traceVars, OnTask, AccountInv, RequestsSound, Sound
  <2>2. PICK req : Become(h, req) /\ (req = << >> \/ req = [handler[h] EXCEPT !.stage = "user"])
    BY <1>4 DEF MarkToken, Close
  <2>3. req = << >> \/ (req \in UserJob /\ req.user = u /\ req.stage = "user")
    BY <1>0, <2>1, <2>2 DEF MarkJob, UserJob
  <2>4. tokens' = tokens \/ tokens' = MarkUsed(h)
    BY <1>4 DEF MarkToken
  <2>5. tokens' \in [Tokens -> Token \union {Nobody}] /\ \A t \in Tokens : tokens'[t] # Nobody => tokens'[t].user \in born
    <3> DEFINE row == [handler[h].row EXCEPT !.usable = FALSE]
    <3>1. row \in Token /\ row.user = u /\ handler[h].token \in Tokens
      BY <2>1 DEF Token, MarkJob
    <3>2. tokens' = tokens \/ tokens' = [tokens EXCEPT ![handler[h].token] = row]
      BY <2>4 DEF MarkUsed
    <3> QED
      BY <1>0, <3>1, <3>2 DEF AccountRowsTyped, KnownUsers
  <2> QED
    BY <1>0, <2>1, <2>2, <2>3, <2>5, Moves DEF Faithful, AccountRowsTyped, OnTask
<1>5. CASE ReadUser(h)
  <2>1. UNCHANGED <<users, born, profiles, customer, tokens, received, spent, shared, latest, cut>>
        /\ handler[h].stage = "user" /\ handler[h] \in MarkJob
    BY <1>5, JobAt DEF ReadUser, traceVars, rowVars, OnTask
  <2> DEFINE sets == handler[h].kind = "reset"
             row  == IF handler[h].kind = "verification" THEN users[u]
                     ELSE [users[u] EXCEPT !.password = handler[h].password]
             go   == [stage |-> "save", user |-> u, token |-> handler[h].token, row |-> row, sets |-> sets]
  <2>2. (Become(h, << >>)) \/ (users[u] # Nobody /\ Become(h, go))
    BY <1>5 DEF ReadUser, Close
  <2>3. ASSUME users[u] # Nobody
        PROVE  go \in UserJob /\ go.user = u /\ go.stage = "save" /\ (u \notin shared => Faithful(go, latest[u]))
    <3>1. users[u] \in User
      BY <1>0, <2>3 DEF AccountRowsTyped
    <3>2. row \in User /\ (sets \/ row.password = users[u].password)
      BY <2>1, <3>1 DEF User, MarkJob, Kinds
    <3>3. go \in ResetJob
      BY <1>0, <2>1, <3>2 DEF ResetJob, MarkJob
    <3>4. u \notin shared => users[u].password = latest[u]
      BY <1>0, <2>3 DEF AccountInv, PasswordsKept
    <3> QED
      BY <3>2, <3>3, <3>4 DEF UserJob, SaveJobs, Faithful
  <2> QED
    BY <1>0, <2>1, <2>2, <2>3, Moves DEF AccountRowsTyped, KnownUsers, OnTask
<1> QED
  BY <1>1, <1>2, <1>3, <1>4, <1>5

LEMMA UsersSaved ==
  ASSUME AccountInv, NEW h \in Handlers, SetPassword(h) \/ SaveUser(h)
  PROVE  AccountInv'
<1> DEFINE u == handler[h].user
<1>0. ~Open(h) /\ u \in Users /\ AccountRowsTyped
  BY JobAt DEF SetPassword, SaveUser, OnTask, AccountInv
<1>1. CASE SetPassword(h)
  <2> DEFINE row == [NewUser(handler[h].email) EXCEPT !.password = handler[h].password]
  <2>1. handler[h].stage = "password" /\ handler[h] \in InsertJob
    BY <1>1, JobAt DEF SetPassword, OnTask
  <2>2. row \in User /\ row.password = handler[h].password /\ row.email = handler[h].email
    BY <2>1 DEF InsertJob, NewUser, User
  <2>3. /\ Write(h, u, row, "fail")
        /\ latest' = IF Free(u, row.email) /\ TRUE THEN [latest EXCEPT ![u] = row.password] ELSE latest
    BY <1>1, <2>2 DEF SetPassword
  <2>4. spent' \subseteq Tokens /\ UNCHANGED <<born, profiles, customer, tokens, received, shared, cut>>
    BY <1>0, <1>1 DEF SetPassword, AccountRowsTyped
  <2> HIDE DEF row
  <2> QED
    BY <1>0, <2>1, <2>2, <2>3, <2>4, Writes
<1>2. CASE SaveUser(h)
  <2>1. handler[h].stage = "save" /\ handler[h] \in SaveJobs
    BY <1>2, JobAt DEF SaveUser, OnTask
  <2>2. handler[h].row \in User /\ handler[h].sets \in BOOLEAN
    BY <2>1 DEF SaveJobs, ResetJob, RenameJob
  <2>3. "token" \in DOMAIN handler[h] => handler[h].token \in Tokens
    BY <2>1 DEF SaveJobs, ResetJob, RenameJob
  <2>4. Write(h, u, handler[h].row, "end") /\ spent' \subseteq Tokens
        /\ UNCHANGED <<born, profiles, customer, tokens, received, shared, cut>>
    BY <1>0, <1>2, <2>3 DEF SaveUser, AccountRowsTyped
  <2>5. /\ latest' = IF Free(u, handler[h].row.email) /\ handler[h].sets
                     THEN [latest EXCEPT ![u] = handler[h].row.password] ELSE latest
        /\ u \notin shared => handler[h].sets \/ handler[h].row.password = latest[u]
    <3>1. u \notin shared => handler[h].sets \/ handler[h].row.password = latest[u]
      BY <1>0, <2>1 DEF AccountInv, RequestsSound, Sound, Faithful
    <3> QED
      BY <1>2, <3>1 DEF SaveUser
  <2> QED
    BY <1>0, <2>1, <2>2, <2>4, <2>5, Writes
<1> QED
  BY <1>1, <1>2

\* The requests that begin.
LEMMA RequestsBegin ==
  ASSUME AccountInv, NEW h \in Handlers,
         RequestToken(h) \/ FindToken(h) \/ UpdateProfile(h) \/ AdminEdit(h) \/ AdminPassword(h)
  PROVE  AccountInv'
<1>0. AccountRowsTyped /\ KnownUsers
  BY DEF AccountInv
<1>1. CASE RequestToken(h)
  <2>1. PICK u \in Users, k \in Kinds :
          /\ users[u] # Nobody /\ tokens' = Others(u, k) /\ shared' = shared \union Meets(u)
          /\ Become(h, [stage |-> "create", user |-> u, kind |-> k, resume |-> "end"])
    BY <1>1 DEF RequestToken
  <2> DEFINE req == [stage |-> "create", user |-> u, kind |-> k, resume |-> "end"]
  <2>2. req \in UserJob /\ req.user = u /\ req.stage = "create"
    BY DEF TokenJob, UserJob
  <2>3. tokens' \in [Tokens -> Token \union {Nobody}] /\ \A t \in Tokens : tokens'[t] # Nobody => tokens'[t].user \in born
    BY <1>0, <2>1 DEF Others, AccountRowsTyped, KnownUsers
  <2>4. Open(h) /\ Receive /\ u \in born /\ UNCHANGED <<users, born, profiles, customer, spent, latest, cut>>
    BY <1>0, <1>1, <2>1 DEF RequestToken, KnownUsers
  <2> QED
    BY <2>1, <2>2, <2>3, <2>4, Asks DEF Faithful
<1>2. CASE FindToken(h)
  <2>1. PICK t \in Tokens, k \in Kinds, p \in Passwords :
          /\ Usable(t, k) /\ shared' = shared \union Meets(tokens[t].user)
          /\ Become(h, [stage |-> "mark", user |-> tokens[t].user, kind |-> k, token |-> t,
                         row |-> tokens[t], password |-> p])
    BY <1>2 DEF FindToken
  <2> DEFINE req == [stage |-> "mark", user |-> tokens[t].user, kind |-> k, token |-> t,
                     row |-> tokens[t], password |-> p]
  <2>2. tokens[t] \in Token /\ tokens[t].user \in Users /\ tokens[t].user \in born
    BY <1>0, <2>1 DEF Usable, AccountRowsTyped, KnownUsers, Token
  <2>3. req \in UserJob /\ req.user = tokens[t].user /\ req.stage = "mark" /\ req.row.user = req.user
    BY <2>2 DEF MarkJob, UserJob
  <2>4. Open(h) /\ Receive /\ UNCHANGED <<users, born, profiles, customer, tokens, spent, latest, cut>>
    BY <1>2 DEF FindToken, rowVars
  <2> QED
    BY <1>0, <2>1, <2>2, <2>3, <2>4, Asks DEF Faithful, AccountRowsTyped, KnownUsers
<1>3. ASSUME NEW u \in Users, NEW req \in SaveJobs \union EditJob, users[u] # Nobody, req.user = u,
             req.stage \in {"save", "edit"}, Faithful(req, users[u].password), Open(h), Receive, Become(h, req),
             shared' = shared \union Meets(u), UNCHANGED <<rowVars, spent, latest, cut>>
      PROVE  AccountInv'
  <2>1. req \in UserJob /\ u \in born /\ UNCHANGED <<users, born, profiles, customer, tokens>>
    BY <1>0, <1>3 DEF UserJob, KnownUsers, rowVars
  <2> QED
    BY <1>0, <1>3, <2>1, Asks DEF AccountRowsTyped, KnownUsers
<1>4. CASE UpdateProfile(h)
  <2>1. PICK u \in Users, e \in Addresses :
          /\ users[u] # Nobody /\ shared' = shared \union Meets(u)
          /\ Become(h, [stage |-> "save", user |-> u, row |-> [users[u] EXCEPT !.email = e], sets |-> FALSE])
    BY <1>4 DEF UpdateProfile
  <2> DEFINE req == [stage |-> "save", user |-> u, row |-> [users[u] EXCEPT !.email = e], sets |-> FALSE]
  <2>2. users[u] \in User
    BY <1>0, <2>1 DEF AccountRowsTyped
  <2>3. req \in SaveJobs /\ req.user = u /\ req.stage = "save" /\ Faithful(req, users[u].password)
    BY <2>2 DEF SaveJobs, RenameJob, User, Faithful
  <2>4. Open(h) /\ Receive /\ UNCHANGED <<rowVars, spent, latest, cut>>
    BY <1>4 DEF UpdateProfile
  <2> HIDE DEF req
  <2> QED
    BY <1>3, <2>1, <2>3, <2>4 DEF req
<1>5. CASE AdminEdit(h)
  <2>1. PICK u \in Users, e \in Addresses, a \in BOOLEAN :
          /\ users[u] # Nobody /\ shared' = shared \union Meets(u)
          /\ Become(h, [stage |-> "edit", user |-> u,
                        row |-> [users[u] EXCEPT !.email = e, !.active = a]])
    BY <1>5 DEF AdminEdit
  <2> DEFINE req == [stage |-> "edit", user |-> u,
                     row |-> [users[u] EXCEPT !.email = e, !.active = a]]
  <2>2. users[u] \in User
    BY <1>0, <2>1 DEF AccountRowsTyped
  <2>3. req \in EditJob /\ req.user = u /\ req.stage = "edit" /\ Faithful(req, users[u].password)
    BY <2>2 DEF EditJob, User, Faithful
  <2>4. Open(h) /\ Receive /\ UNCHANGED <<rowVars, spent, latest, cut>>
    BY <1>5 DEF AdminEdit
  <2>5. Become(h, req)
    BY <2>1
  <2> HIDE DEF req
  <2> QED
    BY <1>3, <2>1, <2>3, <2>4, <2>5
<1>6. CASE AdminPassword(h)
  <2>1. PICK u \in Users, p \in Passwords :
          /\ users[u] # Nobody /\ shared' = shared \union Meets(u)
          /\ Become(h, [stage |-> "save", user |-> u, sets |-> TRUE, row |-> [users[u] EXCEPT !.password = p]])
    BY <1>6 DEF AdminPassword
  <2> DEFINE req == [stage |-> "save", user |-> u, sets |-> TRUE, row |-> [users[u] EXCEPT !.password = p]]
  <2>2. users[u] \in User
    BY <1>0, <2>1 DEF AccountRowsTyped
  <2>3. req \in SaveJobs /\ req.user = u /\ req.stage = "save" /\ Faithful(req, users[u].password)
    BY <2>2 DEF SaveJobs, RenameJob, User, Faithful
  <2>4. Open(h) /\ Receive /\ UNCHANGED <<rowVars, spent, latest, cut>>
    BY <1>6 DEF AdminPassword
  <2>5. Become(h, req)
    BY <2>1
  <2> HIDE DEF req
  <2> QED
    BY <1>3, <2>1, <2>3, <2>4, <2>5
<1> QED
  BY <1>1, <1>2, <1>4, <1>5, <1>6

\* A new user has no password that could be lost, and waits for its profile.
LEMMA Registers ==
  ASSUME AccountInv, NEW h \in Handlers, Register(h)
  PROVE  AccountInv'
<1>0. AccountRowsTyped /\ KnownUsers /\ Open(h)
  BY DEF AccountInv, Register
<1>1. PICK u \in Users, p \in Passwords, e \in Addresses :
        /\ u \notin born /\ users' = [users EXCEPT ![u] = NewUser(e)] /\ born' = born \union {u}
        /\ Become(h, [stage |-> "profile", user |-> u, resume |-> "password", password |-> p, email |-> e])
  BY DEF Register
<1> DEFINE req == [stage |-> "profile", user |-> u, resume |-> "password", password |-> p, email |-> e]
<1>2. req \in UserJob /\ req.user = u /\ req.stage = "profile" /\ req # << >>
  <2>1. DOMAIN req = {"stage", "user", "resume", "password", "email"} /\ DOMAIN << >> = {}
    OBVIOUS
  <2> QED
    BY <2>1 DEF InsertJob, UserJob
<1>3. UNCHANGED <<profiles, customer, tokens, spent, shared, latest, cut>> /\ Receive
  BY DEF Register, traceVars
<1>4. NewUser(e) \in User /\ NewUser(e).password = Nobody /\ latest[u] = Nobody /\ users[u] = Nobody
  BY <1>0, <1>1 DEF NewUser, User, KnownUsers
<1>5. AccountRowsTyped'
  BY <1>0, <1>1, <1>3, <1>4, AccountConstants DEF AccountRowsTyped, Receive
<1>6. KnownUsers'
  BY <1>0, <1>1, <1>3 DEF AccountRowsTyped, KnownUsers
<1>7. Meets(u) = {}
  <2>1. OnUser(u) = {}
    BY <1>1, JobAt DEF OnUser
  <2> QED
    BY <2>1 DEF Meets
<1>8. RequestsSound' /\ OneRequest'
  <2>1. req.user \in born' /\ born \subseteq born' /\ shared' = shared \union Meets(req.user) /\ Faithful(req, latest'[req.user])
    BY <1>1, <1>2, <1>3, <1>7 DEF Faithful
  <2> QED
    BY <1>0, <1>1, <1>2, <1>3, <2>1, Starts
<1>9. PasswordsKept'
  BY <1>0, <1>1, <1>3, <1>4 DEF PasswordsKept, AccountInv, AccountRowsTyped
<1>10. ProfilesAwaited'
  <2>1. ASSUME NEW v \in Users, users'[v] # Nobody PROVE users[v] # Nobody \/ req.user = v
    BY <1>0, <1>1, <1>2, <2>1 DEF AccountRowsTyped
  <2> QED
    BY <1>0, <1>1, <1>2, <1>3, <2>1, Awaited DEF OnTask
<1> QED
  BY <1>5, <1>6, <1>8, <1>9, <1>10 DEF AccountInv

\* An edit in the admin is saved with profile and role.
LEMMA AdminSaves ==
  ASSUME AccountInv, NEW h \in Handlers, AdminSave(h)
  PROVE  AccountInv'
<1> DEFINE u == handler[h].user
           row == handler[h].row
<1>0. /\ ~Open(h) /\ u \in Users /\ u \in born /\ AccountRowsTyped /\ KnownUsers
      /\ handler[h] \in EditJob /\ row \in User /\ handler[h].stage = "edit"
  BY JobAt DEF AdminSave, OnTask, AccountInv, EditJob
<1>1. u \notin shared => row.password = latest[u]
  BY <1>0 DEF AccountInv, RequestsSound, Sound, Faithful
<1>2. \/ UNCHANGED <<users, profiles, customer>>
      \/ /\ users' = [users EXCEPT ![u] = row]
         /\ users[u] # Nobody => UNCHANGED <<profiles, customer>>
         /\ users[u] = Nobody => profiles' = profiles \union {u} /\ customer' \in {customer, Given(u)}
  BY DEF AdminSave
<1>3. UNCHANGED <<born, tokens, received, spent, shared, latest, cut>> /\ Become(h, << >>)
  BY DEF AdminSave, traceVars, Close
<1>4. AccountRowsTyped'
  BY <1>0, <1>2, <1>3, GivenTyped DEF AccountRowsTyped
<1>5. KnownUsers'
  BY <1>0, <1>2, <1>3 DEF AccountRowsTyped, KnownUsers
<1>6. RequestsSound' /\ OneRequest'
  BY <1>0, <1>3, Continues
<1>7. PasswordsKept'
  <2> SUFFICES ASSUME NEW v \in Users, v \notin shared, users'[v] # Nobody
               PROVE  users'[v].password = latest[v]
    BY <1>3 DEF PasswordsKept
  <2>1. users'[v] = users[v] \/ (v = u /\ users'[v] = row)
    BY <1>0, <1>2 DEF AccountRowsTyped
  <2> QED
    BY <1>1, <2>1 DEF AccountInv, PasswordsKept
<1>8. ProfilesAwaited'
  <2>1. ASSUME NEW v \in Users, users'[v] # Nobody
        PROVE  (users[v] # Nobody /\ (v \in profiles => v \in profiles')) \/ v \in profiles'
    BY <1>0, <1>2, <2>1 DEF AccountRowsTyped
  <2> QED
    BY <1>0, <1>3, <2>1, Awaited DEF OnTask
<1> QED
  BY <1>4, <1>5, <1>6, <1>7, <1>8 DEF AccountInv

\* What no request of a thread does.
LEMMA NoRequest ==
  ASSUME AccountInv, handler' = handler, born \subseteq born', shared \subseteq shared', cut \subseteq cut',
         AccountRowsTyped', KnownUsers', \A v \in born : latest'[v] = latest[v],
         \A v \in Users : users'[v] # Nobody =>
           \/ users'[v] = users[v] /\ latest'[v] = latest[v] /\ (v \in profiles => v \in profiles' \union cut')
           \/ users'[v].password = latest'[v] /\ v \in profiles'
  PROVE  AccountInv'
<1>1. RequestsSound' /\ OneRequest'
  BY Rests
<1>2. PasswordsKept'
  BY DEF AccountInv, PasswordsKept
<1>3. ProfilesAwaited'
  BY DEF AccountInv, ProfilesAwaited, OnTask, Open
<1> QED
  BY <1>1, <1>2, <1>3 DEF AccountInv

LEMMA OthersAct ==
  ASSUME AccountInv,
         Expire \/ RemoveExpired \/ AdminCreate \/ AdminDelete \/ AdminDeleteProfile \/ AdminMoveProfile
         \/ AssignRole \/ RemoveRole
  PROVE  AccountInv'
<1>0. AccountRowsTyped /\ KnownUsers
  BY DEF AccountInv
<1>1. CASE Expire
  <2>1. PICK t \in Tokens : tokens[t] # Nobody /\ tokens' = [tokens EXCEPT ![t].usable = FALSE]
    BY <1>1 DEF Expire
  <2>2. tokens[t] \in Token
    BY <1>0, <2>1 DEF AccountRowsTyped
  <2> DEFINE row == [tokens[t] EXCEPT !.usable = FALSE]
  <2>3. row \in Token /\ row.user = tokens[t].user /\ tokens' = [tokens EXCEPT ![t] = row]
    BY <2>1, <2>2 DEF Token
  <2>4. UNCHANGED <<users, born, profiles, customer, handler, received, spent, shared, latest, cut>>
    BY <1>1 DEF Expire, traceVars
  <2> HIDE DEF row
  <2>5. AccountRowsTyped' /\ KnownUsers'
    BY <1>0, <2>1, <2>3, <2>4 DEF AccountRowsTyped, KnownUsers
  <2> QED
    BY <2>4, <2>5, NoRequest
<1>2. CASE RemoveExpired
  <2>1. UNCHANGED <<users, born, profiles, customer, handler, received, spent, shared, latest, cut>>
    BY <1>2 DEF RemoveExpired, traceVars
  <2>2. AccountRowsTyped' /\ KnownUsers'
    BY <1>0, <1>2, <2>1 DEF RemoveExpired, AccountRowsTyped, KnownUsers
  <2> QED
    BY <2>1, <2>2, NoRequest
<1>3. CASE AdminCreate
  <2>1. PICK u \in Users, p \in Passwords, e \in Addresses :
          /\ u \notin born /\ users' = [users EXCEPT ![u] = [NewUser(e) EXCEPT !.password = p]]
          /\ born' = born \union {u} /\ profiles' = profiles \union {u}
          /\ customer' \in {customer, Given(u)} /\ latest' = [latest EXCEPT ![u] = p]
    BY <1>3 DEF AdminCreate
  <2> DEFINE row == [NewUser(e) EXCEPT !.password = p]
  <2>2. row \in User /\ row.password = p /\ users' = [users EXCEPT ![u] = row]
    BY <2>1 DEF NewUser, User
  <2> HIDE DEF row
  <2>3. UNCHANGED <<tokens, handler, spent, shared, cut>> /\ Receive
    BY <1>3 DEF AdminCreate
  <2>4. AccountRowsTyped'
    <3>1. customer' \in [Users -> RoleState]
      BY <1>0, <2>1, GivenTyped DEF AccountRowsTyped
    <3>2. users' \in [Users -> User \union {Nobody}] /\ latest' \in [Users -> Passwords \union {Nobody}]
      BY <1>0, <2>1, <2>2 DEF AccountRowsTyped
    <3> QED
      BY <1>0, <2>1, <2>3, <3>1, <3>2, AccountConstants DEF AccountRowsTyped, Receive
  <2>5. KnownUsers'
    BY <1>0, <2>1, <2>2, <2>3 DEF AccountRowsTyped, KnownUsers
  <2>6. ASSUME NEW v \in Users PROVE
           \/ v # u /\ users'[v] = users[v] /\ latest'[v] = latest[v] /\ (v \in profiles => v \in profiles')
           \/ v = u /\ users'[v].password = latest'[v] /\ v \in profiles'
    BY <1>0, <2>1, <2>2 DEF AccountRowsTyped
  <2> QED
    BY <1>0, <2>1, <2>3, <2>4, <2>5, <2>6, NoRequest DEF AccountRowsTyped
<1>4. CASE AdminDelete
  <2>1. PICK u \in Users :
          /\ users' = [users EXCEPT ![u] = Nobody]
          /\ profiles' = profiles \ {u} /\ customer' = [customer EXCEPT ![u] = "none"]
          /\ tokens' = [t \in Tokens |->
               IF tokens[t] # Nobody /\ tokens[t].user = u THEN Nobody ELSE tokens[t]]
          /\ shared' = shared \union Meets(u)
    BY <1>4 DEF AdminDelete
  <2>2. UNCHANGED <<born, handler, spent, latest, cut>> /\ Receive
    BY <1>4 DEF AdminDelete
  <2>3. AccountRowsTyped'
    BY <1>0, <2>1, <2>2, AccountConstants DEF AccountRowsTyped, Receive, RoleState, Meets
  <2>4. KnownUsers'
    BY <1>0, <2>1, <2>2 DEF AccountRowsTyped, KnownUsers
  <2>5. ASSUME NEW v \in Users, users'[v] # Nobody
        PROVE  users'[v] = users[v] /\ latest'[v] = latest[v] /\ (v \in profiles => v \in profiles')
    BY <1>0, <2>1, <2>2, <2>5 DEF AccountRowsTyped
  <2> QED
    BY <2>1, <2>2, <2>3, <2>4, <2>5, NoRequest
<1>5. CASE AdminDeleteProfile \/ AdminMoveProfile
  <2>1. PICK u \in profiles : /\ profiles \ {u} \subseteq profiles' /\ profiles' \subseteq Users
                              /\ cut' = cut \union {u}
    BY <1>0, <1>5 DEF AdminDeleteProfile, AdminMoveProfile, AccountRowsTyped
  <2>2. UNCHANGED <<users, born, customer, tokens, handler, spent, shared, latest>> /\ Receive
    BY <1>5 DEF AdminDeleteProfile, AdminMoveProfile
  <2>3. AccountRowsTyped' /\ KnownUsers'
    BY <1>0, <2>1, <2>2, AccountConstants DEF AccountRowsTyped, KnownUsers, Receive
  <2> QED
    BY <2>1, <2>2, <2>3, NoRequest
<1>6. CASE AssignRole \/ RemoveRole
  <2>1. UNCHANGED <<users, born, profiles, tokens, handler, spent, shared, latest, cut>> /\ Receive
    BY <1>6 DEF AssignRole, RemoveRole, traceVars
  <2>2. customer' \in [Users -> RoleState]
    BY <1>0, <1>6, GivenTyped DEF AssignRole, RemoveRole, AccountRowsTyped, RoleState
  <2>3. AccountRowsTyped' /\ KnownUsers'
    BY <1>0, <2>1, <2>2, AccountConstants DEF AccountRowsTyped, KnownUsers, Receive
  <2> QED
    BY <2>1, <2>3, NoRequest
<1> QED
  BY <1>1, <1>2, <1>3, <1>4, <1>5, <1>6

LEMMA AccountStep ==
  ASSUME AccountInv, AccountNext \/ UNCHANGED accountVars
  PROVE  AccountInv'
<1>1. CASE UNCHANGED accountVars
  <2>1. AccountRowsTyped' /\ KnownUsers' /\ PasswordsKept'
    BY <1>1 DEF accountVars, AccountInv, AccountRowsTyped, KnownUsers, PasswordsKept
  <2> QED
    BY <1>1, <2>1, NoRequest DEF accountVars
<1>2. ASSUME NEW h \in Handlers, Vanish(h) PROVE AccountInv'
  <2>1. ~Open(h) /\ Become(h, << >>) /\ AccountRowsTyped /\ KnownUsers
        /\ UNCHANGED <<users, born, profiles, customer, tokens, received, spent, shared, latest>>
    BY <1>2 DEF Vanish, Close, rowVars, AccountInv
  <2>2. cut \subseteq cut' /\ cut' \subseteq Users /\ (handler[h].stage = "profile" => handler[h].user \in cut')
    BY <1>2, <2>1, JobAt DEF Vanish, AccountRowsTyped
  <2> QED
    BY <2>1, <2>2, Moves DEF OnTask, AccountRowsTyped, KnownUsers
<1>3. CASE AccountNext
  <2>1. ASSUME NEW h \in Handlers,
               \/ Register(h) \/ CreateProfile(h) \/ GiveRole(h) \/ SetPassword(h) \/ SecondProfile(h)
               \/ RequestToken(h) \/ MailToken(h) \/ CreateToken(h) \/ AssignCustomer(h)
               \/ FindToken(h) \/ MarkToken(h) \/ ReadUser(h) \/ SaveUser(h)
               \/ UpdateProfile(h) \/ AdminEdit(h) \/ AdminPassword(h) \/ AdminSave(h)
               \/ Vanish(h)
        PROVE  AccountInv'
    BY <1>2, <2>1, Registers, InsertsGoOn, TokensGoOn, UsersSaved, RequestsBegin, AdminSaves
  <2> QED
    BY <1>3, <2>1, OthersAct DEF AccountNext
<1> QED
  BY <1>1, <1>2, <1>3

\* The inductive invariant of the accounts.
THEOREM AccountInvariance == AuthSpec => []AccountInv
<1>1. AuthInit => AccountInv
  BY AccountsStart DEF AuthInit
<1>2. AccountInv /\ [AuthNext]_authVars => AccountInv'
  BY AccountStep DEF AuthNext, OfLimits, OfAccounts, authVars
<1> QED
  BY <1>1, <1>2, PTL DEF AuthSpec

\* Unless requests about a user overlapped, the user has the password that was
\* set last, although every save of a user writes all columns as they were read.
THEOREM PasswordsAreKept == AuthSpec => []KeepsPassword
<1>1. AccountInv => KeepsPassword
  BY DEF AccountInv, PasswordsKept, KeepsPassword
<1> QED
  BY <1>1, AccountInvariance, PTL

\* Every user that no request is about has a profile, unless a request died right
\* after inserting it or the admin deleted the profile or gave it to another.
THEOREM EverybodyHasProfile == AuthSpec => []HasProfile
<1>1. AccountInv => HasProfile
  BY DEF AccountInv, ProfilesAwaited, HasProfile, OnUser, OnTask
<1> QED
  BY <1>1, AccountInvariance, PTL

-----------------------------------------------------------------------------
(* The limit on failed attempts. *)

LimitTyped ==
  /\ failed \subseteq Attempt /\ IsFiniteSet(failed)
  /\ server \in [Servers -> [caller : Callers, stage : {"refuse", "authenticate", "fail", "register"}] \union {<< >>}]

\* The logins that have passed the check and may still fail.
Checked(e) == {w \in Servers : /\ ~Resting(w) /\ server[w].stage \in {"authenticate", "fail"}
                               /\ server[w].caller[1] = e}

SlipBound == \A e \in Emails :
  Cardinality(Slipped(e)) + Cardinality(Checked(e)) < LoginMax + Cardinality(Servers)

LimitInv == LimitTyped /\ SlipBound

\* Sizes.
LEMMA LimitSizes ==
  ASSUME LimitTyped, NEW e
  PROVE  /\ IsFiniteSet(Slipped(e)) /\ Cardinality(Slipped(e)) \in Nat
         /\ IsFiniteSet(Checked(e)) /\ Cardinality(Checked(e)) \in Nat
         /\ Cardinality(Checked(e)) <= Cardinality(Servers) /\ Cardinality(Servers) \in Nat
         /\ LoginMax \in Nat
BY LimitConstants, FS_Subset, FS_CardinalityType DEF LimitTyped, Slipped, Checked

\* Nothing that counts is added.
LEMMA SlipKept ==
  ASSUME LimitInv, LimitTyped', NEW e \in Emails, Slipped(e)' \subseteq Slipped(e), Checked(e)' \subseteq Checked(e)
  PROVE  Cardinality(Slipped(e)') + Cardinality(Checked(e)') < LoginMax + Cardinality(Servers)
<1> DEFINE a == Cardinality(Slipped(e))
           b == Cardinality(Checked(e))
           x == Cardinality(Slipped(e)')
           y == Cardinality(Checked(e)')
           n == Cardinality(Servers)
<1>1. LimitTyped /\ a + b < LoginMax + n
  BY DEF LimitInv, SlipBound
<1>2. a \in Nat /\ b \in Nat /\ n \in Nat /\ LoginMax \in Nat /\ IsFiniteSet(Slipped(e)) /\ IsFiniteSet(Checked(e))
  BY <1>1, LimitSizes
<1>3. x <= a /\ x \in Nat
  BY <1>2, FS_Subset, FS_CardinalityType
<1>4. y <= b /\ y \in Nat
  BY <1>2, FS_Subset, FS_CardinalityType
<1> HIDE DEF a, b, x, y, n
<1>5. x + y < LoginMax + n
  BY <1>1, <1>2, <1>3, <1>4
<1> QED
  BY <1>5 DEF x, y, n

\* A request moves on without logging anything.
LEMMA ServingMoves ==
  ASSUME LimitInv, NEW w \in Servers, failed' = failed, NEW req, server' = [server EXCEPT ![w] = req],
         \/ req = << >>
         \/ /\ req \in [caller : Callers, stage : {"refuse", "authenticate", "fail", "register"}]
            /\ \/ req.stage \in {"refuse", "register"}
               \/ /\ ~Resting(w) /\ server[w].stage = "authenticate" /\ req.caller = server[w].caller
  PROVE  LimitInv'
<1>1. LimitTyped /\ SlipBound
  BY DEF LimitInv
<1>2. LimitTyped'
  BY <1>1 DEF LimitTyped
<1>3. ASSUME NEW e \in Emails PROVE Slipped(e)' \subseteq Slipped(e) /\ Checked(e)' \subseteq Checked(e)
  <2>1. ASSUME NEW v \in Servers, v \in Checked(e)' PROVE v \in Checked(e)
    <3>1. CASE v # w
      BY <1>1, <2>1, <3>1 DEF Checked, Resting, LimitTyped
    <3>2. CASE v = w
      BY <1>1, <2>1, <3>2 DEF Checked, Resting, LimitTyped
    <3> QED
      BY <3>1, <3>2
  <2> QED
    BY <2>1 DEF Slipped, Checked
<1> QED
  BY <1>2, <1>3, SlipKept DEF LimitInv, SlipBound

LEMMA LoginsChecked ==
  ASSUME LimitInv, NEW w \in Servers, Login(w)
  PROVE  LimitInv'
<1>1. PICK c \in Callers : Serves(w, c, IF LoginLimited(c) THEN "refuse" ELSE "authenticate")
  BY DEF Login
<1>2. LimitTyped /\ SlipBound /\ failed' = failed /\ Resting(w)
  BY DEF LimitInv, Login
<1>3. CASE LoginLimited(c)
  <2> DEFINE req == [caller |-> c, stage |-> "refuse"]
  <2>1. server' = [server EXCEPT ![w] = req]
    BY <1>1, <1>3 DEF Serves
  <2> QED
    BY <1>2, <2>1, ServingMoves
<1>4. CASE ~LoginLimited(c)
  <2>1. server' = [server EXCEPT ![w] = [caller |-> c, stage |-> "authenticate"]]
    BY <1>1, <1>4 DEF Serves
  <2>2. LimitTyped'
    BY <1>2, <2>1 DEF LimitTyped
  <2>3. ASSUME NEW e \in Emails
        PROVE  Cardinality(Slipped(e)') + Cardinality(Checked(e)') < LoginMax + Cardinality(Servers)
    <3>1. CASE e # c[1]
      <4>1. Slipped(e)' \subseteq Slipped(e) /\ Checked(e)' \subseteq Checked(e)
        BY <1>2, <2>1, <3>1 DEF Slipped, Checked, Resting, LimitTyped
      <4> QED
        BY <2>2, <4>1, SlipKept
    <3>2. CASE e = c[1]
      <4> DEFINE recent == {r \in failed : r.caller \in {d \in Callers : d[1] = e} /\ r.age < LoginWindow}
      <4>1. IsFiniteSet(recent) /\ Cardinality(recent) \in Nat
        BY <1>2, FS_Subset, FS_CardinalityType DEF LimitTyped
      <4>2. ~(Cardinality(recent) >= LoginMax)
        BY <1>4, <3>2 DEF LoginLimited, Limited, Recent
      <4>3. Slipped(e)' \subseteq recent
        BY <1>2 DEF Slipped, LimitTyped, Attempt
      <4>4. Cardinality(Slipped(e)') <= Cardinality(recent) /\ Cardinality(Slipped(e)') \in Nat
        BY <4>1, <4>3, FS_Subset, FS_CardinalityType
      <4>5. /\ Cardinality(Checked(e)') <= Cardinality(Servers) /\ Cardinality(Checked(e)') \in Nat
            /\ Cardinality(Servers) \in Nat /\ LoginMax \in Nat
        BY <2>2, LimitConstants, FS_Subset, FS_CardinalityType DEF Checked
      <4> QED
        BY <4>1, <4>2, <4>4, <4>5
    <3> QED
      BY <3>1, <3>2
  <2> QED
    BY <2>2, <2>3 DEF LimitInv, SlipBound
<1> QED
  BY <1>3, <1>4

\* An attempt is logged: a refused one does not count, another did already.
LEMMA AttemptsLogged ==
  ASSUME LimitInv, NEW w \in Servers, Refuse(w) \/ LogFailure(w)
  PROVE  LimitInv'
<1> DEFINE c == server[w].caller
<1>1. LimitTyped /\ SlipBound /\ ~Resting(w) /\ server' = [server EXCEPT ![w] = << >>]
  BY DEF LimitInv, Refuse, LogFailure, Serving, Rest
<1>2. c \in Callers /\ 0 \in 0 .. RegisterWindow - 1
  BY <1>1, LimitConstants DEF LimitTyped, Resting
<1>3. PICK r \in Attempt : /\ r.caller = c
                           /\ failed' = failed \/ failed' = failed \union {r}
                           /\ Refuse(w) => r.passed = FALSE
  <2>1. ASSUME NEW passed \in BOOLEAN, LogAttempt(c, passed)
        PROVE  \E r \in Attempt : /\ r.caller = c /\ r.passed = passed
                                  /\ failed' = failed \/ failed' = failed \union {r}
    <3> DEFINE like == {s \in failed : s.caller = c /\ s.age = 0 /\ s.passed = passed}
               r    == [caller |-> c, age |-> 0, passed |-> passed, n |-> Cardinality(like)]
    <3>1. Cardinality(like) \in Nat
      BY <1>1, FS_Subset, FS_CardinalityType DEF LimitTyped
    <3>2. r \in Attempt /\ r.caller = c /\ r.passed = passed
      BY <1>2, <2>1, <3>1 DEF Attempt
    <3>3. failed' = failed \/ failed' = failed \union {r}
      BY <2>1 DEF LogAttempt
    <3> HIDE DEF r
    <3> QED
      BY <3>2, <3>3
  <2>2. CASE Refuse(w)
    <3>1. LogAttempt(c, FALSE)
      BY <2>2 DEF Refuse
    <3>2. PICK r \in Attempt : /\ r.caller = c /\ r.passed = FALSE
                               /\ failed' = failed \/ failed' = failed \union {r}
      BY <2>1, <3>1
    <3> QED
      BY <3>2
  <2>3. CASE LogFailure(w) /\ ~Refuse(w)
    <3>1. LogAttempt(c, TRUE)
      BY <2>3 DEF LogFailure
    <3>2. PICK r \in Attempt : /\ r.caller = c /\ r.passed = TRUE
                               /\ failed' = failed \/ failed' = failed \union {r}
      BY <2>1, <3>1
    <3>3. ~Refuse(w)
      BY <2>3
    <3> QED
      BY <3>2, <3>3
  <2> QED
    BY <2>2, <2>3
<1>4. LimitTyped'
  <2>1. IsFiniteSet(failed')
    BY <1>1, <1>3, FS_AddElement DEF LimitTyped
  <2> QED
    BY <1>1, <1>3, <2>1 DEF LimitTyped
<1>5. ASSUME NEW e PROVE Checked(e)' \subseteq Checked(e)
  BY <1>1 DEF Checked, Resting, LimitTyped
<1>6. ASSUME NEW e \in Emails
      PROVE  Cardinality(Slipped(e)') + Cardinality(Checked(e)') < LoginMax + Cardinality(Servers)
  <2>1. CASE Refuse(w) \/ e # c[1]
    <3>1. Slipped(e)' \subseteq Slipped(e)
      BY <1>3, <2>1 DEF Slipped
    <3> QED
      BY <1>4, <1>5, <3>1, SlipKept
  <2>2. CASE LogFailure(w) /\ e = c[1]
    <3> DEFINE a == Cardinality(Slipped(e))
               b == Cardinality(Checked(e))
               x == Cardinality(Slipped(e)')
               y == Cardinality(Checked(e)')
               n == Cardinality(Servers)
    <3>1. /\ a \in Nat /\ b \in Nat /\ n \in Nat /\ LoginMax \in Nat /\ a + b < LoginMax + n
          /\ IsFiniteSet(Slipped(e)) /\ IsFiniteSet(Checked(e))
      BY <1>1, LimitSizes DEF SlipBound
    <3>2. Slipped(e)' \subseteq Slipped(e) \union {r}
      BY <1>3 DEF Slipped
    <3>3. x <= a + 1 /\ x \in Nat
      <4>0. Cardinality(Slipped(e) \union {r}) = (IF r \in Slipped(e) THEN a ELSE a + 1)
            /\ IsFiniteSet(Slipped(e) \union {r})
        BY <3>1, FS_AddElement
      <4>1. IsFiniteSet(Slipped(e) \union {r}) /\ Cardinality(Slipped(e) \union {r}) <= a + 1
            /\ Cardinality(Slipped(e) \union {r}) \in Nat
        <5> HIDE DEF a
        <5> QED
          BY <3>1, <4>0
      <4>2. x <= Cardinality(Slipped(e) \union {r}) /\ x \in Nat
        BY <3>2, <4>1, FS_Subset, FS_CardinalityType
      <4> HIDE DEF x, a
      <4> QED
        BY <3>1, <4>1, <4>2
    <3>4. w \in Checked(e) /\ w \notin Checked(e)'
      BY <1>1, <2>2 DEF Checked, LogFailure, Serving, Resting, LimitTyped
    <3>5. y <= b - 1 /\ y \in Nat
      <4>1. Checked(e)' \subseteq Checked(e) \ {w}
        BY <1>5, <3>4
      <4>2. IsFiniteSet(Checked(e) \ {w}) /\ Cardinality(Checked(e) \ {w}) = b - 1
        BY <3>1, <3>4, FS_RemoveElement
      <4> QED
        BY <4>1, <4>2, FS_Subset, FS_CardinalityType
    <3> HIDE DEF a, b, x, y, n
    <3>6. x + y < LoginMax + n
      BY <3>1, <3>3, <3>5
    <3> QED
      BY <3>6 DEF x, y, n
  <2> QED
    BY <2>1, <2>2
<1> QED
  BY <1>4, <1>6 DEF LimitInv, SlipBound

\* As rows grow older, none is added to those within the window.
LEMMA AttemptsAge ==
  ASSUME LimitInv, Tick
  PROVE  LimitInv'
<1> DEFINE D == {r \in failed : r.age + 1 < RegisterWindow}
           f == [r \in D |-> [r EXCEPT !.age = @ + 1]]
<1>1. LimitTyped /\ SlipBound /\ server' = server /\ failed' = {f[r] : r \in D}
  BY DEF LimitInv, Tick
<1>2. \A r \in D : /\ f[r] \in Attempt /\ f[r].caller = r.caller /\ f[r].passed = r.passed
                    /\ f[r].age = r.age + 1 /\ r.age \in Nat
  <2> SUFFICES ASSUME NEW r \in D
               PROVE  /\ f[r] \in Attempt /\ f[r].caller = r.caller /\ f[r].passed = r.passed
                      /\ f[r].age = r.age + 1 /\ r.age \in Nat
    OBVIOUS
  <2>1. r \in Attempt /\ r.age \in 0 .. RegisterWindow - 1 /\ r.age + 1 < RegisterWindow
    BY <1>1 DEF LimitTyped, Attempt
  <2>2. r.age + 1 \in 0 .. RegisterWindow - 1 /\ r.age \in Nat
    BY <2>1, LimitConstants
  <2>3. f[r] = [r EXCEPT !.age = r.age + 1]
    OBVIOUS
  <2> HIDE DEF f
  <2> QED
    BY <2>1, <2>2, <2>3 DEF Attempt
<1>3. ASSUME NEW S \in SUBSET D
      PROVE  LET T == {f[r] : r \in S} IN
             /\ IsFiniteSet(S) /\ IsFiniteSet(T) /\ Cardinality(T) <= Cardinality(S)
             /\ Cardinality(T) \in Nat /\ Cardinality(S) \in Nat
  <2> DEFINE T == {f[r] : r \in S}
             g == [r \in S |-> f[r]]
  <2>1. IsFiniteSet(S)
    BY <1>1, FS_Subset DEF LimitTyped
  <2>2. g \in Surjection(S, T)
    BY DEF Surjection
  <2> QED
    BY <2>1, <2>2, FS_Surjection, FS_CardinalityType
<1>4. LimitTyped'
  BY <1>1, <1>2, <1>3 DEF LimitTyped
<1>5. ASSUME NEW e \in Emails
      PROVE  Cardinality(Slipped(e)') + Cardinality(Checked(e)') < LoginMax + Cardinality(Servers)
  <2> DEFINE S == {r \in D : r.caller[1] = e /\ r.passed /\ r.age + 1 < LoginWindow}
             T == {f[r] : r \in S}
  <2>1. Slipped(e)' \subseteq T
    BY <1>1, <1>2 DEF Slipped
  <2>2. S \subseteq Slipped(e)
    <3>1. \A r \in D : r.age \in Nat /\ r \in failed
      BY <1>2
    <3> QED
      BY <3>1, LimitConstants DEF Slipped
  <2>3. Checked(e)' = Checked(e)
    BY <1>1 DEF Checked, Resting
  <2> DEFINE a == Cardinality(Slipped(e))
             b == Cardinality(Checked(e))
             x == Cardinality(Slipped(e)')
             n == Cardinality(Servers)
  <2>4. /\ a \in Nat /\ b \in Nat /\ n \in Nat /\ LoginMax \in Nat /\ a + b < LoginMax + n
        /\ IsFiniteSet(Slipped(e))
    BY <1>1, LimitSizes DEF SlipBound
  <2>5. /\ IsFiniteSet(S) /\ IsFiniteSet(T) /\ Cardinality(T) <= Cardinality(S)
        /\ Cardinality(T) \in Nat /\ Cardinality(S) \in Nat
    BY <1>3
  <2>6. Cardinality(S) <= a
    BY <2>2, <2>4, FS_Subset
  <2>7. x <= Cardinality(T) /\ x \in Nat
    BY <2>1, <2>5, FS_Subset, FS_CardinalityType
  <2> HIDE DEF a, b, x, n, S, T
  <2>8. x + b < LoginMax + n
    BY <2>4, <2>5, <2>6, <2>7
  <2> QED
    BY <2>3, <2>8 DEF x, b, n
<1> QED
  BY <1>4, <1>5 DEF LimitInv, SlipBound

LEMMA LimitStarts == LimitInit => LimitInv
<1> SUFFICES ASSUME LimitInit PROVE LimitInv
  OBVIOUS
<1>1. LimitTyped
  BY FS_EmptySet DEF LimitInit, LimitTyped
<1>2. ASSUME NEW e \in Emails
      PROVE  Cardinality(Slipped(e)) + Cardinality(Checked(e)) < LoginMax + Cardinality(Servers)
  <2>1. Slipped(e) = {} /\ Checked(e) = {}
    BY DEF LimitInit, Slipped, Checked, Resting
  <2>2. Cardinality({}) = 0 /\ Cardinality(Servers) \in Nat /\ LoginMax \in Nat \ {0}
    BY LimitConstants, FS_EmptySet, FS_CardinalityType
  <2> QED
    BY <2>1, <2>2
<1> QED
  BY <1>1, <1>2 DEF LimitInv, SlipBound

LEMMA LimitStep ==
  ASSUME LimitInv, LimitNext \/ UNCHANGED limitVars
  PROVE  LimitInv'
<1>0. LimitTyped
  BY DEF LimitInv
<1>1. CASE UNCHANGED limitVars
  BY <1>1 DEF limitVars, LimitInv, LimitTyped, SlipBound, Slipped, Checked, Resting
<1>2. ASSUME NEW w \in Servers, Authenticate(w) PROVE LimitInv'
  <2>1. /\ ~Resting(w) /\ server[w].stage = "authenticate" /\ failed' = failed
        /\ \/ Serves(w, server[w].caller, "fail")
           \/ Rest(w)
    BY <1>2 DEF Authenticate, Serving
  <2>2. server[w].caller \in Callers
    BY <1>0, <2>1 DEF LimitTyped, Resting
  <2>3. CASE Rest(w)
    BY <2>1, <2>3, ServingMoves DEF Rest
  <2>4. CASE Serves(w, server[w].caller, "fail")
    <3> DEFINE req == [caller |-> server[w].caller, stage |-> "fail"]
    <3>1. server' = [server EXCEPT ![w] = req]
      BY <2>4 DEF Serves
    <3> QED
      BY <2>1, <2>2, <3>1, ServingMoves
  <2> QED
    BY <2>1, <2>3, <2>4
<1>3. ASSUME NEW w \in Servers, AskToRegister(w) PROVE LimitInv'
  <2>1. PICK c \in Callers : Serves(w, c, "register")
    BY <1>3 DEF AskToRegister
  <2> DEFINE req == [caller |-> c, stage |-> "register"]
  <2>2. server' = [server EXCEPT ![w] = req] /\ failed' = failed
    BY <1>3, <2>1 DEF Serves, AskToRegister
  <2> QED
    BY <2>2, ServingMoves
<1>4. ASSUME NEW w \in Servers, Registered(w) \/ Perish(w) PROVE LimitInv'
  BY <1>4, ServingMoves DEF Registered, Perish, Rest
<1>5. CASE LimitNext
  BY <1>2, <1>3, <1>4, <1>5, LoginsChecked, AttemptsLogged, AttemptsAge DEF LimitNext
<1> QED
  BY <1>1, <1>5

\* The inductive bound: failures that slipped through, and logins still on their
\* way, of any email.
THEOREM LimitInvariance == AuthSpec => []LimitInv
<1>1. AuthInit => LimitInv
  BY LimitStarts DEF AuthInit
<1>2. LimitInv /\ [AuthNext]_authVars => LimitInv'
  BY LimitStep DEF AuthNext, OfLimits, OfAccounts, authVars
<1> QED
  BY <1>1, <1>2, PTL DEF AuthSpec

\* However many logins overlap, fewer failures of an email than the limit plus the
\* number of threads pass the check within a window.
THEOREM FewSlipThrough == AuthSpec => []AttemptsBounded
<1>1. LimitInv => AttemptsBounded
  <2> SUFFICES ASSUME LimitInv, NEW e \in Emails
               PROVE  Cardinality(Slipped(e)) + Cardinality(Pending(e)) < LoginMax + Cardinality(Servers)
    BY DEF AttemptsBounded
  <2>1. LimitTyped /\ Cardinality(Slipped(e)) + Cardinality(Checked(e)) < LoginMax + Cardinality(Servers)
    BY DEF LimitInv, SlipBound
  <2>2. Pending(e) \subseteq Checked(e)
    BY DEF Pending, Checked, Serving
  <2>3. /\ Cardinality(Pending(e)) <= Cardinality(Checked(e)) /\ Cardinality(Pending(e)) \in Nat
        /\ Cardinality(Slipped(e)) \in Nat /\ Cardinality(Checked(e)) \in Nat
        /\ Cardinality(Servers) \in Nat /\ LoginMax \in Nat
    BY <2>1, <2>2, LimitSizes, FS_Subset, FS_CardinalityType
  <2> QED
    BY <2>1, <2>3
<1> QED
  BY <1>1, LimitInvariance, PTL
=============================================================================
