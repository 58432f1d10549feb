------------------------------ MODULE Payments ------------------------------
(***************************************************************************)
(* The payment service (payments/views.py).  A worker handles a request as *)
(* a sequence of SQL statements that commit one by one (the payment tables *)
(* are not on the database that transaction.atomic() covers).  save()      *)
(* writes every column of the row from the instance the handler read, and  *)
(* inserts the row again when it has been deleted meanwhile.  Webhooks     *)
(* come in any order and more than once, say any amount, and nothing shows *)
(* that the provider sent them: the check of the signature is commented    *)
(* out.                                                                    *)
(***************************************************************************)
EXTENDS Integers, Sequences

CONSTANTS
  Ids,           \* ids of Payment rows
  Workers,       \* processes that handle requests
  Hooks,         \* bound: deliveries of webhooks, each inserts a row of PaymentWebhook
  Prices,        \* bound: values of Payment.amount
  Amounts,       \* bound: amounts that a client, the provider or the admin may name
  MaxRequests,   \* bound: requests that are accepted in a behaviour
  Missing        \* a row that does not exist

PaymentStatus == {"pending", "processing", "authorized", "captured", "succeeded", "failed",
                  "cancelled", "refunded", "partially_refunded", "disputed"}

\* Statuses an operator gives with PATCH or in a form; bound: one of each kind the code tells apart.
Patched == {"captured", "cancelled"}

SubscriptionStatus == {"active", "canceled"}   \* bound: two of six

\* refunded_amount has no validator, neither lower nor upper.
Payment == [status : PaymentStatus, amount : Nat, refunded : Int]

ASSUME PaymentConstants ==
  /\ Prices \subseteq Nat /\ Amounts \subseteq Int
  /\ MaxRequests \in Nat
  /\ Missing \notin Payment

EventType == {"payment_intent.succeeded", "payment_intent.payment_failed",
              "charge.refunded", "charge.dispute.created"}

\* What makes a handler write a refunded amount that somebody outside has named.
Outside == {"charge.refunded", "form"}

Statement == {"store", "find", "refund", "dispute", "save", "processed", "failed", "subscription"}

Job ==
  [todo   : Seq(Statement),              \* statements still to run
   id     : Ids,                         \* the payment it is about
   holds  : BOOLEAN,                     \* it has read that payment
   copy   : Payment,                     \* ... and will write this
   amount : Int,                         \* of the Refund row, amount_refunded of the event
   event  : EventType \union {"form", Missing},   \* what a webhook says; or a form of the admin
   sound  : BOOLEAN,                     \* its amount and ids can be read and stored
   hook   : Hooks \union {Missing},     \* ... and the row that keeps it
   status : SubscriptionStatus]          \* to be written to the subscription

VARIABLES
  payment,       \* the rows of Payment
  fresh,         \* ids that have never had a row
  requested,     \* what the Refund rows of each payment add up to
  disputes,      \* number of PaymentDispute rows of each payment
  webhook,       \* the rows of PaymentWebhook
  subscription,  \* status of a Subscription row
  job,           \* what each worker is doing
  budget,        \* requests still to arrive
  disturbed,     \* history: payments that two handlers held at once, or that a
                 \* handler cut short between two writes held
  apart,         \* history: payments whose refunded amount or Refund rows were set without
                 \* the other, by a webhook, a form of the admin or RefundListCreateView
  overstated,    \* history: payments of which a webhook or the admin said that more was
                 \* refunded than paid
  lost           \* history: webhooks whose handler was cut short

vars == <<payment, fresh, requested, disputes, webhook, subscription, job, budget,
          disturbed, apart, overstated, lost>>

Unborn(price) == [status |-> "pending", amount |-> price, refunded |-> 0]
NoCopy == Unborn(0)

TypeOK ==
  /\ payment \in [Ids -> Payment \union {Missing}]
  /\ fresh \subseteq Ids
  /\ requested \in [Ids -> Int]
  /\ disputes \in [Ids -> Nat]
  /\ webhook \in [Hooks -> {"none", "pending", "processed", "failed"}]
  /\ subscription \in SubscriptionStatus
  /\ \A w \in Workers : job[w] = << >> \/ job[w] \in Job
  /\ budget \in 0 .. MaxRequests
  /\ disturbed \subseteq Ids
  /\ apart \subseteq Ids /\ overstated \subseteq apart
  /\ lost \subseteq Hooks

Init ==
  /\ payment = [p \in Ids |-> Missing]
  /\ fresh = Ids
  /\ requested = [p \in Ids |-> 0]
  /\ disputes = [p \in Ids |-> 0]
  /\ webhook = [h \in Hooks |-> "none"]
  /\ subscription = "active"
  /\ job = [w \in Workers |-> << >>]
  /\ budget = MaxRequests
  /\ disturbed = {}
  /\ apart = {} /\ overstated = {}
  /\ lost = {}

Exists(p) == payment[p] # Missing
Busy(w)   == job[w] # << >>
Held(p)   == \E w \in Workers : Busy(w) /\ job[w].holds /\ job[w].id = p

-----------------------------------------------------------------------------
(* Payment and the decisions of the handlers. *)

\* Payment.can_refund
CanRefund(row) == row.status \in {"succeeded", "captured"}

\* Payment.refundable_amount
Refundable(row) == row.amount - row.refunded

Mut_Granted(row, a) == IF a = 0 THEN row.amount ELSE a
\* RefundRequestSerializer: an amount that is absent or zero means all of the rest.
Granted(row, a) == IF a = 0 THEN Refundable(row) ELSE a

\* The status a refunded amount gives the row.
WithRefunded(row, total) ==
  [status   |-> IF total >= row.amount THEN "refunded" ELSE "partially_refunded",
   amount   |-> row.amount,
   refunded |-> total]

\* What the handler of a webhook makes of the row it has read.
Applied(event, row, a) ==
  CASE event = "payment_intent.succeeded"      -> [row EXCEPT !.status = "succeeded"]
    [] event = "payment_intent.payment_failed" -> [row EXCEPT !.status = "failed"]
    [] event = "charge.refunded"               -> WithRefunded(row, a)
    [] event = "charge.dispute.created"        -> [row EXCEPT !.status = "disputed"]

-----------------------------------------------------------------------------
(* Requests arrive. *)

Task(todo, p, holds, copy, a) ==
  [todo |-> todo, id |-> p, holds |-> holds, copy |-> copy, amount |-> a,
   event |-> Missing, sound |-> TRUE, hook |-> Missing, status |-> "canceled"]

Start(w, task) ==
  /\ ~Busy(w)
  /\ budget > 0
  /\ budget' = budget - 1
  /\ job' = [job EXCEPT ![w] = task]
  /\ disturbed' = disturbed \union {p \in {task.id} : task.holds /\ Held(p)}

\* PaymentListCreateView.post: one INSERT.
CreatePayment(p) ==
  /\ p \in fresh
  /\ fresh' = fresh \ {p}
  /\ \E price \in Prices : payment' = [payment EXCEPT ![p] = Unborn(price)]
  /\ UNCHANGED <<requested, disputes, webhook, subscription, job, budget, disturbed, apart,
                 overstated, lost>>

\* PaymentDetailView.put, patch: the operator sets the status, save() writes the row.
UpdatePayment(w, p) ==
  /\ Exists(p)
  /\ \E s \in Patched :
       Start(w, Task(<<"save">>, p, TRUE, [payment[p] EXCEPT !.status = s], 0))
  /\ UNCHANGED <<payment, fresh, requested, disputes, webhook, subscription, apart, overstated, lost>>

\* PaymentDetailView.delete: one DELETE, which takes refunds and disputes along.
DestroyPayment(p) ==
  /\ Exists(p)
  /\ budget > 0
  /\ budget' = budget - 1
  /\ payment' = [payment EXCEPT ![p] = Missing]
  /\ requested' = [requested EXCEPT ![p] = 0]
  /\ disputes' = [disputes EXCEPT ![p] = 0]
  /\ disturbed' = IF Held(p) THEN disturbed \union {p} ELSE disturbed
  /\ UNCHANGED <<fresh, webhook, subscription, job, apart, overstated, lost>>

\* RefundRequestView.post: the serializer reads the payment and checks an amount that is
\* given, negative ones included, and not zero.
RequestRefund(w, p) ==
  /\ Exists(p)
  /\ CanRefund(payment[p])
  /\ \E a \in Amounts \union {0} :
       LET granted == Granted(payment[p], a) IN
       /\ a # 0 => a <= Refundable(payment[p])
       /\ Start(w, Task(<<"refund", "save">>, p, TRUE,
                        WithRefunded(payment[p], payment[p].refunded + granted), granted))
  /\ UNCHANGED <<payment, fresh, requested, disputes, webhook, subscription, apart, overstated, lost>>

\* RefundListCreateView.post inserts a Refund row, of a positive amount, whatever the
\* payment's status, and leaves the payment alone.
ListRefund(w, p) ==
  /\ Exists(p)
  /\ \E a \in Amounts :
       /\ 0 < a /\ a <= Refundable(payment[p])
       /\ Start(w, Task(<<"refund">>, p, FALSE, NoCopy, a))
  /\ apart' = apart \union {p}
  /\ UNCHANGED <<payment, fresh, requested, disputes, webhook, subscription, overstated, lost>>

\* The actions of the admin: one UPDATE of the status, whatever it was.
AdminMark(p) ==
  /\ Exists(p)
  /\ \E s \in {"succeeded", "failed", "refunded"} : payment' = [payment EXCEPT ![p].status = s]
  /\ UNCHANGED <<fresh, requested, disputes, webhook, subscription, job, budget, disturbed, apart,
                 overstated, lost>>

\* The add and change forms of the admin write the columns as they are filled in.
AdminAdd(p) ==
  /\ p \in fresh
  /\ budget > 0
  /\ budget' = budget - 1
  /\ fresh' = fresh \ {p}
  /\ \E s \in Patched, price \in Prices, a \in Amounts :
       /\ payment' = [payment EXCEPT ![p] = [status |-> s, amount |-> price, refunded |-> a]]
       /\ overstated' = IF a > price THEN overstated \union {p} ELSE overstated
  /\ apart' = apart \union {p}
  /\ UNCHANGED <<requested, disputes, webhook, subscription, job, disturbed, lost>>

AdminForm(w, p) ==
  /\ Exists(p)
  /\ \E s \in Patched, price \in Prices, a \in Amounts :
       Start(w, [Task(<<"save">>, p, TRUE, [status |-> s, amount |-> price, refunded |-> a], 0)
                   EXCEPT !.event = "form"])
  /\ UNCHANGED <<payment, fresh, requested, disputes, webhook, subscription, apart, overstated, lost>>

\* The forms of Refund add, change and delete rows, and leave the payment alone.
AdminRefund(p) ==
  /\ Exists(p)
  /\ budget > 0
  /\ budget' = budget - 1
  /\ \E a \in Amounts : requested' = [requested EXCEPT ![p] = @ + a]
  /\ apart' = apart \union {p}
  /\ UNCHANGED <<payment, fresh, disputes, webhook, subscription, job, disturbed, overstated, lost>>

\* The ids that no PaymentWebhook has, or is about to have.
Unused == {h \in Hooks : webhook[h] = "none" /\ \A v \in Workers : Busy(v) => job[v].hook # h}

\* WebhookReceiveView.post: whoever posts it names the payment and the amount.  Which new id
\* the row gets makes no difference.
ReceiveWebhook(w, h, p) ==
  /\ h \in Unused /\ h = CHOOSE new \in Unused : TRUE
  /\ \E e \in EventType, a \in Amounts \union {0}, sound \in BOOLEAN :
       /\ e # "charge.refunded" => a = 0
       /\ e \notin {"charge.refunded", "charge.dispute.created"} => sound
       /\ Start(w, [Task(<<"store", "find", "processed">>, p, FALSE, NoCopy, a)
                      EXCEPT !.event = e, !.hook = h, !.sound = sound])
  /\ UNCHANGED <<payment, fresh, requested, disputes, webhook, subscription, apart, overstated, lost>>

\* cancel_subscription, and SubscriptionDetailView.patch of another column: both
\* write the whole row they have read.
ChangeSubscription(w, p) ==
  /\ \E s \in {"canceled", subscription} :
       Start(w, [Task(<<"subscription">>, p, FALSE, NoCopy, 0) EXCEPT !.status = s])
  /\ UNCHANGED <<payment, fresh, requested, disputes, webhook, subscription, apart, overstated, lost>>

-----------------------------------------------------------------------------
(* The statements. *)

Runs(w, statement) == Busy(w) /\ Head(job[w].todo) = statement

Finished(todo, j) == IF todo = << >> THEN << >> ELSE [j EXCEPT !.todo = todo]

Advance(w) ==
  LET rest == Tail(job[w].todo) IN job' = [job EXCEPT ![w] = Finished(rest, @)]

\* PaymentWebhook.objects.create
StoreWebhook(w) ==
  /\ Runs(w, "store")
  /\ webhook' = [webhook EXCEPT ![job[w].hook] = "pending"]
  /\ Advance(w)
  /\ UNCHANGED <<payment, fresh, requested, disputes, subscription, budget, disturbed, apart, overstated, lost>>

\* Payment.objects.get(...): an unknown payment is not an error, an amount that cannot be
\* read is one.
FindPayment(w) ==
  LET j == job[w]
      readable == j.sound \/ j.event # "charge.refunded"
      todo == IF j.event = "charge.dispute.created" THEN <<"dispute", "save", "processed">>
              ELSE <<"save", "processed">> IN
  /\ Runs(w, "find")
  /\ IF Exists(j.id) /\ readable
       THEN /\ job' = [job EXCEPT ![w] = [j EXCEPT !.todo = todo, !.holds = TRUE,
                          !.copy = Applied(j.event, payment[j.id], j.amount)]]
            /\ disturbed' = disturbed \union {p \in {j.id} : Held(p)}
       ELSE /\ job' = [job EXCEPT ![w] =
                 [j EXCEPT !.todo = IF Exists(j.id) THEN <<"failed">> ELSE <<"processed">>]]
            /\ UNCHANGED disturbed
  /\ UNCHANGED <<payment, fresh, requested, disputes, webhook, subscription, budget, apart,
                 overstated, lost>>

\* Refund.objects.create; without its payment the foreign key fails and the
\* request with it.
InsertRefund(w) ==
  LET j == job[w] IN
  /\ Runs(w, "refund")
  /\ IF Exists(j.id)
       THEN requested' = [requested EXCEPT ![j.id] = @ + j.amount] /\ Advance(w)
       ELSE job' = [job EXCEPT ![w] = << >>] /\ UNCHANGED requested
  /\ UNCHANGED <<payment, fresh, disputes, webhook, subscription, budget, disturbed, apart, overstated, lost>>

Mut_InsertDispute(w) ==   \* without the except clause
  LET j == job[w] IN
  /\ Runs(w, "dispute")
  /\ IF Exists(j.id) /\ j.sound
       THEN disputes' = [disputes EXCEPT ![j.id] = @ + 1] /\ Advance(w)
       ELSE job' = [job EXCEPT ![w] = << >>] /\ UNCHANGED disputes
  /\ UNCHANGED <<payment, fresh, requested, webhook, subscription, budget, disturbed, apart, overstated, lost>>
\* PaymentDispute.objects.create; an error marks the webhook as failed.
InsertDispute(w) ==
  LET j == job[w] IN
  /\ Runs(w, "dispute")
  /\ IF Exists(j.id) /\ j.sound
       THEN disputes' = [disputes EXCEPT ![j.id] = @ + 1] /\ Advance(w)
       ELSE /\ job' = [job EXCEPT ![w] = [j EXCEPT !.todo = <<"failed">>, !.holds = FALSE]]
            /\ UNCHANGED disputes
  /\ UNCHANGED <<payment, fresh, requested, webhook, subscription, budget, disturbed, apart, overstated, lost>>

Mut_SavePayment(w) ==
  LET j == job[w] IN
  /\ Runs(w, "save")
  /\ payment' = IF Exists(j.id)
                  THEN [payment EXCEPT ![j.id] = [j.copy EXCEPT !.refunded = j.amount]] ELSE payment
  /\ apart' = IF j.event \in Outside THEN apart \union {j.id} ELSE apart
  /\ overstated' = IF j.event \in Outside /\ j.copy.refunded > j.copy.amount
                     THEN overstated \union {j.id} ELSE overstated
  /\ job' = [job EXCEPT ![w] = Finished(Tail(j.todo), [j EXCEPT !.holds = FALSE])]
  /\ UNCHANGED <<fresh, requested, disputes, webhook, subscription, budget, disturbed, lost>>
\* payment.save(): UPDATE, or INSERT when there is no such row any more.
SavePayment(w) ==
  LET j == job[w] IN
  /\ Runs(w, "save")
  /\ payment' = [payment EXCEPT ![j.id] = j.copy]
  /\ apart' = IF j.event \in Outside THEN apart \union {j.id} ELSE apart
  /\ overstated' = IF j.event \in Outside /\ j.copy.refunded > j.copy.amount
                     THEN overstated \union {j.id} ELSE overstated
  /\ job' = [job EXCEPT ![w] = Finished(Tail(j.todo), [j EXCEPT !.holds = FALSE])]
  /\ UNCHANGED <<fresh, requested, disputes, webhook, subscription, budget, disturbed, lost>>

\* webhook.save() with status processed or failed.
SaveWebhook(w) ==
  \E outcome \in {"processed", "failed"} :
    /\ Runs(w, outcome)
    /\ webhook' = [webhook EXCEPT ![job[w].hook] = outcome]
    /\ Advance(w)
    /\ UNCHANGED <<payment, fresh, requested, disputes, subscription, budget, disturbed, apart, overstated, lost>>

\* subscription.save()
SaveSubscription(w) ==
  /\ Runs(w, "subscription")
  /\ subscription' = job[w].status
  /\ Advance(w)
  /\ UNCHANGED <<payment, fresh, requested, disputes, webhook, budget, disturbed, apart, overstated, lost>>

\* The worker dies; what is committed stays, and nothing takes the request up again.
Crash(w) ==
  /\ Busy(w)
  /\ job' = [job EXCEPT ![w] = << >>]
  /\ disturbed' = disturbed \union {p \in {job[w].id} : job[w].holds}
  /\ lost' = lost \union ({job[w].hook} \ {Missing})
  /\ UNCHANGED <<payment, fresh, requested, disputes, webhook, subscription, budget, apart, overstated>>

-----------------------------------------------------------------------------
Request(w, p) ==
  \/ UpdatePayment(w, p) \/ RequestRefund(w, p) \/ ListRefund(w, p) \/ ChangeSubscription(w, p)
  \/ AdminForm(w, p) \/ \E h \in Hooks : ReceiveWebhook(w, h, p)

Execute(w) ==
  \/ StoreWebhook(w) \/ FindPayment(w) \/ InsertRefund(w) \/ InsertDispute(w)
  \/ SavePayment(w) \/ SaveWebhook(w) \/ SaveSubscription(w)

Next ==
  \/ \E p \in Ids : CreatePayment(p) \/ DestroyPayment(p) \/ AdminMark(p) \/ AdminAdd(p) \/ AdminRefund(p)
  \/ \E w \in Workers : Execute(w) \/ Crash(w) \/ \E p \in Ids : Request(w, p)

Spec == Init /\ [][Next]_vars

\* A worker that has begun goes on with its statements as long as it lives.
FairSpec == Spec /\ \A w \in Workers : WF_vars(Execute(w))

-----------------------------------------------------------------------------
(* Properties. *)

\* A payment shows more refunded than paid only when a webhook or a form of the admin has
\* said so: however refund requests, updates, webhooks and forms interleave, wherever they
\* are cut short and whatever row they insert again, requests alone never get there.  The
\* amount is checked on the copy it is added to, and the copy is written as a whole.
NeverOverRefunded ==
  \A p \in Ids \ overstated : Exists(p) => payment[p].refunded <= payment[p].amount

\* As long as no two handlers met on a payment and every refund was made by
\* RefundRequestView, the payment shows as refunded what its Refund rows add up to: the two
\* writes of RefundRequestView agree, requests after a change of status included.  When
\* handlers do meet, Refund rows may add up to more than the payment shows, and than was paid.
UndisturbedRefunds ==
  \A p \in Ids \ (disturbed \union apart) :
    Exists(p) /\ ~Held(p) => payment[p].refunded = requested[p]

\* Every webhook that was stored is marked processed or failed in the end,
\* whatever becomes of its payment meanwhile, unless its worker dies.
WebhooksSettle ==
  \A h \in Hooks : webhook[h] = "pending" ~> webhook[h] # "pending" \/ h \in lost
=============================================================================
