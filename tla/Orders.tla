------------------------------- MODULE Orders -------------------------------
(***************************************************************************)
(* The order service (orders/views.py).  Every handler of an order reads   *)
(* the row once, decides, and then makes a sequence of writes whose values *)
(* follow from what it has read: whole rows of Order and entries of        *)
(* OrderHistory.  The writes commit one by one (ecommerce/routers.py keeps *)
(* these tables out of transaction.atomic()).  A cart is found or created  *)
(* by each request that needs it.                                          *)
(* POST of an order and of an item that is not in the cart yet write       *)
(* nothing: the first passes user_id to Order.objects.create, which has no *)
(* such column, the second leaves cart_id empty.  Orders and cart items    *)
(* come from the admin.  Whoever may see his cart may write another        *)
(* customer into it.                                                       *)
(***************************************************************************)
EXTENDS Integers, Sequences, FiniteSets

CONSTANTS
  Ids,              \* ids of Order rows
  Customers,        \* customers
  Guest,            \* whose cart belongs to no customer
  Workers,          \* processes that handle requests
  Asked,            \* bound: statuses that requests ask for
  MaxRequests,      \* bound: requests that are accepted in a behaviour
  MaxQuantity,      \* bound: quantity of a cart item
  Missing           \* a row that does not exist

OrderStatus == {"draft", "pending", "confirmed", "processing", "shipped", "delivered",
                "cancelled", "refunded", "failed"}
PaymentStatus == {"pending", "authorized", "paid", "failed", "refunded", "partially_refunded"}
FulfillmentStatus == {"unfulfilled", "fulfilled", "partially_fulfilled", "returned"}
Stamped == {"confirmed", "shipped", "delivered", "cancelled"}   \* statuses with a timestamp

Order ==
  [status : OrderStatus, payment_status : PaymentStatus,
   fulfillment_status : FulfillmentStatus, stamps : SUBSET Stamped]

Column == {"status", "payment_status", "fulfillment_status"}

\* OrderHistory; column is what the description tells of.  The entry of a cancellation
\* says so by its event_type, and has no new_value.
Entry == [event : {"changed", "cancelled"}, column : Column,
          new : OrderStatus \union PaymentStatus \union FulfillmentStatus \union {""}]
Says(e) == IF e.event = "cancelled" THEN "cancelled" ELSE e.new

Carts    == 0 .. MaxRequests    \* ids of Cart rows; bound: a request creates one at most
Quantity == 1 .. MaxQuantity    \* of the one product in question

Write ==
       [into : {"orders"}, row : Order]
  \union [into : {"history"}, entry : Entry]
  \union [into : {"carts"}, cart : Carts]
  \union [into : {"owner"}, cart : Carts, customer : Customers \union {Guest}]
  \union [into : {"items", "look"}, cart : Carts, quantity : Quantity]

Job == [id : Ids \union Customers, writes : Seq(Write)]

ASSUME OrderConstants ==
  /\ Asked \subseteq OrderStatus \union PaymentStatus \union FulfillmentStatus
  /\ MaxRequests \in Nat /\ MaxQuantity \in Nat
  /\ Missing \notin Order \union Quantity \union Customers \union {Guest}
  /\ Ids \intersect Customers = {} /\ Guest \notin Customers
  /\ IsFiniteSet(Workers)

VARIABLES
  order,      \* the rows of Order
  history,    \* the rows of OrderHistory of each order, in the order of insertion
  owner,      \* the Cart rows: whose each is
  item,       \* the CartItem of each cart, by its quantity
  job,        \* what each worker still has to write, and about whom
  budget,     \* requests still to arrive
  disturbed,  \* history: ids that two handlers, or one that was cut short, held
  silent,     \* history: orders whose rows the admin has written, who logs nothing
  given       \* history: customers who have got a cart by a save, not by get_or_create

vars == <<order, history, owner, item, job, budget, disturbed, silent, given>>

TypeOK ==
  /\ order \in [Ids -> Order \union {Missing}]
  /\ history \in [Ids -> Seq(Entry)]
  /\ owner \in [Carts -> Customers \union {Guest, Missing}]
  /\ item \in [Carts -> Quantity \union {Missing}]
  /\ job \in [Workers -> Job \union {<< >>}]
  /\ budget \in 0 .. MaxRequests
  /\ disturbed \subseteq Ids \union Customers
  /\ silent \subseteq Ids
  /\ given \subseteq Customers \union {Guest}

Unpaid(s) == [status |-> s, payment_status |-> "pending",
              fulfillment_status |-> "unfulfilled", stamps |-> {}]

\* Orders as the admin has entered them.
Init ==
  /\ order \in [Ids -> {Unpaid("draft"), Unpaid("pending")}]
  /\ history = [o \in Ids |-> << >>]
  /\ owner = [n \in Carts |-> Missing]
  /\ item = [n \in Carts |-> Missing]
  /\ job = [w \in Workers |-> << >>]
  /\ budget = MaxRequests
  /\ disturbed = {}
  /\ silent = {}
  /\ given = {}

Exists(o) == order[o] # Missing
Busy(w)   == job[w] # << >>
Held(id)  == \E w \in Workers : Busy(w) /\ job[w].id = id

-----------------------------------------------------------------------------
(* What the handlers decide. *)

Mut_CanCancel(row) == row.status \notin {"cancelled", "delivered"}
\* Order.can_cancel
CanCancel(row) == row.status \in {"pending", "confirmed", "processing"}

\* OrderStatusUpdateSerializer.validate_status
ValidStatus(row, s) == s = "cancelled" => CanCancel(row)

Save(row) == [into |-> "orders", row |-> row]
Log(c, s) == [into |-> "history", entry |-> [event |-> "changed", column |-> c, new |-> s]]
Cancelled == [into |-> "history", entry |-> [event |-> "cancelled", column |-> "status", new |-> ""]]

\* OrderStatusUpdateView.post: the timestamp is set after the entry and saved again.
StatusWrites(row, s) ==
  LET changed == [row EXCEPT !.status = s] IN
  <<Save(changed), Log("status", s),
    Save([changed EXCEPT !.stamps = @ \union ({s} \intersect Stamped)])>>

\* PaymentStatusUpdateView.post
PaymentWrites(row, s) ==
  <<Save([row EXCEPT !.payment_status = s]), Log("payment_status", s)>>

\* FulfillmentStatusUpdateView.post
FulfillmentWrites(row, s) ==
  <<Save([row EXCEPT !.fulfillment_status = s]), Log("fulfillment_status", s)>>

Mut_UpdateWrites(row, s, p, f) ==   \* one entry for both
  <<Save([row EXCEPT !.status = s, !.payment_status = p, !.fulfillment_status = f])>>
  \o (IF s # row.status THEN <<Log("status", s)>>
      ELSE IF p # row.payment_status THEN <<Log("payment_status", p)>> ELSE << >>)
\* OrderUpdateSerializer.update: an entry for a new status and one for a new
\* payment status, none for the fulfilment, and no timestamp.
UpdateWrites(row, s, p, f) ==
  <<Save([row EXCEPT !.status = s, !.payment_status = p, !.fulfillment_status = f])>>
  \o (IF s # row.status THEN <<Log("status", s)>> ELSE << >>)
  \o (IF p # row.payment_status THEN <<Log("payment_status", p)>> ELSE << >>)

\* cancel_order; the call that would release the stock is only printed.
CancelWrites(row) ==
  <<Save([row EXCEPT !.status = "cancelled", !.stamps = @ \union {"cancelled"}]), Cancelled>>

-----------------------------------------------------------------------------
(* Requests arrive. *)

Start(w, id, writes) ==
  /\ ~Busy(w)
  /\ budget > 0
  /\ budget' = budget - 1
  /\ job' = [job EXCEPT ![w] = IF writes = << >> THEN << >> ELSE [id |-> id, writes |-> writes]]
  /\ disturbed' = disturbed \union {x \in {id} : Held(x)}

UpdateStatus(w, o) ==
  /\ Exists(o)
  /\ \E s \in Asked \intersect OrderStatus :
       ValidStatus(order[o], s) /\ Start(w, o, StatusWrites(order[o], s))
  /\ UNCHANGED <<order, history, owner, item, silent, given>>

UpdatePayment(w, o) ==
  /\ Exists(o)
  /\ \E s \in Asked \intersect PaymentStatus : Start(w, o, PaymentWrites(order[o], s))
  /\ UNCHANGED <<order, history, owner, item, silent, given>>

UpdateFulfillment(w, o) ==
  /\ Exists(o)
  /\ \E s \in Asked \intersect FulfillmentStatus : Start(w, o, FulfillmentWrites(order[o], s))
  /\ UNCHANGED <<order, history, owner, item, silent, given>>

\* OrderDetailView.patch
UpdateOrder(w, o) ==
  /\ Exists(o)
  /\ \E s \in (Asked \intersect OrderStatus) \union {order[o].status},
        p \in (Asked \intersect PaymentStatus) \union {order[o].payment_status},
        f \in (Asked \intersect FulfillmentStatus) \union {order[o].fulfillment_status} :
       Start(w, o, UpdateWrites(order[o], s, p, f))
  /\ UNCHANGED <<order, history, owner, item, silent, given>>

CancelOrder(w, o) ==
  /\ Exists(o)
  /\ CanCancel(order[o])
  /\ Start(w, o, CancelWrites(order[o]))
  /\ UNCHANGED <<order, history, owner, item, silent, given>>

\* OrderDetailView.delete, which takes the history along.
DestroyOrder(o) ==
  /\ Exists(o)
  /\ order' = [order EXCEPT ![o] = Missing]
  /\ history' = [history EXCEPT ![o] = << >>]
  /\ disturbed' = disturbed \union {x \in {o} : Held(x)}
  /\ UNCHANGED <<owner, item, job, budget, silent, given>>

\* OrderAdminWithActions: one UPDATE of the status and its timestamp.
AdminMark(o) ==
  /\ Exists(o)
  /\ \E s \in Asked \intersect Stamped :
       order' = [order EXCEPT ![o].status = s, ![o].stamps = @ \union {s}]
  /\ silent' = silent \union {o}
  /\ budget > 0 /\ budget' = budget - 1
  /\ UNCHANGED <<history, owner, item, job, disturbed, given>>

\* The change form of OrderAdmin: save() of a row in which the timestamps are read-only.
AdminForm(w, o) ==
  /\ Exists(o)
  /\ \E s \in Asked \intersect OrderStatus : Start(w, o, <<Save([order[o] EXCEPT !.status = s])>>)
  /\ silent' = silent \union {o}
  /\ UNCHANGED <<order, history, owner, item, given>>

\* The forms of OrderHistoryAdmin; bound: of all changes to the entries, their deletion.
AdminForget(o) ==
  /\ history' = [history EXCEPT ![o] = << >>]
  /\ silent' = silent \union {o}
  /\ UNCHANGED <<order, owner, item, job, budget, disturbed, given>>

CartsOf(c) == {n \in Carts : owner[n] = c}

Mut_FindCart(c) == <<[into |-> "carts", cart |-> budget]>>   \* create
\* Cart.objects.get_or_create: no constraint keeps a second row out.
FindCart(c) == IF CartsOf(c) = {} THEN <<[into |-> "carts", cart |-> budget]>> ELSE << >>

\* ... and with two rows it raises, for this request and every later one.
Found(c) == Cardinality(CartsOf(c)) <= 1
CartOf(c) == IF CartsOf(c) = {} THEN budget ELSE CHOOSE n \in CartsOf(c) : TRUE

\* CartItemCreateView.post finds the cart, and then looks for the item.
AddItem(w, c) ==
  /\ Found(c)
  /\ \E q \in Quantity :
       Start(w, c, FindCart(c) \o <<[into |-> "look", cart |-> CartOf(c), quantity |-> q]>>)
  /\ UNCHANGED <<order, history, owner, item, silent, given>>

\* CartDetailView.get
OpenCart(w, c) ==
  /\ Found(c)
  /\ Start(w, c, FindCart(c))
  /\ UNCHANGED <<order, history, owner, item, silent, given>>

\* CartDetailView.put, patch: the customer is among the columns that CartSerializer writes.
UpdateCart(w, c) ==
  /\ Found(c)
  /\ \E d \in Customers \union {Guest} :
       Start(w, c, FindCart(c) \o <<[into |-> "owner", cart |-> CartOf(c), customer |-> d]>>)
  /\ UNCHANGED <<order, history, owner, item, silent, given>>

\* CartItemUpdateView.patch
UpdateItem(w, c) ==
  /\ \E n \in CartsOf(c), q \in Quantity :
       /\ item[n] # Missing
       /\ Start(w, c, <<[into |-> "items", cart |-> n, quantity |-> q]>>)
  /\ UNCHANGED <<order, history, owner, item, silent, given>>

\* CartItemUpdateView.delete
DestroyItem(n) ==
  /\ owner[n] \in Customers
  /\ item' = [item EXCEPT ![n] = Missing]
  /\ UNCHANGED <<order, history, owner, job, budget, disturbed, silent, given>>

\* CartDetailView.delete finds the cart like any other; it takes its items along.
DestroyCart(c) ==
  /\ \E n \in Carts :
       /\ CartsOf(c) = {n}
       /\ owner' = [owner EXCEPT ![n] = Missing]
       /\ item' = [item EXCEPT ![n] = Missing]
  /\ UNCHANGED <<order, history, job, budget, disturbed, silent, given>>

\* An item is entered in the admin.
AdminAddItem(n) ==
  /\ owner[n] # Missing /\ item[n] = Missing
  /\ \E q \in Quantity : item' = [item EXCEPT ![n] = q]
  /\ UNCHANGED <<order, history, owner, job, budget, disturbed, silent, given>>

\* A cart is added, or given to somebody else, in the admin.
AdminCart(n) ==
  /\ owner[n] = Missing => n = budget
  /\ budget > 0 /\ budget' = budget - 1
  /\ \E d \in Customers \union {Guest} :
       owner' = [owner EXCEPT ![n] = d] /\ given' = given \union {d}
  /\ UNCHANGED <<order, history, item, job, disturbed, silent>>

-----------------------------------------------------------------------------
(* The writes. *)

Current(w) == Head(job[w].writes)
Runs(w, table) == Busy(w) /\ job[w].writes # << >> /\ Current(w).into = table
Advance(w) ==
  LET rest == Tail(job[w].writes)
      id   == job[w].id IN
  job' = [job EXCEPT ![w] = IF rest = << >> THEN << >> ELSE [id |-> id, writes |-> rest]]

\* order.save(): UPDATE, or INSERT when the row is gone.
SaveOrder(w) ==
  /\ Runs(w, "orders")
  /\ order' = [order EXCEPT ![job[w].id] = Current(w).row]
  /\ Advance(w)
  /\ UNCHANGED <<history, owner, item, budget, disturbed, silent, given>>

\* OrderHistory.objects.create; without its order the foreign key fails.
LogChange(w) ==
  LET o == job[w].id IN
  /\ Runs(w, "history")
  /\ IF Exists(o) THEN history' = [history EXCEPT ![o] = Append(@, Current(w).entry)] /\ Advance(w)
                  ELSE job' = [job EXCEPT ![w] = << >>] /\ UNCHANGED history
  /\ UNCHANGED <<order, owner, item, budget, disturbed, silent, given>>

CreateCart(w) ==
  /\ Runs(w, "carts")
  /\ owner' = [owner EXCEPT ![Current(w).cart] = job[w].id]
  /\ Advance(w)
  /\ UNCHANGED <<order, history, item, budget, disturbed, silent, given>>

\* cart.save(): UPDATE, or INSERT when the row is gone.
SaveCart(w) ==
  LET n == Current(w).cart
      d == Current(w).customer IN
  /\ Runs(w, "owner")
  /\ owner' = [owner EXCEPT ![n] = d]
  /\ given' = IF owner[n] = d THEN given ELSE given \union {d}
  /\ Advance(w)
  /\ UNCHANGED <<order, history, item, budget, disturbed, silent>>

\* CartItemCreateSerializer.validate: the quantity of an item that is there is
\* raised; a new item fails.
LookForItem(w) ==
  LET c     == job[w].id
      there == item[Current(w).cart] # Missing
      total == item[Current(w).cart] + Current(w).quantity
      raise == [id |-> c, writes |-> <<[Current(w) EXCEPT !.into = "items", !.quantity = total]>>] IN
  /\ Runs(w, "look")
  /\ IF there THEN total \in Quantity /\ job' = [job EXCEPT ![w] = raise]
              ELSE job' = [job EXCEPT ![w] = << >>]
  /\ UNCHANGED <<order, history, owner, item, budget, disturbed, silent, given>>

\* save() of an item; without its cart the foreign key fails.
SaveItem(w) ==
  LET n == Current(w).cart IN
  /\ Runs(w, "items")
  /\ item' = IF owner[n] # Missing THEN [item EXCEPT ![n] = Current(w).quantity] ELSE item
  /\ Advance(w)
  /\ UNCHANGED <<order, history, owner, budget, disturbed, silent, given>>

\* The worker dies, or the database refuses a statement: what is written stays.
Crash(w) ==
  /\ Busy(w)
  /\ job' = [job EXCEPT ![w] = << >>]
  /\ disturbed' = disturbed \union {job[w].id}
  /\ UNCHANGED <<order, history, owner, item, budget, silent, given>>

Request(w) ==
  \/ \E o \in Ids : \/ UpdateStatus(w, o) \/ UpdatePayment(w, o) \/ UpdateFulfillment(w, o)
                    \/ UpdateOrder(w, o) \/ CancelOrder(w, o) \/ AdminForm(w, o)
  \/ \E c \in Customers : AddItem(w, c) \/ OpenCart(w, c) \/ UpdateCart(w, c) \/ UpdateItem(w, c)

Execute(w) ==
  \/ SaveOrder(w) \/ LogChange(w)
  \/ CreateCart(w) \/ SaveCart(w) \/ LookForItem(w) \/ SaveItem(w)

Next ==
  \/ \E o \in Ids : DestroyOrder(o) \/ AdminMark(o) \/ AdminForget(o)
  \/ \E c \in Customers : DestroyCart(c)
  \/ \E n \in Carts : DestroyItem(n) \/ AdminAddItem(n) \/ AdminCart(n)
  \/ \E w \in Workers : Request(w) \/ Execute(w) \/ Crash(w)

Spec == Init /\ [][Next]_vars

-----------------------------------------------------------------------------
(* Properties. *)

\* What the last entry about a column in an order's history h says is value, or
\* there is none and the column began so.
Tells(h, column, value, begin) ==
  LET about == {i \in DOMAIN h : h[i].column = column} IN
  \/ about = {} /\ value \in begin
  \/ \E i \in about : Says(h[i]) = value /\ \A k \in about : k <= i

\* Whatever sequence of handlers an order goes through, its history tells its
\* status and its payment status, as long as no two of them overlapped, none
\* was cut short, and the admin kept away.  (An order that its holder inserts
\* again has lost its history; the holder makes it disturbed.)
HistoryTells ==
  \A o \in Ids \ (disturbed \union silent) :
    Exists(o) /\ ~Held(o) =>
      /\ Tells(history[o], "status", order[o].status, {"draft", "pending"})
      /\ Tells(history[o], "payment_status", order[o].payment_status, {"pending"})

\* The timestamps that a request is still to write into order o.
Coming(o) == {s \in Stamped : \E w \in Workers, i \in 1 .. 3 :
                /\ Busy(w) /\ job[w].id = o
                /\ i <= Len(job[w].writes) /\ job[w].writes[i].into = "orders"
                /\ s \in job[w].writes[i].row.stamps}

\* An order whose row says shipped or delivered does not get cancelled_at, neither at once
\* nor by what the request is still to write: not by the status endpoint, which writes the
\* row twice, nor by cancel_order.  The check was made when the handler read the row, and
\* only a handler that overlapped it can have shipped the order since.  It is a check of the
\* current status alone: an order that was shipped and then set back to processing may be
\* cancelled, and PATCH sets the status of a shipped one, without cancelled_at.
CancelledInTime ==
  [][\A o \in Ids \ (disturbed \union silent)' :
       /\ Exists(o) /\ Exists(o)'
       /\ "cancelled" \in (order'[o].stamps \union Coming(o)') \ order[o].stamps
       => order[o].status \notin {"shipped", "delivered"}]_vars

\* get_or_create makes a second cart for a customer, with which it fails ever after, only
\* for requests that overlap, and then no more carts than there are workers to overlap;
\* unless somebody has saved a cart with this customer in it.
OneCart ==
  \A c \in Customers \ given :
    Cardinality(CartsOf(c)) <= IF c \in disturbed THEN Cardinality(Workers) ELSE 1
=============================================================================
