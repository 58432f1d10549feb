---------------------------- MODULE OrdersProofs ----------------------------
(***************************************************************************)
(* For any number of orders, customers, workers and requests: the history  *)
(* of an order that nobody disturbed tells its status, no such order gets  *)
(* cancelled_at while it is shipped, no such customer gets a second cart,  *)
(* and no customer gets more carts than there are workers to create them.  *)
(* The invariant says of every request under way what the writes it still  *)
(* has to make will leave behind.                                          *)
(***************************************************************************)
EXTENDS Orders, FiniteSetTheorems, SequenceTheorems, TLAPS

Told     == {"status", "payment_status"}
Begin(c) == IF c = "status" THEN {"draft", "pending"} ELSE {"pending"}
Gone     == {"shipped", "delivered"}

Holds(w, id) == Busy(w) /\ job[w].id = id

\* The value of column c of a row after the writes q, and whether the last entry
\* about c after them says v.
Becomes(row, q, c, v) ==
  \/ v = row[c] /\ \A i \in DOMAIN q : q[i].into # "orders"
  \/ \E i \in DOMAIN q : /\ q[i].into = "orders" /\ q[i].row[c] = v
                         /\ \A k \in DOMAIN q : q[k].into = "orders" => k <= i
Logs(q, c) == {i \in DOMAIN q : q[i].into = "history" /\ q[i].entry.column = c}
WillSay(h, q, c, v) ==
  \/ Logs(q, c) = {} /\ Tells(h, c, v, Begin(c))
  \/ \E i \in Logs(q, c) : Says(q[i].entry) = v /\ \A k \in Logs(q, c) : k <= i
Agree(row, h, q, c) == \E v : Becomes(row, q, c, v) /\ WillSay(h, q, c, v)

\* A row with the timestamp of a cancellation is written only over rows that have
\* it or have not been shipped.
InTime(row, old) == "cancelled" \in old.stamps \/ old.status \notin Gone \/ "cancelled" \notin row.stamps
AllInTime(row, q) ==
  \A i \in DOMAIN q : q[i].into = "orders" =>
    /\ InTime(q[i].row, row)
    /\ \A k \in 1 .. i - 1 : q[k].into = "orders" => InTime(q[i].row, q[k].row)

-----------------------------------------------------------------------------
(* The invariant. *)

\* What a worker writes is about an order, or about a customer's cart, which it
\* creates first if at all.
Tables(id) == IF id \in Ids THEN {"orders", "history"} ELSE {"carts", "owner", "items", "look"}
Fits(id, q) ==
  \A i \in DOMAIN q : q[i].into \in Tables(id) /\ (q[i].into = "carts" => i = 1)

Working ==
  \A w \in Workers : Busy(w) => job[w].writes # << >> /\ Fits(job[w].id, job[w].writes)

Alone ==
  \A id \in (Ids \union Customers) \ disturbed : \A v, w \in Workers :
    Holds(v, id) /\ Holds(w, id) => v = w

Present(o)   == \A w \in Workers : Holds(w, o) => Exists(o)
RestTells(o) == Exists(o) /\ ~Held(o) => \A c \in Told : Agree(order[o], history[o], << >>, c)
HolderTells(o) ==
  \A w \in Workers : Holds(w, o) =>
    \A c \in Told : Agree(order[o], history[o], job[w].writes, c)
CancelChecked(o) ==
  \A w \in Workers : Holds(w, o) => AllInTime(order[o], job[w].writes)

Orderly(o) ==
  \/ o \in disturbed
  \/ Present(o) /\ (o \in silent \/ (RestTells(o) /\ HolderTells(o) /\ CancelChecked(o)))

\* The workers that are about to create a cart for c.
Creating(c) == {w \in Workers : Holds(w, c) /\ job[w].writes[1].into = "carts"}

\* Without an overlap a cart is created only where there is none; and each worker
\* that once found none creates one.
CartAwaited(c) ==
  \/ c \in given
  \/ /\ \/ c \in disturbed
        \/ CartsOf(c) = {}
        \/ Creating(c) = {} /\ \E n : CartsOf(c) = {n}
     /\ Cardinality(CartsOf(c)) + Cardinality(Creating(c)) <= Cardinality(Workers)

OrderInv ==
  /\ TypeOK /\ Working /\ Alone
  /\ \A o \in Ids : Orderly(o)
  /\ \A c \in Customers : CartAwaited(c)

-----------------------------------------------------------------------------
(* What is left to write, before and after one write. *)

LEMMA TailFacts ==
  ASSUME NEW q \in Seq(Write), q # << >>
  PROVE  /\ Head(q) = q[1] /\ Tail(q) \in Seq(Write) /\ 1 \in DOMAIN q
         /\ \A i \in DOMAIN Tail(q) : i + 1 \in DOMAIN q /\ Tail(q)[i] = q[i + 1] /\ i \in Nat /\ i >= 1
         /\ \A i \in DOMAIN q : i = 1 \/ (i - 1 \in DOMAIN Tail(q) /\ Tail(q)[i - 1] = q[i])
         /\ \A i \in DOMAIN q : i \in Nat /\ i >= 1
OBVIOUS

LEMMA SaveStep ==
  ASSUME NEW q \in Seq(Write), q # << >>, Head(q).into = "orders",
         NEW row, NEW h, NEW c \in Told, Agree(row, h, q, c)
  PROVE  Agree(Head(q).row, h, Tail(q), c)
<1>1. PICK v : Becomes(row, q, c, v) /\ WillSay(h, q, c, v)
  BY DEF Agree
<1>2. Becomes(Head(q).row, Tail(q), c, v)
  <2>1. PICK i \in DOMAIN q : /\ q[i].into = "orders" /\ q[i].row[c] = v
                              /\ \A k \in DOMAIN q : q[k].into = "orders" => k <= i
    BY <1>1, TailFacts DEF Becomes
  <2>2. CASE i = 1
    <3>1. \A k \in DOMAIN Tail(q) : Tail(q)[k].into # "orders"
      BY <2>1, <2>2, TailFacts
    <3> QED
      BY <2>1, <2>2, <3>1, TailFacts DEF Becomes
  <2>3. CASE i # 1
    <3>1. i - 1 \in DOMAIN Tail(q) /\ Tail(q)[i - 1] = q[i]
      BY <2>3, TailFacts
    <3>2. \A k \in DOMAIN Tail(q) : Tail(q)[k].into = "orders" => k <= i - 1
      BY <2>1, TailFacts
    <3> QED
      BY <2>1, <3>1, <3>2 DEF Becomes
  <2> QED
    BY <2>2, <2>3
<1>3. WillSay(h, Tail(q), c, v)
  <2>1. \A k \in DOMAIN Tail(q) : k \in Logs(Tail(q), c) <=> k + 1 \in Logs(q, c)
    BY TailFacts DEF Logs
  <2>2. \A k \in Logs(q, c) : k # 1 /\ k - 1 \in Logs(Tail(q), c) /\ Tail(q)[k - 1] = q[k]
    BY TailFacts DEF Logs
  <2>3. CASE Logs(q, c) = {} /\ Tells(h, c, v, Begin(c))
    <3>1. Logs(Tail(q), c) = {}
      BY <2>1, <2>3 DEF Logs
    <3> QED
      BY <2>3, <3>1 DEF WillSay
  <2>4. ASSUME NEW i \in Logs(q, c), Says(q[i].entry) = v, \A k \in Logs(q, c) : k <= i
        PROVE  WillSay(h, Tail(q), c, v)
    <3>1. \A k \in Logs(Tail(q), c) : k \in Nat /\ k + 1 \in Logs(q, c)
      BY <2>1, TailFacts DEF Logs
    <3>2. i \in Nat
      BY TailFacts DEF Logs
    <3>3. \A k \in Logs(Tail(q), c) : k <= i - 1
      BY <2>4, <3>1, <3>2
    <3> QED
      BY <2>2, <2>4, <3>3 DEF WillSay
  <2> QED
    BY <1>1, <2>3, <2>4 DEF WillSay
<1> QED
  BY <1>2, <1>3 DEF Agree

LEMMA LogStep ==
  ASSUME NEW q \in Seq(Write), q # << >>, Head(q).into = "history",
         NEW row, NEW h \in Seq(Entry), NEW c \in Told, Agree(row, h, q, c)
  PROVE  Agree(row, Append(h, Head(q).entry), Tail(q), c)
<1> DEFINE g == Append(h, Head(q).entry)
<1>1. PICK v : Becomes(row, q, c, v) /\ WillSay(h, q, c, v)
  BY DEF Agree
<1>2. Becomes(row, Tail(q), c, v)
  <2>1. CASE v = row[c] /\ \A i \in DOMAIN q : q[i].into # "orders"
    <3>1. \A i \in DOMAIN Tail(q) : Tail(q)[i].into # "orders"
      BY <2>1, TailFacts
    <3> QED
      BY <2>1, <3>1 DEF Becomes
  <2>2. ASSUME NEW i \in DOMAIN q, q[i].into = "orders", q[i].row[c] = v,
               \A k \in DOMAIN q : q[k].into = "orders" => k <= i
        PROVE  Becomes(row, Tail(q), c, v)
    <3>1. i # 1 /\ i \in Nat /\ i - 1 \in DOMAIN Tail(q) /\ Tail(q)[i - 1] = q[i]
      BY <2>2, TailFacts
    <3>2. \A k \in DOMAIN Tail(q) : Tail(q)[k].into = "orders" => k <= i - 1
      BY <2>2, <3>1, TailFacts
    <3> QED
      BY <2>2, <3>1, <3>2 DEF Becomes
  <2> QED
    BY <1>1, <2>1, <2>2 DEF Becomes
<1>3. /\ DOMAIN g = 1 .. Len(h) + 1 /\ DOMAIN h = 1 .. Len(h) /\ Len(h) \in Nat
      /\ \A i \in DOMAIN h : g[i] = h[i]
      /\ g[Len(h) + 1] = q[1].entry
  <2>1. Head(q) = q[1] /\ Head(q) \in Write
    BY TailFacts
  <2>2. Head(q).entry \in Entry
    BY <2>1 DEF Write
  <2> QED
    BY <2>1, <2>2
<1>4. /\ \A k \in DOMAIN Tail(q) : k \in Logs(Tail(q), c) <=> k + 1 \in Logs(q, c)
      /\ \A k \in Logs(q, c) : k # 1 => k - 1 \in Logs(Tail(q), c) /\ Tail(q)[k - 1] = q[k]
      /\ \A k \in Logs(q, c) : k \in Nat /\ k >= 1
      /\ \A k \in Logs(Tail(q), c) : k \in Nat /\ k >= 1 /\ k + 1 \in Logs(q, c)
  BY TailFacts DEF Logs
<1> HIDE DEF g
<1>5. CASE Logs(q, c) = {} /\ Tells(h, c, v, Begin(c))
  <2>1. Logs(Tail(q), c) = {}
    BY <1>4, <1>5
  <2>2. q[1].entry.column # c
    BY <1>5, TailFacts DEF Logs
  <2>3. {i \in DOMAIN g : g[i].column = c} = {i \in DOMAIN h : h[i].column = c}
    BY <1>3, <2>2
  <2>4. Tells(g, c, v, Begin(c))
    BY <1>3, <1>5, <2>3 DEF Tells
  <2> QED
    BY <1>2, <2>1, <2>4 DEF Agree, WillSay, g
<1>6. ASSUME NEW i \in Logs(q, c), Says(q[i].entry) = v, \A k \in Logs(q, c) : k <= i
      PROVE  WillSay(g, Tail(q), c, v)
  <2>1. CASE i = 1
    <3>0. \A k \in Logs(Tail(q), c) : k \in Nat /\ k >= 1 /\ k + 1 <= 1
      BY <1>4, <1>6, <2>1
    <3>1. Logs(Tail(q), c) = {}
      BY <3>0
    <3>2. g[Len(h) + 1].column = c /\ Says(g[Len(h) + 1]) = v
      BY <1>3, <1>6, <2>1 DEF Logs
    <3>3. Tells(g, c, v, Begin(c))
      BY <1>3, <3>2 DEF Tells
    <3> QED
      BY <3>1, <3>3 DEF WillSay
  <2>2. CASE i # 1
    <3>1. i - 1 \in Logs(Tail(q), c) /\ Tail(q)[i - 1] = q[i]
      BY <1>4, <2>2
    <3>2. \A k \in Logs(Tail(q), c) : k <= i - 1
      BY <1>4, <1>6
    <3> QED
      BY <1>6, <3>1, <3>2 DEF WillSay
  <2> QED
    BY <2>1, <2>2
<1>7. WillSay(g, Tail(q), c, v) \/ Agree(row, g, Tail(q), c)
  BY <1>1, <1>5, <1>6 DEF WillSay, g
<1> QED
  BY <1>2, <1>7 DEF Agree, g

LEMMA InTimeStep ==
  ASSUME NEW q \in Seq(Write), q # << >>, NEW row, AllInTime(row, q)
  PROVE  /\ Head(q).into = "orders" => AllInTime(Head(q).row, Tail(q))
         /\ Head(q).into # "orders" => AllInTime(row, Tail(q))
<1>1. ASSUME NEW i \in DOMAIN Tail(q), Tail(q)[i].into = "orders"
      PROVE  /\ i + 1 \in DOMAIN q /\ q[i + 1] = Tail(q)[i]
             /\ InTime(Tail(q)[i].row, row)
             /\ \A k \in 1 .. i - 1 : Tail(q)[k].into = "orders" => InTime(Tail(q)[i].row, Tail(q)[k].row)
             /\ q[1].into = "orders" => InTime(Tail(q)[i].row, q[1].row)
  <2>1. i + 1 \in DOMAIN q /\ q[i + 1] = Tail(q)[i] /\ i \in Nat /\ i >= 1
    BY TailFacts
  <2>2. \A k \in 1 .. i - 1 : k \in DOMAIN Tail(q) /\ k + 1 \in 1 .. (i + 1) - 1 /\ Tail(q)[k] = q[k + 1]
    BY <2>1
  <2>3. 1 \in 1 .. (i + 1) - 1
    BY <2>1
  <2> QED
    BY <1>1, <2>1, <2>2, <2>3 DEF AllInTime
<1> QED
  BY <1>1, TailFacts DEF AllInTime

-----------------------------------------------------------------------------
(* What the handlers are going to write. *)

LEMMA RowsAreRecords ==
  ASSUME NEW row \in Order
  PROVE  /\ row.status \in OrderStatus /\ row.payment_status \in PaymentStatus
         /\ row.fulfillment_status \in FulfillmentStatus /\ row.stamps \subseteq Stamped
         /\ row["status"] = row.status /\ row["payment_status"] = row.payment_status
BY DEF Order

\* A save of a row and an entry are writes.
LEMMA WritesTyped ==
  /\ \A row \in Order : Save(row) \in Write /\ Save(row).into = "orders" /\ Save(row).row = row
  /\ \A c \in Column, s \in OrderStatus \union PaymentStatus \union FulfillmentStatus :
       /\ Log(c, s) \in Write /\ Log(c, s).into = "history"
       /\ Log(c, s).entry.column = c /\ Says(Log(c, s).entry) = s
  /\ Cancelled \in Write /\ Cancelled.into = "history"
  /\ Cancelled.entry.column = "status" /\ Says(Cancelled.entry) = "cancelled"
BY DEF Save, Log, Cancelled, Write, Entry, Column, Says

\* One save, and an entry for the columns it changes: the history will tell.
LEMMA OneSave ==
  ASSUME NEW row \in Order, NEW new \in Order, NEW h \in Seq(Entry), NEW c \in Told,
         Agree(row, h, << >>, c), NEW q \in Seq(Write), q # << >>, q[1] = Save(new),
         \A i \in DOMAIN q : i # 1 => q[i].into = "history",
         \/ new[c] = row[c] /\ \A i \in DOMAIN q : i # 1 => q[i].entry.column # c
         \/ \E i \in DOMAIN q : /\ i # 1 /\ q[i].entry.column = c /\ Says(q[i].entry) = new[c]
                                /\ \A k \in DOMAIN q : k # 1 /\ q[k].entry.column = c => k <= i
  PROVE  Agree(row, h, q, c)
<1> DEFINE v == new[c]
<1>1. Save(new).into = "orders" /\ Save(new).row = new
  BY WritesTyped
<1>2. Becomes(row, q, c, v)
  <2>1. \A k \in DOMAIN q : q[k].into = "orders" => k <= 1
    BY <1>1
  <2>2. 1 \in DOMAIN q
    BY TailFacts
  <2> QED
    BY <1>1, <2>1, <2>2 DEF Becomes
<1>3. WillSay(h, q, c, v)
  <2>1. CASE new[c] = row[c] /\ \A i \in DOMAIN q : i # 1 => q[i].entry.column # c
    <3>1. Logs(q, c) = {}
      BY <1>1, <2>1 DEF Logs
    <3>2. Tells(h, c, row[c], Begin(c))
      BY DEF Agree, Becomes, WillSay, Logs
    <3> QED
      BY <2>1, <3>1, <3>2 DEF WillSay
  <2>2. ASSUME NEW i \in DOMAIN q, i # 1, q[i].entry.column = c /\ Says(q[i].entry) = new[c],
               \A k \in DOMAIN q : k # 1 /\ q[k].entry.column = c => k <= i
        PROVE  WillSay(h, q, c, v)
    <3>1. i \in Logs(q, c) /\ Says(q[i].entry) = v
      BY <2>2 DEF Logs
    <3>2. \A k \in Logs(q, c) : k # 1 /\ k <= i
      BY <1>1, <2>2 DEF Logs
    <3> QED
      BY <3>1, <3>2 DEF WillSay
  <2> QED
    BY <2>1, <2>2
<1> QED
  BY <1>2, <1>3 DEF Agree

LEMMA StatusPromise ==
  ASSUME NEW row \in Order, NEW h \in Seq(Entry), NEW s \in OrderStatus, ValidStatus(row, s)
  PROVE  LET q == StatusWrites(row, s) IN
         /\ q \in Seq(Write) /\ q # << >> /\ \A i \in DOMAIN q : q[i].into \in {"orders", "history"}
         /\ \A c \in Told : Agree(row, h, << >>, c) => Agree(row, h, q, c)
         /\ AllInTime(row, q)
<1> DEFINE new  == [row EXCEPT !.status = s]
           last == [new EXCEPT !.stamps = @ \union ({s} \intersect Stamped)]
           q    == <<Save(new), Log("status", s), Save(last)>>
<1>1. /\ new \in Order /\ last \in Order
      /\ new.status = s /\ last.status = s /\ new.stamps = row.stamps
      /\ last.stamps = row.stamps \union ({s} \intersect Stamped)
      /\ new["payment_status"] = row["payment_status"] /\ last["payment_status"] = row["payment_status"]
      /\ new["status"] = s /\ last["status"] = s
  BY DEF Order
<1>2. StatusWrites(row, s) = q
  BY DEF StatusWrites
<1> HIDE DEF new, last
<1>3. /\ Save(new) \in Write /\ Save(new).into = "orders" /\ Save(new).row = new
      /\ Save(last) \in Write /\ Save(last).into = "orders" /\ Save(last).row = last
      /\ Log("status", s) \in Write /\ Log("status", s).into = "history"
      /\ Log("status", s).entry.column = "status" /\ Says(Log("status", s).entry) = s
  BY <1>1, WritesTyped DEF Column
<1>4. q \in Seq(Write) /\ q # << >> /\ DOMAIN q = 1 .. 3
      /\ q[1] = Save(new) /\ q[2] = Log("status", s) /\ q[3] = Save(last)
  BY <1>3
<1> HIDE DEF q
<1>5. \A i \in DOMAIN q : i = 1 \/ i = 2 \/ i = 3
  BY <1>4
<1>6. ASSUME NEW c \in Told, Agree(row, h, << >>, c) PROVE Agree(row, h, q, c)
  <2>1. Becomes(row, q, c, last[c])
    BY <1>3, <1>4, <1>5 DEF Becomes
  <2>2. CASE c = "status"
    <3>1. Logs(q, c) = {2}
      BY <1>3, <1>4, <1>5, <2>2 DEF Logs
    <3> QED
      BY <1>1, <1>3, <1>4, <2>1, <2>2, <3>1 DEF Agree, WillSay
  <2>3. CASE c = "payment_status"
    <3>1. Logs(q, c) = {}
      BY <1>3, <1>4, <1>5, <2>3 DEF Logs
    <3>2. Tells(h, c, row[c], Begin(c))
      BY <1>6 DEF Agree, Becomes, WillSay, Logs
    <3> QED
      BY <1>1, <2>1, <2>3, <3>1, <3>2 DEF Agree, WillSay
  <2> QED
    BY <2>2, <2>3 DEF Told
<1>7. AllInTime(row, q)
  <2>1. InTime(new, row)
    BY <1>1 DEF InTime
  <2>2. InTime(last, row)
    BY <1>1 DEF InTime, ValidStatus, CanCancel, Gone
  <2>3. InTime(last, new)
    BY <1>1 DEF InTime, Gone
  <2> QED
    BY <1>3, <1>4, <1>5, <2>1, <2>2, <2>3 DEF AllInTime
<1> QED
  BY <1>2, <1>3, <1>4, <1>5, <1>6, <1>7

LEMMA PaymentPromise ==
  ASSUME NEW row \in Order, NEW h \in Seq(Entry), NEW s \in PaymentStatus
  PROVE  LET q == PaymentWrites(row, s) IN
         /\ q \in Seq(Write) /\ q # << >> /\ \A i \in DOMAIN q : q[i].into \in {"orders", "history"}
         /\ \A c \in Told : Agree(row, h, << >>, c) => Agree(row, h, q, c)
         /\ AllInTime(row, q)
<1> DEFINE new == [row EXCEPT !.payment_status = s]
           q   == <<Save(new), Log("payment_status", s)>>
<1>1. /\ new \in Order /\ new.stamps = row.stamps
      /\ new["status"] = row["status"] /\ new["payment_status"] = s
  BY DEF Order
<1>2. PaymentWrites(row, s) = q
  BY DEF PaymentWrites
<1> HIDE DEF new
<1>3. /\ Save(new) \in Write /\ Save(new).into = "orders" /\ Save(new).row = new
      /\ Log("payment_status", s) \in Write /\ Log("payment_status", s).into = "history"
      /\ Log("payment_status", s).entry.column = "payment_status"
      /\ Says(Log("payment_status", s).entry) = s
  BY <1>1, WritesTyped DEF Column
<1>4. q \in Seq(Write) /\ q # << >> /\ DOMAIN q = 1 .. 2
      /\ q[1] = Save(new) /\ q[2] = Log("payment_status", s)
  BY <1>3
<1> HIDE DEF q
<1>5. \A i \in DOMAIN q : i = 1 \/ i = 2
  BY <1>4
<1>6. ASSUME NEW c \in Told, Agree(row, h, << >>, c) PROVE Agree(row, h, q, c)
  <2>1. \A i \in DOMAIN q : i # 1 => q[i].into = "history"
    BY <1>3, <1>4, <1>5
  <2>2. CASE c = "status"
    <3>1. new[c] = row[c] /\ \A i \in DOMAIN q : i # 1 => q[i].entry.column # c
      BY <1>1, <1>3, <1>4, <1>5, <2>2
    <3> QED
      BY <1>1, <1>4, <1>6, <2>1, <3>1, OneSave
  <2>3. CASE c = "payment_status"
    <3>1. /\ 2 \in DOMAIN q /\ 2 # 1 /\ q[2].entry.column = c /\ Says(q[2].entry) = new[c]
          /\ \A k \in DOMAIN q : k # 1 /\ q[k].entry.column = c => k <= 2
      BY <1>1, <1>3, <1>4, <1>5, <2>3
    <3> QED
      BY <1>1, <1>4, <1>6, <2>1, <3>1, OneSave
  <2> QED
    BY <2>2, <2>3 DEF Told
<1>7. AllInTime(row, q)
  BY <1>1, <1>3, <1>4, <1>5 DEF AllInTime, InTime
<1> QED
  BY <1>2, <1>3, <1>4, <1>5, <1>6, <1>7

LEMMA FulfillmentPromise ==
  ASSUME NEW row \in Order, NEW h \in Seq(Entry), NEW s \in FulfillmentStatus
  PROVE  LET q == FulfillmentWrites(row, s) IN
         /\ q \in Seq(Write) /\ q # << >> /\ \A i \in DOMAIN q : q[i].into \in {"orders", "history"}
         /\ \A c \in Told : Agree(row, h, << >>, c) => Agree(row, h, q, c)
         /\ AllInTime(row, q)
<1> DEFINE new == [row EXCEPT !.fulfillment_status = s]
           q   == <<Save(new), Log("fulfillment_status", s)>>
<1>1. /\ new \in Order /\ new.stamps = row.stamps
      /\ new["status"] = row["status"] /\ new["payment_status"] = row["payment_status"]
  BY DEF Order
<1>2. FulfillmentWrites(row, s) = q
  BY DEF FulfillmentWrites
<1> HIDE DEF new
<1>3. /\ Save(new) \in Write /\ Save(new).into = "orders" /\ Save(new).row = new
      /\ Log("fulfillment_status", s) \in Write /\ Log("fulfillment_status", s).into = "history"
      /\ Log("fulfillment_status", s).entry.column = "fulfillment_status"
  BY <1>1, WritesTyped DEF Column
<1>4. q \in Seq(Write) /\ q # << >> /\ DOMAIN q = 1 .. 2
      /\ q[1] = Save(new) /\ q[2] = Log("fulfillment_status", s)
  BY <1>3
<1> HIDE DEF q
<1>5. \A i \in DOMAIN q : i = 1 \/ i = 2
  BY <1>4
<1>6. ASSUME NEW c \in Told, Agree(row, h, << >>, c) PROVE Agree(row, h, q, c)
  BY <1>1, <1>3, <1>4, <1>5, <1>6, OneSave DEF Told
<1>7. AllInTime(row, q)
  BY <1>1, <1>3, <1>4, <1>5 DEF AllInTime, InTime
<1> QED
  BY <1>2, <1>3, <1>4, <1>5, <1>6, <1>7

LEMMA CancelPromise ==
  ASSUME NEW row \in Order, NEW h \in Seq(Entry), CanCancel(row)
  PROVE  LET q == CancelWrites(row) IN
         /\ q \in Seq(Write) /\ q # << >> /\ \A i \in DOMAIN q : q[i].into \in {"orders", "history"}
         /\ \A c \in Told : Agree(row, h, << >>, c) => Agree(row, h, q, c)
         /\ AllInTime(row, q)
<1> DEFINE new == [row EXCEPT !.status = "cancelled", !.stamps = @ \union {"cancelled"}]
           q   == <<Save(new), Cancelled>>
<1>1. /\ new \in Order
      /\ new["status"] = "cancelled" /\ new["payment_status"] = row["payment_status"]
  BY DEF Order, OrderStatus, Stamped
<1>2. CancelWrites(row) = q
  BY DEF CancelWrites
<1> HIDE DEF new
<1>3. /\ Save(new) \in Write /\ Save(new).into = "orders" /\ Save(new).row = new
      /\ Cancelled \in Write /\ Cancelled.into = "history"
      /\ Cancelled.entry.column = "status" /\ Says(Cancelled.entry) = "cancelled"
  BY <1>1, WritesTyped
<1>4. q \in Seq(Write) /\ q # << >> /\ DOMAIN q = 1 .. 2
      /\ q[1] = Save(new) /\ q[2] = Cancelled
  BY <1>3
<1> HIDE DEF q
<1>5. \A i \in DOMAIN q : i = 1 \/ i = 2
  BY <1>4
<1>6. ASSUME NEW c \in Told, Agree(row, h, << >>, c) PROVE Agree(row, h, q, c)
  <2>1. \A i \in DOMAIN q : i # 1 => q[i].into = "history"
    BY <1>3, <1>4, <1>5
  <2>2. CASE c = "payment_status"
    <3>1. new[c] = row[c] /\ \A i \in DOMAIN q : i # 1 => q[i].entry.column # c
      BY <1>1, <1>3, <1>4, <1>5, <2>2
    <3> QED
      BY <1>1, <1>4, <1>6, <2>1, <3>1, OneSave
  <2>3. CASE c = "status"
    <3>1. /\ 2 \in DOMAIN q /\ 2 # 1 /\ q[2].entry.column = c /\ Says(q[2].entry) = new[c]
          /\ \A k \in DOMAIN q : k # 1 /\ q[k].entry.column = c => k <= 2
      BY <1>1, <1>3, <1>4, <1>5, <2>3
    <3> QED
      BY <1>1, <1>4, <1>6, <2>1, <3>1, OneSave
  <2> QED
    BY <2>2, <2>3 DEF Told
<1>7. AllInTime(row, q)
  BY <1>3, <1>4, <1>5 DEF AllInTime, InTime, CanCancel, Gone
<1> QED
  BY <1>2, <1>3, <1>4, <1>5, <1>6, <1>7

LEMMA Joined ==
  ASSUME NEW S, NEW x \in S, NEW a \in S, NEW b \in S
  PROVE  /\ <<x>> \o << >> \o << >> = <<x>>
         /\ <<x>> \o <<a>> \o << >> = <<x, a>>
         /\ <<x>> \o << >> \o <<b>> = <<x, b>>
         /\ <<x>> \o <<a>> \o <<b>> = <<x, a, b>>
<1>1. /\ <<x>> \in Seq(S) /\ <<x, a>> \in Seq(S)
      /\ Append(<<x>>, a) = <<x, a>> /\ Append(<<x>>, b) = <<x, b>>
      /\ Append(<<x, a>>, b) = <<x, a, b>>
  <2>1. ASSUME NEW y \in S PROVE Append(<<x>>, y) = <<x, y>>
    <3> DEFINE t == Append(<<x>>, y)
    <3>1. <<x>> \in Seq(S) /\ Len(<<x>>) = 1 /\ <<x>>[1] = x
      OBVIOUS
    <3>2. t \in Seq(S) /\ Len(t) = 2 /\ t[1] = x /\ t[2] = y
      BY <3>1, AppendProperties
    <3>3. <<x, y>> \in Seq(S) /\ Len(<<x, y>>) = 2 /\ <<x, y>>[1] = x /\ <<x, y>>[2] = y
      OBVIOUS
    <3>4. \A i \in 1 .. 2 : t[i] = <<x, y>>[i]
      BY <3>2, <3>3
    <3> QED
      BY <3>2, <3>3, <3>4, SeqEqual
  <2>2. Append(<<x, a>>, b) = <<x, a, b>>
    <3> DEFINE t == Append(<<x, a>>, b)
    <3>1. <<x, a>> \in Seq(S) /\ Len(<<x, a>>) = 2 /\ <<x, a>>[1] = x /\ <<x, a>>[2] = a
      OBVIOUS
    <3>2. t \in Seq(S) /\ Len(t) = 3 /\ t[1] = x /\ t[2] = a /\ t[3] = b
      BY <3>1, AppendProperties
    <3>3. /\ <<x, a, b>> \in Seq(S) /\ Len(<<x, a, b>>) = 3
          /\ <<x, a, b>>[1] = x /\ <<x, a, b>>[2] = a /\ <<x, a, b>>[3] = b
      OBVIOUS
    <3>4. \A i \in 1 .. 3 : t[i] = <<x, a, b>>[i]
      BY <3>2, <3>3
    <3> QED
      BY <3>2, <3>3, <3>4, SeqEqual
  <2> QED
    BY <2>1, <2>2
<1>2. <<x>> \o <<a>> = <<x, a>> /\ <<x>> \o <<b>> = <<x, b>> /\ <<x, a>> \o <<b>> = <<x, a, b>>
  BY <1>1, AppendIsConcat
<1>3. <<x>> \o << >> = <<x>> /\ <<x, a>> \o << >> = <<x, a>>
  BY <1>1, ConcatEmptySeq
<1> QED
  BY <1>2, <1>3

LEMMA UpdatePromise ==
  ASSUME NEW row \in Order, NEW h \in Seq(Entry), NEW s \in OrderStatus, NEW p \in PaymentStatus,
         NEW f \in FulfillmentStatus
  PROVE  LET q == UpdateWrites(row, s, p, f) IN
         /\ q \in Seq(Write) /\ q # << >> /\ \A i \in DOMAIN q : q[i].into \in {"orders", "history"}
         /\ \A c \in Told : Agree(row, h, << >>, c) => Agree(row, h, q, c)
         /\ AllInTime(row, q)
<1> DEFINE new == [row EXCEPT !.status = s, !.payment_status = p, !.fulfillment_status = f]
           a   == Log("status", s)
           b   == Log("payment_status", p)
           q   == UpdateWrites(row, s, p, f)
<1>1. /\ new \in Order /\ new.stamps = row.stamps
      /\ new["status"] = s /\ new["payment_status"] = p
      /\ row["status"] = row.status /\ row["payment_status"] = row.payment_status
  BY DEF Order
<1>2. q = <<Save(new)>> \o (IF s # row.status THEN <<a>> ELSE << >>)
                        \o (IF p # row.payment_status THEN <<b>> ELSE << >>)
  BY DEF UpdateWrites
<1> HIDE DEF new, q
<1>3. /\ Save(new) \in Write /\ Save(new).into = "orders" /\ Save(new).row = new
      /\ a \in Write /\ a.into = "history" /\ a.entry.column = "status" /\ Says(a.entry) = s
      /\ b \in Write /\ b.into = "history" /\ b.entry.column = "payment_status" /\ Says(b.entry) = p
  BY <1>1, WritesTyped DEF Column
<1> HIDE DEF a, b
<1>4. \/ s = row.status /\ p = row.payment_status /\ q = <<Save(new)>>
      \/ s # row.status /\ p = row.payment_status /\ q = <<Save(new), a>>
      \/ s = row.status /\ p # row.payment_status /\ q = <<Save(new), b>>
      \/ s # row.status /\ p # row.payment_status /\ q = <<Save(new), a, b>>
  <2> DEFINE A == IF s # row.status THEN <<a>> ELSE << >>
             B == IF p # row.payment_status THEN <<b>> ELSE << >>
  <2>1. /\ s # row.status => A = <<a>>
        /\ s = row.status => A = << >>
        /\ p # row.payment_status => B = <<b>>
        /\ p = row.payment_status => B = << >>
    OBVIOUS
  <2>2. q = <<Save(new)>> \o A \o B
    BY <1>2
  <2> HIDE DEF A, B
  <2>3. /\ <<Save(new)>> \o << >> \o << >> = <<Save(new)>>
        /\ <<Save(new)>> \o <<a>> \o << >> = <<Save(new), a>>
        /\ <<Save(new)>> \o << >> \o <<b>> = <<Save(new), b>>
        /\ <<Save(new)>> \o <<a>> \o <<b>> = <<Save(new), a, b>>
    BY <1>3, Joined
  <2> QED
    BY <2>1, <2>2, <2>3
<1>5. /\ q \in Seq(Write) /\ q # << >> /\ q[1] = Save(new) /\ 1 \in DOMAIN q
      /\ \A i \in DOMAIN q : i # 1 => q[i] \in {a, b}
      /\ \A i \in DOMAIN q : i # 1 /\ q[i] = b => \A k \in DOMAIN q : k <= i
      /\ \A i \in DOMAIN q : i # 1 /\ q[i] = a => \A k \in DOMAIN q : k <= i \/ q[k] = b
      /\ s # row.status => \E i \in DOMAIN q : i # 1 /\ q[i] = a
      /\ s = row.status => \A i \in DOMAIN q : i # 1 => q[i] = b
      /\ p # row.payment_status => \E i \in DOMAIN q : i # 1 /\ q[i] = b
      /\ p = row.payment_status => \A i \in DOMAIN q : i # 1 => q[i] = a
  <2>1. CASE q = <<Save(new)>> /\ s = row.status /\ p = row.payment_status
    BY <1>3, <2>1
  <2>2. CASE q = <<Save(new), a>> /\ s # row.status /\ p = row.payment_status
    <3>1. DOMAIN q = 1 .. 2 /\ q[1] = Save(new) /\ q[2] = a /\ q \in Seq(Write) /\ q # << >>
      BY <1>3, <2>2
    <3>2. \A i \in DOMAIN q : i = 1 \/ i = 2
      BY <3>1
    <3>3. a # b
      BY <1>3
    <3> QED
      BY <2>2, <3>1, <3>2, <3>3
  <2>3. CASE q = <<Save(new), b>> /\ s = row.status /\ p # row.payment_status
    <3>1. DOMAIN q = 1 .. 2 /\ q[1] = Save(new) /\ q[2] = b /\ q \in Seq(Write) /\ q # << >>
      BY <1>3, <2>3
    <3>2. \A i \in DOMAIN q : i = 1 \/ i = 2
      BY <3>1
    <3>3. a # b
      BY <1>3
    <3> QED
      BY <2>3, <3>1, <3>2, <3>3
  <2>4. CASE q = <<Save(new), a, b>> /\ s # row.status /\ p # row.payment_status
    <3>1. DOMAIN q = 1 .. 3 /\ q[1] = Save(new) /\ q[2] = a /\ q[3] = b /\ q \in Seq(Write) /\ q # << >>
      BY <1>3, <2>4
    <3>2. \A i \in DOMAIN q : i = 1 \/ i = 2 \/ i = 3
      BY <3>1
    <3>3. a # b
      BY <1>3
    <3> QED
      BY <2>4, <3>1, <3>2, <3>3
  <2> QED
    BY <1>4, <2>1, <2>2, <2>3, <2>4
<1>6. ASSUME NEW c \in Told, Agree(row, h, << >>, c) PROVE Agree(row, h, q, c)
  <2>1. \A i \in DOMAIN q : i # 1 => q[i].into = "history"
    BY <1>3, <1>5
  <2>2. CASE c = "status"
    <3>1. CASE s = row.status
      <4>1. \A i \in DOMAIN q : i # 1 => q[i].entry.column # c
        BY <1>3, <1>5, <2>2, <3>1
      <4> QED
        BY <1>1, <1>5, <1>6, <2>1, <2>2, <3>1, <4>1, OneSave
    <3>2. CASE s # row.status
      <4>1. PICK i \in DOMAIN q : i # 1 /\ q[i] = a
        BY <1>5, <3>2
      <4>2. \A k \in DOMAIN q : k # 1 /\ q[k].entry.column = c => k <= i
        BY <1>3, <1>5, <2>2, <4>1
      <4>3. q[i].entry.column = c /\ Says(q[i].entry) = new[c]
        BY <1>1, <1>3, <2>2, <4>1
      <4> QED
        BY <1>1, <1>5, <1>6, <2>1, <4>1, <4>2, <4>3, OneSave
    <3> QED
      BY <3>1, <3>2
  <2>3. CASE c = "payment_status"
    <3>1. CASE p = row.payment_status
      <4>1. \A i \in DOMAIN q : i # 1 => q[i].entry.column # c
        BY <1>3, <1>5, <2>3, <3>1
      <4> QED
        BY <1>1, <1>5, <1>6, <2>1, <2>3, <3>1, <4>1, OneSave
    <3>2. CASE p # row.payment_status
      <4>1. PICK i \in DOMAIN q : i # 1 /\ q[i] = b
        BY <1>5, <3>2
      <4>2. q[i].entry.column = c /\ Says(q[i].entry) = new[c]
        BY <1>1, <1>3, <2>3, <4>1
      <4> QED
        BY <1>1, <1>5, <1>6, <2>1, <4>1, <4>2, OneSave
    <3> QED
      BY <3>1, <3>2
  <2> QED
    BY <2>2, <2>3 DEF Told
<1>7. AllInTime(row, q)
  BY <1>1, <1>3, <1>5 DEF AllInTime, InTime
<1> QED
  BY <1>3, <1>5, <1>6, <1>7 DEF q

-----------------------------------------------------------------------------
(* A step concerns one order or one customer; the others are as they were. *)

LEMMA FiniteCarts ==
  \A c : IsFiniteSet(CartsOf(c)) /\ IsFiniteSet(Creating(c))
<1>1. IsFiniteSet(Carts)
  <2>1. 0 \in Int /\ MaxRequests \in Int
    BY OrderConstants
  <2> QED
    BY <2>1, FS_Interval DEF Carts
<1>2. \A c : CartsOf(c) \subseteq Carts /\ Creating(c) \subseteq Workers
  BY DEF CartsOf, Creating
<1> QED
  BY <1>1, <1>2, FS_Subset, OrderConstants

LEMMA OrderUntouched ==
  ASSUME NEW o \in Ids, Orderly(o), order'[o] = order[o], history'[o] = history[o],
         disturbed \subseteq disturbed', silent \subseteq silent',
         \A v \in Workers : job'[v] = job[v] \/ (~Holds(v, o) /\ ~Holds(v, o)')
  PROVE  Orderly(o)'
<1>1. \A v \in Workers : /\ Holds(v, o)' <=> Holds(v, o)
                         /\ Holds(v, o) => job'[v] = job[v]
  BY DEF Holds, Busy
<1>2. /\ Held(o)' <=> Held(o)
      /\ Exists(o)' <=> Exists(o)
  BY <1>1 DEF Held, Holds, Busy, Exists
<1>3. Present(o) => Present(o)'
  BY <1>1, <1>2 DEF Present, Holds, Busy, Exists
<1>4. RestTells(o) => RestTells(o)'
  BY <1>2 DEF RestTells, Held, Holds, Busy, Exists
<1>5. HolderTells(o) => HolderTells(o)'
  BY <1>1 DEF HolderTells, Holds, Busy
<1>6. CancelChecked(o) => CancelChecked(o)'
  BY <1>1 DEF CancelChecked, Holds, Busy
<1> QED
  BY <1>3, <1>4, <1>5, <1>6 DEF Orderly

\* A cart that goes away makes room for a new one.
LEMMA CartKept ==
  ASSUME TypeOK, NEW c \in Customers, CartAwaited(c),
         c \in given' \/ CartsOf(c)' \subseteq CartsOf(c),
         disturbed \subseteq disturbed', given \subseteq given',
         \A v \in Workers : \/ job'[v] = job[v] \/ ~Holds(v, c)'
                            \/ job'[v].writes[1].into # "carts"
  PROVE  CartAwaited(c)'
<1>1. CASE c \in given'
  BY <1>1 DEF CartAwaited
<1>2. CASE c \notin given'
  <2>1. CartsOf(c)' \subseteq CartsOf(c) /\ Creating(c)' \subseteq Creating(c)
    BY <1>2 DEF Creating, Holds, Busy
  <2>2. IsFiniteSet(CartsOf(c)) /\ IsFiniteSet(Creating(c))
    BY FiniteCarts
  <2>3. /\ Cardinality(CartsOf(c))' <= Cardinality(CartsOf(c))
        /\ Cardinality(Creating(c))' <= Cardinality(Creating(c))
        /\ Cardinality(CartsOf(c)) \in Nat /\ Cardinality(Creating(c)) \in Nat
        /\ Cardinality(CartsOf(c))' \in Nat /\ Cardinality(Creating(c))' \in Nat
        /\ Cardinality(Workers) \in Nat
    BY <2>1, <2>2, FS_Subset, FS_CardinalityType, OrderConstants
  <2>4. c \notin given
    BY <1>2
  <2>5. /\ Cardinality(CartsOf(c))' + Cardinality(Creating(c))' <= Cardinality(Workers)
    BY <2>3, <2>4 DEF CartAwaited
  <2>6. \/ c \in disturbed' \/ CartsOf(c)' = {}
        \/ Creating(c)' = {} /\ \E n : CartsOf(c)' = {n}
    BY <2>1, <2>4 DEF CartAwaited
  <2> QED
    BY <2>5, <2>6 DEF CartAwaited
<1> QED
  BY <1>1, <1>2

\* One worker's job changes.
LEMMA JobChange ==
  ASSUME TypeOK, Working, Alone, NEW w \in Workers, NEW j \in Job \union {<< >>},
         job' = [job EXCEPT ![w] = j], disturbed \subseteq disturbed',
         j # << >> => /\ j.writes # << >> /\ Fits(j.id, j.writes)
                      /\ Holds(w, j.id) \/ ~Held(j.id) \/ j.id \in disturbed'
  PROVE  /\ job' \in [Workers -> Job \union {<< >>}] /\ Working' /\ Alone'
         /\ \A v \in Workers \ {w} : job'[v] = job[v]
         /\ job'[w] = j
<1>1. /\ job' \in [Workers -> Job \union {<< >>}] /\ job'[w] = j
      /\ \A v \in Workers \ {w} : job'[v] = job[v]
  BY DEF TypeOK
<1>2. Working'
  BY <1>1 DEF Working, Busy, Fits
<1>3. ASSUME NEW id \in (Ids \union Customers) \ disturbed', NEW u \in Workers, NEW v \in Workers,
             Holds(u, id)', Holds(v, id)'
      PROVE  u = v
  <2>1. \A x \in Workers \ {w} : Holds(x, id)' => Holds(x, id) /\ Held(id)
    BY <1>1 DEF Holds, Held, Busy
  <2>2. Holds(w, id)' => Holds(w, id) \/ ~Held(id)
    BY <1>1 DEF Holds, Busy
  <2>3. \A x, y \in Workers : Holds(x, id) /\ Holds(y, id) => x = y
    BY <1>3 DEF Alone
  <2> QED
    BY <1>3, <2>1, <2>2, <2>3
<1>4. Alone'
  BY <1>3 DEF Alone
<1> QED
  BY <1>1, <1>2, <1>4

-----------------------------------------------------------------------------
(* Requests arrive. *)

LEMMA Started ==
  ASSUME OrderInv, NEW w \in Workers, NEW id \in Ids \union Customers, NEW q \in Seq(Write),
         Fits(id, q), Start(w, id, q), UNCHANGED <<order, history, owner, item, given>>,
         silent' \subseteq Ids
  PROVE  /\ TypeOK' /\ Working' /\ Alone'
         /\ \A v \in Workers \ {w} : job'[v] = job[v]
         /\ job[w] = << >> /\ job'[w] = IF q = << >> THEN << >> ELSE [id |-> id, writes |-> q]
         /\ disturbed \subseteq disturbed' /\ (Held(id) => id \in disturbed')
<1> DEFINE j == IF q = << >> THEN << >> ELSE [id |-> id, writes |-> q]
<1>1. j \in Job \union {<< >>} /\ (j # << >> => j.id = id /\ j.writes = q /\ q # << >>)
  BY DEF Job
<1>2. /\ job' = [job EXCEPT ![w] = j] /\ job[w] = << >>
      /\ disturbed' = disturbed \union {x \in {id} : Held(x)}
      /\ budget \in 0 .. MaxRequests /\ budget > 0 /\ budget' = budget - 1
  BY DEF Start, Busy, OrderInv, TypeOK
<1> HIDE DEF j
<1>3. disturbed \subseteq disturbed' /\ (Held(id) => id \in disturbed')
  BY <1>2
<1>4. disturbed' \subseteq Ids \union Customers
  BY <1>2 DEF OrderInv, TypeOK
<1>5. budget' \in 0 .. MaxRequests
  BY <1>2, OrderConstants
<1>6. /\ job' \in [Workers -> Job \union {<< >>}] /\ Working' /\ Alone'
      /\ \A v \in Workers \ {w} : job'[v] = job[v]
      /\ job'[w] = j
  BY <1>1, <1>2, <1>3, JobChange DEF OrderInv
<1>7. TypeOK'
  BY <1>4, <1>5, <1>6 DEF OrderInv, TypeOK
<1> QED
  BY <1>2, <1>3, <1>6, <1>7 DEF j

LEMMA OrderStarted ==
  ASSUME OrderInv, NEW w \in Workers, NEW o \in Ids, Exists(o), NEW q \in Seq(Write), q # << >>,
         Fits(o, q),
         \/ o \in silent'
         \/ /\ \A c \in Told : Agree(order[o], history[o], << >>, c) => Agree(order[o], history[o], q, c)
            /\ AllInTime(order[o], q),
         Start(w, o, q), UNCHANGED <<order, history, owner, item, given>>,
         silent \subseteq silent', silent' \subseteq Ids
  PROVE  OrderInv'
<1>1. /\ TypeOK' /\ Working' /\ Alone'
      /\ \A v \in Workers \ {w} : job'[v] = job[v]
      /\ job[w] = << >> /\ job'[w] = [id |-> o, writes |-> q]
      /\ disturbed \subseteq disturbed' /\ (Held(o) => o \in disturbed')
  BY Started
<1>2. \A x \in (Ids \union Customers) \ {o} : ~Holds(w, x) /\ ~Holds(w, x)'
  BY <1>1 DEF Holds, Busy
<1>3. ASSUME NEW x \in Ids, x # o PROVE Orderly(x)'
  BY <1>1, <1>2, <1>3, OrderUntouched DEF OrderInv
<1>4. ASSUME NEW c \in Customers PROVE CartAwaited(c)'
  <2>1. c # o
    BY OrderConstants
  <2>2. CartsOf(c)' = CartsOf(c)
    BY DEF CartsOf
  <2>3. \A v \in Workers : job'[v] = job[v] \/ ~Holds(v, c)'
    BY <1>1, <1>2, <2>1
  <2> QED
    BY <1>1, <2>2, <2>3, CartKept DEF OrderInv
<1>5. Orderly(o)'
  <2>1. CASE o \in disturbed'
    BY <2>1 DEF Orderly
  <2>2. CASE o \notin disturbed'
    <3>1. ~Held(o) /\ o \notin disturbed
      BY <1>1, <2>2
    <3>2. \A v \in Workers : Holds(v, o)' <=> v = w
      BY <1>1, <3>1 DEF Held, Holds, Busy
    <3>3. Exists(o)' /\ order' = order /\ history' = history
      BY DEF Exists
    <3>4. Present(o)' /\ RestTells(o)'
      <4>1. Busy(w)' /\ Holds(w, o)'
        BY <3>2 DEF Holds
      <4>2. Held(o)'
        BY <4>1 DEF Held, Holds
      <4> QED
        BY <3>3, <4>2 DEF Present, RestTells, Exists
    <3>5. o \notin silent' => HolderTells(o)' /\ CancelChecked(o)'
      <4>1. o \notin silent' => \A c \in Told : Agree(order[o], history[o], << >>, c)
        BY <3>1 DEF OrderInv, Orderly, RestTells
      <4>2. job'[w].writes = q
        BY <1>1
      <4> QED
        BY <3>2, <3>3, <4>1, <4>2 DEF HolderTells, CancelChecked, Holds, Busy
    <3>6. o \in silent' \/ (HolderTells(o)' /\ CancelChecked(o)')
      BY <3>3, <3>5
    <3> QED
      BY <3>4, <3>6 DEF Orderly
  <2> QED
    BY <2>1, <2>2
<1> QED
  BY <1>1, <1>3, <1>4, <1>5 DEF OrderInv

LEMMA CartStarted ==
  ASSUME OrderInv, NEW w \in Workers, NEW c \in Customers, NEW q \in Seq(Write), Fits(c, q),
         q # << >> /\ q[1].into = "carts" => CartsOf(c) = {},
         Start(w, c, q), UNCHANGED <<order, history, owner, item, given>>, silent' = silent
  PROVE  OrderInv'
<1>0. silent' \subseteq Ids
  BY DEF OrderInv, TypeOK
<1>1. /\ TypeOK' /\ Working' /\ Alone'
      /\ \A v \in Workers \ {w} : job'[v] = job[v]
      /\ job[w] = << >> /\ job'[w] = IF q = << >> THEN << >> ELSE [id |-> c, writes |-> q]
      /\ disturbed \subseteq disturbed' /\ (Held(c) => c \in disturbed')
  BY <1>0, Started
<1>2. \A x \in (Ids \union Customers) \ {c} : ~Holds(w, x) /\ ~Holds(w, x)'
  BY <1>1 DEF Holds, Busy
<1>3. \A x \in Customers : CartsOf(x)' = CartsOf(x)
  BY DEF CartsOf
<1>4. ASSUME NEW x \in Customers, x # c PROVE CartAwaited(x)'
  <2>1. \A v \in Workers : job'[v] = job[v] \/ ~Holds(v, x)'
    BY <1>1, <1>2, <1>4
  <2> QED
    BY <1>1, <1>3, <2>1, CartKept DEF OrderInv
<1>5. ASSUME NEW o \in Ids PROVE Orderly(o)'
  <2>1. c # o
    BY OrderConstants
  <2> QED
    BY <1>1, <1>2, <2>1, OrderUntouched DEF OrderInv
<1>6. CartAwaited(c)'
  <2>1. CASE q # << >> /\ q[1].into = "carts"
    <3>1. CartsOf(c)' = {} /\ Cardinality(CartsOf(c))' = 0
      BY <1>3, <2>1, FS_EmptySet
    <3>2. Creating(c)' \subseteq Workers
      BY DEF Creating
    <3>3. Cardinality(Creating(c))' <= Cardinality(Workers) /\ Cardinality(Creating(c))' \in Nat
      BY <3>2, FS_Subset, FS_CardinalityType, OrderConstants
    <3> QED
      BY <3>1, <3>3 DEF CartAwaited
  <2>2. CASE q = << >> \/ q[1].into # "carts"
    <3>1. \A v \in Workers : \/ job'[v] = job[v] \/ ~Holds(v, c)'
                             \/ job'[v].writes[1].into # "carts"
      BY <1>1, <2>2 DEF Holds, Busy
    <3> QED
      BY <1>1, <1>3, <3>1, CartKept DEF OrderInv
  <2> QED
    BY <2>1, <2>2
<1> QED
  BY <1>1, <1>4, <1>5, <1>6 DEF OrderInv

LEMMA RequestKeeps ==
  ASSUME OrderInv, NEW w \in Workers, Request(w)
  PROVE  OrderInv'
<1>1. ASSUME NEW o \in Ids, Exists(o), NEW q, Start(w, o, q),
             UNCHANGED <<order, history, owner, item, given>>, silent' = silent,
             /\ q \in Seq(Write) /\ q # << >> /\ \A i \in DOMAIN q : q[i].into \in {"orders", "history"}
             /\ \A c \in Told : Agree(order[o], history[o], << >>, c) => Agree(order[o], history[o], q, c)
             /\ AllInTime(order[o], q)
      PROVE  OrderInv'
  <2>1. Fits(o, q) /\ silent' \subseteq Ids /\ silent \subseteq silent'
    BY <1>1 DEF Fits, Tables, OrderInv, TypeOK
  <2> QED
    BY <1>1, <2>1, OrderStarted
<1>2. \A o \in Ids : history[o] \in Seq(Entry) /\ (Exists(o) => order[o] \in Order)
  BY DEF OrderInv, TypeOK, Exists
<1>3. ASSUME NEW o \in Ids, UpdateStatus(w, o) PROVE OrderInv'
  BY <1>1, <1>2, <1>3, StatusPromise DEF UpdateStatus
<1>4. ASSUME NEW o \in Ids, UpdatePayment(w, o) PROVE OrderInv'
  BY <1>1, <1>2, <1>4, PaymentPromise DEF UpdatePayment
<1>5. ASSUME NEW o \in Ids, UpdateFulfillment(w, o) PROVE OrderInv'
  BY <1>1, <1>2, <1>5, FulfillmentPromise DEF UpdateFulfillment
<1>6. ASSUME NEW o \in Ids, UpdateOrder(w, o) PROVE OrderInv'
  <2>1. PICK s, p, f :
          /\ s \in OrderStatus /\ p \in PaymentStatus /\ f \in FulfillmentStatus
          /\ Start(w, o, UpdateWrites(order[o], s, p, f))
    BY <1>2, <1>6, RowsAreRecords DEF UpdateOrder
  <2> QED
    BY <1>1, <1>2, <1>6, <2>1, UpdatePromise DEF UpdateOrder
<1>7. ASSUME NEW o \in Ids, CancelOrder(w, o) PROVE OrderInv'
  BY <1>1, <1>2, <1>7, CancelPromise DEF CancelOrder
<1>8. ASSUME NEW o \in Ids, AdminForm(w, o) PROVE OrderInv'
  <2>1. PICK s \in OrderStatus : Start(w, o, <<Save([order[o] EXCEPT !.status = s])>>)
    BY <1>8 DEF AdminForm
  <2> DEFINE new == [order[o] EXCEPT !.status = s]
             x   == Save(new)
             q   == <<x>>
  <2>2. new \in Order
    BY <1>2, <1>8 DEF AdminForm, Order
  <2>3. x \in Write /\ x.into = "orders"
    BY <2>2, WritesTyped
  <2>4. Start(w, o, q)
    BY <2>1
  <2> HIDE DEF x
  <2>5. q \in Seq(Write) /\ q # << >> /\ Fits(o, q)
    BY <2>3 DEF Fits, Tables
  <2> HIDE DEF q
  <2>6. /\ silent \subseteq silent' /\ silent' \subseteq Ids /\ o \in silent' /\ Exists(o)
        /\ UNCHANGED <<order, history, owner, item, given>>
    BY <1>8 DEF AdminForm, OrderInv, TypeOK
  <2> QED
    BY <2>4, <2>5, <2>6, OrderStarted
<1>9. ASSUME NEW c \in Customers
      PROVE  /\ c \notin Ids /\ budget \in Carts /\ CartOf(c) \in Carts
             /\ FindCart(c) \in {<< >>, <<[into |-> "carts", cart |-> budget]>>}
             /\ FindCart(c) # << >> => CartsOf(c) = {}
  <2>1. budget \in Carts /\ CartsOf(c) \subseteq Carts
    BY DEF OrderInv, TypeOK, Carts, CartsOf
  <2> QED
    BY <2>1, OrderConstants DEF CartOf, FindCart
<1>10. ASSUME NEW c \in Customers, NEW y \in Write, y.into \in {"owner", "look"},
              Start(w, c, FindCart(c) \o <<y>>),
              UNCHANGED <<order, history, owner, item, given>>, silent' = silent
       PROVE  OrderInv'
  <2> DEFINE x == [into |-> "carts", cart |-> budget]
             q == FindCart(c) \o <<y>>
  <2>1. x \in Write /\ x.into = "carts"
    BY <1>9 DEF Write
  <2>2. FindCart(c) = << >> \/ (FindCart(c) = <<x>> /\ CartsOf(c) = {})
    BY <1>9
  <2> HIDE DEF x
  <2>3. << >> \o <<y>> = <<y>> /\ <<x>> \o <<y>> = <<x, y>>
    BY <1>10, <2>1, Joined, ConcatEmptySeq
  <2>4. q = <<y>> \/ (q = <<x, y>> /\ CartsOf(c) = {})
    BY <2>2, <2>3
  <2>5. Start(w, c, q)
    BY <1>10
  <2> HIDE DEF q
  <2>6. q \in Seq(Write) /\ Fits(c, q) /\ (q # << >> /\ q[1].into = "carts" => CartsOf(c) = {})
    <3>1. CASE q = <<y>>
      BY <1>9, <1>10, <3>1 DEF Fits, Tables
    <3>2. CASE q = <<x, y>> /\ CartsOf(c) = {}
      <4>1. DOMAIN q = 1 .. 2 /\ q[1] = x /\ q[2] = y /\ q \in Seq(Write)
        BY <1>10, <2>1, <3>2
      <4>2. \A i \in DOMAIN q : i = 1 \/ i = 2
        BY <4>1
      <4> QED
        BY <1>9, <1>10, <2>1, <3>2, <4>1, <4>2 DEF Fits, Tables
    <3> QED
      BY <2>4, <3>1, <3>2
  <2> QED
    BY <1>10, <2>5, <2>6, CartStarted
<1>11. ASSUME NEW c \in Customers, AddItem(w, c) PROVE OrderInv'
  <2>1. PICK n \in Quantity :
          Start(w, c, FindCart(c) \o <<[into |-> "look", cart |-> CartOf(c), quantity |-> n]>>)
    BY <1>11 DEF AddItem
  <2> DEFINE y == [into |-> "look", cart |-> CartOf(c), quantity |-> n]
  <2>2. y \in Write /\ y.into = "look"
    BY <1>9 DEF Write
  <2> QED
    BY <1>10, <1>11, <2>1, <2>2 DEF AddItem
<1>12. ASSUME NEW c \in Customers, UpdateCart(w, c) PROVE OrderInv'
  <2>1. PICK d \in Customers \union {Guest} :
          Start(w, c, FindCart(c) \o <<[into |-> "owner", cart |-> CartOf(c), customer |-> d]>>)
    BY <1>12 DEF UpdateCart
  <2> DEFINE y == [into |-> "owner", cart |-> CartOf(c), customer |-> d]
  <2>2. y \in Write /\ y.into = "owner"
    BY <1>9 DEF Write
  <2> QED
    BY <1>10, <1>12, <2>1, <2>2 DEF UpdateCart
<1>13. ASSUME NEW c \in Customers, OpenCart(w, c) PROVE OrderInv'
  <2> DEFINE x == [into |-> "carts", cart |-> budget]
             q == FindCart(c)
  <2>1. x \in Write /\ x.into = "carts"
    BY <1>9 DEF Write
  <2>2. q = << >> \/ (q = <<x>> /\ CartsOf(c) = {})
    BY <1>9
  <2> HIDE DEF x, q
  <2>3. q \in Seq(Write) /\ Fits(c, q) /\ (q # << >> /\ q[1].into = "carts" => CartsOf(c) = {})
    <3>1. CASE q = << >>
      BY <3>1 DEF Fits
    <3>2. CASE q = <<x>> /\ CartsOf(c) = {}
      BY <1>9, <2>1, <3>2 DEF Fits, Tables
    <3> QED
      BY <2>2, <3>1, <3>2
  <2> QED
    BY <1>13, <2>3, CartStarted DEF OpenCart, q
<1>14. ASSUME NEW c \in Customers, UpdateItem(w, c) PROVE OrderInv'
  <2>1. PICK m \in CartsOf(c), n \in Quantity :
          Start(w, c, <<[into |-> "items", cart |-> m, quantity |-> n]>>)
    BY <1>14 DEF UpdateItem
  <2> DEFINE x == [into |-> "items", cart |-> m, quantity |-> n]
             q == <<x>>
  <2>2. m \in Carts
    BY DEF CartsOf
  <2>3. x \in Write /\ x.into = "items"
    BY <2>2 DEF Write
  <2>4. Start(w, c, q)
    BY <2>1
  <2> HIDE DEF x
  <2>5. q \in Seq(Write) /\ Fits(c, q) /\ q[1].into # "carts"
    BY <1>9, <2>3 DEF Fits, Tables
  <2> HIDE DEF q
  <2> QED
    BY <1>14, <2>4, <2>5, CartStarted DEF UpdateItem
<1> QED
  BY <1>3, <1>4, <1>5, <1>6, <1>7, <1>8, <1>11, <1>12, <1>13, <1>14 DEF Request

-----------------------------------------------------------------------------
(* The writes. *)

LEMMA AtWork ==
  ASSUME OrderInv, NEW w \in Workers, Busy(w)
  PROVE  /\ job[w] \in Job /\ job[w].id \in Ids \union Customers
         /\ job[w].writes \in Seq(Write) /\ job[w].writes # << >> /\ Fits(job[w].id, job[w].writes)
         /\ Current(w) = job[w].writes[1] /\ Current(w) \in Write
         /\ Current(w).into \in Tables(job[w].id)
<1>1. job[w] \in Job /\ job[w].writes # << >> /\ Fits(job[w].id, job[w].writes)
  BY DEF OrderInv, TypeOK, Working, Busy
<1>2. job[w].id \in Ids \union Customers /\ job[w].writes \in Seq(Write)
  BY <1>1 DEF Job
<1>3. 1 \in DOMAIN job[w].writes /\ Current(w) = job[w].writes[1] /\ Current(w) \in Write
  BY <1>1, <1>2, TailFacts DEF Current
<1> QED
  BY <1>1, <1>2, <1>3 DEF Fits

LEMMA Advanced ==
  ASSUME OrderInv, NEW w \in Workers, Busy(w), Advance(w), disturbed' = disturbed
  PROVE  /\ job' \in [Workers -> Job \union {<< >>}] /\ Working' /\ Alone'
         /\ \A v \in Workers \ {w} : job'[v] = job[v]
         /\ job'[w] = IF Tail(job[w].writes) = << >> THEN << >>
                      ELSE [id |-> job[w].id, writes |-> Tail(job[w].writes)]
<1>0. PICK id, q : id = job[w].id /\ q = job[w].writes
  OBVIOUS
<1> DEFINE j == IF Tail(q) = << >> THEN << >> ELSE [id |-> id, writes |-> Tail(q)]
<1>1. id \in Ids \union Customers /\ q \in Seq(Write) /\ q # << >> /\ Fits(id, q)
  BY <1>0, AtWork
<1>2. Tail(q) \in Seq(Write) /\ Fits(id, Tail(q))
  <2>1. \A i \in DOMAIN Tail(q) : /\ i + 1 \in DOMAIN q /\ Tail(q)[i] = q[i + 1]
                                  /\ i \in Nat /\ i >= 1
    BY <1>1, TailFacts
  <2>2. \A i \in DOMAIN Tail(q) : Tail(q)[i].into \in Tables(id) /\ Tail(q)[i].into # "carts"
    BY <1>1, <2>1 DEF Fits
  <2> QED
    BY <1>1, <2>2, TailFacts DEF Fits
<1>3. j \in Job \union {<< >>} /\ (j # << >> => j.id = id /\ j.writes = Tail(q) /\ Tail(q) # << >>)
  BY <1>1, <1>2 DEF Job
<1>4. job' = [job EXCEPT ![w] = j]
  BY <1>0 DEF Advance
<1>5. Holds(w, id)
  BY <1>0 DEF Holds
<1> HIDE DEF j
<1>6. /\ job' \in [Workers -> Job \union {<< >>}] /\ Working' /\ Alone'
      /\ \A v \in Workers \ {w} : job'[v] = job[v]
      /\ job'[w] = j
  BY <1>2, <1>3, <1>4, <1>5, JobChange DEF OrderInv
<1> QED
  BY <1>0, <1>6 DEF j

\* What a worker does to its own order leaves the others alone.
LEMMA OthersAside ==
  ASSUME OrderInv, NEW w \in Workers, Busy(w), NEW id, id = job[w].id,
         \A v \in Workers \ {w} : job'[v] = job[v], Holds(w, id)' \/ ~Busy(w)',
         disturbed \subseteq disturbed', silent \subseteq silent'
  PROVE  \A o \in Ids : o # id /\ order'[o] = order[o] /\ history'[o] = history[o] => Orderly(o)'
<1>1. \A x \in (Ids \union Customers) \ {id} : ~Holds(w, x) /\ ~Holds(w, x)'
  BY DEF Holds, Busy
<1>2. ASSUME NEW o \in Ids, o # id, order'[o] = order[o], history'[o] = history[o] PROVE Orderly(o)'
  BY <1>1, <1>2, OrderUntouched DEF OrderInv
<1> QED
  BY <1>2

\* As long as the carts stay and the worker is not about to create one, each
\* customer's carts are as awaited.
LEMMA CartsAside ==
  ASSUME OrderInv, NEW w \in Workers, \A v \in Workers \ {w} : job'[v] = job[v],
         ~Busy(w)' \/ job'[w].writes[1].into # "carts",
         disturbed \subseteq disturbed', given \subseteq given', owner' = owner
  PROVE  \A c \in Customers : CartAwaited(c)'
<1>1. \A c \in Customers : CartsOf(c)' = CartsOf(c)
  BY DEF CartsOf
<1>2. \A c \in Customers, v \in Workers :
        job'[v] = job[v] \/ ~Holds(v, c)' \/ job'[v].writes[1].into # "carts"
  BY DEF Holds
<1> QED
  BY <1>1, <1>2, CartKept DEF OrderInv

\* No worker is about to create a cart after its first write.
LEMMA NoMoreCarts ==
  ASSUME OrderInv, NEW w \in Workers, Busy(w),
         job'[w] = IF Tail(job[w].writes) = << >> THEN << >>
                   ELSE [id |-> job[w].id, writes |-> Tail(job[w].writes)]
  PROVE  ~Busy(w)' \/ job'[w].writes[1].into # "carts"
<1>1. PICK q : q = job[w].writes
  OBVIOUS
<1>2. q \in Seq(Write) /\ q # << >> /\ Fits(job[w].id, q)
  BY <1>1, AtWork
<1>3. CASE Tail(q) = << >>
  BY <1>1, <1>3 DEF Busy
<1>4. CASE Tail(q) # << >>
  <2>1. 1 \in DOMAIN Tail(q) /\ Tail(q) \in Seq(Write)
    BY <1>2, <1>4, TailFacts
  <2>2. 2 \in DOMAIN q /\ Tail(q)[1] = q[2]
    BY <1>2, <2>1, TailFacts
  <2>3. job'[w].writes = Tail(q)
    BY <1>1, <1>4
  <2>4. q[2].into # "carts"
    BY <1>2, <2>2 DEF Fits
  <2> QED
    BY <2>2, <2>3, <2>4
<1> QED
  BY <1>3, <1>4

\* A write of its holder, after which the rest of the writes promises the same.
LEMMA OrderGoesOn ==
  ASSUME OrderInv, NEW w \in Workers, NEW o \in Ids, Holds(w, o), NEW q, q = job[w].writes,
         UNCHANGED <<disturbed, silent>>,
         \A v \in Workers \ {w} : job'[v] = job[v],
         job'[w] = IF Tail(q) = << >> THEN << >> ELSE [id |-> o, writes |-> Tail(q)],
         o \notin disturbed => Exists(o)',
         \A c \in Told : Agree(order[o], history[o], q, c) => Agree(order'[o], history'[o], Tail(q), c),
         AllInTime(order[o], q) => AllInTime(order'[o], Tail(q))
  PROVE  Orderly(o)'
<1>1. CASE o \in disturbed
  BY <1>1 DEF Orderly
<1>2. CASE o \notin disturbed
  <2>1. \A v \in Workers : Holds(v, o) => v = w
    BY <1>2 DEF OrderInv, Alone
  <2>2. \A v \in Workers : Holds(v, o)' <=> v = w /\ Tail(q) # << >>
    BY <2>1 DEF Holds, Busy
  <2>3. Held(o)' <=> Tail(q) # << >>
    BY <2>2 DEF Held, Holds, Busy
  <2>4. Present(o)'
    BY <1>2 DEF Present, Exists
  <2>5. ASSUME o \notin silent PROVE RestTells(o)' /\ HolderTells(o)' /\ CancelChecked(o)'
    <3>1. (\A c \in Told : Agree(order[o], history[o], q, c)) /\ AllInTime(order[o], q)
      BY <1>2, <2>5 DEF OrderInv, Orderly, HolderTells, CancelChecked
    <3>2. \A c \in Told : Agree(order'[o], history'[o], Tail(q), c)
      BY <3>1
    <3>3. RestTells(o)'
      BY <2>3, <3>2 DEF RestTells
    <3>4. \A v \in Workers : Holds(v, o)' => job'[v].writes = Tail(q)
      <4>1. Tail(q) # << >> => job'[w].writes = Tail(q)
        OBVIOUS
      <4> QED
        BY <2>2, <4>1 DEF Holds, Busy
    <3>5. AllInTime(order'[o], Tail(q))
      BY <3>1
    <3>6. HolderTells(o)' /\ CancelChecked(o)'
      BY <3>2, <3>4, <3>5 DEF HolderTells, CancelChecked, Holds, Busy
    <3> QED
      BY <3>3, <3>6
  <2>6. silent' = silent
    OBVIOUS
  <2> QED
    BY <2>4, <2>5, <2>6 DEF Orderly
<1> QED
  BY <1>1, <1>2

LEMMA SaveOrderKeeps ==
  ASSUME OrderInv, NEW w \in Workers, SaveOrder(w)
  PROVE  OrderInv'
<1>0. PICK o, q : o = job[w].id /\ q = job[w].writes
  OBVIOUS
<1>1. Busy(w) /\ Current(w).into = "orders" /\ Advance(w) /\ Holds(w, o)
  BY <1>0 DEF SaveOrder, Runs, Holds
<1>2. /\ o \in Ids /\ q \in Seq(Write) /\ q # << >>
      /\ Current(w) = Head(q) /\ Current(w) \in Write
  BY <1>0, <1>1, AtWork DEF Current, Tables
<1>3. Current(w).row \in Order
  BY <1>1, <1>2 DEF Write
<1>4. /\ order' = [order EXCEPT ![o] = Current(w).row]
      /\ UNCHANGED <<history, owner, item, budget, disturbed, silent, given>>
      /\ order \in [Ids -> Order \union {Missing}]
  BY <1>0 DEF SaveOrder, OrderInv, TypeOK
<1>5. order' \in [Ids -> Order \union {Missing}] /\ order'[o] = Head(q).row /\ Exists(o)'
  BY <1>2, <1>3, <1>4, OrderConstants DEF Exists
<1>6. /\ job' \in [Workers -> Job \union {<< >>}] /\ Working' /\ Alone'
      /\ \A v \in Workers \ {w} : job'[v] = job[v]
      /\ job'[w] = IF Tail(q) = << >> THEN << >> ELSE [id |-> o, writes |-> Tail(q)]
  <2>1. disturbed' = disturbed
    BY <1>4
  <2>2. /\ job' \in [Workers -> Job \union {<< >>}] /\ Working' /\ Alone'
        /\ \A v \in Workers \ {w} : job'[v] = job[v]
    BY <1>1, <2>1, Advanced
  <2>3. job'[w] = IF Tail(job[w].writes) = << >> THEN << >>
                  ELSE [id |-> job[w].id, writes |-> Tail(job[w].writes)]
    BY <1>1, <2>1, Advanced
  <2> QED
    BY <1>0, <2>2, <2>3
<1>7. TypeOK'
  BY <1>4, <1>5, <1>6 DEF OrderInv, TypeOK
<1>8. Holds(w, o)' \/ ~Busy(w)'
  BY <1>6 DEF Holds, Busy
<1>9. /\ \A x \in Ids : x # o => Orderly(x)'
      /\ \A c \in Customers : CartAwaited(c)'
  <2>1. \A x \in Ids : x # o => order'[x] = order[x]
    BY <1>4
  <2>2. ~Busy(w)' \/ job'[w].writes[1].into # "carts"
    BY <1>0, <1>1, <1>6, NoMoreCarts
  <2>3. \A c \in Customers : CartAwaited(c)'
    BY <1>4, <1>6, <2>2, CartsAside
  <2> QED
    BY <1>0, <1>1, <1>4, <1>6, <1>8, <2>1, <2>3, OthersAside
<1>10. Orderly(o)'
  <2>1. \A c \in Told : Agree(order[o], history[o], q, c) => Agree(order'[o], history'[o], Tail(q), c)
    BY <1>1, <1>2, <1>4, <1>5, SaveStep
  <2>2. AllInTime(order[o], q) => AllInTime(order'[o], Tail(q))
    BY <1>1, <1>2, <1>5, InTimeStep
  <2> QED
    BY <1>0, <1>1, <1>2, <1>4, <1>5, <1>6, <2>1, <2>2, OrderGoesOn
<1> QED
  BY <1>6, <1>7, <1>9, <1>10 DEF OrderInv

LEMMA LogChangeKeeps ==
  ASSUME OrderInv, NEW w \in Workers, LogChange(w)
  PROVE  OrderInv'
<1>0. PICK o, q : o = job[w].id /\ q = job[w].writes
  OBVIOUS
<1>1. Busy(w) /\ Current(w).into = "history" /\ Holds(w, o)
  BY <1>0 DEF LogChange, Runs, Holds
<1>2. /\ o \in Ids /\ q \in Seq(Write) /\ q # << >>
      /\ Current(w) = Head(q) /\ Current(w) \in Write
  BY <1>0, <1>1, AtWork DEF Current, Tables
<1>3. Current(w).entry \in Entry
  BY <1>1, <1>2 DEF Write
<1>4. /\ UNCHANGED <<order, owner, item, budget, disturbed, silent, given>>
      /\ history \in [Ids -> Seq(Entry)] /\ disturbed' = disturbed
  BY DEF LogChange, OrderInv, TypeOK
<1>5. CASE Exists(o)
  <2>1. history' = [history EXCEPT ![o] = Append(@, Current(w).entry)] /\ Advance(w)
    BY <1>0, <1>5 DEF LogChange
  <2>2. /\ job' \in [Workers -> Job \union {<< >>}] /\ Working' /\ Alone'
        /\ \A v \in Workers \ {w} : job'[v] = job[v]
    BY <1>1, <1>4, <2>1, Advanced
  <2>3. job'[w] = IF Tail(job[w].writes) = << >> THEN << >>
                  ELSE [id |-> job[w].id, writes |-> Tail(job[w].writes)]
    BY <1>1, <1>4, <2>1, Advanced
  <2>4. job'[w] = IF Tail(q) = << >> THEN << >> ELSE [id |-> o, writes |-> Tail(q)]
    BY <1>0, <2>3
  <2>5. /\ history' \in [Ids -> Seq(Entry)] /\ history'[o] = Append(history[o], Head(q).entry)
        /\ \A x \in Ids : x # o => history'[x] = history[x]
    BY <1>2, <1>3, <1>4, <2>1
  <2>6. TypeOK'
    BY <1>4, <2>2, <2>5 DEF OrderInv, TypeOK
  <2>7. Holds(w, o)' \/ ~Busy(w)'
    BY <2>4 DEF Holds, Busy
  <2>8. /\ \A x \in Ids : x # o => Orderly(x)'
        /\ \A c \in Customers : CartAwaited(c)'
    <3>1. ~Busy(w)' \/ job'[w].writes[1].into # "carts"
      BY <1>1, <2>3, NoMoreCarts
    <3>2. \A c \in Customers : CartAwaited(c)'
      BY <1>4, <2>2, <3>1, CartsAside
    <3> QED
      BY <1>0, <1>1, <1>4, <2>2, <2>5, <2>7, <3>2, OthersAside
  <2>9. Orderly(o)'
    <3>1. \A c \in Told : Agree(order[o], history[o], q, c) => Agree(order'[o], history'[o], Tail(q), c)
      BY <1>1, <1>2, <1>4, <2>5, LogStep
    <3>2. AllInTime(order[o], q) => AllInTime(order'[o], Tail(q))
      BY <1>1, <1>2, <1>4, InTimeStep
    <3>3. Exists(o)'
      BY <1>4, <1>5 DEF Exists
    <3> QED
      BY <1>0, <1>1, <1>2, <1>4, <2>2, <2>4, <3>1, <3>2, <3>3, OrderGoesOn
  <2> QED
    BY <2>2, <2>6, <2>8, <2>9 DEF OrderInv
<1>6. CASE ~Exists(o)
  <2>1. job' = [job EXCEPT ![w] = << >>] /\ history' = history
    BY <1>0, <1>6 DEF LogChange
  <2>2. o \in disturbed
    BY <1>1, <1>2, <1>6 DEF OrderInv, Orderly, Present
  <2>3. /\ job' \in [Workers -> Job \union {<< >>}] /\ Working' /\ Alone'
        /\ \A v \in Workers \ {w} : job'[v] = job[v]
        /\ job'[w] = << >>
    BY <1>4, <2>1, JobChange DEF OrderInv
  <2>4. TypeOK' /\ ~Busy(w)'
    BY <1>4, <2>1, <2>3 DEF OrderInv, TypeOK, Busy
  <2>5. /\ \A x \in Ids : x # o => Orderly(x)'
        /\ \A c \in Customers : CartAwaited(c)'
    <3>1. \A c \in Customers : CartAwaited(c)'
      BY <1>4, <2>3, <2>4, CartsAside
    <3> QED
      BY <1>0, <1>1, <1>4, <2>1, <2>3, <2>4, <3>1, OthersAside
  <2>6. Orderly(o)'
    BY <1>4, <2>2 DEF Orderly
  <2> QED
    BY <2>3, <2>4, <2>5, <2>6 DEF OrderInv
<1> QED
  BY <1>5, <1>6

\* The writes into carts and their items.
LEMMA CartWriteKeeps ==
  ASSUME OrderInv, NEW w \in Workers, CreateCart(w) \/ SaveCart(w) \/ SaveItem(w)
  PROVE  OrderInv'
<1>0. PICK c : c = job[w].id
  OBVIOUS
<1>1. /\ Busy(w) /\ Current(w).into \in {"carts", "owner", "items"} /\ Holds(w, c) /\ Advance(w)
      /\ UNCHANGED <<order, history, budget, disturbed, silent>> /\ disturbed' = disturbed
  BY <1>0 DEF CreateCart, SaveCart, SaveItem, Runs, Holds
<1>2. c \in Customers /\ Current(w) \in Write /\ \A o \in Ids : o # c
  BY <1>0, <1>1, AtWork, OrderConstants DEF Tables
<1>3. /\ job' \in [Workers -> Job \union {<< >>}] /\ Working' /\ Alone'
      /\ \A v \in Workers \ {w} : job'[v] = job[v]
  BY <1>1, Advanced
<1>4. job'[w] = IF Tail(job[w].writes) = << >> THEN << >>
                ELSE [id |-> job[w].id, writes |-> Tail(job[w].writes)]
  BY <1>1, Advanced
<1>5. ~Busy(w)' \/ job'[w].writes[1].into # "carts"
  BY <1>1, <1>4, NoMoreCarts
<1>6. Holds(w, c)' \/ ~Busy(w)'
  <2>1. CASE Tail(job[w].writes) = << >>
    BY <1>4, <2>1 DEF Busy
  <2>2. CASE Tail(job[w].writes) # << >>
    <3>1. job'[w].id = c
      BY <1>0, <1>4, <2>2
    <3> QED
      BY <3>1 DEF Holds
  <2> QED
    BY <2>1, <2>2
<1>7. \A o \in Ids : Orderly(o)'
  BY <1>0, <1>1, <1>2, <1>3, <1>6, OthersAside
<1>8. /\ owner \in [Carts -> Customers \union {Guest, Missing}]
      /\ item \in [Carts -> Quantity \union {Missing}]
      /\ given \subseteq Customers \union {Guest}
  BY DEF OrderInv, TypeOK
<1>9. CASE CreateCart(w)
  <2>1. PICK n : n = Current(w).cart
    OBVIOUS
  <2>2. /\ owner' = [owner EXCEPT ![n] = c] /\ n \in Carts /\ item' = item /\ given' = given
        /\ Current(w).into = "carts"
    <3>1. Current(w).into = "carts"
      BY <1>9 DEF CreateCart, Runs
    <3>2. Current(w).cart \in Carts
      BY <1>2, <3>1 DEF Write
    <3> QED
      BY <1>0, <1>9, <2>1, <3>1, <3>2 DEF CreateCart
  <2>3. TypeOK'
    BY <1>1, <1>2, <1>3, <1>8, <2>2 DEF OrderInv, TypeOK
  <2>4. ASSUME NEW x \in Customers, x # c PROVE CartAwaited(x)'
    <3>1. CartsOf(x)' \subseteq CartsOf(x)
      BY <1>8, <2>2, <2>4 DEF CartsOf
    <3>2. \A v \in Workers : job'[v] = job[v] \/ ~Holds(v, x)'
      BY <1>3, <1>6, <2>4 DEF Holds
    <3> QED
      BY <1>1, <2>2, <3>1, <3>2, CartKept DEF OrderInv
  <2>5. CartAwaited(c)'
    <3>1. CartsOf(c)' \subseteq CartsOf(c) \union {n}
      BY <1>8, <2>2 DEF CartsOf
    <3>2. w \in Creating(c) /\ Creating(c)' \subseteq Creating(c) \ {w}
      <4>1. job[w].writes[1].into = "carts"
        BY <1>1, <2>2, AtWork
      <4>2. w \notin Creating(c)'
        BY <1>5 DEF Creating, Holds
      <4>3. \A v \in Workers \ {w} : v \in Creating(c)' => v \in Creating(c)
        BY <1>3 DEF Creating, Holds, Busy
      <4>4. Creating(c)' \subseteq Workers
        BY DEF Creating
      <4> QED
        BY <1>1, <4>1, <4>2, <4>3, <4>4 DEF Creating
    <3>3. /\ IsFiniteSet(CartsOf(c)) /\ IsFiniteSet(Creating(c))
          /\ Cardinality(CartsOf(c)) \in Nat /\ Cardinality(Creating(c)) \in Nat
          /\ Cardinality(Workers) \in Nat
      BY FiniteCarts, FS_CardinalityType, OrderConstants
    <3>4. /\ IsFiniteSet(CartsOf(c) \union {n})
          /\ Cardinality(CartsOf(c) \union {n}) <= Cardinality(CartsOf(c)) + 1
          /\ Cardinality(CartsOf(c) \union {n}) \in Nat
      <4>1. /\ IsFiniteSet(CartsOf(c) \union {n})
            /\ \/ Cardinality(CartsOf(c) \union {n}) = Cardinality(CartsOf(c))
               \/ Cardinality(CartsOf(c) \union {n}) = Cardinality(CartsOf(c)) + 1
        BY <3>3, FS_AddElement
      <4> QED
        BY <3>3, <4>1
    <3>5. Cardinality(CartsOf(c))' <= Cardinality(CartsOf(c)) + 1 /\ Cardinality(CartsOf(c))' \in Nat
      <4>1. /\ Cardinality(CartsOf(c))' <= Cardinality(CartsOf(c) \union {n})
            /\ Cardinality(CartsOf(c))' \in Nat
        BY <3>1, <3>4, FS_Subset, FS_CardinalityType
      <4> QED
        BY <3>3, <3>4, <4>1
    <3>6. /\ IsFiniteSet(Creating(c) \ {w})
          /\ Cardinality(Creating(c) \ {w}) = Cardinality(Creating(c)) - 1
      BY <3>2, <3>3, FS_RemoveElement
    <3>7. Cardinality(Creating(c))' <= Cardinality(Creating(c)) - 1 /\ Cardinality(Creating(c))' \in Nat
      BY <3>2, <3>6, FS_Subset, FS_CardinalityType
    <3>8. CASE c \in given
      BY <2>2, <3>8 DEF CartAwaited
    <3>9. CASE c \notin given
      <4>0. CartAwaited(c)
        BY <1>2 DEF OrderInv
      <4>1. Cardinality(CartsOf(c)) + Cardinality(Creating(c)) <= Cardinality(Workers)
        BY <3>9, <4>0 DEF CartAwaited
      <4>2. Cardinality(CartsOf(c))' + Cardinality(Creating(c))' <= Cardinality(Workers)
        BY <3>3, <3>5, <3>7, <4>1
      <4>3. c \in disturbed \/ CartsOf(c) = {}
        BY <3>2, <3>9, <4>0 DEF CartAwaited
      <4>4. c \in disturbed \/ Creating(c)' = {}
        <5>1. c \in disturbed \/ \A v \in Workers : Holds(v, c) => v = w
          BY <1>1, <1>2 DEF OrderInv, Alone
        <5> QED
          BY <3>2, <5>1 DEF Creating
      <4>5. \/ c \in disturbed' \/ CartsOf(c)' = {}
            \/ Creating(c)' = {} /\ \E m : CartsOf(c)' = {m}
        BY <1>1, <3>1, <4>3, <4>4
      <4> QED
        BY <4>2, <4>5 DEF CartAwaited
    <3> QED
      BY <3>8, <3>9
  <2> QED
    BY <1>3, <1>7, <2>3, <2>4, <2>5 DEF OrderInv
<1>10. CASE SaveCart(w)
  <2>1. PICK n, d : n = Current(w).cart /\ d = Current(w).customer
    OBVIOUS
  <2>2. /\ owner' = [owner EXCEPT ![n] = d] /\ n \in Carts /\ d \in Customers \union {Guest}
        /\ item' = item /\ given' = IF owner[n] = d THEN given ELSE given \union {d}
    <3>1. Current(w).into = "owner"
      BY <1>10 DEF SaveCart, Runs
    <3>2. Current(w).cart \in Carts /\ Current(w).customer \in Customers \union {Guest}
      BY <1>2, <3>1 DEF Write
    <3> QED
      BY <1>10, <2>1, <3>2 DEF SaveCart
  <2>3. TypeOK'
    BY <1>1, <1>3, <1>8, <2>2 DEF OrderInv, TypeOK
  <2>4. ASSUME NEW x \in Customers PROVE CartAwaited(x)'
    <3>1. x \in given' \/ CartsOf(x)' \subseteq CartsOf(x)
      BY <1>8, <2>2 DEF CartsOf
    <3>2. \A v \in Workers : job'[v] = job[v] \/ ~Holds(v, x)' \/ job'[v].writes[1].into # "carts"
      BY <1>3, <1>5 DEF Holds
    <3> QED
      BY <1>1, <2>2, <3>1, <3>2, CartKept DEF OrderInv
  <2> QED
    BY <1>3, <1>7, <2>3, <2>4 DEF OrderInv
<1>11. CASE SaveItem(w)
  <2>1. /\ owner' = owner /\ given' = given
        /\ item' = item \/ item' = [item EXCEPT ![Current(w).cart] = Current(w).quantity]
        /\ Current(w).into = "items"
    BY <1>11 DEF SaveItem, Runs
  <2>2. Current(w).quantity \in Quantity
    BY <1>2, <2>1 DEF Write
  <2>3. TypeOK'
    BY <1>1, <1>3, <1>8, <2>1, <2>2 DEF OrderInv, TypeOK
  <2>4. \A x \in Customers : CartAwaited(x)'
    BY <1>1, <1>3, <1>5, <2>1, CartsAside
  <2> QED
    BY <1>3, <1>7, <2>3, <2>4 DEF OrderInv
<1> QED
  BY <1>9, <1>10, <1>11

LEMMA LookForItemKeeps ==
  ASSUME OrderInv, NEW w \in Workers, LookForItem(w)
  PROVE  OrderInv'
<1>0. PICK c, y : c = job[w].id /\ y = Current(w)
  OBVIOUS
<1>1. Busy(w) /\ y.into = "look" /\ Holds(w, c)
  BY <1>0 DEF LookForItem, Runs, Holds
<1>2. c \in Customers /\ y \in Write /\ c \notin Ids
  BY <1>0, <1>1, AtWork, OrderConstants DEF Tables
<1>3. UNCHANGED <<order, history, owner, item, budget, disturbed, silent, given>> /\ disturbed' = disturbed
  BY DEF LookForItem
<1>4. PICK j \in Job \union {<< >>} :
        /\ job' = [job EXCEPT ![w] = j]
        /\ j # << >> => /\ j.id = c /\ j.writes # << >> /\ Fits(c, j.writes)
                        /\ j.writes[1].into # "carts"
  <2> DEFINE total == item[y.cart] + y.quantity
             x == [y EXCEPT !.into = "items", !.quantity = total]
  <2>1. CASE job' = [job EXCEPT ![w] = << >>]
    BY <2>1
  <2>2. CASE total \in Quantity /\ job' = [job EXCEPT ![w] = [id |-> c, writes |-> <<x>>]]
    <3>1. x \in Write /\ x.into = "items"
      BY <1>1, <1>2, <2>2 DEF Write
    <3> DEFINE q == <<x>>
    <3> HIDE DEF x
    <3>2. q \in Seq(Write) /\ q # << >> /\ Fits(c, q) /\ q[1].into # "carts"
      BY <1>2, <3>1 DEF Fits, Tables
    <3> HIDE DEF q
    <3>3. [id |-> c, writes |-> q] \in Job
      BY <1>2, <3>2 DEF Job
    <3>4. PICK j : j = [id |-> c, writes |-> q]
      OBVIOUS
    <3>5. j \in Job /\ j.id = c /\ j.writes = q
      BY <3>3, <3>4
    <3>6. job' = [job EXCEPT ![w] = j]
      BY <2>2, <3>4 DEF q, x
    <3> QED
      BY <3>2, <3>5, <3>6
  <2> QED
    BY <1>0, <2>1, <2>2 DEF LookForItem
<1>5. /\ job' \in [Workers -> Job \union {<< >>}] /\ Working' /\ Alone'
      /\ \A v \in Workers \ {w} : job'[v] = job[v]
      /\ job'[w] = j
  BY <1>1, <1>3, <1>4, JobChange DEF OrderInv
<1>6. TypeOK'
  BY <1>3, <1>5 DEF OrderInv, TypeOK
<1>7. (Holds(w, c)' \/ ~Busy(w)') /\ (~Busy(w)' \/ job'[w].writes[1].into # "carts")
  BY <1>4, <1>5 DEF Holds, Busy
<1>8. \A o \in Ids : Orderly(o)'
  BY <1>0, <1>1, <1>2, <1>3, <1>5, <1>7, OthersAside
<1>9. \A x \in Customers : CartAwaited(x)'
  BY <1>3, <1>5, <1>7, CartsAside
<1> QED
  BY <1>5, <1>6, <1>8, <1>9 DEF OrderInv

\* A request that is cut short.
LEMMA CrashKeeps ==
  ASSUME OrderInv, NEW w \in Workers, Crash(w)
  PROVE  OrderInv'
<1>0. PICK id : id = job[w].id
  OBVIOUS
<1>1. /\ Busy(w) /\ job' = [job EXCEPT ![w] = << >>] /\ disturbed' = disturbed \union {id}
      /\ UNCHANGED <<order, history, owner, item, budget, silent, given>>
  BY <1>0 DEF Crash
<1>2. id \in Ids \union Customers /\ disturbed \subseteq disturbed' /\ silent \subseteq silent'
  BY <1>0, <1>1, AtWork
<1>3. /\ job' \in [Workers -> Job \union {<< >>}] /\ Working' /\ Alone'
      /\ \A v \in Workers \ {w} : job'[v] = job[v]
      /\ job'[w] = << >>
  BY <1>1, <1>2, JobChange DEF OrderInv
<1>4. TypeOK' /\ ~Busy(w)'
  BY <1>1, <1>2, <1>3 DEF OrderInv, TypeOK, Busy
<1>5. \A o \in Ids : o # id => Orderly(o)'
  BY <1>0, <1>1, <1>2, <1>3, <1>4, OthersAside
<1>6. (id \in Ids => Orderly(id)') /\ \A c \in Customers : CartAwaited(c)'
  BY <1>1, <1>2, <1>3, <1>4, CartsAside DEF Orderly
<1> QED
  BY <1>3, <1>4, <1>5, <1>6 DEF OrderInv

-----------------------------------------------------------------------------
(* What happens to the rows by themselves. *)

LEMMA JobsKept ==
  ASSUME OrderInv, job' = job, disturbed \subseteq disturbed'
  PROVE  Working' /\ Alone'
BY DEF OrderInv, Working, Alone, Busy, Holds

\* Who keeps his jobs and his carts is as awaited.
LEMMA CartsStay ==
  ASSUME OrderInv, job' = job, owner' = owner, disturbed \subseteq disturbed', given \subseteq given'
  PROVE  \A c \in Customers : CartAwaited(c)'
<1>1. \A c \in Customers : CartsOf(c)' = CartsOf(c)
  BY DEF CartsOf
<1> QED
  BY <1>1, CartKept DEF OrderInv

LEMMA DestroyOrderKeeps ==
  ASSUME OrderInv, NEW o \in Ids, DestroyOrder(o)
  PROVE  OrderInv'
<1>1. /\ order' = [order EXCEPT ![o] = Missing] /\ history' = [history EXCEPT ![o] = << >>]
      /\ disturbed' = disturbed \union {x \in {o} : Held(x)}
      /\ UNCHANGED <<owner, item, job, budget, silent, given>>
  BY DEF DestroyOrder
<1>2. /\ disturbed \subseteq disturbed' /\ silent \subseteq silent' /\ job' = job
      /\ disturbed' \subseteq Ids \union Customers
  BY <1>1 DEF OrderInv, TypeOK
<1>3. /\ order' \in [Ids -> Order \union {Missing}] /\ history' \in [Ids -> Seq(Entry)]
      /\ order'[o] = Missing /\ \A x \in Ids : x # o => order'[x] = order[x] /\ history'[x] = history[x]
  BY <1>1 DEF OrderInv, TypeOK
<1>4. TypeOK' /\ Working' /\ Alone'
  BY <1>1, <1>2, <1>3, JobsKept DEF OrderInv, TypeOK
<1>5. ASSUME NEW x \in Ids, x # o PROVE Orderly(x)'
  BY <1>2, <1>3, <1>5, OrderUntouched DEF OrderInv
<1>6. ASSUME NEW c \in Customers PROVE CartAwaited(c)'
  BY <1>1, <1>2, CartsStay
<1>7. Orderly(o)'
  <2>1. CASE Held(o)
    BY <1>1, <2>1 DEF Orderly
  <2>2. CASE ~Held(o)
    <3>1. \A v \in Workers : ~Holds(v, o)'
      BY <1>2, <2>2 DEF Held, Holds, Busy
    <3>2. ~Exists(o)'
      BY <1>3 DEF Exists
    <3> QED
      BY <3>1, <3>2 DEF Orderly, Present, RestTells, HolderTells, CancelChecked, Exists, Holds, Busy
  <2> QED
    BY <2>1, <2>2
<1> QED
  BY <1>4, <1>5, <1>6, <1>7 DEF OrderInv

LEMMA AdminMarkKeeps ==
  ASSUME OrderInv, NEW o \in Ids, AdminMark(o)
  PROVE  OrderInv'
<1>1. PICK s \in Asked \intersect Stamped : order' = [order EXCEPT ![o].status = s, ![o].stamps = @ \union {s}]
  BY DEF AdminMark
<1>2. /\ silent' = silent \union {o} /\ budget > 0 /\ budget' = budget - 1
      /\ UNCHANGED <<history, owner, item, job, disturbed, given>> /\ disturbed' = disturbed /\ job' = job
  BY DEF AdminMark
<1>3. order \in [Ids -> Order \union {Missing}] /\ order[o] \in Order
  BY DEF OrderInv, TypeOK, AdminMark, Exists
<1>4. order'[o] = [order[o] EXCEPT !.status = s, !.stamps = @ \union {s}]
  BY <1>1, <1>3
<1>5. order'[o] \in Order /\ \A x \in Ids : x # o => order'[x] = order[x]
  BY <1>1, <1>3, <1>4 DEF Order, OrderStatus, Stamped
<1>6. order' \in [Ids -> Order \union {Missing}]
  BY <1>1, <1>3, <1>5
<1>7. budget' \in 0 .. MaxRequests /\ silent' \subseteq Ids
  BY <1>2, OrderConstants DEF OrderInv, TypeOK
<1>8. TypeOK' /\ Working' /\ Alone'
  BY <1>2, <1>6, <1>7, JobsKept DEF OrderInv, TypeOK
<1>9. ASSUME NEW x \in Ids, x # o PROVE Orderly(x)'
  BY <1>2, <1>5, <1>9, OrderUntouched DEF OrderInv
<1>10. ASSUME NEW c \in Customers PROVE CartAwaited(c)'
  BY <1>2, CartsStay
<1>11. Orderly(o)'
  BY <1>2, <1>5, OrderConstants DEF Orderly, Present, Exists
<1> QED
  BY <1>8, <1>9, <1>10, <1>11 DEF OrderInv

LEMMA AdminForgetKeeps ==
  ASSUME OrderInv, NEW o \in Ids, AdminForget(o)
  PROVE  OrderInv'
<1>1. /\ history' = [history EXCEPT ![o] = << >>] /\ silent' = silent \union {o}
      /\ UNCHANGED <<order, owner, item, job, budget, disturbed, given>>
      /\ disturbed' = disturbed /\ job' = job
  BY DEF AdminForget
<1>2. /\ history' \in [Ids -> Seq(Entry)] /\ silent' \subseteq Ids
      /\ \A x \in Ids : x # o => history'[x] = history[x]
  BY <1>1 DEF OrderInv, TypeOK
<1>3. TypeOK' /\ Working' /\ Alone'
  BY <1>1, <1>2, JobsKept DEF OrderInv, TypeOK
<1>4. ASSUME NEW x \in Ids, x # o PROVE Orderly(x)'
  BY <1>1, <1>2, <1>4, OrderUntouched DEF OrderInv
<1>5. Orderly(o)'
  BY <1>1 DEF OrderInv, Orderly, Present, Exists, Holds, Busy
<1>6. \A c \in Customers : CartAwaited(c)'
  BY <1>1, CartsStay
<1> QED
  BY <1>3, <1>4, <1>5, <1>6 DEF OrderInv

LEMMA CartActionsKeep ==
  ASSUME OrderInv,
         \/ \E c \in Customers : DestroyCart(c)
         \/ \E n \in Carts : DestroyItem(n) \/ AdminAddItem(n) \/ AdminCart(n)
  PROVE  OrderInv'
<1>1. /\ UNCHANGED <<order, history, job, disturbed, silent>>
      /\ job' = job /\ disturbed' = disturbed
  BY DEF DestroyCart, DestroyItem, AdminAddItem, AdminCart
<1>2. /\ owner \in [Carts -> Customers \union {Guest, Missing}]
      /\ item \in [Carts -> Quantity \union {Missing}]
      /\ given \subseteq Customers \union {Guest}
      /\ budget \in 0 .. MaxRequests /\ MaxRequests \in Nat
  BY OrderConstants DEF OrderInv, TypeOK
<1>3. item' \in [Carts -> Quantity \union {Missing}]
  BY <1>2 DEF DestroyCart, DestroyItem, AdminAddItem, AdminCart
<1>4. budget' \in 0 .. MaxRequests
  BY <1>2 DEF DestroyCart, DestroyItem, AdminAddItem, AdminCart
<1>5. /\ owner' \in [Carts -> Customers \union {Guest, Missing}]
      /\ given \subseteq given' /\ given' \subseteq Customers \union {Guest}
      /\ \A c \in Customers : c \in given' \/ CartsOf(c)' \subseteq CartsOf(c)
  <2>1. CASE \E c \in Customers : DestroyCart(c)
    <3>1. given' = given /\ \E n \in Carts : owner' = [owner EXCEPT ![n] = Missing]
      BY <2>1 DEF DestroyCart
    <3> QED
      BY <1>2, <3>1, OrderConstants DEF CartsOf
  <2>2. CASE \E n \in Carts : DestroyItem(n) \/ AdminAddItem(n)
    <3>1. given' = given /\ owner' = owner
      BY <2>2 DEF DestroyItem, AdminAddItem
    <3> QED
      BY <1>2, <3>1 DEF CartsOf
  <2>3. CASE \E n \in Carts : AdminCart(n)
    <3>1. PICK n \in Carts, d \in Customers \union {Guest} :
            owner' = [owner EXCEPT ![n] = d] /\ given' = given \union {d}
      BY <2>3 DEF AdminCart
    <3> QED
      BY <1>2, <3>1 DEF CartsOf
  <2> QED
    BY <2>1, <2>2, <2>3
<1>6. TypeOK' /\ Working' /\ Alone'
  BY <1>1, <1>3, <1>4, <1>5, JobsKept DEF OrderInv, TypeOK
<1>7. ASSUME NEW o \in Ids PROVE Orderly(o)'
  BY <1>1, OrderUntouched DEF OrderInv
<1>8. ASSUME NEW x \in Customers PROVE CartAwaited(x)'
  BY <1>1, <1>5, CartKept DEF OrderInv
<1> QED
  BY <1>6, <1>7, <1>8 DEF OrderInv

-----------------------------------------------------------------------------
(* The theorems. *)

LEMMA InitOrderly == Init => OrderInv
<1> SUFFICES ASSUME Init PROVE OrderInv
  OBVIOUS
<1>1. \A s \in {"draft", "pending"} : Unpaid(s) \in Order
  BY DEF Unpaid, Order, OrderStatus, PaymentStatus, FulfillmentStatus
<1>2. TypeOK
  BY <1>1, OrderConstants DEF Init, TypeOK
<1>3. \A w \in Workers : ~Busy(w)
  BY DEF Init, Busy
<1>4. Working /\ Alone
  BY <1>3 DEF Working, Alone, Holds
<1>5. ASSUME NEW o \in Ids PROVE Orderly(o)
  <2>1. PICK s \in {"draft", "pending"} : order[o] = Unpaid(s)
    BY DEF Init
  <2>2. history[o] = << >>
    BY DEF Init
  <2>3. order[o]["status"] = s /\ order[o]["payment_status"] = "pending"
    BY <2>1 DEF Unpaid
  <2>4. ASSUME NEW c \in Told PROVE Agree(order[o], history[o], << >>, c)
    BY <2>2, <2>3 DEF Agree, Becomes, WillSay, Tells, Logs, Told, Begin
  <2> QED
    BY <1>3, <2>4 DEF Orderly, Present, RestTells, HolderTells, CancelChecked, Holds
<1>6. ASSUME NEW c \in Customers PROVE CartAwaited(c)
  <2>1. CartsOf(c) = {} /\ Creating(c) = {}
    BY <1>3, OrderConstants DEF Init, CartsOf, Creating, Holds
  <2>2. Cardinality({}) = 0 /\ Cardinality(Workers) \in Nat
    BY FS_EmptySet, FS_CardinalityType, OrderConstants
  <2> QED
    BY <2>1, <2>2 DEF CartAwaited
<1> QED
  BY <1>2, <1>4, <1>5, <1>6 DEF OrderInv

LEMMA StepOrderly == OrderInv /\ [Next]_vars => OrderInv'
<1> SUFFICES ASSUME OrderInv, [Next]_vars PROVE OrderInv'
  OBVIOUS
<1>1. ASSUME NEW o \in Ids, DestroyOrder(o) \/ AdminMark(o) \/ AdminForget(o) PROVE OrderInv'
  BY <1>1, DestroyOrderKeeps, AdminMarkKeeps, AdminForgetKeeps
<1>2. ASSUME \/ \E c \in Customers : DestroyCart(c)
             \/ \E n \in Carts : DestroyItem(n) \/ AdminAddItem(n) \/ AdminCart(n)
      PROVE  OrderInv'
  BY <1>2, CartActionsKeep
<1>3. ASSUME NEW w \in Workers, Request(w) \/ Execute(w) \/ Crash(w) PROVE OrderInv'
  BY <1>3, RequestKeeps, SaveOrderKeeps, LogChangeKeeps, CartWriteKeeps, LookForItemKeeps, CrashKeeps
     DEF Execute
<1>4. CASE UNCHANGED vars
  <2>1. job' = job /\ disturbed' = disturbed
    BY <1>4 DEF vars
  <2>2. TypeOK' /\ Working' /\ Alone'
    BY <1>4, <2>1, JobsKept DEF OrderInv, TypeOK, vars
  <2>3. \A o \in Ids : Orderly(o)'
    BY <1>4, OrderUntouched DEF OrderInv, vars
  <2>4. \A c \in Customers : CartAwaited(c)'
    BY <1>4, CartsStay DEF vars
  <2> QED
    BY <2>2, <2>3, <2>4 DEF OrderInv
<1> QED
  BY <1>1, <1>2, <1>3, <1>4 DEF Next

\* Between any two writes of the handlers of orders/views.py, what is still to be
\* written keeps the history of each order in step with it.
THEOREM OrderInvariance == Spec => []OrderInv
<1>1. Init => OrderInv
  BY InitOrderly
<1>2. OrderInv /\ [Next]_vars => OrderInv'
  BY StepOrderly
<1> QED
  BY <1>1, <1>2, PTL DEF Spec

\* Rows, histories, carts and the writes under way keep their types.
THEOREM OrdersTyped == Spec => []TypeOK
<1>1. OrderInv => TypeOK
  BY DEF OrderInv
<1> QED
  BY <1>1, OrderInvariance, PTL

\* The history that the three status endpoints, the update of the order and
\* cancel_order leave tells the status and the payment status of every order that
\* no two handlers held at once and the admin did not touch.
THEOREM HistoryAlwaysTells == Spec => []HistoryTells
<1>1. OrderInv => HistoryTells
  <2> SUFFICES ASSUME OrderInv, NEW o \in Ids \ (disturbed \union silent), Exists(o), ~Held(o)
               PROVE  /\ Tells(history[o], "status", order[o].status, {"draft", "pending"})
                      /\ Tells(history[o], "payment_status", order[o].payment_status, {"pending"})
    BY DEF HistoryTells
  <2>1. ASSUME NEW c \in Told PROVE Tells(history[o], c, order[o][c], Begin(c))
    <3>1. PICK v : Becomes(order[o], << >>, c, v) /\ WillSay(history[o], << >>, c, v)
      BY DEF OrderInv, Orderly, RestTells, Agree
    <3>2. v = order[o][c] /\ Logs(<< >>, c) = {}
      BY <3>1 DEF Becomes, Logs
    <3> QED
      BY <3>1, <3>2 DEF WillSay
  <2>2. order[o] \in Order
    BY DEF OrderInv, TypeOK, Exists
  <2> QED
    BY <2>1, <2>2, RowsAreRecords DEF Told, Begin
<1> QED
  BY <1>1, OrderInvariance, PTL

\* Neither OrderStatusUpdateView nor cancel_order sets cancelled_at on an order whose
\* row says shipped or delivered, nor leaves a worker about to do so, although they
\* check once and write later.  (They check the current status alone: what the order
\* has been before does not count.)
THEOREM CancelledOnlyInTime == Spec => CancelledInTime
<1>1. OrderInv /\ OrderInv' /\ [Next]_vars =>
        [\A o \in Ids \ (disturbed \union silent)' :
           /\ Exists(o) /\ Exists(o)'
           /\ "cancelled" \in (order'[o].stamps \union Coming(o)') \ order[o].stamps
           => order[o].status \notin {"shipped", "delivered"}]_vars
  <2> SUFFICES ASSUME OrderInv, OrderInv', [Next]_vars, NEW o \in Ids, o \notin disturbed', o \notin silent',
                      Exists(o), Exists(o)', "cancelled" \notin order[o].stamps,
                      "cancelled" \in order'[o].stamps \/ "cancelled" \in Coming(o)'
               PROVE  order[o].status \notin {"shipped", "delivered"}
    OBVIOUS
  <2>1. order \in [Ids -> Order \union {Missing}]
    BY DEF OrderInv, TypeOK
  <2>2. CASE order'[o] = order[o]
    <3>1. PICK w \in Workers, i \in 1 .. 3 :
            /\ Holds(w, o)' /\ i <= Len(job'[w].writes)
            /\ job'[w].writes[i].into = "orders" /\ "cancelled" \in job'[w].writes[i].row.stamps
      BY <2>2 DEF Coming, Holds, Busy
    <3>2. AllInTime(order'[o], job'[w].writes)
      BY <3>1 DEF OrderInv, Orderly, CancelChecked
    <3>3. job'[w] \in Job
      BY <3>1 DEF OrderInv, TypeOK, Holds, Busy
    <3>4. i \in DOMAIN job'[w].writes
      BY <3>1, <3>3 DEF Job
    <3>5. InTime(job'[w].writes[i].row, order'[o])
      BY <3>1, <3>2, <3>4 DEF AllInTime
    <3> QED
      BY <2>2, <3>1, <3>5 DEF InTime, Gone
  <2>3. CASE order'[o] # order[o]
    <3>1. PICK w \in Workers : SaveOrder(w)
      <4>1. ASSUME NEW x \in Ids, DestroyOrder(x) PROVE FALSE
        BY <2>1, <2>3, <4>1 DEF DestroyOrder, Exists
      <4>2. ASSUME NEW x \in Ids, AdminMark(x) PROVE FALSE
        BY <2>1, <2>3, <4>2 DEF AdminMark
      <4>3. ASSUME order' = order PROVE FALSE
        BY <2>3, <4>3
      <4>4. ASSUME NEW w \in Workers, Request(w) PROVE order' = order
        BY <4>4 DEF Request, UpdateStatus, UpdatePayment, UpdateFulfillment, UpdateOrder, CancelOrder,
                    AdminForm, AddItem, OpenCart, UpdateCart, UpdateItem
      <4>5. ASSUME NEW w \in Workers,
                   LogChange(w) \/ CreateCart(w) \/ SaveCart(w) \/ LookForItem(w) \/ SaveItem(w) \/ Crash(w)
            PROVE  order' = order
        BY <4>5 DEF LogChange, CreateCart, SaveCart, LookForItem, SaveItem, Crash
      <4>6. ASSUME \/ \E c \in Customers : DestroyCart(c)
                   \/ \E n \in Carts : DestroyItem(n) \/ AdminAddItem(n) \/ AdminCart(n)
                   \/ \E x \in Ids : AdminForget(x)
            PROVE  order' = order
        BY <4>6 DEF DestroyCart, DestroyItem, AdminAddItem, AdminCart, AdminForget
      <4> QED
        BY <4>1, <4>2, <4>3, <4>4, <4>5, <4>6 DEF Next, Execute, vars
    <3>2. PICK q : q = job[w].writes
      OBVIOUS
    <3>3. /\ Busy(w) /\ order' = [order EXCEPT ![job[w].id] = Current(w).row] /\ Advance(w)
          /\ disturbed' = disturbed /\ silent' = silent /\ Current(w).into = "orders"
      BY <3>1 DEF SaveOrder, Runs
    <3>4. job[w].id = o /\ Holds(w, o)
      BY <2>1, <2>3, <3>3 DEF Holds
    <3>5. /\ q \in Seq(Write) /\ q # << >> /\ Current(w) = q[1]
          /\ order'[o] = q[1].row /\ q[1].into = "orders" /\ 1 \in DOMAIN q
      BY <2>1, <3>2, <3>3, <3>4, AtWork, TailFacts
    <3>6. AllInTime(order[o], q)
      BY <3>2, <3>3, <3>4 DEF OrderInv, Orderly, CancelChecked
    <3>7. PICK i \in DOMAIN q : q[i].into = "orders" /\ "cancelled" \in q[i].row.stamps
      <4>1. CASE "cancelled" \in order'[o].stamps
        BY <3>5, <4>1
      <4>2. CASE "cancelled" \in Coming(o)'
        <5>1. PICK v \in Workers, k \in 1 .. 3 :
                /\ Holds(v, o)' /\ k <= Len(job'[v].writes)
                /\ job'[v].writes[k].into = "orders" /\ "cancelled" \in job'[v].writes[k].row.stamps
          BY <4>2 DEF Coming, Holds, Busy
        <5>2. job'[w] = IF Tail(job[w].writes) = << >> THEN << >>
                        ELSE [id |-> job[w].id, writes |-> Tail(job[w].writes)]
          BY <3>3, Advanced
        <5>3. \A u \in Workers \ {w} : job'[u] = job[u]
          BY <3>3, Advanced
        <5>4. v = w
          BY <3>3, <3>4, <5>1, <5>3 DEF OrderInv, Alone, Holds, Busy
        <5>5. job'[w].writes = Tail(q) /\ Tail(q) \in Seq(Write)
          BY <3>2, <3>5, <5>1, <5>2, <5>4, TailFacts DEF Holds, Busy
        <5>6. k \in DOMAIN Tail(q)
          BY <5>1, <5>4, <5>5
        <5>7. k + 1 \in DOMAIN q /\ Tail(q)[k] = q[k + 1]
          BY <3>5, <5>6, TailFacts
        <5> QED
          BY <5>1, <5>4, <5>5, <5>7
      <4> QED
        BY <4>1, <4>2
    <3>8. InTime(q[i].row, order[o])
      BY <3>6, <3>7 DEF AllInTime
    <3> QED
      BY <3>7, <3>8 DEF InTime, Gone
  <2> QED
    BY <2>2, <2>3
<1> QED
  BY <1>1, OrderInvariance, PTL DEF Spec, CancelledInTime

\* Cart.objects.get_or_create, unprotected as it is, makes no second cart for a
\* customer whose requests did not overlap, and never more than there are workers,
\* however they overlap: from then on it fails.  Only a save of a cart with another
\* customer in it, by PUT, PATCH or the admin, can give a customer more.
THEOREM OneCartEach == Spec => []OneCart
<1>1. OrderInv => OneCart
  <2> SUFFICES ASSUME OrderInv, NEW c \in Customers \ given
               PROVE  Cardinality(CartsOf(c)) <= IF c \in disturbed THEN Cardinality(Workers) ELSE 1
    BY DEF OneCart
  <2>1. /\ Cardinality(CartsOf(c)) \in Nat /\ Cardinality(Creating(c)) \in Nat
        /\ Cardinality(Workers) \in Nat
    BY FiniteCarts, FS_CardinalityType, OrderConstants
  <2>2. Cardinality(CartsOf(c)) <= Cardinality(Workers)
    BY <2>1 DEF OrderInv, CartAwaited
  <2>3. ASSUME c \notin disturbed PROVE Cardinality(CartsOf(c)) <= 1
    <3>1. CASE CartsOf(c) = {}
      BY <3>1, FS_EmptySet
    <3>2. ASSUME NEW n, CartsOf(c) = {n} PROVE Cardinality(CartsOf(c)) <= 1
      <4>1. Cardinality({n}) = 1
        BY FS_Singleton
      <4> QED
        BY <3>2, <4>1
    <3> QED
      BY <2>3, <3>1, <3>2 DEF OrderInv, CartAwaited
  <2> QED
    BY <2>2, <2>3
<1> QED
  BY <1>1, OrderInvariance, PTL
=============================================================================
