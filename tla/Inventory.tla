----------------------------- MODULE Inventory -----------------------------
(***************************************************************************)
(* The stock service (inventory/services.py) behind its views.  A worker   *)
(* handles a request as a sequence of SQL statements.  The router keeps    *)
(* the inventory tables on a database of their own while                   *)
(* transaction.atomic() covers the default database only, so every         *)
(* statement commits by itself; no row is ever locked.  A handler computes *)
(* with the copy of a row it read when the request was validated, and      *)
(* writes the columns of update_fields back from that copy.                *)
(***************************************************************************)
EXTENDS Integers, Sequences, FiniteSets, FiniteSetsExt, Functions

CONSTANTS
  Items,         \* rows of InventoryItem
  Reservations,  \* ids of StockReservation rows
  NoReservation, \* the row does not exist
  Workers,       \* processes that handle requests
  Quantities,    \* quantities a request may name
  Requests,      \* kinds of request that arrive
  MaxRequests,   \* bound: how many requests arrive in a behaviour
  InitialStock,  \* quantity_available of every row at the start
  ReorderLevel,  \* reorder_level of every row
  MaxLevel,      \* max_stock_level of every row
  MayCrash       \* whether a handler may be cut short between two statements

StockRequests  == {"increase", "decrease", "set", "reserve", "bulk"}
SettleRequests == {"confirm", "release"}
RequestKinds   == StockRequests \union SettleRequests \union {"edit", "sweep"}

ASSUME InventoryConstants ==
  /\ Quantities \subseteq Nat
  /\ Requests \subseteq RequestKinds \union {"form"}
  /\ MaxRequests \in Nat
  /\ InitialStock \in Nat
  /\ ReorderLevel \in Nat
  /\ MaxLevel \in Nat
  /\ MayCrash \in BOOLEAN
  /\ IsFiniteSet(Reservations)

VARIABLES
  item,         \* the rows of InventoryItem
  reservation,  \* the rows of StockReservation
  alerts,       \* types of the ACTIVE StockAlert rows of each item
  ledger,       \* what the StockMovement rows of each item add up to
  handler,      \* the request each worker is handling
  budget,       \* requests still to arrive
  edited,       \* history: what edits of a row have added to its quantities
  disturbed     \* history: items whose handlers overlapped or were cut short,
                \* or whose reservations the admin form has written

vars == <<item, reservation, alerts, ledger, handler, budget, edited, disturbed>>

Settled == {"CONFIRMED", "RELEASED", "EXPIRED"}
Alert   == {"LOW_STOCK", "OUT_OF_STOCK", "OVERSTOCK", "EXPIRED_RESERVATION"}
Row     == [available : Int, reserved : Int, sold : Int]

Reservation ==
  [status : {"ACTIVE"} \union Settled, item : Items, qty : Nat, due : BOOLEAN]

ASSUME NoReservationIsNone == NoReservation \notin Reservation

Statement == {"save", "resolve", "raise", "move", "insert", "status", "load",
              "expire", "restock", "moves", "notify"}

Handler ==
  [op    : RequestKinds,
   todo  : Seq(Statement),          \* statements still to run
   items : SUBSET Items,            \* rows the request works on
   batch : SUBSET Reservations,     \* reservations it settles
   copy  : [Items -> Row],          \* those rows as read, then as computed
   qty   : Nat,
   net   : Int]                     \* the change of available it will record

TypeOK ==
  /\ item \in [Items -> Row]
  /\ reservation \in [Reservations -> Reservation \union {NoReservation}]
  /\ alerts \in [Items -> SUBSET Alert]
  /\ ledger \in [Items -> [net : Int, out : Int]]
  /\ handler \in [Workers -> Handler]
  /\ budget \in 0 .. MaxRequests
  /\ edited \in [Items -> [available : Int, reserved : Int]]
  /\ disturbed \subseteq Items

NewRow == [available |-> InitialStock, reserved |-> 0, sold |-> 0]

Idle == [op |-> "sweep", todo |-> << >>, items |-> {}, batch |-> {},
         copy |-> [i \in Items |-> NewRow], qty |-> 0, net |-> 0]

Init ==
  /\ item = [i \in Items |-> NewRow]
  /\ reservation = [r \in Reservations |-> NoReservation]
  /\ alerts = [i \in Items |-> {}]
  /\ ledger = [i \in Items |-> [net |-> 0, out |-> 0]]
  /\ handler = [w \in Workers |-> Idle]
  /\ budget = MaxRequests
  /\ edited = [i \in Items |-> [available |-> 0, reserved |-> 0]]
  /\ disturbed = {}

Exists(r) == reservation[r] # NoReservation

-----------------------------------------------------------------------------
(* What each kind of request computes and writes. *)

\* InventoryItem.can_reserve
CanReserve(row, q) == row.available >= q

\* The checks of the serializer on the row it has just read.
Valid(op, row, q) ==
  /\ op = "reserve" => q > 0
  /\ op \in {"decrease", "reserve"} => CanReserve(row, q)

\* The row after the service has worked on its copy.
Compute(op, row, q) ==
  CASE op = "increase"        -> [row EXCEPT !.available = @ + q]
    [] op = "decrease"        -> [row EXCEPT !.available = Max({0, @ - q}), !.sold = @ + q]
    [] op \in {"set", "bulk"} -> [row EXCEPT !.available = q]
    [] op = "reserve"         -> [row EXCEPT !.available = @ - q, !.reserved = @ + q]
    [] op = "confirm"         -> [row EXCEPT !.reserved = @ - q, !.sold = @ + q]
    [] op = "release"         -> [row EXCEPT !.reserved = @ - q, !.available = @ + q]
    [] OTHER                  -> row

Mut_Columns(op) ==
  CASE op \in {"increase", "set", "bulk", "decrease"} -> {"available"}
    [] op \in {"reserve", "release"} -> {"available", "reserved"}
    [] OTHER -> {"reserved", "sold"}
\* The columns written: update_fields, or all of them for a plain save().
Columns(op) ==
  CASE op \in {"increase", "set", "bulk"} -> {"available"}
    [] op = "decrease"                    -> {"available", "sold"}
    [] op \in {"reserve", "release"}      -> {"available", "reserved"}
    [] op = "confirm"                     -> {"reserved", "sold"}
    [] OTHER                              -> {"available", "reserved", "sold"}

Overwrite(row, copy, columns) ==
  [c \in DOMAIN row |-> IF c \in columns THEN copy[c] ELSE row[c]]

\* The statements of each handler in order.  Saving an item sends post_save,
\* whose receiver resolves and raises alerts; bulk_update sends no signal.
Program(op) ==
  CASE op \in {"increase", "decrease", "set"} -> <<"save", "resolve", "raise", "move", "resolve", "raise">>
    [] op = "reserve" -> <<"save", "resolve", "raise", "insert", "move">>
    [] op = "confirm" -> <<"status", "load", "save", "resolve", "raise", "move", "resolve", "raise">>
    [] op = "release" -> <<"status", "load", "save", "resolve", "raise", "move">>
    [] op = "bulk"    -> <<"move", "save", "resolve", "raise">>
    [] op = "edit"    -> <<"save", "resolve", "raise">>
    [] op = "sweep"   -> <<"expire", "restock", "moves", "notify">>

\* The final status a handler gives its reservations.
Outcome(op) == CASE op = "confirm" -> "CONFIRMED"
                 [] op = "release" -> "RELEASED"
                 [] OTHER          -> "EXPIRED"

Mut_AlertsFor(row) ==
  {a \in {"LOW_STOCK", "OUT_OF_STOCK"} : row.available <= IF a = "LOW_STOCK" THEN ReorderLevel ELSE 0}
\* Alerts for a copy of a row (_check_stock_alerts and the signal receiver).
AlertsFor(row) ==
  {a \in {"LOW_STOCK", "OUT_OF_STOCK", "OVERSTOCK"} :
     \/ a = "LOW_STOCK" /\ row.available <= ReorderLevel /\ row.available # 0
     \/ a = "OUT_OF_STOCK" /\ row.available = 0
     \/ a = "OVERSTOCK" /\ MaxLevel > 0 /\ row.available > MaxLevel}

-----------------------------------------------------------------------------
(* Requests arrive: the view reads, validates and hands over to the service. *)

Busy(w) == handler[w].todo # << >>

InUse(i) == \E w \in Workers : Busy(w) /\ i \in handler[w].items

Accept(w, h) ==
  /\ ~Busy(w)
  /\ budget > 0
  /\ h.op \in Requests
  /\ budget' = budget - 1
  /\ handler' = [handler EXCEPT ![w] = h]

\* Bound: ids left for the reservations still to be inserted.
FreeIds ==
  Cardinality({r \in Reservations : ~Exists(r)})
    - Cardinality({w \in Workers : Busy(w) /\ handler[w].op = "reserve"})

\* Adjust, reserve and bulk update (a list of one row).  A request refused by its
\* validation changes nothing.
ReceiveStock(w, op, i, q) ==
  LET row == Compute(op, item[i], q) IN
  /\ Valid(op, item[i], q)
  /\ op = "reserve" => FreeIds > 0
  /\ Accept(w, [op    |-> op,
                todo  |-> Program(op),
                items |-> {i},
                batch |-> {},
                copy  |-> [item EXCEPT ![i] = row],
                qty   |-> q,
                net   |-> row.available - item[i].available])
  /\ disturbed' = disturbed \union {j \in {i} : InUse(j)}
  /\ UNCHANGED <<item, reservation, alerts, ledger, edited>>

\* PUT or PATCH of a row, or its admin form: the two quantities that are not
\* read-only are what the request names, or what the row had when it was read.
\* No movement tells of it.
ReceiveEdit(w, i, available, reserved) ==
  LET row == [item[i] EXCEPT !.available = available, !.reserved = reserved] IN
  /\ Accept(w, [op    |-> "edit",
                todo  |-> Program("edit"),
                items |-> {i},
                batch |-> {},
                copy  |-> [item EXCEPT ![i] = row],
                qty   |-> 0,
                net   |-> 0])
  /\ disturbed' = disturbed \union {j \in {i} : InUse(j)}
  /\ UNCHANGED <<item, reservation, alerts, ledger, edited>>

Mut_MaySettle(r) == TRUE
\* The view reads the reservation, the service checks its status; the due date
\* is not looked at.
MaySettle(r) == reservation[r].status = "ACTIVE"

ReceiveSettle(w, op, r) ==
  /\ Exists(r)
  /\ MaySettle(r)
  /\ LET i == reservation[r].item
         q == reservation[r].qty IN
     /\ Accept(w, [op    |-> op,
                   todo  |-> Program(op),
                   items |-> {i},
                   batch |-> {r},
                   copy  |-> item,
                   qty   |-> q,
                   net   |-> IF op = "release" THEN q ELSE 0])
     /\ disturbed' = disturbed \union {j \in {i} : InUse(j)}
  /\ UNCHANGED <<item, reservation, alerts, ledger, edited>>

\* cleanup_expired_reservations reads the expired reservations with their
\* items: one query, a copy of the item for each reservation.
ReceiveSweep(w) ==
  LET batch == {r \in Reservations : /\ Exists(r)
                                     /\ reservation[r].status = "ACTIVE"
                                     /\ reservation[r].due}
      touched == {reservation[r].item : r \in batch}
      shared  == {i \in touched : \E r, s \in batch :
                    r # s /\ reservation[r].item = i /\ reservation[s].item = i} IN
  /\ batch # {}
  /\ Accept(w, [op    |-> "sweep",
                todo  |-> Program("sweep"),
                items |-> touched,
                batch |-> batch,
                copy  |-> item,
                qty   |-> 0,
                net   |-> 0])
  /\ disturbed' = disturbed \union shared \union {i \in touched : InUse(i)}
  /\ UNCHANGED <<item, reservation, alerts, ledger, edited>>

-----------------------------------------------------------------------------
(* The statements. *)

Runs(w, statement) ==
  /\ Busy(w)
  /\ Head(handler[w].todo) = statement

\* The statement is done; after the last one the worker is free again.
Advance(w) ==
  LET rest == Tail(handler[w].todo) IN
  handler' = [handler EXCEPT ![w] = IF rest = << >> THEN Idle ELSE [@ EXCEPT !.todo = rest]]

Target(w) == CHOOSE i \in Items : i \in handler[w].items

\* item.save(update_fields=...), InventoryItem.objects.bulk_update
SaveItem(w) ==
  LET i   == Target(w)
      h   == handler[w]
      new == Overwrite(item[i], h.copy[i], Columns(h.op)) IN
  /\ Runs(w, "save")
  /\ item' = [item EXCEPT ![i] = new]
  /\ edited' = IF h.op = "edit"
                 THEN [edited EXCEPT ![i] =
                        [available |-> edited[i].available + new.available - item[i].available,
                         reserved  |-> edited[i].reserved + new.reserved - item[i].reserved]]
                 ELSE edited
  /\ Advance(w)
  /\ UNCHANGED <<reservation, alerts, ledger, budget, disturbed>>

ResolveAlerts(w) ==
  /\ Runs(w, "resolve")
  /\ alerts' = [alerts EXCEPT ![Target(w)] = {}]
  /\ Advance(w)
  /\ UNCHANGED <<item, reservation, ledger, budget, edited, disturbed>>

RaiseAlerts(w) ==
  LET i == Target(w) IN
  /\ Runs(w, "raise")
  /\ alerts' = [alerts EXCEPT ![i] = @ \union AlertsFor(handler[w].copy[i])]
  /\ Advance(w)
  /\ UNCHANGED <<item, reservation, ledger, budget, edited, disturbed>>

\* StockMovement.objects.create: quantity_after - quantity_before (which a confirm
\* takes of the reserved stock, so that it adds nothing to the available one),
\* and what an OUT movement says was sold.
RecordMovement(w) ==
  LET h == handler[w] IN
  /\ Runs(w, "move")
  /\ ledger' = [ledger EXCEPT ![Target(w)] =
                  [net |-> @.net + h.net,
                   out |-> @.out + IF h.op \in {"decrease", "confirm"} THEN h.qty ELSE 0]]
  /\ Advance(w)
  /\ UNCHANGED <<item, reservation, alerts, budget, edited, disturbed>>

InsertReservation(w) ==
  /\ Runs(w, "insert")
  /\ \E r \in Reservations :
       /\ ~Exists(r)
       /\ reservation' = [reservation EXCEPT ![r] =
            [status |-> "ACTIVE", item |-> Target(w), qty |-> handler[w].qty, due |-> FALSE]]
  /\ Advance(w)
  /\ UNCHANGED <<item, alerts, ledger, budget, edited, disturbed>>

\* reservation.save(update_fields=['status', ...]), and the bulk_update of the
\* sweep: the status is written whatever it has become meanwhile.
SaveStatus(w) ==
  /\ Runs(w, "status") \/ Runs(w, "expire")
  /\ reservation' = [r \in Reservations |->
       IF r \in handler[w].batch
         THEN [reservation[r] EXCEPT !.status = Outcome(handler[w].op)]
         ELSE reservation[r]]
  /\ Advance(w)
  /\ UNCHANGED <<item, alerts, ledger, budget, edited, disturbed>>

\* reservation.inventory_item is fetched only now.
LoadItem(w) ==
  LET i == Target(w)
      h == handler[w] IN
  /\ Runs(w, "load")
  /\ handler' = [handler EXCEPT ![w].todo = Tail(@),
                                ![w].copy[i] = Compute(h.op, item[i], h.qty)]
  /\ UNCHANGED <<item, reservation, alerts, ledger, budget, edited, disturbed>>

\* bulk_update writes one CASE per column: where two copies of a row are in the
\* list, the first one counts.
Restock(w) ==
  LET h == handler[w] IN
  /\ Runs(w, "restock")
  /\ \E first \in [h.items -> h.batch] :
       /\ \A i \in h.items : reservation[first[i]].item = i
       /\ item' = [i \in Items |->
            IF i \in h.items
              THEN Overwrite(item[i],
                             Compute("release", h.copy[i], reservation[first[i]].qty),
                             Columns("release"))
              ELSE item[i]]
  /\ Advance(w)
  /\ UNCHANGED <<reservation, alerts, ledger, budget, edited, disturbed>>

\* bulk_create of one RELEASED movement for each expired reservation.
Returned(w, i) ==
  SumFunction([r \in {s \in handler[w].batch : reservation[s].item = i} |-> reservation[r].qty])

RecordReleases(w) ==
  /\ Runs(w, "moves")
  /\ ledger' = [i \in Items |-> [ledger[i] EXCEPT !.net = @ + Returned(w, i)]]
  /\ Advance(w)
  /\ UNCHANGED <<item, reservation, alerts, budget, edited, disturbed>>

\* Nothing else is raised: no signal, no _check_stock_alerts.
NotifyExpired(w) ==
  /\ Runs(w, "notify")
  /\ alerts' = [i \in Items |-> IF i \in handler[w].items
                                  THEN alerts[i] \union {"EXPIRED_RESERVATION"}
                                  ELSE alerts[i]]
  /\ Advance(w)
  /\ UNCHANGED <<item, reservation, ledger, budget, edited, disturbed>>

-----------------------------------------------------------------------------
\* A statement fails or the worker dies: what is committed stays.
Crash(w) ==
  /\ MayCrash
  /\ Busy(w)
  /\ handler' = [handler EXCEPT ![w] = Idle]
  /\ disturbed' = disturbed \union handler[w].items
  /\ UNCHANGED <<item, reservation, alerts, ledger, budget, edited>>

\* expires_at passes.
BecomeDue(r) ==
  /\ Exists(r)
  /\ reservation[r].status = "ACTIVE"
  /\ ~reservation[r].due
  /\ reservation' = [reservation EXCEPT ![r].due = TRUE]
  /\ UNCHANGED <<item, alerts, ledger, handler, budget, edited, disturbed>>

\* The admin form of a reservation writes its status and its quantity, and
\* nothing else: the row of the item is not told.
AdminReservation(r, status, q) ==
  /\ Exists(r)
  /\ budget > 0
  /\ "form" \in Requests
  /\ budget' = budget - 1
  /\ reservation' = [reservation EXCEPT ![r] = [@ EXCEPT !.status = status, !.qty = q]]
  /\ disturbed' = disturbed \union {reservation[r].item}
  /\ UNCHANGED <<item, alerts, ledger, handler, edited>>

Receive(w) ==
  \/ \E op \in StockRequests, i \in Items, q \in Quantities : ReceiveStock(w, op, i, q)
  \/ \E i \in Items :
       \E available \in Quantities \union {item[i].available},
          reserved \in Quantities \union {item[i].reserved} : ReceiveEdit(w, i, available, reserved)
  \/ \E op \in SettleRequests, r \in Reservations : ReceiveSettle(w, op, r)
  \/ ReceiveSweep(w)

Execute(w) ==
  \/ SaveItem(w) \/ ResolveAlerts(w) \/ RaiseAlerts(w) \/ RecordMovement(w)
  \/ InsertReservation(w) \/ SaveStatus(w) \/ LoadItem(w)
  \/ Restock(w) \/ RecordReleases(w) \/ NotifyExpired(w)

Next ==
  \/ \E w \in Workers : Receive(w) \/ Execute(w) \/ Crash(w)
  \/ \E r \in Reservations :
       \/ BecomeDue(r)
       \/ \E status \in {"ACTIVE"} \union Settled, q \in Quantities : AdminReservation(r, status, q)

Spec == Init /\ [][Next]_vars

-----------------------------------------------------------------------------
(* Properties. *)

\* However the handlers interleave and whenever they are cut short, a row never
\* shows negative stock: each value written was computed from the copy that was
\* checked (can_reserve, the serializer's decrease check, max(0, ...)).
NeverNegative == \A i \in Items : item[i].available >= 0

\* The ACTIVE reservations of an item, and what they hold.
Holding(i) ==
  {r \in Reservations : Exists(r) /\ reservation[r].item = i /\ reservation[r].status = "ACTIVE"}

Held(i) == SumFunction([r \in Holding(i) |-> reservation[r].qty])

\* The row but for what edits have put there.
Unedited(i) ==
  [available |-> item[i].available - edited[i].available,
   reserved  |-> item[i].reserved - edited[i].reserved,
   sold      |-> item[i].sold]

Balanced(i) ==
  /\ Unedited(i).reserved = Held(i)
  /\ Unedited(i).available = InitialStock + ledger[i].net
  /\ Unedited(i).sold = ledger[i].out

\* An item whose requests came one after the other is in balance between them,
\* whatever happens to other items: but for what edits of the row have put
\* there, its reserved stock is what its ACTIVE reservations hold, and its
\* movements explain its available stock; they explain all that was sold.
\* Requests that overlap, a handler cut short and the admin form of a
\* reservation do break it.
UndisturbedBalance == \A i \in Items \ disturbed : ~InUse(i) => Balanced(i)

\* ... and its stock alerts do not contradict one another: a row that is out of
\* stock is neither low on stock nor overstocked.
UndisturbedAlerts ==
  \A i \in Items \ disturbed :
    /\ Cardinality(alerts[i] \intersect {"LOW_STOCK", "OUT_OF_STOCK"}) <= 1
    /\ Cardinality(alerts[i] \intersect {"OUT_OF_STOCK", "OVERSTOCK"}) <= 1

\* A reservation that has been confirmed, released or expired stays so
\* ("Reservation is not active"), unless requests met on its item, one was cut
\* short, or the admin form of a reservation has been used.
SettledOnce ==
  [][\A r \in Reservations :
       Exists(r) /\ reservation[r].status \in Settled =>
         \/ reservation'[r].status = reservation[r].status
         \/ reservation[r].item \in disturbed']_vars
=============================================================================
