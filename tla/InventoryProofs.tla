-------------------------- MODULE InventoryProofs --------------------------
(***************************************************************************)
(* Proofs about the stock service, for any number of workers, rows,        *)
(* reservations and requests, any interleaving of their statements and     *)
(* handlers cut short anywhere.                                            *)
(*                                                                         *)
(* NeverNegative rests on IInv: not only the rows but also the copies the  *)
(* handlers hold of them are non-negative, whatever the rows have become   *)
(* since.                                                                  *)
(*                                                                         *)
(* UndisturbedBalance, UndisturbedAlerts and SettledOnce rest on           *)
(* BalanceInv: an undisturbed item has at most one request at work on it,  *)
(* its copy of the row is fresh until it is written back, and the row, the *)
(* movements and the ACTIVE reservations differ by what the request has    *)
(* written to one of them and not yet to the others.  The sums over        *)
(* reservations are unfolded by well-founded induction.                    *)
(***************************************************************************)
EXTENDS Inventory, FiniteSetTheorems, TLAPS

-----------------------------------------------------------------------------
(* Finite sums.  SumFunctionOnSet folds a set in an order nobody knows, so   *)
(* its recursion is unfolded along the well-founded order of the subsets.   *)

\* The element a fold takes first, and the function it is computed by.
Pick(s) == CHOOSE x \in s : TRUE

IsSum(g, v, S) == g = [s \in SUBSET S |-> IF s = {} THEN 0 ELSE v[Pick(s)] + g[s \ {Pick(s)}]]

SameOn(v, u, S) == \A x \in S : v[x] = u[x]

LEMMA PickIn ==
  ASSUME NEW s, s # {}
  PROVE  Pick(s) \in s
BY DEF Pick

\* A set of finite sets has a least one.
LEMMA LeastSet ==
  ASSUME NEW S, IsFiniteSet(S), NEW T, T \subseteq SUBSET S, T # {}
  PROVE  \E m \in T : \A s \in T : s \subseteq m => s = m
<1>1. IsWellFoundedOn(StrictSubsetOrdering(S), SUBSET S)
  BY FS_StrictSubsetOrderingWellFounded, FS_FiniteSubsetsOfFinite
<1>2. PICK m \in T : \A s \in T : ~(<<s, m>> \in StrictSubsetOrdering(S))
  BY <1>1, WFMin
<1>3. ASSUME NEW s \in T, s \subseteq m PROVE s = m
  <2>1. <<s, m>> \in (SUBSET S) \X (SUBSET S)
    OBVIOUS
  <2> QED
    BY <1>2, <1>3, <2>1 DEF StrictSubsetOrdering
<1> QED
  BY <1>3

LEMMA SumStep ==
  ASSUME NEW S, NEW v, NEW g, IsSum(g, v, S), NEW s \in SUBSET S
  PROVE  /\ s = {} => g[s] = 0
         /\ s # {} => Pick(s) \in s /\ g[s] = v[Pick(s)] + g[s \ {Pick(s)}]
BY PickIn DEF IsSum

LEMMA SumUnique ==
  ASSUME NEW S, IsFiniteSet(S), NEW v, NEW u, SameOn(v, u, S),
         NEW A, S \subseteq A,
         NEW g, NEW h, IsSum(g, v, A), IsSum(h, u, S)
  PROVE  \A s \in SUBSET S : g[s] = h[s]
<1> DEFINE T == {s \in SUBSET S : g[s] # h[s]}
<1> SUFFICES ASSUME T # {} PROVE FALSE
  OBVIOUS
<1>1. PICK m \in T : \A s \in T : s \subseteq m => s = m
  <2>1. T \subseteq SUBSET S
    OBVIOUS
  <2> HIDE DEF T
  <2> QED
    BY <2>1, LeastSet
<1>2. m \in SUBSET S /\ m \in SUBSET A
  OBVIOUS
<1>3. /\ m = {} => g[m] = 0
      /\ m # {} => Pick(m) \in m /\ g[m] = v[Pick(m)] + g[m \ {Pick(m)}]
  BY <1>2, SumStep
<1>4. /\ m = {} => h[m] = 0
      /\ m # {} => Pick(m) \in m /\ h[m] = u[Pick(m)] + h[m \ {Pick(m)}]
  BY <1>2, SumStep
<1>5. m # {}
  BY <1>3, <1>4
<1>6. g[m \ {Pick(m)}] = h[m \ {Pick(m)}]
  <2>1. m \ {Pick(m)} \in SUBSET S /\ m \ {Pick(m)} # m /\ m \ {Pick(m)} \subseteq m
    BY <1>2, <1>3, <1>5
  <2> QED
    BY <1>1, <2>1
<1> QED
  BY <1>2, <1>3, <1>4, <1>5, <1>6 DEF SameOn

LEMMA SumExists ==
  ASSUME NEW S, IsFiniteSet(S), NEW v
  PROVE  \E g : IsSum(g, v, S)
<1> DEFINE T == {s \in SUBSET S : ~ \E g : IsSum(g, v, s)}
<1> SUFFICES ASSUME T # {} PROVE FALSE
  OBVIOUS
<1>1. PICK U \in T : \A s \in T : s \subseteq U => s = U
  <2>1. T \subseteq SUBSET S
    OBVIOUS
  <2> HIDE DEF T
  <2> QED
    BY <2>1, LeastSet
<1>2. U \in SUBSET S /\ ~ \E g : IsSum(g, v, U) /\ IsFiniteSet(U)
  BY FS_Subset
<1> DEFINE G == [s \in SUBSET U |-> CHOOSE g : IsSum(g, v, s)]
           p == Pick(U)
           top == IF U = {} THEN 0 ELSE v[p] + G[U \ {p}][U \ {p}]
           g == [s \in SUBSET U |-> IF s = U THEN top ELSE G[s][s]]
<1>3. ASSUME NEW s \in SUBSET U, s # U PROVE IsSum(G[s], v, s)
  <2>1. s \in SUBSET S /\ s \notin T
    BY <1>1, <1>3
  <2>2. \E f : IsSum(f, v, s)
    BY <2>1
  <2>3. IsSum(CHOOSE f : IsSum(f, v, s), v, s)
    BY <2>2
  <2> QED
    BY <2>3
<1> HIDE DEF G
<1>4. ASSUME NEW s \in SUBSET U
      PROVE  g[s] = IF s = {} THEN 0 ELSE v[Pick(s)] + g[s \ {Pick(s)}]
  <2>1. CASE s = {} /\ s = U
    BY <2>1
  <2>2. CASE s = {} /\ s # U
    BY <1>3, <2>2, SumStep
  <2>3. CASE s # {}
    <3>1. Pick(s) \in s /\ s \ {Pick(s)} \in SUBSET U /\ s \ {Pick(s)} # U
      BY <2>3, PickIn
    <3>2. g[s \ {Pick(s)}] = G[s \ {Pick(s)}][s \ {Pick(s)}]
      BY <3>1
    <3>3. CASE s = U
      BY <2>3, <3>2, <3>3
    <3>4. CASE s # U
      <4>1. G[s][s] = v[Pick(s)] + G[s][s \ {Pick(s)}]
        BY <1>3, <2>3, <3>4, SumStep
      <4>2. G[s][s \ {Pick(s)}] = G[s \ {Pick(s)}][s \ {Pick(s)}]
        <5>1. PICK r : r = s \ {Pick(s)}
          OBVIOUS
        <5>2. IsFiniteSet(r) /\ r \subseteq s
          BY <1>2, <5>1, FS_Subset
        <5>3. PICK f, h : f = G[s] /\ h = G[r]
          OBVIOUS
        <5>4. IsSum(f, v, s) /\ IsSum(h, v, r)
          BY <1>3, <3>1, <3>4, <5>1, <5>3
        <5>5. SameOn(v, v, r)
          BY DEF SameOn
        <5>6. \A t \in SUBSET r : f[t] = h[t]
          BY <5>2, <5>4, <5>5, SumUnique
        <5> QED
          BY <5>1, <5>3, <5>6
      <4> QED
        BY <2>3, <3>2, <3>4, <4>1, <4>2
    <3> QED
      BY <3>3, <3>4
  <2> QED
    BY <2>1, <2>2, <2>3
<1>5. IsSum(g, v, U)
  <2>1. g = [s \in SUBSET U |-> g[s]]
    OBVIOUS
  <2> HIDE DEF g
  <2> QED
    BY <1>4, <2>1 DEF IsSum
<1> QED
  BY <1>2, <1>5

LEMMA SumIs ==
  ASSUME NEW S, IsFiniteSet(S), NEW v
  PROVE  \E g : IsSum(g, v, S) /\ SumFunctionOnSet(v, S) = g[S]
<1>1. \E g : IsSum(g, v, S)
  BY SumExists
<1>2. PICK h : h = CHOOSE g : IsSum(g, v, S)
  OBVIOUS
<1>3. IsSum(h, v, S)
  BY <1>1, <1>2
<1>4. SumFunctionOnSet(v, S) = h[S]
  BY <1>2 DEF SumFunctionOnSet, FoldFunctionOnSet, MapThenFoldSet, IsSum, Pick
<1> QED
  BY <1>3, <1>4

LEMMA SumOne ==
  ASSUME NEW S, IsFiniteSet(S), NEW v, \A x \in S : v[x] \in Int, NEW g, IsSum(g, v, S)
  PROVE  \A s \in SUBSET S : g[s] \in Int /\ \A x \in s : g[s] = v[x] + g[s \ {x}]
<1> DEFINE Good(s) == g[s] \in Int /\ \A x \in s : g[s] = v[x] + g[s \ {x}]
           T == {s \in SUBSET S : ~Good(s)}
<1> SUFFICES ASSUME T # {} PROVE FALSE
  OBVIOUS
<1>1. PICK m \in T : \A s \in T : s \subseteq m => s = m
  <2>1. T \subseteq SUBSET S
    OBVIOUS
  <2> HIDE DEF T
  <2> QED
    BY <2>1, LeastSet
<1>2. m \in SUBSET S
  OBVIOUS
<1>3. \A s \in SUBSET m : s # m => Good(s)
  BY <1>1
<1>6. ~Good(m)
  OBVIOUS
<1> HIDE DEF T, Good
<1>4. g[m] \in Int
  <2>1. CASE m = {}
    <3>1. m = {} => g[m] = 0
      BY <1>2, SumStep
    <3> QED
      BY <2>1, <3>1
  <2>2. CASE m # {}
    <3>1. Pick(m) \in m /\ g[m] = v[Pick(m)] + g[m \ {Pick(m)}]
      BY <1>2, <2>2, SumStep
    <3>2. Good(m \ {Pick(m)})
      BY <1>3, <3>1
    <3> QED
      BY <1>2, <3>1, <3>2 DEF Good
  <2> QED
    BY <2>1, <2>2
<1>5. ASSUME NEW x \in m PROVE g[m] = v[x] + g[m \ {x}]
  <2>1. PICK y : y = Pick(m)
    OBVIOUS
  <2>2. y \in m /\ g[m] = v[y] + g[m \ {y}]
    BY <1>2, <1>5, <2>1, SumStep
  <2>3. CASE x = y
    BY <2>2, <2>3
  <2>4. CASE x # y
    <3>1. Good(m \ {y}) /\ Good(m \ {x}) /\ Good(m \ {x, y})
      BY <1>3, <1>5, <2>2
    <3>2. (m \ {y}) \ {x} = m \ {x, y} /\ (m \ {x}) \ {y} = m \ {x, y}
      OBVIOUS
    <3>3. g[m \ {y}] = v[x] + g[m \ {x, y}] /\ g[m \ {x}] = v[y] + g[m \ {x, y}]
      BY <1>5, <2>2, <2>4, <3>1, <3>2 DEF Good
    <3>4. v[x] \in Int /\ v[y] \in Int /\ g[m \ {x, y}] \in Int
      BY <1>2, <1>5, <2>2, <3>1 DEF Good
    <3> QED
      BY <2>2, <3>3, <3>4
  <2> QED
    BY <2>3, <2>4
<1> QED
  BY <1>4, <1>5, <1>6 DEF Good

LEMMA SumWithin ==
  ASSUME NEW v, NEW S, NEW r, IsFiniteSet(r), r \subseteq S, NEW g, NEW h, IsSum(g, v, S), IsSum(h, v, r)
  PROVE  g[r] = h[r]
<1>1. SameOn(v, v, r)
  BY DEF SameOn
<1>2. \A t \in SUBSET r : g[t] = h[t]
  BY <1>1, SumUnique
<1> QED
  BY <1>2

\* What TLC computes is the sum: nothing, or one more, in whatever order.
LEMMA SumFacts ==
  ASSUME NEW S, IsFiniteSet(S), NEW v, \A x \in S : v[x] \in Int
  PROVE  /\ SumFunctionOnSet(v, S) \in Int
         /\ S = {} => SumFunctionOnSet(v, S) = 0
         /\ \A x \in S : SumFunctionOnSet(v, S) = v[x] + SumFunctionOnSet(v, S \ {x})
<1>1. PICK g : IsSum(g, v, S) /\ SumFunctionOnSet(v, S) = g[S]
  BY SumIs
<1>2. \A s \in SUBSET S : g[s] \in Int /\ \A x \in s : g[s] = v[x] + g[s \ {x}]
  <2>1. IsSum(g, v, S)
    BY <1>1
  <2> QED
    BY <2>1, SumOne
<1>3. g[S] \in Int /\ (S = {} => g[S] = 0)
  BY <1>1, <1>2, SumStep
<1>4. ASSUME NEW x \in S PROVE SumFunctionOnSet(v, S) = v[x] + SumFunctionOnSet(v, S \ {x})
  <2>1. PICK r : r = S \ {x}
    OBVIOUS
  <2>2. IsFiniteSet(r) /\ r \subseteq S
    BY <2>1, FS_Subset
  <2>3. PICK h : IsSum(h, v, r) /\ SumFunctionOnSet(v, r) = h[r]
    BY <2>2, SumIs
  <2>4. g[r] = h[r]
    BY <1>1, <2>2, <2>3, SumWithin
  <2> QED
    BY <1>1, <1>2, <2>1, <2>3, <2>4
<1> QED
  BY <1>1, <1>3, <1>4

LEMMA SumSame ==
  ASSUME NEW S, IsFiniteSet(S), NEW v, NEW u, \A x \in S : v[x] = u[x]
  PROVE  SumFunctionOnSet(v, S) = SumFunctionOnSet(u, S)
<1>1. PICK g : IsSum(g, v, S) /\ SumFunctionOnSet(v, S) = g[S]
  BY SumIs
<1>2. PICK h : IsSum(h, u, S) /\ SumFunctionOnSet(u, S) = h[S]
  BY SumIs
<1>3. \A s \in SUBSET S : g[s] = h[s]
  <2>1. SameOn(v, u, S) /\ S \subseteq S
    BY DEF SameOn
  <2>2. IsSum(g, v, S) /\ IsSum(h, u, S)
    BY <1>1, <1>2
  <2> QED
    BY <2>1, <2>2, SumUnique
<1> QED
  BY <1>1, <1>2, <1>3

-----------------------------------------------------------------------------
(* Rows without negative stock. *)

Stock == [available : Nat, reserved : Int, sold : Int]

\* A request whose copies show no negative stock.  A reserve works on the copy
\* that passed its check to the end: it does not load the row again.
SafeHandler ==
  {h \in [op : RequestKinds, todo : Seq(Statement), items : SUBSET Items,
          batch : SUBSET Reservations, copy : [Items -> Stock], qty : Nat, net : Int] :
     h.op = "reserve" => h.todo \in Seq(Statement \ {"load"})}

IInv ==
  /\ item \in [Items -> Stock]
  /\ reservation \in [Reservations -> Reservation \union {NoReservation}]
  /\ handler \in [Workers -> SafeHandler]
  /\ \A w \in Workers : Busy(w) => handler[w].items # {}
  /\ \A w \in Workers : \A r \in handler[w].batch : Exists(r)

-----------------------------------------------------------------------------
(* What the services compute and write. *)

LEMMA MaxNat ==
  ASSUME NEW a \in Int
  PROVE  Max({0, a}) \in Nat
<1>1. \E m \in {0, a} : \A y \in {0, a} : m >= y
  <2>1. CASE a >= 0
    BY <2>1
  <2>2. CASE ~(a >= 0)
    BY <2>2
  <2> QED
    BY <2>1, <2>2
<1>2. Max({0, a}) \in {0, a} /\ \A y \in {0, a} : Max({0, a}) >= y
  BY <1>1 DEF Max
<1> QED
  BY <1>2

\* A request that passed its validation computes a row without negative stock.
LEMMA ComputeSafe ==
  ASSUME NEW op \in RequestKinds, NEW row \in Stock, NEW q \in Nat,
         op = "reserve" => row.available >= q
  PROVE  Compute(op, row, q) \in Stock
<1> DEFINE a == row.available
           r == row.reserved
           s == row.sold
<1>1. a \in Nat /\ r \in Int /\ s \in Int /\ row = [available |-> a, reserved |-> r, sold |-> s]
  BY DEF Stock
<1>2. Max({0, a - q}) \in Nat
  BY <1>1, MaxNat
<1>3. CASE op = "increase"
  <2> DEFINE x == a + q
  <2>1. Compute(op, row, q) = [row EXCEPT !.available = x]
    BY <1>3 DEF Compute
  <2>2. x \in Nat
    BY <1>1, <1>2
  <2> HIDE DEF x
  <2> QED
    BY <2>1, <2>2 DEF Stock
<1>4. CASE op = "decrease"
  <2> DEFINE x == Max({0, a - q})
             y == s + q
  <2>1. Compute(op, row, q) = [row EXCEPT !.available = x, !.sold = y]
    BY <1>4 DEF Compute
  <2>2. x \in Nat /\ y \in Int
    BY <1>1, <1>2
  <2> HIDE DEF x, y
  <2> QED
    BY <2>1, <2>2 DEF Stock
<1>5. CASE op \in {"set", "bulk"}
  <2> DEFINE x == q
  <2>1. Compute(op, row, q) = [row EXCEPT !.available = x]
    BY <1>5 DEF Compute
  <2>2. x \in Nat
    BY <1>1, <1>2
  <2> HIDE DEF x
  <2> QED
    BY <2>1, <2>2 DEF Stock
<1>6. CASE op = "reserve"
  <2> DEFINE x == a - q
             y == r + q
  <2>1. Compute(op, row, q) = [row EXCEPT !.available = x, !.reserved = y]
    BY <1>6 DEF Compute
  <2>2. x \in Nat /\ y \in Int
    BY <1>1, <1>2, <1>6
  <2> HIDE DEF x, y
  <2> QED
    BY <2>1, <2>2 DEF Stock
<1>7. CASE op = "confirm"
  <2> DEFINE x == r - q
             y == s + q
  <2>1. Compute(op, row, q) = [row EXCEPT !.reserved = x, !.sold = y]
    BY <1>7 DEF Compute
  <2>2. x \in Int /\ y \in Int
    BY <1>1, <1>2
  <2> HIDE DEF x, y
  <2> QED
    BY <2>1, <2>2 DEF Stock
<1>8. CASE op = "release"
  <2> DEFINE x == r - q
             y == a + q
  <2>1. Compute(op, row, q) = [row EXCEPT !.reserved = x, !.available = y]
    BY <1>8 DEF Compute
  <2>2. x \in Int /\ y \in Nat
    BY <1>1, <1>2
  <2> HIDE DEF x, y
  <2> QED
    BY <2>1, <2>2 DEF Stock
<1>9. CASE op \in {"edit", "sweep"}
  BY <1>9 DEF Compute
<1> QED
  BY <1>3, <1>4, <1>5, <1>6, <1>7, <1>8, <1>9 DEF RequestKinds, StockRequests, SettleRequests

\* Writing some columns back from a copy mixes two rows without negative stock.
LEMMA OverwriteSafe ==
  ASSUME NEW row \in Stock, NEW copy \in Stock, NEW columns
  PROVE  Overwrite(row, copy, columns) \in Stock
<1> DEFINE new == Overwrite(row, copy, columns)
<1>1. DOMAIN row = {"available", "reserved", "sold"}
  BY DEF Stock
<1>2. new = [c \in {"available", "reserved", "sold"} |-> IF c \in columns THEN copy[c] ELSE row[c]]
  BY <1>1 DEF Overwrite
<1>3. /\ row["available"] \in Nat /\ row["reserved"] \in Int /\ row["sold"] \in Int
      /\ copy["available"] \in Nat /\ copy["reserved"] \in Int /\ copy["sold"] \in Int
  BY DEF Stock
<1>4. new["available"] \in Nat /\ new["reserved"] \in Int /\ new["sold"] \in Int
  BY <1>2, <1>3
<1> QED
  BY <1>2, <1>4 DEF Stock

\* Every program is a sequence of statements.
LEMMA ProgramStatements ==
  ASSUME NEW op \in RequestKinds
  PROVE  /\ Program(op) \in Seq(Statement)
         /\ op = "reserve" => Program(op) \in Seq(Statement \ {"load"})
<1> DEFINE save  == <<"save", "resolve", "raise">>
           check == <<"resolve", "raise">>
           move  == <<"move">>
           settle == <<"status", "load">>
<1>1. /\ save \in Seq(Statement) /\ check \in Seq(Statement) /\ move \in Seq(Statement)
      /\ settle \in Seq(Statement)
      /\ <<"insert", "move">> \in Seq(Statement)
      /\ <<"move", "save">> \in Seq(Statement)
      /\ <<"expire", "restock", "moves", "notify">> \in Seq(Statement)
  BY DEF Statement
<1>2. \A u, v \in Seq(Statement) : u \o v \in Seq(Statement)
  OBVIOUS
<1> HIDE DEF save, check, move, settle
<1>3. /\ save \o move \o check \in Seq(Statement)
      /\ save \o <<"insert", "move">> \in Seq(Statement)
      /\ settle \o save \o move \o check \in Seq(Statement)
      /\ settle \o save \o move \in Seq(Statement)
      /\ <<"move", "save">> \o check \in Seq(Statement)
  BY <1>1, <1>2
<1> USE DEF save, check, move, settle
<1>4. CASE op \in {"increase", "decrease", "set"}
  BY <1>3, <1>4 DEF Program
<1>5. CASE op = "reserve"
  <2>1. /\ save \in Seq(Statement \ {"load"})
        /\ <<"insert", "move">> \in Seq(Statement \ {"load"})
    BY DEF Statement
  <2>2. \A u, v \in Seq(Statement \ {"load"}) : u \o v \in Seq(Statement \ {"load"})
    OBVIOUS
  <2>3. Program(op) = save \o <<"insert", "move">>
    BY <1>5 DEF Program
  <2> HIDE DEF save, check, move, settle
  <2>4. save \o <<"insert", "move">> \in Seq(Statement \ {"load"})
    BY <2>1, <2>2
  <2> QED
    BY <1>3, <2>3, <2>4
<1>6. CASE op = "confirm"
  BY <1>3, <1>6 DEF Program
<1>7. CASE op = "release"
  BY <1>3, <1>7 DEF Program
<1>8. CASE op = "bulk"
  BY <1>3, <1>8 DEF Program
<1>9. CASE op \in {"edit", "sweep"}
  BY <1>1, <1>9 DEF Program
<1> QED
  BY <1>4, <1>5, <1>6, <1>7, <1>8, <1>9 DEF RequestKinds, StockRequests, SettleRequests

\* An idle worker holds copies of rows without negative stock.
LEMMA IdleSafe == Idle \in SafeHandler /\ Idle.todo = << >> /\ Idle.batch = {}
<1>1. NewRow \in Stock
  BY InventoryConstants DEF NewRow, Stock
<1>2. << >> \in Seq(Statement)
  OBVIOUS
<1> QED
  BY <1>1, <1>2 DEF Idle, SafeHandler, RequestKinds

-----------------------------------------------------------------------------
(* The invariant. *)

LEMMA InitInv == Init => IInv
<1> SUFFICES ASSUME Init PROVE IInv
  OBVIOUS
<1>1. NewRow \in Stock
  BY InventoryConstants DEF NewRow, Stock
<1>2. item \in [Items -> Stock] /\ reservation \in [Reservations -> Reservation \union {NoReservation}]
  BY <1>1 DEF Init
<1>3. handler \in [Workers -> SafeHandler] /\ \A w \in Workers : handler[w] = Idle
  BY IdleSafe DEF Init
<1> QED
  BY <1>2, <1>3, IdleSafe DEF IInv, Busy

\* A statement is done.
LEMMA AdvanceSafe ==
  ASSUME IInv, NEW w \in Workers, Busy(w), Advance(w)
  PROVE  /\ handler' \in [Workers -> SafeHandler]
         /\ \A v \in Workers : Busy(v)' => handler'[v].items # {}
         /\ \A v \in Workers : handler'[v].batch \subseteq handler[v].batch
<1> DEFINE h == handler[w]
           rest == Tail(h.todo)
           next == IF rest = << >> THEN Idle ELSE [h EXCEPT !.todo = rest]
<1>1. /\ handler \in [Workers -> SafeHandler]
      /\ \A v \in Workers : Busy(v) => handler[v].items # {}
  BY DEF IInv
<1>2. h \in SafeHandler /\ h.items # {} /\ h.todo \in Seq(Statement) /\ h.todo # << >>
  BY <1>1 DEF SafeHandler, Busy
<1>3. rest \in Seq(Statement) /\ (h.op = "reserve" => rest \in Seq(Statement \ {"load"}))
  BY <1>2 DEF SafeHandler
<1>4. handler' = [handler EXCEPT ![w] = next]
  BY DEF Advance
<1>5. next \in SafeHandler /\ next.batch \subseteq h.batch /\ (next.todo # << >> => next.items # {})
  <2>1. CASE rest = << >>
    BY <2>1, IdleSafe
  <2>2. CASE rest # << >>
    <3> HIDE DEF rest, h
    <3>1. next = [h EXCEPT !.todo = rest]
      BY <2>2
    <3> QED
      BY <1>2, <1>3, <3>1 DEF SafeHandler
  <2> QED
    BY <2>1, <2>2
<1> HIDE DEF next
<1> QED
  BY <1>1, <1>4, <1>5 DEF Busy

\* A worker takes a request whose copies show no negative stock.
LEMMA AcceptSafe ==
  ASSUME IInv, NEW w \in Workers, NEW h \in SafeHandler, Accept(w, h), h.items # {},
         \A r \in h.batch : Exists(r),
         UNCHANGED <<item, reservation>>
  PROVE  IInv'
<1>1. handler' = [handler EXCEPT ![w] = h]
  BY DEF Accept
<1>2. handler' \in [Workers -> SafeHandler]
  BY <1>1 DEF IInv
<1>3. \A v \in Workers : handler'[v] = handler[v] \/ handler'[v] = h
  BY <1>1 DEF IInv
<1> QED
  BY <1>2, <1>3 DEF IInv, Busy, Exists

\* A statement that touches neither rows nor reservations.
LEMMA OtherStatement ==
  ASSUME IInv, NEW w \in Workers, Busy(w), Advance(w), UNCHANGED <<item, reservation>>
  PROVE  IInv'
BY AdvanceSafe DEF IInv, Exists

\* The row a busy worker works on is a row.
LEMMA TargetItem ==
  ASSUME IInv, NEW w \in Workers, Busy(w)
  PROVE  Target(w) \in Items
BY DEF IInv, SafeHandler, Target

LEMMA NextInv == IInv /\ [Next]_vars => IInv'
<1> SUFFICES ASSUME IInv, [Next]_vars PROVE IInv'
  OBVIOUS
<1>1. /\ item \in [Items -> Stock]
      /\ reservation \in [Reservations -> Reservation \union {NoReservation}]
      /\ handler \in [Workers -> SafeHandler]
      /\ \A w \in Workers : Busy(w) => handler[w].items # {}
      /\ \A w \in Workers : \A r \in handler[w].batch : Exists(r)
  BY DEF IInv
<1>2. \A r \in Reservations : Exists(r) =>
        reservation[r] \in Reservation /\ reservation[r].item \in Items /\ reservation[r].qty \in Nat
  BY <1>1 DEF Exists, Reservation
<1>3. ASSUME NEW w \in Workers, NEW op \in StockRequests, NEW i \in Items, NEW q \in Quantities,
             ReceiveStock(w, op, i, q)
      PROVE  IInv'
  <2> DEFINE row == Compute(op, item[i], q)
             copies == [item EXCEPT ![i] = row]
             change == row.available - item[i].available
             h == [op |-> op, todo |-> Program(op), items |-> {i}, batch |-> {},
                   copy |-> copies, qty |-> q, net |-> change]
  <2>1. op \in RequestKinds /\ q \in Nat /\ item[i] \in Stock
    BY <1>1, InventoryConstants DEF RequestKinds
  <2>2. Valid(op, item[i], q) /\ Accept(w, h) /\ UNCHANGED <<item, reservation>>
    BY <1>3 DEF ReceiveStock
  <2>3. op = "reserve" => item[i].available >= q
    BY <2>2 DEF Valid, CanReserve
  <2>4. row \in Stock
    BY <2>1, <2>3, ComputeSafe
  <2> HIDE DEF row
  <2>5. copies \in [Items -> Stock] /\ change \in Int
    BY <1>1, <2>1, <2>4 DEF Stock
  <2>6. /\ Program(op) \in Seq(Statement)
        /\ op = "reserve" => Program(op) \in Seq(Statement \ {"load"})
    BY <2>1, ProgramStatements
  <2> HIDE DEF copies, change
  <2>7. h \in SafeHandler /\ h.items # {} /\ h.batch = {}
    BY <2>1, <2>5, <2>6 DEF SafeHandler
  <2> HIDE DEF h
  <2> QED
    BY <2>2, <2>7, AcceptSafe
<1>17. ASSUME NEW w \in Workers, NEW i \in Items,
              NEW a \in Quantities \union {item[i].available},
              NEW b \in Quantities \union {item[i].reserved}, ReceiveEdit(w, i, a, b)
       PROVE  IInv'
  <2> DEFINE row == [item[i] EXCEPT !.available = a, !.reserved = b]
             copies == [item EXCEPT ![i] = row]
             h == [op |-> "edit", todo |-> Program("edit"), items |-> {i}, batch |-> {},
                   copy |-> copies, qty |-> 0, net |-> 0]
  <2>1. Accept(w, h) /\ UNCHANGED <<item, reservation>>
    BY <1>17 DEF ReceiveEdit
  <2>2. item[i] \in Stock
    BY <1>1
  <2>3. a \in Nat /\ b \in Int
    <3>1. item[i].available \in Nat /\ item[i].reserved \in Int
      BY <2>2 DEF Stock
    <3>2. Quantities \subseteq Nat
      BY InventoryConstants
    <3> QED
      BY <3>1, <3>2
  <2>4. row \in Stock
    BY <2>2, <2>3 DEF Stock
  <2> HIDE DEF row
  <2>5. copies \in [Items -> Stock]
    BY <1>1, <2>4
  <2>6. "edit" \in RequestKinds /\ Program("edit") \in Seq(Statement)
    BY ProgramStatements DEF RequestKinds
  <2> HIDE DEF copies
  <2>7. h \in SafeHandler /\ h.items # {} /\ h.batch = {}
    BY <2>5, <2>6 DEF SafeHandler
  <2> HIDE DEF h
  <2> QED
    BY <2>1, <2>7, AcceptSafe
<1>18. ASSUME NEW r \in Reservations, NEW status \in {"ACTIVE"} \union Settled, NEW q \in Quantities,
              AdminReservation(r, status, q)
       PROVE  IInv'
  <2> DEFINE new == [reservation[r] EXCEPT !.status = status, !.qty = q]
  <2>1. Exists(r) /\ UNCHANGED <<item, handler>> /\ reservation' = [reservation EXCEPT ![r] = new]
    BY <1>18 DEF AdminReservation
  <2>2. new \in Reservation
    BY <1>2, <2>1, InventoryConstants DEF Reservation
  <2> HIDE DEF new
  <2>3. reservation' \in [Reservations -> Reservation \union {NoReservation}]
    BY <1>1, <2>1, <2>2
  <2>4. \A s \in Reservations : Exists(s) => Exists(s)'
    BY <1>1, <2>1, <2>2, NoReservationIsNone DEF Exists
  <2> QED
    BY <1>1, <2>1, <2>3, <2>4 DEF IInv, Busy, SafeHandler
<1>4. ASSUME NEW w \in Workers, NEW op \in SettleRequests, NEW r \in Reservations,
             ReceiveSettle(w, op, r)
      PROVE  IInv'
  <2> DEFINE i == reservation[r].item
             q == reservation[r].qty
             change == IF op = "release" THEN q ELSE 0
             h == [op |-> op, todo |-> Program(op), items |-> {i}, batch |-> {r},
                   copy |-> item, qty |-> q, net |-> change]
  <2>1. op \in RequestKinds /\ op # "reserve" /\ Program(op) \in Seq(Statement)
    BY ProgramStatements DEF RequestKinds, SettleRequests
  <2>2. Exists(r) /\ Accept(w, h) /\ UNCHANGED <<item, reservation>>
    BY <1>4 DEF ReceiveSettle
  <2>3. i \in Items /\ q \in Nat /\ change \in Int
    BY <1>2, <2>2
  <2> HIDE DEF i, q, change
  <2>4. h \in SafeHandler /\ h.items # {} /\ h.batch = {r}
    BY <1>1, <2>1, <2>3 DEF SafeHandler
  <2> HIDE DEF h
  <2> QED
    BY <2>2, <2>4, AcceptSafe
<1>5. ASSUME NEW w \in Workers, ReceiveSweep(w) PROVE IInv'
  <2> DEFINE batch == {r \in Reservations : /\ Exists(r)
                                            /\ reservation[r].status = "ACTIVE"
                                            /\ reservation[r].due}
             touched == {reservation[r].item : r \in batch}
             h == [op |-> "sweep", todo |-> Program("sweep"), items |-> touched, batch |-> batch,
                   copy |-> item, qty |-> 0, net |-> 0]
  <2>1. "sweep" \in RequestKinds /\ Program("sweep") \in Seq(Statement)
    BY ProgramStatements DEF RequestKinds
  <2>2. batch # {} /\ Accept(w, h) /\ UNCHANGED <<item, reservation>>
    BY <1>5 DEF ReceiveSweep
  <2>3. batch \subseteq Reservations /\ touched \subseteq Items /\ touched # {}
    BY <1>2, <2>2
  <2>4. \A r \in batch : Exists(r)
    OBVIOUS
  <2> HIDE DEF batch, touched
  <2>5. h \in SafeHandler /\ h.items = touched /\ h.batch = batch
    BY <1>1, <2>1, <2>3 DEF SafeHandler
  <2> HIDE DEF h
  <2> QED
    BY <2>2, <2>3, <2>4, <2>5, AcceptSafe
<1>6. ASSUME NEW w \in Workers, SaveItem(w) PROVE IInv'
  <2> DEFINE i == Target(w)
             new == Overwrite(item[i], handler[w].copy[i], Columns(handler[w].op))
  <2>1. Busy(w) /\ Advance(w) /\ reservation' = reservation /\ item' = [item EXCEPT ![i] = new]
    BY <1>6 DEF SaveItem, Runs
  <2>2. i \in Items
    BY <2>1, TargetItem
  <2>3. item[i] \in Stock /\ handler[w].copy[i] \in Stock
    BY <1>1, <2>2 DEF SafeHandler
  <2>4. new \in Stock
    BY <2>3, OverwriteSafe
  <2> HIDE DEF new, i
  <2>5. item' \in [Items -> Stock]
    BY <1>1, <2>1, <2>4
  <2> QED
    BY <1>1, <2>1, <2>5, AdvanceSafe DEF IInv, Exists
<1>7. ASSUME NEW w \in Workers,
             \/ ResolveAlerts(w) \/ RaiseAlerts(w) \/ RecordMovement(w)
             \/ RecordReleases(w) \/ NotifyExpired(w)
      PROVE  IInv'
  <2>1. Busy(w) /\ Advance(w) /\ UNCHANGED <<item, reservation>>
    BY <1>7 DEF ResolveAlerts, RaiseAlerts, RecordMovement, RecordReleases, NotifyExpired, Runs
  <2> QED
    BY <2>1, OtherStatement
<1>8. ASSUME NEW w \in Workers, InsertReservation(w) PROVE IInv'
  <2> DEFINE new == [status |-> "ACTIVE", item |-> Target(w), qty |-> handler[w].qty, due |-> FALSE]
  <2>1. Busy(w) /\ Advance(w) /\ item' = item
    BY <1>8 DEF InsertReservation, Runs
  <2>2. PICK r \in Reservations : ~Exists(r) /\ reservation' = [reservation EXCEPT ![r] = new]
    BY <1>8 DEF InsertReservation
  <2>3. new \in Reservation
    BY <1>1, <2>1, TargetItem DEF Reservation, SafeHandler
  <2> HIDE DEF new
  <2>4. reservation' \in [Reservations -> Reservation \union {NoReservation}]
    BY <1>1, <2>2, <2>3
  <2>5. \A v \in Workers : \A s \in handler[v].batch : Exists(s)'
    BY <1>1, <2>2, <2>3, NoReservationIsNone DEF Exists, SafeHandler
  <2> QED
    BY <1>1, <2>1, <2>4, <2>5, AdvanceSafe DEF IInv
<1>9. ASSUME NEW w \in Workers, SaveStatus(w) PROVE IInv'
  <2> DEFINE status == Outcome(handler[w].op)
  <2>1. Busy(w) /\ Advance(w) /\ item' = item
    BY <1>9 DEF SaveStatus, Runs
  <2>2. reservation' = [r \in Reservations |->
          IF r \in handler[w].batch THEN [reservation[r] EXCEPT !.status = status]
                                    ELSE reservation[r]]
    BY <1>9 DEF SaveStatus
  <2>3. status \in Settled
    BY DEF Outcome, Settled
  <2> HIDE DEF status
  <2>4. ASSUME NEW r \in Reservations
        PROVE  /\ reservation'[r] \in Reservation \union {NoReservation}
               /\ Exists(r) => reservation'[r] \in Reservation
    <3>1. CASE r \in handler[w].batch
      <4>1. reservation[r] \in Reservation
        BY <1>1, <1>2, <3>1
      <4>2. [reservation[r] EXCEPT !.status = status] \in Reservation
        BY <2>3, <4>1 DEF Reservation
      <4> QED
        BY <2>2, <3>1, <4>2
    <3>2. CASE r \notin handler[w].batch
      BY <1>1, <1>2, <2>2, <3>2
    <3> QED
      BY <3>1, <3>2
  <2>5. reservation' \in [Reservations -> Reservation \union {NoReservation}]
    BY <2>2, <2>4
  <2>6. \A r \in Reservations : Exists(r) => Exists(r)'
    BY <2>4, NoReservationIsNone DEF Exists
  <2>7. \A v \in Workers : handler[v].batch \subseteq Reservations
    BY <1>1 DEF SafeHandler
  <2> QED
    BY <1>1, <2>1, <2>5, <2>6, <2>7, AdvanceSafe DEF IInv
<1>10. ASSUME NEW w \in Workers, LoadItem(w) PROVE IInv'
  <2> DEFINE h == handler[w]
             i == Target(w)
             rest == Tail(h.todo)
             row == Compute(h.op, item[i], h.qty)
             copies == [h.copy EXCEPT ![i] = row]
             loaded == [h EXCEPT !.todo = rest, !.copy = copies]
  <2>1. Busy(w) /\ UNCHANGED <<item, reservation>>
    BY <1>10 DEF LoadItem, Runs
  <2>2. handler' = [handler EXCEPT ![w].todo = rest, ![w].copy[i] = row]
    BY <1>10 DEF LoadItem
  <2>3. i \in Items
    BY <2>1, TargetItem
  <2>4. h \in SafeHandler /\ h.todo # << >> /\ h.items # {} /\ item[i] \in Stock
    BY <1>1, <2>1, <2>3 DEF Busy
  <2>5. h.op \in RequestKinds /\ h.qty \in Nat /\ h.copy \in [Items -> Stock] /\ h.todo \in Seq(Statement)
    BY <2>4 DEF SafeHandler
  <2>6. h.op # "reserve"
    <3>1. Head(h.todo) = "load"
      BY <1>10 DEF LoadItem, Runs
    <3>2. h.op = "reserve" => Head(h.todo) \in Statement \ {"load"}
      BY <2>4 DEF SafeHandler
    <3> QED
      BY <3>1, <3>2
  <2>7. row \in Stock
    BY <2>4, <2>5, <2>6, ComputeSafe
  <2>8. rest \in Seq(Statement)
    BY <2>4, <2>5
  <2> HIDE DEF row, rest
  <2>9. copies \in [Items -> Stock]
    BY <2>5, <2>7
  <2>10. handler' = [handler EXCEPT ![w] = loaded]
    BY <1>1, <2>2
  <2> HIDE DEF copies, h
  <2>11. loaded \in SafeHandler /\ loaded.items = h.items /\ loaded.batch = h.batch
    BY <2>4, <2>6, <2>8, <2>9 DEF SafeHandler
  <2> HIDE DEF loaded
  <2> QED
    BY <1>1, <2>1, <2>4, <2>10, <2>11 DEF IInv, Busy, Exists, h
<1>11. ASSUME NEW w \in Workers, Restock(w) PROVE IInv'
  <2> DEFINE h == handler[w]
             given(r, i) == Compute("release", h.copy[i], reservation[r].qty)
             new(r, i) == Overwrite(item[i], given(r, i), Columns("release"))
  <2>1. Busy(w) /\ Advance(w) /\ reservation' = reservation
    BY <1>11 DEF Restock, Runs
  <2>2. PICK first \in [h.items -> h.batch] :
          item' = [i \in Items |-> IF i \in h.items THEN new(first[i], i) ELSE item[i]]
    BY <1>11 DEF Restock
  <2>3. h \in SafeHandler
    BY <1>1
  <2>4. h.batch \subseteq Reservations /\ h.copy \in [Items -> Stock] /\ \A r \in h.batch : Exists(r)
    BY <1>1, <2>3 DEF SafeHandler
  <2>5. ASSUME NEW r \in h.batch, NEW i \in Items PROVE new(r, i) \in Stock
    <3>1. h.copy[i] \in Stock /\ item[i] \in Stock /\ reservation[r].qty \in Nat
      BY <1>1, <1>2, <2>4
    <3>2. "release" \in RequestKinds
      BY DEF RequestKinds, SettleRequests
    <3>3. given(r, i) \in Stock
      BY <3>1, <3>2, ComputeSafe
    <3> HIDE DEF given
    <3> QED
      BY <3>1, <3>3, OverwriteSafe
  <2> HIDE DEF new
  <2>6. \A i \in h.items : first[i] \in h.batch
    BY <2>2
  <2> HIDE DEF h
  <2>7. item' \in [Items -> Stock]
    BY <1>1, <2>2, <2>5, <2>6
  <2> QED
    BY <1>1, <2>1, <2>7, AdvanceSafe DEF IInv, Exists
<1>12. ASSUME NEW w \in Workers, Crash(w) PROVE IInv'
  <2>1. handler' = [handler EXCEPT ![w] = Idle] /\ UNCHANGED <<item, reservation>>
    BY <1>12 DEF Crash
  <2>2. handler' \in [Workers -> SafeHandler]
    BY <1>1, <2>1, IdleSafe
  <2>3. \A v \in Workers : handler'[v] = handler[v] \/ handler'[v] = Idle
    BY <1>1, <2>1
  <2> QED
    BY <1>1, <2>1, <2>2, <2>3, IdleSafe DEF IInv, Busy, Exists
<1>13. ASSUME NEW r \in Reservations, BecomeDue(r) PROVE IInv'
  <2> DEFINE new == [reservation[r] EXCEPT !.due = TRUE]
  <2>1. Exists(r) /\ UNCHANGED <<item, handler>> /\ reservation' = [reservation EXCEPT ![r] = new]
    BY <1>13 DEF BecomeDue
  <2>2. new \in Reservation
    BY <1>2, <2>1 DEF Reservation
  <2> HIDE DEF new
  <2>3. reservation' \in [Reservations -> Reservation \union {NoReservation}]
    BY <1>1, <2>1, <2>2
  <2>4. \A s \in Reservations : Exists(s) => Exists(s)'
    BY <1>1, <2>1, <2>2, NoReservationIsNone DEF Exists
  <2> QED
    BY <1>1, <2>1, <2>3, <2>4 DEF IInv, Busy, SafeHandler
<1>14. CASE UNCHANGED vars
  BY <1>1, <1>14 DEF vars, IInv, Busy, Exists
<1>15. ASSUME NEW w \in Workers, Receive(w) PROVE IInv'
  BY <1>3, <1>4, <1>5, <1>15, <1>17 DEF Receive
<1>16. ASSUME NEW w \in Workers, Execute(w) PROVE IInv'
  BY <1>6, <1>7, <1>8, <1>9, <1>10, <1>11, <1>16 DEF Execute
<1> QED
  BY <1>12, <1>13, <1>14, <1>15, <1>16, <1>18 DEF Next

-----------------------------------------------------------------------------
(* The theorems. *)

\* Rows and copies are non-negative and well formed in every reachable state.
THEOREM Invariance == Spec => []IInv
<1> QED
  BY InitInv, NextInv, PTL DEF Spec

\* However many handlers overlap, and wherever they are cut short, no statement
\* of adjust, reserve, confirm, release, bulk update or the sweep writes a
\* negative quantity_available.
THEOREM NonNegative == Spec => []NeverNegative
<1>1. IInv => NeverNegative
  BY DEF IInv, NeverNegative, Stock
<1> QED
  BY <1>1, Invariance, PTL

-----------------------------------------------------------------------------
(* The books of an undisturbed item, while its one request is under way. *)

Works(w, i) == Busy(w) /\ i \in handler[w].items

\* One of these statements is still to run.
Pending(h, statements) == \E k \in DOMAIN h.todo : h.todo[k] \in statements

\* Those that write the row, the movements and the reservations.
RowStatements         == {"save", "restock"}
MovementStatements    == {"move", "moves"}
ReservationStatements == {"insert", "status", "expire"}
SweepStatements       == {"expire", "restock", "moves", "notify"}

\* What is left of a program: nothing but alerts is written twice, a row is
\* loaded before it is saved, and alerts are raised right after they are resolved.
InOrder(h) ==
  LET t == h.todo IN
  /\ \A j, k \in DOMAIN t : t[j] = t[k] /\ j # k => t[j] \in {"resolve", "raise"}
  /\ \A j, k \in DOMAIN t : t[j] = "load" /\ t[k] = "save" => j < k
  /\ \A k \in DOMAIN t : t[k] = "raise" /\ k > 1 => t[k-1] = "resolve"
  /\ \A k \in DOMAIN t : t[k] \in SweepStatements <=> h.op = "sweep"
  /\ \A k \in DOMAIN t : t[k] = "insert" => h.op = "reserve"
  /\ \A k \in DOMAIN t : t[k] \in {"status", "load"} => h.op \in SettleRequests

Settling == SettleRequests \union {"sweep"}

\* What a request of q pieces adds to the available, the reserved and the sold stock.
Adds(h, q)     == IF h.op = "sweep" THEN q ELSE h.net
Reserves(h, q) == CASE h.op = "reserve" -> q [] h.op \in Settling -> -q [] OTHER -> 0
Sells(h, q)    == IF h.op \in {"decrease", "confirm"} THEN q ELSE 0

\* How much of that the row, the movements and the reservations already show.
InRow(h, d)       == IF Pending(h, RowStatements) THEN 0 ELSE d
InMovements(h, d) == IF Pending(h, MovementStatements) THEN 0 ELSE d
InHeld(h, d)      == IF Pending(h, ReservationStatements) THEN 0 ELSE d

\* The equations of Balanced, corrected by what is done and what is still to do.
Books(h, q, row, entry, held) ==
  /\ row.available - InRow(h, Adds(h, q)) = InitialStock + entry.net - InMovements(h, Adds(h, q))
  /\ row.reserved - InRow(h, Reserves(h, q)) = held - InHeld(h, Reserves(h, q))
  /\ row.sold - InRow(h, Sells(h, q)) = entry.out - InMovements(h, Sells(h, q))

\* The row a request will have written, if it started from row.
Written(h, row, q) == Compute(IF h.op = "sweep" THEN "release" ELSE h.op, row, q)

\* The copy to be written back is no older than the row.
Fresh(h, i, q, row) ==
  Pending(h, RowStatements) =>
    /\ Adds(h, q) = Written(h, row, q).available - row.available
    /\ h.op = "sweep" => h.copy[i] = row
    /\ h.op \notin {"sweep", "edit"} /\ ~Pending(h, {"load"}) => h.copy[i] = Written(h, row, q)
    /\ h.op = "edit" => h.copy[i].sold = row.sold

\* The request settles one reservation of the item, and nobody did so before.
Settles(h, i, q) ==
  \E r \in h.batch :
    /\ reservation[r].item = i
    /\ reservation[r].qty = q
    /\ \A s \in h.batch : reservation[s].item = i => s = r
    /\ Pending(h, ReservationStatements) => reservation[r].status = "ACTIVE"

\* A request for q pieces of an item.
Accounted(h, i, q) ==
  /\ h.op # "sweep" => q = h.qty
  /\ h.op \in Settling => Settles(h, i, q)
  /\ Books(h, q, Unedited(i), ledger[i], Held(i))
  /\ Fresh(h, i, q, item[i])

\* The one request under way on an item.
UnderWay(h, i) ==
  /\ h.todo # << >> /\ Head(h.todo) = "raise" => alerts[i] = {}
  /\ \E q \in Nat : Accounted(h, i, q)

\* What the alerts of an item may be.
Consistent(a) ==
  /\ a \subseteq Alert
  /\ ~({"LOW_STOCK", "OUT_OF_STOCK"} \subseteq a)
  /\ ~({"OUT_OF_STOCK", "OVERSTOCK"} \subseteq a)

\* A request under way, whatever it met.
Orderly(h) ==
  /\ InOrder(h)
  /\ h.op # "sweep" => \E i \in Items : h.items = {i}
  /\ \A r \in h.batch : reservation[r].item \in h.items

\* What holds of an item that is undisturbed.
Kept(i) ==
  /\ \A v, w \in Workers : Works(v, i) /\ Works(w, i) => v = w
  /\ ~InUse(i) => Balanced(i)
  /\ Consistent(alerts[i])
  /\ \A w \in Workers : Works(w, i) => UnderWay(handler[w], i)

BalanceInv ==
  /\ ledger \in [Items -> [net : Int, out : Int]]
  /\ alerts \in [Items -> SUBSET Alert]
  /\ edited \in [Items -> [available : Int, reserved : Int]]
  /\ disturbed \subseteq Items
  /\ \A w \in Workers : Busy(w) => Orderly(handler[w])
  /\ \A i \in Items \ disturbed : Kept(i)

-----------------------------------------------------------------------------
(* Totals of reservations. *)

Total(u, S) == SumFunction([r \in S |-> u[r].qty])

LEMMA TotalSame ==
  ASSUME NEW S, IsFiniteSet(S), NEW u, NEW v, \A r \in S : u[r].qty = v[r].qty
  PROVE  Total(u, S) = Total(v, S)
<1>1. [r \in S |-> u[r].qty] = [r \in S |-> v[r].qty]
  OBVIOUS
<1> QED
  BY <1>1 DEF Total

LEMMA TotalFacts ==
  ASSUME NEW S, IsFiniteSet(S), NEW u, \A r \in S : u[r].qty \in Int
  PROVE  /\ Total(u, S) \in Int
         /\ S = {} => Total(u, S) = 0
         /\ \A r \in S : Total(u, S) = u[r].qty + Total(u, S \ {r})
<1>1. PICK f : f = [r \in S |-> u[r].qty]
  OBVIOUS
<1>2. Total(u, S) = SumFunctionOnSet(f, S)
  BY <1>1 DEF Total, SumFunction
<1>3. \A r \in S : f[r] \in Int /\ f[r] = u[r].qty
  BY <1>1
<1>4. ASSUME NEW r \in S PROVE Total(u, S \ {r}) = SumFunctionOnSet(f, S \ {r})
  <2>1. PICK T : T = S \ {r}
    OBVIOUS
  <2>2. IsFiniteSet(T) /\ T \subseteq S
    BY <2>1, FS_Subset
  <2>3. PICK g : g = [s \in T |-> u[s].qty]
    OBVIOUS
  <2>4. Total(u, T) = SumFunctionOnSet(g, T)
    BY <2>3 DEF Total, SumFunction
  <2>5. \A s \in T : g[s] = f[s]
    BY <1>3, <2>2, <2>3
  <2>6. SumFunctionOnSet(g, T) = SumFunctionOnSet(f, T)
    BY <2>2, <2>5, SumSame
  <2> QED
    BY <2>1, <2>4, <2>6
<1>5. /\ SumFunctionOnSet(f, S) \in Int
      /\ S = {} => SumFunctionOnSet(f, S) = 0
      /\ \A r \in S : SumFunctionOnSet(f, S) = f[r] + SumFunctionOnSet(f, S \ {r})
  BY <1>3, SumFacts
<1> QED
  BY <1>2, <1>3, <1>4, <1>5

\* A set with one element adds up to that element.
LEMMA TotalOne ==
  ASSUME NEW S, NEW u, NEW r \in S, u[r].qty \in Int, \A s \in S : s = r
  PROVE  Total(u, S) = u[r].qty
<1>1. S = {r}
  OBVIOUS
<1>2. IsFiniteSet(S) /\ IsFiniteSet({})
  BY <1>1, FS_Singleton, FS_EmptySet
<1>3. S \ {r} = {} /\ \A s \in S : u[s].qty \in Int
  BY <1>1
<1>4. Total(u, S) = u[r].qty + Total(u, S \ {r})
  BY <1>2, <1>3, TotalFacts
<1>5. \A s \in {} : u[s].qty \in Int
  OBVIOUS
<1>6. Total(u, {}) = 0
  BY <1>2, <1>5, TotalFacts
<1> QED
  BY <1>3, <1>4, <1>6

-----------------------------------------------------------------------------
(* Programs. *)

\* A statement is done: what is pending is what was, without that statement.
LEMMA PendingPop ==
  ASSUME NEW h, h.todo \in Seq(Statement), h.todo # << >>, NEW g, g.todo = Tail(h.todo), NEW A
  PROVE  Pending(h, A) <=> (Head(h.todo) \in A \/ Pending(g, A))
<1>1. PICK t : t = h.todo
  OBVIOUS
<1>2. /\ t \in Seq(Statement) /\ Len(t) \in Nat /\ Len(t) >= 1
      /\ DOMAIN t = 1 .. Len(t) /\ Head(t) = t[1]
  BY <1>1
<1>3. /\ DOMAIN Tail(t) = 1 .. Len(t) - 1
      /\ \A k \in 1 .. Len(t) - 1 : Tail(t)[k] = t[k + 1]
  BY <1>2
<1>4. Pending(h, A) <=> \E k \in 1 .. Len(t) : t[k] \in A
  BY <1>1, <1>2 DEF Pending
<1>5. Pending(g, A) <=> \E k \in 1 .. Len(t) - 1 : t[k + 1] \in A
  BY <1>1, <1>3 DEF Pending
<1>6. ASSUME NEW k \in 1 .. Len(t), t[k] \in A PROVE t[1] \in A \/ \E j \in 1 .. Len(t) - 1 : t[j + 1] \in A
  <2>1. CASE k = 1
    BY <1>6, <2>1
  <2>2. CASE k # 1
    <3>1. k - 1 \in 1 .. Len(t) - 1 /\ (k - 1) + 1 = k
      BY <1>2, <2>2
    <3> QED
      BY <1>6, <3>1
  <2> QED
    BY <2>1, <2>2
<1>7. ASSUME NEW k \in 1 .. Len(t) - 1, t[k + 1] \in A PROVE \E j \in 1 .. Len(t) : t[j] \in A
  <2>1. k + 1 \in 1 .. Len(t)
    BY <1>2
  <2> QED
    BY <1>7, <2>1
<1>8. 1 \in 1 .. Len(t)
  BY <1>2
<1> QED
  BY <1>1, <1>2, <1>4, <1>5, <1>6, <1>7, <1>8

\* The rest of a program is in order, and what was done is not done again.
LEMMA Popped ==
  ASSUME NEW h, h.todo \in Seq(Statement), h.todo # << >>, InOrder(h),
         NEW g, g.todo = Tail(h.todo), g.op = h.op
  PROVE  /\ g.todo \in Seq(Statement)
         /\ InOrder(g)
         /\ Head(h.todo) \in Statement
         /\ Head(h.todo) \in SweepStatements <=> h.op = "sweep"
         /\ Head(h.todo) = "insert" => h.op = "reserve"
         /\ Head(h.todo) \in {"status", "load"} => h.op \in SettleRequests
         /\ Head(h.todo) \in RowStatements => ~Pending(g, RowStatements)
         /\ Head(h.todo) \in MovementStatements => ~Pending(g, MovementStatements)
         /\ Head(h.todo) \in ReservationStatements => ~Pending(g, ReservationStatements)
         /\ Head(h.todo) = "save" => ~Pending(h, {"load"})
         /\ g.todo # << >> /\ Head(g.todo) = "raise" => Head(h.todo) = "resolve"
<1>1. PICK t : t = h.todo
  OBVIOUS
<1>2. /\ t \in Seq(Statement) /\ Len(t) \in Nat /\ Len(t) >= 1
      /\ DOMAIN t = 1 .. Len(t) /\ Head(t) = t[1] /\ 1 \in 1 .. Len(t)
      /\ \A k \in 1 .. Len(t) : t[k] \in Statement
  BY <1>1
<1>3. PICK u : u = g.todo
  OBVIOUS
<1>4. /\ u \in Seq(Statement)
      /\ DOMAIN u = 1 .. Len(t) - 1 /\ Len(u) = Len(t) - 1
      /\ \A k \in 1 .. Len(t) - 1 : k + 1 \in 1 .. Len(t) /\ u[k] = t[k + 1] /\ k + 1 # 1
      /\ u # << >> => 1 \in 1 .. Len(t) - 1 /\ Head(u) = u[1]
  BY <1>1, <1>2, <1>3
<1>5. /\ \A j, k \in 1 .. Len(t) : t[j] = t[k] /\ j # k => t[j] \in {"resolve", "raise"}
      /\ \A j, k \in 1 .. Len(t) : t[j] = "load" /\ t[k] = "save" => j < k
      /\ \A k \in 1 .. Len(t) : t[k] = "raise" /\ k > 1 => t[k-1] = "resolve"
      /\ \A k \in 1 .. Len(t) : t[k] \in SweepStatements <=> h.op = "sweep"
      /\ \A k \in 1 .. Len(t) : t[k] = "insert" => h.op = "reserve"
      /\ \A k \in 1 .. Len(t) : t[k] \in {"status", "load"} => h.op \in SettleRequests
  BY <1>1, <1>2 DEF InOrder
<1>6. InOrder(g)
  <2>1. \A j, k \in 1 .. Len(t) - 1 : u[j] = u[k] /\ j # k => u[j] \in {"resolve", "raise"}
    BY <1>2, <1>4, <1>5
  <2>2. \A j, k \in 1 .. Len(t) - 1 : u[j] = "load" /\ u[k] = "save" => j < k
    BY <1>2, <1>4, <1>5
  <2>3. ASSUME NEW k \in 1 .. Len(t) - 1, u[k] = "raise", k > 1 PROVE u[k-1] = "resolve"
    <3>1. k - 1 \in 1 .. Len(t) - 1 /\ (k - 1) + 1 = k /\ (k + 1) - 1 = k /\ k + 1 > 1
      BY <1>2, <2>3
    <3>2. t[k + 1] = "raise" /\ k + 1 \in 1 .. Len(t)
      BY <1>4, <2>3
    <3>3. t[k] = "resolve"
      BY <1>5, <3>1, <3>2
    <3>4. u[k - 1] = t[k]
      BY <1>4, <3>1
    <3> QED
      BY <3>3, <3>4
  <2>4. /\ \A k \in 1 .. Len(t) - 1 : u[k] \in SweepStatements <=> h.op = "sweep"
        /\ \A k \in 1 .. Len(t) - 1 : u[k] = "insert" => h.op = "reserve"
        /\ \A k \in 1 .. Len(t) - 1 : u[k] \in {"status", "load"} => h.op \in SettleRequests
    BY <1>4, <1>5
  <2> QED
    BY <1>3, <1>4, <2>1, <2>2, <2>3, <2>4 DEF InOrder
<1>7. \A k \in 1 .. Len(t) - 1 : u[k] = t[1] => t[1] \in {"resolve", "raise"}
  BY <1>2, <1>4, <1>5
<1>8. \A k \in 1 .. Len(t) : t[k] = "insert" => t[1] \notin {"status", "expire"}
  BY <1>2, <1>5 DEF SweepStatements, SettleRequests
<1>9. \A k \in 1 .. Len(t) : t[k] \in {"status", "expire"} => t[1] # "insert"
  BY <1>2, <1>5 DEF SweepStatements, SettleRequests
<1>10. \A k \in 1 .. Len(t) : t[k] = "status" <=> (t[k] = "status" /\ t[1] # "expire")
  BY <1>2, <1>5 DEF SweepStatements, SettleRequests
<1>11. \A k \in 1 .. Len(t) : t[k] = "expire" => t[1] # "status"
  BY <1>2, <1>5 DEF SweepStatements, SettleRequests
<1>12. \A k \in 1 .. Len(t) : (t[k] \in SweepStatements) <=> (t[1] \in SweepStatements)
  BY <1>2, <1>5
<1>13. t[1] \in RowStatements => \A k \in 1 .. Len(t) - 1 : u[k] \notin RowStatements
  BY <1>4, <1>7, <1>12 DEF RowStatements, SweepStatements
<1>14. t[1] \in MovementStatements => \A k \in 1 .. Len(t) - 1 : u[k] \notin MovementStatements
  BY <1>4, <1>7, <1>12 DEF MovementStatements, SweepStatements
<1>15. t[1] \in ReservationStatements => \A k \in 1 .. Len(t) - 1 : u[k] \notin ReservationStatements
  BY <1>4, <1>7, <1>8, <1>9, <1>10, <1>11 DEF ReservationStatements
<1>16. t[1] = "save" => \A k \in 1 .. Len(t) : t[k] # "load"
  <2> SUFFICES ASSUME t[1] = "save", NEW k \in 1 .. Len(t), t[k] = "load" PROVE FALSE
    OBVIOUS
  <2>1. k < 1
    BY <1>2, <1>5
  <2> QED
    BY <2>1
<1>17. u # << >> /\ u[1] = "raise" => t[1] = "resolve"
  <2> SUFFICES ASSUME u # << >>, u[1] = "raise" PROVE t[1] = "resolve"
    OBVIOUS
  <2>1. 2 \in 1 .. Len(t) /\ t[2] = "raise" /\ 2 > 1 /\ 2 - 1 = 1
    BY <1>4
  <2> QED
    BY <1>5, <2>1
<1>18. \A A : Pending(g, A) <=> \E k \in 1 .. Len(t) - 1 : u[k] \in A
  BY <1>3, <1>4 DEF Pending
<1>19. \A A : Pending(h, A) <=> \E k \in 1 .. Len(t) : t[k] \in A
  BY <1>1, <1>2 DEF Pending
<1>20. /\ Head(h.todo) = t[1]
       /\ g.todo = u /\ (u # << >> => Head(g.todo) = u[1])
  BY <1>1, <1>2, <1>3, <1>4
<1>21. /\ Head(h.todo) \in RowStatements => ~Pending(g, RowStatements)
       /\ Head(h.todo) \in MovementStatements => ~Pending(g, MovementStatements)
       /\ Head(h.todo) \in ReservationStatements => ~Pending(g, ReservationStatements)
  BY <1>13, <1>14, <1>15, <1>18, <1>20
<1>22. Head(h.todo) = "save" => ~Pending(h, {"load"})
  BY <1>16, <1>19, <1>20
<1>23. /\ Head(h.todo) \in Statement
       /\ Head(h.todo) \in SweepStatements <=> h.op = "sweep"
       /\ Head(h.todo) = "insert" => h.op = "reserve"
       /\ Head(h.todo) \in {"status", "load"} => h.op \in SettleRequests
  BY <1>2, <1>5, <1>20
<1> QED
  BY <1>3, <1>4, <1>6, <1>17, <1>20, <1>21, <1>22, <1>23

-----------------------------------------------------------------------------
(* Rows. *)

\* The statement that writes the row back writes every column it computed.
LEMMA OverwriteCompute ==
  ASSUME NEW op \in RequestKinds \ {"sweep"}, NEW row \in Stock, NEW q \in Nat
  PROVE  LET new == Compute(op, row, q) IN
         /\ Overwrite(row, new, Columns(op)) = new
         /\ new.available \in Int
         /\ new.reserved = row.reserved +
              CASE op = "reserve" -> q [] op \in SettleRequests -> -q [] OTHER -> 0
         /\ new.sold = row.sold + IF op \in {"decrease", "confirm"} THEN q ELSE 0
         /\ op = "release" => new.available = row.available + q
         /\ op \in {"confirm", "edit"} => new.available = row.available
<1>1. PICK a, r, s : a = row.available /\ r = row.reserved /\ s = row.sold
  OBVIOUS
<1>2. a \in Nat /\ r \in Int /\ s \in Int /\ row = [available |-> a, reserved |-> r, sold |-> s]
  BY <1>1 DEF Stock
<1>3. PICK m : m = Max({0, a - q})
  OBVIOUS
<1>4. m \in Nat
  BY <1>2, <1>3, MaxNat
<1>5. PICK new : new = Compute(op, row, q)
  OBVIOUS
<1>6. ASSUME NEW x, NEW y, NEW z, NEW columns, new = [available |-> x, reserved |-> y, sold |-> z],
             \/ columns = {"available"} /\ y = r /\ z = s
             \/ columns = {"available", "sold"} /\ y = r
             \/ columns = {"available", "reserved"} /\ z = s
             \/ columns = {"reserved", "sold"} /\ x = a
             \/ columns = {"available", "reserved", "sold"}
      PROVE  Overwrite(row, new, columns) = new
  <2>1. Overwrite(row, new, columns)
          = [c \in {"available", "reserved", "sold"} |-> IF c \in columns THEN new[c] ELSE row[c]]
    BY <1>2 DEF Overwrite
  <2>2. new = [c \in {"available", "reserved", "sold"} |->
                 CASE c = "available" -> x [] c = "reserved" -> y [] c = "sold" -> z]
    BY <1>6
  <2>3. /\ new["available"] = x /\ new["reserved"] = y /\ new["sold"] = z
        /\ row["available"] = a /\ row["reserved"] = r /\ row["sold"] = s
    BY <1>2, <1>6
  <2>4. \A c \in {"available", "reserved", "sold"} :
          (IF c \in columns THEN new[c] ELSE row[c]) = new[c]
    BY <1>6, <2>3
  <2>5. new = [c \in {"available", "reserved", "sold"} |-> new[c]]
    BY <2>2
  <2> QED
    BY <2>1, <2>4, <2>5
<1>7. CASE op = "increase"
  <2>1. new = [available |-> a + q, reserved |-> r, sold |-> s]
    BY <1>2, <1>5, <1>7 DEF Compute
  <2>2. Columns(op) = {"available"}
    BY <1>7 DEF Columns
  <2> QED
    BY <1>2, <1>5, <1>6, <1>7, <2>1, <2>2 DEF SettleRequests
<1>8. CASE op = "decrease"
  <2>1. new = [available |-> m, reserved |-> r, sold |-> s + q]
    BY <1>2, <1>3, <1>5, <1>8 DEF Compute
  <2>2. Columns(op) = {"available", "sold"}
    BY <1>8 DEF Columns
  <2> QED
    BY <1>2, <1>4, <1>5, <1>6, <1>8, <2>1, <2>2 DEF SettleRequests
<1>9. CASE op \in {"set", "bulk"}
  <2>1. new = [available |-> q, reserved |-> r, sold |-> s]
    BY <1>2, <1>5, <1>9 DEF Compute
  <2>2. Columns(op) = {"available"}
    BY <1>9 DEF Columns
  <2> QED
    BY <1>2, <1>5, <1>6, <1>9, <2>1, <2>2 DEF SettleRequests
<1>10. CASE op = "reserve"
  <2>1. new = [available |-> a - q, reserved |-> r + q, sold |-> s]
    BY <1>2, <1>5, <1>10 DEF Compute
  <2>2. Columns(op) = {"available", "reserved"}
    BY <1>10 DEF Columns
  <2> QED
    BY <1>2, <1>5, <1>6, <1>10, <2>1, <2>2 DEF SettleRequests
<1>11. CASE op = "confirm"
  <2>1. new = [available |-> a, reserved |-> r - q, sold |-> s + q]
    BY <1>2, <1>5, <1>11 DEF Compute
  <2>2. Columns(op) = {"reserved", "sold"}
    BY <1>11 DEF Columns
  <2> QED
    BY <1>2, <1>5, <1>6, <1>11, <2>1, <2>2 DEF SettleRequests
<1>12. CASE op = "release"
  <2>1. new = [available |-> a + q, reserved |-> r - q, sold |-> s]
    BY <1>2, <1>5, <1>12 DEF Compute
  <2>2. Columns(op) = {"available", "reserved"}
    BY <1>12 DEF Columns
  <2> QED
    BY <1>2, <1>5, <1>6, <1>12, <2>1, <2>2 DEF SettleRequests
<1>13. CASE op = "edit"
  <2>1. new = [available |-> a, reserved |-> r, sold |-> s]
    BY <1>2, <1>5, <1>13 DEF Compute
  <2>2. Columns(op) = {"available", "reserved", "sold"}
    BY <1>13 DEF Columns
  <2> QED
    BY <1>2, <1>5, <1>6, <1>13, <2>1, <2>2 DEF SettleRequests
<1> QED
  BY <1>7, <1>8, <1>9, <1>10, <1>11, <1>12, <1>13 DEF RequestKinds, StockRequests, SettleRequests

\* No copy raises two alerts that contradict one another.
LEMMA RaisesConsistent ==
  ASSUME NEW row \in Stock
  PROVE  Consistent({} \union AlertsFor(row))
BY InventoryConstants DEF Consistent, AlertsFor, Alert, Stock

-----------------------------------------------------------------------------
(* Reservations. *)

\* The reservations of the item stay as they are, but for their due dates.
Untouched(i) ==
  \A r \in Reservations :
    (Exists(r) /\ reservation[r].item = i) \/ (Exists(r)' /\ reservation'[r].item = i) =>
      /\ Exists(r) /\ Exists(r)'
      /\ reservation'[r].item = reservation[r].item
      /\ reservation'[r].qty = reservation[r].qty
      /\ reservation'[r].status = reservation[r].status

LEMMA HoldingFinite ==
  ASSUME IInv, NEW i
  PROVE  /\ IsFiniteSet(Holding(i))
         /\ \A r \in Holding(i) : reservation[r].qty \in Int
         /\ Held(i) = Total(reservation, Holding(i))
         /\ Held(i) \in Int
<1>1. Holding(i) \subseteq Reservations
  BY DEF Holding
<1>2. IsFiniteSet(Holding(i))
  BY <1>1, FS_Subset, InventoryConstants
<1>3. \A r \in Holding(i) : reservation[r].qty \in Int
  BY DEF IInv, Holding, Exists, Reservation
<1>4. Held(i) = Total(reservation, Holding(i))
  BY DEF Held, Total
<1>5. PICK S, u : S = Holding(i) /\ u = reservation
  OBVIOUS
<1>6. Total(u, S) \in Int
  BY <1>2, <1>3, <1>5, TotalFacts
<1> QED
  BY <1>2, <1>3, <1>4, <1>5, <1>6

HeldTyped == \A i \in Items : Held(i) \in Int

LEMMA HeldInt == IInv => HeldTyped
BY HoldingFinite DEF HeldTyped

LEMMA HeldIntNext == IInv' => HeldTyped'
BY HeldInt, PTL

LEMMA UntouchedHeld ==
  ASSUME IInv, NEW i, Untouched(i)
  PROVE  Held(i)' = Held(i)
<1>1. PICK S, u, v : S = Holding(i) /\ u = reservation /\ v = reservation'
  OBVIOUS
<1>2. Holding(i)' = S
  BY <1>1 DEF Holding, Untouched
<1>3. \A r \in S : u[r].qty = v[r].qty
  BY <1>1 DEF Holding, Untouched
<1>4. IsFiniteSet(S) /\ Held(i) = Total(u, S)
  BY <1>1, HoldingFinite
<1>5. Total(u, S) = Total(v, S)
  BY <1>3, <1>4, TotalSame
<1>6. Held(i)' = Total(v, S)
  BY <1>1, <1>2 DEF Held, Total
<1> QED
  BY <1>4, <1>5, <1>6

LEMMA UntouchedSettles ==
  ASSUME NEW i, NEW q, Untouched(i), NEW h, h.batch \subseteq Reservations,
         \A r \in h.batch : Exists(r) /\ Exists(r)', Settles(h, i, q)
  PROVE  Settles(h, i, q)'
<1>1. PICK r \in h.batch :
        /\ reservation[r].item = i
        /\ reservation[r].qty = q
        /\ \A s \in h.batch : reservation[s].item = i => s = r
        /\ Pending(h, ReservationStatements) => reservation[r].status = "ACTIVE"
  BY DEF Settles
<1>2. /\ reservation'[r].item = i
      /\ reservation'[r].qty = q
      /\ reservation'[r].status = reservation[r].status
  BY <1>1 DEF Untouched
<1>3. \A s \in h.batch : reservation'[s].item = i => s = r
  BY <1>1 DEF Untouched
<1> QED
  BY <1>1, <1>2, <1>3 DEF Settles, Pending

\* One reservation less, and one more.
LEMMA HeldLess ==
  ASSUME IInv, NEW i, NEW r \in Holding(i), Holding(i)' = Holding(i) \ {r},
         \A s \in Holding(i) : reservation'[s].qty = reservation[s].qty
  PROVE  Held(i)' = Held(i) - reservation[r].qty
<1>1. PICK S, T, u, v : S = Holding(i) /\ T = S \ {r} /\ u = reservation /\ v = reservation'
  OBVIOUS
<1>2. /\ IsFiniteSet(S) /\ Held(i) = Total(u, S) /\ \A s \in S : u[s].qty \in Int
      /\ r \in S
  BY <1>1, HoldingFinite
<1>3. IsFiniteSet(T) /\ T \subseteq S
  BY <1>1, <1>2, FS_Subset
<1>4. Held(i)' = Total(v, T)
  BY <1>1 DEF Held, Total
<1>5. \A s \in T : v[s].qty = u[s].qty
  BY <1>1
<1>6. Total(v, T) = Total(u, T)
  BY <1>3, <1>5, TotalSame
<1>7. Total(u, S) = u[r].qty + Total(u, S \ {r})
  BY <1>2, TotalFacts
<1>8. \A s \in T : u[s].qty \in Int
  BY <1>2, <1>3
<1>9. Total(u, T) \in Int
  BY <1>3, <1>8, TotalFacts
<1>10. u[r].qty \in Int
  BY <1>2
<1> QED
  BY <1>1, <1>2, <1>4, <1>6, <1>7, <1>9, <1>10

LEMMA HeldMore ==
  ASSUME IInv, NEW i, NEW r, r \notin Holding(i), Holding(i)' = Holding(i) \union {r},
         \A s \in Holding(i) : reservation'[s].qty = reservation[s].qty,
         reservation'[r].qty \in Int
  PROVE  Held(i)' = Held(i) + reservation'[r].qty
<1>1. PICK S, T, u, v : S = Holding(i) /\ T = S \union {r} /\ u = reservation /\ v = reservation'
  OBVIOUS
<1>2. /\ IsFiniteSet(S) /\ Held(i) = Total(u, S) /\ \A s \in S : u[s].qty \in Int
      /\ r \notin S
  BY <1>1, HoldingFinite
<1>3. IsFiniteSet(T) /\ r \in T /\ T \ {r} = S
  BY <1>1, <1>2, FS_AddElement
<1>4. Held(i)' = Total(v, T)
  BY <1>1 DEF Held, Total
<1>5. /\ \A s \in S : v[s].qty = u[s].qty
      /\ \A s \in T : v[s].qty \in Int
  BY <1>1, <1>2
<1>6. Total(v, S) = Total(u, S)
  BY <1>2, <1>5, TotalSame
<1>7. Total(v, T) = v[r].qty + Total(v, T \ {r})
  BY <1>3, <1>5, TotalFacts
<1>8. Total(u, S) \in Int
  BY <1>2, TotalFacts
<1>9. v[r].qty \in Int
  BY <1>1
<1>10. Held(i)' = v[r].qty + Total(u, S)
  BY <1>3, <1>4, <1>6, <1>7
<1> QED
  BY <1>1, <1>2, <1>8, <1>9, <1>10

-----------------------------------------------------------------------------
(* What a statement does to the items it does not work on, and to the rest. *)

\* Nothing that the books of the item are about has changed.
Unseen(i) ==
  /\ item'[i] = item[i]
  /\ edited'[i] = edited[i]
  /\ ledger'[i] = ledger[i]
  /\ alerts'[i] = alerts[i]
  /\ Untouched(i)

LEMMA UnseenBalanced ==
  ASSUME IInv, NEW i, Unseen(i), Balanced(i)
  PROVE  Balanced(i)'
<1>1. Held(i)' = Held(i)
  BY UntouchedHeld DEF Unseen
<1> QED
  BY <1>1 DEF Unseen, Balanced, Unedited

LEMMA UnseenUnderWay ==
  ASSUME IInv, NEW i, Unseen(i), NEW h, h.batch \subseteq Reservations,
         \A r \in h.batch : Exists(r) /\ Exists(r)', UnderWay(h, i)
  PROVE  UnderWay(h, i)'
<1>1. PICK q \in Nat : Accounted(h, i, q)
  BY DEF UnderWay
<1>2. /\ Held(i)' = Held(i) /\ item'[i] = item[i] /\ ledger'[i] = ledger[i] /\ alerts'[i] = alerts[i]
      /\ Unedited(i)' = Unedited(i)
  BY UntouchedHeld DEF Unseen, Unedited
<1>3. h.op \in Settling => Settles(h, i, q)'
  BY <1>1, UntouchedSettles DEF Accounted, Unseen
<1>4. Books(h, q, Unedited(i)', ledger'[i], Held(i)') /\ Fresh(h, i, q, item'[i])
  BY <1>1, <1>2 DEF Accounted
<1>5. Accounted(h, i, q)'
  BY <1>1, <1>3, <1>4 DEF Accounted, Books, Fresh
<1> QED
  BY <1>1, <1>2, <1>5 DEF UnderWay

\* Reservations never change their item, nor vanish.
SameItems ==
  \A r \in Reservations : Exists(r) => Exists(r)' /\ reservation'[r].item = reservation[r].item

\* What the invariant of rows says of handlers.
LEMMA HandlerFacts ==
  ASSUME IInv, NEW w \in Workers
  PROVE  /\ handler[w].op \in RequestKinds
         /\ handler[w].todo \in Seq(Statement)
         /\ handler[w].items \subseteq Items
         /\ handler[w].batch \subseteq Reservations
         /\ handler[w].copy \in [Items -> Stock]
         /\ handler[w].qty \in Nat
         /\ handler[w].net \in Int
         /\ \A r \in handler[w].batch : Exists(r)
BY DEF IInv, SafeHandler

\* The same request, one statement further.
Further(h, g) ==
  /\ g.todo = Tail(h.todo)
  /\ g.op = h.op
  /\ g.items = h.items
  /\ g.batch = h.batch
  /\ g.qty = h.qty
  /\ g.net = h.net

\* Worker w is left with what remains of its request, if anything does.
Continues(w, g) ==
  /\ handler' \in [Workers -> SafeHandler]
  /\ \A v \in Workers : v # w => handler'[v] = handler[v]
  /\ g.todo # << >> => handler'[w] = g
  /\ g.todo = << >> => handler'[w].todo = << >>

\* A program that has come to its end leaves the item in balance.
LEMMA EndBalanced ==
  ASSUME NEW h, h.todo = << >>, h.net \in Int, NEW q \in Nat,
         NEW row \in Row, NEW entry \in [net : Int, out : Int], NEW held \in Int,
         Books(h, q, row, entry, held)
  PROVE  /\ row.available = InitialStock + entry.net
         /\ row.reserved = held
         /\ row.sold = entry.out
<1>1. \A A : ~Pending(h, A)
  BY DEF Pending
<1>2. PICK d, e, f : d = Adds(h, q) /\ e = Reserves(h, q) /\ f = Sells(h, q)
  OBVIOUS
<1>3. d \in Int /\ e \in Int /\ f \in Int
  BY <1>2 DEF Adds, Reserves, Sells
<1>4. /\ row.available \in Int /\ row.reserved \in Int /\ row.sold \in Int
      /\ entry.net \in Int /\ entry.out \in Int /\ InitialStock \in Int
  BY InventoryConstants DEF Row
<1>5. /\ row.available - d = InitialStock + entry.net - d
      /\ row.reserved - e = held - e
      /\ row.sold - f = entry.out - f
  BY <1>1, <1>2 DEF Books, InRow, InMovements, InHeld
<1>6. \A x, y, z \in Int : x - z = y - z => x = y
  OBVIOUS
<1>7. InitialStock + entry.net \in Int
  BY <1>4
<1> QED
  BY <1>3, <1>4, <1>5, <1>6, <1>7

\* A row without its edits is a row.
LEMMA UneditedRow ==
  ASSUME IInv, BalanceInv, NEW i \in Items
  PROVE  Unedited(i) \in Row
<1>1. /\ item[i].available \in Int /\ item[i].reserved \in Int /\ item[i].sold \in Int
      /\ edited[i].available \in Int /\ edited[i].reserved \in Int
  BY DEF IInv, BalanceInv, Stock
<1> QED
  BY <1>1 DEF Unedited, Row

LEMMA UneditedNext ==
  ASSUME IInv', edited' \in [Items -> [available : Int, reserved : Int]], NEW i \in Items
  PROVE  Unedited(i)' \in Row
<1>1. /\ item'[i].available \in Int /\ item'[i].reserved \in Int /\ item'[i].sold \in Int
      /\ edited'[i].available \in Int /\ edited'[i].reserved \in Int
  BY DEF IInv, Stock
<1> QED
  BY <1>1 DEF Unedited, Row

LEMMA SameRow ==
  ASSUME NEW i, item'[i] = item[i], edited'[i] = edited[i]
  PROVE  Unedited(i)' = Unedited(i)
BY DEF Unedited

LEMMA Stepped ==
  ASSUME IInv, IInv', BalanceInv, NEW w \in Workers, Busy(w),
         NEW g, Further(handler[w], g), Continues(w, g), disturbed' = disturbed,
         ledger' \in [Items -> [net : Int, out : Int]], alerts' \in [Items -> SUBSET Alert],
         edited' \in [Items -> [available : Int, reserved : Int]],
         SameItems,
         \A i \in Items \ disturbed : i \notin handler[w].items => Unseen(i),
         \A i \in Items \ disturbed : i \in handler[w].items => Consistent(alerts'[i]) /\ UnderWay(g, i)'
  PROVE  BalanceInv'
<1>1. \A v \in Workers : Busy(v) => Orderly(handler[v])
  BY DEF BalanceInv
<1>2. PICK h : h = handler[w]
  OBVIOUS
<1>3. h.todo \in Seq(Statement) /\ h.todo # << >> /\ InOrder(h)
  BY <1>1, <1>2, HandlerFacts DEF Busy, Orderly
<1>4. g.todo \in Seq(Statement) /\ InOrder(g) /\ g.op = h.op /\ g.todo = Tail(h.todo)
  BY <1>2, <1>3, Popped DEF Further
<1>5. ASSUME NEW v \in Workers, Busy(v)'
      PROVE  Busy(v) /\ handler'[v].items = handler[v].items
                /\ (v # w => handler'[v] = handler[v]) /\ (v = w => handler'[v] = g)
  BY <1>5 DEF Busy, Continues, Further
<1>6. ASSUME NEW v \in Workers, Busy(v)' PROVE Orderly(handler[v])'
  <2>1. Busy(v) /\ Orderly(handler[v]) /\ handler'[v].items = handler[v].items
    BY <1>1, <1>5, <1>6
  <2>2. handler'[v].batch = handler[v].batch /\ handler'[v].op = handler[v].op /\ InOrder(handler'[v])
    BY <1>2, <1>4, <1>5, <1>6, <2>1 DEF Orderly, Further
  <2>3. \A r \in handler[v].batch : r \in Reservations /\ Exists(r)
    BY HandlerFacts
  <2>4. \A r \in handler'[v].batch : reservation'[r].item \in handler'[v].items
    BY <2>1, <2>2, <2>3 DEF SameItems, Orderly
  <2> QED
    BY <2>1, <2>2, <2>4 DEF Orderly, InOrder
<1>7. ASSUME NEW i \in Items \ disturbed PROVE Kept(i)'
  <2>1. Kept(i)
    BY <1>7 DEF BalanceInv
  <2>2. \A v \in Workers : Works(v, i)' => Works(v, i)
    BY <1>5 DEF Works
  <2>3. \A v, x \in Workers : Works(v, i)' /\ Works(x, i)' => v = x
    BY <2>1, <2>2 DEF Kept
  <2>4. CASE i \in h.items
    <3>1. Works(w, i) /\ Consistent(alerts'[i]) /\ UnderWay(g, i)'
      BY <1>2, <1>7, <2>4 DEF Works
    <3>2. \A v \in Workers : Works(v, i) => v = w
      BY <2>1, <3>1 DEF Kept
    <3>3. ASSUME NEW v \in Workers, Works(v, i)' PROVE UnderWay(handler[v], i)'
      <4>1. v = w /\ handler'[w] = g
        BY <1>5, <2>2, <3>2, <3>3 DEF Works
      <4> QED
        BY <3>1, <4>1 DEF UnderWay, Accounted, Books, Fresh, Settles
    <3>4. ASSUME ~InUse(i)' PROVE Balanced(i)'
      <4>1. ~Works(w, i)'
        BY <3>4 DEF InUse, Works
      <4>2. g.todo = << >>
        BY <1>2, <2>4, <4>1 DEF Works, Busy, Continues, Further
      <4>3. PICK q \in Nat : Accounted(g, i, q)'
        BY <3>1 DEF UnderWay
      <4>4. PICK row, entry, held : row = Unedited(i)' /\ entry = ledger'[i] /\ held = Held(i)'
        OBVIOUS
      <4>5. row \in Row /\ entry \in [net : Int, out : Int]
        BY <1>7, <4>4, UneditedNext DEF IInv
      <4>6. held \in Int
        BY <1>7, <4>4, HeldIntNext DEF HeldTyped
      <4>7. Books(g, q, row, entry, held)
        BY <4>3, <4>4 DEF Accounted, Books
      <4>8. g.net \in Int
        BY HandlerFacts DEF Further
      <4>9. row.available = InitialStock + entry.net /\ row.reserved = held /\ row.sold = entry.out
        BY <4>2, <4>5, <4>6, <4>7, <4>8, EndBalanced
      <4> QED
        BY <4>4, <4>9 DEF Balanced
    <3> QED
      BY <2>3, <3>1, <3>3, <3>4 DEF Kept
  <2>5. CASE i \notin h.items
    <3>1. Unseen(i)
      BY <1>2, <1>7, <2>5
    <3>2. ASSUME NEW v \in Workers, Works(v, i)' PROVE UnderWay(handler[v], i)'
      <4>1. Works(v, i) /\ v # w /\ handler'[v] = handler[v]
        BY <1>2, <1>5, <2>2, <2>5, <3>2 DEF Works
      <4>2. PICK f : f = handler[v]
        OBVIOUS
      <4>3. UnderWay(f, i)
        BY <2>1, <4>1, <4>2 DEF Kept
      <4>4. f.batch \subseteq Reservations /\ \A r \in f.batch : Exists(r) /\ Exists(r)'
        BY <4>2, HandlerFacts DEF SameItems
      <4>5. UnderWay(f, i)'
        BY <3>1, <4>3, <4>4, UnseenUnderWay
      <4> QED
        BY <4>1, <4>2, <4>5 DEF UnderWay, Accounted, Books, Fresh, Settles
    <3>3. ASSUME ~InUse(i)' PROVE Balanced(i)'
      <4>1. ~InUse(i)
        <5>1. ASSUME NEW v \in Workers, Busy(v), i \in handler[v].items PROVE FALSE
          <6>1. v # w /\ handler'[v] = handler[v]
            BY <1>2, <2>5, <5>1 DEF Continues
          <6> QED
            BY <3>3, <5>1, <6>1 DEF InUse, Busy
        <5> QED
          BY <5>1 DEF InUse
      <4> QED
        BY <2>1, <3>1, <4>1, UnseenBalanced DEF Kept
    <3>4. Consistent(alerts[i])'
      BY <2>1, <3>1 DEF Kept, Unseen, Consistent
    <3> QED
      BY <2>3, <3>2, <3>3, <3>4 DEF Kept
  <2> QED
    BY <2>4, <2>5
<1> QED
  BY <1>6, <1>7 DEF BalanceInv

-----------------------------------------------------------------------------
(* What a statement does to the item it works on. *)

\* Each kind of statement adds its share, once.
LEMMA BooksStep ==
  ASSUME NEW h, h.todo \in Seq(Statement), h.todo # << >>, InOrder(h), h.net \in Int,
         NEW g, Further(h, g), NEW q \in Nat,
         NEW row \in Row, NEW entry \in [net : Int, out : Int], NEW held \in Int,
         NEW row2 \in Row, NEW entry2 \in [net : Int, out : Int], NEW held2 \in Int,
         Books(h, q, row, entry, held),
         IF Head(h.todo) \in RowStatements
           THEN /\ row2.available = row.available + Adds(h, q)
                /\ row2.reserved = row.reserved + Reserves(h, q)
                /\ row2.sold = row.sold + Sells(h, q)
           ELSE row2 = row,
         IF Head(h.todo) \in MovementStatements
           THEN /\ entry2.net = entry.net + Adds(h, q)
                /\ entry2.out = entry.out + Sells(h, q)
           ELSE entry2 = entry,
         IF Head(h.todo) \in ReservationStatements
           THEN held2 = held + Reserves(h, q)
           ELSE held2 = held
  PROVE  Books(g, q, row2, entry2, held2)
<1>1. PICK s : s = Head(h.todo)
  OBVIOUS
<1>2. PICK d, e, f : d = Adds(h, q) /\ e = Reserves(h, q) /\ f = Sells(h, q)
  OBVIOUS
<1>3. d \in Int /\ e \in Int /\ f \in Int
  BY <1>2 DEF Adds, Reserves, Sells
<1>4. Adds(g, q) = d /\ Reserves(g, q) = e /\ Sells(g, q) = f
  BY <1>2 DEF Further, Adds, Reserves, Sells
<1>5. PICK a, b, c, a2, b2, c2, n, o, n2, o2 :
        /\ a = row.available /\ b = row.reserved /\ c = row.sold
        /\ a2 = row2.available /\ b2 = row2.reserved /\ c2 = row2.sold
        /\ n = entry.net /\ o = entry.out /\ n2 = entry2.net /\ o2 = entry2.out
  OBVIOUS
<1>6. /\ a \in Int /\ b \in Int /\ c \in Int /\ a2 \in Int /\ b2 \in Int /\ c2 \in Int
      /\ n \in Int /\ o \in Int /\ n2 \in Int /\ o2 \in Int /\ InitialStock \in Int
  BY <1>5, InventoryConstants DEF Row
<1>7. /\ g.todo = Tail(h.todo)
      /\ s \in RowStatements => ~Pending(g, RowStatements)
      /\ s \in MovementStatements => ~Pending(g, MovementStatements)
      /\ s \in ReservationStatements => ~Pending(g, ReservationStatements)
  BY <1>1, Popped DEF Further
<1>8. /\ Pending(h, RowStatements) <=> (s \in RowStatements \/ Pending(g, RowStatements))
      /\ Pending(h, MovementStatements) <=> (s \in MovementStatements \/ Pending(g, MovementStatements))
      /\ Pending(h, ReservationStatements) <=> (s \in ReservationStatements \/ Pending(g, ReservationStatements))
  BY <1>1, <1>7, PendingPop
<1>9. /\ a - InRow(h, d) = InitialStock + n - InMovements(h, d)
      /\ b - InRow(h, e) = held - InHeld(h, e)
      /\ c - InRow(h, f) = o - InMovements(h, f)
  BY <1>2, <1>5 DEF Books
<1>10. ASSUME NEW x \in {d, e, f}
       PROVE  /\ InRow(h, x) \in Int /\ InMovements(h, x) \in Int /\ InHeld(h, x) \in Int
              /\ InRow(g, x) = IF s \in RowStatements THEN InRow(h, x) + x ELSE InRow(h, x)
              /\ InMovements(g, x) = IF s \in MovementStatements THEN InMovements(h, x) + x ELSE InMovements(h, x)
              /\ InHeld(g, x) = IF s \in ReservationStatements THEN InHeld(h, x) + x ELSE InHeld(h, x)
  <2>1. x \in Int
    BY <1>3
  <2> QED
    BY <1>7, <1>8, <2>1 DEF InRow, InMovements, InHeld
<1>11. /\ IF s \in RowStatements THEN a2 = a + d /\ b2 = b + e /\ c2 = c + f
                                 ELSE a2 = a /\ b2 = b /\ c2 = c
       /\ IF s \in MovementStatements THEN n2 = n + d /\ o2 = o + f ELSE n2 = n /\ o2 = o
       /\ IF s \in ReservationStatements THEN held2 = held + e ELSE held2 = held
  BY <1>1, <1>2, <1>5
<1>12. a2 - InRow(g, d) = InitialStock + n2 - InMovements(g, d)
  <2>1. PICK x, y, x2, y2 : x = InRow(h, d) /\ y = InMovements(h, d) /\ x2 = InRow(g, d) /\ y2 = InMovements(g, d)
    OBVIOUS
  <2>2. /\ x \in Int /\ y \in Int /\ a - x = InitialStock + n - y
        /\ x2 = IF s \in RowStatements THEN x + d ELSE x
        /\ y2 = IF s \in MovementStatements THEN y + d ELSE y
    BY <1>9, <1>10, <2>1
  <2>3. a2 - x2 = a - x
    BY <1>3, <1>6, <1>11, <2>2
  <2>4. InitialStock + n2 - y2 = InitialStock + n - y
    BY <1>3, <1>6, <1>11, <2>2
  <2> QED
    BY <2>1, <2>2, <2>3, <2>4
<1>13. b2 - InRow(g, e) = held2 - InHeld(g, e)
  <2>1. PICK x, y, x2, y2 : x = InRow(h, e) /\ y = InHeld(h, e) /\ x2 = InRow(g, e) /\ y2 = InHeld(g, e)
    OBVIOUS
  <2>2. /\ x \in Int /\ y \in Int /\ b - x = held - y
        /\ x2 = IF s \in RowStatements THEN x + e ELSE x
        /\ y2 = IF s \in ReservationStatements THEN y + e ELSE y
    BY <1>9, <1>10, <2>1
  <2>3. b2 - x2 = b - x
    BY <1>3, <1>6, <1>11, <2>2
  <2>4. held2 - y2 = held - y
    BY <1>3, <1>6, <1>11, <2>2
  <2> QED
    BY <2>1, <2>2, <2>3, <2>4
<1>14. c2 - InRow(g, f) = o2 - InMovements(g, f)
  <2>1. PICK x, y, x2, y2 : x = InRow(h, f) /\ y = InMovements(h, f) /\ x2 = InRow(g, f) /\ y2 = InMovements(g, f)
    OBVIOUS
  <2>2. /\ x \in Int /\ y \in Int /\ c - x = o - y
        /\ x2 = IF s \in RowStatements THEN x + f ELSE x
        /\ y2 = IF s \in MovementStatements THEN y + f ELSE y
    BY <1>9, <1>10, <2>1
  <2>3. c2 - x2 = c - x
    BY <1>3, <1>6, <1>11, <2>2
  <2>4. o2 - y2 = o - y
    BY <1>3, <1>6, <1>11, <2>2
  <2> QED
    BY <2>1, <2>2, <2>3, <2>4
<1> QED
  BY <1>4, <1>5, <1>12, <1>13, <1>14 DEF Books

\* Once the row is written back nothing has to be fresh; until then the copy
\* stays what it was, and so does the row.
LEMMA FreshStep ==
  ASSUME NEW h, h.todo \in Seq(Statement), h.todo # << >>, InOrder(h),
         NEW g, Further(h, g), NEW i, NEW q, NEW row, Fresh(h, i, q, row), NEW row2,
         \/ Head(h.todo) \in RowStatements
         \/ Head(h.todo) # "load" /\ g.copy = h.copy /\ row2 = row
  PROVE  Fresh(g, i, q, row2)
<1>1. g.todo = Tail(h.todo) /\ g.op = h.op /\ (Head(h.todo) \in RowStatements => ~Pending(g, RowStatements))
  BY Popped DEF Further
<1>2. CASE Head(h.todo) \in RowStatements
  BY <1>1, <1>2 DEF Fresh
<1>3. CASE Head(h.todo) # "load" /\ g.copy = h.copy /\ row2 = row
  <2>1. Pending(g, RowStatements) => Pending(h, RowStatements)
    BY <1>1, PendingPop
  <2>2. Pending(h, {"load"}) => Pending(g, {"load"})
    BY <1>1, <1>3, PendingPop
  <2>3. Adds(g, q) = Adds(h, q) /\ Written(g, row, q) = Written(h, row, q)
    BY DEF Further, Adds, Written
  <2> QED
    BY <1>1, <1>3, <2>1, <2>2, <2>3 DEF Fresh
<1> QED
  BY <1>2, <1>3

\* Nothing happened to the reservations of the item.
LEMMA SettlesStep ==
  ASSUME NEW i, NEW q, Untouched(i), NEW h, h.batch \subseteq Reservations,
         h.todo \in Seq(Statement), h.todo # << >>,
         \A r \in h.batch : Exists(r) /\ Exists(r)', Settles(h, i, q), NEW g, Further(h, g)
  PROVE  Settles(g, i, q)'
<1>1. Settles(h, i, q)'
  BY UntouchedSettles
<1>2. Pending(g, ReservationStatements) => Pending(h, ReservationStatements)
  BY PendingPop DEF Further
<1>3. g.batch = h.batch
  BY DEF Further
<1> QED
  BY <1>1, <1>2, <1>3 DEF Settles, Pending

\* A worker's request after a statement.
LEMMA Advanced ==
  ASSUME IInv, IInv', NEW w \in Workers, Busy(w), Advance(w)
  PROVE  \E g : Further(handler[w], g) /\ Continues(w, g) /\ g.copy = handler[w].copy
<1>1. PICK h : h = handler[w]
  OBVIOUS
<1>2. PICK rest : rest = Tail(h.todo)
  OBVIOUS
<1>3. PICK g : g = [h EXCEPT !.todo = rest]
  OBVIOUS
<1>4. h \in SafeHandler
  BY <1>1 DEF IInv
<1>5. /\ g.todo = rest /\ g.op = h.op /\ g.items = h.items /\ g.batch = h.batch
      /\ g.qty = h.qty /\ g.net = h.net /\ g.copy = h.copy
  BY <1>3, <1>4 DEF SafeHandler
<1>6. handler' = [handler EXCEPT ![w] = IF rest = << >> THEN Idle ELSE [@ EXCEPT !.todo = rest]]
  BY <1>1, <1>2 DEF Advance
<1>7. handler'[w] = IF rest = << >> THEN Idle ELSE g
  BY <1>1, <1>3, <1>6 DEF IInv
<1>8. Continues(w, g)
  BY <1>5, <1>6, <1>7, IdleSafe DEF Continues, IInv
<1> QED
  BY <1>1, <1>2, <1>5, <1>8 DEF Further

\* All the requests but the sweep work on one item.
LEMMA OneItem ==
  ASSUME IInv, BalanceInv, NEW w \in Workers, Busy(w), handler[w].op # "sweep"
  PROVE  handler[w].items = {Target(w)} /\ Target(w) \in Items
<1>1. PICK i \in Items : handler[w].items = {i}
  BY DEF BalanceInv, Orderly
<1> QED
  BY <1>1 DEF Target

\* What a busy worker's request looks like.
LEMMA BusyFacts ==
  ASSUME IInv, IInv', BalanceInv, SameItems, NEW w \in Workers, Busy(w)
  PROVE  /\ handler[w].todo \in Seq(Statement) /\ handler[w].todo # << >>
         /\ InOrder(handler[w])
         /\ \A r \in handler[w].batch : Exists(r) /\ Exists(r)' /\ reservation[r].item \in handler[w].items
         /\ \A i \in Items \ disturbed : i \in handler[w].items =>
              UnderWay(handler[w], i) /\ Consistent(alerts[i])
  BY HandlerFacts DEF BalanceInv, Orderly, Kept, Works, Busy, SameItems

\* The books of the item go on.
LEMMA Continued ==
  ASSUME IInv, IInv', BalanceInv, NEW i \in Items,
         NEW h, h.todo \in Seq(Statement), h.todo # << >>, InOrder(h), h.net \in Int,
         NEW g, Further(h, g), NEW q \in Nat, Accounted(h, i, q),
         ledger' \in [Items -> [net : Int, out : Int]],
         edited' \in [Items -> [available : Int, reserved : Int]],
         Head(h.todo) = "resolve" => alerts'[i] = {},
         IF Head(h.todo) \in RowStatements
           THEN /\ Unedited(i)'.available = Unedited(i).available + Adds(h, q)
                /\ Unedited(i)'.reserved = Unedited(i).reserved + Reserves(h, q)
                /\ Unedited(i)'.sold = Unedited(i).sold + Sells(h, q)
           ELSE Unedited(i)' = Unedited(i),
         IF Head(h.todo) \in MovementStatements
           THEN /\ ledger'[i].net = ledger[i].net + Adds(h, q)
                /\ ledger'[i].out = ledger[i].out + Sells(h, q)
           ELSE ledger'[i] = ledger[i],
         IF Head(h.todo) \in ReservationStatements
           THEN Held(i)' = Held(i) + Reserves(h, q)
           ELSE Held(i)' = Held(i),
         Fresh(g, i, q, item'[i]),
         h.op \in Settling => Settles(g, i, q)'
  PROVE  UnderWay(g, i)'
<1>1. PICK row, entry, held, row2, entry2, held2 :
        /\ row = Unedited(i) /\ entry = ledger[i] /\ held = Held(i)
        /\ row2 = Unedited(i)' /\ entry2 = ledger'[i] /\ held2 = Held(i)'
  OBVIOUS
<1>2. /\ row \in Row /\ entry \in [net : Int, out : Int] /\ held \in Int
      /\ row2 \in Row /\ entry2 \in [net : Int, out : Int] /\ held2 \in Int
  BY <1>1, HeldInt, HeldIntNext, UneditedRow, UneditedNext DEF HeldTyped, BalanceInv
<1>3. Books(h, q, row, entry, held)
  BY <1>1 DEF Accounted
<1>4. Books(g, q, row2, entry2, held2)
  BY <1>1, <1>2, <1>3, BooksStep
<1>5. (g.op # "sweep" => q = g.qty) /\ g.op = h.op
  BY DEF Accounted, Further
<1>6. Accounted(g, i, q)'
  BY <1>1, <1>4, <1>5 DEF Accounted, Books, Fresh
<1>7. g.todo # << >> /\ Head(g.todo) = "raise" => alerts'[i] = {}
  BY Popped DEF Further
<1> QED
  BY <1>6, <1>7 DEF UnderWay

-----------------------------------------------------------------------------
(* The statements. *)

\* A statement that leaves the reservations alone.
LEMMA SameReservations ==
  ASSUME reservation' = reservation
  PROVE  SameItems /\ \A i : Untouched(i) /\ Held(i)' = Held(i)
BY DEF SameItems, Untouched, Exists, Held, Holding

LEMMA SaveItemBooks ==
  ASSUME IInv, IInv', BalanceInv, NEW w \in Workers, SaveItem(w)
  PROVE  BalanceInv'
<1>1. PICK h : h = handler[w]
  OBVIOUS
<1>2. PICK i : i = Target(w)
  OBVIOUS
<1>3. /\ Busy(w) /\ Head(h.todo) = "save" /\ Advance(w)
      /\ item' = [item EXCEPT ![i] = Overwrite(item[i], h.copy[i], Columns(h.op))]
      /\ UNCHANGED <<reservation, alerts, ledger, disturbed>>
  BY <1>1, <1>2 DEF SaveItem, Runs
<1>12. PICK old, shift, new :
         /\ old = item[i] /\ new = Overwrite(item[i], h.copy[i], Columns(h.op))
         /\ shift = [available |-> edited[i].available + new.available - old.available,
                     reserved  |-> edited[i].reserved + new.reserved - old.reserved]
  OBVIOUS
<1>13. edited' = IF h.op = "edit" THEN [edited EXCEPT ![i] = shift] ELSE edited
  BY <1>1, <1>2, <1>12 DEF SaveItem
<1>4. SameItems /\ \A j : Untouched(j) /\ Held(j)' = Held(j)
  BY <1>3, SameReservations
<1>5. PICK g : Further(h, g) /\ Continues(w, g) /\ g.copy = h.copy
  BY <1>1, <1>3, Advanced
<1>6. /\ h.todo \in Seq(Statement) /\ h.todo # << >> /\ InOrder(h)
      /\ \A r \in h.batch : Exists(r) /\ Exists(r)'
      /\ \A j \in Items \ disturbed : j \in h.items => UnderWay(h, j) /\ Consistent(alerts[j])
      /\ h.op \in RequestKinds /\ h.batch \subseteq Reservations /\ h.net \in Int /\ h.qty \in Nat
  BY <1>1, <1>3, <1>4, BusyFacts, HandlerFacts
<1>7. h.op # "sweep" /\ ~Pending(h, {"load"}) /\ Pending(h, RowStatements)
  <2>1. (Head(h.todo) \in SweepStatements <=> h.op = "sweep") /\ (Head(h.todo) = "save" => ~Pending(h, {"load"}))
    BY <1>5, <1>6, Popped DEF Further
  <2>2. Pending(h, RowStatements)
    BY <1>3, <1>5, <1>6, PendingPop DEF RowStatements, Further
  <2> QED
    BY <1>3, <2>1, <2>2 DEF SweepStatements
<1>8. h.items = {i} /\ i \in Items
  BY <1>1, <1>2, <1>3, <1>7, OneItem
<1>14. /\ old \in Stock /\ new \in Stock /\ shift \in [available : Int, reserved : Int]
       /\ edited \in [Items -> [available : Int, reserved : Int]]
       /\ edited' \in [Items -> [available : Int, reserved : Int]]
  <2>1. h.copy[i] \in Stock /\ old \in Stock /\ new \in Stock
    BY <1>1, <1>8, <1>12, HandlerFacts, OverwriteSafe DEF IInv
  <2>2. edited \in [Items -> [available : Int, reserved : Int]]
    BY DEF BalanceInv
  <2>3. shift \in [available : Int, reserved : Int]
    BY <1>8, <1>12, <2>1, <2>2 DEF Stock
  <2> QED
    BY <1>8, <1>13, <2>1, <2>2, <2>3
<1>15. item' = [item EXCEPT ![i] = new] /\ item'[i] = new
  BY <1>3, <1>8, <1>12 DEF IInv
<1>9. ASSUME NEW j \in Items \ disturbed, j \notin h.items PROVE Unseen(j)
  BY <1>3, <1>4, <1>8, <1>9, <1>13, <1>14, <1>15 DEF Unseen, IInv
<1>10. ASSUME NEW j \in Items \ disturbed, j \in h.items
       PROVE  Consistent(alerts'[j]) /\ UnderWay(g, j)'
  <2>1. PICK q \in Nat : Accounted(h, i, q)
    BY <1>6, <1>8, <1>10 DEF UnderWay
  <2>2. Fresh(h, i, q, old) /\ q = h.qty
    BY <1>7, <1>12, <2>1 DEF Accounted
  <2>3. Adds(h, q) = Written(h, old, q).available - old.available
    BY <1>7, <2>2 DEF Fresh
  <2>4. /\ Unedited(i)'.available = Unedited(i).available + Adds(h, q)
        /\ Unedited(i)'.reserved = Unedited(i).reserved + Reserves(h, q)
        /\ Unedited(i)'.sold = Unedited(i).sold + Sells(h, q)
    <3>1. CASE h.op = "edit"
      <4>1. Adds(h, q) = 0 /\ Reserves(h, q) = 0 /\ Sells(h, q) = 0
        <5>1. Written(h, old, q) = old /\ old.available \in Int
          BY <1>14, <3>1 DEF Written, Compute, Stock
        <5> QED
          BY <2>3, <3>1, <5>1 DEF Reserves, Sells, Settling, SettleRequests
      <4>2. new.sold = old.sold
        <5>1. "sold" \in DOMAIN old /\ "sold" \in Columns(h.op)
          BY <1>14, <3>1 DEF Stock, Columns
        <5>2. h.copy[i].sold = old.sold
          BY <1>7, <2>2, <3>1 DEF Fresh
        <5> QED
          BY <1>12, <5>1, <5>2 DEF Overwrite
      <4>3. PICK a, b : a = edited[i].available /\ b = edited[i].reserved
        OBVIOUS
      <4>4. edited'[i] = shift
        BY <1>8, <1>13, <1>14, <3>1
      <4>5. /\ a \in Int /\ b \in Int
            /\ edited'[i].available = a + new.available - old.available
            /\ edited'[i].reserved = b + new.reserved - old.reserved
        BY <1>8, <1>12, <1>14, <4>3, <4>4
      <4>6. /\ old.available \in Int /\ old.reserved \in Int /\ old.sold \in Int
            /\ new.available \in Int /\ new.reserved \in Int /\ new.sold \in Int
        BY <1>14 DEF Stock
      <4>7. /\ Unedited(i).available = old.available - a /\ Unedited(i).reserved = old.reserved - b
            /\ Unedited(i).sold = old.sold
            /\ Unedited(i)'.available = new.available - edited'[i].available
            /\ Unedited(i)'.reserved = new.reserved - edited'[i].reserved
            /\ Unedited(i)'.sold = new.sold
        BY <1>12, <1>15, <4>3 DEF Unedited
      <4> QED
        BY <4>1, <4>2, <4>5, <4>6, <4>7
    <3>2. CASE h.op # "edit"
      <4>1. h.copy[i] = Compute(h.op, old, q) /\ Written(h, old, q) = Compute(h.op, old, q)
        BY <1>7, <2>2, <3>2 DEF Fresh, Written
      <4>2. /\ new = Compute(h.op, old, q)
            /\ new.reserved = old.reserved +
                 CASE h.op = "reserve" -> q [] h.op \in SettleRequests -> -q [] OTHER -> 0
            /\ new.sold = old.sold + IF h.op \in {"decrease", "confirm"} THEN q ELSE 0
        BY <1>6, <1>7, <1>12, <1>14, <3>2, <4>1, OverwriteCompute
      <4>3. (h.op \in Settling) <=> (h.op \in SettleRequests)
        BY <1>7 DEF Settling
      <4>4. /\ new.available = old.available + Adds(h, q)
            /\ new.reserved = old.reserved + Reserves(h, q)
            /\ new.sold = old.sold + Sells(h, q)
            /\ Adds(h, q) \in Int /\ Reserves(h, q) \in Int /\ Sells(h, q) \in Int
        BY <1>14, <2>3, <4>1, <4>2, <4>3 DEF Stock, Reserves, Sells
      <4>5. edited' = edited /\ item[i] = old /\ item'[i] = new
        BY <1>12, <1>13, <1>15, <3>2
      <4>6. edited[i].available \in Int /\ edited[i].reserved \in Int
        BY <1>8, <1>14
      <4> QED
        BY <1>14, <4>4, <4>5, <4>6 DEF Unedited, Stock
    <3> QED
      BY <3>1, <3>2
  <2>11. Head(h.todo) \in RowStatements /\ Head(h.todo) \notin MovementStatements
         /\ Head(h.todo) \notin ReservationStatements
    BY <1>3 DEF RowStatements, MovementStatements, ReservationStatements
  <2>12. Fresh(g, i, q, item'[i])
    <3>1. PICK row2 : row2 = item'[i]
      OBVIOUS
    <3>2. Fresh(g, i, q, row2)
      BY <1>5, <1>6, <2>2, <2>11, FreshStep
    <3> QED
      BY <3>1, <3>2 DEF Fresh
  <2>13. h.op \in Settling => Settles(g, i, q)'
    BY <1>4, <1>5, <1>6, <2>1, SettlesStep DEF Accounted
  <2>14. ledger' \in [Items -> [net : Int, out : Int]]
    BY <1>3 DEF BalanceInv
  <2>15. UnderWay(g, i)'
    BY <1>3, <1>4, <1>5, <1>6, <1>8, <1>14, <2>1, <2>4, <2>11, <2>12, <2>13, <2>14, Continued
  <2>16. j = i
    BY <1>8, <1>10
  <2> QED
    BY <1>3, <1>6, <1>10, <2>15, <2>16
<1>11. disturbed' = disturbed /\ ledger' \in [Items -> [net : Int, out : Int]] /\ alerts' \in [Items -> SUBSET Alert]
  BY <1>3 DEF BalanceInv
<1> QED
  BY <1>1, <1>3, <1>4, <1>5, <1>9, <1>10, <1>11, <1>14, Stepped

\* A statement that writes alerts or movements only.
LEMMA OtherBooks ==
  ASSUME IInv, IInv', BalanceInv, NEW w \in Workers, Busy(w), Advance(w),
         UNCHANGED <<item, reservation, edited, disturbed>>,
         Head(handler[w].todo) \notin RowStatements \union ReservationStatements \union {"load"},
         ledger' \in [Items -> [net : Int, out : Int]], alerts' \in [Items -> SUBSET Alert],
         \A j \in Items \ disturbed : j \notin handler[w].items =>
           ledger'[j] = ledger[j] /\ alerts'[j] = alerts[j],
         \A j \in Items \ disturbed : j \in handler[w].items =>
           /\ Consistent(alerts'[j])
           /\ Head(handler[w].todo) = "resolve" => alerts'[j] = {}
           /\ \A q \in Nat : Accounted(handler[w], j, q) =>
                IF Head(handler[w].todo) \in MovementStatements
                  THEN /\ ledger'[j].net = ledger[j].net + Adds(handler[w], q)
                       /\ ledger'[j].out = ledger[j].out + Sells(handler[w], q)
                  ELSE ledger'[j] = ledger[j]
  PROVE  BalanceInv'
<1>1. PICK h : h = handler[w]
  OBVIOUS
<1>2. SameItems /\ \A j : Untouched(j) /\ Held(j)' = Held(j)
  BY SameReservations
<1>7. (\A j : Unedited(j)' = Unedited(j)) /\ edited' \in [Items -> [available : Int, reserved : Int]]
  BY SameRow DEF BalanceInv
<1>3. PICK g : Further(h, g) /\ Continues(w, g) /\ g.copy = h.copy
  BY <1>1, Advanced
<1>4. /\ h.todo \in Seq(Statement) /\ h.todo # << >> /\ InOrder(h)
      /\ \A r \in h.batch : Exists(r) /\ Exists(r)'
      /\ \A j \in Items \ disturbed : j \in h.items => UnderWay(h, j)
      /\ h.batch \subseteq Reservations /\ h.net \in Int
  BY <1>1, <1>2, BusyFacts, HandlerFacts
<1>5. ASSUME NEW j \in Items \ disturbed, j \notin h.items PROVE Unseen(j)
  BY <1>1, <1>2, <1>5 DEF Unseen
<1>6. ASSUME NEW j \in Items \ disturbed, j \in h.items PROVE UnderWay(g, j)'
  <2>1. PICK q \in Nat : Accounted(h, j, q)
    BY <1>4, <1>6 DEF UnderWay
  <2>2. /\ Head(h.todo) \notin RowStatements /\ Head(h.todo) \notin ReservationStatements
        /\ Head(h.todo) # "load" /\ item'[j] = item[j]
        /\ Head(h.todo) = "resolve" => alerts'[j] = {}
        /\ IF Head(h.todo) \in MovementStatements
             THEN /\ ledger'[j].net = ledger[j].net + Adds(h, q)
                  /\ ledger'[j].out = ledger[j].out + Sells(h, q)
             ELSE ledger'[j] = ledger[j]
    BY <1>1, <1>6, <2>1
  <2>3. PICK row : row = item[j]
    OBVIOUS
  <2>4. Fresh(h, j, q, row)
    BY <2>1, <2>3 DEF Accounted
  <2>5. Fresh(g, j, q, row)
    BY <1>3, <1>4, <2>2, <2>4, FreshStep
  <2>6. Fresh(g, j, q, item'[j])
    BY <2>2, <2>3, <2>5 DEF Fresh
  <2>7. h.op \in Settling => Settles(g, j, q)'
    BY <1>2, <1>3, <1>4, <2>1, SettlesStep DEF Accounted
  <2> QED
    BY <1>2, <1>3, <1>4, <1>7, <2>1, <2>2, <2>6, <2>7, Continued
<1> QED
  BY <1>1, <1>2, <1>3, <1>5, <1>6, <1>7, Stepped

LEMMA ResolveAlertsBooks ==
  ASSUME IInv, IInv', BalanceInv, NEW w \in Workers, ResolveAlerts(w)
  PROVE  BalanceInv'
<1>1. /\ Busy(w) /\ Head(handler[w].todo) = "resolve" /\ Advance(w)
      /\ alerts' = [alerts EXCEPT ![Target(w)] = {}]
      /\ UNCHANGED <<item, reservation, ledger, edited, disturbed>>
  BY DEF ResolveAlerts, Runs
<1>2. SameItems
  BY <1>1, SameReservations
<1>3. handler[w].op # "sweep"
  <2>1. \E g : Further(handler[w], g)
    BY <1>1, Advanced
  <2> QED
    BY <1>1, <1>2, <2>1, BusyFacts, Popped DEF Further, SweepStatements
<1>4. handler[w].items = {Target(w)} /\ Target(w) \in Items
  BY <1>1, <1>3, OneItem
<1>5. alerts \in [Items -> SUBSET Alert] /\ ledger \in [Items -> [net : Int, out : Int]]
  BY DEF BalanceInv
<1>6. alerts' \in [Items -> SUBSET Alert] /\ ledger' \in [Items -> [net : Int, out : Int]]
  BY <1>1, <1>4, <1>5
<1>7. Consistent({})
  BY DEF Consistent
<1>8. \A j \in Items : alerts'[j] = IF j = Target(w) THEN {} ELSE alerts[j]
  BY <1>1, <1>5
<1>9. Head(handler[w].todo) \notin RowStatements \union ReservationStatements \union MovementStatements \union {"load"}
  BY <1>1 DEF RowStatements, ReservationStatements, MovementStatements
<1> QED
  BY <1>1, <1>4, <1>6, <1>7, <1>8, <1>9, OtherBooks

LEMMA RaiseAlertsBooks ==
  ASSUME IInv, IInv', BalanceInv, NEW w \in Workers, RaiseAlerts(w)
  PROVE  BalanceInv'
<1>1. PICK i, a : i = Target(w) /\ a = AlertsFor(handler[w].copy[i])
  OBVIOUS
<1>2. /\ Busy(w) /\ Head(handler[w].todo) = "raise" /\ Advance(w)
      /\ alerts' = [alerts EXCEPT ![i] = alerts[i] \union a]
      /\ UNCHANGED <<item, reservation, ledger, edited, disturbed>>
  BY <1>1 DEF RaiseAlerts, Runs
<1>3. SameItems
  BY <1>2, SameReservations
<1>4. handler[w].op # "sweep"
  <2>1. \E g : Further(handler[w], g)
    BY <1>2, Advanced
  <2> QED
    BY <1>2, <1>3, <2>1, BusyFacts, Popped DEF Further, SweepStatements
<1>5. handler[w].items = {i} /\ i \in Items
  BY <1>1, <1>2, <1>4, OneItem
<1>6. alerts \in [Items -> SUBSET Alert] /\ ledger \in [Items -> [net : Int, out : Int]]
  BY DEF BalanceInv
<1>7. Consistent({} \union a)
  BY <1>1, <1>5, HandlerFacts, RaisesConsistent
<1>8. alerts' \in [Items -> SUBSET Alert] /\ ledger' \in [Items -> [net : Int, out : Int]]
  BY <1>2, <1>5, <1>6, <1>7 DEF Consistent
<1>9. \A j \in Items : alerts'[j] = IF j = i THEN alerts[i] \union a ELSE alerts[j]
  BY <1>2, <1>6
<1>10. Head(handler[w].todo) \notin RowStatements \union ReservationStatements \union MovementStatements \union {"load"}
  BY <1>2 DEF RowStatements, ReservationStatements, MovementStatements
<1>11. i \in Items \ disturbed => alerts[i] = {}
  BY <1>2, <1>3, <1>5, BusyFacts DEF UnderWay
<1> QED
  BY <1>2, <1>5, <1>7, <1>8, <1>9, <1>10, <1>11, OtherBooks

LEMMA RecordMovementBooks ==
  ASSUME IInv, IInv', BalanceInv, NEW w \in Workers, RecordMovement(w)
  PROVE  BalanceInv'
<1>1. PICK i, h : i = Target(w) /\ h = handler[w]
  OBVIOUS
<1>2. PICK sold : sold = IF h.op \in {"decrease", "confirm"} THEN h.qty ELSE 0
  OBVIOUS
<1>3. /\ Busy(w) /\ Head(handler[w].todo) = "move" /\ Advance(w)
      /\ ledger' = [ledger EXCEPT ![i] = [net |-> ledger[i].net + h.net, out |-> ledger[i].out + sold]]
      /\ UNCHANGED <<item, reservation, alerts, edited, disturbed>>
  BY <1>1, <1>2 DEF RecordMovement, Runs
<1>4. SameItems
  BY <1>3, SameReservations
<1>5. h.op # "sweep"
  <2>1. \E g : Further(handler[w], g)
    BY <1>3, Advanced
  <2> QED
    BY <1>1, <1>3, <1>4, <2>1, BusyFacts, Popped DEF Further, SweepStatements
<1>6. h.items = {i} /\ i \in Items /\ h.net \in Int /\ sold \in Int
  BY <1>1, <1>2, <1>3, <1>5, OneItem, HandlerFacts
<1>7. alerts \in [Items -> SUBSET Alert] /\ ledger \in [Items -> [net : Int, out : Int]]
  BY DEF BalanceInv
<1>8. PICK entry : entry = [net |-> ledger[i].net + h.net, out |-> ledger[i].out + sold]
  OBVIOUS
<1>9. entry \in [net : Int, out : Int]
  BY <1>6, <1>7, <1>8
<1>10. alerts' \in [Items -> SUBSET Alert] /\ ledger' \in [Items -> [net : Int, out : Int]]
  BY <1>3, <1>7, <1>8, <1>9
<1>11. \A j \in Items : ledger'[j] = IF j = i THEN entry ELSE ledger[j]
  BY <1>3, <1>7, <1>8
<1>12. /\ Head(h.todo) \notin RowStatements \union ReservationStatements \union {"load"}
       /\ Head(h.todo) \in MovementStatements /\ Head(h.todo) # "resolve"
  BY <1>1, <1>3 DEF RowStatements, ReservationStatements, MovementStatements
<1>13. ASSUME NEW q \in Nat, Accounted(h, i, q)
       PROVE  /\ ledger'[i].net = ledger[i].net + Adds(h, q)
              /\ ledger'[i].out = ledger[i].out + Sells(h, q)
  <2>1. q = h.qty
    BY <1>5, <1>13 DEF Accounted
  <2> QED
    BY <1>2, <1>5, <1>6, <1>8, <1>11, <2>1 DEF Adds, Sells
<1>14. \A j \in Items \ disturbed : j \in h.items => Consistent(alerts'[j])
  BY <1>1, <1>3, <1>4, BusyFacts
<1>15. \A j \in Items : alerts'[j] = alerts[j]
  BY <1>3
<1> QED
  BY <1>1, <1>3, <1>15, <1>6, <1>10, <1>11, <1>12, <1>13, <1>14, OtherBooks

LEMMA NotifyExpiredBooks ==
  ASSUME IInv, IInv', BalanceInv, NEW w \in Workers, NotifyExpired(w)
  PROVE  BalanceInv'
<1>1. /\ Busy(w) /\ Head(handler[w].todo) = "notify" /\ Advance(w)
      /\ alerts' = [i \in Items |-> IF i \in handler[w].items
                                      THEN alerts[i] \union {"EXPIRED_RESERVATION"} ELSE alerts[i]]
      /\ UNCHANGED <<item, reservation, ledger, edited, disturbed>>
  BY DEF NotifyExpired, Runs
<1>2. SameItems
  BY <1>1, SameReservations
<1>3. alerts \in [Items -> SUBSET Alert] /\ ledger \in [Items -> [net : Int, out : Int]]
  BY DEF BalanceInv
<1>4. alerts' \in [Items -> SUBSET Alert] /\ ledger' \in [Items -> [net : Int, out : Int]]
  BY <1>1, <1>3 DEF Alert
<1>5. ASSUME NEW j \in Items \ disturbed, j \in handler[w].items PROVE Consistent(alerts'[j])
  <2>1. Consistent(alerts[j])
    BY <1>1, <1>2, <1>5, BusyFacts
  <2> QED
    BY <1>1, <1>5, <2>1 DEF Consistent, Alert
<1>6. Head(handler[w].todo) \notin RowStatements \union ReservationStatements \union MovementStatements \union {"load"}
  BY <1>1 DEF RowStatements, ReservationStatements, MovementStatements
<1>7. \A j \in Items : j \notin handler[w].items => alerts'[j] = alerts[j]
  BY <1>1
<1> QED
  BY <1>1, <1>4, <1>5, <1>6, <1>7, OtherBooks

LEMMA RecordReleasesBooks ==
  ASSUME IInv, IInv', BalanceInv, NEW w \in Workers, RecordReleases(w)
  PROVE  BalanceInv'
<1>1. PICK h : h = handler[w]
  OBVIOUS
<1>2. /\ Busy(w) /\ Head(h.todo) = "moves" /\ Advance(w)
      /\ ledger' = [i \in Items |-> [ledger[i] EXCEPT !.net = @ + Returned(w, i)]]
      /\ UNCHANGED <<item, reservation, alerts, edited, disturbed>>
  BY <1>1 DEF RecordReleases, Runs
<1>3. SameItems
  BY <1>2, SameReservations
<1>4. /\ h.todo \in Seq(Statement) /\ h.todo # << >> /\ InOrder(h)
      /\ \A r \in h.batch : Exists(r) /\ reservation[r].item \in h.items
      /\ \A j \in Items \ disturbed : j \in h.items => Consistent(alerts[j])
      /\ h.batch \subseteq Reservations
  BY <1>1, <1>2, <1>3, BusyFacts, HandlerFacts
<1>5. h.op = "sweep"
  <2>1. \E g : Further(h, g)
    BY <1>1, <1>2, Advanced
  <2> QED
    BY <1>2, <1>4, <2>1, Popped DEF Further, SweepStatements
<1>6. alerts \in [Items -> SUBSET Alert] /\ ledger \in [Items -> [net : Int, out : Int]]
  BY DEF BalanceInv
<1>7. \A r \in h.batch : reservation[r].qty \in Int
  BY <1>4 DEF IInv, Exists, Reservation
<1>8. ASSUME NEW i \in Items
      PROVE  /\ Returned(w, i) \in Int
             /\ i \notin h.items => Returned(w, i) = 0
             /\ \A r \in h.batch : reservation[r].item = i
                                   /\ (\A s \in h.batch : reservation[s].item = i => s = r)
                  => Returned(w, i) = reservation[r].qty
  <2>1. PICK S, u : S = {s \in h.batch : reservation[s].item = i} /\ u = reservation
    OBVIOUS
  <2>2. Returned(w, i) = Total(u, S)
    BY <1>1, <2>1 DEF Returned, Total
  <2>3. S \subseteq Reservations
    BY <1>4, <2>1
  <2>4. IsFiniteSet(S)
    BY <2>3, FS_Subset, InventoryConstants
  <2>5. \A r \in S : u[r].qty \in Int
    BY <1>7, <2>1
  <2>6. Total(u, S) \in Int /\ (S = {} => Total(u, S) = 0)
    BY <2>4, <2>5, TotalFacts
  <2>7. i \notin h.items => S = {}
    BY <1>4, <2>1
  <2>8. ASSUME NEW r \in h.batch, reservation[r].item = i,
               \A s \in h.batch : reservation[s].item = i => s = r
        PROVE  Returned(w, i) = reservation[r].qty
    <3>1. r \in S /\ \A s \in S : s = r
      BY <2>1, <2>8
    <3>2. Total(u, S) = u[r].qty
      BY <2>5, <3>1, TotalOne
    <3> QED
      BY <2>1, <2>2, <3>2
  <2> QED
    BY <2>2, <2>6, <2>7, <2>8
<1>9. ASSUME NEW i \in Items
      PROVE  /\ ledger'[i] \in [net : Int, out : Int]
             /\ ledger'[i].net = ledger[i].net + Returned(w, i)
             /\ ledger'[i].out = ledger[i].out
             /\ i \notin h.items => ledger'[i] = ledger[i]
  <2>1. PICK entry, n : entry = ledger[i] /\ n = entry.net + Returned(w, i)
    OBVIOUS
  <2>2. entry \in [net : Int, out : Int] /\ n \in Int
    BY <1>6, <1>8, <2>1
  <2>3. ledger'[i] = [entry EXCEPT !.net = n]
    BY <1>2, <2>1
  <2>4. /\ [entry EXCEPT !.net = n] \in [net : Int, out : Int]
        /\ [entry EXCEPT !.net = n].net = n
        /\ [entry EXCEPT !.net = n].out = entry.out
        /\ n = entry.net => [entry EXCEPT !.net = n] = entry
    BY <2>2
  <2>5. i \notin h.items => n = entry.net
    BY <1>8, <2>1, <2>2
  <2> QED
    BY <2>1, <2>3, <2>4, <2>5
<1>10. alerts' \in [Items -> SUBSET Alert] /\ ledger' \in [Items -> [net : Int, out : Int]]
  <2>1. ledger' = [i \in Items |-> ledger'[i]]
    BY <1>2
  <2> QED
    BY <1>2, <1>6, <1>9, <2>1
<1>11. ASSUME NEW i \in Items \ disturbed, i \in h.items, NEW q \in Nat, Accounted(h, i, q)
       PROVE  /\ ledger'[i].net = ledger[i].net + Adds(h, q)
              /\ ledger'[i].out = ledger[i].out + Sells(h, q)
  <2>1. PICK r \in h.batch :
          /\ reservation[r].item = i /\ reservation[r].qty = q
          /\ \A s \in h.batch : reservation[s].item = i => s = r
    BY <1>5, <1>11 DEF Accounted, Settles, Settling
  <2>2. Returned(w, i) = q
    BY <1>8, <2>1
  <2>3. ledger[i].out \in Int
    BY <1>6
  <2> QED
    BY <1>5, <1>9, <2>2, <2>3 DEF Adds, Sells
<1>12. /\ Head(h.todo) \notin RowStatements \union ReservationStatements \union {"load"}
       /\ Head(h.todo) \in MovementStatements /\ Head(h.todo) # "resolve"
  BY <1>2 DEF RowStatements, ReservationStatements, MovementStatements
<1>13. \A j \in Items : alerts'[j] = alerts[j]
  BY <1>2
<1> QED
  BY <1>1, <1>2, <1>4, <1>9, <1>10, <1>11, <1>12, <1>13, OtherBooks

LEMMA InsertReservationBooks ==
  ASSUME IInv, IInv', BalanceInv, NEW w \in Workers, InsertReservation(w)
  PROVE  BalanceInv'
<1>1. PICK h, i : h = handler[w] /\ i = Target(w)
  OBVIOUS
<1>2. PICK new : new = [status |-> "ACTIVE", item |-> i, qty |-> h.qty, due |-> FALSE]
  OBVIOUS
<1>3. PICK r \in Reservations : ~Exists(r) /\ reservation' = [reservation EXCEPT ![r] = new]
  BY <1>1, <1>2 DEF InsertReservation
<1>4. /\ Busy(w) /\ Head(h.todo) = "insert" /\ Advance(w)
      /\ UNCHANGED <<item, alerts, ledger, edited, disturbed>>
  BY <1>1 DEF InsertReservation, Runs
<1>5. h.qty \in Nat /\ h.net \in Int /\ h.batch \subseteq Reservations
  BY <1>1, HandlerFacts
<1>6. /\ \A s \in Reservations \ {r} : reservation'[s] = reservation[s]
      /\ reservation'[r] = new
  BY <1>3 DEF IInv
<1>7. SameItems
  BY <1>3, <1>6 DEF SameItems, Exists
<1>8. /\ h.todo \in Seq(Statement) /\ h.todo # << >> /\ InOrder(h)
      /\ \A s \in h.batch : Exists(s) /\ Exists(s)'
      /\ \A j \in Items \ disturbed : j \in h.items => UnderWay(h, j) /\ Consistent(alerts[j])
  BY <1>1, <1>4, <1>7, BusyFacts
<1>9. PICK g : Further(h, g) /\ Continues(w, g) /\ g.copy = h.copy
  BY <1>1, <1>4, Advanced
<1>10. h.op = "reserve"
  BY <1>4, <1>8, <1>9, Popped DEF Further
<1>11. h.items = {i} /\ i \in Items
  BY <1>1, <1>4, <1>10, OneItem
<1>12. new \in Reservation /\ new # NoReservation
  <2>1. new \in Reservation
    BY <1>2, <1>5, <1>11 DEF Reservation
  <2> QED
    BY <2>1, NoReservationIsNone
<1>13. ASSUME NEW j \in Items \ disturbed, j \notin h.items PROVE Unseen(j)
  <2>1. new.item # j
    BY <1>2, <1>11, <1>13
  <2>2. Untouched(j)
    BY <1>3, <1>6, <2>1 DEF Untouched, Exists
  <2> QED
    BY <1>4, <2>2 DEF Unseen
<1>14. Held(i)' = Held(i) + h.qty
  <2>1. r \notin Holding(i)
    BY <1>3 DEF Holding
  <2>2. Holding(i)' = Holding(i) \union {r}
    BY <1>2, <1>3, <1>6, <1>12 DEF Holding, Exists
  <2>3. \A s \in Holding(i) : reservation'[s].qty = reservation[s].qty
    BY <1>6, <2>1 DEF Holding
  <2>4. reservation'[r].qty = h.qty
    BY <1>2, <1>6
  <2>5. reservation'[r].qty \in Int
    BY <1>5, <2>4
  <2>6. Held(i)' = Held(i) + reservation'[r].qty
    BY <2>1, <2>2, <2>3, <2>5, HeldMore
  <2> QED
    BY <2>4, <2>6
<1>17. (\A j : Unedited(j)' = Unedited(j)) /\ edited' \in [Items -> [available : Int, reserved : Int]]
  BY <1>4, SameRow DEF BalanceInv
<1>15. ASSUME NEW j \in Items \ disturbed, j \in h.items
       PROVE  Consistent(alerts'[j]) /\ UnderWay(g, j)'
  <2>1. j = i
    BY <1>11, <1>15
  <2>2. PICK q \in Nat : Accounted(h, i, q)
    BY <1>8, <1>15, <2>1 DEF UnderWay
  <2>3. q = h.qty /\ Reserves(h, q) = q /\ h.op \notin Settling
    BY <1>10, <2>2 DEF Accounted, Reserves, Settling, SettleRequests
  <2>4. PICK row : row = item[i]
    OBVIOUS
  <2>5. Fresh(h, i, q, row)
    BY <2>2, <2>4 DEF Accounted
  <2>6. Fresh(g, i, q, row)
    BY <1>4, <1>8, <1>9, <2>5, FreshStep
  <2>7. item'[i] = item[i] /\ Fresh(g, i, q, item'[i])
    BY <1>4, <2>4, <2>6 DEF Fresh
  <2>8. /\ Head(h.todo) \in ReservationStatements /\ Head(h.todo) \notin RowStatements
        /\ Head(h.todo) \notin MovementStatements /\ Head(h.todo) # "resolve"
    BY <1>4 DEF RowStatements, MovementStatements, ReservationStatements
  <2>9. ledger'[i] = ledger[i] /\ ledger' \in [Items -> [net : Int, out : Int]]
    BY <1>4 DEF BalanceInv
  <2>10. Held(i)' = Held(i) + Reserves(h, q)
    BY <1>14, <2>3
  <2>11. UnderWay(g, i)'
    BY <1>5, <1>8, <1>9, <1>11, <1>17, <2>2, <2>3, <2>7, <2>8, <2>9, <2>10, Continued
  <2> QED
    BY <1>4, <1>8, <1>15, <2>1, <2>11
<1>16. disturbed' = disturbed /\ ledger' \in [Items -> [net : Int, out : Int]] /\ alerts' \in [Items -> SUBSET Alert]
  BY <1>4 DEF BalanceInv
<1> QED
  BY <1>1, <1>4, <1>7, <1>9, <1>13, <1>15, <1>16, <1>17, Stepped

LEMMA SaveStatusBooks ==
  ASSUME IInv, IInv', BalanceInv, NEW w \in Workers, SaveStatus(w)
  PROVE  BalanceInv'
<1>1. PICK h, status : h = handler[w] /\ status = Outcome(h.op)
  OBVIOUS
<1>2. /\ Busy(w) /\ Head(h.todo) \in {"status", "expire"} /\ Advance(w)
      /\ UNCHANGED <<item, alerts, ledger, edited, disturbed>>
      /\ reservation' = [r \in Reservations |-> IF r \in h.batch
                                                  THEN [reservation[r] EXCEPT !.status = status]
                                                  ELSE reservation[r]]
  BY <1>1 DEF SaveStatus, Runs
<1>3. h.net \in Int /\ h.batch \subseteq Reservations /\ \A r \in h.batch : Exists(r)
  BY <1>1, HandlerFacts
<1>4. ASSUME NEW r \in Reservations
      PROVE  /\ r \notin h.batch => reservation'[r] = reservation[r]
             /\ r \in h.batch => /\ Exists(r) /\ Exists(r)'
                                 /\ reservation'[r].item = reservation[r].item
                                 /\ reservation'[r].qty = reservation[r].qty
                                 /\ reservation'[r].status = status
             /\ Exists(r) => reservation[r].qty \in Nat
  <2>1. r \notin h.batch => reservation'[r] = reservation[r]
    BY <1>2
  <2>2. Exists(r) => reservation[r] \in Reservation
    BY DEF IInv, Exists
  <2>3. ASSUME r \in h.batch
        PROVE  /\ Exists(r)'
               /\ reservation'[r].item = reservation[r].item
               /\ reservation'[r].qty = reservation[r].qty
               /\ reservation'[r].status = status
    <3>1. PICK old : old = reservation[r]
      OBVIOUS
    <3>2. old \in Reservation /\ reservation'[r] = [old EXCEPT !.status = status]
      BY <1>2, <1>3, <2>2, <2>3, <3>1
    <3>3. /\ reservation'[r].item = old.item /\ reservation'[r].qty = old.qty
          /\ reservation'[r].status = status
      BY <3>2 DEF Reservation
    <3>4. status \in Settled
      BY <1>1 DEF Outcome, Settled
    <3>5. [old EXCEPT !.status = status] \in Reservation
      BY <3>2, <3>4 DEF Reservation
    <3> QED
      BY <3>1, <3>2, <3>3, <3>5, NoReservationIsNone DEF Exists
  <2> QED
    BY <1>3, <2>1, <2>2, <2>3 DEF Reservation
<1>5. SameItems
  BY <1>4 DEF SameItems, Exists
<1>6. /\ h.todo \in Seq(Statement) /\ h.todo # << >> /\ InOrder(h)
      /\ \A r \in h.batch : reservation[r].item \in h.items
      /\ \A j \in Items \ disturbed : j \in h.items => UnderWay(h, j) /\ Consistent(alerts[j])
  BY <1>1, <1>2, <1>5, BusyFacts
<1>7. PICK g : Further(h, g) /\ Continues(w, g) /\ g.copy = h.copy
  BY <1>1, <1>2, Advanced
<1>8. h.op \in Settling
  BY <1>2, <1>6, <1>7, Popped DEF Further, SweepStatements, Settling
<1>9. ASSUME NEW j \in Items \ disturbed, j \notin h.items PROVE Unseen(j)
  <2>1. \A r \in h.batch : reservation[r].item # j
    BY <1>6, <1>9
  <2>2. Untouched(j)
    BY <1>3, <1>4, <2>1 DEF Untouched, Exists
  <2> QED
    BY <1>2, <2>2 DEF Unseen
<1>10. status # "ACTIVE"
  BY <1>1 DEF Outcome
<1>11. /\ Head(h.todo) \in ReservationStatements /\ Head(h.todo) \notin RowStatements
       /\ Head(h.todo) \notin MovementStatements /\ Head(h.todo) # "resolve" /\ Head(h.todo) # "load"
  BY <1>2 DEF RowStatements, MovementStatements, ReservationStatements
<1>12. Pending(h, ReservationStatements) /\ ~Pending(g, ReservationStatements)
  BY <1>6, <1>7, <1>11, PendingPop, Popped DEF Further
<1>15. (\A j : Unedited(j)' = Unedited(j)) /\ edited' \in [Items -> [available : Int, reserved : Int]]
  BY <1>2, SameRow DEF BalanceInv
<1>13. ASSUME NEW i \in Items \ disturbed, i \in h.items
       PROVE  Consistent(alerts'[i]) /\ UnderWay(g, i)'
  <2>1. PICK q \in Nat : Accounted(h, i, q)
    BY <1>6, <1>13 DEF UnderWay
  <2>2. PICK r \in h.batch :
          /\ reservation[r].item = i /\ reservation[r].qty = q
          /\ \A s \in h.batch : reservation[s].item = i => s = r
          /\ reservation[r].status = "ACTIVE"
    BY <1>8, <1>12, <2>1 DEF Accounted, Settles
  <2>3. Held(i)' = Held(i) - q
    <3>1. r \in Holding(i)
      BY <1>3, <2>2 DEF Holding
    <3>2. ASSUME NEW s \in Reservations PROVE s \in Holding(i)' <=> (s \in Holding(i) /\ s # r)
      <4>1. CASE s \in h.batch
        BY <1>4, <1>10, <2>2, <4>1 DEF Holding
      <4>2. CASE s \notin h.batch
        BY <1>4, <2>2, <4>2 DEF Holding, Exists
      <4> QED
        BY <4>1, <4>2
    <3>3. Holding(i)' \subseteq Reservations /\ Holding(i) \subseteq Reservations
      BY DEF Holding
    <3>4. Holding(i)' = Holding(i) \ {r}
      BY <3>2, <3>3
    <3>5. \A s \in Holding(i) : reservation'[s].qty = reservation[s].qty
      BY <1>4, <3>3
    <3>6. Held(i)' = Held(i) - reservation[r].qty
      BY <3>1, <3>4, <3>5, HeldLess
    <3> QED
      BY <2>2, <3>6
  <2>4. Held(i)' = Held(i) + Reserves(h, q)
    <3>1. Reserves(h, q) = -q
      BY <1>8 DEF Reserves, Settling, SettleRequests
    <3>2. Held(i) \in Int
      BY HoldingFinite
    <3> QED
      BY <2>3, <3>1, <3>2
  <2>5. Settles(g, i, q)'
    <3>1. /\ g.batch = h.batch
          /\ reservation'[r].item = i /\ reservation'[r].qty = q
          /\ \A s \in h.batch : reservation'[s].item = i => s = r
      BY <1>3, <1>4, <1>7, <2>2 DEF Further
    <3> QED
      BY <1>12, <2>2, <3>1 DEF Settles, Pending
  <2>6. PICK row : row = item[i]
    OBVIOUS
  <2>7. Fresh(h, i, q, row)
    BY <2>1, <2>6 DEF Accounted
  <2>8. Fresh(g, i, q, row)
    BY <1>6, <1>7, <1>11, <2>7, FreshStep
  <2>9. item'[i] = item[i] /\ Fresh(g, i, q, item'[i])
    BY <1>2, <2>6, <2>8 DEF Fresh
  <2>10. ledger'[i] = ledger[i] /\ ledger' \in [Items -> [net : Int, out : Int]]
    BY <1>2 DEF BalanceInv
  <2>11. UnderWay(g, i)'
    BY <1>3, <1>6, <1>7, <1>11, <1>13, <1>15, <2>1, <2>4, <2>5, <2>9, <2>10, Continued
  <2> QED
    BY <1>2, <1>6, <1>13, <2>11
<1>14. disturbed' = disturbed /\ ledger' \in [Items -> [net : Int, out : Int]] /\ alerts' \in [Items -> SUBSET Alert]
  BY <1>2 DEF BalanceInv
<1> QED
  BY <1>1, <1>2, <1>5, <1>7, <1>9, <1>13, <1>14, <1>15, Stepped

LEMMA LoadItemBooks ==
  ASSUME IInv, IInv', BalanceInv, NEW w \in Workers, LoadItem(w)
  PROVE  BalanceInv'
<1>1. PICK h, i : h = handler[w] /\ i = Target(w)
  OBVIOUS
<1>2. PICK rest, row, new : /\ rest = Tail(h.todo) /\ row = item[i]
                            /\ new = Compute(h.op, item[i], h.qty)
  OBVIOUS
<1>3. /\ Busy(w) /\ Head(h.todo) = "load"
      /\ UNCHANGED <<item, reservation, alerts, ledger, edited, disturbed>>
      /\ handler' = [handler EXCEPT ![w].todo = rest, ![w].copy[i] = new]
  BY <1>1, <1>2 DEF LoadItem, Runs
<1>4. SameItems /\ \A j : Untouched(j) /\ Held(j)' = Held(j)
  BY <1>3, SameReservations
<1>5. /\ h.todo \in Seq(Statement) /\ h.todo # << >> /\ InOrder(h)
      /\ \A r \in h.batch : Exists(r) /\ Exists(r)'
      /\ \A j \in Items \ disturbed : j \in h.items => UnderWay(h, j) /\ Consistent(alerts[j])
      /\ h.op \in RequestKinds /\ h.batch \subseteq Reservations /\ h.net \in Int /\ h.qty \in Nat
      /\ h.copy \in [Items -> Stock] /\ h \in SafeHandler
  BY <1>1, <1>3, <1>4, BusyFacts, HandlerFacts DEF IInv
<1>6. PICK copies : copies = [h.copy EXCEPT ![i] = new]
  OBVIOUS
<1>7. PICK g : g = [h EXCEPT !.todo = rest, !.copy = copies]
  OBVIOUS
<1>8. Further(h, g) /\ g.copy = copies
  BY <1>2, <1>5, <1>7 DEF Further, SafeHandler
<1>9. handler' = [handler EXCEPT ![w] = g]
  <2>1. handler \in [Workers -> SafeHandler]
    BY DEF IInv
  <2> QED
    BY <1>1, <1>3, <1>6, <1>7, <2>1 DEF SafeHandler
<1>10. Continues(w, g)
  BY <1>9 DEF Continues, IInv
<1>11. h.op \in SettleRequests
  BY <1>3, <1>5, <1>8, Popped DEF Further
<1>12. h.op # "sweep" /\ h.op # "edit"
  BY <1>11 DEF SettleRequests
<1>13. h.items = {i} /\ i \in Items
  BY <1>1, <1>3, <1>12, OneItem
<1>14. ASSUME NEW j \in Items \ disturbed, j \notin h.items PROVE Unseen(j)
  BY <1>3, <1>4 DEF Unseen
<1>15. /\ Head(h.todo) \notin ReservationStatements /\ Head(h.todo) \notin RowStatements
       /\ Head(h.todo) \notin MovementStatements /\ Head(h.todo) # "resolve"
  BY <1>3 DEF RowStatements, MovementStatements, ReservationStatements
<1>18. (\A j : Unedited(j)' = Unedited(j)) /\ edited' \in [Items -> [available : Int, reserved : Int]]
  BY <1>3, SameRow DEF BalanceInv
<1>16. ASSUME NEW j \in Items \ disturbed, j \in h.items
       PROVE  Consistent(alerts'[j]) /\ UnderWay(g, j)'
  <2>1. j = i
    BY <1>13, <1>16
  <2>2. PICK q \in Nat : Accounted(h, i, q)
    BY <1>5, <1>16, <2>1 DEF UnderWay
  <2>3. q = h.qty /\ Fresh(h, i, q, row)
    BY <1>2, <1>12, <2>2 DEF Accounted
  <2>4. Pending(g, RowStatements) => Pending(h, RowStatements)
    BY <1>5, <1>8, PendingPop DEF Further
  <2>5. /\ g.op = h.op /\ Adds(g, q) = Adds(h, q)
        /\ Written(h, row, q) = new /\ Written(g, row, q) = new /\ g.copy[i] = new
    BY <1>2, <1>5, <1>6, <1>8, <1>12, <1>13, <2>3 DEF Further, Adds, Written
  <2>6. Fresh(g, i, q, row)
    BY <1>12, <2>3, <2>4, <2>5 DEF Fresh
  <2>7. item'[i] = item[i] /\ Fresh(g, i, q, item'[i])
    BY <1>2, <1>3, <2>6 DEF Fresh
  <2>8. ledger'[i] = ledger[i] /\ ledger' \in [Items -> [net : Int, out : Int]]
    BY <1>3 DEF BalanceInv
  <2>9. h.op \in Settling => Settles(g, i, q)'
    BY <1>4, <1>5, <1>8, <2>2, SettlesStep DEF Accounted
  <2>10. UnderWay(g, i)'
    BY <1>4, <1>5, <1>8, <1>13, <1>15, <1>18, <2>2, <2>7, <2>8, <2>9, Continued
  <2> QED
    BY <1>3, <1>5, <1>16, <2>1, <2>10
<1>17. disturbed' = disturbed /\ ledger' \in [Items -> [net : Int, out : Int]] /\ alerts' \in [Items -> SUBSET Alert]
  BY <1>3 DEF BalanceInv
<1> QED
  BY <1>1, <1>3, <1>4, <1>8, <1>10, <1>14, <1>16, <1>17, <1>18, Stepped

LEMMA RestockBooks ==
  ASSUME IInv, IInv', BalanceInv, NEW w \in Workers, Restock(w)
  PROVE  BalanceInv'
<1>1. PICK h : h = handler[w]
  OBVIOUS
<1>2. PICK first \in [h.items -> h.batch] :
        /\ \A i \in h.items : reservation[first[i]].item = i
        /\ item' = [i \in Items |->
             IF i \in h.items
               THEN Overwrite(item[i], Compute("release", h.copy[i], reservation[first[i]].qty),
                              Columns("release"))
               ELSE item[i]]
  BY <1>1 DEF Restock
<1>3. /\ Busy(w) /\ Head(h.todo) = "restock" /\ Advance(w)
      /\ UNCHANGED <<reservation, alerts, ledger, edited, disturbed>>
  BY <1>1 DEF Restock, Runs
<1>4. SameItems /\ \A j : Untouched(j) /\ Held(j)' = Held(j)
  BY <1>3, SameReservations
<1>5. PICK g : Further(h, g) /\ Continues(w, g) /\ g.copy = h.copy
  BY <1>1, <1>3, Advanced
<1>6. /\ h.todo \in Seq(Statement) /\ h.todo # << >> /\ InOrder(h)
      /\ \A r \in h.batch : Exists(r) /\ Exists(r)'
      /\ \A j \in Items \ disturbed : j \in h.items => UnderWay(h, j) /\ Consistent(alerts[j])
      /\ h.batch \subseteq Reservations /\ h.net \in Int
  BY <1>1, <1>3, <1>4, BusyFacts, HandlerFacts
<1>7. /\ Head(h.todo) \notin ReservationStatements /\ Head(h.todo) \in RowStatements
      /\ Head(h.todo) \notin MovementStatements /\ Head(h.todo) # "resolve"
  BY <1>3 DEF RowStatements, MovementStatements, ReservationStatements
<1>8. h.op = "sweep" /\ Pending(h, RowStatements)
  BY <1>3, <1>5, <1>6, <1>7, PendingPop, Popped DEF Further, SweepStatements
<1>9. ASSUME NEW j \in Items \ disturbed, j \notin h.items PROVE Unseen(j)
  BY <1>2, <1>3, <1>4, <1>9 DEF Unseen
<1>12. edited' \in [Items -> [available : Int, reserved : Int]]
  BY <1>3 DEF BalanceInv
<1>10. ASSUME NEW i \in Items \ disturbed, i \in h.items
       PROVE  Consistent(alerts'[i]) /\ UnderWay(g, i)'
  <2>1. PICK q \in Nat : Accounted(h, i, q)
    BY <1>6, <1>10 DEF UnderWay
  <2>2. reservation[first[i]].qty = q
    <3>1. first[i] \in h.batch /\ reservation[first[i]].item = i
      BY <1>2, <1>10
    <3> QED
      BY <1>8, <2>1, <3>1 DEF Accounted, Settles, Settling
  <2>3. PICK row : row = item[i]
    OBVIOUS
  <2>4. PICK new : new = Compute("release", row, q)
    OBVIOUS
  <2>5. Fresh(h, i, q, row)
    BY <2>1, <2>3 DEF Accounted
  <2>6. h.copy[i] = row
    BY <1>8, <2>5 DEF Fresh
  <2>7. row \in Stock
    BY <1>10, <2>3 DEF IInv
  <2>8. /\ Overwrite(row, new, Columns("release")) = new
        /\ new.reserved = row.reserved - q
        /\ new.sold = row.sold
        /\ new.available = row.available + q
    <3>1. "release" \in RequestKinds \ {"sweep"} /\ "release" \in SettleRequests
      BY DEF RequestKinds, SettleRequests
    <3>2. /\ Overwrite(row, new, Columns("release")) = new
          /\ new.reserved = row.reserved +
               CASE "release" = "reserve" -> q [] "release" \in SettleRequests -> -q [] OTHER -> 0
          /\ new.sold = row.sold + IF "release" \in {"decrease", "confirm"} THEN q ELSE 0
          /\ "release" = "release" => new.available = row.available + q
      BY <2>4, <2>7, <3>1, OverwriteCompute
    <3> QED
      BY <2>7, <3>1, <3>2 DEF Stock
  <2>9. item'[i] = new
    BY <1>2, <1>10, <2>2, <2>3, <2>4, <2>6, <2>8
  <2>10. /\ new.available = row.available + Adds(h, q)
         /\ new.reserved = row.reserved + Reserves(h, q)
         /\ new.sold = row.sold + Sells(h, q)
    BY <1>8, <2>7, <2>8 DEF Stock, Adds, Reserves, Sells, Settling
  <2>15. /\ Unedited(i)'.available = Unedited(i).available + Adds(h, q)
         /\ Unedited(i)'.reserved = Unedited(i).reserved + Reserves(h, q)
         /\ Unedited(i)'.sold = Unedited(i).sold + Sells(h, q)
    <3>1. /\ Adds(h, q) \in Int /\ Reserves(h, q) \in Int /\ Sells(h, q) \in Int
          /\ row.available \in Int /\ row.reserved \in Int /\ row.sold \in Int
      BY <1>8, <2>7 DEF Stock, Adds, Reserves, Sells
    <3>2. edited' = edited /\ edited[i].available \in Int /\ edited[i].reserved \in Int
      BY <1>3 DEF BalanceInv
    <3> QED
      BY <2>3, <2>9, <2>10, <3>1, <3>2 DEF Unedited
  <2>11. Fresh(g, i, q, item'[i])
    <3>1. PICK row2 : row2 = item'[i]
      OBVIOUS
    <3>2. Fresh(g, i, q, row2)
      BY <1>5, <1>6, <1>7, <2>5, FreshStep
    <3> QED
      BY <3>1, <3>2 DEF Fresh
  <2>12. h.op \in Settling => Settles(g, i, q)'
    BY <1>4, <1>5, <1>6, <2>1, SettlesStep DEF Accounted
  <2>13. ledger'[i] = ledger[i] /\ ledger' \in [Items -> [net : Int, out : Int]]
    BY <1>3 DEF BalanceInv
  <2>14. UnderWay(g, i)'
    BY <1>4, <1>5, <1>6, <1>7, <1>10, <1>12, <2>1, <2>15, <2>11, <2>12, <2>13, Continued
  <2> QED
    BY <1>3, <1>6, <1>10, <2>14
<1>11. disturbed' = disturbed /\ ledger' \in [Items -> [net : Int, out : Int]] /\ alerts' \in [Items -> SUBSET Alert]
  BY <1>3 DEF BalanceInv
<1> QED
  BY <1>1, <1>3, <1>4, <1>5, <1>9, <1>10, <1>11, <1>12, Stepped

-----------------------------------------------------------------------------
(* Requests arrive. *)

\* Every program starts in order, with everything it will write still pending.
LEMMA ProgramOrder ==
  ASSUME NEW h, h.op \in RequestKinds, h.todo = Program(h.op)
  PROVE  /\ InOrder(h)
         /\ h.todo # << >> /\ Head(h.todo) # "raise"
         /\ Pending(h, RowStatements)
         /\ h.op # "edit" => Pending(h, MovementStatements)
         /\ h.op \in Settling \union {"reserve"} => Pending(h, ReservationStatements)
         /\ h.op \in SettleRequests => Pending(h, {"load"})
<1>1. PICK t, op : t = h.todo /\ op = h.op
  OBVIOUS
<1>2. CASE op \in {"increase", "decrease", "set"}
  <2>1. t = <<"save", "resolve", "raise", "move", "resolve", "raise">>
    BY <1>1, <1>2 DEF Program
  <2>2. DOMAIN t = 1 .. 6 /\ t # << >> /\ Head(t) = "save"
        /\ t[1] = "save" /\ t[2] = "resolve" /\ t[3] = "raise" /\ t[4] = "move" /\ t[5] = "resolve" /\ t[6] = "raise"
    BY <2>1
  <2>3. op \notin Settling \union {"reserve"} /\ op # "sweep"
    BY <1>2 DEF Settling, SettleRequests
  <2>4. InOrder(h)
    BY <1>1, <2>2, <2>3 DEF InOrder, SweepStatements
  <2>5. Pending(h, RowStatements) /\ Pending(h, MovementStatements)
    BY <1>1, <2>2 DEF Pending, RowStatements, MovementStatements
  <2> QED
    BY <1>1, <2>2, <2>3, <2>4, <2>5 DEF Settling
<1>3. CASE op = "reserve"
  <2>1. t = <<"save", "resolve", "raise", "insert", "move">>
    BY <1>1, <1>3 DEF Program
  <2>2. DOMAIN t = 1 .. 5 /\ t # << >> /\ Head(t) = "save"
        /\ t[1] = "save" /\ t[2] = "resolve" /\ t[3] = "raise" /\ t[4] = "insert" /\ t[5] = "move"
    BY <2>1
  <2>3. op \notin SettleRequests /\ op # "sweep"
    BY <1>3 DEF SettleRequests
  <2>4. InOrder(h)
    BY <1>1, <1>3, <2>2, <2>3 DEF InOrder, SweepStatements
  <2>5. Pending(h, RowStatements) /\ Pending(h, MovementStatements) /\ Pending(h, ReservationStatements)
    BY <1>1, <2>2 DEF Pending, RowStatements, MovementStatements, ReservationStatements
  <2> QED
    BY <1>1, <2>2, <2>3, <2>4, <2>5
<1>4. CASE op = "confirm"
  <2>1. t = <<"status", "load", "save", "resolve", "raise", "move", "resolve", "raise">>
    BY <1>1, <1>4 DEF Program
  <2>2. DOMAIN t = 1 .. 8 /\ t # << >> /\ Head(t) = "status"
        /\ t[1] = "status" /\ t[2] = "load" /\ t[3] = "save" /\ t[4] = "resolve" /\ t[5] = "raise"
        /\ t[6] = "move" /\ t[7] = "resolve" /\ t[8] = "raise"
    BY <2>1
  <2>3. op \in SettleRequests /\ op # "sweep"
    BY <1>4 DEF SettleRequests
  <2>4. InOrder(h)
    BY <1>1, <1>4, <2>2, <2>3 DEF InOrder, SweepStatements
  <2>5. /\ Pending(h, RowStatements) /\ Pending(h, MovementStatements)
        /\ Pending(h, ReservationStatements) /\ Pending(h, {"load"})
    BY <1>1, <2>2 DEF Pending, RowStatements, MovementStatements, ReservationStatements
  <2> QED
    BY <1>1, <2>2, <2>3, <2>4, <2>5
<1>5. CASE op = "release"
  <2>1. t = <<"status", "load", "save", "resolve", "raise", "move">>
    BY <1>1, <1>5 DEF Program
  <2>2. DOMAIN t = 1 .. 6 /\ t # << >> /\ Head(t) = "status"
        /\ t[1] = "status" /\ t[2] = "load" /\ t[3] = "save" /\ t[4] = "resolve" /\ t[5] = "raise"
        /\ t[6] = "move"
    BY <2>1
  <2>3. op \in SettleRequests /\ op # "sweep"
    BY <1>5 DEF SettleRequests
  <2>4. InOrder(h)
    BY <1>1, <1>5, <2>2, <2>3 DEF InOrder, SweepStatements
  <2>5. /\ Pending(h, RowStatements) /\ Pending(h, MovementStatements)
        /\ Pending(h, ReservationStatements) /\ Pending(h, {"load"})
    BY <1>1, <2>2 DEF Pending, RowStatements, MovementStatements, ReservationStatements
  <2> QED
    BY <1>1, <2>2, <2>3, <2>4, <2>5
<1>6. CASE op = "bulk"
  <2>1. t = <<"move", "save", "resolve", "raise">>
    BY <1>1, <1>6 DEF Program
  <2>2. DOMAIN t = 1 .. 4 /\ t # << >> /\ Head(t) = "move"
        /\ t[1] = "move" /\ t[2] = "save" /\ t[3] = "resolve" /\ t[4] = "raise"
    BY <2>1
  <2>3. op \notin Settling \union {"reserve"} /\ op # "sweep"
    BY <1>6 DEF Settling, SettleRequests
  <2>4. InOrder(h)
    BY <1>1, <2>2, <2>3 DEF InOrder, SweepStatements
  <2>5. Pending(h, RowStatements) /\ Pending(h, MovementStatements)
    BY <1>1, <2>2 DEF Pending, RowStatements, MovementStatements
  <2> QED
    BY <1>1, <2>2, <2>3, <2>4, <2>5 DEF Settling
<1>7. CASE op = "edit"
  <2>1. t = <<"save", "resolve", "raise">>
    BY <1>1, <1>7 DEF Program
  <2>2. DOMAIN t = 1 .. 3 /\ t # << >> /\ Head(t) = "save"
        /\ t[1] = "save" /\ t[2] = "resolve" /\ t[3] = "raise"
    BY <2>1
  <2>3. op \notin Settling \union {"reserve"} /\ op # "sweep"
    BY <1>7 DEF Settling, SettleRequests
  <2>4. InOrder(h)
    BY <1>1, <2>2, <2>3 DEF InOrder, SweepStatements
  <2>5. Pending(h, RowStatements)
    BY <1>1, <2>2 DEF Pending, RowStatements
  <2> QED
    BY <1>1, <1>7, <2>2, <2>3, <2>4, <2>5 DEF Settling
<1>8. CASE op = "sweep"
  <2>1. t = <<"expire", "restock", "moves", "notify">>
    BY <1>1, <1>8 DEF Program
  <2>2. DOMAIN t = 1 .. 4 /\ t # << >> /\ Head(t) = "expire"
        /\ t[1] = "expire" /\ t[2] = "restock" /\ t[3] = "moves" /\ t[4] = "notify"
    BY <2>1
  <2>3. op \notin SettleRequests
    BY <1>8 DEF SettleRequests
  <2>4. InOrder(h)
    BY <1>1, <1>8, <2>2 DEF InOrder, SweepStatements
  <2>5. Pending(h, RowStatements) /\ Pending(h, MovementStatements) /\ Pending(h, ReservationStatements)
    BY <1>1, <2>2 DEF Pending, RowStatements, MovementStatements, ReservationStatements
  <2> QED
    BY <1>1, <2>2, <2>3, <2>4, <2>5
<1> QED
  BY <1>1, <1>2, <1>3, <1>4, <1>5, <1>6, <1>7, <1>8 DEF RequestKinds, StockRequests, SettleRequests

\* A request starts on an item in balance.
LEMMA StartedBooks ==
  ASSUME IInv, BalanceInv, NEW i \in Items, Balanced(i), NEW h, h.op \in RequestKinds, h.todo = Program(h.op),
         NEW q \in Nat, h.op = "edit" => h.net = 0
  PROVE  Books(h, q, Unedited(i), ledger[i], Held(i))
<1>1. /\ Pending(h, RowStatements)
      /\ h.op # "edit" => Pending(h, MovementStatements)
      /\ h.op \in Settling \union {"reserve"} => Pending(h, ReservationStatements)
  BY ProgramOrder
<1>2. PICK d, e, f : d = Adds(h, q) /\ e = Reserves(h, q) /\ f = Sells(h, q)
  OBVIOUS
<1>3. /\ InRow(h, d) = 0 /\ InRow(h, e) = 0 /\ InRow(h, f) = 0
      /\ InMovements(h, d) = 0 /\ InMovements(h, f) = 0 /\ InHeld(h, e) = 0
  <2>1. h.op = "edit" => d = 0 /\ f = 0
    BY <1>2 DEF Adds, Sells
  <2>2. h.op \notin Settling \union {"reserve"} => e = 0
    BY <1>2 DEF Reserves
  <2> QED
    BY <1>1, <2>1, <2>2 DEF InRow, InMovements, InHeld
<1>6. PICK row : row = Unedited(i)
  OBVIOUS
<1>4. /\ row.available = InitialStock + ledger[i].net
      /\ row.reserved = Held(i)
      /\ row.sold = ledger[i].out
      /\ row.available \in Int /\ row.reserved \in Int /\ row.sold \in Int
  BY <1>6, UneditedRow DEF Balanced, Row
<1>5. /\ row.available - InRow(h, d) = InitialStock + ledger[i].net - InMovements(h, d)
      /\ row.reserved - InRow(h, e) = Held(i) - InHeld(h, e)
      /\ row.sold - InRow(h, f) = ledger[i].out - InMovements(h, f)
  <2>1. ledger[i].net \in Int /\ ledger[i].out \in Int /\ InitialStock \in Int /\ Held(i) \in Int
    BY HoldingFinite, InventoryConstants DEF BalanceInv
  <2> QED
    BY <1>3, <1>4, <2>1
<1> QED
  BY <1>2, <1>5, <1>6 DEF Books

\* A worker takes a request.
LEMMA AcceptBooks ==
  ASSUME IInv, IInv', BalanceInv, NEW w \in Workers, NEW h, Accept(w, h),
         UNCHANGED <<item, reservation, alerts, ledger, edited>>,
         h.op \in RequestKinds, h.todo = Program(h.op), h.items \subseteq Items,
         h.op # "sweep" => \E i \in Items : h.items = {i},
         \A r \in h.batch : reservation[r].item \in h.items,
         disturbed \subseteq disturbed', disturbed' \subseteq Items,
         \A i \in h.items : InUse(i) => i \in disturbed',
         \A i \in h.items : i \notin disturbed' /\ Balanced(i) => \E q \in Nat : Accounted(h, i, q)
  PROVE  BalanceInv'
<1>1. /\ handler' = [handler EXCEPT ![w] = h] /\ ~Busy(w)
      /\ \A v \in Workers : handler'[v] = IF v = w THEN h ELSE handler[v]
  BY DEF Accept, IInv
<1>2. InOrder(h) /\ h.todo # << >> /\ Head(h.todo) # "raise"
  BY ProgramOrder
<1>3. ASSUME NEW v \in Workers, Busy(v)' PROVE Orderly(handler[v])'
  <2>1. CASE v = w
    <3>1. handler'[v] = h /\ reservation' = reservation
      BY <1>1, <2>1
    <3>2. InOrder(handler[v])'
      BY <1>2, <3>1 DEF InOrder
    <3> QED
      BY <3>1, <3>2 DEF Orderly
  <2>2. CASE v # w
    <3>1. handler'[v] = handler[v] /\ reservation' = reservation
      BY <1>1, <2>2
    <3>2. Busy(v) /\ Orderly(handler[v])
      BY <1>3, <3>1 DEF BalanceInv, Busy
    <3> QED
      BY <3>1, <3>2 DEF Orderly, InOrder
  <2> QED
    BY <2>1, <2>2
<1>4. \A i : Held(i)' = Held(i)
  BY SameReservations
<1>10. \A i : Unedited(i)' = Unedited(i)
  BY SameRow
<1>5. \A i : Balanced(i) => Balanced(i)'
  BY <1>4, <1>10 DEF Balanced
<1>6. ASSUME NEW f, NEW i, UnderWay(f, i) PROVE UnderWay(f, i)'
  BY <1>4, <1>6, <1>10 DEF UnderWay, Accounted, Books, Fresh, Settles
<1>7. ASSUME NEW i \in Items, i \notin disturbed' PROVE Kept(i)'
  <2>1. i \notin disturbed /\ Kept(i)
    BY <1>7 DEF BalanceInv
  <2>2. \A v \in Workers : v # w => (Works(v, i)' <=> Works(v, i))
    BY <1>1 DEF Works, Busy
  <2>3. Works(w, i)' <=> i \in h.items
    BY <1>1, <1>2 DEF Works, Busy
  <2>4. i \in h.items => \A v \in Workers : ~Works(v, i)
    BY <1>7 DEF InUse, Works
  <2>5. \A v, x \in Workers : Works(v, i)' /\ Works(x, i)' => v = x
    BY <2>1, <2>2, <2>3, <2>4 DEF Kept
  <2>6. ASSUME ~InUse(i)' PROVE Balanced(i)'
    <3>1. \A v \in Workers : ~Works(v, i)'
      BY <2>6 DEF InUse, Works
    <3>2. \A v \in Workers : ~Works(v, i)
      BY <1>1, <2>2, <3>1 DEF Works
    <3>3. ~InUse(i)
      BY <3>2 DEF InUse, Works
    <3> QED
      BY <1>5, <2>1, <3>3 DEF Kept
  <2>7. Consistent(alerts[i])'
    BY <2>1 DEF Kept, Consistent
  <2>8. ASSUME NEW v \in Workers, Works(v, i)' PROVE UnderWay(handler[v], i)'
    <3>1. CASE v = w
      <4>1. i \in h.items /\ Balanced(i)
        BY <2>1, <2>3, <2>4, <2>8, <3>1 DEF Kept, InUse, Works
      <4>2. \E q \in Nat : Accounted(h, i, q)
        BY <1>7, <4>1
      <4>3. UnderWay(h, i)
        BY <1>2, <4>2 DEF UnderWay
      <4>4. UnderWay(h, i)'
        BY <1>6, <4>3
      <4>5. handler'[v] = h
        BY <1>1, <3>1
      <4> QED
        BY <4>4, <4>5 DEF UnderWay, Accounted, Books, Fresh, Settles
    <3>2. CASE v # w
      <4>1. PICK f : f = handler[v]
        OBVIOUS
      <4>2. UnderWay(f, i) /\ handler'[v] = f
        BY <1>1, <2>1, <2>2, <2>8, <3>2, <4>1 DEF Kept
      <4>3. UnderWay(f, i)'
        BY <1>6, <4>2
      <4> QED
        BY <4>2, <4>3 DEF UnderWay, Accounted, Books, Fresh, Settles
    <3> QED
      BY <3>1, <3>2
  <2> QED
    BY <2>5, <2>6, <2>7, <2>8 DEF Kept
<1>8. /\ ledger' \in [Items -> [net : Int, out : Int]] /\ alerts' \in [Items -> SUBSET Alert]
      /\ edited' \in [Items -> [available : Int, reserved : Int]]
  BY DEF BalanceInv
<1>9. \A i \in Items \ disturbed' : Kept(i)'
  BY <1>7
<1> QED
  BY <1>3, <1>8, <1>9 DEF BalanceInv

LEMMA ReceiveStockBooks ==
  ASSUME IInv, IInv', BalanceInv, NEW w \in Workers, NEW op \in StockRequests, NEW i \in Items,
         NEW q \in Quantities, ReceiveStock(w, op, i, q)
  PROVE  BalanceInv'
<1>1. PICK row, new : row = item[i] /\ new = Compute(op, item[i], q)
  OBVIOUS
<1>2. PICK h : h = [op |-> op, todo |-> Program(op), items |-> {i}, batch |-> {},
                    copy |-> [item EXCEPT ![i] = new], qty |-> q,
                    net |-> new.available - row.available]
  OBVIOUS
<1>3. /\ Accept(w, h) /\ UNCHANGED <<item, reservation, alerts, ledger, edited>>
      /\ disturbed' = disturbed \union {j \in {i} : InUse(j)}
  BY <1>1, <1>2 DEF ReceiveStock
<1>4. /\ h.op = op /\ h.todo = Program(h.op) /\ h.items = {i} /\ h.batch = {} /\ h.qty = q
      /\ h.net = new.available - row.available /\ h.copy[i] = new
  BY <1>2 DEF IInv
<1>5. op \in RequestKinds /\ op # "sweep" /\ op # "edit" /\ op \notin Settling /\ q \in Nat /\ row \in Stock
  BY <1>1, InventoryConstants DEF RequestKinds, StockRequests, SettleRequests, Settling, IInv
<1>7. ASSUME Balanced(i) PROVE Accounted(h, i, q)
  <2>1. Books(h, q, Unedited(i), ledger[i], Held(i))
    BY <1>4, <1>5, <1>7, StartedBooks
  <2>2. Fresh(h, i, q, item[i])
    BY <1>1, <1>4, <1>5 DEF Fresh, Written, Adds
  <2> QED
    BY <1>4, <1>5, <2>1, <2>2 DEF Accounted
<1>8. /\ disturbed \subseteq disturbed' /\ disturbed' \subseteq Items
      /\ \A j \in h.items : InUse(j) => j \in disturbed'
  BY <1>3, <1>4 DEF BalanceInv
<1>9. \A j \in h.items : j \notin disturbed' /\ Balanced(j) => \E p \in Nat : Accounted(h, j, p)
  BY <1>4, <1>5, <1>7
<1>10. h.op \in RequestKinds /\ h.items \subseteq Items /\ \A r \in h.batch : reservation[r].item \in h.items
  BY <1>4, <1>5
<1> QED
  BY <1>3, <1>4, <1>8, <1>9, <1>10, AcceptBooks

LEMMA ReceiveEditBooks ==
  ASSUME IInv, IInv', BalanceInv, NEW w \in Workers, NEW i \in Items, NEW a, NEW b,
         ReceiveEdit(w, i, a, b)
  PROVE  BalanceInv'
<1>1. PICK row, new : row = item[i] /\ new = [item[i] EXCEPT !.available = a, !.reserved = b]
  OBVIOUS
<1>2. PICK h : h = [op |-> "edit", todo |-> Program("edit"), items |-> {i}, batch |-> {},
                    copy |-> [item EXCEPT ![i] = new], qty |-> 0, net |-> 0]
  OBVIOUS
<1>3. /\ Accept(w, h) /\ UNCHANGED <<item, reservation, alerts, ledger, edited>>
      /\ disturbed' = disturbed \union {j \in {i} : InUse(j)}
  BY <1>1, <1>2 DEF ReceiveEdit
<1>4. /\ h.op = "edit" /\ h.todo = Program(h.op) /\ h.items = {i} /\ h.batch = {} /\ h.qty = 0
      /\ h.net = 0 /\ h.copy[i] = new
  BY <1>2 DEF IInv
<1>5. row \in Stock /\ new.sold = row.sold
  BY <1>1 DEF IInv, Stock
<1>6. h.op \in RequestKinds /\ h.op # "sweep" /\ h.op \notin Settling
  BY <1>4 DEF RequestKinds, SettleRequests, Settling
<1>7. ASSUME Balanced(i) PROVE Accounted(h, i, 0)
  <2>1. Books(h, 0, Unedited(i), ledger[i], Held(i))
    BY <1>4, <1>6, <1>7, StartedBooks
  <2>2. Fresh(h, i, 0, item[i])
    <3>1. Written(h, row, 0) = row /\ Adds(h, 0) = 0 /\ row.available \in Int
      BY <1>4, <1>5 DEF Written, Compute, Adds, Stock
    <3> QED
      BY <1>1, <1>4, <1>5, <3>1 DEF Fresh
  <2> QED
    BY <1>4, <1>6, <2>1, <2>2 DEF Accounted
<1>8. /\ disturbed \subseteq disturbed' /\ disturbed' \subseteq Items
      /\ \A j \in h.items : InUse(j) => j \in disturbed'
  BY <1>3, <1>4 DEF BalanceInv
<1>9. \A j \in h.items : j \notin disturbed' /\ Balanced(j) => \E p \in Nat : Accounted(h, j, p)
  BY <1>4, <1>7
<1>10. h.items \subseteq Items /\ \A r \in h.batch : reservation[r].item \in h.items
  BY <1>4
<1> QED
  BY <1>3, <1>4, <1>6, <1>8, <1>9, <1>10, AcceptBooks

LEMMA ReceiveSettleBooks ==
  ASSUME IInv, IInv', BalanceInv, NEW w \in Workers, NEW op \in SettleRequests, NEW r \in Reservations,
         ReceiveSettle(w, op, r)
  PROVE  BalanceInv'
<1>1. PICK i, q, row : i = reservation[r].item /\ q = reservation[r].qty /\ row = item[i]
  OBVIOUS
<1>2. PICK h : h = [op |-> op, todo |-> Program(op), items |-> {i}, batch |-> {r}, copy |-> item,
                    qty |-> q, net |-> IF op = "release" THEN q ELSE 0]
  OBVIOUS
<1>3. /\ Exists(r) /\ reservation[r].status = "ACTIVE" /\ Accept(w, h)
      /\ UNCHANGED <<item, reservation, alerts, ledger, edited>>
      /\ disturbed' = disturbed \union {j \in {i} : InUse(j)}
  BY <1>1, <1>2 DEF ReceiveSettle, MaySettle
<1>4. /\ h.op = op /\ h.todo = Program(h.op) /\ h.items = {i} /\ h.batch = {r} /\ h.qty = q
      /\ h.net = IF op = "release" THEN q ELSE 0
  BY <1>2
<1>5. op \in RequestKinds \ {"sweep"} /\ op \in Settling /\ op # "edit" /\ op \in {"confirm", "release"}
  BY DEF RequestKinds, SettleRequests, Settling
<1>6. i \in Items /\ q \in Nat /\ row \in Stock
  BY <1>1, <1>3 DEF IInv, Exists, Reservation
<1>7. ASSUME Balanced(i) PROVE Accounted(h, i, q)
  <2>1. Books(h, q, Unedited(i), ledger[i], Held(i))
    BY <1>4, <1>5, <1>6, <1>7, StartedBooks
  <2>2. Pending(h, {"load"})
    BY <1>4, <1>5, ProgramOrder
  <2>3. /\ op = "release" => Compute(op, row, q).available = row.available + q
        /\ op = "confirm" => Compute(op, row, q).available = row.available
    BY <1>5, <1>6, OverwriteCompute
  <2>4. Adds(h, q) = Written(h, row, q).available - row.available
    BY <1>4, <1>5, <1>6, <2>3 DEF Adds, Written, Stock
  <2>5. Fresh(h, i, q, item[i])
    BY <1>1, <1>4, <1>5, <2>2, <2>4 DEF Fresh
  <2>6. Settles(h, i, q)
    BY <1>1, <1>3, <1>4 DEF Settles
  <2> QED
    BY <1>4, <1>5, <2>1, <2>5, <2>6 DEF Accounted
<1>8. /\ disturbed \subseteq disturbed' /\ disturbed' \subseteq Items
      /\ \A j \in h.items : InUse(j) => j \in disturbed'
  BY <1>3, <1>4, <1>6 DEF BalanceInv
<1>9. \A j \in h.items : j \notin disturbed' /\ Balanced(j) => \E p \in Nat : Accounted(h, j, p)
  BY <1>4, <1>6, <1>7
<1>10. /\ h.op \in RequestKinds /\ h.items \subseteq Items
       /\ \A s \in h.batch : reservation[s].item \in h.items
  BY <1>1, <1>4, <1>5, <1>6
<1> QED
  BY <1>3, <1>4, <1>6, <1>8, <1>9, <1>10, AcceptBooks

LEMMA ReceiveSweepBooks ==
  ASSUME IInv, IInv', BalanceInv, NEW w \in Workers, ReceiveSweep(w)
  PROVE  BalanceInv'
<1>1. PICK batch : batch = {r \in Reservations : /\ Exists(r)
                                                 /\ reservation[r].status = "ACTIVE"
                                                 /\ reservation[r].due}
  OBVIOUS
<1>2. PICK touched : touched = {reservation[r].item : r \in batch}
  OBVIOUS
<1>3. PICK shared : shared = {i \in touched : \E r, s \in batch :
                                r # s /\ reservation[r].item = i /\ reservation[s].item = i}
  OBVIOUS
<1>4. PICK h : h = [op |-> "sweep", todo |-> Program("sweep"), items |-> touched, batch |-> batch,
                    copy |-> item, qty |-> 0, net |-> 0]
  OBVIOUS
<1>5. /\ Accept(w, h) /\ UNCHANGED <<item, reservation, alerts, ledger, edited>>
      /\ disturbed' = disturbed \union shared \union {i \in touched : InUse(i)}
  BY <1>1, <1>2, <1>3, <1>4 DEF ReceiveSweep
<1>6. /\ h.op = "sweep" /\ h.todo = Program(h.op) /\ h.items = touched /\ h.batch = batch
      /\ h.copy = item
  BY <1>4
<1>7. /\ "sweep" \in RequestKinds /\ "sweep" \in Settling /\ "sweep" # "edit"
      /\ "release" \in RequestKinds \ {"sweep"}
  BY DEF RequestKinds, SettleRequests, Settling
<1>8. ASSUME NEW r \in batch
      PROVE  /\ r \in Reservations /\ Exists(r) /\ reservation[r].status = "ACTIVE"
             /\ reservation[r].item \in Items /\ reservation[r].qty \in Nat
             /\ reservation[r].item \in touched
  <2>1. r \in Reservations /\ Exists(r) /\ reservation[r].status = "ACTIVE"
    BY <1>1, <1>8
  <2>2. reservation[r] \in Reservation
    BY <2>1 DEF IInv, Exists
  <2> QED
    BY <1>2, <1>8, <2>1, <2>2 DEF Reservation
<1>9. touched \subseteq Items
  BY <1>2, <1>8
<1>10. ASSUME NEW i \in touched, i \notin shared, Balanced(i) PROVE \E q \in Nat : Accounted(h, i, q)
  <2>1. PICK r \in batch : reservation[r].item = i
    BY <1>2, <1>10
  <2>2. PICK q \in Nat : q = reservation[r].qty
    BY <1>8, <2>1
  <2>3. PICK row : row = item[i]
    OBVIOUS
  <2>4. i \in Items /\ row \in Stock
    BY <1>9, <1>10, <2>3 DEF IInv
  <2>5. Books(h, q, Unedited(i), ledger[i], Held(i))
    BY <1>6, <1>7, <1>10, <2>4, StartedBooks
  <2>6. Compute("release", row, q).available = row.available + q
    BY <1>7, <2>4, OverwriteCompute
  <2>7. Adds(h, q) = Written(h, row, q).available - row.available
    BY <1>6, <2>4, <2>6 DEF Adds, Written, Stock
  <2>8. Fresh(h, i, q, item[i])
    BY <1>6, <2>3, <2>7 DEF Fresh
  <2>9. \A s \in batch : reservation[s].item = i => s = r
    BY <1>3, <1>10, <2>1
  <2>10. Settles(h, i, q)
    BY <1>6, <1>8, <2>1, <2>2, <2>9 DEF Settles
  <2>11. Accounted(h, i, q)
    BY <1>6, <2>5, <2>8, <2>10 DEF Accounted
  <2> QED
    BY <2>11
<1>11. /\ disturbed \subseteq disturbed' /\ disturbed' \subseteq Items
       /\ \A j \in h.items : InUse(j) => j \in disturbed'
  BY <1>3, <1>5, <1>6, <1>9 DEF BalanceInv
<1>12. \A j \in h.items : j \notin disturbed' /\ Balanced(j) => \E q \in Nat : Accounted(h, j, q)
  BY <1>5, <1>6, <1>10
<1>13. /\ h.op \in RequestKinds /\ h.items \subseteq Items
       /\ \A s \in h.batch : reservation[s].item \in h.items
  BY <1>6, <1>7, <1>8, <1>9
<1> QED
  BY <1>5, <1>6, <1>11, <1>12, <1>13, AcceptBooks

-----------------------------------------------------------------------------
(* The invariant of the books. *)

LEMMA CrashBooks ==
  ASSUME IInv, IInv', BalanceInv, NEW w \in Workers, Crash(w)
  PROVE  BalanceInv'
<1>1. /\ Busy(w) /\ handler' = [handler EXCEPT ![w] = Idle]
      /\ disturbed' = disturbed \union handler[w].items
      /\ UNCHANGED <<item, reservation, alerts, ledger, edited>>
  BY DEF Crash
<1>2. \A v \in Workers : handler'[v] = IF v = w THEN Idle ELSE handler[v]
  BY <1>1 DEF IInv
<1>3. \A v \in Workers : Busy(v)' => v # w /\ Busy(v) /\ handler'[v] = handler[v]
  BY <1>2, IdleSafe DEF Busy
<1>4. ASSUME NEW v \in Workers, Busy(v)' PROVE Orderly(handler[v])'
  <2>1. Orderly(handler[v]) /\ handler'[v] = handler[v] /\ reservation' = reservation
    BY <1>1, <1>3, <1>4 DEF BalanceInv
  <2> QED
    BY <2>1 DEF Orderly, InOrder
<1>5. \A i : Held(i)' = Held(i)
  BY <1>1, SameReservations
<1>10. \A i : Unedited(i)' = Unedited(i)
  BY <1>1, SameRow
<1>6. ASSUME NEW i \in Items, i \notin disturbed' PROVE Kept(i)'
  <2>1. i \notin disturbed /\ Kept(i) /\ ~Works(w, i)
    BY <1>1, <1>6 DEF BalanceInv, Works
  <2>2. \A v \in Workers : Works(v, i)' <=> Works(v, i)
    BY <1>1, <1>2, <1>3, <2>1 DEF Works, Busy
  <2>3. \A v, x \in Workers : Works(v, i)' /\ Works(x, i)' => v = x
    BY <2>1, <2>2 DEF Kept
  <2>4. InUse(i)' <=> InUse(i)
    BY <2>2 DEF InUse, Works
  <2>5. ~InUse(i)' => Balanced(i)'
    BY <1>1, <1>5, <1>10, <2>1, <2>4 DEF Kept, Balanced
  <2>6. Consistent(alerts[i])'
    BY <1>1, <2>1 DEF Kept, Consistent
  <2>7. ASSUME NEW v \in Workers, Works(v, i)' PROVE UnderWay(handler[v], i)'
    <3>1. UnderWay(handler[v], i) /\ handler'[v] = handler[v]
      BY <1>3, <2>1, <2>2, <2>7 DEF Kept, Works
    <3> QED
      BY <1>1, <1>5, <1>10, <3>1 DEF UnderWay, Accounted, Books, Fresh, Settles
  <2> QED
    BY <2>3, <2>5, <2>6, <2>7 DEF Kept
<1>7. \A i \in Items \ disturbed' : Kept(i)'
  BY <1>6
<1>8. disturbed' \subseteq Items
  BY <1>1, HandlerFacts DEF BalanceInv
<1>9. /\ ledger' \in [Items -> [net : Int, out : Int]] /\ alerts' \in [Items -> SUBSET Alert]
      /\ edited' \in [Items -> [available : Int, reserved : Int]]
  BY <1>1 DEF BalanceInv
<1> QED
  BY <1>4, <1>7, <1>8, <1>9 DEF BalanceInv

LEMMA BecomeDueBooks ==
  ASSUME IInv, IInv', BalanceInv, NEW r \in Reservations, BecomeDue(r)
  PROVE  BalanceInv'
<1>1. PICK old : old = reservation[r]
  OBVIOUS
<1>2. /\ Exists(r) /\ UNCHANGED <<item, alerts, ledger, handler, edited, disturbed>>
      /\ reservation' = [reservation EXCEPT ![r] = [old EXCEPT !.due = TRUE]]
  BY <1>1 DEF BecomeDue
<1>3. old \in Reservation
  BY <1>1, <1>2 DEF IInv, Exists
<1>4. PICK new : new = [old EXCEPT !.due = TRUE]
  OBVIOUS
<1>5. new \in Reservation /\ new.item = old.item /\ new.qty = old.qty /\ new.status = old.status
  BY <1>3, <1>4 DEF Reservation
<1>6. \A s \in Reservations : reservation'[s] = IF s = r THEN new ELSE reservation[s]
  BY <1>2, <1>4 DEF IInv
<1>7. ASSUME NEW s \in Reservations
      PROVE  /\ Exists(s)' <=> Exists(s)
             /\ reservation'[s].item = reservation[s].item
             /\ reservation'[s].qty = reservation[s].qty
             /\ reservation'[s].status = reservation[s].status
  BY <1>1, <1>2, <1>5, <1>6, NoReservationIsNone DEF Exists
<1>8. SameItems /\ \A i : Untouched(i)
  BY <1>7 DEF SameItems, Untouched
<1>9. ASSUME NEW v \in Workers, Busy(v)' PROVE Orderly(handler[v])'
  <2>1. PICK h : h = handler[v]
    OBVIOUS
  <2>2. Orderly(h) /\ handler'[v] = h /\ h.batch \subseteq Reservations
    BY <1>2, <1>9, <2>1, HandlerFacts DEF BalanceInv, Busy
  <2>3. \A s \in h.batch : reservation'[s].item \in h.items
    BY <1>7, <2>2 DEF Orderly
  <2> QED
    BY <2>2, <2>3 DEF Orderly, InOrder
<1>10. ASSUME NEW i \in Items \ disturbed PROVE Kept(i)'
  <2>1. Kept(i) /\ Unseen(i)
    BY <1>2, <1>8, <1>10 DEF BalanceInv, Unseen
  <2>2. \A v \in Workers : Works(v, i)' <=> Works(v, i)
    BY <1>2 DEF Works, Busy
  <2>3. \A v, x \in Workers : Works(v, i)' /\ Works(x, i)' => v = x
    BY <2>1, <2>2 DEF Kept
  <2>4. InUse(i)' <=> InUse(i)
    BY <1>2 DEF InUse, Busy
  <2>5. ~InUse(i)' => Balanced(i)'
    BY <2>1, <2>4, UnseenBalanced DEF Kept
  <2>6. Consistent(alerts[i])'
    BY <1>2, <2>1 DEF Kept, Consistent
  <2>7. ASSUME NEW v \in Workers, Works(v, i)' PROVE UnderWay(handler[v], i)'
    <3>1. PICK h : h = handler[v]
      OBVIOUS
    <3>2. UnderWay(h, i) /\ handler'[v] = h
      BY <1>2, <2>1, <2>2, <2>7, <3>1 DEF Kept
    <3>3. h.batch \subseteq Reservations /\ \A s \in h.batch : Exists(s) /\ Exists(s)'
      BY <1>8, <3>1, HandlerFacts DEF SameItems
    <3>4. UnderWay(h, i)'
      BY <2>1, <3>2, <3>3, UnseenUnderWay
    <3> QED
      BY <1>2, <3>2, <3>4 DEF UnderWay, Accounted, Books, Fresh, Settles
  <2> QED
    BY <2>3, <2>5, <2>6, <2>7 DEF Kept
<1>11. /\ disturbed' = disturbed
       /\ edited' \in [Items -> [available : Int, reserved : Int]]
       /\ ledger' \in [Items -> [net : Int, out : Int]] /\ alerts' \in [Items -> SUBSET Alert]
  BY <1>2 DEF BalanceInv
<1>12. \A i \in Items \ disturbed' : Kept(i)'
  BY <1>10, <1>11
<1> QED
  BY <1>9, <1>11, <1>12 DEF BalanceInv

\* The admin form of a reservation disturbs the item it is about.
LEMMA AdminReservationBooks ==
  ASSUME IInv, IInv', BalanceInv, NEW r \in Reservations, NEW status \in {"ACTIVE"} \union Settled,
         NEW q \in Quantities, AdminReservation(r, status, q)
  PROVE  BalanceInv'
<1>1. PICK old : old = reservation[r]
  OBVIOUS
<1>2. /\ Exists(r) /\ UNCHANGED <<item, alerts, ledger, handler, edited>>
      /\ reservation' = [reservation EXCEPT ![r] = [old EXCEPT !.status = status, !.qty = q]]
      /\ disturbed' = disturbed \union {old.item}
  BY <1>1 DEF AdminReservation
<1>3. old \in Reservation
  BY <1>1, <1>2 DEF IInv, Exists
<1>4. PICK new : new = [old EXCEPT !.status = status, !.qty = q]
  OBVIOUS
<1>5. new \in Reservation /\ new.item = old.item
  BY <1>3, <1>4, InventoryConstants DEF Reservation
<1>6. \A s \in Reservations : reservation'[s] = IF s = r THEN new ELSE reservation[s]
  BY <1>2, <1>4 DEF IInv
<1>7. ASSUME NEW s \in Reservations
      PROVE  /\ Exists(s)' <=> Exists(s)
             /\ reservation'[s].item = reservation[s].item
             /\ s # r => reservation'[s] = reservation[s]
  BY <1>1, <1>2, <1>5, <1>6, NoReservationIsNone DEF Exists
<1>8. SameItems /\ \A i : i # old.item => Untouched(i)
  BY <1>1, <1>7 DEF SameItems, Untouched
<1>9. ASSUME NEW v \in Workers, Busy(v)' PROVE Orderly(handler[v])'
  <2>1. PICK h : h = handler[v]
    OBVIOUS
  <2>2. Orderly(h) /\ handler'[v] = h /\ h.batch \subseteq Reservations
    BY <1>2, <1>9, <2>1, HandlerFacts DEF BalanceInv, Busy
  <2>3. \A s \in h.batch : reservation'[s].item \in h.items
    BY <1>7, <2>2 DEF Orderly
  <2> QED
    BY <2>2, <2>3 DEF Orderly, InOrder
<1>10. ASSUME NEW i \in Items, i \notin disturbed' PROVE Kept(i)'
  <2>1. Kept(i) /\ Unseen(i)
    BY <1>2, <1>8, <1>10 DEF BalanceInv, Unseen
  <2>2. \A v \in Workers : Works(v, i)' <=> Works(v, i)
    BY <1>2 DEF Works, Busy
  <2>3. \A v, x \in Workers : Works(v, i)' /\ Works(x, i)' => v = x
    BY <2>1, <2>2 DEF Kept
  <2>4. InUse(i)' <=> InUse(i)
    BY <1>2 DEF InUse, Busy
  <2>5. ~InUse(i)' => Balanced(i)'
    BY <2>1, <2>4, UnseenBalanced DEF Kept
  <2>6. Consistent(alerts[i])'
    BY <1>2, <2>1 DEF Kept, Consistent
  <2>7. ASSUME NEW v \in Workers, Works(v, i)' PROVE UnderWay(handler[v], i)'
    <3>1. PICK h : h = handler[v]
      OBVIOUS
    <3>2. UnderWay(h, i) /\ handler'[v] = h
      BY <1>2, <2>1, <2>2, <2>7, <3>1 DEF Kept
    <3>3. h.batch \subseteq Reservations /\ \A s \in h.batch : Exists(s) /\ Exists(s)'
      BY <1>8, <3>1, HandlerFacts DEF SameItems
    <3>4. UnderWay(h, i)'
      BY <2>1, <3>2, <3>3, UnseenUnderWay
    <3> QED
      BY <1>2, <3>2, <3>4 DEF UnderWay, Accounted, Books, Fresh, Settles
  <2> QED
    BY <2>3, <2>5, <2>6, <2>7 DEF Kept
<1>11. /\ disturbed' \subseteq Items
       /\ edited' \in [Items -> [available : Int, reserved : Int]]
       /\ ledger' \in [Items -> [net : Int, out : Int]] /\ alerts' \in [Items -> SUBSET Alert]
  BY <1>2, <1>3 DEF BalanceInv, Reservation
<1>12. \A i \in Items \ disturbed' : Kept(i)'
  BY <1>10
<1> QED
  BY <1>9, <1>11, <1>12 DEF BalanceInv

LEMMA StutterBooks ==
  ASSUME BalanceInv, UNCHANGED vars
  PROVE  BalanceInv'
<1>1. /\ item' = item /\ reservation' = reservation /\ alerts' = alerts /\ ledger' = ledger
      /\ handler' = handler /\ disturbed' = disturbed /\ edited' = edited
  BY DEF vars
<1>2. \A i : Held(i)' = Held(i) /\ Unedited(i)' = Unedited(i)
  BY <1>1, SameReservations, SameRow
<1>3. \A w : Busy(w)' <=> Busy(w)
  BY <1>1 DEF Busy
<1>4. ASSUME NEW w \in Workers, Busy(w)' PROVE Orderly(handler[w])'
  BY <1>1, <1>3, <1>4 DEF BalanceInv, Orderly, InOrder
<1>5. ASSUME NEW i \in Items \ disturbed PROVE Kept(i)'
  <2>1. Kept(i)
    BY DEF BalanceInv
  <2>2. (\A w : Works(w, i)' <=> Works(w, i)) /\ (InUse(i)' <=> InUse(i))
    BY <1>1, <1>3 DEF Works, InUse
  <2>3. ASSUME NEW w \in Workers, UnderWay(handler[w], i) PROVE UnderWay(handler[w], i)'
    BY <1>1, <1>2, <2>3 DEF UnderWay, Accounted, Books, Fresh, Settles
  <2>4. ~InUse(i)' => Balanced(i)'
    BY <1>1, <1>2, <2>1, <2>2 DEF Kept, Balanced
  <2>5. Consistent(alerts[i])'
    BY <1>1, <2>1 DEF Kept, Consistent
  <2>6. \A w \in Workers : Works(w, i)' => UnderWay(handler[w], i)'
    BY <2>1, <2>2, <2>3 DEF Kept
  <2>7. \A v, w \in Workers : Works(v, i)' /\ Works(w, i)' => v = w
    BY <2>1, <2>2 DEF Kept
  <2> QED
    BY <2>4, <2>5, <2>6, <2>7 DEF Kept
<1> QED
  BY <1>1, <1>4, <1>5 DEF BalanceInv

LEMMA InitBooks == Init => BalanceInv
<1> SUFFICES ASSUME Init PROVE BalanceInv
  OBVIOUS
<1>1. \A w \in Workers : ~Busy(w)
  BY IdleSafe DEF Init, Busy
<1>2. ASSUME NEW i \in Items PROVE Balanced(i)
  <2>1. IInv
    BY InitInv
  <2>2. PICK S, u : S = Holding(i) /\ u = reservation
    OBVIOUS
  <2>3. S = {}
    BY <2>2 DEF Holding, Exists, Init
  <2>4. /\ IsFiniteSet(S) /\ Held(i) = Total(u, S) /\ \A r \in S : u[r].qty \in Int
    BY <2>1, <2>2, HoldingFinite
  <2>5. Held(i) = 0
    BY <2>3, <2>4, TotalFacts
  <2>6. /\ item[i].available = InitialStock /\ item[i].reserved = 0 /\ item[i].sold = 0
        /\ ledger[i].net = 0 /\ ledger[i].out = 0
        /\ edited[i].available = 0 /\ edited[i].reserved = 0
    BY <1>2 DEF Init, NewRow
  <2> QED
    BY <2>5, <2>6, InventoryConstants DEF Balanced, Unedited
<1>3. ASSUME NEW i \in Items PROVE Kept(i)
  <2>1. Consistent(alerts[i])
    BY <1>3 DEF Init, Consistent
  <2> QED
    BY <1>1, <1>2, <1>3, <2>1 DEF Kept, Works
<1> QED
  BY <1>1, <1>3 DEF BalanceInv, Init

LEMMA NextBooks ==
  ASSUME IInv, IInv', BalanceInv, [Next]_vars
  PROVE  BalanceInv'
<1>1. ASSUME NEW w \in Workers, Receive(w) PROVE BalanceInv'
  BY <1>1, ReceiveStockBooks, ReceiveEditBooks, ReceiveSettleBooks, ReceiveSweepBooks DEF Receive
<1>2. ASSUME NEW w \in Workers, Execute(w) PROVE BalanceInv'
  BY <1>2, SaveItemBooks, ResolveAlertsBooks, RaiseAlertsBooks, RecordMovementBooks,
     InsertReservationBooks, SaveStatusBooks, LoadItemBooks, RestockBooks, RecordReleasesBooks,
     NotifyExpiredBooks
     DEF Execute
<1>3. ASSUME NEW w \in Workers, Crash(w) PROVE BalanceInv'
  BY <1>3, CrashBooks
<1>4. ASSUME NEW r \in Reservations, BecomeDue(r) PROVE BalanceInv'
  BY <1>4, BecomeDueBooks
<1>5. ASSUME NEW r \in Reservations, NEW status \in {"ACTIVE"} \union Settled, NEW q \in Quantities,
             AdminReservation(r, status, q)
      PROVE  BalanceInv'
  BY <1>5, AdminReservationBooks
<1>6. CASE UNCHANGED vars
  BY <1>6, StutterBooks
<1> QED
  BY <1>1, <1>2, <1>3, <1>4, <1>5, <1>6 DEF Next

-----------------------------------------------------------------------------
(* The theorems about undisturbed items. *)

\* Of an item whose requests came one after the other, at most one request is
\* under way, and the row without what edits have put there, the movements and
\* the reservations differ by exactly what that request has done and has still
\* to do.
THEOREM BooksInvariance == Spec => []BalanceInv
<1>1. IInv /\ BalanceInv /\ IInv' /\ [Next]_vars => BalanceInv'
  BY NextBooks
<1> QED
  BY <1>1, InitBooks, Invariance, PTL DEF Spec

\* Between two requests on an item that were not disturbed, the reserved stock
\* is what the ACTIVE reservations hold, and the movements explain the available
\* and the sold stock, but for what edits of the row have put there, whatever
\* happens to the other items meanwhile.
THEOREM BalanceKept == Spec => []UndisturbedBalance
<1>1. BalanceInv => UndisturbedBalance
  BY DEF BalanceInv, Kept, UndisturbedBalance
<1> QED
  BY <1>1, BooksInvariance, PTL

\* As long as no two requests met on an item and none was cut short, its ACTIVE
\* alerts never say that it is out of stock and low on stock or overstocked at
\* once: the receiver of post_save resolves before it raises.
THEOREM AlertsKept == Spec => []UndisturbedAlerts
<1>1. ASSUME NEW a, NEW x, NEW y, ~({x, y} \subseteq a)
      PROVE  Cardinality(a \intersect {x, y}) <= 1
  <2>1. a \intersect {x, y} \subseteq {x} \/ a \intersect {x, y} \subseteq {y}
    BY <1>1
  <2>2. ASSUME NEW z, a \intersect {x, y} \subseteq {z} PROVE Cardinality(a \intersect {x, y}) <= 1
    <3>1. IsFiniteSet({z}) /\ Cardinality({z}) = 1
      BY FS_Singleton
    <3>2. Cardinality(a \intersect {x, y}) <= Cardinality({z})
      BY <2>2, <3>1, FS_Subset
    <3> QED
      BY <3>1, <3>2
  <2> QED
    BY <2>1, <2>2
<1>2. BalanceInv => UndisturbedAlerts
  BY <1>1 DEF BalanceInv, Kept, Consistent, UndisturbedAlerts
<1> QED
  BY <1>2, BooksInvariance, PTL

\* A reservation that was confirmed, released or expired stays so, unless two
\* requests met on its item, one was cut short or the admin form was used: but
\* for the form, only the status statement writes one that exists, and the one
\* request at work on the item found it ACTIVE.
THEOREM NobodySettlesAgain == Spec => SettledOnce
<1>1. ASSUME IInv, BalanceInv, [Next]_vars, NEW r \in Reservations, Exists(r),
             reservation[r].status \in Settled, reservation[r].item \notin disturbed'
      PROVE  reservation'[r].status = reservation[r].status
  <2>1. reservation[r] \in Reservation /\ reservation[r].item \in Items
    BY <1>1 DEF IInv, Exists, Reservation
  <2>8. disturbed \subseteq disturbed'
    BY <1>1 DEF Next, Receive, ReceiveStock, ReceiveEdit, ReceiveSettle, ReceiveSweep, Execute,
       SaveItem, ResolveAlerts, RaiseAlerts, RecordMovement, InsertReservation, SaveStatus, LoadItem,
       Restock, RecordReleases, NotifyExpired, Crash, BecomeDue, AdminReservation, vars
  <2>2. ASSUME NEW w \in Workers, SaveStatus(w) PROVE r \notin handler[w].batch
    <3> SUFFICES ASSUME r \in handler[w].batch PROVE FALSE
      OBVIOUS
    <3>1. PICK h, i : h = handler[w] /\ i = reservation[r].item
      OBVIOUS
    <3>2. Busy(w) /\ Head(h.todo) \in {"status", "expire"} /\ Advance(w)
      BY <2>2, <3>1 DEF SaveStatus, Runs
    <3>3. Orderly(h) /\ i \in h.items /\ h.todo \in Seq(Statement) /\ h.todo # << >> /\ UnderWay(h, i)
      BY <1>1, <2>1, <2>8, <3>1, <3>2, HandlerFacts DEF BalanceInv, Orderly, Kept, Works, Busy
    <3>4. PICK g : g = [h EXCEPT !.todo = Tail(h.todo)]
      OBVIOUS
    <3>5. g.todo = Tail(h.todo) /\ g.op = h.op
      BY <1>1, <3>1, <3>4 DEF IInv, SafeHandler
    <3>6. h.op \in Settling
      BY <3>2, <3>3, <3>5, Popped DEF Orderly, SweepStatements, Settling
    <3>7. Pending(h, ReservationStatements)
      BY <3>2, <3>3, <3>5, PendingPop DEF ReservationStatements
    <3>8. PICK q \in Nat : Settles(h, i, q)
      BY <3>3, <3>6 DEF UnderWay, Accounted
    <3>9. reservation[r].status = "ACTIVE"
      BY <3>1, <3>7, <3>8 DEF Settles
    <3> QED
      BY <1>1, <3>9 DEF Settled
  <2>3. ASSUME NEW w \in Workers, Execute(w) PROVE reservation'[r].status = reservation[r].status
    <3>1. CASE SaveStatus(w)
      BY <2>2, <3>1 DEF SaveStatus
    <3>2. CASE InsertReservation(w)
      <4>1. PICK s \in Reservations : ~Exists(s) /\ \E new : reservation' = [reservation EXCEPT ![s] = new]
        BY <3>2 DEF InsertReservation
      <4> QED
        BY <1>1, <4>1 DEF IInv
    <3>3. CASE ~SaveStatus(w) /\ ~InsertReservation(w)
      BY <2>3, <3>3 DEF Execute, SaveItem, ResolveAlerts, RaiseAlerts, RecordMovement, LoadItem,
                        Restock, RecordReleases, NotifyExpired
    <3> QED
      BY <3>1, <3>2, <3>3
  <2>4. ASSUME NEW w \in Workers, Receive(w) \/ Crash(w)
        PROVE  reservation'[r].status = reservation[r].status
    BY <2>4 DEF Receive, ReceiveStock, ReceiveEdit, ReceiveSettle, ReceiveSweep, Crash
  <2>5. ASSUME NEW s \in Reservations, BecomeDue(s) PROVE reservation'[r].status = reservation[r].status
    BY <1>1, <2>1, <2>5 DEF BecomeDue, IInv, Reservation, Settled
  <2>7. ASSUME NEW s \in Reservations, NEW status \in {"ACTIVE"} \union Settled, NEW q \in Quantities,
               AdminReservation(s, status, q)
        PROVE  reservation'[r].status = reservation[r].status
    <3>1. s # r
      BY <1>1, <2>7 DEF AdminReservation
    <3> QED
      BY <1>1, <2>7, <3>1 DEF AdminReservation, IInv
  <2>6. CASE UNCHANGED vars
    BY <2>6 DEF vars
  <2> QED
    BY <1>1, <2>3, <2>4, <2>5, <2>6, <2>7 DEF Next
<1>2. IInv /\ BalanceInv /\ [Next]_vars =>
        [\A r \in Reservations :
           Exists(r) /\ reservation[r].status \in Settled =>
             \/ reservation'[r].status = reservation[r].status
             \/ reservation[r].item \in disturbed']_vars
  BY <1>1
<1> QED
  BY <1>2, Invariance, BooksInvariance, PTL DEF Spec, SettledOnce
=============================================================================
