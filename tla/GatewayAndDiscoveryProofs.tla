----------------------- MODULE GatewayAndDiscoveryProofs -----------------------
(***************************************************************************)
(* The gateway and the service discovery it asks, for any number of        *)
(* processes, callers, workers, instances and limits.  First a call to a   *)
(* service (GatewayCall):                                                  *)
(*   - as long as the processes do not overlap and no record is lost, all  *)
(*     breakers count as one (CountsAsOne).  Inductive once it is said     *)
(*     that whoever is past the waiting holds the lock of its process,     *)
(*     that the record in Redis carries the count, and that a process that *)
(*     has read an open record does not go on;                             *)
(*   - the positions handed out are one turn round the list (TakeTurns):   *)
(*     the k-th last pick lies k places behind the position in the cache,  *)
(*     modulo the length of the list.                                      *)
(* Then the rate limits before it (RateLimiter): a counter overruns the    *)
(* largest limit of its key by less than the number of workers.            *)
(* Inductive once the checks that have found room, and will still add to   *)
(* the counter, are counted with it.                                       *)
(* Then service discovery.  Its configuration (ConfigurationStore): Redis  *)
(* is current and the history chains.  Inductive once it is said how the   *)
(* one request that sets has left the row at each of its stages.  Its      *)
(* registry (ServiceRegistry): nothing but a whole-row save brings an      *)
(* instance back, and an emptied service is not active.  Inductive once it *)
(* is said that a key belongs to one instance_id and one service for ever, *)
(* that a deletion nothing has overlapped leaves the others it has seen,   *)
(* and that of an emptied service no copy that may be saved is active.     *)
(***************************************************************************)
EXTENDS Gateway, ServiceDiscovery, FiniteSetTheorems, TLAPS

-----------------------------------------------------------------------------
(* Calls to a service: what is true of a state that can be reached.          *)

CallTyped ==
  /\ breaker \in [Processes -> Breaker]
  /\ record \in Breaker \union {None}
  /\ lock \in [Processes -> Callers \union {None}]
  /\ instances \in [Processes -> Registries \union {<< >>}]
  /\ registry \in Registries
  /\ index \in Nat \union {None}
  /\ call \in [Callers -> Call \union {<< >>}]
  /\ failed \in Nat /\ mixed \in BOOLEAN

\* Whoever is past Enter holds the lock of its process, and nobody else does; whoever
\* has read the position has read it for the list its process has.
LocksHeld ==
  /\ \A p \in Processes : lock[p] # None => ProcessOf[lock[p]] = p
  /\ \A c \in Callers : Inside(c) <=> Busy(c) /\ ~At(c, "waiting")
  /\ \A c \in Callers : At(c, "index") =>
       LET list == instances[ProcessOf[c]] IN
       list # << >> /\ call[c].pick[1] = Len(list) /\ call[c].pick[2] \in Nat

\* The processes count as one.
OneCount ==
  /\ record = None => failed = 0 /\ \A p \in Processes : breaker[p] = Closed
  /\ record # None => /\ record.failure_count = failed
                      /\ record.state = "OPEN" => failed >= Threshold
  /\ \A p \in Processes : lock[p] # None =>
       breaker[p].failure_count = failed /\ breaker[p].state # "OPEN"
  /\ \A p, q \in Processes : lock[p] # None /\ lock[q] # None => p = q

CountInv == CallTyped /\ LocksHeld /\ (~mixed => OneCount)

\* at lies d positions before i in a ring of n.
Behind(at, i, d, n) == at \in 0 .. n - 1 /\ (at = i - d \/ at = i - d + n)

\* The last instances of the list that were picked are the ones before the position.
InTurn(list) ==
  LET n == Len(list)
      m == Len(turns) IN
  /\ m <= n /\ index \in 0 .. n - 1
  /\ \A k \in 1 .. m : turns[k].of = list /\ Behind(turns[k].at, index, m + 1 - k, n)
  /\ \A c \in Callers : At(c, "index") =>
       instances[ProcessOf[c]] = list /\ call[c].pick[2] = index

TurnInv ==
  /\ turns \in Seq([of : Registries, at : Nat])
  /\ turns # << >> =>
       /\ InTurn(turns[1].of)
       /\ \A c, d \in Callers : At(c, "index") /\ At(d, "index") => c = d

-----------------------------------------------------------------------------
(* The breaker's operators. *)

LEMMA BreakerOps ==
  ASSUME NEW b \in Breaker
  PROVE  /\ AfterSuccess(b) \in Breaker /\ AfterSuccess(b).failure_count = 0
         /\ b.state # "OPEN" => AfterSuccess(b).state # "OPEN"
         /\ AfterFailure(b) \in Breaker /\ AfterFailure(b).failure_count = b.failure_count + 1
         /\ b.state # "OPEN" /\ AfterFailure(b).state = "OPEN" => b.failure_count + 1 >= Threshold
         /\ Older(b) \in Breaker /\ Older(b).failure_count = b.failure_count
         /\ Older(b).state = b.state
<1>1. /\ AfterSuccess(b) \in Breaker /\ AfterSuccess(b).failure_count = 0
      /\ b.state # "OPEN" => AfterSuccess(b).state # "OPEN"
  BY DEF AfterSuccess, Breaker
<1>2. /\ AfterFailure(b) \in Breaker /\ AfterFailure(b).failure_count = b.failure_count + 1
      /\ b.state # "OPEN" /\ AfterFailure(b).state = "OPEN" => b.failure_count + 1 >= Threshold
  BY CallConstants DEF AfterFailure, Breaker
<1>3. /\ Older(b) \in Breaker /\ Older(b).failure_count = b.failure_count
      /\ Older(b).state = b.state
  BY DEF Older, Breaker
<1> QED
  BY <1>1, <1>2, <1>3

LEMMA ClosedFits ==
  /\ Closed \in Breaker /\ Closed.failure_count = 0 /\ Closed.state = "CLOSED"
  /\ Older(Closed) = Closed /\ None \notin Breaker /\ Older(None) = None
BY CallConstants DEF Closed, Breaker, Older

\* What a process that reaches Redis adopts is the record.
LEMMA AdoptOps ==
  ASSUME NEW b \in Breaker, record \in Breaker \union {None}
  PROVE  /\ Adopt(b) \in Breaker
         /\ record = None => Adopt(b) = b
         /\ record # None => /\ Adopt(b).failure_count = record.failure_count
                             /\ Adopt(b).state = record.state
BY DEF Adopt, Breaker

\* A call is not << >>, whatever its stage.
LEMMA CallsBusy == \A x \in Call : x # << >>
<1>1. \A x \in Call : "stage" \in DOMAIN x
  BY DEF Call
<1>2. DOMAIN << >> = {}
  OBVIOUS
<1> QED
  BY <1>1, <1>2

-----------------------------------------------------------------------------
(* Types. *)

LEMMA SettleTyped ==
  ASSUME CallTyped, NEW c \in Callers, NEW b \in Breaker, Settle(c, b)
  PROVE  /\ breaker' \in [Processes -> Breaker]
         /\ record' \in Breaker \union {None}
         /\ lock' \in [Processes -> Callers \union {None}]
         /\ mixed' \in BOOLEAN
BY CallConstants DEF Settle, CallTyped

LEMMA NextAttemptTyped ==
  ASSUME CallTyped, NEW c \in Callers, Busy(c), NextAttempt(c)
  PROVE  call' \in [Callers -> Call \union {<< >>}]
<1>1. call[c] \in Call
  BY DEF CallTyped, Busy
<1>2. call[c].attempt \in 0 .. MaxRetries /\ MaxRetries \in Nat
  BY <1>1, CallConstants DEF Call
<1>3. CASE call[c].attempt = MaxRetries
  BY <1>3 DEF NextAttempt, CallTyped
<1>4. CASE call[c].attempt # MaxRetries
  <2>1. call[c].attempt + 1 \in 0 .. MaxRetries
    BY <1>2, <1>4
  <2>2. [stage |-> "waiting", attempt |-> call[c].attempt + 1, pick |-> << >>] \in Call
    BY <2>1 DEF Call
  <2> QED
    BY <1>4, <2>2 DEF NextAttempt, CallTyped
<1> QED
  BY <1>3, <1>4

LEMMA FailsTyped ==
  ASSUME CallTyped, NEW c \in Callers, Fails(c)
  PROVE  /\ breaker' \in [Processes -> Breaker]
         /\ record' \in Breaker \union {None}
         /\ lock' \in [Processes -> Callers \union {None}]
         /\ mixed' \in BOOLEAN /\ failed' \in Nat
<1>1. breaker[ProcessOf[c]] \in Breaker
  BY CallConstants DEF CallTyped
<1>2. AfterFailure(breaker[ProcessOf[c]]) \in Breaker
  BY <1>1, BreakerOps
<1> QED
  BY <1>2, SettleTyped DEF Fails, CallTyped

\* The list that Discover takes is one of the registry's, or none yet.
LEMMA ListTyped ==
  ASSUME CallTyped, NEW p \in Processes, NEW answers \in BOOLEAN
  PROVE  /\ Discovered(p, answers) \in Registries \union {<< >>}
         /\ Discovered(p, answers) \in Seq(Instances)
<1>1. Discovered(p, answers) \in Registries \union {<< >>}
  BY DEF Discovered, CallTyped
<1>2. << >> \in Seq(Instances)
  OBVIOUS
<1> QED
  BY <1>1, <1>2, CallConstants

LEMMA TypesKeep ==
  ASSUME CallTyped, LocksHeld, CallNext
  PROVE  CallTyped'
<1> USE DEF CallTyped
<1>1. ASSUME NEW c \in Callers, Begin(c) PROVE CallTyped'
  <2>1. [stage |-> "waiting", attempt |-> 0, pick |-> << >>] \in Call
    BY CallConstants DEF Call
  <2> QED
    BY <1>1, <2>1 DEF Begin
<1>2. ASSUME NEW c \in Callers, Enter(c) PROVE CallTyped'
  <2> DEFINE p == ProcessOf[c]
  <2>1. p \in Processes /\ call[c] \in Call
    BY <1>2, CallConstants DEF Enter, At, Busy
  <2>2. PICK answers \in BOOLEAN :
          LET b == IF answers THEN Adopt(breaker[p]) ELSE breaker[p] IN
          /\ mixed' = \/ mixed \/ ~answers
                      \/ \E q \in Processes \ {p} : lock[q] # None
          /\ IF b.state = "OPEN" /\ ~Due(b)
               THEN /\ breaker' = [breaker EXCEPT ![p] = b]
                    /\ call' = [call EXCEPT ![c] = << >>]
                    /\ UNCHANGED lock
               ELSE /\ breaker' = [breaker EXCEPT ![p] =
                         IF b.state = "OPEN" THEN [b EXCEPT !.state = "HALF_OPEN"] ELSE b]
                    /\ call' = [call EXCEPT ![c].stage = "instance"]
                    /\ lock' = [lock EXCEPT ![p] = c]
    BY <1>2 DEF Enter
  <2> DEFINE b == IF answers THEN Adopt(breaker[p]) ELSE breaker[p]
             h == [b EXCEPT !.state = "HALF_OPEN"]
  <2>3. b \in Breaker
    BY <2>1, AdoptOps
  <2> HIDE DEF b
  <2>4. h \in Breaker
    BY <2>3 DEF Breaker
  <2>5. [call[c] EXCEPT !.stage = "instance"] \in Call
    BY <2>1 DEF Call
  <2>6. breaker' \in [Processes -> Breaker] /\ call' \in [Callers -> Call \union {<< >>}]
        /\ lock' \in [Processes -> Callers \union {None}] /\ mixed' \in BOOLEAN
    BY <2>1, <2>2, <2>3, <2>4, <2>5 DEF b
  <2> QED
    BY <1>2, <2>6 DEF Enter
<1>3. ASSUME NEW c \in Callers, Discover(c) PROVE CallTyped'
  <2> DEFINE p == ProcessOf[c]
  <2>1. p \in Processes /\ call[c] \in Call /\ Busy(c)
    BY <1>3, CallConstants DEF Discover, At, Busy
  <2>2. PICK answers \in BOOLEAN :
          LET list == Discovered(p, answers) IN
          /\ instances' = [instances EXCEPT ![p] = list]
          /\ stale' = stale \ {p}
          /\ IF list = << >>
               THEN Fails(c) /\ NextAttempt(c) /\ UNCHANGED turns
               ELSE /\ call' = [call EXCEPT ![c].stage = "index",
                          ![c].pick = <<Len(list), IF index = None THEN 0 ELSE index>>]
                    /\ turns' = IF Picking(c) \/ (turns # << >> /\ turns[1].of # list)
                                  THEN << >> ELSE turns
                    /\ UNCHANGED <<breaker, lock, record, failed, mixed>>
    BY <1>3 DEF Discover
  <2> DEFINE list == Discovered(p, answers)
             at   == IF index = None THEN 0 ELSE index
  <2>3. list \in Registries \union {<< >>} /\ list \in Seq(Instances)
    BY <2>1, ListTyped
  <2>4. at \in Nat /\ Len(list) \in Nat
    BY <2>3
  <2> HIDE DEF list, at
  <2>5. [call[c] EXCEPT !.stage = "index", !.pick = <<Len(list), at>>] \in Call
    <3>1. <<Len(list), at>> \in Seq(Nat)
      BY <2>4
    <3> HIDE DEF p
    <3> QED
      BY <2>1, <3>1 DEF Call
  <2>6. instances' \in [Processes -> Registries \union {<< >>}]
    BY <2>1, <2>2, <2>3 DEF list
  <2>7. CASE list = << >>
    <3>1. Fails(c) /\ NextAttempt(c)
      BY <2>2, <2>7 DEF list
    <3> QED
      BY <1>3, <2>1, <2>6, <3>1, FailsTyped, NextAttemptTyped DEF Discover
  <2>8. CASE list # << >>
    <3>1. call' = [call EXCEPT ![c].stage = "index", ![c].pick = <<Len(list), at>>]
          /\ UNCHANGED <<breaker, lock, record, failed, mixed>>
      BY <2>2, <2>8 DEF list, at
    <3>2. call' = [call EXCEPT ![c] = [call[c] EXCEPT !.stage = "index", !.pick = <<Len(list), at>>]]
      BY <3>1
    <3>3. call' \in [Callers -> Call \union {<< >>}]
      BY <2>5, <3>2
    <3> QED
      BY <1>3, <2>6, <3>1, <3>3 DEF Discover
  <2> QED
    BY <2>7, <2>8
<1>4. ASSUME NEW c \in Callers, Select(c) PROVE CallTyped'
  <2>1. call[c] \in Call
    BY <1>4 DEF Select, At, Busy
  <2>2. [call[c] EXCEPT !.stage = "request"] \in Call
    BY <2>1 DEF Call
  <2>3. call' = [call EXCEPT ![c] = [call[c] EXCEPT !.stage = "request"]]
    BY <1>4 DEF Select
  <2>4. index' \in Nat
    <3>1. instances[ProcessOf[c]] \in Seq(Instances) /\ instances[ProcessOf[c]] # << >>
          /\ call[c].pick[1] = Len(instances[ProcessOf[c]]) /\ call[c].pick[2] \in Nat
      BY <1>4, CallConstants DEF Select, LocksHeld
    <3>2. call[c].pick[1] \in Nat \ {0}
      BY <3>1
    <3>3. index' = (call[c].pick[2] + 1) % call[c].pick[1]
      BY <1>4 DEF Select, After
    <3> QED
      BY <3>1, <3>2, <3>3
  <2> QED
    BY <1>4, <2>2, <2>3, <2>4 DEF Select
<1>5. ASSUME NEW c \in Callers, Succeed(c) PROVE CallTyped'
  <2>1. breaker[ProcessOf[c]] \in Breaker
    BY CallConstants
  <2>2. AfterSuccess(breaker[ProcessOf[c]]) \in Breaker
    BY <2>1, BreakerOps
  <2> QED
    BY <1>5, <2>2, SettleTyped DEF Succeed
<1>6. ASSUME NEW c \in Callers, Fail(c) PROVE CallTyped'
  BY <1>6, FailsTyped, NextAttemptTyped DEF Fail, At
<1>7. ASSUME NEW c \in Callers, CacheFails(c) PROVE CallTyped'
  BY <1>7, FailsTyped DEF CacheFails
<1>8. CASE Register
  BY <1>8 DEF Register
<1>9. ASSUME NEW p \in Processes, GrowStale(p) PROVE CallTyped'
  BY <1>9 DEF GrowStale
<1>10. CASE Wait
  <2>1. \A b \in Breaker : Older(b) \in Breaker
    BY BreakerOps
  <2> QED
    BY <1>10, <2>1, ClosedFits DEF Wait
<1>11. CASE Expire
  BY <1>11 DEF Expire
<1>12. ASSUME NEW p \in Processes, Restart(p) PROVE CallTyped'
  BY <1>12, ClosedFits DEF Restart
<1> QED
  BY <1>1, <1>2, <1>3, <1>4, <1>5, <1>6, <1>7, <1>8, <1>9, <1>10, <1>11, <1>12 DEF CallNext, Execute

-----------------------------------------------------------------------------
(* The locks. *)

\* A call that ends its attempt gives the lock back.
LEMMA SettleUnlocks ==
  ASSUME CallTyped, LocksHeld, NEW c \in Callers, NEW b, Settle(c, b), Inside(c)
  PROVE  /\ \A p \in Processes : lock'[p] # None => p # ProcessOf[c] /\ lock'[p] = lock[p]
         /\ \A d \in Callers \ {c} : Inside(d)' <=> Inside(d)
         /\ ~Inside(c)'
<1>1. lock' = [lock EXCEPT ![ProcessOf[c]] = None]
  BY DEF Settle
<1>2. \A d \in Callers : ProcessOf[d] \in Processes /\ d # None
  BY CallConstants
<1> QED
  BY <1>1, <1>2 DEF CallTyped, Inside

\* A caller that stops or waits for its next attempt, its lock given back.
LEMMA AttemptEnds ==
  ASSUME CallTyped, LocksHeld, CallTyped', NEW c \in Callers, NEW b, Settle(c, b), Inside(c),
         NextAttempt(c) \/ call' = [call EXCEPT ![c] = << >>],
         \A d \in Callers \ {c} : At(d, "index") => instances'[ProcessOf[d]] = instances[ProcessOf[d]]
  PROVE  LocksHeld'
<1>1. \A p \in Processes : lock'[p] # None => lock'[p] = lock[p]
  BY SettleUnlocks
<1>2. \A d \in Callers \ {c} : call'[d] = call[d] /\ (Inside(d)' <=> Inside(d))
  BY SettleUnlocks DEF NextAttempt, CallTyped
<1>3. ~Inside(c)' /\ (call'[c] = << >> \/ call'[c].stage = "waiting")
  BY SettleUnlocks DEF NextAttempt, CallTyped
<1>4. \A d \in Callers : Inside(d)' <=> Busy(d)' /\ ~At(d, "waiting")'
  BY <1>2, <1>3 DEF LocksHeld, Busy, At
<1>5. \A d \in Callers : At(d, "index")' =>
        /\ d # c /\ At(d, "index") /\ call'[d] = call[d]
        /\ instances'[ProcessOf[d]] = instances[ProcessOf[d]]
  BY <1>2, <1>3 DEF Busy, At
<1> QED
  BY <1>1, <1>4, <1>5 DEF LocksHeld

LEMMA LocksKeep ==
  ASSUME CallTyped, LocksHeld, CallNext
  PROVE  LocksHeld'
<1>0. CallTyped' /\ \A d \in Callers : ProcessOf[d] \in Processes /\ d # None
  BY TypesKeep, CallConstants
<1>1. ASSUME NEW c \in Callers, Begin(c) PROVE LocksHeld'
  <2>1. ~Busy(c) /\ UNCHANGED <<lock, instances>>
        /\ call' = [call EXCEPT ![c] = [stage |-> "waiting", attempt |-> 0, pick |-> << >>]]
    BY <1>1 DEF Begin
  <2>2. call'[c].stage = "waiting" /\ \A d \in Callers \ {c} : call'[d] = call[d]
    BY <2>1 DEF CallTyped
  <2>3. \A d \in Callers : Inside(d)' <=> Inside(d)
    BY <2>1 DEF Inside
  <2> QED
    BY <2>1, <2>2, <2>3 DEF LocksHeld, Busy, At
<1>2. ASSUME NEW c \in Callers, Enter(c) PROVE LocksHeld'
  <2> DEFINE p == ProcessOf[c]
  <2>1. At(c, "waiting") /\ lock[p] = None /\ UNCHANGED instances /\ p \in Processes
    BY <1>0, <1>2 DEF Enter
  <2>2. \/ call' = [call EXCEPT ![c] = << >>] /\ UNCHANGED lock
        \/ call' = [call EXCEPT ![c].stage = "instance"] /\ lock' = [lock EXCEPT ![p] = c]
    BY <1>2 DEF Enter
  <2>3. CASE call' = [call EXCEPT ![c] = << >>] /\ UNCHANGED lock
    <3>1. \A d \in Callers : Inside(d)' <=> Inside(d)
      BY <2>3 DEF Inside
    <3>2. call'[c] = << >> /\ \A d \in Callers \ {c} : call'[d] = call[d]
      BY <2>3 DEF CallTyped
    <3> QED
      BY <2>1, <2>3, <3>1, <3>2 DEF LocksHeld, Busy, At
  <2>4. CASE call' = [call EXCEPT ![c].stage = "instance"] /\ lock' = [lock EXCEPT ![p] = c]
    <3>1. call'[c].stage = "instance" /\ call'[c] # << >> /\ \A d \in Callers \ {c} : call'[d] = call[d]
      <4>1. call[c] \in Call
        BY <2>1 DEF At, Busy, CallTyped
      <4>2. [call[c] EXCEPT !.stage = "instance"] \in Call
            /\ [call[c] EXCEPT !.stage = "instance"].stage = "instance"
        BY <4>1 DEF Call
      <4>3. call' = [call EXCEPT ![c] = [call[c] EXCEPT !.stage = "instance"]]
        BY <2>4
      <4> QED
        BY <4>2, <4>3, CallsBusy DEF CallTyped
    <3>2. Inside(c)' /\ \A d \in Callers \ {c} : Inside(d)' <=> Inside(d)
      BY <1>0, <2>1, <2>4 DEF Inside, CallTyped
    <3>3. \A q \in Processes : lock'[q] # None => ProcessOf[lock'[q]] = q
      BY <2>1, <2>4 DEF LocksHeld, CallTyped
    <3>4. \A d \in Callers : Inside(d)' <=> Busy(d)' /\ ~At(d, "waiting")'
      BY <3>1, <3>2 DEF LocksHeld, Busy, At
    <3>5. \A d \in Callers : At(d, "index")' => At(d, "index") /\ call'[d] = call[d]
      BY <3>1 DEF Busy, At
    <3> QED
      BY <2>1, <3>3, <3>4, <3>5 DEF LocksHeld
  <2> QED
    BY <2>2, <2>3, <2>4
<1>3. ASSUME NEW c \in Callers, Discover(c) PROVE LocksHeld'
  <2> DEFINE p == ProcessOf[c]
  <2>1. At(c, "instance") /\ Inside(c) /\ p \in Processes /\ lock[p] = c
    BY <1>0, <1>3 DEF Discover, LocksHeld, At, Inside
  <2>2. PICK list :
          /\ list \in Seq(Instances)
          /\ instances' = [instances EXCEPT ![p] = list]
          /\ \/ Fails(c) /\ NextAttempt(c)
             \/ /\ list # << >> /\ UNCHANGED lock
                /\ call' = [call EXCEPT ![c].stage = "index",
                     ![c].pick = <<Len(list), IF index = None THEN 0 ELSE index>>]
    <3>1. \A answers \in BOOLEAN : Discovered(p, answers) \in Seq(Instances)
      BY <2>1, ListTyped
    <3> QED
      BY <1>3, <3>1 DEF Discover
  <2>3. \A d \in Callers \ {c} : At(d, "index") => ProcessOf[d] # p
    BY <2>1 DEF LocksHeld, At, Inside
  <2>4. \A d \in Callers \ {c} : At(d, "index") => instances'[ProcessOf[d]] = instances[ProcessOf[d]]
    BY <1>0, <2>2, <2>3 DEF CallTyped
  <2>5. CASE Fails(c) /\ NextAttempt(c)
    BY <1>0, <2>1, <2>4, <2>5, AttemptEnds DEF Fails
  <2>6. CASE /\ list # << >> /\ UNCHANGED lock
             /\ call' = [call EXCEPT ![c].stage = "index",
                  ![c].pick = <<Len(list), IF index = None THEN 0 ELSE index>>]
    <3> DEFINE at == IF index = None THEN 0 ELSE index
    <3>1. at \in Nat
      BY DEF CallTyped
    <3> HIDE DEF at
    <3>2. call[c] \in Call
      BY <2>1 DEF At, Busy, CallTyped
    <3>3. call' = [call EXCEPT ![c] = [call[c] EXCEPT !.stage = "index", !.pick = <<Len(list), at>>]]
      BY <2>6 DEF at
    <3>4. call'[c] = [call[c] EXCEPT !.stage = "index", !.pick = <<Len(list), at>>]
          /\ \A d \in Callers \ {c} : call'[d] = call[d]
      BY <3>3 DEF CallTyped
    <3>5. call'[c].stage = "index" /\ call'[c].pick = <<Len(list), at>>
      BY <3>2, <3>4 DEF Call
    <3>6. call'[c] # << >>
      <4>1. "stage" \in DOMAIN call'[c]
        BY <3>2, <3>4 DEF Call
      <4>2. DOMAIN << >> = {}
        OBVIOUS
      <4> QED
        BY <4>1, <4>2
    <3>7. \A d \in Callers : Inside(d)' <=> Inside(d)
      BY <2>6 DEF Inside
    <3>8. \A d \in Callers : Inside(d)' <=> Busy(d)' /\ ~At(d, "waiting")'
      BY <2>1, <3>4, <3>5, <3>6, <3>7 DEF LocksHeld, Busy, At
    <3>9. instances'[p] = list
      BY <2>1, <2>2 DEF CallTyped
    <3>10. ASSUME NEW d \in Callers, At(d, "index")'
           PROVE  LET l == instances'[ProcessOf[d]] IN
                  l # << >> /\ call'[d].pick[1] = Len(l) /\ call'[d].pick[2] \in Nat
      <4>1. CASE d = c
        <5>1. call'[c].pick[1] = Len(list) /\ call'[c].pick[2] = at
          BY <3>5
        <5>2. instances'[ProcessOf[d]] = list
          BY <3>9, <4>1
        <5> HIDE DEF p
        <5> QED
          BY <2>6, <3>1, <4>1, <5>1, <5>2
      <4>2. CASE d # c
        <5>1. At(d, "index")
          BY <3>4, <3>10, <4>2 DEF At, Busy
        <5> QED
          BY <2>4, <3>4, <4>2, <5>1 DEF LocksHeld
      <4> QED
        BY <4>1, <4>2
    <3> QED
      BY <2>6, <3>8, <3>10 DEF LocksHeld
  <2> QED
    BY <2>2, <2>5, <2>6
<1>4. ASSUME NEW c \in Callers, Select(c) PROVE LocksHeld'
  <2>1. At(c, "index") /\ UNCHANGED <<lock, instances>> /\ call' = [call EXCEPT ![c].stage = "request"]
    BY <1>4 DEF Select
  <2>2. call[c] \in Call
    BY <2>1 DEF At, Busy, CallTyped
  <2>3. call' = [call EXCEPT ![c] = [call[c] EXCEPT !.stage = "request"]]
    BY <2>1
  <2>4. call'[c].stage = "request" /\ call'[c] # << >> /\ \A d \in Callers \ {c} : call'[d] = call[d]
    <3>1. [call[c] EXCEPT !.stage = "request"] \in Call
          /\ [call[c] EXCEPT !.stage = "request"].stage = "request"
      BY <2>2 DEF Call
    <3> QED
      BY <2>3, <3>1, CallsBusy DEF CallTyped
  <2>5. \A d \in Callers : Inside(d)' <=> Inside(d)
    BY <2>1 DEF Inside
  <2> QED
    BY <2>1, <2>4, <2>5 DEF LocksHeld, Busy, At
<1>5. ASSUME NEW c \in Callers, Succeed(c) \/ Fail(c) \/ CacheFails(c) PROVE LocksHeld'
  <2>1. Inside(c) /\ UNCHANGED instances
    BY <1>5 DEF Succeed, Fail, CacheFails, LocksHeld, At
  <2> QED
    BY <1>0, <1>5, <2>1, AttemptEnds DEF Succeed, Fail, CacheFails, Fails
<1>6. ASSUME NEW p \in Processes, Restart(p) PROVE LocksHeld'
  <2>1. /\ lock' = [lock EXCEPT ![p] = None]
        /\ instances' = [instances EXCEPT ![p] = << >>]
        /\ call' = [c \in Callers |-> IF ProcessOf[c] = p THEN << >> ELSE call[c]]
    BY <1>6 DEF Restart
  <2>2. \A d \in Callers : IF ProcessOf[d] = p THEN call'[d] = << >> /\ ~Inside(d)'
                           ELSE /\ call'[d] = call[d] /\ (Inside(d)' <=> Inside(d))
                                /\ instances'[ProcessOf[d]] = instances[ProcessOf[d]]
    BY <1>0, <2>1 DEF Inside, CallTyped
  <2>3. \A q \in Processes : lock'[q] # None => lock'[q] = lock[q]
    BY <2>1 DEF CallTyped
  <2>4. \A d \in Callers : Inside(d)' <=> Busy(d)' /\ ~At(d, "waiting")'
    BY <2>2 DEF LocksHeld, Busy, At
  <2>5. \A d \in Callers : At(d, "index")' =>
          /\ At(d, "index") /\ call'[d] = call[d]
          /\ instances'[ProcessOf[d]] = instances[ProcessOf[d]]
    BY <2>2 DEF Busy, At
  <2> QED
    BY <2>3, <2>4, <2>5 DEF LocksHeld
<1>7. CASE UNCHANGED <<lock, instances, call>>
  BY <1>7 DEF LocksHeld, Inside, Busy, At
<1> QED
  BY <1>1, <1>2, <1>3, <1>4, <1>5, <1>6, <1>7 DEF CallNext, Execute, GrowStale, Register, Wait, Expire

-----------------------------------------------------------------------------
(* The count. *)

\* A holder of the lock settles for b, which counts what has failed since the last
\* success.
LEMMA SettleCounts ==
  ASSUME CallTyped, LocksHeld, ~mixed => OneCount, NEW c \in Callers, Inside(c),
         NEW b \in Breaker, Settle(c, b),
         ~mixed => b.failure_count = failed' /\ (b.state = "OPEN" => failed' >= Threshold)
  PROVE  ~mixed' => OneCount'
<1> DEFINE p == ProcessOf[c]
<1>1. p \in Processes /\ lock[p] = c /\ c # None
  BY CallConstants DEF Inside
<1>2. PICK answers \in BOOLEAN :
        /\ record' = IF answers THEN b ELSE record
        /\ mixed' = (mixed \/ ~answers)
  BY DEF Settle
<1>3. SUFFICES ASSUME ~mixed' PROVE OneCount'
  OBVIOUS
<1>4. ~mixed /\ OneCount /\ record' = b /\ b # None
  BY <1>2, <1>3, ClosedFits
<1>5. \A q \in Processes : lock'[q] = None
  <2>1. lock' = [lock EXCEPT ![p] = None]
    BY DEF Settle
  <2>2. \A q \in Processes : q # p => lock[q] = None
    BY <1>1, <1>4 DEF OneCount
  <2> QED
    BY <2>1, <2>2 DEF CallTyped
<1> QED
  BY <1>4, <1>5 DEF OneCount

\* A failed call is counted.
LEMMA FailsCounts ==
  ASSUME CallTyped, LocksHeld, ~mixed => OneCount, NEW c \in Callers, Inside(c), Fails(c)
  PROVE  ~mixed' => OneCount'
<1> DEFINE b == breaker[ProcessOf[c]]
<1>1. ProcessOf[c] \in Processes /\ lock[ProcessOf[c]] = c /\ c # None
  BY CallConstants DEF Inside
<1>2. b \in Breaker
  BY <1>1 DEF CallTyped
<1>3. ~mixed => b.failure_count = failed /\ b.state # "OPEN"
  BY <1>1 DEF OneCount
<1>4. failed' = failed + 1 /\ Settle(c, AfterFailure(b))
  BY DEF Fails
<1> HIDE DEF b
<1>5. ~mixed => AfterFailure(b).failure_count = failed'
               /\ (AfterFailure(b).state = "OPEN" => failed' >= Threshold)
  BY <1>2, <1>3, <1>4, BreakerOps
<1>6. AfterFailure(b) \in Breaker
  BY <1>2, BreakerOps
<1> QED
  BY <1>4, <1>5, <1>6, SettleCounts

\* Whoever enters alone, with Redis answering, starts from what is recorded.
LEMMA EnterCounts ==
  ASSUME CallTyped, LocksHeld, ~mixed => OneCount, NEW c \in Callers, Enter(c)
  PROVE  ~mixed' => OneCount'
<1> DEFINE p == ProcessOf[c]
<1>1. p \in Processes
  BY CallConstants
<1>2. PICK answers \in BOOLEAN :
        LET b == IF answers THEN Adopt(breaker[p]) ELSE breaker[p] IN
        /\ mixed' = \/ mixed \/ ~answers
                    \/ \E q \in Processes \ {p} : lock[q] # None
        /\ IF b.state = "OPEN" /\ ~Due(b)
             THEN /\ breaker' = [breaker EXCEPT ![p] = b]
                  /\ call' = [call EXCEPT ![c] = << >>]
                  /\ UNCHANGED lock
             ELSE /\ breaker' = [breaker EXCEPT ![p] =
                       IF b.state = "OPEN" THEN [b EXCEPT !.state = "HALF_OPEN"] ELSE b]
                  /\ call' = [call EXCEPT ![c].stage = "instance"]
                  /\ lock' = [lock EXCEPT ![p] = c]
  BY DEF Enter
<1>3. SUFFICES ASSUME ~mixed' PROVE OneCount'
  OBVIOUS
<1>4. ~mixed /\ OneCount /\ answers /\ \A q \in Processes \ {p} : lock[q] = None
  BY <1>2, <1>3
<1>5. lock[p] = None /\ UNCHANGED <<record, failed>>
  BY DEF Enter
<1> DEFINE b == Adopt(breaker[p])
<1>6. /\ b \in Breaker
      /\ record = None => b = breaker[p]
      /\ record # None => b.failure_count = record.failure_count
  BY <1>1, AdoptOps DEF CallTyped
<1>7. record = None => b = Closed
  BY <1>1, <1>4, <1>6 DEF OneCount
<1>8. b.failure_count = failed
  BY <1>4, <1>6, <1>7, ClosedFits DEF OneCount, CallTyped
<1> HIDE DEF b
<1>9. PICK h \in {b, [b EXCEPT !.state = "HALF_OPEN"]} :
        /\ breaker' = [breaker EXCEPT ![p] = h]
        /\ \/ UNCHANGED lock
           \/ lock' = [lock EXCEPT ![p] = c] /\ h.state # "OPEN"
        /\ b.state # "OPEN" => h = b
  <2>1. [b EXCEPT !.state = "HALF_OPEN"].state # "OPEN"
    BY <1>6 DEF Breaker
  <2> QED
    BY <1>2, <1>4, <2>1 DEF b
<1>10. h.failure_count = failed
  BY <1>6, <1>8, <1>9 DEF Breaker
<1>11. breaker'[p] = h /\ \A q \in Processes \ {p} : breaker'[q] = breaker[q]
  BY <1>1, <1>9 DEF CallTyped
<1>12. record = None => \A q \in Processes : breaker'[q] = Closed
  BY <1>4, <1>7, <1>9, <1>11, ClosedFits DEF OneCount
<1>13. \A q \in Processes : lock'[q] # None =>
         q = p /\ breaker'[q].failure_count = failed /\ breaker'[q].state # "OPEN"
  BY <1>1, <1>4, <1>5, <1>9, <1>10, <1>11 DEF CallTyped
<1> QED
  BY <1>4, <1>5, <1>12, <1>13 DEF OneCount

LEMMA CountKeeps ==
  ASSUME CallTyped, LocksHeld, ~mixed => OneCount, CallNext
  PROVE  ~mixed' => OneCount'
<1>1. ASSUME NEW c \in Callers, Discover(c) PROVE ~mixed' => OneCount'
  <2>1. Inside(c)
    BY <1>1 DEF Discover, LocksHeld, At
  <2>2. CASE Fails(c)
    BY <2>1, <2>2, FailsCounts
  <2>3. CASE UNCHANGED <<breaker, lock, record, failed, mixed>>
    BY <2>3 DEF OneCount
  <2> QED
    BY <1>1, <2>2, <2>3 DEF Discover
<1>2. ASSUME NEW c \in Callers, Fail(c) \/ CacheFails(c) PROVE ~mixed' => OneCount'
  BY <1>2, FailsCounts DEF Fail, CacheFails, LocksHeld, At
<1>3. ASSUME NEW c \in Callers, Succeed(c) PROVE ~mixed' => OneCount'
  <2> DEFINE b == breaker[ProcessOf[c]]
  <2>1. Inside(c) /\ failed' = 0 /\ Settle(c, AfterSuccess(b))
    BY <1>3 DEF Succeed, LocksHeld, At
  <2>2. ProcessOf[c] \in Processes /\ lock[ProcessOf[c]] = c /\ c # None
    BY <2>1, CallConstants DEF Inside
  <2>3. b \in Breaker /\ (~mixed => b.state # "OPEN")
    BY <2>2 DEF CallTyped, OneCount
  <2> HIDE DEF b
  <2>4. /\ AfterSuccess(b) \in Breaker /\ AfterSuccess(b).failure_count = 0
        /\ b.state # "OPEN" => AfterSuccess(b).state # "OPEN"
    BY <2>3, BreakerOps
  <2> QED
    BY <2>1, <2>3, <2>4, SettleCounts
<1>4. CASE Wait
  <2>1. /\ breaker' = [p \in Processes |-> Older(breaker[p])] /\ record' = Older(record)
        /\ UNCHANGED <<lock, failed, mixed>>
    BY <1>4 DEF Wait
  <2>2. \A p \in Processes : /\ breaker'[p].failure_count = breaker[p].failure_count
                             /\ breaker'[p].state = breaker[p].state
                             /\ breaker[p] = Closed => breaker'[p] = Closed
    BY <2>1, BreakerOps, ClosedFits DEF CallTyped
  <2>3. /\ record' = None <=> record = None
        /\ record # None => record'.failure_count = record.failure_count /\ record'.state = record.state
    BY <2>1, BreakerOps, ClosedFits DEF CallTyped
  <2> QED
    BY <2>1, <2>2, <2>3 DEF OneCount
<1>5. CASE Expire
  BY <1>5 DEF Expire, OneCount
<1>6. ASSUME NEW p \in Processes, Restart(p) PROVE ~mixed' => OneCount'
  <2>1. /\ breaker' = [breaker EXCEPT ![p] = Closed] /\ lock' = [lock EXCEPT ![p] = None]
        /\ mixed' = (mixed \/ lock[p] # None) /\ UNCHANGED <<record, failed>>
    BY <1>6 DEF Restart
  <2>2. \A q \in Processes : /\ breaker'[q] = IF q = p THEN Closed ELSE breaker[q]
                             /\ lock'[q] = IF q = p THEN None ELSE lock[q]
    BY <2>1 DEF CallTyped
  <2>3. SUFFICES ASSUME ~mixed' PROVE OneCount'
    OBVIOUS
  <2>4. OneCount
    BY <2>1, <2>3
  <2> QED
    BY <2>1, <2>2, <2>4 DEF OneCount
<1>7. CASE UNCHANGED <<breaker, lock, record, failed, mixed>>
  BY <1>7 DEF OneCount
<1> QED
  BY <1>1, <1>2, <1>3, <1>4, <1>5, <1>6, <1>7, EnterCounts
     DEF CallNext, Execute, Begin, Select, Register, GrowStale

\* CountInv is inductive.
THEOREM CountInvariance == Spec => []CountInv
<1>1. CallInit => CountInv
  <2> SUFFICES ASSUME CallInit PROVE CountInv
    OBVIOUS
  <2>1. CallTyped
    BY ClosedFits DEF CallInit, CallTyped
  <2>2. LocksHeld
    BY CallConstants DEF CallInit, LocksHeld, Busy, At, Inside
  <2>3. OneCount
    BY ClosedFits DEF CallInit, OneCount
  <2> QED
    BY <2>1, <2>2, <2>3 DEF CountInv
<1>2. CountInv /\ [CallNext]_callVars => CountInv'
  <2> SUFFICES ASSUME CountInv, [CallNext]_callVars PROVE CountInv'
    OBVIOUS
  <2>1. CASE CallNext
    BY <2>1, TypesKeep, LocksKeep, CountKeeps DEF CountInv
  <2>2. CASE UNCHANGED callVars
    BY <2>2 DEF callVars, CountInv, CallTyped, LocksHeld, Busy, At, Inside, OneCount
  <2> QED
    BY <2>1, <2>2
<1>3. Init => CountInv
  BY <1>1 DEF Init
<1>4. CountInv /\ [Next]_vars => CountInv'
  BY <1>2 DEF Next, vars, OfLimits, OfCalls
<1> QED
  BY <1>3, <1>4, PTL DEF Spec

\* Unless two processes called at once, Redis did not answer or a record was lost,
\* any number of processes counts failures as one breaker would.
THEOREM CountedAsOne == Spec => []CountsAsOne
<1>1. CountInv => CountsAsOne
  BY ClosedFits DEF CountInv, OneCount, CountsAsOne
<1> QED
  BY <1>1, CountInvariance, PTL

-----------------------------------------------------------------------------
(* The turns. *)

LEMMA ModUnique ==
  ASSUME NEW n \in Nat \ {0}, NEW q \in Int, NEW s \in 0 .. n - 1
  PROVE  (n * q + s) % n = s
BY SMTT(30)

\* The position after i is one further in the ring, whatever list i was read for.
LEMMA AfterNext ==
  ASSUME NEW n \in Nat \ {0}, NEW i \in Nat
  PROVE  /\ i % n \in 0 .. n - 1
         /\ After(n, i) = IF (i % n) + 1 = n THEN 0 ELSE (i % n) + 1
<1> DEFINE q == i \div n
           r == i % n
<1>1. q \in Int /\ r \in 0 .. n - 1
  OBVIOUS
<1>2. i = n * q + r
  BY SMTT(30)
<1> HIDE DEF q, r
<1>3. CASE r + 1 = n
  <2>1. i + 1 = n * (q + 1) + 0
    BY <1>1, <1>2, <1>3
  <2>2. (n * (q + 1) + 0) % n = 0
    <3>1. q + 1 \in Int /\ 0 \in 0 .. n - 1
      BY <1>1
    <3> QED
      BY <3>1, ModUnique
  <2> QED
    BY <1>1, <1>3, <2>1, <2>2 DEF r, After
<1>4. CASE r + 1 # n
  <2>1. i + 1 = n * q + (r + 1) /\ r + 1 \in 0 .. n - 1
    BY <1>1, <1>2, <1>4
  <2>2. (n * q + (r + 1)) % n = r + 1
    BY <1>1, <2>1, ModUnique
  <2> QED
    BY <1>1, <1>4, <2>1, <2>2 DEF r, After
<1> QED
  BY <1>3, <1>4

\* A position inside the ring is what it is.
LEMMA ModInside ==
  ASSUME NEW n \in Nat \ {0}, NEW i \in 0 .. n - 1
  PROVE  i % n = i
BY SMTT(30)

\* The one that is picked now is one behind the next position ...
LEMMA PickedBehind ==
  ASSUME NEW n \in Nat \ {0}, NEW i \in Nat
  PROVE  Behind(i % n, After(n, i), 1, n) /\ After(n, i) \in 0 .. n - 1
<1> DEFINE r == i % n
<1>1. r \in 0 .. n - 1 /\ After(n, i) = IF r + 1 = n THEN 0 ELSE r + 1
  BY AfterNext
<1> HIDE DEF r
<1>2. Behind(r, After(n, i), 1, n) /\ After(n, i) \in 0 .. n - 1
  BY <1>1 DEF Behind
<1> QED
  BY <1>2 DEF r

\* ... and those that were picked before are one further behind.
LEMMA OneFurther ==
  ASSUME NEW n \in Nat \ {0}, NEW i \in 0 .. n - 1, NEW d \in 1 .. n - 1, NEW at,
         Behind(at, i, d, n)
  PROVE  Behind(at, After(n, i), d + 1, n)
<1>1. i % n = i
  BY ModInside
<1>2. After(n, i) = IF i + 1 = n THEN 0 ELSE i + 1
  BY <1>1, AfterNext
<1> QED
  BY <1>2 DEF Behind

\* Two of the last n are different.
LEMMA BehindDiffer ==
  ASSUME NEW n \in Nat \ {0}, NEW i \in 0 .. n - 1, NEW d \in 1 .. n, NEW e \in 1 .. n, d # e,
         NEW at, Behind(at, i, d, n)
  PROVE  ~Behind(at, i, e, n)
BY DEF Behind

\* The list whose turns are remembered, and a sequence of turns of it.
Turn == [of : Registries, at : Nat]

LEMMA InTurnTyped ==
  ASSUME TurnInv, turns # << >>
  PROVE  /\ turns[1].of \in Registries \ {<< >>}
         /\ Len(turns[1].of) \in Nat \ {0} /\ Len(turns) \in 1 .. Len(turns[1].of)
         /\ index \in 0 .. Len(turns[1].of) - 1
<1> DEFINE list == turns[1].of
<1>1. turns \in Seq(Turn) /\ InTurn(list)
  BY DEF TurnInv, Turn
<1>2. 1 \in DOMAIN turns /\ Len(turns) \in Nat \ {0}
  BY <1>1
<1>3. list \in Registries
  <2>1. turns[1] \in Turn
    BY <1>1, <1>2
  <2> QED
    BY <2>1 DEF Turn
<1>4. list \in Seq(Instances)
  BY <1>3, CallConstants
<1> HIDE DEF list
<1>5. Len(list) \in Nat /\ Len(turns) <= Len(list) /\ index \in 0 .. Len(list) - 1
  BY <1>1, <1>4 DEF InTurn
<1>6. list # << >>
  BY <1>2, <1>5
<1> QED
  BY <1>2, <1>3, <1>5, <1>6 DEF list

\* Nobody picked, or the position and who has read it are as before.
LEMMA TurnsStay ==
  ASSUME TurnInv,
         turns' = << >> \/
           (/\ UNCHANGED <<turns, index>>
            /\ \A c \in Callers : At(c, "index")' =>
                 /\ At(c, "index") /\ call'[c] = call[c]
                 /\ instances'[ProcessOf[c]] = instances[ProcessOf[c]])
  PROVE  TurnInv'
<1>1. CASE turns' = << >>
  BY <1>1 DEF TurnInv
<1>2. CASE /\ UNCHANGED <<turns, index>>
           /\ \A c \in Callers : At(c, "index")' =>
                /\ At(c, "index") /\ call'[c] = call[c]
                /\ instances'[ProcessOf[c]] = instances[ProcessOf[c]]
  BY <1>2 DEF TurnInv, InTurn
<1> QED
  BY <1>1, <1>2

\* Whoever reads the position alone, for the same list, reads what comes next.
LEMMA DiscoverInTurn ==
  ASSUME CallTyped, LocksHeld, TurnInv, NEW c \in Callers, Discover(c)
  PROVE  TurnInv'
<1> DEFINE p == ProcessOf[c]
<1>1. At(c, "instance") /\ Inside(c) /\ p \in Processes /\ lock[p] = c /\ UNCHANGED index
  BY CallConstants DEF Discover, LocksHeld, At, Inside
<1>2. PICK list :
        /\ instances' = [instances EXCEPT ![p] = list]
        /\ \/ Fails(c) /\ NextAttempt(c) /\ UNCHANGED turns
           \/ /\ call' = [call EXCEPT ![c].stage = "index",
                   ![c].pick = <<Len(list), IF index = None THEN 0 ELSE index>>]
              /\ turns' = IF Picking(c) \/ (turns # << >> /\ turns[1].of # list)
                            THEN << >> ELSE turns
  BY DEF Discover
<1>3. \A d \in Callers \ {c} : At(d, "index") => ProcessOf[d] # p
  BY <1>1 DEF LocksHeld, At, Inside
<1>4. \A d \in Callers \ {c} : At(d, "index") => instances'[ProcessOf[d]] = instances[ProcessOf[d]]
  <2>1. \A d \in Callers : ProcessOf[d] \in Processes
    BY CallConstants
  <2> QED
    BY <1>2, <1>3, <2>1 DEF CallTyped
<1>5. CASE Fails(c) /\ NextAttempt(c) /\ UNCHANGED turns
  <2>1. /\ call'[c] = << >> \/ call'[c].stage = "waiting"
        /\ \A d \in Callers \ {c} : call'[d] = call[d]
    BY <1>5 DEF NextAttempt, CallTyped
  <2> QED
    BY <1>1, <1>4, <1>5, <2>1, TurnsStay DEF At, Busy
<1>6. CASE /\ call' = [call EXCEPT ![c].stage = "index",
                ![c].pick = <<Len(list), IF index = None THEN 0 ELSE index>>]
           /\ turns' = IF Picking(c) \/ (turns # << >> /\ turns[1].of # list)
                         THEN << >> ELSE turns
  <2> DEFINE at == IF index = None THEN 0 ELSE index
  <2>1. CASE turns' = << >>
    BY <2>1, TurnsStay
  <2>2. CASE turns' # << >>
    <3>1. UNCHANGED turns /\ turns # << >> /\ ~Picking(c) /\ list = turns[1].of
      BY <1>6, <2>2
    <3>2. \A d \in Callers \ {c} : ~At(d, "index")'
      <4>1. \A d \in Callers \ {c} : call'[d] = call[d]
        BY <1>6 DEF CallTyped
      <4> QED
        BY <3>1, <4>1 DEF Picking, At, Busy
    <3>3. index \in Nat /\ at = index
      BY <3>1, InTurnTyped, CallConstants
    <3> HIDE DEF at
    <3>4. call'[c].pick[2] = index
      <4>1. call[c] \in Call
        BY <1>1 DEF At, Busy, CallTyped
      <4>2. call' = [call EXCEPT ![c] = [call[c] EXCEPT !.stage = "index", !.pick = <<Len(list), at>>]]
        BY <1>6 DEF at
      <4>3. call'[c] = [call[c] EXCEPT !.stage = "index", !.pick = <<Len(list), at>>]
        BY <4>2 DEF CallTyped
      <4>4. call'[c].pick = <<Len(list), at>>
        BY <4>1, <4>3 DEF Call
      <4> QED
        BY <3>3, <4>4
    <3>5. instances'[p] = list
      BY <1>1, <1>2 DEF CallTyped
    <3>6. InTurn(turns[1].of)'
      BY <1>1, <3>1, <3>2, <3>4, <3>5 DEF TurnInv, InTurn
    <3> QED
      BY <3>1, <3>2, <3>6 DEF TurnInv
  <2> QED
    BY <2>1, <2>2
<1> QED
  BY <1>2, <1>5, <1>6

\* Whoever picks alone picks the next in turn.
LEMMA SelectInTurn ==
  ASSUME CallTyped, LocksHeld, TurnInv, NEW c \in Callers, Select(c)
  PROVE  TurnInv'
<1> DEFINE list == instances[ProcessOf[c]]
           i == call[c].pick[2]
           n == Len(list)
           new == [of |-> list, at |-> i % n]
           before == IF Len(turns) = n THEN Tail(turns) ELSE turns
<1>1. ProcessOf[c] \in Processes /\ At(c, "index") /\ UNCHANGED instances
  BY CallConstants DEF Select
<1>2. list # << >> /\ call[c].pick[1] = n /\ i \in Nat
  BY <1>1 DEF LocksHeld
<1>3. list \in Registries /\ n \in Nat \ {0}
  <2>1. list \in Registries
    BY <1>1, <1>2 DEF CallTyped
  <2>2. list \in Seq(Instances)
    BY <2>1, CallConstants
  <2> HIDE DEF list
  <2> QED
    BY <1>2, <2>1, <2>2
<1>4. index' = After(n, i) /\ turns' = IF Picking(c) THEN << >> ELSE Append(before, new)
  BY <1>2 DEF Select
<1>5. CASE Picking(c)
  BY <1>4, <1>5, TurnsStay
<1>6. CASE ~Picking(c)
  <2> HIDE DEF i
  <2>1. \A d \in Callers : ~At(d, "index")'
    <3>1. call[c] \in Call
      BY <1>1 DEF At, Busy, CallTyped
    <3>2. call' = [call EXCEPT ![c] = [call[c] EXCEPT !.stage = "request"]]
      BY DEF Select
    <3>3. [call[c] EXCEPT !.stage = "request"].stage = "request"
      BY <3>1 DEF Call
    <3>4. call'[c].stage = "request" /\ \A d \in Callers \ {c} : call'[d] = call[d]
      BY <3>2, <3>3 DEF CallTyped
    <3> QED
      BY <1>6, <3>4 DEF Picking, At, Busy
  <2>2. new \in Turn
    <3>1. i % n \in 0 .. n - 1
      <4> HIDE DEF n
      <4> QED
        BY <1>2, <1>3, AfterNext
    <3> QED
      BY <1>3, <3>1 DEF Turn
  <2>3. index' \in 0 .. n - 1 /\ Behind(new.at, index', 1, n) /\ new.of = list
    BY <1>2, <1>3, <1>4, PickedBehind
  <2> HIDE DEF new, before
  <2>4. /\ before \in Seq(Turn) /\ Len(before) <= n - 1
        /\ \A k \in 1 .. Len(before) :
             before[k].of = list /\ Behind(before[k].at, index', Len(before) + 2 - k, n)
    <3>1. CASE turns = << >>
      <4>1. before = << >>
        BY <1>3, <3>1 DEF before
      <4> HIDE DEF list
      <4> QED
        BY <1>3, <4>1
    <3>2. CASE turns # << >>
      <4>1. InTurn(list) /\ i = index /\ turns[1].of = list
        BY <1>1, <3>2 DEF TurnInv, InTurn, i
      <4> HIDE DEF list
      <4>2. /\ turns \in Seq(Turn) /\ Len(turns) \in 1 .. n /\ index \in 0 .. n - 1
        BY <3>2, <4>1, InTurnTyped DEF TurnInv, Turn
      <4>3. \A k \in 1 .. Len(turns) :
              turns[k].of = list /\ Behind(turns[k].at, index, Len(turns) + 1 - k, n)
        BY <4>1 DEF InTurn
      <4>4. CASE Len(turns) = n
        <5>1. before = Tail(turns)
          BY <4>4 DEF before
        <5>2. /\ before \in Seq(Turn) /\ Len(before) = n - 1
              /\ \A k \in 1 .. n - 1 : before[k] = turns[k + 1]
          BY <4>2, <4>4, <5>1
        <5>3. ASSUME NEW k \in 1 .. n - 1
              PROVE  before[k].of = list /\ Behind(before[k].at, index', n + 1 - k, n)
          <6>1. k + 1 \in 1 .. Len(turns) /\ n - k \in 1 .. n - 1 /\ Len(turns) + 1 - (k + 1) = n - k
            BY <1>3, <4>4
          <6>2. before[k].of = list /\ Behind(before[k].at, index, n - k, n)
            BY <4>3, <5>2, <6>1
          <6>3. Behind(before[k].at, index', (n - k) + 1, n)
            BY <1>3, <1>4, <4>1, <4>2, <6>1, <6>2, OneFurther
          <6>4. (n - k) + 1 = n + 1 - k
            BY <1>3
          <6> QED
            BY <6>2, <6>3, <6>4
        <5>4. \A k \in 1 .. n - 1 : Len(before) + 2 - k = n + 1 - k
          BY <1>3, <5>2
        <5> QED
          BY <1>3, <5>2, <5>3, <5>4
      <4>5. CASE Len(turns) # n
        <5>1. before = turns
          BY <4>5 DEF before
        <5>2. Len(turns) \in Nat /\ Len(turns) <= n - 1
          BY <1>3, <4>2, <4>5
        <5>3. ASSUME NEW k \in 1 .. Len(turns)
              PROVE  Behind(turns[k].at, index', Len(turns) + 2 - k, n)
          <6>1. Len(turns) + 1 - k \in 1 .. n - 1 /\ (Len(turns) + 1 - k) + 1 = Len(turns) + 2 - k
            BY <1>3, <5>2
          <6>2. Behind(turns[k].at, index', (Len(turns) + 1 - k) + 1, n)
            BY <1>3, <1>4, <4>1, <4>2, <4>3, <6>1, OneFurther
          <6> QED
            BY <6>1, <6>2
        <5> QED
          BY <4>2, <4>3, <5>1, <5>2, <5>3
      <4> QED
        BY <4>4, <4>5
    <3> QED
      BY <3>1, <3>2
  <2>5. turns' = Append(before, new)
    BY <1>4, <1>6
  <2> HIDE DEF list
  <2>6. /\ turns' \in Seq(Turn) /\ Len(turns') = Len(before) + 1 /\ turns' # << >>
        /\ turns'[Len(before) + 1] = new
        /\ \A k \in 1 .. Len(before) : turns'[k] = before[k]
    BY <2>2, <2>4, <2>5
  <2>7. ASSUME NEW k \in 1 .. Len(turns')
        PROVE  turns'[k].of = list /\ Behind(turns'[k].at, index', Len(turns') + 1 - k, n)
    <3>1. Len(before) \in Nat
      BY <2>4
    <3>2. CASE k = Len(before) + 1
      <4>1. Len(turns') + 1 - k = 1
        BY <2>6, <3>1, <3>2
      <4> QED
        BY <2>3, <2>6, <3>2, <4>1
    <3>3. CASE k \in 1 .. Len(before)
      <4>1. Len(turns') + 1 - k = Len(before) + 2 - k
        BY <2>6, <3>1, <3>3
      <4> QED
        BY <2>4, <2>6, <3>3, <4>1
    <3> QED
      BY <2>6, <3>1, <3>2, <3>3
  <2>8. turns'[1].of = list
    <3>1. 1 \in 1 .. Len(turns')
      BY <2>4, <2>6
    <3> QED
      BY <2>7, <3>1
  <2>9. Len(turns') <= n
    BY <1>3, <2>4, <2>6
  <2>10. InTurn(list)'
    <3>1. list' = list
      BY <1>1 DEF list
    <3> QED
      BY <2>1, <2>3, <2>7, <2>9, <3>1 DEF InTurn
  <2>11. InTurn(turns[1].of)'
    <3>1. list' = list
      BY <1>1 DEF list
    <3> QED
      BY <2>8, <2>10, <3>1
  <2> QED
    BY <2>1, <2>6, <2>11 DEF TurnInv, Turn
<1> QED
  BY <1>5, <1>6

LEMMA TurnsKeep ==
  ASSUME CallTyped, LocksHeld, TurnInv, CallNext
  PROVE  TurnInv'
<1>1. ASSUME NEW c \in Callers, Begin(c) \/ Enter(c) PROVE TurnInv'
  <2>1. /\ UNCHANGED <<turns, index, instances>>
        /\ \A d \in Callers \ {c} : call'[d] = call[d]
        /\ call'[c] = << >> \/ call'[c].stage \in {"waiting", "instance"}
    <3>1. CASE Begin(c)
      BY <3>1 DEF Begin, CallTyped
    <3>2. CASE Enter(c)
      <4>1. UNCHANGED <<turns, index, instances>> /\ call[c] \in Call
        BY <3>2 DEF Enter, At, Busy, CallTyped
      <4>2. \/ call' = [call EXCEPT ![c] = << >>]
            \/ call' = [call EXCEPT ![c] = [call[c] EXCEPT !.stage = "instance"]]
        BY <3>2 DEF Enter
      <4>3. [call[c] EXCEPT !.stage = "instance"].stage = "instance"
        BY <4>1 DEF Call
      <4> QED
        BY <4>1, <4>2, <4>3 DEF CallTyped
    <3> QED
      BY <1>1, <3>1, <3>2
  <2> QED
    BY <2>1, TurnsStay DEF At, Busy
<1>2. ASSUME NEW c \in Callers, Succeed(c) \/ Fail(c) \/ CacheFails(c) PROVE TurnInv'
  <2>1. /\ UNCHANGED <<turns, index, instances>>
        /\ \A d \in Callers \ {c} : call'[d] = call[d]
        /\ call'[c] = << >> \/ call'[c].stage = "waiting"
    BY <1>2 DEF Succeed, Fail, CacheFails, NextAttempt, CallTyped
  <2> QED
    BY <2>1, TurnsStay DEF At, Busy
<1>3. CASE UNCHANGED <<turns, index, instances, call>>
  BY <1>3, TurnsStay DEF At, Busy
<1>4. CASE Expire
  BY <1>4, TurnsStay DEF Expire, At, Busy
<1>5. ASSUME NEW p \in Processes, Restart(p) PROVE TurnInv'
  <2>1. /\ UNCHANGED <<turns, index>>
        /\ instances' = [instances EXCEPT ![p] = << >>]
        /\ call' = [c \in Callers |-> IF ProcessOf[c] = p THEN << >> ELSE call[c]]
    BY <1>5 DEF Restart
  <2>2. \A d \in Callers : IF ProcessOf[d] = p THEN call'[d] = << >>
                           ELSE /\ call'[d] = call[d]
                                /\ instances'[ProcessOf[d]] = instances[ProcessOf[d]]
    BY <2>1, CallConstants DEF CallTyped
  <2> QED
    BY <2>1, <2>2, TurnsStay DEF At, Busy
<1> QED
  BY <1>1, <1>2, <1>3, <1>4, <1>5, DiscoverInTurn, SelectInTurn
     DEF CallNext, Execute, GrowStale, Register, Wait

\* TurnInv is inductive, given the types and the locks.
THEOREM TurnInvariance == Spec => []TurnInv
<1>1. CallInit => TurnInv
  BY DEF CallInit, TurnInv
<1>2. CountInv /\ TurnInv /\ [CallNext]_callVars => TurnInv'
  <2> SUFFICES ASSUME CountInv, TurnInv, [CallNext]_callVars PROVE TurnInv'
    OBVIOUS
  <2>1. CASE CallNext
    BY <2>1, TurnsKeep DEF CountInv
  <2>2. CASE UNCHANGED callVars
    BY <2>2, TurnsStay DEF callVars, At, Busy
  <2> QED
    BY <2>1, <2>2
<1>3. Init => TurnInv
  BY <1>1 DEF Init
<1>4. CountInv /\ TurnInv /\ [Next]_vars => TurnInv'
  BY <1>2 DEF Next, vars, OfLimits, OfCalls
<1> QED
  BY <1>3, <1>4, CountInvariance, PTL DEF Spec

\* None of the instances of a list is asked again before all others were, by any
\* number of processes, as long as no two picks overlap.
THEOREM TurnsTaken == Spec => []TakeTurns
<1>1. TurnInv => TakeTurns
  <2> SUFFICES ASSUME TurnInv, NEW j \in DOMAIN turns, NEW k \in DOMAIN turns, j < k
               PROVE  turns[j].at # turns[k].at
    BY DEF TakeTurns
  <2> DEFINE n == Len(turns[1].of)
             m == Len(turns)
  <2>1. turns \in Seq(Turn) /\ turns # << >> /\ InTurn(turns[1].of)
    BY DEF TurnInv, Turn
  <2>2. n \in Nat \ {0} /\ m \in 1 .. n /\ index \in 0 .. n - 1
    BY <2>1, InTurnTyped
  <2>3. j \in 1 .. m /\ k \in 1 .. m
    BY <2>1
  <2>4. Behind(turns[j].at, index, m + 1 - j, n) /\ Behind(turns[k].at, index, m + 1 - k, n)
    BY <2>1, <2>3 DEF InTurn
  <2> HIDE DEF n, m
  <2>5. m + 1 - j \in 1 .. n /\ m + 1 - k \in 1 .. n /\ m + 1 - j # m + 1 - k
    BY <2>2, <2>3
  <2> QED
    BY <2>2, <2>4, <2>5, BehindDiffer
<1> QED
  BY <1>1, TurnInvariance, PTL

-----------------------------------------------------------------------------
(* The rate limits. *)

\* w has read its count and found room below its limit: it is going to write.
Passes(w) ==
  /\ Admitting(w) /\ job[w].stage = "write"
  /\ job[w].current # NoKey => ~Exceeded(job[w].current, Limit(w).limit)

\* The checks that are still going to add to key k.
Passing(k) == {w \in Workers : Passes(w) /\ Limit(w).key = k}

\* A counter and the checks that will still add to it, under a limit of the key.
RoomKept ==
  \A k \in Keys : counter[k] # NoKey =>
    \E p \in Paths : \E i \in DOMAIN Limits[p] :
      /\ Limits[p][i].key = k
      /\ counter[k].value + Cardinality(Passing(k)) <= Limits[p][i].limit + Cardinality(Workers) - 1

RoomInv == LimiterTypeOK /\ RoomKept

-----------------------------------------------------------------------------
(* Sets of workers, and what a step of one worker does to them. *)

\* A set of workers has a size, at most that of all.
LEMMA SomeWorkers ==
  ASSUME NEW S \in SUBSET Workers
  PROVE  /\ IsFiniteSet(S) /\ Cardinality(S) \in Nat
         /\ Cardinality(Workers) \in Nat /\ Cardinality(S) <= Cardinality(Workers)
BY LimitConstants, FS_Subset, FS_CardinalityType

\* Without one of them there is one less.
LEMMA Without ==
  ASSUME NEW S \in SUBSET Workers, NEW w \in S
  PROVE  Cardinality(S \ {w}) = Cardinality(S) - 1
BY SomeWorkers, FS_RemoveElement

\* A limit of a path has a key and is not zero.
LEMMA LimitTyped ==
  ASSUME NEW p \in Paths, NEW i \in DOMAIN Limits[p]
  PROVE  /\ Limits[p][i].key \in Keys /\ Limits[p][i].limit \in Nat \ {0}
         /\ i \in 1 .. Len(Limits[p]) /\ Len(Limits[p]) \in Nat
<1> DEFINE One == [key : Keys, limit : Nat \ {0}]
<1>1. Limits[p] \in Seq(One)
  BY LimitConstants
<1> HIDE DEF One
<1>2. Limits[p][i] \in One /\ i \in 1 .. Len(Limits[p]) /\ Len(Limits[p]) \in Nat
  BY <1>1
<1> QED
  BY <1>2 DEF One

\* The limit a request is at is one of the limits of its key.
LEMMA AtLimit ==
  ASSUME LimiterTypeOK, NEW w \in Workers, Admitting(w)
  PROVE  /\ job[w] \in Job /\ job[w].path \in Paths
         /\ job[w].at \in DOMAIN Limits[job[w].path]
         /\ Limit(w).key \in Keys /\ Limit(w).limit \in Nat \ {0}
<1>1. job[w] \in Job /\ job[w].path \in Paths /\ job[w].at \in DOMAIN Limits[job[w].path]
  BY DEF LimiterTypeOK, Admitting, Job
<1> QED
  BY <1>1, LimitTyped DEF Limit

\* A step of w leaves the checks of the others alone.
LEMMA OthersStay ==
  ASSUME LimiterTypeOK, NEW w \in Workers, NEW j, job' = [job EXCEPT ![w] = j],
         NEW k
  PROVE  Passing(k)' \ {w} = Passing(k) \ {w}
BY DEF LimiterTypeOK, Passing, Passes, Admitting, Limit

\* Under RoomInv, a step that does not add to the counters nor to the checks
\* that pass keeps the room.
LEMMA RoomStays ==
  ASSUME RoomInv, NEW k \in Keys, counter[k] # NoKey,
         counter'[k].value = counter[k].value, Passing(k)' \in SUBSET Passing(k)
  PROVE  \E p \in Paths : \E i \in DOMAIN Limits[p] :
           /\ Limits[p][i].key = k
           /\ counter'[k].value + Cardinality(Passing(k)') <=
                Limits[p][i].limit + Cardinality(Workers) - 1
<1>1. PICK p \in Paths : \E i \in DOMAIN Limits[p] :
        /\ Limits[p][i].key = k
        /\ counter[k].value + Cardinality(Passing(k)) <= Limits[p][i].limit + Cardinality(Workers) - 1
  BY DEF RoomInv, RoomKept
<1>2. PICK i \in DOMAIN Limits[p] :
        /\ Limits[p][i].key = k
        /\ counter[k].value + Cardinality(Passing(k)) <= Limits[p][i].limit + Cardinality(Workers) - 1
  BY <1>1
<1>3. Passing(k) \in SUBSET Workers
  BY DEF Passing
<1>4. /\ Cardinality(Passing(k)') \in Nat /\ Cardinality(Passing(k)) \in Nat
      /\ Cardinality(Passing(k)') <= Cardinality(Passing(k))
  BY <1>3, SomeWorkers, FS_Subset
<1>5. counter[k].value \in Nat /\ Limits[p][i].limit \in Nat /\ Cardinality(Workers) \in Nat
  <2>1. counter[k] \in Counter
    BY DEF RoomInv, LimiterTypeOK
  <2> QED
    BY <2>1, <1>3, LimitTyped, SomeWorkers DEF Counter
<1>6. counter'[k].value + Cardinality(Passing(k)') <= Limits[p][i].limit + Cardinality(Workers) - 1
  BY <1>2, <1>4, <1>5
<1> QED
  BY <1>2, <1>6

-----------------------------------------------------------------------------
(* The steps. *)

\* The counters and the requests keep their types.
LEMMA CountersTyped ==
  ASSUME LimiterTypeOK, [LimiterNext]_limiterVars
  PROVE  LimiterTypeOK'
<1> USE DEF LimiterTypeOK
<1>1. ASSUME NEW w \in Workers, NEW p \in Paths, Arrive(w, p) PROVE LimiterTypeOK'
  <2>1. 1 \in DOMAIN Limits[p]
    BY LimitConstants
  <2> QED
    BY <1>1, <2>1, LimitConstants DEF Arrive, Admitting, Job
<1>2. ASSUME NEW w \in Workers, Read(w) PROVE LimiterTypeOK'
  <2>1. job[w] \in Job /\ Limit(w).key \in Keys
    BY <1>2, AtLimit DEF Read
  <2>2. counter[Limit(w).key] # NoKey => counter[Limit(w).key].value \in Nat
    BY <2>1 DEF Counter
  <2> QED
    BY <1>2, <2>1, <2>2 DEF Read, Admitting, Job
<1>3. ASSUME NEW w \in Workers, Write(w) PROVE LimiterTypeOK'
  <2>1. /\ job[w] \in Job /\ job[w].path \in Paths /\ Limit(w).key \in Keys
        /\ job[w].at \in 1 .. Len(Limits[job[w].path]) /\ Len(Limits[job[w].path]) \in Nat
        /\ DOMAIN Limits[job[w].path] = 1 .. Len(Limits[job[w].path])
    <3>1. /\ job[w] \in Job /\ job[w].path \in Paths /\ Limit(w).key \in Keys
          /\ job[w].at \in DOMAIN Limits[job[w].path]
      BY <1>3, AtLimit DEF Write
    <3>2. Limits[job[w].path] \in Seq([key : Keys, limit : Nat \ {0}])
      BY <3>1, LimitConstants
    <3> QED
      BY <3>1, <3>2, LimitTyped
  <2>2. /\ Setex \in Counter
        /\ \A c \in Counter \union {NoKey} : Incr(c) \in Counter
    BY DEF Setex, Incr, Counter
  <2>3. counter' \in [Keys -> Counter \union {NoKey}]
    BY <1>3, <2>1, <2>2 DEF Write
  <2>4. /\ job' \in [Workers -> Job \union {<< >>}]
        /\ \A v \in Workers : job'[v] # << >> => job'[v].at \in DOMAIN Limits[job'[v].path]
    <3>1. CASE job' = [job EXCEPT ![w] = << >>]
      BY <3>1 DEF Admitting
    <3>2. CASE NextLimit(w) /\ job[w].at # Len(Limits[job[w].path])
      <4> DEFINE j == [job[w] EXCEPT !.at = @ + 1, !.stage = "get", !.current = NoKey]
      <4>1. j \in Job /\ j.at \in DOMAIN Limits[j.path]
        <5>1. job[w].at + 1 \in 1 .. Len(Limits[job[w].path])
          BY <2>1, <3>2
        <5>2. j.path = job[w].path /\ j.at = job[w].at + 1
          BY <2>1 DEF Job
        <5>3. j \in Job
          <6>1. job[w] \in Job /\ job[w].at + 1 \in Nat
            BY <2>1, <5>1
          <6>2. \A r \in Job, n \in Nat :
                  [r EXCEPT !.at = n, !.stage = "get", !.current = NoKey] \in Job
            BY DEF Job
          <6> QED
            BY <6>1, <6>2
        <5> QED
          BY <2>1, <5>1, <5>2, <5>3
      <4>2. job' = [job EXCEPT ![w] = j]
        BY <3>2 DEF NextLimit
      <4> QED
        BY <4>1, <4>2 DEF Admitting
    <3> QED
      BY <1>3, <3>1, <3>2 DEF Write, NextLimit
  <2> QED
    BY <1>3, <2>3, <2>4 DEF Write, Admitting
<1>4. ASSUME NEW w \in Workers, Abort(w) PROVE LimiterTypeOK'
  BY <1>4 DEF Abort, Admitting
<1>5. ASSUME NEW k \in Keys, ExpireKey(k) PROVE LimiterTypeOK'
  BY <1>5 DEF ExpireKey, Admitting
<1>6. CASE UNCHANGED limiterVars
  BY <1>6 DEF limiterVars, Admitting
<1> QED
  BY <1>1, <1>2, <1>3, <1>4, <1>5, <1>6 DEF LimiterNext

\* A step that changes no counter and lets no check pass keeps the room.
LEMMA QuietKeeps ==
  ASSUME RoomInv, UNCHANGED counter,
         \A k \in Keys : Passing(k)' \in SUBSET Passing(k)
  PROVE  RoomKept'
BY RoomStays DEF RoomKept

\* A check passes only if the counter is below its limit: the workers that pass
\* then are at most all of them.
LEMMA ReadKeeps ==
  ASSUME RoomInv, NEW w \in Workers, Read(w)
  PROVE  RoomKept'
<1> DEFINE h == Limit(w).key
           p == job[w].path
           i == job[w].at
<1>1. /\ h \in Keys /\ p \in Paths /\ i \in DOMAIN Limits[p] /\ LimiterTypeOK
      /\ Limits[p][i].key = h /\ Limits[p][i].limit \in Nat /\ Limit(w) = Limits[p][i]
  BY AtLimit DEF RoomInv, Read, Limit
<1>2. /\ counter' = counter /\ Admitting(w) /\ job[w].stage = "get"
      /\ job'[w].current = IF counter[h] = NoKey THEN NoKey ELSE counter[h].value
      /\ Limit(w)' = Limit(w)
      /\ \A k : Passing(k)' \ {w} = Passing(k) \ {w} /\ w \notin Passing(k)
  <2>1. \E j : job' = [job EXCEPT ![w] = j]
    BY DEF Read, RoomInv, LimiterTypeOK
  <2>2. \A k : Passing(k)' \ {w} = Passing(k) \ {w}
    BY <1>1, <2>1, OthersStay
  <2>3. /\ Admitting(w) /\ job[w].stage = "get" /\ counter' = counter
        /\ job' = [job EXCEPT ![w] = [job[w] EXCEPT !.stage = "write",
              !.current = IF counter[h] = NoKey THEN NoKey ELSE counter[h].value]]
        /\ job \in [Workers -> Job \union {<< >>}] /\ job[w] \in Job
    BY AtLimit DEF Read, RoomInv, LimiterTypeOK
  <2>4. /\ job'[w].current = IF counter[h] = NoKey THEN NoKey ELSE counter[h].value
        /\ job'[w].path = p /\ job'[w].at = i
    BY <2>3 DEF Job
  <2>5. Limit(w)' = Limit(w)
    BY <2>4 DEF Limit
  <2>6. \A k : w \notin Passing(k)
    BY <2>3 DEF Passing, Passes
  <2> QED
    BY <2>2, <2>3, <2>4, <2>5, <2>6
<1>3. ASSUME NEW k \in Keys, counter'[k] # NoKey
      PROVE  \E q \in Paths : \E l \in DOMAIN Limits[q] :
               /\ Limits[q][l].key = k
               /\ counter'[k].value + Cardinality(Passing(k)') <=
                    Limits[q][l].limit + Cardinality(Workers) - 1
  <2>1. CASE w \notin Passing(k)'
    <3>1. Passing(k)' \in SUBSET Passing(k)
      BY <1>2, <2>1
    <3> QED
      BY <1>2, <1>3, <3>1, RoomStays
  <2>2. CASE w \in Passing(k)'
    <3>1. k = h /\ counter[h] # NoKey
      BY <1>2, <1>3, <2>2 DEF Passing
    <3>2. counter[h].value \in Nat /\ counter[h].value # NoKey
      BY <1>1, <3>1, LimitConstants DEF LimiterTypeOK, Counter
    <3>3. ~(counter[h].value >= Limits[p][i].limit)
      BY <1>1, <1>2, <2>2, <3>1, <3>2 DEF Passing, Passes, Exceeded
    <3>4. /\ Cardinality(Passing(k)') \in Nat /\ Cardinality(Workers) \in Nat
          /\ Cardinality(Passing(k)') <= Cardinality(Workers)
      <4>1. Passing(k)' \in SUBSET Workers
        BY DEF Passing
      <4> QED
        BY <4>1, SomeWorkers
    <3>5. Limits[p][i].limit \in Nat /\ counter'[k].value = counter[h].value
      BY <1>1, <1>2, <3>1
    <3>6. counter'[k].value + Cardinality(Passing(k)') <= Limits[p][i].limit + Cardinality(Workers) - 1
      BY <3>2, <3>3, <3>4, <3>5
    <3> QED
      BY <1>1, <3>1, <3>6
  <2> QED
    BY <2>1, <2>2
<1> QED
  BY <1>3 DEF RoomKept

\* The check that adds to the counter no longer passes; a counter that is new,
\* or that ran out in between, starts at one.
LEMMA WriteKeeps ==
  ASSUME RoomInv, NEW w \in Workers, Write(w)
  PROVE  RoomKept'
<1>0. PICK h \in Keys : h = Limit(w).key
  BY AtLimit DEF RoomInv, Write
<1> DEFINE p == job[w].path
           i == job[w].at
           n == job[w].current
<1>1. /\ p \in Paths /\ i \in DOMAIN Limits[p] /\ LimiterTypeOK
      /\ Limits[p][i].key = h /\ Limits[p][i].limit \in Nat \ {0} /\ Limit(w) = Limits[p][i]
      /\ Admitting(w) /\ job[w].stage = "write" /\ job \in [Workers -> Job \union {<< >>}]
      /\ job[w] \in Job
  BY <1>0, AtLimit DEF RoomInv, Write, Limit, LimiterTypeOK
<1>2. \A k : Passing(k)' = Passing(k) \ {w}
  <2>1. \E j : job' = [job EXCEPT ![w] = j] /\ (j = << >> \/ j.stage = "get")
    BY <1>1 DEF Write, NextLimit, Job
  <2>2. \A k : Passing(k)' \ {w} = Passing(k) \ {w}
    BY <1>1, <2>1, OthersStay
  <2>3. \A k : w \notin Passing(k)'
    BY <1>1, <2>1 DEF Passing, Passes, Admitting
  <2> QED
    BY <2>2, <2>3
<1>3. CASE n # NoKey /\ Exceeded(n, Limit(w).limit)
  <2>1. counter' = counter
    BY <1>3 DEF Write
  <2> QED
    BY <1>2, <2>1, QuietKeeps
<1>4. CASE ~(n # NoKey /\ Exceeded(n, Limit(w).limit))
  <2>1. counter' = [counter EXCEPT ![h] = IF n = NoKey THEN Setex ELSE Incr(@)]
    BY <1>0, <1>4 DEF Write
  <2>2. w \in Passing(h)
    BY <1>0, <1>1, <1>4 DEF Passing, Passes
  <2>3. /\ Cardinality(Passing(h)') = Cardinality(Passing(h)) - 1
        /\ Cardinality(Passing(h)) \in Nat /\ Cardinality(Workers) \in Nat
        /\ Cardinality(Passing(h)) <= Cardinality(Workers)
    <3>1. Passing(h) \in SUBSET Workers
      BY DEF Passing
    <3> QED
      BY <1>2, <2>2, <3>1, SomeWorkers, Without
  <2>4. ASSUME NEW k \in Keys, counter'[k] # NoKey
        PROVE  \E q \in Paths : \E l \in DOMAIN Limits[q] :
                 /\ Limits[q][l].key = k
                 /\ counter'[k].value + Cardinality(Passing(k)') <=
                      Limits[q][l].limit + Cardinality(Workers) - 1
    <3>1. CASE k # h
      BY <1>1, <1>2, <2>1, <2>4, <3>1, RoomStays DEF LimiterTypeOK
    <3>2. CASE k = h /\ (n = NoKey \/ counter[h] = NoKey)
      <4>1. counter'[k].value = 1
        BY <1>1, <2>1, <3>2 DEF LimiterTypeOK, Setex, Incr
      <4>2. Limits[p][i].limit \in Nat \ {0} /\ Passing(k)' = Passing(h)'
        BY <1>1, <3>2
      <4>3. counter'[k].value + Cardinality(Passing(k)') <= Limits[p][i].limit + Cardinality(Workers) - 1
        BY <2>3, <4>1, <4>2
      <4> QED
        BY <1>1, <3>2, <4>3
    <3>3. CASE k = h /\ n # NoKey /\ counter[h] # NoKey
      <4>1. counter[h].value \in Nat /\ counter'[k].value = counter[h].value + 1
        BY <1>1, <2>1, <3>3 DEF LimiterTypeOK, Incr, Counter
      <4>2. PICK q \in Paths : \E l \in DOMAIN Limits[q] :
              /\ Limits[q][l].key = h
              /\ counter[h].value + Cardinality(Passing(h)) <=
                   Limits[q][l].limit + Cardinality(Workers) - 1
        BY <1>1, <3>3 DEF RoomInv, RoomKept
      <4>3. PICK l \in DOMAIN Limits[q] :
              /\ Limits[q][l].key = h
              /\ counter[h].value + Cardinality(Passing(h)) <=
                   Limits[q][l].limit + Cardinality(Workers) - 1
        BY <4>2
      <4>4. Limits[q][l].limit \in Nat
        BY LimitTyped
      <4>5. counter'[k].value + Cardinality(Passing(k)') <= Limits[q][l].limit + Cardinality(Workers) - 1
        BY <2>3, <3>3, <4>1, <4>3, <4>4
      <4> QED
        BY <3>3, <4>3, <4>5
    <3> QED
      BY <3>1, <3>2, <3>3
  <2> QED
    BY <2>4 DEF RoomKept
<1> QED
  BY <1>3, <1>4

\* A request arrives or ends, or a counter runs out.
LEMMA RestKeeps ==
  ASSUME RoomInv,
         \/ \E w \in Workers : Abort(w) \/ \E p \in Paths : Arrive(w, p)
         \/ \E k \in Keys : ExpireKey(k)
         \/ UNCHANGED limiterVars
  PROVE  RoomKept'
<1>1. ASSUME NEW w \in Workers, Abort(w) \/ \E p \in Paths : Arrive(w, p)
      PROVE  RoomKept'
  <2>1. /\ counter' = counter
        /\ \E j : job' = [job EXCEPT ![w] = j] /\ (j = << >> \/ j.stage = "get")
    <3>1. CASE Abort(w)
      BY <3>1 DEF Abort
    <3>2. ASSUME NEW p \in Paths, Arrive(w, p)
          PROVE  /\ counter' = counter
                 /\ \E j : job' = [job EXCEPT ![w] = j] /\ (j = << >> \/ j.stage = "get")
      <4> DEFINE j == [path |-> p, at |-> 1, stage |-> "get", current |-> NoKey]
      <4>1. counter' = counter /\ job' = [job EXCEPT ![w] = j] /\ j.stage = "get"
        BY <3>2 DEF Arrive
      <4> QED
        BY <4>1
    <3> QED
      BY <1>1, <3>1, <3>2
  <2>2. \A k : Passing(k)' \ {w} = Passing(k) \ {w}
    BY <2>1, OthersStay DEF RoomInv
  <2>3. \A k : w \notin Passing(k)'
    BY <2>1 DEF Passing, Passes, Admitting, RoomInv, LimiterTypeOK
  <2> QED
    BY <2>1, <2>2, <2>3, QuietKeeps
<1>2. ASSUME NEW h \in Keys, ExpireKey(h) PROVE RoomKept'
  <2>1. /\ counter' = [counter EXCEPT ![h] = NoKey] /\ counter \in [Keys -> Counter \union {NoKey}]
        /\ \A k : Passing(k)' = Passing(k)
    BY <1>2 DEF ExpireKey, Passing, Passes, Admitting, Limit, RoomInv, LimiterTypeOK
  <2>2. \A k \in Keys : counter'[k] # NoKey => counter[k] # NoKey /\ counter'[k].value = counter[k].value
    BY <2>1
  <2> QED
    BY <2>1, <2>2, RoomStays DEF RoomKept
<1>3. CASE UNCHANGED limiterVars
  BY <1>3, QuietKeeps DEF limiterVars, Passing, Passes, Admitting, Limit
<1> QED
  BY <1>1, <1>2, <1>3

-----------------------------------------------------------------------------
\* RoomInv is inductive.
THEOREM RoomInvariance == Spec => []RoomInv
<1>1. LimiterInit => RoomInv
  BY LimitConstants DEF LimiterInit, RoomInv, LimiterTypeOK, RoomKept, Admitting
<1>2. RoomInv /\ [LimiterNext]_limiterVars => RoomInv'
  <2> SUFFICES ASSUME RoomInv, [LimiterNext]_limiterVars PROVE RoomInv'
    OBVIOUS
  <2>1. LimiterTypeOK'
    BY CountersTyped DEF RoomInv
  <2>2. RoomKept'
    BY ReadKeeps, WriteKeeps, RestKeeps DEF LimiterNext
  <2> QED
    BY <2>1, <2>2 DEF RoomInv
<1>3. Init => RoomInv
  BY <1>1 DEF Init
<1>4. RoomInv /\ [Next]_vars => RoomInv'
  BY <1>2 DEF Next, vars, OfLimits, OfCalls
<1> QED
  BY <1>3, <1>4, PTL DEF Spec

\* For any number of workers and any limits, a counter overruns the largest limit
\* of its key by less than the number of workers.
THEOREM OverrunIsBounded == Spec => []OverrunBounded
<1>1. RoomInv => OverrunBounded
  <2> SUFFICES ASSUME RoomInv, NEW k \in Keys, counter[k] # NoKey
               PROVE  \E p \in Paths : \E i \in DOMAIN Limits[p] :
                        /\ Limits[p][i].key = k
                        /\ counter[k].value <= Limits[p][i].limit + Cardinality(Workers) - 1
    BY DEF OverrunBounded
  <2>1. PICK p \in Paths : \E i \in DOMAIN Limits[p] :
          /\ Limits[p][i].key = k
          /\ counter[k].value + Cardinality(Passing(k)) <=
               Limits[p][i].limit + Cardinality(Workers) - 1
    BY DEF RoomInv, RoomKept
  <2>2. PICK i \in DOMAIN Limits[p] :
          /\ Limits[p][i].key = k
          /\ counter[k].value + Cardinality(Passing(k)) <=
               Limits[p][i].limit + Cardinality(Workers) - 1
    BY <2>1
  <2>3. Passing(k) \in SUBSET Workers
    BY DEF Passing
  <2>4. Cardinality(Passing(k)) \in Nat /\ Cardinality(Workers) \in Nat
    BY <2>3, SomeWorkers
  <2>5. counter[k].value \in Nat /\ Limits[p][i].limit \in Nat
    BY LimitTyped DEF RoomInv, LimiterTypeOK, Counter
  <2>6. counter[k].value <= Limits[p][i].limit + Cardinality(Workers) - 1
    BY <2>2, <2>4, <2>5
  <2> QED
    BY <2>2, <2>6
<1> QED
  BY <1>1, RoomInvariance, PTL

-----------------------------------------------------------------------------
(* The configuration: what is true of a state that can be reached.           *)

\* A request has what its stage needs.
GetReading  == [kind : {"get"}, stage : {"row", "fill"}, of : Configuration \union {Nothing},
                old : Texts \union {Nothing}, value : Texts \union {Nothing},
                description : Descriptions \union {Nothing}]
SetReading  == [kind : {"set"}, stage : {"save", "log", "cache"}, of : Configuration,
                old : Texts \union {Nothing}, value : Texts, description : Descriptions]
EditReading == [kind : {"edit"}, stage : {"overwrite"}, of : Configuration,
                old : Texts \union {Nothing}, value : Texts, description : Descriptions]

ConfigTyped ==
  /\ config \in Configuration \union {Nothing}
  /\ history \in Seq(Change)
  /\ redis \in Texts \union {Nothing}
  /\ reading \in [Readers -> GetReading \union SetReading \union EditReading \union {<< >>}]
  /\ \A r \in Readers : OnStage(r, "fill") => reading[r].value \in Texts
  /\ keys \in Nat /\ tangled \in BOOLEAN

Sets(r) == Active(r) /\ reading[r].kind = "set"

\* A history of which each change starts from what the one before left.
Linked(h) ==
  /\ h # << >> => h[1].old = Nothing
  /\ \A i \in 2 .. Len(h) : h[i].old = h[i - 1].new
LastNew(h) == IF h = << >> THEN Nothing ELSE h[Len(h)].new

\* Row and history agree, and Redis has the value of the row or nothing.
Agreed ==
  IF config = Nothing THEN history = << >>
  ELSE config.version = Len(history) /\ history # << >> /\ LastNew(history) = config.value
Current == redis # Nothing => config # Nothing /\ redis = config.value

\* The one request that writes has the row as it left it, at each of its stages.
SetSound(r) ==
  LET j == reading[r] IN
  /\ j.stage = "save"  => Agreed /\ Current /\ j.of = config /\ j.old = config.value
  /\ j.stage = "log"   => /\ config # Nothing /\ config.key = j.of.key /\ config.value = j.value
                          /\ config.version = Len(history) + 1 /\ j.old = LastNew(history)
  /\ j.stage = "cache" => Agreed /\ config # Nothing /\ config.value = j.value

Untangled ==
  /\ \A r \in Readers : Active(r) => reading[r].kind # "edit"
  /\ \A r, q \in Readers : Sets(r) /\ Active(q) => q = r
  /\ \A r \in Readers : OnStage(r, "fill") => config # Nothing /\ reading[r].value = config.value
  /\ Linked(history)
  /\ \A r \in Readers : Sets(r) => SetSound(r)
  /\ (\A r \in Readers : ~Sets(r)) => Agreed /\ Current

ConfigInv == ConfigTyped /\ (~tangled => Untangled)

-----------------------------------------------------------------------------
(* Requests about the configuration. *)

\* What a request does to its own record leaves the others as they are.
LEMMA OtherReadings ==
  ASSUME ConfigTyped, NEW r \in Readers, NEW j, reading' = [reading EXCEPT ![r] = j]
  PROVE  /\ reading'[r] = j /\ \A q \in Readers : q # r => reading'[q] = reading[q]
         /\ \A q \in Readers : q # r => (Active(q)' <=> Active(q)) /\ (Sets(q)' <=> Sets(q))
  BY DEF ConfigTyped, Active, Sets

\* A request ends, and writes nothing: unless it was the one that sets.
LEMMA ReadingEnds ==
  ASSUME ConfigInv, NEW r \in Readers, Active(r), Done(r), tangled' \in BOOLEAN,
         UNCHANGED <<config, history, redis, keys>>,
         ~tangled' => ~tangled /\ ~Sets(r)
  PROVE  ConfigInv'
<1>1. ConfigTyped /\ reading' = [reading EXCEPT ![r] = << >>]
  BY DEF ConfigInv, Done
<1>2. /\ reading'[r] = << >> /\ \A q \in Readers : q # r => reading'[q] = reading[q]
      /\ \A q \in Readers : q # r => (Active(q)' <=> Active(q)) /\ (Sets(q)' <=> Sets(q))
  BY <1>1, OtherReadings
<1>3. ~Active(r)' /\ ~Sets(r)'
  BY <1>2 DEF Active, Sets
<1>4. ConfigTyped'
  BY <1>1, <1>2, <1>3 DEF ConfigTyped, OnStage
<1>5. ASSUME ~tangled' PROVE Untangled'
  <2>1. Untangled /\ ~Sets(r)
    BY <1>5 DEF ConfigInv
  <2>2. ASSUME NEW q \in Readers, Active(q)' PROVE reading'[q] = reading[q] /\ Active(q) /\ (Sets(q)' <=> Sets(q))
    BY <1>2, <1>3, <2>2
  <2>3. (\A q \in Readers : ~Sets(q)') => \A q \in Readers : ~Sets(q)
    BY <1>2, <2>1
  <2> QED
    BY <2>1, <2>2, <2>3 DEF Untangled, OnStage, Sets, SetSound, Agreed, Current, LastNew
<1> QED
  BY <1>4, <1>5 DEF ConfigInv

\* A read begins, finds its row, or is answered from a cache.
LEMMA ReadsKeep ==
  ASSUME ConfigInv, NEW r \in Readers, ReadRedis(r) \/ ReadRow(r)
  PROVE  ConfigInv'
<1>0. ConfigTyped /\ (~tangled => Untangled)
  BY DEF ConfigInv
<1>1. CASE ReadRedis(r) /\ redis # Nothing
  <2>1. UNCHANGED <<config, history, redis, keys, reading>> /\ tangled' \in BOOLEAN /\ (tangled => tangled')
    BY <1>0, <1>1 DEF ReadRedis, ConfigTyped
  <2> QED
    BY <1>0, <2>1 DEF ConfigInv, ConfigTyped, Untangled, OnStage, Active, Sets, SetSound, Agreed, Current, LastNew
<1>2. CASE ReadRedis(r) /\ redis = Nothing
  <2> DEFINE j == [kind |-> "get", stage |-> "row", of |-> Nothing, old |-> Nothing, value |-> Nothing,
                   description |-> Nothing]
  <2>1. /\ ~Active(r) /\ reading' = [reading EXCEPT ![r] = j] /\ UNCHANGED <<config, history, redis, keys>>
        /\ tangled' = (tangled \/ Crosses(r, FALSE))
    BY <1>2 DEF ReadRedis, StartReading
  <2>2. j \in GetReading /\ j.kind = "get" /\ j.stage = "row"
    BY DEF GetReading
  <2> HIDE DEF j
  <2>3. /\ reading'[r] = j /\ \A q \in Readers : q # r => reading'[q] = reading[q]
        /\ \A q \in Readers : q # r => (Active(q)' <=> Active(q)) /\ (Sets(q)' <=> Sets(q))
    BY <1>0, <2>1, OtherReadings
  <2>4. ~Sets(r)' /\ ~OnStage(r, "fill")' /\ ~Sets(r)
    BY <2>1, <2>2, <2>3 DEF Sets, OnStage
  <2>5. ConfigTyped'
    BY <1>0, <2>1, <2>2, <2>3, <2>4 DEF ConfigTyped, OnStage
  <2>6. ASSUME ~tangled' PROVE Untangled'
    <3>1. Untangled /\ ~Crosses(r, FALSE)
      BY <1>0, <2>1, <2>6
    <3>2. \A q \in Readers : ~Sets(q)
      BY <2>4, <3>1 DEF Crosses, Sets
    <3>3. \A q \in Readers : ~Sets(q)'
      BY <2>3, <2>4, <3>2
    <3>4. reading'[r].kind # "edit"
      BY <2>2, <2>3
    <3> QED
      BY <2>1, <2>3, <2>4, <3>1, <3>2, <3>3, <3>4 DEF Untangled, OnStage, Agreed, Current, LastNew
  <2> QED
    BY <2>5, <2>6 DEF ConfigInv
<1>3. CASE ReadRow(r) /\ config = Nothing
  <2>1. Active(r) /\ Done(r) /\ ~Sets(r)
    BY <1>0, <1>3 DEF ReadRow, OnStage, Done, Sets, Active, ConfigTyped, GetReading, SetReading, EditReading
  <2> QED
    BY <1>0, <1>3, <2>1, ReadingEnds DEF ReadRow, ConfigTyped
<1>4. CASE ReadRow(r) /\ config # Nothing
  <2> DEFINE j == [reading[r] EXCEPT !.stage = "fill", !.value = config.value]
  <2>1. /\ OnStage(r, "row") /\ reading' = [reading EXCEPT ![r] = j]
        /\ UNCHANGED <<config, history, redis, keys, tangled>>
    BY <1>0, <1>4 DEF ReadRow, ConfigTyped
  <2>2. reading[r] \in GetReading /\ config \in Configuration
    BY <1>0, <1>4, <2>1 DEF ConfigTyped, OnStage, Active, SetReading, EditReading
  <2>3. j \in GetReading /\ j.kind = "get" /\ j.stage = "fill" /\ j.value = config.value /\ j.value \in Texts
    BY <2>2 DEF GetReading, Configuration
  <2> HIDE DEF j
  <2>4. /\ reading'[r] = j /\ \A q \in Readers : q # r => reading'[q] = reading[q]
        /\ \A q \in Readers : q # r => (Active(q)' <=> Active(q)) /\ (Sets(q)' <=> Sets(q))
    BY <1>0, <2>1, OtherReadings
  <2>5. ~Sets(r)' /\ ~Sets(r) /\ Active(r)
    BY <2>1, <2>2, <2>3, <2>4 DEF Sets, OnStage, GetReading
  <2>6. ConfigTyped'
    BY <1>0, <2>1, <2>3, <2>4 DEF ConfigTyped, OnStage
  <2>7. ASSUME ~tangled' PROVE Untangled'
    <3>1. Untangled
      BY <1>0, <2>1, <2>7
    <3>2. \A q \in Readers : Sets(q)' => Sets(q) /\ reading'[q] = reading[q]
      BY <2>4, <2>5
    <3>3. (\A q \in Readers : ~Sets(q)') => \A q \in Readers : ~Sets(q)
      BY <2>4, <2>5
    <3>4. \A p, q \in Readers : Sets(p)' /\ Active(q)' => q = p
      BY <2>4, <2>5, <3>1 DEF Untangled
    <3>5. \A q \in Readers : Sets(q)' => SetSound(q)'
      BY <2>1, <3>1, <3>2 DEF Untangled, SetSound, Agreed, Current, LastNew
    <3>6. (\A q \in Readers : ~Sets(q)') => (Agreed /\ Current)'
      BY <2>1, <3>1, <3>3 DEF Untangled, Agreed, Current, LastNew
    <3> QED
      BY <2>1, <2>3, <2>4, <3>1, <3>4, <3>5, <3>6, <1>4 DEF Untangled, OnStage
  <2> QED
    BY <2>6, <2>7 DEF ConfigInv
<1> QED
  BY <1>1, <1>2, <1>3, <1>4

\* Both caches are given a value that is the row's.
LEMMA CachesFilled ==
  ASSUME ConfigInv, NEW r \in Readers, Fill(r) \/ CacheBoth(r)
  PROVE  ConfigInv'
<1>1. /\ ConfigTyped /\ (~tangled => Untangled) /\ (OnStage(r, "fill") \/ OnStage(r, "cache"))
      /\ redis' = reading[r].value /\ reading' = [reading EXCEPT ![r] = << >>]
      /\ UNCHANGED <<config, history, keys, tangled>>
  BY DEF ConfigInv, Fill, CacheBoth, Done
<1>2. /\ reading'[r] = << >> /\ \A q \in Readers : q # r => reading'[q] = reading[q]
      /\ \A q \in Readers : q # r => (Active(q)' <=> Active(q)) /\ (Sets(q)' <=> Sets(q))
  BY <1>1, OtherReadings
<1>3. ~Active(r)' /\ ~Sets(r)' /\ Active(r)
  BY <1>1, <1>2 DEF Active, Sets, OnStage
<1>4. reading[r].value \in Texts /\ (OnStage(r, "cache") => Sets(r)) /\ (OnStage(r, "fill") => ~Sets(r))
  BY <1>1 DEF OnStage, ConfigTyped, Active, Sets, GetReading, SetReading, EditReading
<1>5. ConfigTyped'
  BY <1>1, <1>2, <1>3, <1>4 DEF ConfigTyped, OnStage
<1>6. ASSUME ~tangled' PROVE Untangled'
  <2>1. Untangled
    BY <1>1, <1>6
  <2>2. \A q \in Readers : Active(q)' => q # r /\ Active(q) /\ reading'[q] = reading[q] /\ (Sets(q)' <=> Sets(q))
    BY <1>2, <1>3
  <2>3. \A q \in Readers : ~Sets(q)'
    BY <1>1, <1>3, <1>4, <2>1, <2>2 DEF Untangled, Sets, OnStage
  <2>4. config # Nothing /\ redis' = config.value /\ Agreed
    <3>1. CASE OnStage(r, "cache")
      <4>1. SetSound(r)
        BY <1>4, <2>1, <3>1 DEF Untangled
      <4> QED
        BY <1>1, <3>1, <4>1 DEF SetSound, OnStage
    <3>2. CASE OnStage(r, "fill")
      <4>1. \A q \in Readers : ~Sets(q)
        BY <1>3, <1>4, <2>1, <3>2 DEF Untangled
      <4> QED
        BY <1>1, <2>1, <3>2, <4>1 DEF Untangled
    <3> QED
      BY <1>1, <3>1, <3>2
  <2>5. (Agreed /\ Current)'
    BY <1>1, <2>4 DEF Agreed, Current, LastNew
  <2> QED
    BY <1>1, <2>1, <2>2, <2>3, <2>5 DEF Untangled, OnStage
<1> QED
  BY <1>5, <1>6 DEF ConfigInv

\* A request starts to set, and may have created the row.
LEMMA SetStarts ==
  ASSUME ConfigInv, NEW r \in Readers, NEW v \in Texts, NEW d \in Descriptions, ReadOrCreate(r, v, d)
  PROVE  ConfigInv'
<1>1. /\ ConfigTyped /\ (~tangled => Untangled) /\ ~Active(r) /\ UNCHANGED <<history, redis>>
      /\ tangled' = (tangled \/ Crosses(r, TRUE))
  BY DEF ConfigInv, ReadOrCreate
<1>2. PICK j : /\ j \in SetReading /\ reading' = [reading EXCEPT ![r] = j]
               /\ config' \in Configuration /\ keys' \in Nat
               /\ j.of = config' /\ j.value = v
               /\ \/ /\ config = Nothing /\ j.stage = "log" /\ j.old = Nothing
                     /\ config'.value = v /\ config'.version = 1
                  \/ /\ config' = config /\ config # Nothing /\ j.stage = "save" /\ j.old = config.value
                  \/ /\ config' = config /\ config # Nothing /\ j.stage = "cache" /\ config.value = v
  <2>1. CASE config = Nothing
    <3> DEFINE c == [key |-> keys, value |-> v, description |-> d, version |-> 1]
               j == [kind |-> "set", stage |-> "log", of |-> c, old |-> Nothing, value |-> v, description |-> d]
    <3>1. config' = c /\ keys' = keys + 1 /\ reading' = [reading EXCEPT ![r] = j]
      BY <2>1 DEF ReadOrCreate, StartReading
    <3>2. c \in Configuration /\ c.value = v /\ c.version = 1
      BY <1>1 DEF ConfigTyped, Configuration
    <3>3. j \in SetReading /\ j.of = c /\ j.value = v /\ j.stage = "log" /\ j.old = Nothing
      BY <3>2 DEF SetReading
    <3>4. keys' \in Nat
      BY <1>1, <3>1 DEF ConfigTyped
    <3> HIDE DEF c, j
    <3> QED
      BY <2>1, <3>1, <3>2, <3>3, <3>4
  <2>2. CASE config # Nothing
    <3> DEFINE s == IF config.value = v /\ config.description = d THEN "cache" ELSE "save"
               j == [kind |-> "set", stage |-> s, of |-> config, old |-> config.value, value |-> v, description |-> d]
    <3>1. config' = config /\ keys' = keys /\ reading' = [reading EXCEPT ![r] = j]
      BY <2>2 DEF ReadOrCreate, StartReading
    <3>2. config \in Configuration /\ config.value \in Texts
      BY <1>1, <2>2 DEF ConfigTyped, Configuration
    <3>3. /\ j \in SetReading /\ j.of = config /\ j.value = v /\ j.old = config.value
          /\ j.stage = "save" \/ (j.stage = "cache" /\ config.value = v)
      BY <3>2 DEF SetReading
    <3>4. keys' \in Nat
      BY <1>1, <3>1 DEF ConfigTyped
    <3> HIDE DEF j
    <3> QED
      BY <2>2, <3>1, <3>2, <3>3, <3>4
  <2> QED
    BY <2>1, <2>2
<1>3. /\ reading'[r] = j /\ \A q \in Readers : q # r => reading'[q] = reading[q]
      /\ \A q \in Readers : q # r => (Active(q)' <=> Active(q)) /\ (Sets(q)' <=> Sets(q))
  BY <1>1, <1>2, OtherReadings
<1>4. j.kind = "set" /\ j.stage # "fill"
  BY <1>2 DEF SetReading
<1>5. ConfigTyped'
  <2>1. tangled' \in BOOLEAN
    BY <1>1
  <2> QED
    BY <1>1, <1>2, <1>3, <1>4, <2>1 DEF ConfigTyped, OnStage
<1>6. ASSUME ~tangled' PROVE Untangled'
  <2>1. Untangled /\ \A q \in Readers : q # r => ~Active(q)
    BY <1>1, <1>6 DEF Crosses
  <2>2. \A q \in Readers : q # r => ~Active(q)' /\ ~Sets(q)' /\ ~Sets(q)
    BY <1>3, <2>1 DEF Sets
  <2>3. Agreed /\ Current /\ Linked(history)
    BY <1>1, <2>1, <2>2 DEF Untangled, Sets
  <2>4. j # << >>
    <3>1. "kind" \in DOMAIN j
      BY <1>2 DEF SetReading
    <3> QED
      BY <3>1
  <2>5. Sets(r)'
    BY <1>3, <1>4, <2>4 DEF Sets, Active
  <2>6. SetSound(r)'
    <3>1. j.stage = "save" => (Agreed /\ Current)' /\ j.old = config'.value
      BY <1>1, <1>2, <2>3 DEF Agreed, Current, LastNew
    <3>2. j.stage = "log" => /\ config' # Nothing /\ config'.value = v
                             /\ config'.version = Len(history) + 1 /\ j.old = LastNew(history)
      <4>1. Nothing \notin Configuration
        BY ConfigConstants
      <4>2. config = Nothing => Len(history) = 0 /\ LastNew(history) = Nothing
        BY <2>3 DEF Agreed, LastNew
      <4> QED
        BY <1>2, <4>1, <4>2
    <3>3. j.stage = "cache" => Agreed' /\ config' # Nothing /\ config'.value = v
      BY <1>1, <1>2, <2>3 DEF Agreed, LastNew
    <3> QED
      BY <1>1, <1>2, <1>3, <3>1, <3>2, <3>3 DEF SetSound, LastNew
  <2> QED
    BY <1>1, <1>3, <1>4, <2>2, <2>3, <2>5, <2>6 DEF Untangled, OnStage
<1> QED
  BY <1>5, <1>6 DEF ConfigInv

LEMMA Links ==
  ASSUME NEW h \in Seq(Change), NEW x \in Change, Linked(h), x.old = LastNew(h)
  PROVE  Linked(Append(h, x)) /\ LastNew(Append(h, x)) = x.new /\ Append(h, x) \in Seq(Change) /\ Append(h, x) # << >>
<1>1. /\ Len(h) \in Nat /\ Append(h, x) \in Seq(Change) /\ Len(Append(h, x)) = Len(h) + 1
      /\ Append(h, x)[Len(h) + 1] = x /\ \A i \in 1 .. Len(h) : Append(h, x)[i] = h[i]
  OBVIOUS
<1>2. Append(h, x) # << >>
  BY <1>1
<1>3. Append(h, x)[1].old = Nothing
  BY <1>1 DEF Linked, LastNew
<1>4. ASSUME NEW i \in 2 .. Len(h) + 1 PROVE Append(h, x)[i].old = Append(h, x)[i - 1].new
  BY <1>1 DEF Linked, LastNew
<1> QED
  BY <1>1, <1>2, <1>3, <1>4 DEF Linked, LastNew

\* The statements of set_configuration before the caches.
LEMMA SetsOn ==
  ASSUME ConfigInv, NEW r \in Readers, SaveFields(r) \/ LogConfig(r), Exists(reading[r].of)
  PROVE  ConfigInv'
<1> DEFINE j == reading[r]
           k == [j EXCEPT !.stage = IF OnStage(r, "save") THEN "log" ELSE "cache"]
<1>1. /\ ConfigTyped /\ (~tangled => Untangled) /\ (OnStage(r, "save") \/ OnStage(r, "log")) /\ Active(r)
      /\ reading' = [reading EXCEPT ![r] = k] /\ UNCHANGED <<redis, keys, tangled>>
  BY DEF ConfigInv, SaveFields, LogConfig, Proceed, OnStage
<1>2. j \in SetReading /\ Sets(r)
  BY <1>1 DEF OnStage, ConfigTyped, Active, Sets, GetReading, SetReading, EditReading
<1>3. /\ k \in SetReading /\ k.of = j.of /\ k.old = j.old /\ k.value = j.value /\ k.kind = "set"
      /\ k.stage = (IF OnStage(r, "save") THEN "log" ELSE "cache") /\ k # << >>
  <2>1. /\ k \in SetReading /\ k.of = j.of /\ k.old = j.old /\ k.value = j.value /\ k.kind = "set"
        /\ k.stage = (IF OnStage(r, "save") THEN "log" ELSE "cache")
    BY <1>2 DEF SetReading
  <2> HIDE DEF k
  <2>2. "kind" \in DOMAIN k
    BY <2>1 DEF SetReading
  <2> QED
    BY <2>1, <2>2
<1> HIDE DEF k
<1>4. /\ reading'[r] = k /\ \A q \in Readers : q # r => reading'[q] = reading[q]
      /\ \A q \in Readers : q # r => (Active(q)' <=> Active(q)) /\ (Sets(q)' <=> Sets(q))
  BY <1>1, OtherReadings
<1>5. Sets(r)'
  BY <1>3, <1>4 DEF Sets, Active
<1>6. config \in Configuration /\ config # Nothing
  BY <1>1 DEF ConfigTyped, Exists
<1>7. CASE SaveFields(r)
  <2>1. /\ OnStage(r, "save") /\ history' = history
        /\ config' = [config EXCEPT
                 !.value = IF j.of.value = j.value THEN @ ELSE j.value,
                 !.description = IF j.of.description = j.description THEN @ ELSE j.description,
                 !.version = j.of.version + 1]
    BY <1>7 DEF SaveFields
  <2>2. /\ config' \in Configuration /\ config'.key = config.key
        /\ config'.value = (IF j.of.value = j.value THEN config.value ELSE j.value)
        /\ config'.version = j.of.version + 1
    <3> DEFINE a == IF j.of.value = j.value THEN config.value ELSE j.value
               b == IF j.of.description = j.description THEN config.description ELSE j.description
               n == j.of.version + 1
    <3>1. config' = [config EXCEPT !.value = a, !.description = b, !.version = n]
      BY <2>1
    <3>2. a \in Texts /\ b \in Descriptions /\ n \in Nat
      BY <1>2, <1>6 DEF Configuration, SetReading
    <3> HIDE DEF a, b, n
    <3>3. config' \in Configuration /\ config'.key = config.key /\ config'.value = a /\ config'.version = n
      BY <1>6, <3>1, <3>2 DEF Configuration
    <3> QED
      BY <3>3 DEF a, n
  <2>3. ConfigTyped'
    BY <1>1, <1>3, <1>4, <2>1, <2>2 DEF ConfigTyped, OnStage
  <2>4. ASSUME ~tangled' PROVE Untangled'
    <3>1. Untangled /\ SetSound(r)
      BY <1>1, <1>2, <2>4 DEF Untangled
    <3>2. j.of = config /\ Agreed /\ j.old = config.value
      BY <2>1, <3>1 DEF SetSound, OnStage
    <3>3. /\ config' # Nothing /\ config'.key = k.of.key /\ config'.value = k.value
          /\ config'.version = Len(history) + 1 /\ k.old = LastNew(history)
      <4>1. config' # Nothing
        BY <2>2, ConfigConstants
      <4>2. config.version = Len(history) /\ LastNew(history) = config.value
        BY <1>6, <3>2 DEF Agreed
      <4> QED
        BY <1>3, <2>2, <3>2, <4>1, <4>2
    <3>4. SetSound(r)'
      BY <1>3, <1>4, <2>1, <3>3 DEF SetSound, LastNew
    <3> QED
      BY <1>2, <1>3, <1>4, <1>5, <2>1, <3>1, <3>4 DEF Untangled, OnStage
  <2> QED
    BY <2>3, <2>4 DEF ConfigInv
<1>8. CASE LogConfig(r)
  <2>1. OnStage(r, "log") /\ ~OnStage(r, "save") /\ config' = config /\ history' = Append(history, Logged(j))
    BY <1>8 DEF LogConfig, OnStage
  <2>2. Logged(j) \in Change /\ Logged(j).old = j.old /\ Logged(j).new = j.value
    BY <1>2 DEF Logged, Change, SetReading, Configuration
  <2> DEFINE x == Logged(j)
  <2> HIDE DEF x
  <2>3. history' \in Seq(Change)
    BY <1>1, <2>1, <2>2 DEF ConfigTyped, x
  <2>4. ConfigTyped'
    BY <1>1, <1>3, <1>4, <2>1, <2>3 DEF ConfigTyped, OnStage
  <2>5. ASSUME ~tangled' PROVE Untangled'
    <3>1. Untangled /\ SetSound(r) /\ history \in Seq(Change)
      BY <1>1, <1>2, <2>5 DEF Untangled, ConfigTyped
    <3>2. config.value = j.value /\ config.version = Len(history) + 1 /\ j.old = LastNew(history)
      BY <2>1, <3>1 DEF SetSound, OnStage
    <3>3. /\ Linked(history') /\ LastNew(history') = config.value
          /\ history' # << >> /\ Len(history') = config.version
      <4>1. Linked(history)
        BY <3>1 DEF Untangled
      <4>2. Len(Append(history, x)) = Len(history) + 1
        BY <2>2, <3>1 DEF x
      <4> QED
        BY <2>1, <2>2, <3>1, <3>2, <4>1, <4>2, Links DEF x
    <3>4. SetSound(r)'
      BY <1>3, <1>4, <1>6, <2>1, <3>2, <3>3 DEF SetSound, Agreed, LastNew
    <3>5. Linked(history)'
      BY <3>3 DEF Linked
    <3> QED
      BY <1>2, <1>3, <1>4, <1>5, <2>1, <3>1, <3>4, <3>5 DEF Untangled, OnStage
  <2> QED
    BY <2>4, <2>5 DEF ConfigInv
<1> QED
  BY <1>7, <1>8

\* A request that sets may find no row, or be cut short; an edit ends.
LEMMA RequestsFail ==
  ASSUME ConfigInv, NEW r \in Readers,
         \/ (SaveFields(r) \/ LogConfig(r)) /\ ~Exists(reading[r].of)
         \/ CutShort(r)
  PROVE  ConfigInv'
<1>1. ConfigTyped /\ (~tangled => Untangled)
  BY DEF ConfigInv
<1>2. CASE CutShort(r)
  <2>1. /\ Active(r) /\ Done(r) /\ UNCHANGED <<config, history, redis, keys>>
        /\ tangled' = (tangled \/ reading[r].kind = "set")
    BY <1>2 DEF CutShort
  <2> QED
    BY <2>1, ReadingEnds DEF Sets
<1>3. CASE (SaveFields(r) \/ LogConfig(r)) /\ ~Exists(reading[r].of)
  <2>1. /\ (OnStage(r, "save") \/ OnStage(r, "log")) /\ Active(r) /\ Done(r)
        /\ UNCHANGED <<config, history, redis, keys, tangled>>
    BY <1>3 DEF SaveFields, LogConfig, OnStage
  <2>2. Sets(r)
    BY <1>1, <2>1 DEF OnStage, ConfigTyped, Active, Sets, GetReading, SetReading, EditReading
  <2>3. reading[r].of \in Configuration
    BY <1>1, <2>1 DEF OnStage, ConfigTyped, Active, GetReading, SetReading, EditReading
  <2>4. tangled
    <3> SUFFICES ASSUME ~tangled PROVE FALSE
      OBVIOUS
    <3>1. SetSound(r)
      BY <1>1, <2>2 DEF Untangled
    <3>2. Nothing \notin Configuration
      BY ConfigConstants
    <3> QED
      BY <1>3, <2>1, <2>3, <3>1, <3>2 DEF SetSound, OnStage, Exists
  <2> QED
    BY <1>1, <2>1, <2>4, ReadingEnds DEF ConfigTyped
<1> QED
  BY <1>2, <1>3

\* What the generic views write, and what the caches lose.
LEMMA ViewsWrite ==
  ASSUME ConfigInv,
         \/ \E v \in Texts, d \in Descriptions : \/ CreateConfig(v, d)
                                                 \/ \E r \in Readers : EditConfig(r, v, d)
         \/ \E r \in Readers : Overwrite(r)
         \/ DestroyConfig
  PROVE  ConfigInv'
<1>1. ConfigTyped
  BY DEF ConfigInv
<1>2. ASSUME NEW v \in Texts, NEW d \in Descriptions, CreateConfig(v, d) PROVE ConfigInv'
  <2> DEFINE c == [key |-> keys, value |-> v, description |-> d, version |-> 1]
  <2>1. config' = c /\ keys' = keys + 1 /\ tangled' = TRUE /\ UNCHANGED <<history, redis, reading>>
    BY <1>2 DEF CreateConfig
  <2>2. c \in Configuration /\ keys' \in Nat
    BY <1>1, <2>1 DEF ConfigTyped, Configuration
  <2> HIDE DEF c
  <2> QED
    BY <1>1, <2>1, <2>2 DEF ConfigInv, ConfigTyped, OnStage, Active
<1>3. ASSUME NEW v \in Texts, NEW d \in Descriptions, NEW r \in Readers, EditConfig(r, v, d) PROVE ConfigInv'
  <2> DEFINE j == [kind |-> "edit", stage |-> "overwrite", of |-> config, old |-> Nothing, value |-> v,
                   description |-> d]
  <2>1. reading' = [reading EXCEPT ![r] = j] /\ tangled' = TRUE /\ UNCHANGED <<config, history, redis, keys>>
    BY <1>3 DEF EditConfig, StartReading
  <2>2. config \in Configuration
    BY <1>1, <1>3 DEF ConfigTyped, EditConfig
  <2>3. j \in EditReading /\ j.stage # "fill"
    BY <2>2 DEF EditReading
  <2> HIDE DEF j
  <2>4. /\ reading'[r] = j /\ \A q \in Readers : q # r => reading'[q] = reading[q]
    BY <1>1, <2>1, OtherReadings
  <2> QED
    BY <1>1, <2>1, <2>3, <2>4 DEF ConfigInv, ConfigTyped, OnStage, Active
<1>4. ASSUME NEW r \in Readers, Overwrite(r) PROVE ConfigInv'
  <2> DEFINE j == reading[r]
             c == [j.of EXCEPT !.value = j.value, !.description = j.description]
  <2>1. /\ OnStage(r, "overwrite") /\ (config' = c \/ config' = config)
        /\ reading' = [reading EXCEPT ![r] = << >>] /\ UNCHANGED <<history, redis, keys, tangled>>
    BY <1>4 DEF Overwrite, Done
  <2>2. j \in EditReading /\ Active(r)
    BY <1>1, <2>1 DEF OnStage, ConfigTyped, Active, GetReading, SetReading
  <2>3. c \in Configuration
    BY <2>2 DEF EditReading, Configuration
  <2>4. tangled
    BY <2>2 DEF ConfigInv, Untangled, EditReading
  <2>5. reading'[r] = << >> /\ \A q \in Readers : q # r => reading'[q] = reading[q]
    BY <1>1, <2>1, OtherReadings
  <2> HIDE DEF c
  <2> QED
    BY <1>1, <2>1, <2>3, <2>4, <2>5 DEF ConfigInv, ConfigTyped, OnStage, Active
<1>5. CASE DestroyConfig
  BY <1>1, <1>5 DEF DestroyConfig, ConfigInv, ConfigTyped, OnStage, Active
<1> QED
  BY <1>2, <1>3, <1>4, <1>5

LEMMA CachesExpire ==
  ASSUME ConfigInv, ExpireRedis \/ (\E p \in Hosts : ExpireLocal(p)) \/ UNCHANGED configVars
  PROVE  ConfigInv'
<1>1. UNCHANGED <<config, history, keys, reading, tangled>> /\ (redis' = redis \/ redis' = Nothing)
  BY DEF ExpireRedis, ExpireLocal, configVars
<1>2. ConfigTyped'
  BY <1>1 DEF ConfigInv, ConfigTyped, OnStage, Active
<1>3. ASSUME Untangled PROVE Untangled'
  BY <1>1, <1>3 DEF Untangled, OnStage, Active, Sets, SetSound, Agreed, Current, LastNew, Linked
<1> QED
  BY <1>1, <1>2, <1>3 DEF ConfigInv

LEMMA ConfigStarts == ConfigInit => ConfigInv
<1> SUFFICES ASSUME ConfigInit PROVE ConfigInv
  OBVIOUS
<1>1. ConfigTyped
  <2>1. << >> \in Seq(Change)
    OBVIOUS
  <2>2. \A r \in Readers : reading[r] = << >>
    BY DEF ConfigInit
  <2>3. reading \in [Readers -> {<< >>}] /\ keys \in Nat
    BY DEF ConfigInit
  <2> QED
    BY <2>1, <2>2, <2>3 DEF ConfigInit, ConfigTyped, OnStage, Active
<1>2. Untangled
  BY DEF ConfigInit, Untangled, OnStage, Active, Sets, Agreed, Current, LastNew, Linked
<1> QED
  BY <1>1, <1>2 DEF ConfigInv

LEMMA ConfigStep == ConfigInv /\ (ConfigNext \/ UNCHANGED configVars) => ConfigInv'
<1> SUFFICES ASSUME ConfigInv, ConfigNext \/ UNCHANGED configVars PROVE ConfigInv'
  OBVIOUS
<1>1. CASE UNCHANGED configVars
  BY <1>1, CachesExpire
<1>2. ASSUME NEW r \in Readers, SaveFields(r) \/ LogConfig(r) PROVE ConfigInv'
  BY <1>2, SetsOn, RequestsFail
<1> QED
  BY <1>1, <1>2, ReadsKeep, CachesFilled, SetStarts, RequestsFail, ViewsWrite, CachesExpire DEF ConfigNext

\* The inductive invariant of the configuration.
THEOREM ConfigInvariance == DiscoverySpec => []ConfigInv
<1>1. DiscoveryInit => ConfigInv
  BY ConfigStarts DEF DiscoveryInit
<1>2. ConfigInv /\ [DiscoveryNext]_discoveryVars => ConfigInv'
  BY ConfigStep DEF DiscoveryNext, discoveryVars, configVars
<1> QED
  BY <1>1, <1>2, PTL DEF DiscoverySpec

\* As long as set_configuration alone writes, one request at a time, Redis holds the
\* value of the row or nothing.
THEOREM RedisStaysCurrent == DiscoverySpec => []RedisIsCurrent
<1>1. ConfigInv => RedisIsCurrent
  BY DEF ConfigInv, Untangled, RedisIsCurrent, Quiet, Sets, Current
<1> QED
  BY <1>1, ConfigInvariance, PTL

\* As long as it does, each change starts from what the one before left, the last
\* left the present value, and the version counts them.
THEOREM HistoryStaysChained == DiscoverySpec => []HistoryChains
<1>1. ConfigInv => HistoryChains
  <2> SUFFICES ASSUME ConfigInv, Quiet, ~tangled, config # Nothing
               PROVE  /\ config.version = Len(history)
                      /\ history[1].old = Nothing /\ history[Len(history)].new = config.value
                      /\ \A i \in 2 .. Len(history) : history[i].old = history[i - 1].new
    BY DEF HistoryChains
  <2>1. Agreed /\ Linked(history)
    BY DEF ConfigInv, Untangled, Quiet, Sets
  <2> QED
    BY <2>1 DEF Agreed, Linked, LastNew
<1> QED
  BY <1>1, ConfigInvariance, PTL

-----------------------------------------------------------------------------
(* The registry: what is true of a state that can be reached.                *)

RegistryTyped ==
  /\ service \in Service \union {NoRow}
  /\ instance \in [InstanceIds -> Instance \union {NoRow}]
  /\ task \in [Handlers -> Task \union {Idle}]
  /\ born \in Nat /\ emptied \in BOOLEAN

ForeignKey == \A i \in InstanceIds : instance[i] # NoRow =>
  service # NoRow /\ instance[i].service = service.key

\* Every row and every copy, by instance_id, key and service.
Copies(w)   == IF Working(w) THEN {task[w].of} \union task[w].todo ELSE {}
Stored(i, k, s) == i \in InstanceIds /\ instance[i] # NoRow /\ instance[i].key = k /\ instance[i].service = s
Copied(i, k, s) == \E w \in Handlers : \E c \in Copies(w) : c.id = i /\ c.row.key = k /\ c.row.service = s
Known(i, k, s)  == Stored(i, k, s) \/ Copied(i, k, s)

\* A key belongs to one instance_id and one service, and was given out.
OneKey == \A i, j \in InstanceIds, k, s, t \in Nat :
  Known(i, k, s) => k < born /\ (Known(j, k, t) => i = j /\ s = t)

StageKinds == \A w \in Handlers :
  /\ In(w, "save") => task[w].kind = "edit"
  /\ In(w, "request") \/ In(w, "record") \/ In(w, "signal") \/ In(w, "confirm") => task[w].kind = "check"

WorksAlone == \A w \in Handlers \ crowd : Working(w) => Others(w) = {}

\* A deletion that has seen others, and that nothing has overlapped, leaves them.
OthersLeft == \A w \in Handlers \ crowd : In(w, "commit") /\ ~task[w].last =>
  \E i \in InstanceIds : instance[i] # NoRow /\ instance[i].key # Row(w).key

\* An emptied service is not active, nor is any copy that may still be saved.
EmptyStays == emptied =>
  /\ service # NoRow /\ service.status # "active"
  /\ \A w \in Handlers : Working(w) /\ ~In(w, "look") /\ ~In(w, "inactive") =>
       \A c \in Copies(w) : c.service.status # "active"

RegistryInv ==
  /\ RegistryTyped /\ ForeignKey /\ OneKey /\ StageKinds
  /\ WorksAlone /\ OthersLeft /\ EmptyStays

-----------------------------------------------------------------------------
(* What every step has in common.                                            *)

KindFits(t) ==
  /\ t.stage = "save" => t.kind = "edit"
  /\ t.stage \in {"request", "record", "signal", "confirm"} => t.kind = "check"

\* A worker turns to t; the other workers stay where they are.
LEMMA TaskMoves ==
  ASSUME RegistryTyped, NEW w \in Handlers, NEW t \in Task \union {Idle}, task' = [task EXCEPT ![w] = t]
  PROVE  /\ task' \in [Handlers -> Task \union {Idle}] /\ task'[w] = t
         /\ \A v \in Handlers : v # w => /\ task'[v] = task[v] /\ (Working(v)' <=> Working(v))
                                         /\ Row(v)' = Row(v) /\ Copies(v)' = Copies(v)
                                         /\ \A s : In(v, s)' <=> In(v, s)
         /\ Working(w)' <=> t # Idle
         /\ Copies(w)' = IF t # Idle THEN {t.of} \union t.todo ELSE {}
         /\ \A s : In(w, s)' <=> t # Idle /\ t.stage = s
  BY DEF RegistryTyped, Working, In, Row, Copies

LEMMA KeysKept ==
  ASSUME RegistryTyped, OneKey, born' \in Nat, born <= born',
         ASSUME NEW i, NEW k, NEW s, Known(i, k, s)' PROVE Known(i, k, s)
  PROVE  OneKey'
<1> SUFFICES ASSUME NEW i \in InstanceIds, NEW j \in InstanceIds, NEW k \in Nat, NEW s \in Nat, NEW t \in Nat,
                    Known(i, k, s)'
             PROVE  k < born' /\ (Known(j, k, t)' => i = j /\ s = t)
  BY DEF OneKey
<1>1. Known(i, k, s) /\ (Known(j, k, t)' => Known(j, k, t))
  OBVIOUS
<1>2. k < born /\ (Known(j, k, t) => i = j /\ s = t)
  BY <1>1 DEF OneKey
<1> QED
  BY <1>1, <1>2 DEF RegistryTyped

\* A working handler goes on.
LEMMA HandlerGoesOn ==
  ASSUME RegistryInv, NEW w \in Handlers, Working(w),
         NEW t \in Task \union {Idle}, task' = [task EXCEPT ![w] = t],
         UNCHANGED <<born, crowd>>, emptied' \in BOOLEAN,
         service' \in Service \union {NoRow}, instance' \in [InstanceIds -> Instance \union {NoRow}],
         ForeignKey',
         ASSUME NEW i, NEW k, NEW s, Stored(i, k, s)' PROVE Known(i, k, s),
         t # Idle => KindFits(t) /\ {t.of} \union t.todo \subseteq {task[w].of} \union task[w].todo,
         t # Idle /\ t.stage = "commit" /\ ~t.last /\ w \notin crowd =>
           \E i \in InstanceIds : instance'[i] # NoRow /\ instance'[i].key # t.of.row.key
  PROVE  RegistryTyped' /\ OneKey' /\ StageKinds' /\ WorksAlone' /\ OthersLeft'
<1>1. RegistryTyped
  BY DEF RegistryInv
<1>2. /\ task' \in [Handlers -> Task \union {Idle}] /\ task'[w] = t
      /\ \A v \in Handlers : v # w => /\ task'[v] = task[v] /\ (Working(v)' <=> Working(v))
                                      /\ Row(v)' = Row(v) /\ Copies(v)' = Copies(v)
                                      /\ \A s : In(v, s)' <=> In(v, s)
      /\ Working(w)' <=> t # Idle
      /\ Copies(w)' = IF t # Idle THEN {t.of} \union t.todo ELSE {}
      /\ \A s : In(w, s)' <=> t # Idle /\ t.stage = s
  BY <1>1, TaskMoves
<1>3. RegistryTyped'
  BY <1>1, <1>2 DEF RegistryTyped
<1>4. OneKey'
  <2>1. \A v \in Handlers : Copies(v)' \subseteq Copies(v)
    BY <1>2 DEF Copies
  <2>2. ASSUME NEW i, NEW k, NEW s, Known(i, k, s)' PROVE Known(i, k, s)
    BY <2>1, <2>2 DEF Known, Copied
  <2>3. OneKey /\ born' \in Nat /\ born <= born'
    BY DEF RegistryInv, RegistryTyped
  <2> QED
    BY <1>1, <2>2, <2>3, KeysKept
<1>5. StageKinds'
  <2> SUFFICES ASSUME NEW v \in Handlers
               PROVE  /\ In(v, "save")' => task'[v].kind = "edit"
                      /\ In(v, "request")' \/ In(v, "record")' \/ In(v, "signal")' \/ In(v, "confirm")' =>
                           task'[v].kind = "check"
    BY DEF StageKinds
  <2>1. CASE v = w
    BY <1>2, <2>1 DEF KindFits
  <2>2. CASE v # w
    BY <1>2, <2>2 DEF RegistryInv, StageKinds
  <2> QED
    BY <2>1, <2>2
<1>6. \A v \in Handlers : Working(v)' => Working(v)
  BY <1>2
<1>7. WorksAlone'
  BY <1>6 DEF RegistryInv, WorksAlone, Others
<1>8. OthersLeft'
  <2> SUFFICES ASSUME NEW v \in Handlers \ crowd, In(v, "commit")', ~task'[v].last
               PROVE  \E i \in InstanceIds : instance'[i] # NoRow /\ instance'[i].key # task'[v].of.row.key
    BY DEF OthersLeft, Row
  <2>1. CASE v = w
    BY <1>2, <2>1
  <2>2. CASE v # w
    <3>1. Working(v)
      BY <1>6 DEF In
    <3> QED
      BY <2>2, <3>1 DEF RegistryInv, WorksAlone, Others
  <2> QED
    BY <2>1, <2>2
<1> QED
  BY <1>3, <1>4, <1>5, <1>7, <1>8

\* An emptied service stays so unless a copy that may be saved says otherwise.
LEMMA EmptyGoesOn ==
  ASSUME RegistryInv, NEW w \in Handlers, Working(w),
         NEW t \in Task \union {Idle}, task' = [task EXCEPT ![w] = t], emptied' = emptied,
         emptied => service' # NoRow /\ service'.status # "active",
         t # Idle => {t.of} \union t.todo \subseteq {task[w].of} \union task[w].todo,
         t # Idle /\ (In(w, "look") \/ In(w, "inactive")) => t.stage \in {"look", "inactive"}
  PROVE  EmptyStays'
<1>1. RegistryTyped
  BY DEF RegistryInv
<1>2. /\ task'[w] = t
      /\ \A v \in Handlers : v # w => /\ task'[v] = task[v] /\ (Working(v)' <=> Working(v))
                                      /\ Row(v)' = Row(v) /\ Copies(v)' = Copies(v)
                                      /\ \A s : In(v, s)' <=> In(v, s)
      /\ Working(w)' <=> t # Idle
      /\ Copies(w)' = IF t # Idle THEN {t.of} \union t.todo ELSE {}
      /\ \A s : In(w, s)' <=> t # Idle /\ t.stage = s
  BY <1>1, TaskMoves
<1> SUFFICES ASSUME emptied, NEW v \in Handlers, Working(v)', ~In(v, "look")', ~In(v, "inactive")', NEW c \in Copies(v)'
             PROVE  c.service.status # "active"
  BY DEF EmptyStays
<1>3. CASE v = w
  <2>1. ~In(w, "look") /\ ~In(w, "inactive") /\ c \in Copies(w)
    BY <1>2, <1>3 DEF Copies
  <2> QED
    BY <2>1 DEF RegistryInv, EmptyStays
<1>4. CASE v # w
  BY <1>2, <1>4 DEF RegistryInv, EmptyStays
<1> QED
  BY <1>3, <1>4

-----------------------------------------------------------------------------
(* The statements of a handler.                                              *)

LEMMA Tasks ==
  ASSUME NEW x \in Task, NEW st \in Stages, NEW v \in InstanceStatus, NEW b \in BOOLEAN
  PROVE  /\ [x EXCEPT !.stage = st] \in Task /\ [x EXCEPT !.stage = st, !.last = b] \in Task
         /\ [x EXCEPT !.stage = st, !.status = v] \in Task /\ [x EXCEPT !.stage = st, !.again = b] \in Task
         /\ [x EXCEPT !.stage = st, !.status = v, !.again = b] \in Task
  BY DEF Task

\* The task of a handler at work.
LEMMA AtWork ==
  ASSUME RegistryInv, NEW w \in Handlers, Working(w)
  PROVE  /\ task[w] \in Task /\ task[w].of \in Copy /\ Row(w) \in Instance
         /\ task[w].of.id \in InstanceIds /\ task[w].of.service \in Service /\ Row(w) = task[w].of.row
         /\ task[w].todo \subseteq Copy /\ task[w].status \in InstanceStatus
         /\ Copied(task[w].of.id, Row(w).key, Row(w).service)
<1>1. task[w] \in Task
  BY DEF RegistryInv, RegistryTyped, Working
<1>2. task[w].of \in Copies(w)
  BY DEF Copies
<1> QED
  BY <1>1, <1>2 DEF Task, Copy, Row, Copied

\* A row that is there under the key of a copy is the row the copy was read from.
LEMMA PresentRow ==
  ASSUME RegistryInv, NEW w \in Handlers, Working(w), Present(Row(w))
  PROVE  LET i == task[w].of.id IN
         /\ instance[i] # NoRow /\ instance[i] \in Instance
         /\ instance[i].key = Row(w).key /\ instance[i].service = Row(w).service
         /\ service # NoRow /\ service.key = Row(w).service
<1>1. PICK j \in InstanceIds : instance[j] # NoRow /\ instance[j].key = Row(w).key
  BY DEF Present
<1>2. instance[j] \in Instance /\ Known(j, instance[j].key, instance[j].service)
  BY <1>1 DEF RegistryInv, RegistryTyped, Known, Stored
<1>3. /\ Known(task[w].of.id, Row(w).key, Row(w).service)
      /\ task[w].of.id \in InstanceIds /\ Row(w).key \in Nat /\ Row(w).service \in Nat
  BY AtWork DEF Known, Instance
<1>4. instance[j].key \in Nat /\ instance[j].service \in Nat
  BY <1>2 DEF Instance
<1>5. task[w].of.id = j /\ instance[j].service = Row(w).service
  BY <1>1, <1>2, <1>3, <1>4 DEF RegistryInv, OneKey
<1> QED
  BY <1>1, <1>2, <1>5 DEF RegistryInv, ForeignKey

\* Raise ends the task or goes on as a failed check.
LEMMA Raised ==
  ASSUME RegistryInv, NEW w \in Handlers, Working(w), Raise(w)
  PROVE  \E t \in Task \union {Idle} :
           /\ task' = [task EXCEPT ![w] = t]
           /\ t # Idle => /\ KindFits(t) /\ t.of = task[w].of /\ t.todo = task[w].todo /\ t.stage = "record"
                          /\ task[w].kind = "check"
<1>1. CASE task[w].kind = "check" /\ ~task[w].again
  <2> DEFINE t == [task[w] EXCEPT !.stage = "record", !.status = "unhealthy", !.again = TRUE]
  <2>1. task' = [task EXCEPT ![w] = t]
    BY <1>1, AtWork DEF Raise, RegistryInv, RegistryTyped, Task
  <2>2. t \in Task /\ t.of = task[w].of /\ t.todo = task[w].todo /\ t.stage = "record" /\ t.kind = "check"
    BY <1>1, AtWork DEF Task, Stages, InstanceStatus
  <2> HIDE DEF t
  <2> QED
    BY <1>1, <2>1, <2>2 DEF KindFits
<1>2. CASE ~(task[w].kind = "check" /\ ~task[w].again)
  BY <1>2 DEF Raise, Leave
<1> QED
  BY <1>1, <1>2

\* A statement that changes no table, and leaves the task or takes it further.
LEMMA NoTableChanged ==
  ASSUME RegistryInv, NEW w \in Handlers, Working(w),
         NEW t \in Task \union {Idle}, task' = [task EXCEPT ![w] = t],
         UNCHANGED <<service, instance, born, crowd, emptied>>,
         t # Idle => /\ KindFits(t) /\ {t.of} \union t.todo \subseteq {task[w].of} \union task[w].todo
                     /\ t.stage = "commit" /\ ~t.last /\ w \notin crowd =>
                          \E i \in InstanceIds : instance[i] # NoRow /\ instance[i].key # t.of.row.key
                     /\ In(w, "look") \/ In(w, "inactive") => t.stage \in {"look", "inactive"}
  PROVE  RegistryInv'
<1>1. /\ emptied' \in BOOLEAN /\ service' \in Service \union {NoRow}
      /\ instance' \in [InstanceIds -> Instance \union {NoRow}] /\ ForeignKey'
  BY DEF RegistryInv, RegistryTyped, ForeignKey
<1>2. ASSUME NEW i, NEW k, NEW s, Stored(i, k, s)' PROVE Known(i, k, s)
  BY <1>2 DEF Stored, Known
<1>3. emptied => service' # NoRow /\ service'.status # "active"
  BY DEF RegistryInv, EmptyStays
<1>4. RegistryTyped' /\ OneKey' /\ StageKinds' /\ WorksAlone' /\ OthersLeft'
  BY <1>1, <1>2, HandlerGoesOn
<1>5. EmptyStays'
  BY <1>3, EmptyGoesOn
<1> QED
  BY <1>1, <1>4, <1>5 DEF RegistryInv

\* Go(w, s) as a move to a task.
LEMMA Gone ==
  ASSUME RegistryInv, NEW w \in Handlers, Working(w), NEW st \in Stages, Go(w, st)
  PROVE  \E t \in Task : /\ task' = [task EXCEPT ![w] = t]
                         /\ t.stage = st /\ t.kind = task[w].kind /\ t.of = task[w].of /\ t.todo = task[w].todo
                         /\ t.status = task[w].status /\ t.last = task[w].last
<1> DEFINE t == [task[w] EXCEPT !.stage = st]
<1>1. task' = [task EXCEPT ![w] = t]
  BY DEF Go, RegistryInv, RegistryTyped
<1>2. /\ t \in Task /\ t.stage = st /\ t.kind = task[w].kind /\ t.of = task[w].of /\ t.todo = task[w].todo
      /\ t.status = task[w].status /\ t.last = task[w].last
  BY AtWork DEF Task
<1> HIDE DEF t
<1> QED
  BY <1>1, <1>2

LEMMA IdleIsTask == Idle \in Task \union {Idle}
  OBVIOUS

LEMMA LeavesQuietly ==
  ASSUME RegistryInv, NEW w \in Handlers, Working(w), Leave(w),
         UNCHANGED <<service, instance, born, crowd, emptied>>
  PROVE  RegistryInv'
<1>1. task' = [task EXCEPT ![w] = Idle]
  BY DEF Leave
<1> QED
  BY <1>1, IdleIsTask, NoTableChanged

LEMMA RaisesQuietly ==
  ASSUME RegistryInv, NEW w \in Handlers, Working(w), Raise(w),
         UNCHANGED <<service, instance, born, crowd, emptied>>, ~In(w, "look"), ~In(w, "inactive")
  PROVE  RegistryInv'
<1>1. PICK t \in Task \union {Idle} :
           /\ task' = [task EXCEPT ![w] = t]
           /\ t # Idle => /\ KindFits(t) /\ t.of = task[w].of /\ t.todo = task[w].todo /\ t.stage = "record"
                          /\ task[w].kind = "check"
  BY Raised
<1> QED
  BY <1>1, NoTableChanged

LEMMA GoesQuietly ==
  ASSUME RegistryInv, NEW w \in Handlers, Working(w), NEW st \in Stages \ {"commit", "save"}, Go(w, st),
         UNCHANGED <<service, instance, born, crowd, emptied>>,
         st \in {"request", "record", "signal", "confirm"} => task[w].kind = "check",
         In(w, "look") \/ In(w, "inactive") => st = "inactive"
  PROVE  RegistryInv'
<1>1. PICK t \in Task : /\ task' = [task EXCEPT ![w] = t]
                        /\ t.stage = st /\ t.kind = task[w].kind /\ t.of = task[w].of /\ t.todo = task[w].todo
                        /\ t.status = task[w].status /\ t.last = task[w].last
  BY Gone
<1>2. KindFits(t)
  BY <1>1 DEF KindFits
<1> QED
  BY <1>1, <1>2, NoTableChanged

\* Statements that read, and those that are refused.
LEMMA ReadsGoOn ==
  ASSUME RegistryInv, NEW w \in Handlers, Look(w) \/ Request(w) \/ Record(w) \/ Crash(w) \/ Delete(w)
  PROVE  RegistryInv'
<1>1. Working(w) /\ UNCHANGED <<service, instance, born, crowd, emptied>>
  BY DEF Look, Request, Record, Crash, Delete, In
<1>2. CASE Look(w)
  <2>1. In(w, "look") /\ (Go(w, "inactive") \/ Leave(w)) /\ "inactive" \in Stages \ {"commit", "save"}
    BY <1>2 DEF Look, Stages
  <2> QED
    BY <1>1, <2>1, GoesQuietly, LeavesQuietly
<1>3. CASE Record(w)
  <2>1. In(w, "record") /\ (Go(w, "signal") \/ Raise(w)) /\ "signal" \in Stages \ {"commit", "save"}
    BY <1>3 DEF Record, Stages
  <2>2. task[w].kind = "check" /\ ~In(w, "look") /\ ~In(w, "inactive")
    BY <2>1 DEF RegistryInv, StageKinds, In
  <2> QED
    BY <1>1, <2>1, <2>2, GoesQuietly, RaisesQuietly
<1>4. CASE Crash(w)
  BY <1>1, <1>4, LeavesQuietly DEF Crash
<1>5. CASE Request(w)
  <2>1. In(w, "request") /\ task[w].kind = "check" /\ ~In(w, "look") /\ ~In(w, "inactive")
    BY <1>5 DEF Request, RegistryInv, StageKinds, In
  <2>2. PICK t \in Task : /\ task' = [task EXCEPT ![w] = t] /\ t.stage = "record" /\ t.kind = "check"
                          /\ t.of = task[w].of /\ t.todo = task[w].todo
    <3>1. CASE task' = [task EXCEPT ![w].stage = "record", ![w].status = "healthy"]
      <4> DEFINE t == [task[w] EXCEPT !.stage = "record", !.status = "healthy"]
      <4>1. task' = [task EXCEPT ![w] = t]
        BY <3>1, <1>1, AtWork DEF RegistryInv, RegistryTyped, Task
      <4>2. t \in Task /\ t.stage = "record" /\ t.kind = "check" /\ t.of = task[w].of /\ t.todo = task[w].todo
        BY <1>1, <2>1, AtWork DEF Task, Stages, InstanceStatus
      <4> HIDE DEF t
      <4> QED
        BY <4>1, <4>2
    <3>2. ASSUME NEW failure \in BOOLEAN, task' = [task EXCEPT ![w].stage = "record", ![w].again = failure]
          PROVE  \E t \in Task : /\ task' = [task EXCEPT ![w] = t] /\ t.stage = "record" /\ t.kind = "check"
                                 /\ t.of = task[w].of /\ t.todo = task[w].todo
      <4> DEFINE t == [task[w] EXCEPT !.stage = "record", !.again = failure]
      <4>1. task' = [task EXCEPT ![w] = t]
        BY <3>2, <1>1, AtWork DEF RegistryInv, RegistryTyped, Task
      <4>2. t \in Task /\ t.stage = "record" /\ t.kind = "check" /\ t.of = task[w].of /\ t.todo = task[w].todo
        BY <1>1, <2>1, AtWork DEF Task, Stages
      <4> HIDE DEF t
      <4> QED
        BY <4>1, <4>2
    <3> QED
      BY <1>5, <3>1, <3>2 DEF Request
  <2>3. KindFits(t)
    BY <2>2 DEF KindFits
  <2> QED
    BY <1>1, <2>1, <2>2, <2>3, NoTableChanged
<1>6. CASE Delete(w)
  <2> DEFINE t == [task[w] EXCEPT !.stage = "commit", !.last = NoneLeft(Row(w))]
  <2>1. In(w, "delete") /\ task' = [task EXCEPT ![w] = t]
    BY <1>1, <1>6, AtWork DEF Delete, RegistryInv, RegistryTyped, Task
  <2>2. NoneLeft(Row(w)) \in BOOLEAN
    BY DEF NoneLeft
  <2>3. /\ t \in Task /\ t.stage = "commit" /\ t.last = NoneLeft(Row(w)) /\ t.kind = task[w].kind
        /\ t.of = task[w].of /\ t.todo = task[w].todo
    BY <1>1, <2>2, AtWork DEF Task, Stages
  <2>4. ~NoneLeft(Row(w)) => \E i \in InstanceIds : instance[i] # NoRow /\ instance[i].key # Row(w).key
    BY DEF NoneLeft, Owned
  <2> HIDE DEF t
  <2>5. KindFits(t) /\ ~In(w, "look") /\ ~In(w, "inactive") /\ Row(w) = t.of.row
    BY <2>1, <2>3 DEF KindFits, In, Row
  <2> QED
    BY <1>1, <2>1, <2>3, <2>4, <2>5, NoTableChanged
<1> QED
  BY <1>2, <1>3, <1>4, <1>5, <1>6

\* A statement that writes row i, whose key and service are known.
LEMMA InstanceSaved ==
  ASSUME RegistryInv, NEW w \in Handlers, Working(w), ~In(w, "look"), ~In(w, "inactive"),
         NEW t \in Task \union {Idle}, task' = [task EXCEPT ![w] = t],
         UNCHANGED <<service, born, crowd, emptied>>,
         NEW i \in InstanceIds, NEW x \in Instance, instance' = [instance EXCEPT ![i] = x],
         Known(i, x.key, x.service), service # NoRow, service.key = x.service,
         t # Idle => /\ KindFits(t) /\ {t.of} \union t.todo \subseteq {task[w].of} \union task[w].todo
                     /\ t.stage # "commit"
  PROVE  RegistryInv'
<1>1. RegistryTyped /\ ForeignKey
  BY DEF RegistryInv
<1>2. /\ instance' \in [InstanceIds -> Instance \union {NoRow}] /\ instance'[i] = x
      /\ \A j \in InstanceIds : j # i => instance'[j] = instance[j]
  BY <1>1 DEF RegistryTyped
<1>3. ForeignKey'
  BY <1>1, <1>2 DEF ForeignKey
<1>4. ASSUME NEW j, NEW k, NEW s, Stored(j, k, s)' PROVE Known(j, k, s)
  BY <1>2, <1>4 DEF Stored, Known
<1>5. emptied' \in BOOLEAN /\ service' \in Service \union {NoRow}
  BY <1>1 DEF RegistryTyped
<1>6. RegistryTyped' /\ OneKey' /\ StageKinds' /\ WorksAlone' /\ OthersLeft'
  BY <1>2, <1>3, <1>4, <1>5, HandlerGoesOn
<1>7. emptied => service' # NoRow /\ service'.status # "active"
  BY DEF RegistryInv, EmptyStays
<1>8. EmptyStays'
  BY <1>7, EmptyGoesOn
<1> QED
  BY <1>3, <1>6, <1>8 DEF RegistryInv

\* A statement that writes the service, under the key it has.
LEMMA ServiceSaved ==
  ASSUME RegistryInv, NEW w \in Handlers, Working(w),
         NEW t \in Task \union {Idle}, task' = [task EXCEPT ![w] = t],
         UNCHANGED <<instance, born, crowd, emptied>>,
         service' \in Service, service = NoRow \/ service'.key = service.key,
         emptied => service'.status # "active",
         t # Idle => /\ KindFits(t) /\ {t.of} \union t.todo \subseteq {task[w].of} \union task[w].todo
                     /\ t.stage # "commit" /\ ~In(w, "look") /\ ~In(w, "inactive")
  PROVE  RegistryInv'
<1>1. RegistryTyped /\ ForeignKey /\ service' # NoRow
  BY RegistryConstants DEF RegistryInv
<1>2. ForeignKey'
  BY <1>1 DEF ForeignKey
<1>3. ASSUME NEW j, NEW k, NEW s, Stored(j, k, s)' PROVE Known(j, k, s)
  BY <1>3 DEF Stored, Known
<1>4. /\ emptied' \in BOOLEAN /\ service' \in Service \union {NoRow}
      /\ instance' \in [InstanceIds -> Instance \union {NoRow}]
  BY <1>1 DEF RegistryTyped
<1>5. RegistryTyped' /\ OneKey' /\ StageKinds' /\ WorksAlone' /\ OthersLeft'
  BY <1>2, <1>3, <1>4, HandlerGoesOn
<1>6. EmptyStays'
  BY <1>1, EmptyGoesOn
<1> QED
  BY <1>2, <1>5, <1>6 DEF RegistryInv

LEMMA InsertsKeep ==
  ASSUME RegistryInv, NEW w \in Handlers, Insert(w)
  PROVE  RegistryInv'
<1> DEFINE c == task[w].of
<1>1. /\ In(w, "insert") /\ Working(w) /\ ~In(w, "look") /\ ~In(w, "inactive")
      /\ UNCHANGED <<service, born, crowd, emptied>>
  BY DEF Insert, In
<1>2. CASE instance' = instance
  BY <1>1, <1>2, LeavesQuietly, GoesQuietly DEF Insert, Stages
<1>3. CASE instance' # instance
  <2>1. /\ service # NoRow /\ service.key = c.row.service
        /\ instance' = [instance EXCEPT ![c.id] = c.row] /\ Go(w, "created")
    BY <1>3 DEF Insert
  <2>2. PICK t \in Task : /\ task' = [task EXCEPT ![w] = t]
                          /\ t.stage = "created" /\ t.kind = task[w].kind /\ t.of = task[w].of
                          /\ t.todo = task[w].todo /\ t.status = task[w].status /\ t.last = task[w].last
    <3>1. "created" \in Stages
      BY DEF Stages
    <3> QED
      BY <1>1, <2>1, <3>1, Gone
  <2>3. KindFits(t)
    BY <2>2 DEF KindFits
  <2>4. c.id \in InstanceIds /\ c.row \in Instance /\ Known(c.id, c.row.key, c.row.service)
    BY <1>1, AtWork DEF Known, Row
  <2> QED
    BY <1>1, <2>1, <2>2, <2>3, <2>4, InstanceSaved
<1> QED
  BY <1>2, <1>3

LEMMA CreatedKeeps ==
  ASSUME RegistryInv, NEW w \in Handlers, Created(w)
  PROVE  RegistryInv'
<1>1. /\ In(w, "created") /\ Working(w) /\ ~In(w, "look") /\ ~In(w, "inactive")
      /\ UNCHANGED <<instance, born, crowd, emptied>>
  BY DEF Created, In
<1>2. CASE ~SavesService(task[w].of.service)
  BY <1>1, <1>2, RaisesQuietly DEF Created
<1>3. CASE SavesService(task[w].of.service)
  <2>1. /\ service' = task[w].of.service /\ (service = NoRow \/ service.key = service'.key)
        /\ IF task[w].kind = "check" THEN Go(w, "confirm") ELSE Leave(w)
    BY <1>3 DEF Created, SavesService
  <2>2. service' \in Service
    BY <1>1, <2>1, AtWork
  <2>3. emptied => service'.status # "active"
    <3>1. task[w].of \in Copies(w)
      BY <1>1 DEF Copies
    <3> QED
      BY <1>1, <2>1, <3>1 DEF RegistryInv, EmptyStays
  <2>4. CASE task[w].kind = "check"
    <3>1. PICK t \in Task : /\ task' = [task EXCEPT ![w] = t]
                            /\ t.stage = "confirm" /\ t.kind = task[w].kind /\ t.of = task[w].of
                            /\ t.todo = task[w].todo /\ t.status = task[w].status /\ t.last = task[w].last
      <4>1. "confirm" \in Stages
        BY DEF Stages
      <4> QED
        BY <1>1, <2>1, <2>4, <4>1, Gone
    <3>2. KindFits(t)
      BY <2>4, <3>1 DEF KindFits
    <3> QED
      BY <1>1, <2>1, <2>2, <2>3, <3>1, <3>2, ServiceSaved
  <2>5. CASE task[w].kind # "check"
    <3>1. task' = [task EXCEPT ![w] = Idle]
      BY <2>1, <2>5 DEF Leave
    <3> QED
      BY <1>1, <2>1, <2>2, <2>3, <3>1, IdleIsTask, ServiceSaved
  <2> QED
    BY <2>4, <2>5
<1> QED
  BY <1>2, <1>3

LEMMA InactivateKeeps ==
  ASSUME RegistryInv, NEW w \in Handlers, Inactivate(w)
  PROVE  RegistryInv'
<1>1. /\ Working(w) /\ Leave(w) /\ UNCHANGED <<instance, born, crowd, emptied>>
      /\ task' = [task EXCEPT ![w] = Idle]
  BY DEF Inactivate, In, Leave
<1>2. CASE service' = service
  BY <1>1, <1>2, LeavesQuietly
<1>3. CASE service' # service
  <2>1. service # NoRow /\ service' = [service EXCEPT !.status = "inactive"]
    BY <1>3 DEF Inactivate
  <2>2. service \in Service
    BY <2>1 DEF RegistryInv, RegistryTyped
  <2>3. service' \in Service /\ service'.key = service.key /\ service'.status = "inactive"
    BY <2>1, <2>2 DEF Service, ServiceStatus
  <2> QED
    BY <1>1, <2>3, IdleIsTask, ServiceSaved
<1> QED
  BY <1>2, <1>3

LEMMA SavesKeep ==
  ASSUME RegistryInv, NEW w \in Handlers, SaveInstance(w)
  PROVE  RegistryInv'
<1> DEFINE c == task[w].of
           r == [c.row EXCEPT !.status = task[w].status]
<1>1. /\ (In(w, "save") \/ In(w, "signal")) /\ Working(w) /\ ~In(w, "look") /\ ~In(w, "inactive")
      /\ UNCHANGED <<service, born, crowd, emptied>>
  BY DEF SaveInstance, In
<1>2. /\ c.id \in InstanceIds /\ c.row = Row(w) /\ c.row \in Instance /\ r \in Instance
      /\ r.key = c.row.key /\ r.service = c.row.service /\ Known(c.id, r.key, r.service)
  <2>1. c.id \in InstanceIds /\ c.row = Row(w) /\ c.row \in Instance /\ task[w].status \in InstanceStatus
    BY <1>1, AtWork
  <2>2. r \in Instance /\ r.key = c.row.key /\ r.service = c.row.service
    BY <2>1 DEF Instance
  <2> HIDE DEF r, c
  <2>3. Copied(c.id, Row(w).key, Row(w).service)
    BY <1>1, AtWork DEF c
  <2> QED
    BY <2>1, <2>2, <2>3 DEF Known
<1>3. Present(r) <=> Present(Row(w))
  BY <1>2 DEF Present
<1> HIDE DEF r, c
<1>4. CASE Present(r)
  <2>1. /\ instance' = [instance EXCEPT ![c.id] = r]
        /\ IF task[w].kind = "check" THEN Go(w, "confirm") ELSE Leave(w)
    BY <1>4 DEF SaveInstance, r, c
  <2>2. service # NoRow /\ service.key = r.service
    BY <1>1, <1>2, <1>3, <1>4, PresentRow
  <2>3. CASE task[w].kind = "check"
    <3>1. PICK t \in Task : /\ task' = [task EXCEPT ![w] = t]
                            /\ t.stage = "confirm" /\ t.kind = task[w].kind /\ t.of = task[w].of
                            /\ t.todo = task[w].todo /\ t.status = task[w].status /\ t.last = task[w].last
      <4>1. "confirm" \in Stages
        BY DEF Stages
      <4> QED
        BY <1>1, <2>1, <2>3, <4>1, Gone
    <3>2. KindFits(t)
      BY <2>3, <3>1 DEF KindFits
    <3> QED
      BY <1>1, <1>2, <2>1, <2>2, <3>1, <3>2, InstanceSaved
  <2>4. CASE task[w].kind # "check"
    <3>1. task' = [task EXCEPT ![w] = Idle]
      BY <2>1, <2>4 DEF Leave
    <3> QED
      BY <1>1, <1>2, <2>1, <2>2, <3>1, IdleIsTask, InstanceSaved
  <2> QED
    BY <2>3, <2>4
<1>5. CASE ~Present(r) /\ instance[c.id] = NoRow /\ service # NoRow /\ service.key = r.service
  <2>1. instance' = [instance EXCEPT ![c.id] = r] /\ Go(w, "created")
    BY <1>5 DEF SaveInstance, r, c
  <2>2. PICK t \in Task : /\ task' = [task EXCEPT ![w] = t]
                          /\ t.stage = "created" /\ t.kind = task[w].kind /\ t.of = task[w].of
                          /\ t.todo = task[w].todo /\ t.status = task[w].status /\ t.last = task[w].last
    <3>1. "created" \in Stages
      BY DEF Stages
    <3> QED
      BY <1>1, <2>1, <3>1, Gone
  <2>3. KindFits(t)
    BY <2>2 DEF KindFits
  <2> QED
    BY <1>1, <1>2, <1>5, <2>1, <2>2, <2>3, InstanceSaved
<1>6. CASE ~Present(r) /\ ~(instance[c.id] = NoRow /\ service # NoRow /\ service.key = r.service)
  <2>1. Raise(w) /\ UNCHANGED instance
    BY <1>6 DEF SaveInstance, r, c
  <2> QED
    BY <1>1, <2>1, RaisesQuietly
<1> QED
  BY <1>4, <1>5, <1>6

\* A row that is there is given another status.
WritesStatus(w) == instance' = [instance EXCEPT ![task[w].of.id].status = task[w].status]

LEMMA StatusSaved ==
  ASSUME RegistryInv, NEW w \in Handlers, Working(w), ~In(w, "look"), ~In(w, "inactive"),
         NEW t \in Task \union {Idle}, task' = [task EXCEPT ![w] = t],
         UNCHANGED <<service, born, crowd, emptied>>, Present(Row(w)),
         WritesStatus(w),
         t # Idle => /\ KindFits(t) /\ {t.of} \union t.todo \subseteq {task[w].of} \union task[w].todo
                     /\ t.stage # "commit"
  PROVE  RegistryInv'
<1> DEFINE i == task[w].of.id
           x == [instance[i] EXCEPT !.status = task[w].status]
<1>1. /\ instance[i] \in Instance /\ service # NoRow /\ service.key = instance[i].service
      /\ Known(i, instance[i].key, instance[i].service)
  <2>1. /\ instance[i] \in Instance /\ instance[i].key = Row(w).key /\ instance[i].service = Row(w).service
        /\ service # NoRow /\ service.key = Row(w).service
    BY PresentRow
  <2> QED
    BY <2>1, AtWork DEF Known
<1>2. i \in InstanceIds /\ task[w].status \in InstanceStatus
  BY AtWork
<1>3. instance' = [instance EXCEPT ![i] = x]
  BY <1>2 DEF RegistryInv, RegistryTyped, WritesStatus
<1>4. x \in Instance /\ x.key = instance[i].key /\ x.service = instance[i].service
  BY <1>1, <1>2 DEF Instance
<1> HIDE DEF i, x
<1>5. Known(i, x.key, x.service) /\ service # NoRow /\ service.key = x.service
  BY <1>1, <1>4
<1> QED
  BY <1>2, <1>3, <1>4, <1>5, InstanceSaved

LEMMA UpdateKeeps ==
  ASSUME RegistryInv, NEW w \in Handlers, Update(w)
  PROVE  RegistryInv'
<1>1. /\ In(w, "update") /\ Working(w) /\ ~In(w, "look") /\ ~In(w, "inactive") /\ Leave(w)
      /\ UNCHANGED <<service, born, crowd, emptied>> /\ task' = [task EXCEPT ![w] = Idle]
  BY DEF Update, In, Leave
<1>2. CASE Present(Row(w))
  BY <1>1, <1>2, IdleIsTask, StatusSaved DEF Update, Row, WritesStatus
<1>3. CASE ~Present(Row(w))
  BY <1>1, <1>3, LeavesQuietly DEF Update, Row
<1> QED
  BY <1>2, <1>3

\* The next copy of a sweep.
LEMMA NextTask ==
  ASSUME NEW w \in Handlers, NEW todo \in SUBSET Copy, NextCheck(w, todo)
  PROVE  \E t \in Task \union {Idle} :
           /\ task' = [task EXCEPT ![w] = t]
           /\ t # Idle => KindFits(t) /\ {t.of} \union t.todo \subseteq todo /\ t.stage = "request" /\ t.kind = "check"
<1>1. CASE todo = {}
  BY <1>1 DEF NextCheck, Leave
<1>2. ASSUME todo # {}, NEW c \in todo,
             task' = [task EXCEPT ![w] =
         [kind |-> "check", stage |-> "request", of |-> c, status |-> "unhealthy",
          again |-> FALSE, last |-> FALSE, todo |-> todo \ {c}]]
      PROVE  \E t \in Task \union {Idle} :
           /\ task' = [task EXCEPT ![w] = t]
           /\ t # Idle => KindFits(t) /\ {t.of} \union t.todo \subseteq todo /\ t.stage = "request" /\ t.kind = "check"
  <2> DEFINE t == [kind |-> "check", stage |-> "request", of |-> c, status |-> "unhealthy",
                   again |-> FALSE, last |-> FALSE, todo |-> todo \ {c}]
  <2>1. t \in Task
    BY DEF Task, Stages, InstanceStatus
  <2>2. KindFits(t) /\ {t.of} \union t.todo \subseteq todo /\ t.stage = "request" /\ t.kind = "check"
    BY DEF KindFits
  <2> HIDE DEF t
  <2> QED
    BY <1>2, <2>1, <2>2 DEF t
<1> QED
  BY <1>1, <1>2 DEF NextCheck

LEMMA ConfirmKeeps ==
  ASSUME RegistryInv, NEW w \in Handlers, Confirm(w)
  PROVE  RegistryInv'
<1>1. /\ In(w, "confirm") /\ Working(w) /\ ~In(w, "look") /\ ~In(w, "inactive")
      /\ UNCHANGED <<service, born, crowd, emptied>>
  BY DEF Confirm, In
<1>2. CASE Present(Row(w))
  <2>1. /\ instance' = [instance EXCEPT ![task[w].of.id].status = task[w].status]
        /\ NextCheck(w, task[w].todo)
    BY <1>2 DEF Confirm, Row
  <2>2. task[w].todo \in SUBSET Copy
    BY <1>1, AtWork
  <2>3. PICK t \in Task \union {Idle} :
          /\ task' = [task EXCEPT ![w] = t]
          /\ t # Idle => KindFits(t) /\ {t.of} \union t.todo \subseteq task[w].todo
                         /\ t.stage = "request" /\ t.kind = "check"
    BY <2>1, <2>2, NextTask
  <2> QED
    BY <1>1, <1>2, <2>1, <2>3, StatusSaved DEF WritesStatus
<1>3. CASE ~Present(Row(w))
  BY <1>1, <1>3, RaisesQuietly DEF Confirm, Row
<1> QED
  BY <1>2, <1>3

\* After the deletion of an instance: the row it had is gone, and the service is
\* not active if none is left and nothing has overlapped.
LEMMA CommitKeeps ==
  ASSUME RegistryInv, NEW w \in Handlers, Commit(w)
  PROVE  RegistryInv'
<1> DEFINE t == task[w]
           s == [t.of.service EXCEPT !.status = "inactive"]
           gone == [instance EXCEPT ![t.of.id] = IF @ # NoRow /\ @.key = Row(w).key THEN NoRow ELSE @]
<1>1. In(w, "commit") /\ Working(w) /\ UNCHANGED <<born, crowd>>
  BY DEF Commit, In
<1>2. s \in Service /\ s.status = "inactive" /\ t.of.id \in InstanceIds
  BY <1>1, AtWork DEF Service, ServiceStatus
<1>3. CASE t.last /\ ~SavesService(s)
  <2>1. Leave(w) /\ UNCHANGED <<service, instance, emptied>>
    BY <1>3 DEF Commit
  <2> QED
    BY <1>1, <2>1, LeavesQuietly
<1>4. CASE ~(t.last /\ ~SavesService(s))
  <2>1. /\ instance' = gone /\ service' = IF t.last THEN s ELSE service
        /\ emptied' = (w \notin crowd /\ \A i \in InstanceIds : gone[i] = NoRow)
        /\ IF t.kind = "deregister" THEN Go(w, "look") ELSE Leave(w)
    BY <1>4 DEF Commit
  <2>2. RegistryTyped /\ ForeignKey
    BY DEF RegistryInv
  <2>3. /\ gone \in [InstanceIds -> Instance \union {NoRow}]
        /\ \A i \in InstanceIds : gone[i] # NoRow => gone[i] = instance[i]
        /\ \A i \in InstanceIds : instance[i] # NoRow /\ instance[i].key # Row(w).key => gone[i] # NoRow
    BY <2>2 DEF RegistryTyped
  <2>4. PICK x \in Task \union {Idle} : /\ task' = [task EXCEPT ![w] = x]
                                        /\ x # Idle => x.stage = "look" /\ x.of = t.of /\ x.todo = t.todo
    <3>1. CASE t.kind = "deregister"
      <4>1. "look" \in Stages /\ Go(w, "look")
        BY <2>1, <3>1 DEF Stages
      <4> HIDE DEF s, gone
      <4> QED
        BY <1>1, <4>1, Gone
    <3>2. CASE t.kind # "deregister"
      BY <2>1, <3>2, IdleIsTask DEF Leave
    <3> QED
      BY <3>1, <3>2
  <2>5. t.last => service' = s /\ (service = NoRow \/ service.key = s.key) /\ s # NoRow
    BY <1>2, <1>4, <2>1, RegistryConstants DEF SavesService
  <2>6. ~t.last => service' = service
    BY <2>1
  <2> HIDE DEF s, gone
  <2>7. service' \in Service \union {NoRow} /\ instance' \in [InstanceIds -> Instance \union {NoRow}]
    BY <1>2, <2>1, <2>2, <2>3, <2>5, <2>6 DEF RegistryTyped
  <2>8. ForeignKey'
    BY <2>1, <2>2, <2>3, <2>5, <2>6 DEF ForeignKey
  <2>9. ASSUME NEW i, NEW k, NEW v, Stored(i, k, v)' PROVE Known(i, k, v)
    BY <2>1, <2>3, <2>9 DEF Stored, Known
  <2>10. emptied' \in BOOLEAN
    BY <2>1
  <2>11. x # Idle => KindFits(x) /\ {x.of} \union x.todo \subseteq {task[w].of} \union task[w].todo
    BY <2>4 DEF KindFits
  <2>12. RegistryTyped' /\ OneKey' /\ StageKinds' /\ WorksAlone' /\ OthersLeft'
    BY <1>1, <2>4, <2>7, <2>8, <2>9, <2>10, <2>11, HandlerGoesOn
  <2>13. EmptyStays'
    <3> SUFFICES ASSUME emptied'  PROVE EmptyStays'
      BY DEF EmptyStays
    <3>1. w \notin crowd /\ \A i \in InstanceIds : gone[i] = NoRow
      BY <2>1
    <3>2. t.last
      BY <1>1, <2>3, <3>1 DEF RegistryInv, OthersLeft
    <3>3. service' # NoRow /\ service'.status # "active"
      BY <1>2, <2>5, <3>2
    <3>4. ASSUME NEW v \in Handlers, Working(v)', ~In(v, "look")' PROVE FALSE
      <4>1. v = w
        BY <1>1, <2>2, <2>4, <3>1, <3>4, TaskMoves DEF RegistryInv, WorksAlone, Others
      <4> QED
        BY <2>2, <2>4, <3>4, <4>1, TaskMoves
    <3> QED
      BY <3>3, <3>4 DEF EmptyStays
  <2> QED
    BY <2>8, <2>12, <2>13 DEF RegistryInv
<1> QED
  BY <1>3, <1>4

-----------------------------------------------------------------------------
(* The requests.                                                             *)

\* An idle handler accepts a request.  The rows it copied are known, or it is to
\* insert one under a key given out for it.
LEMMA RequestStarts ==
  ASSUME RegistryInv, NEW w \in Handlers, Accept(w), NEW t \in Task, task' = [task EXCEPT ![w] = t],
         UNCHANGED <<instance, emptied>>, service' \in Service, service = NoRow \/ service' = service,
         born' \in Nat, born <= born', KindFits(t), t.stage \notin {"commit", "look", "inactive"},
         \A c \in {t.of} \union t.todo : c.service = service',
         \/ \A c \in {t.of} \union t.todo : Stored(c.id, c.row.key, c.row.service)
         \/ t.todo = {} /\ born <= t.of.row.key /\ t.of.row.key < born'
  PROVE  RegistryInv'
<1>1. RegistryTyped /\ ForeignKey /\ OneKey /\ Idle \notin Task
  BY DEF RegistryInv, Task, Idle
<1>2. ~Working(w) /\ crowd' = IF Others(w) = {} THEN crowd \ {w} ELSE crowd \union Others(w) \union {w}
  BY DEF Accept
<1>3. /\ task' \in [Handlers -> Task \union {Idle}] /\ task'[w] = t
      /\ \A v \in Handlers : v # w => /\ task'[v] = task[v] /\ (Working(v)' <=> Working(v))
                                      /\ Row(v)' = Row(v) /\ Copies(v)' = Copies(v)
                                      /\ \A s : In(v, s)' <=> In(v, s)
      /\ Working(w)' /\ Copies(w)' = {t.of} \union t.todo
      /\ \A s : In(w, s)' <=> t.stage = s
  BY <1>1, TaskMoves
<1>4. RegistryTyped' /\ ForeignKey' /\ service' # NoRow
  BY <1>1, <1>3, RegistryConstants DEF RegistryTyped, ForeignKey
<1>5. OneKey'
  <2> DEFINE New(i, k, s) == /\ i = t.of.id /\ k = t.of.row.key /\ s = t.of.row.service
                             /\ born <= k /\ k < born'
  <2>1. ASSUME NEW i, NEW k, NEW s, Known(i, k, s)' PROVE Known(i, k, s) \/ New(i, k, s)
    <3>1. CASE Stored(i, k, s)'
      BY <3>1 DEF Stored, Known
    <3>2. CASE Copied(i, k, s)'
      <4>1. PICK v \in Handlers : \E c \in Copies(v)' : c.id = i /\ c.row.key = k /\ c.row.service = s
        BY <3>2 DEF Copied
      <4>2. CASE v # w
        BY <1>3, <4>1, <4>2 DEF Known, Copied
      <4>3. CASE v = w
        BY <1>3, <4>1, <4>3 DEF Known
      <4> QED
        BY <4>2, <4>3
    <3> QED
      BY <2>1, <3>1, <3>2 DEF Known
  <2> SUFFICES ASSUME NEW i \in InstanceIds, NEW j \in InstanceIds, NEW k \in Nat, NEW s \in Nat, NEW u \in Nat,
                      Known(i, k, s)'
               PROVE  k < born' /\ (Known(j, k, u)' => i = j /\ s = u)
    BY DEF OneKey
  <2>2. Known(i, k, s) => k < born
    BY <1>1 DEF OneKey
  <2>3. Known(j, k, u) => k < born
    BY <1>1 DEF OneKey
  <2>4. Known(i, k, s) /\ Known(j, k, u) => i = j /\ s = u
    BY <1>1 DEF OneKey
  <2>5. Known(i, k, s) \/ New(i, k, s)
    BY <2>1
  <2>6. Known(j, k, u)' => Known(j, k, u) \/ New(j, k, u)
    BY <2>1
  <2>7. born \in Nat
    BY <1>1 DEF RegistryTyped
  <2> QED
    BY <2>2, <2>3, <2>4, <2>5, <2>6, <2>7
<1>6. StageKinds'
  <2> SUFFICES ASSUME NEW v \in Handlers
               PROVE  /\ In(v, "save")' => task'[v].kind = "edit"
                      /\ In(v, "request")' \/ In(v, "record")' \/ In(v, "signal")' \/ In(v, "confirm")' =>
                           task'[v].kind = "check"
    BY DEF StageKinds
  <2>1. CASE v = w
    BY <1>3, <2>1 DEF KindFits
  <2>2. CASE v # w
    BY <1>3, <2>2 DEF RegistryInv, StageKinds
  <2> QED
    BY <2>1, <2>2
<1>7. \A v \in Handlers \ {w} : Working(v) => v \in Others(w)
  BY DEF Others
<1>8. WorksAlone'
  <2> SUFFICES ASSUME NEW v \in Handlers \ crowd', Working(v)', NEW u \in Handlers \ {v}, Working(u)'
               PROVE  FALSE
    BY DEF WorksAlone, Others
  <2> QED
    BY <1>2, <1>3, <1>7
<1>9. OthersLeft'
  <2> SUFFICES ASSUME NEW v \in Handlers \ crowd', In(v, "commit")'
               PROVE  FALSE
    BY DEF OthersLeft
  <2>1. v # w /\ Working(v)
    BY <1>3 DEF In
  <2> QED
    BY <1>2, <1>7, <2>1
<1>10. EmptyStays'
  <2> SUFFICES ASSUME emptied,
                      NEW v \in Handlers, Working(v)', ~In(v, "look")', ~In(v, "inactive")', NEW c \in Copies(v)'
               PROVE  c.service.status # "active"
    BY <1>4 DEF RegistryInv, EmptyStays
  <2>1. service' = service /\ service.status # "active"
    BY DEF RegistryInv, EmptyStays
  <2>2. CASE v = w
    BY <1>3, <2>1, <2>2
  <2>3. CASE v # w
    BY <1>3, <2>3 DEF RegistryInv, EmptyStays
  <2> QED
    BY <2>2, <2>3
<1> QED
  BY <1>4, <1>5, <1>6, <1>8, <1>9, <1>10 DEF RegistryInv

\* The task that NewTask gives a handler.
TaskOf(k, st, i, r, s, v) ==
  [kind |-> k, stage |-> st, of |-> [id |-> i, row |-> r, service |-> s], status |-> v,
   again |-> FALSE, last |-> FALSE, todo |-> {}]

LEMMA RegisterKeeps ==
  ASSUME RegistryInv, NEW w \in Handlers, NEW i \in InstanceIds, RegisterService(w, i)
  PROVE  RegistryInv'
<1> DEFINE s == IF service = NoRow THEN [key |-> born, status |-> "active"] ELSE service
           k == IF service = NoRow THEN born + 1 ELSE born
           r == [key |-> k, service |-> s.key, status |-> "starting"]
           t == TaskOf("register", "insert", i, r, s, "starting")
<1>1. /\ Accept(w) /\ service' = s /\ born' = k + 1 /\ UNCHANGED <<instance, emptied>>
      /\ task' = [task EXCEPT ![w] = t]
  BY DEF RegisterService, NewTask, TaskOf
<1>2. s \in Service /\ k \in Nat /\ born <= k /\ (service = NoRow \/ s = service)
  BY DEF RegistryInv, RegistryTyped, Service, ServiceStatus
<1> HIDE DEF s, k
<1>3. r \in Instance /\ r.key = k
  BY <1>2 DEF Instance, InstanceStatus, Service
<1> HIDE DEF r
<1>4. /\ t \in Task /\ KindFits(t) /\ t.stage \notin {"commit", "look", "inactive"}
      /\ t.todo = {} /\ t.of.row = r /\ t.of.service = s
  BY <1>2, <1>3 DEF TaskOf, Task, Copy, Stages, InstanceStatus, KindFits
<1> HIDE DEF t
<1>5. born' \in Nat /\ born <= born' /\ k < born' /\ born \in Nat
  BY <1>1, <1>2 DEF RegistryInv, RegistryTyped
<1>6. \A c \in {t.of} \union t.todo : c.service = service'
  BY <1>1, <1>4
<1>7. service' \in Service /\ (service = NoRow \/ service' = service)
  BY <1>1, <1>2
<1>8. t.todo = {} /\ born <= t.of.row.key /\ t.of.row.key < born'
  BY <1>2, <1>3, <1>4, <1>5
<1> QED
  BY <1>1, <1>4, <1>5, <1>6, <1>7, <1>8, RequestStarts

LEMMA CreateKeeps ==
  ASSUME RegistryInv, NEW w \in Handlers, NEW i \in InstanceIds, NEW v \in Reported, CreateInstance(w, i, v)
  PROVE  RegistryInv'
<1> DEFINE r == [key |-> born, service |-> service.key, status |-> v]
           t == TaskOf("register", "insert", i, r, service, v)
<1>1. /\ Accept(w) /\ service # NoRow /\ born' = born + 1 /\ UNCHANGED <<service, instance, emptied>>
      /\ task' = [task EXCEPT ![w] = t]
  BY DEF CreateInstance, NewTask, TaskOf
<1>2. service \in Service /\ born \in Nat /\ v \in InstanceStatus
  BY <1>1, RegistryConstants DEF RegistryInv, RegistryTyped
<1>3. r \in Instance /\ r.key = born
  BY <1>2 DEF Instance, Service
<1> HIDE DEF r
<1>4. /\ t \in Task /\ KindFits(t) /\ t.stage \notin {"commit", "look", "inactive"}
      /\ t.todo = {} /\ t.of.row = r /\ t.of.service = service
  BY <1>2, <1>3 DEF TaskOf, Task, Copy, Stages, KindFits
<1> HIDE DEF t
<1>5. born' \in Nat /\ born <= born'
  BY <1>1, <1>2
<1>6. t.todo = {} /\ born <= t.of.row.key /\ t.of.row.key < born'
  BY <1>1, <1>2, <1>3, <1>4
<1> QED
  BY <1>1, <1>2, <1>4, <1>5, <1>6, RequestStarts

\* A request about an instance that is there.
LEMMA FindKeeps ==
  ASSUME RegistryInv, NEW w \in Handlers, NEW i \in InstanceIds, NEW v \in InstanceStatus,
         NEW kind \in {"register", "deregister", "destroy", "heartbeat", "edit", "check"},
         NEW stage \in Stages \ {"commit", "look", "inactive"},
         stage = "save" => kind = "edit", stage \in {"request", "record", "signal", "confirm"} => kind = "check",
         Find(w, i, kind, stage, v)
  PROVE  RegistryInv'
<1> DEFINE t == TaskOf(kind, stage, i, instance[i], service, v)
<1>1. /\ Accept(w) /\ instance[i] # NoRow /\ UNCHANGED <<service, instance, born, emptied>>
      /\ task' = [task EXCEPT ![w] = t]
  BY DEF Find, NewTask, TaskOf
<1>2. service \in Service /\ instance[i] \in Instance /\ born \in Nat
  BY <1>1 DEF RegistryInv, RegistryTyped, ForeignKey
<1>3. /\ t \in Task /\ KindFits(t) /\ t.stage \notin {"commit", "look", "inactive"}
      /\ t.todo = {} /\ t.of.id = i /\ t.of.row = instance[i] /\ t.of.service = service
  BY <1>2 DEF TaskOf, Task, Copy, KindFits
<1> HIDE DEF t
<1>4. \A c \in {t.of} \union t.todo : c.service = service' /\ Stored(c.id, c.row.key, c.row.service)
  BY <1>1, <1>3 DEF Stored
<1>5. \A c \in {t.of} \union t.todo : c.service = service'
  BY <1>4
<1>6. \A c \in {t.of} \union t.todo : Stored(c.id, c.row.key, c.row.service)
  BY <1>4
<1>7. born' \in Nat /\ born <= born' /\ service' \in Service /\ service' = service
  BY <1>1, <1>2
<1> QED
  BY <1>1, <1>3, <1>5, <1>6, <1>7, RequestStarts

\* A sweep: all its copies are of rows that are there.
LEMMA SweepKeeps ==
  ASSUME RegistryInv, NEW w \in Handlers, Sweep(w)
  PROVE  RegistryInv'
<1>1. /\ Accept(w) /\ service # NoRow /\ UNCHANGED <<service, instance, born, emptied>>
      /\ \E due \in SUBSET Owned(service.key) :
           /\ due # {}
           /\ NextCheck(w, {[id |-> i, row |-> instance[i], service |-> service] : i \in due})
  BY DEF Sweep
<1>2. PICK due \in SUBSET Owned(service.key) :
           /\ due # {}
           /\ NextCheck(w, {[id |-> i, row |-> instance[i], service |-> service] : i \in due})
  BY <1>1
<1> DEFINE all == {[id |-> i, row |-> instance[i], service |-> service] : i \in due}
<1>3. service \in Service /\ born \in Nat
  BY <1>1 DEF RegistryInv, RegistryTyped
<1>4. \A c \in all : c \in Copy /\ c.service = service /\ Stored(c.id, c.row.key, c.row.service)
  <2> SUFFICES ASSUME NEW i \in due
               PROVE  LET c == [id |-> i, row |-> instance[i], service |-> service] IN
                      c \in Copy /\ c.service = service /\ Stored(c.id, c.row.key, c.row.service)
    OBVIOUS
  <2>1. i \in InstanceIds /\ instance[i] # NoRow /\ instance[i] \in Instance
    BY DEF Owned, RegistryInv, RegistryTyped
  <2> QED
    BY <1>3, <2>1 DEF Copy, Stored
<1>5. all # {} /\ NextCheck(w, all)
  BY <1>2
<1> HIDE DEF all
<1>6. PICK c \in all : task' = [task EXCEPT ![w] =
         [kind |-> "check", stage |-> "request", of |-> c, status |-> "unhealthy",
          again |-> FALSE, last |-> FALSE, todo |-> all \ {c}]]
  BY <1>5 DEF NextCheck
<1> DEFINE t == [kind |-> "check", stage |-> "request", of |-> c, status |-> "unhealthy",
                 again |-> FALSE, last |-> FALSE, todo |-> all \ {c}]
<1>7. /\ t \in Task /\ KindFits(t) /\ t.stage \notin {"commit", "look", "inactive"}
      /\ {t.of} \union t.todo \subseteq all
  BY <1>4 DEF Task, Stages, InstanceStatus, KindFits
<1>8. task' = [task EXCEPT ![w] = t]
  BY <1>6
<1> HIDE DEF t
<1>9. \A x \in {t.of} \union t.todo : x.service = service' /\ Stored(x.id, x.row.key, x.row.service)
  BY <1>1, <1>4, <1>7
<1>10. \A x \in {t.of} \union t.todo : x.service = service'
  BY <1>9
<1>11. \A x \in {t.of} \union t.todo : Stored(x.id, x.row.key, x.row.service)
  BY <1>9
<1>12. born' \in Nat /\ born <= born' /\ service' \in Service /\ service' = service
  BY <1>1, <1>3
<1> QED
  BY <1>1, <1>7, <1>8, <1>10, <1>11, <1>12, RequestStarts

LEMMA ServeKeeps ==
  ASSUME RegistryInv, NEW w \in Handlers, Serve(w)
  PROVE  RegistryInv'
<1>1. ASSUME NEW i \in InstanceIds, Deregister(w, i) \/ DestroyInstance(w, i) \/ CheckOne(w, i)
      PROVE  RegistryInv'
  BY <1>1, FindKeeps DEF Deregister, DestroyInstance, CheckOne, Stages, InstanceStatus
<1>2. ASSUME NEW i \in InstanceIds, NEW v \in Reported, Heartbeat(w, i, v) \/ EditInstance(w, i, v)
      PROVE  RegistryInv'
  <2>1. v \in InstanceStatus
    BY RegistryConstants
  <2> QED
    BY <1>2, <2>1, FindKeeps DEF Heartbeat, EditInstance, Stages
<1> QED
  BY <1>1, <1>2, RegisterKeeps, CreateKeeps, SweepKeeps DEF Serve

-----------------------------------------------------------------------------
(* The admin, and the theorems.                                              *)

\* What is known of keys and handlers depends on the tables only through the keys.
LEMMA AdminKeeps ==
  ASSUME RegistryInv, UNCHANGED <<task, born, crowd>>,
         service' \in Service \union {NoRow}, emptied' \in BOOLEAN,
         instance' \in [InstanceIds -> Instance \union {NoRow}],
         \/ \A i \in InstanceIds : \/ instance'[i] = instance[i]
                                   \/ /\ instance[i] # NoRow /\ instance'[i] # NoRow
                                      /\ instance'[i].key = instance[i].key
                                      /\ instance'[i].service = instance[i].service
         \/ /\ \A i \in InstanceIds : instance'[i] = NoRow
            /\ \A w \in Handlers : ~In(w, "commit"),
         \A i \in InstanceIds : instance'[i] # NoRow => service # NoRow /\ service' # NoRow /\ service'.key = service.key,
         emptied' => emptied /\ service' = service
  PROVE  RegistryInv'
<1>1. RegistryTyped /\ ForeignKey /\ OneKey /\ StageKinds /\ WorksAlone /\ OthersLeft /\ EmptyStays
  BY DEF RegistryInv
<1>2. \A w \in Handlers : /\ Working(w)' = Working(w) /\ Row(w)' = Row(w) /\ Copies(w)' = Copies(w)
                          /\ \A s : In(w, s)' = In(w, s)
  BY DEF Working, Row, Copies, In
<1>3. RegistryTyped' /\ StageKinds' /\ EmptyStays'
  BY <1>1, <1>2 DEF RegistryTyped, StageKinds, EmptyStays
<1>4. WorksAlone'
  BY <1>1, <1>2 DEF WorksAlone, Others
<1>5. ForeignKey'
  BY <1>1 DEF ForeignKey
<1>6. OneKey'
  <2>1. ASSUME NEW i, NEW k, NEW s, Known(i, k, s)' PROVE Known(i, k, s)
    BY <1>2, <2>1 DEF Known, Stored, Copied
  <2>2. born' \in Nat /\ born <= born'
    BY <1>1 DEF RegistryTyped
  <2> QED
    BY <1>1, <2>1, <2>2, KeysKept
<1>7. OthersLeft'
  BY <1>1, <1>2 DEF OthersLeft
<1> QED
  BY <1>3, <1>4, <1>5, <1>6, <1>7 DEF RegistryInv

LEMMA RegistryStarts == RegistryInit => RegistryInv
<1> SUFFICES ASSUME RegistryInit PROVE RegistryInv
  OBVIOUS
<1>1. \A w \in Handlers : ~Working(w)
  BY DEF RegistryInit, Working
<1>2. OneKey
  BY <1>1 DEF RegistryInit, OneKey, Known, Stored, Copied, Copies
<1> QED
  BY <1>1, <1>2 DEF RegistryInit, RegistryInv, RegistryTyped, ForeignKey, StageKinds, WorksAlone,
                    OthersLeft, EmptyStays, In

LEMMA RegistryStep == RegistryInv /\ RegistryNext => RegistryInv'
<1> SUFFICES ASSUME RegistryInv, RegistryNext PROVE RegistryInv'
  OBVIOUS
<1>1. ASSUME NEW w \in Handlers, Step(w) PROVE RegistryInv'
  BY <1>1, InsertsKeep, CreatedKeeps, SavesKeep, UpdateKeeps, CommitKeeps, InactivateKeeps, ConfirmKeeps,
     ReadsGoOn DEF Step
<1>2. ASSUME NEW i \in InstanceIds, NEW v \in Reported, AdminMark(i, v) PROVE RegistryInv'
  <2> DEFINE x == [instance[i] EXCEPT !.status = v]
  <2>1. /\ instance[i] \in Instance /\ v \in InstanceStatus /\ RegistryTyped /\ ForeignKey
        /\ instance' = [instance EXCEPT ![i].status = v] /\ UNCHANGED <<service, task, born, crowd, emptied>>
    BY <1>2, RegistryConstants DEF AdminMark, RegistryInv, RegistryTyped
  <2>2. x \in Instance /\ x.key = instance[i].key /\ x.service = instance[i].service
    BY <2>1 DEF Instance
  <2>3. instance' = [instance EXCEPT ![i] = x]
    BY <2>1
  <2> HIDE DEF x
  <2>4. instance' \in [InstanceIds -> Instance \union {NoRow}] /\ instance'[i] = x /\ x # NoRow
        /\ \A j \in InstanceIds : j # i => instance'[j] = instance[j]
    BY <2>1, <2>2, <2>3, RegistryConstants DEF RegistryTyped
  <2>5. instance[i] # NoRow /\ service # NoRow
    BY <1>2 DEF AdminMark, RegistryInv, ForeignKey
  <2>6. \A j \in InstanceIds : instance'[j] # NoRow => service # NoRow
    BY <2>1, <2>4, <2>5 DEF ForeignKey
  <2>7. emptied \in BOOLEAN /\ service \in Service \union {NoRow}
    BY <2>1 DEF RegistryTyped
  <2> QED
    BY <2>1, <2>2, <2>4, <2>5, <2>6, <2>7, AdminKeeps
<1>3. ASSUME NEW v \in {"active", "inactive", "maintenance"}, AdminService(v) PROVE RegistryInv'
  <2>1. /\ service # NoRow /\ service' = [service EXCEPT !.status = v] /\ emptied' = FALSE
        /\ UNCHANGED <<instance, task, born, crowd>> /\ service \in Service /\ RegistryTyped
    BY <1>3 DEF AdminService, RegistryInv, RegistryTyped
  <2>2. service' \in Service /\ service'.key = service.key
    BY <2>1 DEF Service, ServiceStatus
  <2>3. instance' \in [InstanceIds -> Instance \union {NoRow}] /\ service' # NoRow
    BY <2>1, <2>2, RegistryConstants DEF RegistryTyped
  <2> QED
    BY <2>1, <2>2, <2>3, AdminKeeps
<1>4. ASSUME DestroyService PROVE RegistryInv'
  BY <1>4, AdminKeeps DEF DestroyService
<1> QED
  BY <1>1, <1>2, <1>3, <1>4, ServeKeeps DEF RegistryNext

LEMMA RegistryUnchanged == RegistryInv /\ UNCHANGED registryVars => RegistryInv'
<1> SUFFICES ASSUME RegistryInv, UNCHANGED registryVars PROVE RegistryInv'
  OBVIOUS
<1>1. /\ UNCHANGED <<service, instance, task, born, crowd, emptied>>
      /\ \A w \in Handlers : \A s : Working(w)' = Working(w) /\ In(w, s)' = In(w, s)
      /\ \A i, k, s : Known(i, k, s)' = Known(i, k, s)
  BY DEF registryVars, Working, In, Known, Stored, Copied, Copies
<1> QED
  BY <1>1 DEF RegistryInv, RegistryTyped, ForeignKey, OneKey, StageKinds, WorksAlone, Others, OthersLeft, Row,
              EmptyStays, Copies

\* The inductive invariant of the registry.
THEOREM RegistryInvariance == DiscoverySpec => []RegistryInv
<1>1. DiscoveryInit => RegistryInv
  BY RegistryStarts DEF DiscoveryInit
<1>2. RegistryInv /\ [DiscoveryNext]_discoveryVars => RegistryInv'
  BY RegistryStep, RegistryUnchanged DEF DiscoveryNext, discoveryVars
<1> QED
  BY <1>1, <1>2, PTL DEF DiscoverySpec

\* A service whose last instance was removed while nothing else ran is not active,
\* whatever is saved of it later, until an operator says otherwise.
THEOREM EmptiedStaysInactive == DiscoverySpec => []EmptyIsInactive
<1>1. RegistryInv => EmptyIsInactive
  BY DEF RegistryInv, EmptyStays, EmptyIsInactive
<1> QED
  BY <1>1, RegistryInvariance, PTL

\* An instance comes in only with the INSERT of a registration or with the whole-row
\* save of a check or an edit, and only into the service that is registered now:
\* late heartbeats and confirmations bring none back.
THEOREM NoneComesBack == DiscoverySpec => NoneRevived
<1> DEFINE By(i, w) == /\ Working(w) /\ task'[w] # task[w]
                       /\ task[w].of.id = i /\ instance'[i].key = Row(w).key
                       /\ \/ task[w].kind = "check" /\ In(w, "signal")
                          \/ task[w].kind = "edit" /\ In(w, "save")
                          \/ In(w, "insert")
           Revived(i) == /\ service # NoRow /\ instance'[i].service = service.key
                         /\ \E w \in Handlers : By(i, w)
<1>1. ASSUME RegistryInv, RegistryNext, NEW i \in InstanceIds, instance[i] = NoRow, instance'[i] # NoRow
      PROVE  Revived(i)
  <2>1. RegistryTyped /\ StageKinds
    BY <1>1 DEF RegistryInv
  <2>2. ASSUME NEW w \in Handlers, Update(w) \/ Confirm(w) PROVE FALSE
    <3>1. Working(w) /\ Present(Row(w)) /\ instance' = [instance EXCEPT ![task[w].of.id].status = task[w].status]
      BY <1>1, <2>2 DEF Update, Confirm, In, Row
    <3>2. instance[task[w].of.id] # NoRow
      BY <1>1, <3>1, PresentRow
    <3> QED
      BY <1>1, <2>1, <3>1, <3>2 DEF RegistryTyped
  <2>3. ASSUME NEW w \in Handlers, Commit(w) PROVE FALSE
    BY <1>1, <2>1, <2>3 DEF Commit, RegistryTyped
  <2>4. ASSUME NEW j \in InstanceIds, NEW v \in Reported, AdminMark(j, v) PROVE FALSE
    BY <1>1, <2>1, <2>4 DEF AdminMark, RegistryTyped
  <2>5. ASSUME NEW w \in Handlers, Insert(w) PROVE Revived(i)
    <3>1. In(w, "insert") /\ Working(w) /\ task[w].of \in Copy /\ task[w] \in Task
      BY <1>1, <2>5, AtWork DEF Insert, In
    <3>2. /\ instance' = [instance EXCEPT ![task[w].of.id] = task[w].of.row] /\ Go(w, "created")
          /\ service # NoRow /\ service.key = Row(w).service
      BY <1>1, <2>5 DEF Insert, Row
    <3>3. task[w].of.id = i /\ instance'[i].key = Row(w).key /\ instance'[i].service = service.key
      BY <1>1, <2>1, <3>1, <3>2 DEF RegistryTyped, Row
    <3>4. task'[w] # task[w]
      BY <2>1, <3>1, <3>2 DEF RegistryTyped, Go, In, Task
    <3>5. By(i, w)
      BY <3>1, <3>3, <3>4
    <3> HIDE DEF By
    <3> QED
      BY <3>2, <3>3, <3>5
  <2>6. ASSUME NEW w \in Handlers, SaveInstance(w) PROVE Revived(i)
    <3> DEFINE r == [task[w].of.row EXCEPT !.status = task[w].status]
    <3>1. /\ Working(w) /\ task[w].of \in Copy /\ task[w] \in Task /\ Row(w) \in Instance
          /\ In(w, "save") \/ In(w, "signal")
      BY <1>1, <2>6, AtWork DEF SaveInstance, In
    <3>2. /\ instance' = [instance EXCEPT ![task[w].of.id] = r]
          /\ Go(w, "confirm") \/ Go(w, "created") \/ Leave(w)
      BY <1>1, <2>6 DEF SaveInstance
    <3>3. task[w].of.id = i
      BY <1>1, <2>1, <3>2 DEF RegistryTyped
    <3>4. ~Present(r)
      BY <1>1, <2>1, <3>1, <3>3, PresentRow DEF Row, Instance, Present
    <3>5. service # NoRow /\ service.key = r.service
      <4>1. CASE instance[task[w].of.id] = NoRow /\ service # NoRow /\ service.key = r.service
        BY <4>1
      <4>2. CASE ~(instance[task[w].of.id] = NoRow /\ service # NoRow /\ service.key = r.service)
        BY <1>1, <2>6, <3>4, <4>2 DEF SaveInstance
      <4> QED
        BY <4>1, <4>2
    <3>6. instance'[i].key = Row(w).key /\ instance'[i].service = service.key
      BY <1>1, <2>1, <3>1, <3>2, <3>3, <3>5 DEF RegistryTyped, Row, Instance
    <3>7. task'[w] # task[w]
      BY <2>1, <3>1, <3>2 DEF RegistryTyped, Go, Leave, In, Working, Task
    <3>8. \/ task[w].kind = "check" /\ In(w, "signal")
          \/ task[w].kind = "edit" /\ In(w, "save")
      BY <2>1, <3>1 DEF StageKinds
    <3>9. By(i, w)
      BY <3>1, <3>3, <3>6, <3>7, <3>8
    <3> HIDE DEF By
    <3> QED
      BY <3>5, <3>6, <3>9
  <2> QED
    BY <1>1, <2>2, <2>3, <2>4, <2>5, <2>6
    DEF RegistryNext, Serve, Step, RegisterService, CreateInstance, Find, Deregister, DestroyInstance, Heartbeat,
        EditInstance, CheckOne, Sweep, AdminService, DestroyService, Created, Delete, Look, Inactivate, Request,
        Record, Crash
<1>2. RegistryInv /\ [DiscoveryNext]_discoveryVars => 
        [\A i \in InstanceIds : instance[i] = NoRow /\ instance'[i] # NoRow => Revived(i)]_registryVars
  BY <1>1 DEF DiscoveryNext, discoveryVars
<1> QED
  BY <1>2, RegistryInvariance, PTL DEF DiscoverySpec, NoneRevived
===============================================================================
