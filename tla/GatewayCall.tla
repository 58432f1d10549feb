---------------------------- MODULE GatewayCall -----------------------------
(***************************************************************************)
(* A call of the gateway to a service (gateway/middleware.py): retry_call  *)
(* around ServiceDiscoveryClient.call_service, which takes the lock of the *)
(* service's CircuitBreaker, adopts the record of the breaker in Redis,    *)
(* picks an instance in turn and sends the request with the lock held.     *)
(* Every process has a breaker and a list of instances of its own; they    *)
(* share the record and the position of the round robin.  The proxy view   *)
(* and the resolvers (gateway/views.py, gateway/resolvers.py) are written  *)
(* to call it this way.                                                    *)
(***************************************************************************)
EXTENDS Integers, Sequences, FiniteSets

CONSTANTS
  Processes, Callers,   \* gateway processes; threads that make calls
  ProcessOf,            \* the process of a caller
  Instances,            \* instances of the service
  Registries,           \* answers of the registry: sequences of healthy instances
  Threshold,            \* failure_threshold
  MaxRetries,           \* max_retries of RetryMiddleware
  MaxEvents,            \* bound: calls, restarts, expiries, changes of the registry or of a list's age
  None

\* The fields of a breaker: the time since last_failure_time, or its absence,
\* as far as recovery_timeout tells it.
Breaker == [state : {"CLOSED", "OPEN", "HALF_OPEN"}, failure_count : Nat,
            last_failure : {None, "recent", "past"}]

ASSUME CallConstants ==
  /\ ProcessOf \in [Callers -> Processes]
  /\ Registries \subseteq Seq(Instances)
  /\ None \notin Callers \union Breaker \union Nat
  /\ Threshold \in Nat \ {0} /\ MaxRetries \in Nat /\ MaxEvents \in Nat

Call ==
  [stage   : {"waiting", "instance", "index", "request"},
   attempt : 0 .. MaxRetries,
   pick    : Seq(Nat)]          \* length of the list and index, once they are read

VARIABLES
  breaker,     \* the breaker of each process
  lock,        \* who holds its lock
  record,      \* circuit_breaker:<service> in Redis
  instances,   \* service_instances of each process
  stale,       \* processes whose list is older than discovery_interval
  registry,    \* the healthy instances, in the registry's order
  index,       \* round_robin:<service> in the cache
  call,        \* what each caller is doing
  budget,      \* events still to come
  failed,      \* history: failed calls since the last success
  mixed,       \* history: processes have overlapped, or a record was lost
  turns        \* history: the positions picked since the last disturbance

callVars == <<breaker, lock, record, instances, stale, registry, index, call, budget, failed, mixed, turns>>

Closed == [state |-> "CLOSED", failure_count |-> 0, last_failure |-> None]

Busy(c)   == call[c] # << >>
At(c, s)  == Busy(c) /\ call[c].stage = s
Inside(c) == lock[ProcessOf[c]] = c

CallTypeOK ==
  /\ breaker \in [Processes -> Breaker] /\ record \in Breaker \union {None}
  /\ \A c \in Callers : /\ Busy(c) => call[c] \in Call
                        /\ Inside(c) <=> Busy(c) /\ ~At(c, "waiting")
  /\ \A p \in Processes : lock[p] \in {c \in Callers : ProcessOf[c] = p} \union {None}
  /\ instances \in [Processes -> Registries] /\ stale \subseteq Processes
  /\ registry \in Registries
  /\ index \in Nat \union {None}
  /\ budget \in 0 .. MaxEvents
  /\ failed \in Nat /\ mixed \in BOOLEAN

CallInit ==
  /\ breaker = [p \in Processes |-> Closed] /\ lock = [p \in Processes |-> None]
  /\ record = None
  /\ instances = [p \in Processes |-> << >>] /\ stale = Processes
  /\ registry \in Registries
  /\ index = None
  /\ call = [c \in Callers |-> << >>] /\ budget = MaxEvents
  /\ failed = 0 /\ mixed = FALSE /\ turns = << >>

Spend == budget > 0 /\ budget' = budget - 1

-----------------------------------------------------------------------------
(* The breaker. *)

\* _should_attempt_reset
Due(b) == b.last_failure = "past"

\* _sync_state: last_failure_time stays when the record has none.
Adopt(b) ==
  IF record = None THEN b
  ELSE [record EXCEPT !.last_failure = IF @ = None THEN b.last_failure ELSE @]

\* _on_success
AfterSuccess(b) == [b EXCEPT !.failure_count = 0,
                             !.state = IF @ = "HALF_OPEN" THEN "CLOSED" ELSE @]

Mut_AfterFailure(b) ==   \* one early
  [failure_count |-> b.failure_count + 1, last_failure |-> "recent",
   state |-> IF b.failure_count + 1 >= Threshold - 1 THEN "OPEN" ELSE b.state]
\* _on_failure
AfterFailure(b) ==
  [failure_count |-> b.failure_count + 1, last_failure |-> "recent",
   state |-> IF b.failure_count + 1 >= Threshold THEN "OPEN" ELSE b.state]

\* The lock, the record and the decision at the start of CircuitBreaker.call.
\* Redis may not answer; the breaker then goes by what it has.  A refusal is not
\* retried.
Enter(c) ==
  LET p == ProcessOf[c] IN
  /\ At(c, "waiting") /\ lock[p] = None
  /\ \E answers \in BOOLEAN :
       LET b == IF answers THEN Adopt(breaker[p]) ELSE breaker[p] IN
       /\ mixed' = \/ mixed \/ ~answers
                   \/ \E q \in Processes \ {p} : lock[q] # None
       /\ IF b.state = "OPEN" /\ ~Due(b)
            THEN /\ breaker' = [breaker EXCEPT ![p] = b]
                 /\ call' = [call EXCEPT ![c] = << >>]
                 /\ UNCHANGED lock
            ELSE /\ breaker' = [breaker EXCEPT ![p] =
                      IF b.state = "OPEN" THEN [b EXCEPT !.state = "HALF_OPEN"] ELSE b]
                 /\ call' = [call EXCEPT ![c].stage = "instance"]
                 /\ lock' = [lock EXCEPT ![p] = c]
  /\ UNCHANGED <<record, instances, stale, registry, index, budget, failed, turns>>

Mut_Settle(c, b) ==   \* the lock of a call that failed is not released
  LET p == ProcessOf[c] IN
  /\ breaker' = [breaker EXCEPT ![p] = b]
  /\ lock' = IF b.failure_count = 0 THEN [lock EXCEPT ![p] = None] ELSE lock
  /\ \E answers \in BOOLEAN :
       /\ record' = IF answers THEN b ELSE record
       /\ mixed' = (mixed \/ ~answers)
\* The end of CircuitBreaker.call: the breaker becomes b, the record is written
\* unless Redis does not answer, the lock is released.
Settle(c, b) ==
  LET p == ProcessOf[c] IN
  /\ breaker' = [breaker EXCEPT ![p] = b]
  /\ lock' = [lock EXCEPT ![p] = None]
  /\ \E answers \in BOOLEAN :
       /\ record' = IF answers THEN b ELSE record
       /\ mixed' = (mixed \/ ~answers)

Fails(c) == Settle(c, AfterFailure(breaker[ProcessOf[c]])) /\ failed' = failed + 1

\* RetryMiddleware: a RequestException or ServiceUnavailableException is retried
\* until the attempts are used up.
NextAttempt(c) ==
  call' = [call EXCEPT ![c] =
    IF call[c].attempt = MaxRetries THEN << >>
    ELSE [stage |-> "waiting", attempt |-> call[c].attempt + 1, pick |-> << >>]]

-----------------------------------------------------------------------------
(* The call. *)

\* retry_call
Begin(c) ==
  /\ ~Busy(c) /\ Spend
  /\ call' = [call EXCEPT ![c] = [stage |-> "waiting", attempt |-> 0, pick |-> << >>]]
  /\ UNCHANGED <<breaker, lock, record, instances, stale, registry, index, failed, mixed, turns>>

\* _get_healthy_instances: a list that is too old is read again; when that fails
\* the old one is kept for another interval.
Discovered(p, answers) ==
  IF p \in stale /\ answers THEN registry ELSE instances[p]

\* Somebody else is between the read and the write of the position.
Picking(c) == \E d \in Callers \ {c} : At(d, "index")

\* get_service_instance up to the read of the position; an empty list is a failure.
Discover(c) ==
  LET p == ProcessOf[c] IN
  /\ At(c, "instance")
  /\ \E answers \in BOOLEAN :
       LET list == Discovered(p, answers) IN
       /\ instances' = [instances EXCEPT ![p] = list]
       /\ stale' = stale \ {p}
       /\ IF list = << >>
            THEN Fails(c) /\ NextAttempt(c) /\ UNCHANGED turns
            ELSE /\ call' = [call EXCEPT ![c].stage = "index",
                       ![c].pick = <<Len(list), IF index = None THEN 0 ELSE index>>]
                 /\ turns' = IF Picking(c) \/ (turns # << >> /\ turns[1].of # list)
                               THEN << >> ELSE turns
                 /\ UNCHANGED <<breaker, lock, record, failed, mixed>>
  /\ UNCHANGED <<registry, index, budget>>

Mut_After(n, i) == i   \* the position is not moved
\* The position after i in a list of n.
After(n, i) == (i + 1) % n

\* _round_robin_select moves the position and the request is sent.
Select(c) ==
  LET p == ProcessOf[c]
      n == call[c].pick[1]
      i == call[c].pick[2] IN
  /\ At(c, "index")
  /\ index' = After(n, i)
  /\ call' = [call EXCEPT ![c].stage = "request"]
  /\ turns' = IF Picking(c) THEN << >>
              ELSE LET before == IF Len(turns) = n THEN Tail(turns) ELSE turns IN
                   Append(before, [of |-> instances[p], at |-> i % n])
  /\ UNCHANGED <<breaker, lock, record, instances, stale, registry, budget, failed, mixed>>

\* The service answers with a status below 400.
Succeed(c) ==
  /\ At(c, "request")
  /\ Settle(c, AfterSuccess(breaker[ProcessOf[c]]))
  /\ failed' = 0
  /\ call' = [call EXCEPT ![c] = << >>]
  /\ UNCHANGED <<instances, stale, registry, index, budget, turns>>

\* Any other status, no connection, or no answer within the timeout.
Fail(c) ==
  /\ At(c, "request")
  /\ Fails(c) /\ NextAttempt(c)
  /\ UNCHANGED <<instances, stale, registry, index, budget, turns>>

\* The cache cannot be read or written: counted, and not retried.
CacheFails(c) ==
  /\ At(c, "index")
  /\ Fails(c)
  /\ call' = [call EXCEPT ![c] = << >>]
  /\ UNCHANGED <<instances, stale, registry, index, budget, turns>>

-----------------------------------------------------------------------------
(* Around it. *)

\* Services register, go and come back.
Register ==
  /\ Spend
  /\ registry' \in Registries \ {registry}
  /\ UNCHANGED <<breaker, lock, record, instances, stale, index, call, failed, mixed, turns>>

\* discovery_interval has passed for process p.
GrowStale(p) ==
  /\ p \notin stale /\ Spend
  /\ stale' = stale \union {p}
  /\ UNCHANGED <<breaker, lock, record, instances, registry, index, call, failed, mixed, turns>>

Older(b) == IF b = None \/ b.last_failure = None THEN b ELSE [b EXCEPT !.last_failure = "past"]

\* recovery_timeout has passed since every failure.
Wait ==
  /\ \E b \in {breaker[p] : p \in Processes} \union {record} : Older(b) # b
  /\ breaker' = [p \in Processes |-> Older(breaker[p])] /\ record' = Older(record)
  /\ UNCHANGED <<lock, instances, stale, registry, index, call, budget, failed, mixed, turns>>

\* Five minutes have passed since the record, or the position, was written.
Expire ==
  /\ Spend
  /\ \/ /\ record # None /\ record' = None /\ mixed' = TRUE
        /\ UNCHANGED <<index, turns>>
     \/ /\ index # None /\ index' = None /\ turns' = << >>
        /\ UNCHANGED <<record, mixed>>
  /\ UNCHANGED <<breaker, lock, instances, stale, registry, call, failed>>

\* Process p dies and is started again.
Restart(p) ==
  /\ Spend
  /\ breaker' = [breaker EXCEPT ![p] = Closed] /\ lock' = [lock EXCEPT ![p] = None]
  /\ instances' = [instances EXCEPT ![p] = << >>] /\ stale' = stale \union {p}
  /\ call' = [c \in Callers |-> IF ProcessOf[c] = p THEN << >> ELSE call[c]]
  /\ mixed' = (mixed \/ lock[p] # None)
  /\ UNCHANGED <<record, registry, index, failed, turns>>

Execute(c) ==
  Enter(c) \/ Discover(c) \/ Select(c) \/ Succeed(c) \/ Fail(c) \/ CacheFails(c)

CallNext ==
  \/ \E c \in Callers : Begin(c) \/ Execute(c)
  \/ \E p \in Processes : GrowStale(p) \/ Restart(p)
  \/ Register \/ Wait \/ Expire

-----------------------------------------------------------------------------
(* Properties. *)

\* As long as no two processes called at once, Redis answered and no record was
\* lost, the processes count as one: what is recorded is the number of failures
\* since the last success of any of them, and the breaker is OPEN only after
\* Threshold of them in a row.
CountsAsOne ==
  ~mixed =>
    /\ IF record = None THEN failed = 0 ELSE record.failure_count = failed
    /\ \A p \in Processes : lock[p] # None => breaker[p].failure_count = failed
    /\ record # None /\ record.state = "OPEN" => failed >= Threshold

\* As long as the list is the same and no two picks overlap, the instances take
\* turns, whichever process picks: none is asked again before all others were.
TakeTurns ==
  \A i, k \in DOMAIN turns : turns[i].of = turns[k].of /\ i < k => turns[i].at # turns[k].at

\* Every call ends, that of a thread which waits while another thread of its
\* process holds the lock during its requests too: the lock is released however
\* a request ends, and retries run out or are refused.
CallsEnd == \A c \in Callers : Busy(c) ~> ~Busy(c)
=============================================================================
