--------------------------- MODULE CircuitBreaker ---------------------------
(***************************************************************************)
(* AdvancedCircuitBreaker of resilience/patterns.py in one worker process, *)
(* called by several threads.  The lock is held while a call is admitted   *)
(* and while its result is counted, not while the call runs: each of the   *)
(* two is one step, and a result may arrive in another state of the        *)
(* breaker than the one its call was admitted in.  The breakers of the     *)
(* other processes are the environment; they publish their state changes   *)
(* in Redis.  Points of time are modelled by their age, which the code     *)
(* compares with the timeout and with each other only.                     *)
(***************************************************************************)
EXTENDS Integers, Sequences, FiniteSets

CONSTANTS
  Callers,           \* threads of this process that make calls
  FailureThreshold,  \* CircuitBreakerConfig.failure_threshold
  SuccessThreshold,  \* CircuitBreakerConfig.success_threshold
  Timeout,           \* CircuitBreakerConfig.timeout, in ticks
  WindowSize,        \* window_size
  RemoteStates,      \* states the breakers of other processes may publish
  MaxNews,           \* bound: how often other processes publish a change
  Idle,              \* the thread is in no call
  Never,             \* last_failure_time is None
  NoNews             \* Redis holds nothing newer than this breaker's last change

BreakerState == {"closed", "open", "half_open"}

ASSUME BreakerConstants ==
  /\ FailureThreshold \in Nat \ {0}
  /\ SuccessThreshold \in Nat \ {0}
  /\ Timeout \in Nat \ {0}
  /\ WindowSize \in Nat \ {0}
  /\ RemoteStates \subseteq BreakerState
  /\ MaxNews \in Nat
  /\ Idle \notin Nat
  /\ Never \notin Nat

VARIABLES
  breaker,    \* the fields of AdvancedCircuitBreaker
  calling,    \* for each thread in a call, the age of the call
  news,       \* the record in Redis when it is newer than the last change here
  published,  \* how often other processes have published a change
  healthy,    \* the called service answers every call from now on
  failed      \* history: failed results since the breaker was last closed;
              \* bound: more than the threshold are all the same

vars == <<breaker, calling, news, published, healthy, failed>>

Age == 0 .. Timeout    \* bound: older than the timeout is all the same

Breaker ==
  [state     : BreakerState,
   failures  : Nat,                 \* failure_count
   successes : Nat,                 \* success_count
   failure   : Age \union {Never},  \* age of last_failure_time
   change    : Age,                 \* age of last_state_change
   window    : Seq({"success", "failure", "rejected"})]   \* call_history

News == [state : BreakerState, failures : Nat, failure : Age \union {Never}, change : Age]

TypeOK ==
  /\ breaker \in Breaker
  /\ Len(breaker.window) <= WindowSize
  /\ calling \in [Callers -> Age \union {Idle}]
  /\ news \in News \union {NoNews}
  /\ published \in 0 .. MaxNews
  /\ healthy \in BOOLEAN
  /\ failed \in 0 .. FailureThreshold

Init ==
  /\ breaker = [state |-> "closed", failures |-> 0, successes |-> 0,
                failure |-> Never, change |-> 0, window |-> << >>]
  /\ calling = [c \in Callers |-> Idle]
  /\ news = NoNews
  /\ published = 0
  /\ healthy = FALSE
  /\ failed = 0

-----------------------------------------------------------------------------
(* The fields. *)

\* _record_call: the window keeps the last WindowSize calls.
Remember(b, outcome) ==
  LET longer == Append(b.window, outcome) IN
  [b EXCEPT !.window = IF Len(longer) > WindowSize THEN Tail(longer) ELSE longer]

ToOpen(b) == [b EXCEPT !.state = "open", !.change = 0, !.successes = 0]

Mut_ToHalfOpen(b) ==
  [b EXCEPT !.state = "half_open", !.change = 0, !.successes = 0]
ToHalfOpen(b) ==
  [b EXCEPT !.state = "half_open", !.change = 0, !.failures = 0, !.successes = 0]

ToClosed(b) ==
  [b EXCEPT !.state = "closed", !.change = 0, !.failures = 0, !.successes = 0]

NotSuccessful(b) == {k \in DOMAIN b.window : b.window[k] # "success"}

Mut_ShouldTrip(b) ==
  /\ Len(b.window) >= FailureThreshold
  /\ 2 * Cardinality(NotSuccessful(b)) >= Len(b.window)
\* _should_trip: half of the window failed, and failures have outnumbered
\* successes by the threshold.
ShouldTrip(b) ==
  /\ Len(b.window) >= FailureThreshold
  /\ 2 * Cardinality(NotSuccessful(b)) >= Len(b.window)
  /\ b.failures >= FailureThreshold

\* _should_attempt_reset
Due(b) == b.failure \in {Never, Timeout}

\* _sync_distributed_state: a newer record replaces all fields but the window;
\* the read may fail, and an absent failure time keeps the one known here.
Adopt(b) ==
  [b EXCEPT !.state = news.state,
            !.failures = news.failures,
            !.successes = 0,
            !.change = news.change,
            !.failure = IF news.failure = Never THEN @ ELSE news.failure]

Seen == {breaker} \union IF news = NoNews THEN {} ELSE {Adopt(breaker)}

\* A change made here is newer than any record published before it.
Outdate(seen) ==
  news' = IF seen = breaker /\ breaker'.state = seen.state THEN news ELSE NoNews

\* The state in which call() leaves the breaker it finds.
Enter(b) ==
  CASE b.state = "open" /\ Due(b)                                -> ToHalfOpen(b)
    [] b.state = "half_open" /\ b.successes >= SuccessThreshold  -> ToClosed(b)
    [] /\ b.state = "half_open"
       /\ b.successes < SuccessThreshold
       /\ b.failures > 0                                         -> ToOpen(b)
    [] OTHER                                                     -> b

Count(n) == failed' = IF breaker.state # "closed" /\ breaker'.state = "closed" THEN 0 ELSE n

-----------------------------------------------------------------------------
(* Calls. *)

\* call() admits the thread and runs its function outside the lock.
Admit(c) ==
  /\ calling[c] = Idle
  /\ \E seen \in Seen :
       /\ Enter(seen).state # "open"
       /\ breaker' = Enter(seen)
       /\ Outdate(seen)
  /\ calling' = [calling EXCEPT ![c] = 0]
  /\ Count(failed)
  /\ UNCHANGED <<published, healthy>>

Mut_Refuse(c) ==
  /\ calling[c] = Idle
  /\ \E seen \in Seen :
       /\ Enter(seen).state = "open"
       /\ breaker' = IF seen.state = "open" THEN [Remember(seen, "rejected") EXCEPT !.failure = 0] ELSE Enter(seen)
       /\ Outdate(seen)
  /\ UNCHANGED <<calling, published, healthy, failed>>
\* call() raises CircuitBreakerOpenException; a refusal by an OPEN breaker is
\* recorded in the window like a failed call.
Refuse(c) ==
  /\ calling[c] = Idle
  /\ \E seen \in Seen :
       /\ Enter(seen).state = "open"
       /\ breaker' = IF seen.state = "open" THEN Remember(seen, "rejected") ELSE Enter(seen)
       /\ Outdate(seen)
  /\ UNCHANGED <<calling, published, healthy, failed>>

\* A result of a call is counted in the state the breaker has meanwhile.
Ends(c) ==
  /\ calling[c] # Idle
  /\ calling' = [calling EXCEPT ![c] = Idle]
  /\ UNCHANGED <<published, healthy>>

Mut_AfterSuccess(b) ==
  CASE b.state = "closed"    -> [b EXCEPT !.failures = IF @ > 0 THEN @ - 1 ELSE 0]
    [] b.state = "half_open" -> b
    [] b.state = "open"      -> b
\* _on_success
AfterSuccess(b) ==
  CASE b.state = "closed"    -> [b EXCEPT !.failures = IF @ > 0 THEN @ - 1 ELSE 0]
    [] b.state = "half_open" -> IF b.successes + 1 >= SuccessThreshold
                                  THEN ToClosed(b)
                                  ELSE [b EXCEPT !.successes = @ + 1]
    [] b.state = "open"      -> b

Succeed(c) ==
  /\ Ends(c)
  /\ breaker' = AfterSuccess(Remember(breaker, "success"))
  /\ Outdate(breaker)
  /\ Count(failed)

\* _on_failure: last_failure_time is the time at which the call began.
AfterFailure(b, age) ==
  LET counted == [b EXCEPT !.failures = @ + 1, !.failure = age] IN
  IF \/ b.state = "closed" /\ ShouldTrip(counted)
     \/ b.state = "half_open"
  THEN ToOpen(counted)
  ELSE counted

Fail(c) ==
  /\ Ends(c)
  /\ ~healthy
  /\ breaker' = AfterFailure(Remember(breaker, "failure"), calling[c])
  /\ Outdate(breaker)
  /\ Count(IF failed < FailureThreshold THEN failed + 1 ELSE failed)

\* The function raises something else than expected_exception: nothing is counted.
Abort(c) ==
  /\ Ends(c)
  /\ ~healthy
  /\ UNCHANGED <<breaker, news, failed>>

-----------------------------------------------------------------------------
(* The environment. *)

\* Another process publishes a change: with its failure count when it has
\* opened, with counts of zero otherwise.
PublishElsewhere ==
  /\ published < MaxNews
  /\ published' = published + 1
  /\ \E s \in RemoteStates, n \in 0 .. FailureThreshold, f \in Age \union {Never} :
       /\ s # "open" => n = 0
       /\ news' = [state |-> s, failures |-> n, failure |-> f, change |-> 0]
  /\ UNCHANGED <<breaker, calling, healthy, failed>>

Older(a) == IF a \in 0 .. Timeout - 1 THEN a + 1 ELSE a

Tick ==
  /\ breaker' = [breaker EXCEPT !.failure = Older(@), !.change = Older(@)]
  /\ calling' = [c \in Callers |-> Older(calling[c])]
  /\ news' = IF news = NoNews THEN NoNews
             ELSE [news EXCEPT !.failure = Older(@), !.change = Older(@)]
  /\ UNCHANGED <<published, healthy, failed>>

Recover ==
  /\ ~healthy
  /\ healthy' = TRUE
  /\ UNCHANGED <<breaker, calling, news, published, failed>>

-----------------------------------------------------------------------------
Call(c)   == Admit(c) \/ Refuse(c)
Return(c) == Succeed(c) \/ Fail(c) \/ Abort(c)

Next ==
  \/ \E c \in Callers : Call(c) \/ Return(c)
  \/ PublishElsewhere \/ Tick \/ Recover

Spec == Init /\ [][Next]_vars

\* Time passes, requests keep coming and every call returns.
FairSpec ==
  /\ Spec
  /\ WF_vars(Tick)
  /\ \A c \in Callers : WF_vars(Call(c)) /\ WF_vars(Return(c))

-----------------------------------------------------------------------------
(* Properties. *)

\* A HALF_OPEN breaker has counted no failure and not yet enough successes, and
\* only a HALF_OPEN one counts successes, whatever results of older calls arrive
\* and whatever is adopted: by call() alone the tests at lines 81-86 never succeed.
CountsFitState ==
  /\ breaker.state = "half_open" =>
       breaker.failures = 0 /\ breaker.successes < SuccessThreshold
  /\ breaker.state # "half_open" => breaker.successes = 0

Returns == \E c \in Callers : calling[c] # Idle /\ calling'[c] = Idle

\* A breaker trips only after as many failed results as the threshold since it
\* was last closed: refused calls in the window, failures of the time before and
\* counts adopted from Redis do not make up for them (_should_trip, line 134).
TripsAfterThreshold ==
  [][breaker.state = "closed" /\ breaker'.state = "open" /\ Returns
       => failed' = FailureThreshold]_vars

\* An OPEN breaker does not stay OPEN as long as calls are attempted, however
\* many it refuses and however late the results of older calls arrive ("OPEN:
\* ... periodic health checks").
OpenIsTemporary == breaker.state = "open" ~> breaker.state # "open"

\* Once the service answers again the breaker closes ("Automatic recovery
\* testing").
ClosesAfterRecovery == healthy ~> breaker.state = "closed"
=============================================================================
