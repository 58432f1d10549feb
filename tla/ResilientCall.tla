--------------------------- MODULE ResilientCall ---------------------------
(***************************************************************************)
(* ResilientServiceCaller of resilience/patterns.py: a function is called  *)
(* under a timeout, in a bulkhead, behind a circuit breaker, and retried.  *)
(* What the breaker answers is left open here.  The timeout is the alarm   *)
(* signal: a process has one alarm and one handler, only its main thread   *)
(* may set the handler, and an exception raised by the handler comes up    *)
(* wherever the main thread is, between any two of the steps below.  A     *)
(* function that raises leaves its alarm set, and the handler is restored, *)
(* so that the alarm finds the default action, which ends the process.     *)
(***************************************************************************)
EXTENDS Integers, FiniteSets

CONSTANTS
  Threads,       \* threads of one process
  Main,          \* its main thread
  Concurrent,    \* BulkheadConfig.max_concurrent_calls
  MaxAttempts,   \* RetryConfig.max_attempts
  Seconds        \* int(timeout)

ASSUME CallConstants ==
  /\ Main \in Threads /\ IsFiniteSet(Threads)
  /\ Concurrent \in Nat \ {0} /\ MaxAttempts \in Nat \ {0} /\ Seconds \in Nat

VARIABLES
  doing,     \* the step each thread is at, and whether its call has raised
  attempt,   \* failed attempts of the call of each thread
  permits,   \* semaphore._value
  active,    \* active_calls; bound: one less or more than can be right
  handler,   \* the handler of SIGALRM
  saved,     \* old_handler of the main thread
  alarm,     \* an alarm is set
  alive,     \* the process runs
  raised,    \* history: a function under a timeout has raised by itself
  leaked     \* history: the handler was left behind by a call

callVars == <<doing, attempt, permits, active, handler, saved, alarm, alive, raised, leaked>>

Handlers == {"default", "own"}
Steps == {"idle", "ask", "acquire", "acquired", "enter", "install", "arm", "run",
          "disarm", "restore", "leave", "release", "count", "sleep"}
Holding == {"acquired", "enter", "install", "arm", "run", "disarm", "restore", "leave", "release"}
Counted == Holding \ {"acquired", "enter", "release"}

CallTypeOK ==
  /\ doing \in [Threads -> [step : Steps, ok : BOOLEAN]]
  /\ attempt \in [Threads -> 0 .. MaxAttempts]
  /\ permits \in 0 .. Concurrent /\ active \in -1 .. Cardinality(Threads) + 1
  /\ handler \in Handlers /\ saved \in Handlers
  /\ alarm \in BOOLEAN /\ alive \in BOOLEAN /\ raised \in BOOLEAN /\ leaked \in BOOLEAN

CallInit ==
  /\ doing = [t \in Threads |-> [step |-> "idle", ok |-> TRUE]]
  /\ attempt = [t \in Threads |-> 0]
  /\ permits = Concurrent /\ active = 0
  /\ handler = "default" /\ saved = "default" /\ alarm = FALSE
  /\ alive = TRUE /\ raised = FALSE /\ leaked = FALSE

At(t, step) == alive /\ doing[t].step = step
Go(t, step) == doing' = [doing EXCEPT ![t].step = step]
Raise(t, step) == doing' = [doing EXCEPT ![t] = [step |-> step, ok |-> FALSE]]

signalVars  == <<handler, saved, alarm, alive, raised, leaked>>
bulkheadVars == <<permits, active>>

-----------------------------------------------------------------------------
(* RetryMechanism.execute and the circuit breaker. *)

Begin(t) ==
  /\ At(t, "idle")
  /\ doing' = [doing EXCEPT ![t] = [step |-> "ask", ok |-> TRUE]]
  /\ attempt' = [attempt EXCEPT ![t] = 0]
  /\ UNCHANGED <<bulkheadVars, signalVars>>

\* The breaker admits the attempt, or refuses it, which is a failed attempt.
Ask(t) ==
  /\ At(t, "ask")
  /\ Go(t, "acquire") \/ Raise(t, "count")
  /\ UNCHANGED <<attempt, bulkheadVars, signalVars>>

\* The breaker has counted the result; the attempt was the last one, or the
\* thread sleeps before another.
Conclude(t) ==
  /\ At(t, "count")
  /\ IF doing[t].ok \/ attempt[t] + 1 >= MaxAttempts
       THEN Go(t, "idle") /\ UNCHANGED attempt
       ELSE Go(t, "sleep") /\ attempt' = [attempt EXCEPT ![t] = @ + 1]
  /\ UNCHANGED <<bulkheadVars, signalVars>>

Wake(t) ==
  /\ At(t, "sleep")
  /\ doing' = [doing EXCEPT ![t] = [step |-> "ask", ok |-> TRUE]]
  /\ UNCHANGED <<attempt, bulkheadVars, signalVars>>

-----------------------------------------------------------------------------
(* Bulkhead.execute *)

Acquire(t) ==
  /\ At(t, "acquire")
  /\ permits > 0
  /\ permits' = permits - 1
  /\ Go(t, "acquired")
  /\ UNCHANGED <<attempt, active, signalVars>>

\* The wait has lasted max_wait_duration.
Reject(t) ==
  /\ At(t, "acquire")
  /\ Raise(t, "count")
  /\ UNCHANGED <<attempt, bulkheadVars, signalVars>>

\* Into the try statement.
Try(t) ==
  /\ At(t, "acquired")
  /\ Go(t, "enter")
  /\ UNCHANGED <<attempt, bulkheadVars, signalVars>>

Join(t) ==
  /\ At(t, "enter")
  /\ active' = IF active > Cardinality(Threads) THEN active ELSE active + 1
  /\ Go(t, "install")
  /\ UNCHANGED <<attempt, permits, signalVars>>

\* The finally clause, in two statements.
Leave(t) ==
  /\ At(t, "leave")
  /\ active' = IF active < 0 THEN active ELSE active - 1
  /\ Go(t, "release")
  /\ UNCHANGED <<attempt, permits, signalVars>>

Mut_Release(t) ==
  /\ At(t, "release")
  /\ permits' = IF doing[t].ok THEN permits + 1 ELSE permits
  /\ Go(t, "count")
  /\ UNCHANGED <<attempt, active, signalVars>>

Release(t) ==
  /\ At(t, "release")
  /\ permits' = permits + 1
  /\ Go(t, "count")
  /\ UNCHANGED <<attempt, active, signalVars>>

-----------------------------------------------------------------------------
(* TimeoutHandler.execute *)

\* signal.signal, which raises in any thread but the main one.
Install(t) ==
  /\ At(t, "install")
  /\ IF t = Main
       THEN handler' = "own" /\ saved' = handler /\ Go(t, "arm")
       ELSE Raise(t, "leave") /\ UNCHANGED <<handler, saved>>
  /\ UNCHANGED <<attempt, bulkheadVars, alarm, alive, raised, leaked>>

Mut_Arm(t) ==
  /\ At(t, "arm")
  /\ Go(t, "run")
  /\ UNCHANGED <<attempt, bulkheadVars, handler, saved, alarm, alive, raised, leaked>>

\* signal.alarm; of no seconds, it takes an alarm back.
Arm(t) ==
  /\ At(t, "arm")
  /\ alarm' = (Seconds > 0)
  /\ Go(t, "run")
  /\ UNCHANGED <<attempt, bulkheadVars, handler, saved, alive, raised, leaked>>

FunctionReturns(t) ==
  /\ At(t, "run")
  /\ Go(t, "disarm")
  /\ UNCHANGED <<attempt, bulkheadVars, signalVars>>

Mut_Disarm(t) ==
  /\ At(t, "disarm")
  /\ Go(t, "restore")
  /\ UNCHANGED <<attempt, bulkheadVars, handler, saved, alarm, alive, raised, leaked>>

Disarm(t) ==
  /\ At(t, "disarm")
  /\ alarm' = FALSE
  /\ Go(t, "restore")
  /\ UNCHANGED <<attempt, bulkheadVars, handler, saved, alive, raised, leaked>>

\* The function raises: the alarm stays.
FunctionRaises(t) ==
  /\ At(t, "run")
  /\ Raise(t, "restore")
  /\ raised' = TRUE
  /\ UNCHANGED <<attempt, bulkheadVars, handler, saved, alarm, alive, leaked>>

Restore(t) ==
  /\ At(t, "restore")
  /\ handler' = saved
  /\ Go(t, "leave")
  /\ UNCHANGED <<attempt, bulkheadVars, saved, alarm, alive, raised, leaked>>

-----------------------------------------------------------------------------
(* The alarm goes off. *)

Kill ==
  /\ alive /\ alarm /\ handler = "default"
  /\ alarm' = FALSE /\ alive' = FALSE
  /\ UNCHANGED <<doing, attempt, bulkheadVars, handler, saved, raised, leaked>>

\* Where an exception that comes up at a step of the main thread leads to.
Caught(step) ==
  CASE step = "idle"                          -> "idle"     \* another request's trouble
    [] step \in {"ask", "acquire", "acquired", "count"} -> "count"
    [] step \in {"enter", "install", "arm"}   -> "leave"
    [] step \in {"run", "disarm"}             -> "restore"
    [] step = "restore"                       -> "leave"    \* in the finally clause
    [] step \in {"leave", "release"}          -> "count"    \* in that of the bulkhead
    [] step = "sleep"                         -> "idle"     \* not in the try statement

\* timeout_handler raises; the alarm need not be that of the call it hits.
Interrupt ==
  /\ alive /\ alarm /\ handler = "own"
  /\ alarm' = FALSE
  /\ \/ Raise(Main, Caught(doing[Main].step))
     \/ doing[Main].step = "count" /\ Raise(Main, "idle")  \* in the except clause of the retry
  /\ leaked' = (leaked \/ doing[Main].step \in {"arm", "restore"})
  /\ UNCHANGED <<attempt, bulkheadVars, handler, saved, alive, raised>>

Fire == Kill \/ Interrupt

Step(t) ==
  \/ Ask(t) \/ Conclude(t) \/ Wake(t)
  \/ Acquire(t) \/ Reject(t) \/ Try(t) \/ Join(t) \/ Leave(t) \/ Release(t)
  \/ Install(t) \/ Arm(t) \/ Disarm(t) \/ Restore(t)

CallNext ==
  \/ Fire
  \/ \E t \in Threads : Begin(t) \/ Step(t) \/ FunctionReturns(t) \/ FunctionRaises(t)

-----------------------------------------------------------------------------
InStep(S) == {t \in Threads : doing[t].step \in S}

(* A permit of the bulkhead is held by a call or free, and active_calls       *)
(* counts the calls, however calls end, unless an alarm has come up in        *)
(* TimeoutHandler outside its try statement and has left the handler behind.  *)
PermitsKept ==
  ~leaked => /\ permits + Cardinality(InStep(Holding)) = Concurrent
             /\ active = Cardinality(InStep(Counted))

(* The process ends over an alarm only if a function under a timeout raised:  *)
(* neither a call that returns nor one that times out leaves an alarm set.    *)
KilledByLeftover == ~alive => raised

(* Every call ends or the process does, even if its function never returns.   *)
CallEnds == \A t \in Threads : doing[t].step # "idle" ~> doing[t].step = "idle" \/ ~alive
=============================================================================
