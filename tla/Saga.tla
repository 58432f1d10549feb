------------------------------- MODULE Saga -------------------------------
(***************************************************************************)
(* The saga orchestrator of saga/patterns.py: Saga.execute runs the steps  *)
(* in order, retries a step that times out or raises a connection error,   *)
(* and, when a step has failed for good, compensates the completed steps   *)
(* in reverse order.  The orchestrator is one asyncio coroutine; what a    *)
(* step does to the databases runs in a thread of the executor.  A timeout *)
(* cancels the coroutine's wait and not the thread, so a thread whose      *)
(* caller has given up may still take effect, at any later moment.         *)
(*                                                                         *)
(* Each model holds the history of one saga: sagas share no state, each    *)
(* request makes its own event loop, executor and Redis key.               *)
(***************************************************************************)
EXTENDS Integers, Sequences

CONSTANTS
  N,           \* number of steps, len(self.steps)
  MaxRetries,  \* SagaStep.max_retries
  Tolerant,    \* steps whose execute() reports the error of its work as a result
  Swallows,    \* steps whose compensate() only logs its own error
  NoRecord     \* Redis holds no record of the saga

Steps == 1 .. N

ASSUME SagaConstants ==
  /\ N \in Nat \ {0}
  /\ MaxRetries \in Nat
  /\ Tolerant \subseteq Steps
  /\ Swallows \subseteq Steps

VARIABLES
  state,       \* Saga.state
  index,       \* Saga.current_step_index, counted from 1
  completed,   \* Saga.completed_steps
  stepState,   \* SagaStep.state of each step
  retryCount,  \* SagaStep.retry_count of each step
  attempt,     \* loop variable of SagaStep.run
  cursor,      \* completed steps that _compensate has still to visit
  pc,          \* where the coroutine is suspended
  thread,      \* the executor thread the coroutine waits for
  effects,     \* how often each step's work reached the databases
  undone,      \* how often each step's work was undone there
  late,        \* threads of execute() whose caller has given up, per step
  lateUndo,    \* threads of compensate() whose caller has given up, per step
  record,      \* the state persisted in Redis
  answer       \* what OrderSagaView answered

coroutine == <<state, index, completed, stepState, retryCount, attempt, cursor, pc>>
database  == <<effects, undone>>
abandoned == <<late, lateUndo>>
vars      == <<coroutine, thread, database, abandoned, record, answer>>

SagaState == {"started", "running", "completed", "failed", "compensating", "compensated"}
StepState == {"pending", "running", "completed", "failed", "compensating", "compensated"}
Record    == [state : SagaState, index : Steps]

TypeOK ==
  /\ state \in SagaState
  /\ index \in Steps
  /\ completed \in Seq(Steps)
  /\ stepState \in [Steps -> StepState]
  /\ retryCount \in [Steps -> 0 .. MaxRetries]
  /\ attempt \in 0 .. MaxRetries
  /\ cursor \in 0 .. Len(completed)
  /\ pc \in {"begin", "next", "await", "backoff", "unwind", "undo", "done", "answered", "crashed"}
  /\ thread \in {"none", "working", "returned", "unreachable", "raised"}
  /\ effects \in [Steps -> Nat]
  /\ undone \in [Steps -> Nat]
  /\ late \in [Steps -> Nat]
  /\ lateUndo \in [Steps -> Nat]
  /\ record \in Record \union {NoRecord}
  /\ answer \in {"none", "success", "error"}

Init ==
  /\ state = "started"
  /\ index = 1
  /\ completed = << >>
  /\ stepState = [i \in Steps |-> "pending"]
  /\ retryCount = [i \in Steps |-> 0]
  /\ attempt = 0
  /\ cursor = 0
  /\ pc = "begin"
  /\ thread = "none"
  /\ effects = [i \in Steps |-> 0]
  /\ undone = [i \in Steps |-> 0]
  /\ late = [i \in Steps |-> 0]
  /\ lateUndo = [i \in Steps |-> 0]
  /\ record = NoRecord
  /\ answer = "none"

\* _persist_state: the write may fail, and the failure is only logged.
Persist(s, i) == record' \in {record, [state |-> s, index |-> i]}

Inc(f, i) == [f EXCEPT ![i] = @ + 1]
Dec(f, i) == [f EXCEPT ![i] = @ - 1]

-----------------------------------------------------------------------------
(* Forward execution. *)

\* execute() enters its loop.
Begin ==
  /\ pc = "begin"
  /\ state' = "running"
  /\ Persist("running", index)
  /\ pc' = "next"
  /\ UNCHANGED <<index, completed, stepState, retryCount, attempt, cursor,
                 thread, database, abandoned, answer>>

\* The loop reaches its next step: persist, then run() makes its first attempt.
BeginStep ==
  LET i == Len(completed) + 1 IN
  /\ pc = "next"
  /\ i <= N
  /\ index' = i
  /\ Persist(state, i)
  /\ stepState' = [stepState EXCEPT ![i] = "running"]
  /\ attempt' = 0
  /\ thread' = "working"
  /\ pc' = "await"
  /\ UNCHANGED <<state, completed, retryCount, cursor, database, abandoned, answer>>

\* The thread finishes the step's work; a tolerant step returns normally
\* although nothing was done.
ThreadReturns ==
  /\ pc = "await"
  /\ thread = "working"
  /\ thread' = "returned"
  /\ \/ effects' = Inc(effects, index)
     \/ index \in Tolerant /\ UNCHANGED effects
  /\ UNCHANGED <<coroutine, undone, abandoned, record, answer>>

\* The thread raises.  Its statements commit one by one (the router sends each
\* model to its own database and transaction.atomic() covers only the default
\* one), so what it did before the exception stays.  A tolerant step raises only
\* before its try, where it imports the notification service.
ThreadRaises ==
  /\ pc = "await"
  /\ thread = "working"
  /\ \/ /\ index \notin Tolerant
        /\ thread' \in {"unreachable", "raised"}
        /\ effects' \in {effects, Inc(effects, index)}
     \/ index \in Tolerant /\ thread' = "raised" /\ UNCHANGED effects
  /\ UNCHANGED <<coroutine, undone, abandoned, record, answer>>

\* wait_for returns the result: the step is completed.
StepReturns ==
  /\ pc = "await"
  /\ thread = "returned"
  /\ stepState' = [stepState EXCEPT ![index] = "completed"]
  /\ completed' = Append(completed, index)
  /\ thread' = "none"
  /\ pc' = "next"
  /\ UNCHANGED <<state, index, retryCount, attempt, cursor, database, abandoned,
                 record, answer>>

\* Mutant: one attempt too many.
Mut_Retry ==
  /\ attempt <= MaxRetries
  /\ retryCount' = Inc(retryCount, index)
  /\ pc' = "backoff"
  /\ UNCHANGED <<state, stepState, cursor, record>>

\* Another attempt follows after the backoff.
Retry ==
  /\ attempt < MaxRetries
  /\ retryCount' = Inc(retryCount, index)
  /\ pc' = "backoff"
  /\ UNCHANGED <<state, stepState, cursor, record>>

\* Mutant: the outcome is persisted before the compensations have run.
\* The step has failed for good: _compensate starts.
GiveUp ==
  /\ stepState' = [stepState EXCEPT ![index] = "failed"]
  /\ state' = "compensating"
  /\ Persist("compensating", index)
  /\ cursor' = Len(completed)
  /\ pc' = "unwind"
  /\ UNCHANGED retryCount

\* Mutant: the step's work blocks the event loop, no timer interrupts it.
Mut_StepTimesOut ==
  /\ pc = "await"
  /\ thread # "working"
  /\ thread' = "none"
  /\ \/ Retry
     \/ attempt = MaxRetries /\ GiveUp
  /\ UNCHANGED <<index, completed, attempt, database, abandoned, answer>>

\* The timer of wait_for fires first; a thread still working is abandoned.
StepTimesOut ==
  /\ pc = "await"
  /\ late' = IF thread = "working" THEN Inc(late, index) ELSE late
  /\ thread' = "none"
  /\ \/ Retry
     \/ attempt = MaxRetries /\ GiveUp
  /\ UNCHANGED <<index, completed, attempt, database, lateUndo, answer>>

\* run() catches the exception of execute(): only connection errors are retried.
StepRaises ==
  /\ pc = "await"
  /\ thread \in {"unreachable", "raised"}
  /\ thread' = "none"
  /\ \/ thread = "unreachable" /\ Retry
     \/ (thread = "raised" \/ attempt = MaxRetries) /\ GiveUp
  /\ UNCHANGED <<index, completed, attempt, database, abandoned, answer>>

\* asyncio.sleep is over: run() makes its next attempt.
BackoffEnds ==
  /\ pc = "backoff"
  /\ attempt' = attempt + 1
  /\ thread' = "working"
  /\ pc' = "await"
  /\ UNCHANGED <<state, index, completed, stepState, retryCount, cursor, database,
                 abandoned, record, answer>>

\* All steps completed successfully.
Finish ==
  /\ pc = "next"
  /\ Len(completed) = N
  /\ state' = "completed"
  /\ Persist("completed", index)
  /\ pc' = "done"
  /\ UNCHANGED <<index, completed, stepState, retryCount, attempt, cursor, thread,
                 database, abandoned, answer>>

-----------------------------------------------------------------------------
(* Compensation, in reverse order of completion. *)

\* Mutant: the steps are visited in the order they completed.
\* The step that the loop over reversed(completed_steps) has reached.
Undoing == completed[cursor]

\* compensate_step of the next completed step starts its thread.
BeginUndo ==
  /\ pc = "unwind"
  /\ cursor > 0
  /\ stepState' = [stepState EXCEPT ![Undoing] = "compensating"]
  /\ thread' = "working"
  /\ pc' = "undo"
  /\ UNCHANGED <<state, index, completed, retryCount, attempt, cursor, database,
                 abandoned, record, answer>>

\* compensate() does its work.
UndoThreadReturns ==
  /\ pc = "undo"
  /\ thread = "working"
  /\ thread' = "returned"
  /\ undone' = Inc(undone, Undoing)
  /\ UNCHANGED <<coroutine, effects, abandoned, record, answer>>

\* compensate() fails, before or after a statement that takes effect; a
\* swallowing one returns as if it had succeeded.
UndoThreadRaises ==
  /\ pc = "undo"
  /\ thread = "working"
  /\ thread' = IF Undoing \in Swallows THEN "returned" ELSE "raised"
  /\ undone' \in {undone, Inc(undone, Undoing)}
  /\ UNCHANGED <<coroutine, effects, abandoned, record, answer>>

\* wait_for returns: the step counts as compensated.
UndoReturns ==
  /\ pc = "undo"
  /\ thread = "returned"
  /\ stepState' = [stepState EXCEPT ![Undoing] = "compensated"]
  /\ cursor' = cursor - 1
  /\ thread' = "none"
  /\ pc' = "unwind"
  /\ UNCHANGED <<state, index, completed, retryCount, attempt, database, abandoned,
                 record, answer>>

\* Mutant: a compensation that fails ends the loop.
Mut_UndoFails ==
  /\ pc = "undo"
  /\ lateUndo' = IF thread = "working" THEN Inc(lateUndo, Undoing) ELSE lateUndo
  /\ cursor' = 0
  /\ thread' = "none"
  /\ pc' = "unwind"
  /\ UNCHANGED <<state, index, completed, stepState, retryCount, attempt, database,
                 late, record, answer>>

\* A compensation that raised or timed out is logged and the loop goes on; the
\* step stays "compensating" and is not tried again.
UndoFails ==
  /\ pc = "undo"
  /\ lateUndo' = IF thread = "working" THEN Inc(lateUndo, Undoing) ELSE lateUndo
  /\ cursor' = cursor - 1
  /\ thread' = "none"
  /\ pc' = "unwind"
  /\ UNCHANGED <<state, index, completed, stepState, retryCount, attempt, database,
                 late, record, answer>>

\* Mutant: execute() does not return after _compensate and falls through.
\* Mutant: execute() goes on with its loop after _compensate.
\* Every completed step has had its turn: the saga ends COMPENSATED.
FinishUndo ==
  /\ pc = "unwind"
  /\ cursor = 0
  /\ state' = "compensated"
  /\ Persist("compensated", index)
  /\ pc' = "done"
  /\ UNCHANGED <<index, completed, stepState, retryCount, attempt, cursor, thread,
                 database, abandoned, answer>>

-----------------------------------------------------------------------------
(* The view, the abandoned threads, the process and Redis. *)

\* create_order returns the context, whatever the saga's state: only a
\* SagaException makes the view answer 500.
Answer ==
  /\ pc = "done"
  /\ answer' = IF state = "failed" THEN "error" ELSE "success"
  /\ pc' = "answered"
  /\ UNCHANGED <<state, index, completed, stepState, retryCount, attempt, cursor,
                 thread, database, abandoned, record>>

\* An abandoned thread ends, with or without its effect.
LateThread(i) ==
  /\ late[i] > 0
  /\ late' = Dec(late, i)
  /\ effects' \in {effects, Inc(effects, i)}
  /\ UNCHANGED <<coroutine, thread, undone, lateUndo, record, answer>>

\* An abandoned thread of compensate() ends likewise.
LateUndoThread(i) ==
  /\ lateUndo[i] > 0
  /\ lateUndo' = Dec(lateUndo, i)
  /\ undone' \in {undone, Inc(undone, i)}
  /\ UNCHANGED <<coroutine, thread, effects, late, record, answer>>

\* The worker process dies with its threads; recover() only reads the record,
\* no code resumes a saga.
Crash ==
  /\ pc # "crashed"
  /\ pc' = "crashed"
  /\ thread' = "none"
  /\ late' = [i \in Steps |-> 0]
  /\ lateUndo' = [i \in Steps |-> 0]
  /\ UNCHANGED <<state, index, completed, stepState, retryCount, attempt, cursor,
                 database, record, answer>>

\* The record's hour is over; every persist of a live saga renews it.
ExpireRecord ==
  /\ pc \in {"done", "answered", "crashed"}
  /\ record # NoRecord
  /\ record' = NoRecord
  /\ UNCHANGED <<coroutine, thread, database, abandoned, answer>>

-----------------------------------------------------------------------------
Orchestrate ==
  \/ Begin \/ BeginStep \/ StepReturns \/ StepTimesOut \/ StepRaises \/ BackoffEnds
  \/ Finish \/ BeginUndo \/ UndoReturns \/ UndoFails \/ FinishUndo \/ Answer

Threads ==
  \/ ThreadReturns \/ ThreadRaises \/ UndoThreadReturns \/ UndoThreadRaises
  \/ \E i \in Steps : LateThread(i) \/ LateUndoThread(i)

Next == Orchestrate \/ Threads \/ Crash \/ ExpireRecord

Spec == Init /\ [][Next]_vars

\* The event loop keeps running the coroutine: its timers fire even when a
\* thread hangs.  Nothing is assumed of the threads.
FairSpec == Spec /\ WF_vars(Orchestrate)

-----------------------------------------------------------------------------
(* Properties. *)

\* A saga in state COMPLETED ran every step in order and undid none of them;
\* every step that can raise has taken effect (Saga.execute, lines 191-209).
CompletedMeansDone ==
  state = "completed" =>
    /\ completed = [i \in Steps |-> i]
    /\ \A i \in Steps :
         /\ stepState[i] = "completed"
         /\ undone[i] = 0
         /\ i \notin Tolerant => effects[i] > 0

Visited(i) == stepState[i] \in {"compensating", "compensated"}

\* Only completed steps are compensated, and none before every step completed
\* after it has had its turn (Saga._compensate, line 229).
UndoInReverse ==
  \A i \in Steps :
    Visited(i) \/ undone[i] + lateUndo[i] > 0 =>
      /\ Visited(i)
      /\ i <= Len(completed)
      /\ \A j \in i + 1 .. Len(completed) : Visited(j)

Working(i) == IF pc = "await" /\ thread = "working" /\ index = i THEN 1 ELSE 0

\* Retries, late threads included, multiply a step's effect at most
\* max_retries + 1 times (SagaStep.run, line 97).
EffectsBounded ==
  \A i \in Steps : effects[i] + late[i] + Working(i) <= MaxRetries + 1

\* Once the saga is COMPENSATED, what is left of a completed step comes from a
\* retry, from a compensation that failed or from one that swallowed its error:
\* a step that ran once and was compensated is undone whatever the other steps
\* did (Saga._compensate goes on after a failure, lines 229-236).
CleanStepsUndone ==
  state = "compensated" =>
    \A i \in Steps :
      (/\ i <= Len(completed)
       /\ retryCount[i] = 0
       /\ stepState[i] # "compensating"
       /\ i \notin Swallows) => effects[i] + late[i] <= undone[i]

\* The states a saga that was in state s may be in later.
Follow(s) == CASE s = "started"      -> SagaState
               [] s = "running"      -> SagaState \ {"started"}
               [] s = "compensating" -> {"compensating", "compensated"}
               [] OTHER              -> {s}

\* The record in Redis may lag behind the saga and never runs ahead of it: an
\* outcome read from the record is the saga's outcome (_persist_state, 244-271).
RecordNeverAhead ==
  record # NoRecord =>
    /\ state \in Follow(record.state)
    /\ record.index <= index

Unwinding == state \in {"compensating", "compensated"}

\* From the moment compensation has started no step is started again, and the
\* steps completed stay those that were completed (lines 200-204).
NoNewWork ==
  /\ completed' = completed
  /\ \A i \in Steps : late[i] = 0 => effects'[i] = effects[i]
  /\ \A i \in Steps : \/ stepState'[i] = stepState[i]
                       \/ stepState'[i] \in {"compensating", "compensated"}

NoStepAfterGiveUp ==
  [][Unwinding => NoNewWork]_vars

Contract == INSTANCE SagaContract WITH
  phase <- state,
  done  <- IF Unwinding THEN cursor ELSE Len(completed),
  told  <- answer # "none"

\* The orchestrator keeps its contract through timeouts, retries, late threads,
\* failed compensations, lost records and crashes (lines 183-242).
KeepsContract == Contract!Spec

\* Every request is answered, however its threads hang, unless the process dies
\* (the timeout of each wait_for, lines 100-103 and 140-143).
SagaAnswers == <>(pc \in {"answered", "crashed"})

-----------------------------------------------------------------------------
(* What a test of the repository says of sagas and the code does not do. *)

\* "Order processed successfully", status "completed": the view's answer is the
\* saga's outcome.
SuccessMeansCompleted == answer = "success" => state = "completed"
=============================================================================
