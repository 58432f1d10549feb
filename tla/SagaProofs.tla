----------------------------- MODULE SagaProofs -----------------------------
(***************************************************************************)
(* Proofs about the saga orchestrator, for any number of steps and retries *)
(* and any set of tolerant and of swallowing steps.  The properties are    *)
(* not inductive: they rest on what the coroutine's position tells about   *)
(* the steps (IInv).                                                       *)
(***************************************************************************)
EXTENDS Saga, TLAPS

\* Where the coroutine is suspended determines the saga's state; only a crash
\* leaves the state as it is.
Phase ==
  /\ pc = "begin" => state = "started"
  /\ pc \in {"next", "await", "backoff"} => state = "running"
  /\ pc \in {"unwind", "undo"} => state = "compensating"
  /\ pc \in {"done", "answered"} => state \in {"completed", "compensated"}
  /\ answer # "none" => pc \in {"answered", "crashed"}
  /\ state # "failed"

\* The completed steps are the first ones, in order; the current one is next.
InOrder ==
  /\ Len(completed) <= N
  /\ \A i \in 1 .. Len(completed) : completed[i] = i
  /\ index <= Len(completed) + 1
  /\ pc \in {"await", "backoff"} => index = Len(completed) + 1
  /\ state = "completed" => Len(completed) = N

Spent(i)   == effects[i] + late[i] + Working(i)
Current(i) == pc \in {"await", "backoff"} /\ i = index

\* Every thread of execute() was paid for by an attempt, and a step that has
\* not been reached has had none.
Attempts ==
  /\ pc = "await" => retryCount[index] = attempt
  /\ pc = "backoff" => retryCount[index] = attempt + 1 /\ Spent(index) <= retryCount[index]
  /\ \A i \in Steps : Spent(i) <= retryCount[i] + 1
  /\ \A i \in Steps :
       /\ pc \in {"begin", "next", "await", "backoff"}
       /\ i > Len(completed)
       /\ ~Current(i)
       => Spent(i) = 0 /\ retryCount[i] = 0

\* What the completed steps have done, as long as nothing is compensated.
Forward ==
  /\ \A i \in 1 .. Len(completed) : i \notin Tolerant => effects[i] > 0
  /\ pc = "await" /\ thread = "returned" /\ index \notin Tolerant => effects[index] > 0
  /\ ~Unwinding =>
       /\ \A i \in Steps : undone[i] = 0 /\ lateUndo[i] = 0 /\ ~Visited(i)
       /\ \A i \in 1 .. Len(completed) : stepState[i] = "completed"

\* The cursor separates the steps that have had their turn from the others.
Passed(i) == cursor < i /\ i <= Len(completed) => Visited(i)

Touched(i) ==
  Visited(i) \/ undone[i] + lateUndo[i] > 0 =>
    cursor <= i /\ i <= Len(completed) /\ Visited(i)

Undone(i) == stepState[i] = "compensated" /\ i \notin Swallows => undone[i] > 0

AtCursor ==
  /\ pc = "undo" =>
       /\ cursor > 0
       /\ stepState[cursor] = "compensating"
       /\ thread = "returned" /\ cursor \notin Swallows => undone[cursor] > 0
  /\ state = "compensated" => cursor = 0

Backward == Unwinding => AtCursor /\ \A i \in Steps : Passed(i) /\ Touched(i) /\ Undone(i)

IInv ==
  TypeOK /\ Phase /\ InOrder /\ Attempts /\ Forward /\ Backward /\ RecordNeverAhead

-----------------------------------------------------------------------------
(* Lemmas about the helpers and about the counters. *)

\* The steps are the numbers from 1 to N.
LEMMA StepFacts ==
  /\ N \in Nat /\ N > 0 /\ 1 \in Steps /\ MaxRetries \in Nat
  /\ \A i : i \in Steps <=> i \in Nat /\ 1 <= i /\ i <= N
  BY SagaConstants DEF Steps

\* Inc adds one to one counter and leaves the others.
LEMMA IncFacts ==
  ASSUME NEW f \in [Steps -> Nat], NEW i \in Steps
  PROVE  /\ Inc(f, i) \in [Steps -> Nat]
         /\ Inc(f, i)[i] = f[i] + 1
         /\ \A j \in Steps : j # i => Inc(f, i)[j] = f[j]
  BY DEF Inc

\* Dec takes one off a counter that is not zero.
LEMMA DecFacts ==
  ASSUME NEW f \in [Steps -> Nat], NEW i \in Steps, f[i] > 0
  PROVE  /\ Dec(f, i) \in [Steps -> Nat]
         /\ Dec(f, i)[i] = f[i] - 1
         /\ \A j \in Steps : j # i => Dec(f, i)[j] = f[j]
  BY DEF Dec

\* A counter that is left alone or counted up once.
LEMMA GrowFacts ==
  ASSUME NEW f \in [Steps -> Nat], NEW k \in Steps, NEW g \in {f, Inc(f, k)}
  PROVE  \A i \in Steps : /\ g[i] \in Nat
                          /\ f[i] <= g[i] /\ g[i] <= f[i] + 1
                          /\ i # k => g[i] = f[i]
  <1>1. CASE g = f
    BY <1>1
  <1>2. CASE g = Inc(f, k)
    BY <1>2, IncFacts
  <1> QED BY <1>1, <1>2

\* What Redis may hold after a persist is a record again.
LEMMA PersistType ==
  ASSUME NEW s \in SagaState, NEW i \in Steps, Persist(s, i),
         record \in Record \union {NoRecord}
  PROVE  record' \in Record \union {NoRecord}
  <1>1. [state |-> s, index |-> i] \in Record
    BY DEF Record
  <1> QED BY <1>1 DEF Persist

\* The counters, and the place of the coroutine in the list of steps.
LEMMA MapFacts ==
  ASSUME TypeOK
  PROVE  /\ effects \in [Steps -> Nat] /\ undone \in [Steps -> Nat]
         /\ late \in [Steps -> Nat] /\ lateUndo \in [Steps -> Nat]
         /\ index \in Steps
  BY DEF TypeOK

\* Numbers the later proofs compare.
LEMMA CountFacts ==
  ASSUME TypeOK
  PROVE  /\ index \in Steps /\ index \in Nat /\ attempt \in Nat
         /\ \A i \in Steps :
              /\ i \in Nat /\ 1 <= i /\ i <= N
              /\ effects[i] \in Nat /\ undone[i] \in Nat /\ retryCount[i] \in Nat
              /\ late[i] \in Nat /\ lateUndo[i] \in Nat
              /\ Spent(i) \in Nat
  <1>1. /\ index \in Steps /\ index \in Nat /\ attempt \in Nat
        /\ \A i \in Steps :
              /\ i \in Nat /\ 1 <= i /\ i <= N
              /\ effects[i] \in Nat /\ undone[i] \in Nat /\ retryCount[i] \in Nat
              /\ late[i] \in Nat /\ lateUndo[i] \in Nat
    BY StepFacts DEF TypeOK
  <1> QED BY <1>1 DEF Spent, Working

\* The step being compensated is the one under the cursor.
LEMMA PlaceFacts ==
  ASSUME TypeOK, Phase, InOrder, Backward
  PROVE  /\ Len(completed) \in Nat /\ Len(completed) <= N
         /\ cursor \in Nat /\ cursor <= Len(completed)
         /\ pc = "undo" \/ (pc = "unwind" /\ cursor > 0) =>
              Undoing = cursor /\ cursor > 0 /\ Undoing \in Steps
  <1>1. /\ Len(completed) \in Nat /\ Len(completed) <= N
        /\ cursor \in Nat /\ cursor <= Len(completed)
    BY DEF TypeOK, InOrder
  <1>2. pc = "undo" => cursor > 0
    BY DEF Phase, Backward, AtCursor, Unwinding
  <1>3. cursor > 0 => Undoing = cursor
    BY <1>1 DEF InOrder, Undoing
  <1> QED BY <1>1, <1>2, <1>3, StepFacts

-----------------------------------------------------------------------------
(* Types. *)

\* Every action keeps the types.
LEMMA StepKeepsType == ASSUME IInv, Next PROVE TypeOK'
  <1> USE DEF IInv
  <1>1. /\ Len(completed) \in Nat /\ cursor \in Nat /\ cursor <= Len(completed)
        /\ index \in Steps /\ state \in SagaState /\ record \in Record \union {NoRecord}
    BY DEF TypeOK
  <1>2. CASE Begin \/ Finish \/ FinishUndo
    <2>1. record' \in Record \union {NoRecord}
      BY <1>1, <1>2, PersistType DEF Begin, Finish, FinishUndo, SagaState
    <2> QED BY <1>2, <2>1 DEF Begin, Finish, FinishUndo, database, abandoned, TypeOK, SagaState
  <1>3. CASE BeginStep
    <2>1. index' \in Steps /\ attempt' \in 0 .. MaxRetries
      BY <1>1, <1>3, StepFacts DEF BeginStep
    <2>2. record' \in Record \union {NoRecord}
      BY <1>1, <1>3, <2>1, PersistType DEF BeginStep
    <2>3. stepState' \in [Steps -> StepState]
      BY <1>3 DEF BeginStep, TypeOK, StepState
    <2> QED BY <1>3, <2>1, <2>2, <2>3 DEF BeginStep, database, abandoned, TypeOK
  <1>4. CASE ThreadReturns \/ ThreadRaises
    <2>1. effects' \in {effects, Inc(effects, index)}
      BY <1>4 DEF ThreadReturns, ThreadRaises
    <2>2. effects' \in [Steps -> Nat]
      BY <2>1, MapFacts, IncFacts
    <2> QED BY <1>4, <2>2 DEF ThreadReturns, ThreadRaises, coroutine, abandoned, TypeOK
  <1>5. CASE StepReturns
    <2>1. completed' \in Seq(Steps) /\ cursor \in 0 .. Len(completed')
      BY <1>5 DEF StepReturns, TypeOK
    <2>2. stepState' \in [Steps -> StepState]
      BY <1>5 DEF StepReturns, TypeOK, StepState
    <2> QED BY <1>5, <2>1, <2>2 DEF StepReturns, database, abandoned, TypeOK
  <1>6. CASE StepTimesOut \/ StepRaises
    <2>1. late' \in [Steps -> Nat] /\ UNCHANGED <<database, lateUndo>>
      <3>1. late' \in {late, Inc(late, index)}
        BY <1>6 DEF StepTimesOut, StepRaises, abandoned
      <3>2. late' \in [Steps -> Nat]
        BY <3>1, MapFacts, IncFacts
      <3> QED BY <1>6, <3>2 DEF StepTimesOut, StepRaises, abandoned
    <2>2. thread' = "none" /\ UNCHANGED <<index, completed, attempt, answer>>
      BY <1>6 DEF StepTimesOut, StepRaises
    <2>3. CASE Retry
      <3>1. retryCount' \in [Steps -> 0 .. MaxRetries]
        <4>1. retryCount[index] < MaxRetries
          BY <1>6, <2>3 DEF StepTimesOut, StepRaises, Retry, Attempts
        <4>2. retryCount[index] + 1 \in 0 .. MaxRetries
          BY <1>1, <4>1, StepFacts DEF TypeOK
        <4> QED BY <2>3, <4>2 DEF Retry, Inc, TypeOK
      <3> QED BY <2>1, <2>2, <2>3, <3>1 DEF Retry, database, TypeOK
    <2>4. CASE GiveUp
      <3>1. record' \in Record \union {NoRecord}
        BY <1>1, <2>4, PersistType DEF GiveUp, SagaState
      <3>2. cursor' \in 0 .. Len(completed)
        BY <1>1, <2>4 DEF GiveUp
      <3>3. stepState' \in [Steps -> StepState]
        BY <2>4 DEF GiveUp, TypeOK, StepState
      <3> QED BY <2>1, <2>2, <2>4, <3>1, <3>2, <3>3 DEF GiveUp, database, TypeOK, SagaState
    <2> QED BY <1>6, <2>3, <2>4 DEF StepTimesOut, StepRaises
  <1>7. CASE BackoffEnds
    <2>1. attempt' \in 0 .. MaxRetries
      BY <1>7, StepFacts DEF BackoffEnds, Attempts, TypeOK
    <2> QED BY <1>7, <2>1 DEF BackoffEnds, database, abandoned, TypeOK
  <1>8. CASE BeginUndo
    <2>1. stepState' \in [Steps -> StepState]
      BY <1>8 DEF BeginUndo, TypeOK, StepState
    <2> QED BY <1>8, <2>1 DEF BeginUndo, database, abandoned, TypeOK
  <1>9. CASE UndoThreadReturns \/ UndoThreadRaises
    <2>1. Undoing \in Steps
      BY <1>9, PlaceFacts DEF UndoThreadReturns, UndoThreadRaises
    <2>2. undone' \in {undone, Inc(undone, Undoing)}
      BY <1>9 DEF UndoThreadReturns, UndoThreadRaises, database
    <2>3. undone' \in [Steps -> Nat]
      BY <2>1, <2>2, MapFacts, IncFacts
    <2> QED BY <1>9, <2>3
        DEF UndoThreadReturns, UndoThreadRaises, coroutine, database, abandoned, TypeOK
  <1>10. CASE UndoReturns \/ UndoFails
    <2>1. Undoing \in Steps
      BY <1>10, PlaceFacts DEF UndoReturns, UndoFails
    <2>2. cursor' \in 0 .. Len(completed)
      BY <1>1, <1>10, PlaceFacts DEF UndoReturns, UndoFails
    <2>3. lateUndo' \in {lateUndo, Inc(lateUndo, Undoing)}
      BY <1>10 DEF UndoReturns, UndoFails, abandoned
    <2>4. lateUndo' \in [Steps -> Nat]
      BY <2>1, <2>3, MapFacts, IncFacts
    <2>5. stepState' \in [Steps -> StepState]
      BY <1>10 DEF UndoReturns, UndoFails, TypeOK, StepState
    <2> QED BY <1>10, <2>1, <2>4, <2>5, <2>2
        DEF UndoReturns, UndoFails, database, abandoned, TypeOK
  <1>11. CASE Answer \/ ExpireRecord
    BY <1>11 DEF Answer, ExpireRecord, coroutine, database, abandoned, TypeOK
  <1>12. CASE Crash
    BY <1>12 DEF Crash, database, TypeOK
  <1>13. ASSUME NEW k \in Steps, LateThread(k) PROVE TypeOK'
    <2>1. effects' \in {effects, Inc(effects, k)} /\ late' = Dec(late, k) /\ late[k] > 0
      BY <1>13 DEF LateThread
    <2>2. effects' \in [Steps -> Nat] /\ late' \in [Steps -> Nat]
      BY <2>1, MapFacts, IncFacts, DecFacts
    <2> QED BY <1>13, <2>2 DEF LateThread, coroutine, TypeOK
  <1>14. ASSUME NEW k \in Steps, LateUndoThread(k) PROVE TypeOK'
    <2>1. undone' \in {undone, Inc(undone, k)} /\ lateUndo' = Dec(lateUndo, k) /\ lateUndo[k] > 0
      BY <1>14 DEF LateUndoThread
    <2>2. undone' \in [Steps -> Nat] /\ lateUndo' \in [Steps -> Nat]
      BY <2>1, MapFacts, IncFacts, DecFacts
    <2> QED BY <1>14, <2>2 DEF LateUndoThread, coroutine, TypeOK
  <1> QED BY <1>2, <1>3, <1>4, <1>5, <1>6, <1>7, <1>8, <1>9, <1>10, <1>11, <1>12, <1>13, <1>14
      DEF Next, Orchestrate, Threads

-----------------------------------------------------------------------------
(* The attempts are paid for. *)

\* A step that leaves the coroutine alone keeps Attempts if nothing is spent.
LEMMA AttemptsStable ==
  ASSUME TypeOK, Attempts, UNCHANGED coroutine,
         \A i \in Steps : Spent(i)' \in Nat /\ Spent(i)' <= Spent(i)
  PROVE  Attempts'
  <1>1. \A i \in Steps : Current(i)' <=> Current(i)
    BY DEF Current, coroutine
  <1> QED BY <1>1, CountFacts DEF Attempts, coroutine

\* An attempt that ends without a result pays for the next one.
LEMMA AttemptEnds ==
  ASSUME TypeOK, InOrder, Attempts, pc = "await", Retry \/ GiveUp,
         UNCHANGED <<index, completed, attempt>>,
         \A i \in Steps : Spent(i)' \in Nat /\ Spent(i)' <= Spent(i)
  PROVE  Attempts'
  <1>1. CASE Retry
    <2>1. /\ retryCount'[index] = retryCount[index] + 1
          /\ \A i \in Steps : i # index => retryCount'[i] = retryCount[i]
      BY <1>1 DEF Retry, Inc, TypeOK
    <2>2. pc' = "backoff"
      BY <1>1 DEF Retry
    <2>3. \A i \in Steps : Current(i)' <=> Current(i)
      BY <2>2 DEF Current
    <2>4. Spent(index) <= retryCount[index] + 1
      BY CountFacts DEF Attempts
    <2> QED BY <2>1, <2>2, <2>3, <2>4, CountFacts DEF Attempts, Current
  <1>2. CASE GiveUp
    BY <1>2, CountFacts DEF GiveUp, Attempts
  <1> QED BY <1>1, <1>2

\* Every action keeps the account of attempts.
LEMMA StepKeepsAttempts == ASSUME IInv, Next PROVE Attempts'
  <1> USE DEF IInv
  <1>1. CASE Begin
    BY <1>1, CountFacts DEF Begin, database, abandoned, Attempts, Current, Spent, Working
  <1>2. CASE BeginStep
    <2>1. index' = Len(completed) + 1 /\ index' \in Steps /\ attempt' = 0
      BY <1>2, PlaceFacts, StepFacts DEF BeginStep
    <2>2. \A i \in Steps : i >= index' => Spent(i) = 0 /\ retryCount[i] = 0
      BY <1>2, <2>1, PlaceFacts, CountFacts DEF BeginStep, Attempts, Current
    <2>3. \A i \in Steps : /\ Spent(i)' \in Nat /\ Spent(i)' <= Spent(i) + 1
                           /\ i # index' => Spent(i)' = Spent(i)
      BY <1>2, CountFacts DEF BeginStep, database, abandoned, Spent, Working, Attempts,
          Phase, InOrder
    <2>4. \A i \in Steps : Spent(i) <= retryCount[i] + 1
      BY DEF Attempts
    <2>5. UNCHANGED <<retryCount, completed>> /\ pc' = "await"
      BY <1>2 DEF BeginStep
    <2>6. \A i \in Steps : Spent(i)' <= retryCount'[i] + 1
      <3>1. \A i \in Steps : i = index' => Spent(i)' <= 1 /\ retryCount'[i] \in Nat
        BY <2>1, <2>2, <2>3, <2>5, CountFacts
      <3>2. \A i \in Steps : i # index' => Spent(i)' <= retryCount'[i] + 1
        BY <2>3, <2>4, <2>5
      <3> QED BY <3>1, <3>2, <2>3
    <2>7. \A i \in Steps : i > Len(completed) /\ i # index' => Spent(i)' = 0 /\ retryCount'[i] = 0
      BY <2>1, <2>2, <2>3, <2>5, PlaceFacts, CountFacts
    <2> QED BY <2>1, <2>2, <2>5, <2>6, <2>7, PlaceFacts, CountFacts DEF Attempts, Current
  <1>3. CASE ThreadReturns
    <2>1. effects' \in {effects, Inc(effects, index)} /\ index \in Steps
      BY <1>3, CountFacts DEF ThreadReturns
    <2>2. \A i \in Steps : /\ effects'[i] \in Nat /\ effects'[i] <= effects[i] + 1
                           /\ i # index => effects'[i] = effects[i]
      BY <2>1, GrowFacts DEF TypeOK
    <2>3. \A i \in Steps : Spent(i)' \in Nat /\ Spent(i)' <= Spent(i)
      BY <1>3, <2>2, CountFacts DEF ThreadReturns, Spent, Working, coroutine, abandoned
    <2> QED BY <1>3, <2>3, AttemptsStable DEF ThreadReturns
  <1>4. CASE ThreadRaises
    <2>1. effects' \in {effects, Inc(effects, index)} /\ index \in Steps
      BY <1>4, CountFacts DEF ThreadRaises
    <2>2. \A i \in Steps : /\ effects'[i] \in Nat /\ effects'[i] <= effects[i] + 1
                           /\ i # index => effects'[i] = effects[i]
      BY <2>1, GrowFacts DEF TypeOK
    <2>3. \A i \in Steps : Spent(i)' \in Nat /\ Spent(i)' <= Spent(i)
      BY <1>4, <2>2, CountFacts DEF ThreadRaises, Spent, Working, coroutine, abandoned
    <2> QED BY <1>4, <2>3, AttemptsStable DEF ThreadRaises
  <1>5. CASE StepReturns
    <2>1. Len(completed') = Len(completed) + 1 /\ index = Len(completed) + 1
      BY <1>5 DEF StepReturns, TypeOK, InOrder
    <2>2. \A i \in Steps : Spent(i)' = Spent(i)
      BY <1>5, CountFacts DEF StepReturns, database, abandoned, Spent, Working
    <2> QED BY <1>5, <2>1, <2>2, PlaceFacts, CountFacts DEF StepReturns, Attempts, Current
  <1>6. CASE StepTimesOut
    <2>1. ASSUME thread = "working"
          PROVE  \A i \in Steps : Spent(i)' \in Nat /\ Spent(i)' <= Spent(i)
      <3>1. /\ late'[index] = late[index] + 1
            /\ \A i \in Steps : i # index => late'[i] = late[i]
        BY <1>6, <2>1, IncFacts DEF StepTimesOut, TypeOK
      <3> QED BY <1>6, <2>1, <3>1, CountFacts DEF StepTimesOut, Spent, Working, database
    <2>2. ASSUME thread # "working"
          PROVE  \A i \in Steps : Spent(i)' \in Nat /\ Spent(i)' <= Spent(i)
      BY <1>6, <2>2, CountFacts DEF StepTimesOut, Spent, Working, database
    <2>3. \A i \in Steps : Spent(i)' \in Nat /\ Spent(i)' <= Spent(i)
      BY <2>1, <2>2
    <2> QED BY <1>6, <2>3, AttemptEnds DEF StepTimesOut
  <1>7. CASE StepRaises
    <2>1. \A i \in Steps : Spent(i)' \in Nat /\ Spent(i)' <= Spent(i)
      BY <1>7, CountFacts DEF StepRaises, Retry, GiveUp, Spent, Working, database, abandoned
    <2> QED BY <1>7, <2>1, AttemptEnds DEF StepRaises
  <1>8. CASE BackoffEnds
    BY <1>8, CountFacts DEF BackoffEnds, database, abandoned, Phase, InOrder, Attempts,
        Current, Spent, Working
  <1>9. CASE Finish
    BY <1>9, CountFacts DEF Finish, database, abandoned, Phase, Attempts, Current, Spent,
        Working
  <1>10. ASSUME NEW k \in Steps, LateThread(k) PROVE Attempts'
    <2>1. effects' \in {effects, Inc(effects, k)} /\ late' = Dec(late, k) /\ late[k] > 0
      BY <1>10 DEF LateThread
    <2>2. \A i \in Steps : /\ effects'[i] \in Nat /\ effects'[i] <= effects[i] + 1
                           /\ i # k => effects'[i] = effects[i]
      BY <2>1, GrowFacts DEF TypeOK
    <2>3. /\ late'[k] = late[k] - 1
          /\ \A i \in Steps : i # k => late'[i] = late[i]
      BY <2>1, DecFacts DEF TypeOK
    <2>4. \A i \in Steps : Spent(i)' \in Nat /\ Spent(i)' <= Spent(i)
      BY <1>10, <2>2, <2>3, <2>1, CountFacts DEF LateThread, Spent, Working, coroutine
    <2> QED BY <1>10, <2>4, AttemptsStable DEF LateThread
  <1>11. CASE Crash
    <2>1. \A i \in Steps : Spent(i)' \in Nat /\ Spent(i)' <= Spent(i)
      BY <1>11, CountFacts DEF Crash, Spent, Working, database
    <2> QED BY <1>11, <2>1, CountFacts DEF Crash, Attempts
  <1>12. CASE BeginUndo \/ UndoThreadReturns \/ UndoThreadRaises \/ UndoReturns \/ UndoFails
    BY <1>12, CountFacts
    DEF BeginUndo, UndoThreadReturns, UndoThreadRaises, UndoReturns, UndoFails,
        coroutine, database, abandoned, Attempts, Spent, Working
  <1>13. CASE FinishUndo \/ Answer
    BY <1>13, CountFacts DEF FinishUndo, Answer, database, abandoned, Attempts, Spent, Working
  <1>14. CASE ExpireRecord \/ \E k \in Steps : LateUndoThread(k)
    <2>1. UNCHANGED <<coroutine, thread, effects, late>>
      BY <1>14 DEF ExpireRecord, LateUndoThread, database, abandoned
    <2>2. \A i \in Steps : Spent(i)' = Spent(i)
      BY <2>1 DEF Spent, Working, coroutine
    <2> QED BY <2>1, <2>2, AttemptsStable, CountFacts
  <1> QED BY <1>1, <1>2, <1>3, <1>4, <1>5, <1>6, <1>7, <1>8, <1>9, <1>10, <1>11, <1>12,
      <1>13, <1>14
      DEF Next, Orchestrate, Threads
-----------------------------------------------------------------------------
(* What has been done, and what has been undone. *)

\* Every action keeps the place of the coroutine.
LEMMA StepKeepsPlace == ASSUME IInv, Next PROVE Phase' /\ InOrder'
  <1> USE DEF IInv
  <1>1. index \in Nat /\ Len(completed) \in Nat /\ completed \in Seq(Steps) /\ index \in Steps
    BY StepFacts DEF TypeOK
  <1>2. CASE Begin \/ BeginStep \/ BackoffEnds \/ Finish
    BY <1>1, <1>2 DEF Begin, BeginStep, BackoffEnds, Finish, Phase, InOrder
  <1>3. CASE StepReturns
    <2>1. /\ Len(completed') = Len(completed) + 1
          /\ \A i \in 1 .. Len(completed) : completed'[i] = completed[i]
          /\ completed'[Len(completed) + 1] = index
      BY <1>1, <1>3 DEF StepReturns
    <2> QED BY <1>1, <1>3, <2>1, StepFacts DEF StepReturns, Phase, InOrder
  <1>4. CASE StepTimesOut \/ StepRaises
    BY <1>1, <1>4 DEF StepTimesOut, StepRaises, Retry, GiveUp, Phase, InOrder
  <1>5. CASE BeginUndo \/ UndoReturns \/ UndoFails \/ FinishUndo
    BY <1>1, <1>5 DEF BeginUndo, UndoReturns, UndoFails, FinishUndo, Phase, InOrder
  <1>6. CASE Answer \/ Crash
    BY <1>1, <1>6 DEF Answer, Crash, Phase, InOrder
  <1>7. ASSUME UNCHANGED <<coroutine, answer>> PROVE Phase' /\ InOrder'
    BY <1>7 DEF coroutine, Phase, InOrder
  <1>8. CASE ExpireRecord \/ Threads
    BY <1>7, <1>8 DEF ExpireRecord, Threads, ThreadReturns, ThreadRaises, UndoThreadReturns,
                      UndoThreadRaises, LateThread, LateUndoThread
  <1> QED BY <1>2, <1>3, <1>4, <1>5, <1>6, <1>8 DEF Next, Orchestrate

\* Every action keeps what the completed steps have done.
LEMMA StepKeepsForward == ASSUME IInv, Next PROVE Forward'
  <1> USE DEF IInv
  <1>1. /\ index \in Nat /\ Len(completed) \in Nat
        /\ completed \in Seq(Steps) /\ index \in Steps
        /\ stepState \in [Steps -> StepState]
    BY StepFacts DEF TypeOK
  <1>2. CASE Begin \/ BackoffEnds \/ Finish
    BY <1>1, <1>2 DEF Begin, BackoffEnds, Finish, Phase, database, abandoned, Forward,
        Unwinding, Visited
  <1>3. CASE BeginStep
    <2>1. \A i \in Steps : i # Len(completed) + 1 => stepState'[i] = stepState[i]
      BY <1>1, <1>3 DEF BeginStep
    <2>2. stepState'[Len(completed) + 1] \notin {"compensating", "compensated"}
      BY <1>1, <1>3, StepFacts DEF BeginStep
    <2>3. \A i \in 1 .. Len(completed) : i \in Steps /\ i # Len(completed) + 1
      BY PlaceFacts, StepFacts
    <2> QED BY <1>3, <2>1, <2>2, <2>3
        DEF BeginStep, Phase, database, abandoned, Forward, Unwinding, Visited
  <1>4. CASE StepReturns
    <2>1. Len(completed') = Len(completed) + 1 /\ index = Len(completed) + 1
      BY <1>1, <1>4 DEF StepReturns, InOrder
    <2> QED BY <1>1, <1>4, <2>1, StepFacts
        DEF StepReturns, Phase, database, abandoned, Forward, Unwinding, Visited
  <1>5. CASE StepTimesOut \/ StepRaises
    BY <1>1, <1>5, PlaceFacts DEF StepTimesOut, StepRaises, Retry, GiveUp, database,
        abandoned, Forward, Phase, InOrder, Unwinding, Visited
  <1>6. CASE BeginUndo \/ UndoReturns \/ UndoFails \/ FinishUndo
    BY <1>1, <1>6 DEF BeginUndo, UndoReturns, UndoFails, FinishUndo, Phase, InOrder,
        database, Forward, Unwinding
  <1>7. ASSUME NEW k \in Steps, effects' \in {effects, Inc(effects, k)},
               UNCHANGED <<coroutine, undone, lateUndo>>,
               pc = "await" /\ thread' = "returned" /\ index \notin Tolerant => effects'[index] > 0
        PROVE  Forward'
    <2>1. \A i \in Steps : effects[i] > 0 => effects'[i] > 0
      <3>1. \A i \in Steps : effects'[i] \in Nat /\ effects[i] <= effects'[i] /\ effects[i] \in Nat
        BY <1>7, MapFacts, GrowFacts
      <3> QED BY <3>1
    <2> QED BY <1>1, <1>7, <2>1, PlaceFacts, StepFacts
        DEF coroutine, Forward, Unwinding, Visited
  <1>8. CASE ThreadReturns
    <2>1. Inc(effects, index)[index] > 0
      BY MapFacts, CountFacts, IncFacts
    <2>2. effects' = Inc(effects, index) \/ index \in Tolerant
      BY <1>8 DEF ThreadReturns
    <2> QED BY <1>1, <1>7, <1>8, <2>1, <2>2 DEF ThreadReturns, abandoned
  <1>9. CASE ThreadRaises
    BY <1>1, <1>7, <1>9 DEF ThreadRaises, abandoned
  <1>10. ASSUME NEW k \in Steps, LateThread(k) PROVE Forward'
    <2>1. pc = "await" /\ thread = "returned" /\ index \notin Tolerant => effects'[index] > 0
      <3>1. effects'[index] \in Nat /\ effects[index] <= effects'[index] /\ effects[index] \in Nat
        BY <1>10, MapFacts, GrowFacts DEF LateThread
      <3> QED BY <3>1 DEF Forward
    <2> QED BY <1>7, <1>10, <2>1 DEF LateThread
  <1>11. CASE UndoThreadReturns \/ UndoThreadRaises
    BY <1>11 DEF UndoThreadReturns, UndoThreadRaises, Phase, Unwinding, coroutine, database,
        Forward
  <1>12. ASSUME NEW k \in Steps, LateUndoThread(k) PROVE Forward'
    BY <1>12 DEF LateUndoThread, Phase, Unwinding, coroutine, Forward
  <1>13. CASE ExpireRecord \/ Answer
    BY <1>13 DEF ExpireRecord, Answer, coroutine, database, abandoned, Forward, Unwinding,
        Visited
  <1>14. CASE Crash
    BY <1>14 DEF Crash, database, Forward, Unwinding, Visited
  <1> QED BY <1>2, <1>4, <1>5, <1>6, <1>8, <1>9, <1>10, <1>11, <1>12, <1>13, <1>14, <1>3
      DEF Next, Orchestrate, Threads

\* Every action keeps the split that the cursor makes.
LEMMA StepKeepsBackward == ASSUME IInv, Next PROVE Backward'
  <1> USE DEF IInv
  <1>1. stepState \in [Steps -> StepState] /\ index \in Steps
    BY DEF TypeOK
  <1>2. CASE Begin \/ BeginStep \/ StepReturns \/ BackoffEnds \/ Finish
    BY <1>2 DEF Begin, BeginStep, StepReturns, BackoffEnds, Finish, Phase, Backward, Unwinding
  <1>3. CASE StepTimesOut \/ StepRaises
    <2>1. CASE Retry
      BY <1>3, <2>1 DEF StepTimesOut, StepRaises, Retry, Phase, Backward, Unwinding
    <2>2. CASE GiveUp
      <3>1. \A i \in Steps : /\ undone'[i] = 0 /\ lateUndo'[i] = 0
                             /\ ~Visited(i)' /\ stepState'[i] # "compensated"
        BY <1>1, <1>3, <2>2 DEF StepTimesOut, StepRaises, GiveUp, database, abandoned, Phase,
            Forward, Unwinding, Visited
      <3>2. /\ state' = "compensating" /\ pc' = "unwind"
            /\ cursor' = Len(completed) /\ completed' = completed
        BY <1>3, <2>2 DEF StepTimesOut, StepRaises, GiveUp
      <3> QED BY <3>1, <3>2, PlaceFacts, CountFacts
          DEF Backward, AtCursor, Passed, Touched, Undone
    <2> QED BY <1>3, <2>1, <2>2 DEF StepTimesOut, StepRaises
  <1>4. CASE BeginUndo
    BY <1>1, <1>4, PlaceFacts, CountFacts DEF BeginUndo, database, abandoned, Phase,
        Backward, AtCursor, Passed, Touched, Undone, Unwinding, Visited
  <1>5. CASE UndoThreadReturns
    <2>1. /\ undone'[cursor] = undone[cursor] + 1
          /\ \A i \in Steps : i # cursor => undone'[i] = undone[i]
      <3>1. Undoing = cursor /\ cursor \in Steps
        BY <1>5, PlaceFacts DEF UndoThreadReturns
      <3>2. undone' = Inc(undone, cursor)
        BY <1>5, <3>1 DEF UndoThreadReturns
      <3> QED BY <3>1, <3>2, MapFacts, IncFacts
    <2>2. /\ pc = "undo" /\ thread' = "returned" /\ state = "compensating"
          /\ UNCHANGED <<state, pc, cursor, completed, stepState, lateUndo>>
      BY <1>5 DEF UndoThreadReturns, coroutine, abandoned, Phase
    <2>3. cursor \in Steps /\ AtCursor'
      BY <2>1, <2>2, PlaceFacts, CountFacts DEF Backward, Unwinding, AtCursor
    <2>4. ASSUME NEW i \in Steps PROVE Passed(i)' /\ Touched(i)' /\ Undone(i)'
      <3>1. Passed(i) /\ Touched(i) /\ Undone(i) /\ Visited(cursor) /\ cursor <= Len(completed)
        BY <2>2, PlaceFacts DEF Backward, Unwinding, AtCursor, Visited
      <3>2. i # cursor => undone'[i] = undone[i]
        BY <2>1
      <3> QED BY <2>1, <2>2, <2>3, <3>1, <3>2, CountFacts DEF Passed, Touched, Undone, Visited
    <2> QED BY <2>3, <2>4 DEF Backward
  <1>6. CASE UndoThreadRaises
    <2>1. \A i \in Steps : /\ undone'[i] \in Nat /\ undone'[i] >= undone[i]
                           /\ i # cursor => undone'[i] = undone[i]
      <3>1. Undoing = cursor /\ cursor \in Steps
        BY <1>6, PlaceFacts DEF UndoThreadRaises
      <3>2. undone' \in {undone, Inc(undone, cursor)}
        BY <1>6, <3>1 DEF UndoThreadRaises
      <3>3. undone \in [Steps -> Nat]
        BY MapFacts
      <3> QED BY <3>1, <3>2, <3>3, GrowFacts
    <2>2. /\ pc = "undo" /\ state = "compensating"
          /\ thread' = "returned" => cursor \in Swallows
          /\ UNCHANGED <<state, pc, cursor, completed, stepState, lateUndo>>
      <3>1. Undoing = cursor
        BY <1>6, PlaceFacts DEF UndoThreadRaises
      <3> QED BY <1>6, <3>1 DEF UndoThreadRaises, coroutine, abandoned, Phase
    <2>3. cursor \in Steps /\ AtCursor'
      BY <2>2, PlaceFacts DEF Backward, Unwinding, AtCursor
    <2>4. ASSUME NEW i \in Steps PROVE Passed(i)' /\ Touched(i)' /\ Undone(i)'
      <3>1. Passed(i) /\ Touched(i) /\ Undone(i) /\ Visited(cursor) /\ cursor <= Len(completed)
        BY <2>2, PlaceFacts DEF Backward, Unwinding, AtCursor, Visited
      <3> QED BY <2>1, <2>2, <2>3, <3>1, CountFacts DEF Passed, Touched, Undone, Visited
    <2> QED BY <2>3, <2>4 DEF Backward
  <1>7. CASE UndoReturns
    BY <1>1, <1>7, PlaceFacts, CountFacts DEF UndoReturns, database, abandoned, Phase,
        Backward, AtCursor, Passed, Touched, Undone, Unwinding, Visited
  <1>8. CASE UndoFails
    <2>1. \A i \in Steps : i # cursor => lateUndo'[i] = lateUndo[i]
      <3>1. Undoing = cursor /\ cursor \in Steps
        BY <1>8, PlaceFacts DEF UndoFails
      <3>2. lateUndo' \in {lateUndo, Inc(lateUndo, cursor)}
        BY <1>8, <3>1 DEF UndoFails
      <3> QED BY <3>1, <3>2, MapFacts, GrowFacts
    <2>2. /\ pc = "undo" /\ pc' = "unwind" /\ cursor' = cursor - 1 /\ state = "compensating"
          /\ UNCHANGED <<state, completed, stepState, undone>>
      BY <1>8 DEF UndoFails, database, Phase
    <2>3. cursor \in Steps /\ AtCursor'
      BY <1>8, <2>2, PlaceFacts DEF AtCursor
    <2>4. ASSUME NEW i \in Steps PROVE Passed(i)' /\ Touched(i)' /\ Undone(i)'
      <3>1. Passed(i) /\ Touched(i) /\ Undone(i) /\ Visited(cursor) /\ cursor <= Len(completed)
        BY <2>2, PlaceFacts DEF Backward, Unwinding, AtCursor, Visited
      <3> QED BY <2>1, <2>2, <2>3, <3>1, CountFacts DEF Passed, Touched, Undone, Visited
    <2> QED BY <2>3, <2>4 DEF Backward
  <1>9. CASE FinishUndo
    BY <1>9 DEF FinishUndo, database, abandoned, Phase, Backward, AtCursor, Passed, Touched,
        Undone, Unwinding, Visited
  <1>10. ASSUME NEW k \in Steps, LateUndoThread(k) PROVE Backward'
    <2>1. \A i \in Steps : /\ undone[i] <= undone'[i] /\ undone'[i] \in Nat
                           /\ i # k => undone'[i] = undone[i]
      BY <1>10, MapFacts, GrowFacts DEF LateUndoThread
    <2>2. \A i \in Steps : i # k => lateUndo'[i] = lateUndo[i]
      BY <1>10, MapFacts, DecFacts DEF LateUndoThread
    <2>3. Unwinding => Visited(k) /\ cursor <= k /\ k <= Len(completed)
      BY <1>10, CountFacts DEF LateUndoThread, Backward, Touched
    <2>4. UNCHANGED <<state, pc, cursor, completed, stepState, thread>>
      BY <1>10 DEF LateUndoThread, coroutine
    <2>5. \A i \in Steps : undone[i] > 0 => undone'[i] > 0
      BY <2>1, CountFacts
    <2>6. ASSUME Unwinding, NEW i \in Steps PROVE Passed(i)' /\ Touched(i)' /\ Undone(i)'
      <3>1. Passed(i) /\ Touched(i) /\ Undone(i)
        BY <2>6 DEF Backward
      <3>2. Passed(i)' /\ Undone(i)'
        BY <2>4, <2>5, <3>1 DEF Passed, Undone, Visited
      <3>3. Visited(i)' <=> Visited(i)
        BY <2>4 DEF Visited
      <3>4. CASE i = k
        BY <2>3, <2>4, <2>6, <3>2, <3>3, <3>4 DEF Touched
      <3>5. CASE i # k
        <4>1. undone'[i] = undone[i] /\ lateUndo'[i] = lateUndo[i]
          BY <2>1, <2>2, <3>5
        <4> QED BY <2>4, <3>1, <3>2, <3>3, <4>1 DEF Touched
      <3> QED BY <3>4, <3>5
    <2>7. ASSUME Unwinding PROVE AtCursor'
      BY <2>4, <2>5, <2>7, PlaceFacts, StepFacts DEF Backward, AtCursor
    <2> QED BY <2>4, <2>6, <2>7 DEF Backward, Unwinding
  <1>11. CASE Crash
    BY <1>11, CountFacts DEF Crash, database, Backward, AtCursor, Passed, Touched, Undone,
        Unwinding, Visited
  <1>12. CASE ThreadReturns \/ ThreadRaises \/ Answer \/ ExpireRecord
    BY <1>12 DEF ThreadReturns, ThreadRaises, Answer, ExpireRecord, coroutine, database,
        abandoned, Phase, Backward, AtCursor, Passed, Touched, Undone, Unwinding, Visited
  <1>13. ASSUME NEW k \in Steps, LateThread(k) PROVE Backward'
    BY <1>13 DEF LateThread, coroutine, Backward, AtCursor, Passed, Touched, Undone,
        Unwinding, Visited
  <1> QED BY <1>2, <1>3, <1>4, <1>5, <1>6, <1>7, <1>8, <1>9, <1>10, <1>11, <1>12, <1>13
      DEF Next, Orchestrate, Threads

\* Every action keeps the record behind the saga.
LEMMA StepKeepsRecord == ASSUME IInv, Next PROVE RecordNeverAhead'
  <1> USE DEF IInv
  <1>1. index \in Nat /\ Len(completed) \in Nat /\ state \in SagaState
    BY StepFacts DEF TypeOK
  <1>2. record # NoRecord => record.index \in Nat /\ record.state \in SagaState
    BY StepFacts DEF TypeOK, Record
  <1>3. ASSUME NEW i \in Nat, Persist(state', i), index <= i, index' = i,
               record # NoRecord => state' \in Follow(record.state), state' \in Follow(state')
        PROVE  RecordNeverAhead'
    BY <1>1, <1>2, <1>3 DEF Persist, RecordNeverAhead
  <1>4. ASSUME UNCHANGED <<state, index>>, record' \in {record, NoRecord} PROVE RecordNeverAhead'
    BY <1>4 DEF RecordNeverAhead
  <1>5. CASE Begin
    BY <1>1, <1>2, <1>3, <1>5 DEF Begin, Phase, RecordNeverAhead, Follow, SagaState
  <1>6. CASE BeginStep
    BY <1>1, <1>2, <1>3, <1>6 DEF BeginStep, Phase, InOrder, RecordNeverAhead, Follow, SagaState
  <1>7. CASE Finish \/ FinishUndo
    BY <1>1, <1>2, <1>3, <1>7 DEF Finish, FinishUndo, Phase, InOrder, RecordNeverAhead,
        Follow, SagaState
  <1>8. CASE StepTimesOut \/ StepRaises
    <2>1. CASE Retry
      BY <1>4, <1>8, <2>1 DEF StepTimesOut, StepRaises, Retry
    <2>2. CASE GiveUp
      BY <1>1, <1>2, <1>3, <1>8, <2>2 DEF StepTimesOut, StepRaises, GiveUp, Phase,
          RecordNeverAhead, Follow, SagaState
    <2> QED BY <1>8, <2>1, <2>2 DEF StepTimesOut, StepRaises
  <1>9. CASE StepReturns \/ BackoffEnds \/ BeginUndo \/ UndoReturns \/ UndoFails
             \/ Answer \/ Crash \/ ExpireRecord
    BY <1>4, <1>9 DEF StepReturns, BackoffEnds, BeginUndo, UndoReturns, UndoFails, Answer,
        Crash, ExpireRecord, coroutine
  <1>10. CASE Threads
    BY <1>4, <1>10 DEF Threads, ThreadReturns, ThreadRaises, UndoThreadReturns,
        UndoThreadRaises, LateThread, LateUndoThread, coroutine
  <1> QED BY <1>5, <1>6, <1>7, <1>8, <1>9, <1>10 DEF Next, Orchestrate
-----------------------------------------------------------------------------
(* Theorems. *)

\* The initial state satisfies the invariant.
LEMMA InitEstablishes == Init => IInv
  <1> SUFFICES ASSUME Init PROVE IInv
    OBVIOUS
  <1>1. TypeOK
    BY StepFacts DEF Init, TypeOK, SagaState, StepState
  <1>2. Phase /\ InOrder /\ RecordNeverAhead
    BY StepFacts DEF Init, Phase, InOrder, RecordNeverAhead
  <1>3. Attempts
    BY StepFacts DEF Init, Attempts, Spent, Current, Working
  <1>4. Forward /\ Backward
    BY DEF Init, Forward, Backward, Unwinding, Visited
  <1> QED BY <1>1, <1>2, <1>3, <1>4 DEF IInv

\* The strengthened invariant holds in every reachable state.
THEOREM Invariance == Spec => []IInv
  <1>1. Init => IInv
    BY InitEstablishes
  <1>2. IInv /\ [Next]_vars => IInv'
    <2> SUFFICES ASSUME IInv, [Next]_vars PROVE IInv'
      OBVIOUS
    <2>1. CASE Next
      BY <2>1, StepKeepsType, StepKeepsPlace, StepKeepsAttempts, StepKeepsForward,
         StepKeepsBackward, StepKeepsRecord DEF IInv
    <2>2. CASE UNCHANGED vars
      <3> USE <2>2 DEF vars, coroutine, database, abandoned, IInv
      <3>1. TypeOK' /\ Phase' /\ InOrder' /\ RecordNeverAhead'
        BY DEF TypeOK, Phase, InOrder, RecordNeverAhead
      <3>2. Attempts'
        BY DEF Attempts, Spent, Current, Working
      <3>3. Forward' /\ Backward'
        BY DEF Forward, Backward, AtCursor, Passed, Touched, Undone, Unwinding, Visited
      <3> QED BY <3>1, <3>2, <3>3
    <2> QED BY <2>1, <2>2
  <1> QED BY <1>1, <1>2, PTL DEF Spec

\* The variables keep their types, the loop variable of run() and the cursor of
\* _compensate their ranges (SagaStep.run, Saga._compensate).
THEOREM TypeCorrect == Spec => []TypeOK
  <1>1. IInv => TypeOK
    BY DEF IInv
  <1> QED BY <1>1, Invariance, PTL

\* A COMPLETED saga ran all its steps in order and undid none (Saga.execute).
THEOREM Completion == Spec => []CompletedMeansDone
  <1>1. IInv => CompletedMeansDone
    <2> SUFFICES ASSUME IInv, state = "completed" PROVE CompletedMeansDone
      BY DEF CompletedMeansDone
    <2>1. Len(completed) = N /\ completed \in Seq(Steps) /\ \A i \in 1 .. N : completed[i] = i
      BY DEF IInv, TypeOK, InOrder
    <2>2. completed = [i \in Steps |-> i]
      BY <2>1, StepFacts DEF Steps
    <2>3. \A i \in Steps : /\ stepState[i] = "completed" /\ undone[i] = 0
                           /\ i \notin Tolerant => effects[i] > 0
      BY <2>1, StepFacts DEF IInv, Forward, Unwinding
    <2> QED BY <2>2, <2>3 DEF CompletedMeansDone
  <1> QED BY <1>1, Invariance, PTL

\* Only completed steps are compensated, in reverse order (Saga._compensate).
THEOREM ReverseOrder == Spec => []UndoInReverse
  <1>1. IInv => UndoInReverse
    <2> SUFFICES ASSUME IInv, NEW i \in Steps, Visited(i) \/ undone[i] + lateUndo[i] > 0
                 PROVE  /\ Visited(i) /\ i <= Len(completed)
                        /\ \A j \in i + 1 .. Len(completed) : Visited(j)
      BY DEF UndoInReverse
    <2>1. Unwinding
      BY CountFacts DEF IInv, Forward
    <2>2. Visited(i) /\ cursor <= i /\ i <= Len(completed)
      BY <2>1 DEF IInv, Backward, Touched
    <2>3. ASSUME NEW j \in i + 1 .. Len(completed) PROVE Visited(j)
      <3>1. j \in Steps /\ cursor < j /\ j <= Len(completed)
        BY <2>2, <2>3, PlaceFacts, StepFacts DEF IInv
      <3> QED BY <2>1, <3>1 DEF IInv, Backward, Passed
    <2> QED BY <2>2, <2>3
  <1> QED BY <1>1, Invariance, PTL

\* A step takes effect at most max_retries + 1 times, threads that outlive
\* their timeout included (SagaStep.run).
THEOREM BoundedEffects == Spec => []EffectsBounded
  <1>1. IInv => EffectsBounded
    <2> SUFFICES ASSUME IInv, NEW i \in Steps PROVE Spent(i) <= MaxRetries + 1
      BY DEF EffectsBounded, Spent
    <2>1. Spent(i) <= retryCount[i] + 1 /\ Spent(i) \in Nat
      BY CountFacts DEF IInv, Attempts
    <2>2. retryCount[i] \in 0 .. MaxRetries
      BY DEF IInv, TypeOK
    <2> QED BY <2>1, <2>2, StepFacts
  <1> QED BY <1>1, Invariance, PTL

\* A COMPENSATED saga has undone every step that ran once and was compensated
\* without an error being swallowed (Saga._compensate).
THEOREM CleanUndo == Spec => []CleanStepsUndone
  <1>1. IInv => CleanStepsUndone
    <2> SUFFICES ASSUME IInv, state = "compensated", NEW i \in Steps, i <= Len(completed),
                        retryCount[i] = 0, stepState[i] # "compensating", i \notin Swallows
                 PROVE  effects[i] + late[i] <= undone[i]
      BY DEF CleanStepsUndone
    <2>1. Visited(i) /\ Undone(i)
      <3>1. Unwinding /\ cursor = 0
        BY DEF IInv, Backward, Unwinding, AtCursor
      <3> QED BY <3>1, StepFacts DEF IInv, Backward, Passed
    <2>2. undone[i] > 0 /\ undone[i] \in Nat
      BY <2>1, CountFacts DEF IInv, Visited, Undone
    <2>3. effects[i] + late[i] <= 1
      <3>1. Spent(i) <= 1
        BY CountFacts DEF IInv, Attempts
      <3> QED BY <3>1, CountFacts DEF IInv, Spent, Working
    <2> QED BY <2>2, <2>3, CountFacts DEF IInv
  <1> QED BY <1>1, Invariance, PTL

\* The record in Redis never runs ahead of the saga (Saga._persist_state).
THEOREM RecordLags == Spec => []RecordNeverAhead
  <1>1. IInv => RecordNeverAhead
    BY DEF IInv
  <1> QED BY <1>1, Invariance, PTL

\* Once compensation has started no step is started or completed again
\* (Saga.execute returns right after _compensate).
THEOREM NoWorkAfterGiveUp == Spec => NoStepAfterGiveUp
  <1>1. IInv /\ [Next]_vars => [Unwinding => NoNewWork]_vars
    <2> SUFFICES ASSUME IInv, Next, Unwinding PROVE NoNewWork
      OBVIOUS
    <2>1. CASE Begin \/ BeginStep \/ StepReturns \/ StepTimesOut \/ StepRaises \/ BackoffEnds
               \/ Finish \/ ThreadReturns \/ ThreadRaises
      BY <2>1 DEF Begin, BeginStep, StepReturns, StepTimesOut, StepRaises, BackoffEnds, Finish,
                  ThreadReturns, ThreadRaises, IInv, Phase, Unwinding
    <2>2. CASE BeginUndo \/ UndoReturns
      BY <2>2 DEF BeginUndo, UndoReturns, database, IInv, TypeOK, NoNewWork
    <2>3. CASE UndoThreadReturns \/ UndoThreadRaises \/ UndoFails \/ FinishUndo \/ Answer
               \/ Crash \/ ExpireRecord
      BY <2>3 DEF UndoThreadReturns, UndoThreadRaises, UndoFails, FinishUndo, Answer, Crash,
                  ExpireRecord, coroutine, database, NoNewWork
    <2>4. ASSUME NEW k \in Steps, LateThread(k) PROVE NoNewWork
      <3>1. effects' \in {effects, Inc(effects, k)} /\ late[k] # 0
        BY <2>4, CountFacts DEF LateThread, IInv
      <3>2. \A i \in Steps : i # k => effects'[i] = effects[i]
        BY <3>1, MapFacts, GrowFacts DEF IInv
      <3> QED BY <2>4, <3>1, <3>2 DEF LateThread, coroutine, NoNewWork
    <2>5. ASSUME NEW k \in Steps, LateUndoThread(k) PROVE NoNewWork
      BY <2>5 DEF LateUndoThread, coroutine, NoNewWork
    <2> QED BY <2>1, <2>2, <2>3, <2>4, <2>5 DEF Next, Orchestrate, Threads
  <1> QED BY <1>1, Invariance, PTL DEF Spec, NoStepAfterGiveUp

\* The orchestrator implements the contract: timeouts, retries, late threads,
\* lost records and crashes are steps the contract does not see.
THEOREM Implementation == Spec => KeepsContract
  <1>1. Init => Contract!Init
    BY DEF Init, Contract!Init, Unwinding
  <1>2. IInv /\ [Next]_vars => [Contract!Next]_(Contract!contract)
    <2> SUFFICES ASSUME IInv, [Next]_vars PROVE [Contract!Next]_(Contract!contract)
      OBVIOUS
    <2> USE DEF Contract!Next, Contract!contract
    <2>1. CASE Begin
      BY <2>1 DEF Begin, IInv, Phase, Unwinding, Contract!Start
    <2>2. CASE StepReturns
      <3>1. Len(completed') = Len(completed) + 1
        BY <2>2 DEF StepReturns, IInv, TypeOK
      <3>2. Len(completed) < N
        BY <2>2, CountFacts, PlaceFacts, StepFacts DEF StepReturns, IInv, InOrder
      <3> QED BY <2>2, <3>1, <3>2 DEF StepReturns, IInv, Phase, Unwinding, Contract!Complete
    <2>3. CASE StepTimesOut \/ StepRaises
      <3>1. Len(completed) < N /\ state = "running"
        BY <2>3, CountFacts, PlaceFacts, StepFacts DEF StepTimesOut, StepRaises, IInv, Phase,
            InOrder
      <3>2. CASE Retry
        BY <2>3, <3>1, <3>2 DEF StepTimesOut, StepRaises, Retry, Unwinding
      <3>3. CASE GiveUp
        BY <2>3, <3>1, <3>3 DEF StepTimesOut, StepRaises, GiveUp, Unwinding, Contract!Fail
      <3> QED BY <2>3, <3>2, <3>3 DEF StepTimesOut, StepRaises
    <2>4. CASE Finish
      BY <2>4 DEF Finish, IInv, Phase, Unwinding, Contract!Succeed
    <2>5. CASE UndoReturns \/ UndoFails
      BY <2>5, PlaceFacts DEF UndoReturns, UndoFails, IInv, Phase, Unwinding,
          Contract!Compensate
    <2>6. CASE FinishUndo
      BY <2>6 DEF FinishUndo, IInv, Phase, Unwinding, Contract!Settle
    <2>7. CASE Answer
      BY <2>7 DEF Answer, IInv, Phase, Unwinding, Contract!Tell
    <2>8. CASE BeginStep \/ BackoffEnds \/ BeginUndo \/ Crash
      BY <2>8 DEF BeginStep, BackoffEnds, BeginUndo, Crash, Unwinding
    <2>9. CASE Threads \/ ExpireRecord
      BY <2>9 DEF Threads, ExpireRecord, ThreadReturns, ThreadRaises, UndoThreadReturns,
                  UndoThreadRaises, LateThread, LateUndoThread, coroutine, Unwinding
    <2>10. CASE UNCHANGED vars
      BY <2>10 DEF vars, coroutine, Unwinding
    <2> QED BY <2>1, <2>2, <2>3, <2>4, <2>5, <2>6, <2>7, <2>8, <2>9, <2>10
        DEF Next, Orchestrate
  <1> QED BY <1>1, <1>2, Invariance, PTL DEF Spec, KeepsContract, Contract!Spec

=============================================================================
