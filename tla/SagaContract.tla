---------------------------- MODULE SagaContract ----------------------------
(***************************************************************************)
(* What the orchestrator of saga/patterns.py promises, retries, threads,   *)
(* timeouts and persistence left out: the steps complete one at a time and *)
(* the saga is COMPLETED only after the last; a step that fails turns the  *)
(* saga round for good, and it is COMPENSATED only after every completed   *)
(* step has had its turn; the caller is told nothing before the outcome,   *)
(* and nothing changes after it.                                           *)
(***************************************************************************)
EXTENDS Naturals

CONSTANT N       \* number of steps

VARIABLES
  phase,         \* the state of the saga
  done,          \* completed steps that have not had their compensation
  told           \* whether the caller has its answer

contract == <<phase, done, told>>

Init ==
  /\ phase = "started"
  /\ done = 0
  /\ told = FALSE

Start ==
  /\ phase = "started"
  /\ phase' = "running"
  /\ UNCHANGED <<done, told>>

Complete ==
  /\ phase = "running"
  /\ done < N
  /\ done' = done + 1
  /\ UNCHANGED <<phase, told>>

Succeed ==
  /\ phase = "running"
  /\ done = N
  /\ phase' = "completed"
  /\ UNCHANGED <<done, told>>

Fail ==
  /\ phase = "running"
  /\ done < N
  /\ phase' = "compensating"
  /\ UNCHANGED <<done, told>>

Compensate ==
  /\ phase = "compensating"
  /\ done > 0
  /\ done' = done - 1
  /\ UNCHANGED <<phase, told>>

Settle ==
  /\ phase = "compensating"
  /\ done = 0
  /\ phase' = "compensated"
  /\ UNCHANGED <<done, told>>

Tell ==
  /\ phase \in {"completed", "compensated"}
  /\ ~told
  /\ told' = TRUE
  /\ UNCHANGED <<phase, done>>

Next == Start \/ Complete \/ Succeed \/ Fail \/ Compensate \/ Settle \/ Tell

Spec == Init /\ [][Next]_contract
=============================================================================
