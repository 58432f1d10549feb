----------------------------- MODULE Resilience -----------------------------
(***************************************************************************)
(* The resilience patterns of one process: a circuit breaker under the     *)
(* calls of several threads, and the caller that puts timeout, bulkhead    *)
(* and retries around a function.  In the caller the breaker's answer is   *)
(* left open, so the two do not share state: a behaviour exercises one.    *)
(***************************************************************************)
EXTENDS CircuitBreaker, ResilientCall

VARIABLE part   \* what the behaviour exercises

resilienceVars == <<vars, callVars, part>>

ResilienceInit == Init /\ CallInit /\ part \in {"breaker", "caller"}

OfBreaker(A) == part = "breaker" /\ A /\ UNCHANGED <<callVars, part>>
OfCaller(A)  == part = "caller" /\ A /\ UNCHANGED <<vars, part>>

ResilienceNext == OfBreaker(Next) \/ OfCaller(CallNext)

(* Time passes, requests keep coming to the breaker and every call of it      *)
(* returns, as FairSpec of CircuitBreaker has it.  Threads go on and an alarm *)
(* that is set goes off; a function that the caller calls need not end.       *)
Fairness ==
  /\ WF_resilienceVars(OfBreaker(Tick))
  /\ \A c \in Callers : WF_resilienceVars(OfBreaker(Call(c)))
                        /\ WF_resilienceVars(OfBreaker(Return(c)))
  /\ WF_resilienceVars(OfCaller(Fire))
  /\ \A t \in Threads : WF_resilienceVars(OfCaller(Step(t)))

ResilienceSpec == ResilienceInit /\ [][ResilienceNext]_resilienceVars /\ Fairness
=============================================================================
