------------------------------- MODULE Gateway -------------------------------
(***************************************************************************)
(* The gateway: the rate limits a request has to pass, and the calls to    *)
(* services that a view makes.  Both are in gateway/middleware.py and keep *)
(* their counters, records and positions in one Redis, under keys of their *)
(* own, so they share no state: a behaviour exercises one of them.         *)
(***************************************************************************)
EXTENDS RateLimiter, GatewayCall

VARIABLE part   \* what the behaviour exercises

vars == <<limiterVars, callVars, part>>

Init == LimiterInit /\ CallInit /\ part \in {"limits", "calls"}

OfLimits(A) == part = "limits" /\ A /\ UNCHANGED <<callVars, part>>
OfCalls(A)  == part = "calls" /\ A /\ UNCHANGED <<limiterVars, part>>

Next == OfLimits(LimiterNext) \/ OfCalls(CallNext)

(* Redis drops a key when its time is over; a check that has begun goes on.   *)
(* A request to a service has a timeout and a thread that can go on does.     *)
(* The lock of a breaker is not handed on in order: that a thread which waits *)
(* gets it in the end is assumed, and is strong fairness.                     *)
Fairness ==
  /\ \A k \in Keys : WF_vars(OfLimits(ExpireKey(k)))
  /\ \A w \in Workers : WF_vars(OfLimits(Read(w) \/ Write(w)))
  /\ \A c \in Callers : SF_vars(OfCalls(Execute(c)))

Spec == Init /\ [][Next]_vars /\ Fairness
=============================================================================
