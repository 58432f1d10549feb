-------------------------- MODULE ResilienceProofs --------------------------
(***************************************************************************)
(* Proofs about the two parts of Resilience.                               *)
(* The circuit breaker, for any number of callers, any thresholds, timeout *)
(* and window, and any changes published by other processes: the invariant *)
(* says of the fields what CountsFitState says, bounds failure_count of a  *)
(* CLOSED breaker by the failed results counted since it was closed, and   *)
(* says that only an OPEN breaker is published with failures.              *)
(* The resilient caller, for any number of threads, permits and attempts,  *)
(* interrupted anywhere: the invariant says who may stand between the two  *)
(* statements that set and restore the handler of the alarm: only the main *)
(* thread, and as long as no handler was left behind the handler is a      *)
(* call's own exactly there.                                               *)
(***************************************************************************)
EXTENDS Resilience, FiniteSetTheorems, TLAPS

-----------------------------------------------------------------------------
(* The circuit breaker. *)

\* The fields of a breaker that are fit for its state.
Fit(b) ==
  /\ b \in Breaker
  /\ Len(b.window) <= WindowSize
  /\ b.state = "half_open" => b.failures = 0 /\ b.successes < SuccessThreshold
  /\ b.state # "half_open" => b.successes = 0

\* A CLOSED breaker has counted no more failures than have arrived since.
Explained(b, n) == b.state = "closed" => b.failures <= n \/ n = FailureThreshold

\* What a record in Redis may say.
FitNews == news # NoNews => news \in News /\ (news.state # "open" => news.failures = 0)

Others ==
  /\ calling \in [Callers -> Age \union {Idle}]
  /\ news \in News \union {NoNews}
  /\ published \in 0 .. MaxNews
  /\ healthy \in BOOLEAN
  /\ failed \in 0 .. FailureThreshold

IInv ==
  /\ Others
  /\ Fit(breaker)
  /\ Explained(breaker, failed)
  /\ FitNews

-----------------------------------------------------------------------------
(* The operators on the fields of a breaker. *)

\* Recording a call changes the window only, and keeps it within its size.
LEMMA RememberFit ==
  ASSUME NEW b, Fit(b), NEW o \in {"success", "failure", "rejected"}
  PROVE  /\ Fit(Remember(b, o))
         /\ Remember(b, o).state = b.state
         /\ Remember(b, o).failures = b.failures
         /\ Remember(b, o).successes = b.successes
<1> DEFINE longer == Append(b.window, o)
           kept   == IF Len(longer) > WindowSize THEN Tail(longer) ELSE longer
<1>1. b.window \in Seq({"success", "failure", "rejected"}) /\ Len(b.window) <= WindowSize
  BY DEF Fit, Breaker
<1>2. /\ longer \in Seq({"success", "failure", "rejected"})
      /\ Len(longer) = Len(b.window) + 1
  BY <1>1
<1>3. WindowSize \in Nat /\ Len(b.window) \in Nat
  BY <1>1, BreakerConstants
<1>4. kept \in Seq({"success", "failure", "rejected"}) /\ Len(kept) <= WindowSize
  <2>1. CASE Len(longer) > WindowSize
    <3> HIDE DEF longer
    <3>1. longer # << >>
      BY <1>2, <1>3
    <3>2. /\ Tail(longer) \in Seq({"success", "failure", "rejected"})
          /\ Len(Tail(longer)) = Len(longer) - 1
      BY <1>2, <3>1
    <3> QED
      BY <1>1, <1>2, <1>3, <2>1, <3>2
  <2>2. CASE ~(Len(longer) > WindowSize)
    BY <1>2, <1>3, <2>2
  <2> QED
    BY <2>1, <2>2
<1>5. Remember(b, o) = [b EXCEPT !.window = kept]
  BY DEF Remember
<1> HIDE DEF kept, longer
<1> QED
  BY <1>4, <1>5 DEF Fit, Breaker

\* Every transition leaves fields that fit the new state.
LEMMA TransitionsFit ==
  ASSUME NEW b, Fit(b)
  PROVE  /\ Fit(ToOpen(b)) /\ ToOpen(b).state = "open"
         /\ Fit(ToHalfOpen(b)) /\ ToHalfOpen(b).state = "half_open"
         /\ Fit(ToClosed(b)) /\ ToClosed(b).state = "closed" /\ ToClosed(b).failures = 0
<1>1. SuccessThreshold \in Nat \ {0} /\ Timeout \in Nat
  BY BreakerConstants
<1>2. 0 \in Age
  BY <1>1 DEF Age
<1>3. Fit(ToOpen(b)) /\ ToOpen(b).state = "open"
  BY <1>1, <1>2 DEF Fit, Breaker, ToOpen, BreakerState
<1>4. Fit(ToHalfOpen(b)) /\ ToHalfOpen(b).state = "half_open"
  <2>1. /\ ToHalfOpen(b) \in Breaker
        /\ ToHalfOpen(b).state = "half_open"
        /\ ToHalfOpen(b).failures = 0
        /\ ToHalfOpen(b).successes = 0
        /\ ToHalfOpen(b).window = b.window
    BY <1>2 DEF Fit, Breaker, ToHalfOpen, BreakerState
  <2> QED
    BY <1>1, <2>1 DEF Fit
<1>5. Fit(ToClosed(b)) /\ ToClosed(b).state = "closed" /\ ToClosed(b).failures = 0
  BY <1>1, <1>2 DEF Fit, Breaker, ToClosed, BreakerState
<1> QED
  BY <1>3, <1>4, <1>5

\* A breaker as a call sees it, synchronised with Redis or not.
LEMMA SeenFit ==
  ASSUME IInv, NEW seen \in Seen
  PROVE  /\ Fit(seen) /\ Explained(seen, failed)
         /\ breaker.state # "closed" /\ seen.state = "closed" => seen.failures = 0
<1>1. CASE seen = breaker
  BY <1>1 DEF IInv
<1>2. CASE news # NoNews /\ seen = Adopt(breaker)
  <2>1. news \in News /\ (news.state # "open" => news.failures = 0) /\ Fit(breaker)
    BY <1>2 DEF IInv, FitNews
  <2>2. SuccessThreshold \in Nat \ {0} /\ failed \in Nat
    BY BreakerConstants DEF IInv, Others
  <2>3. /\ seen.state = news.state
        /\ seen.failures = news.failures
        /\ seen.successes = 0
        /\ seen.window = breaker.window
        /\ seen \in Breaker
    BY <1>2, <2>1 DEF Adopt, Fit, Breaker, News
  <2> QED
    BY <2>1, <2>2, <2>3 DEF Fit, Explained, News
<1> QED
  BY <1>1, <1>2 DEF Seen

\* What call() makes of the breaker it sees.
LEMMA EnterFit ==
  ASSUME NEW b, Fit(b), NEW n \in 0 .. FailureThreshold, Explained(b, n)
  PROVE  /\ Fit(Enter(b))
         /\ Explained(Enter(b), n)
         /\ Enter(b).state = "closed" => Enter(b) = b
<1>1. b.state = "half_open" => b.failures = 0 /\ b.successes < SuccessThreshold
  BY DEF Fit
<1>2. SuccessThreshold \in Nat /\ (b.state = "half_open" => b.successes \in Nat)
  BY BreakerConstants DEF Fit, Breaker
<1>3. Enter(b) = IF b.state = "open" /\ Due(b) THEN ToHalfOpen(b) ELSE b
  BY <1>1, <1>2 DEF Enter
<1> QED
  BY <1>3, TransitionsFit DEF Explained

\* The counts after a success.
LEMMA AfterSuccessFit ==
  ASSUME NEW b, Fit(b), NEW n \in 0 .. FailureThreshold, Explained(b, n)
  PROVE  /\ Fit(AfterSuccess(b))
         /\ AfterSuccess(b).state = b.state => Explained(AfterSuccess(b), n)
         /\ AfterSuccess(b).state # b.state =>
              AfterSuccess(b).state = "closed" /\ AfterSuccess(b).failures = 0
<1>1. /\ b \in Breaker /\ b.failures \in Nat /\ b.successes \in Nat
      /\ SuccessThreshold \in Nat /\ FailureThreshold \in Nat
  BY BreakerConstants DEF Fit, Breaker
<1>2. CASE b.state = "closed"
  <2> DEFINE less == IF b.failures > 0 THEN b.failures - 1 ELSE 0
  <2>1. less \in Nat /\ less <= b.failures
    BY <1>1
  <2>2. AfterSuccess(b) = [b EXCEPT !.failures = less]
    BY <1>2 DEF AfterSuccess
  <2> HIDE DEF less
  <2>3. Fit(AfterSuccess(b))
    BY <1>2, <2>1, <2>2 DEF Fit, Breaker
  <2>4. AfterSuccess(b).state = b.state /\ AfterSuccess(b).failures = less
    BY <1>1, <2>2 DEF Breaker
  <2> QED
    BY <1>1, <2>1, <2>3, <2>4 DEF Explained
<1>3. CASE b.state = "half_open"
  <2>1. CASE b.successes + 1 >= SuccessThreshold
    BY <1>3, <2>1, TransitionsFit DEF AfterSuccess, Explained
  <2>2. CASE ~(b.successes + 1 >= SuccessThreshold)
    <3>1. AfterSuccess(b) = [b EXCEPT !.successes = b.successes + 1]
      BY <1>3, <2>2 DEF AfterSuccess
    <3> QED
      BY <1>1, <1>3, <2>2, <3>1 DEF Fit, Breaker, Explained
  <2> QED
    BY <2>1, <2>2
<1>4. CASE b.state = "open"
  BY <1>4 DEF AfterSuccess
<1> QED
  BY <1>1, <1>2, <1>3, <1>4 DEF Breaker, BreakerState

\* The counts after a failure; a CLOSED breaker opens only at the threshold.
LEMMA AfterFailureFit ==
  ASSUME NEW b, Fit(b), NEW age \in Age
  PROVE  /\ Fit(AfterFailure(b, age))
         /\ AfterFailure(b, age).state = "closed" =>
              b.state = "closed" /\ AfterFailure(b, age).failures = b.failures + 1
         /\ b.state = "closed" /\ AfterFailure(b, age).state = "open" =>
              b.failures + 1 >= FailureThreshold
<1> DEFINE counted == [b EXCEPT !.failures = @ + 1, !.failure = age]
           opens   == \/ b.state = "closed" /\ ShouldTrip(counted)
                      \/ b.state = "half_open"
<1>1. AfterFailure(b, age) = IF opens THEN ToOpen(counted) ELSE counted
  BY DEF AfterFailure
<1>2. b \in Breaker /\ b.failures \in Nat /\ b.state \in BreakerState
  BY DEF Fit, Breaker
<1>3. /\ counted \in Breaker
      /\ counted.state = b.state
      /\ counted.failures = b.failures + 1
      /\ counted.successes = b.successes
      /\ counted.window = b.window
  <2>1. b.failures + 1 \in Nat /\ age \in Age \union {Never}
    BY <1>2
  <2> DEFINE more == b.failures + 1
  <2>2. counted = [b EXCEPT !.failures = more, !.failure = age]
    OBVIOUS
  <2> HIDE DEF more
  <2>3. more \in Nat
    BY <2>1 DEF more
  <2>4. /\ counted \in Breaker
        /\ counted.state = b.state
        /\ counted.failures = more
        /\ counted.successes = b.successes
        /\ counted.window = b.window
    BY <1>2, <2>1, <2>2, <2>3 DEF Breaker
  <2> QED
    BY <2>4 DEF more
<1>4. opens /\ b.state = "closed" => b.failures + 1 >= FailureThreshold
  BY <1>3 DEF ShouldTrip
<1> HIDE DEF counted
<1>5. 0 \in Age
  BY BreakerConstants DEF Age
<1>6. CASE opens
  <2>1. AfterFailure(b, age) = ToOpen(counted)
    BY <1>1, <1>6
  <2>2. Fit(ToOpen(counted)) /\ ToOpen(counted).state = "open"
    BY <1>3, <1>5 DEF Fit, Breaker, ToOpen, BreakerState
  <2> QED
    BY <1>4, <1>6, <2>1, <2>2
<1>7. CASE ~opens
  <2>1. AfterFailure(b, age) = counted
    BY <1>1, <1>7
  <2>2. b.state # "half_open"
    BY <1>7
  <2> QED
    BY <1>2, <1>3, <2>1, <2>2 DEF Fit, BreakerState
<1> QED
  BY <1>6, <1>7

\* A tick keeps an age an age, and leaves everything else as it is.
LEMMA OlderAge ==
  ASSUME NEW a
  PROVE  /\ a \in Age => Older(a) \in Age
         /\ a \in Age \union {Never} => Older(a) \in Age \union {Never}
         /\ a \in Age \union {Idle} => Older(a) \in Age \union {Idle}
         /\ a \in Age => Older(a) # Idle
         /\ a = Idle => Older(a) = Idle
<1>1. Timeout \in Nat /\ Idle \notin Nat /\ Never \notin Nat
  BY BreakerConstants
<1>2. a \in Age => Older(a) \in Age
  BY <1>1 DEF Older, Age
<1>3. a \notin Age => Older(a) = a
  BY <1>1 DEF Older, Age
<1>4. Idle \notin Age
  BY <1>1 DEF Age
<1> QED
  BY <1>2, <1>3, <1>4

-----------------------------------------------------------------------------
(* The invariant. *)

LEMMA InitInv == Init => IInv
<1> SUFFICES ASSUME Init PROVE IInv
  OBVIOUS
<1>1. /\ FailureThreshold \in Nat \ {0} /\ SuccessThreshold \in Nat \ {0}
      /\ Timeout \in Nat \ {0} /\ WindowSize \in Nat \ {0} /\ MaxNews \in Nat
  BY BreakerConstants
<1>2. 0 \in Age /\ 0 \in 0 .. FailureThreshold /\ 0 \in 0 .. MaxNews
  BY <1>1 DEF Age
<1>3. Others /\ FitNews
  BY <1>2 DEF Init, Others, FitNews
<1>4. << >> \in Seq({"success", "failure", "rejected"}) /\ Len(<< >>) = 0
  OBVIOUS
<1>5. breaker \in Breaker /\ breaker.window = << >>
  BY <1>2, <1>4 DEF Init, Breaker, BreakerState
<1>6. Fit(breaker)
  BY <1>1, <1>4, <1>5 DEF Init, Fit
<1>7. Explained(breaker, failed)
  BY <1>1 DEF Init, Explained
<1> QED
  BY <1>3, <1>6, <1>7 DEF IInv

\* The record in Redis stays as it was or is forgotten.
LEMMA OutdateFit ==
  ASSUME IInv, NEW seen, Outdate(seen)
  PROVE  news' \in News \union {NoNews} /\ FitNews'
BY DEF Outdate, IInv, Others, FitNews

\* The failures counted since the breaker was closed, after a step that leaves a
\* CLOSED breaker with a count that n explains.
LEMMA CountFit ==
  ASSUME NEW n \in 0 .. FailureThreshold, Count(n),
         breaker.state # "closed" /\ breaker'.state = "closed" => breaker'.failures = 0,
         breaker.state = "closed" => Explained(breaker', n)
  PROVE  failed' \in 0 .. FailureThreshold /\ Explained(breaker', failed')
<1>1. FailureThreshold \in Nat
  BY BreakerConstants
<1>2. CASE breaker.state # "closed" /\ breaker'.state = "closed"
  BY <1>1, <1>2 DEF Count, Explained
<1>3. CASE ~(breaker.state # "closed" /\ breaker'.state = "closed")
  <2>1. failed' = n
    BY <1>3 DEF Count
  <2> QED
    BY <1>1, <1>3, <2>1 DEF Explained
<1> QED
  BY <1>2, <1>3

\* Every step preserves the invariant.
LEMMA NextInv == IInv /\ [Next]_vars => IInv'
<1> SUFFICES ASSUME IInv, [Next]_vars PROVE IInv'
  OBVIOUS
<1>1. /\ Fit(breaker) /\ Explained(breaker, failed) /\ FitNews
      /\ calling \in [Callers -> Age \union {Idle}]
      /\ news \in News \union {NoNews}
      /\ published \in 0 .. MaxNews
      /\ healthy \in BOOLEAN
      /\ failed \in 0 .. FailureThreshold
  BY DEF IInv, Others
<1>2. /\ FailureThreshold \in Nat \ {0} /\ Timeout \in Nat \ {0} /\ 0 \in Age
      /\ MaxNews \in Nat
  BY BreakerConstants DEF Age
<1>3. ASSUME NEW c \in Callers, Admit(c) PROVE IInv'
  <2>1. PICK seen \in Seen : Enter(seen).state # "open" /\ breaker' = Enter(seen) /\ Outdate(seen)
    BY <1>3 DEF Admit
  <2>2. /\ Fit(seen) /\ Explained(seen, failed)
        /\ breaker.state # "closed" /\ seen.state = "closed" => seen.failures = 0
    BY SeenFit
  <2>3. /\ Fit(breaker') /\ Explained(breaker', failed)
        /\ breaker'.state = "closed" => breaker' = seen
    BY <1>1, <2>1, <2>2, EnterFit
  <2>4. news' \in News \union {NoNews} /\ FitNews'
    BY <2>1, OutdateFit
  <2>5. calling' \in [Callers -> Age \union {Idle}] /\ healthy' \in BOOLEAN /\ published' \in 0 .. MaxNews /\ Count(failed)
    BY <1>1, <1>2, <1>3 DEF Admit
  <2>6. failed' \in 0 .. FailureThreshold /\ Explained(breaker', failed')
    BY <1>1, <2>2, <2>3, <2>5, CountFit
  <2> QED
    BY <2>3, <2>4, <2>5, <2>6 DEF IInv, Others
<1>4. ASSUME NEW c \in Callers, Refuse(c) PROVE IInv'
  <2>1. PICK seen \in Seen :
          /\ Enter(seen).state = "open"
          /\ breaker' = IF seen.state = "open" THEN Remember(seen, "rejected") ELSE Enter(seen)
          /\ Outdate(seen)
    BY <1>4 DEF Refuse
  <2>2. Fit(seen) /\ Explained(seen, failed)
    BY SeenFit
  <2>3. Fit(breaker') /\ breaker'.state = "open"
    BY <1>1, <2>1, <2>2, EnterFit, RememberFit
  <2>4. news' \in News \union {NoNews} /\ FitNews'
    BY <2>1, OutdateFit
  <2>5. UNCHANGED <<calling, published, healthy, failed>>
    BY <1>4 DEF Refuse
  <2> QED
    BY <1>1, <2>3, <2>4, <2>5 DEF IInv, Others, Explained
<1>5. ASSUME NEW c \in Callers, Succeed(c) PROVE IInv'
  <2> DEFINE b == Remember(breaker, "success")
  <2>1. /\ Fit(b) /\ b.state = breaker.state /\ b.failures = breaker.failures
    BY <1>1, RememberFit
  <2>2. Explained(b, failed)
    BY <1>1, <2>1 DEF Explained
  <2>3. breaker' = AfterSuccess(b) /\ Outdate(breaker) /\ Count(failed) /\ Ends(c)
    BY <1>5 DEF Succeed
  <2> HIDE DEF b
  <2>4. /\ Fit(breaker')
        /\ breaker'.state = b.state => Explained(breaker', failed)
        /\ breaker'.state # b.state => breaker'.state = "closed" /\ breaker'.failures = 0
    BY <1>1, <2>1, <2>2, <2>3, AfterSuccessFit
  <2>5. failed' \in 0 .. FailureThreshold /\ Explained(breaker', failed')
    BY <1>1, <2>1, <2>3, <2>4, CountFit
  <2>6. news' \in News \union {NoNews} /\ FitNews'
    BY <2>3, OutdateFit
  <2>7. calling' \in [Callers -> Age \union {Idle}] /\ healthy' \in BOOLEAN
       /\ published' \in 0 .. MaxNews
    BY <1>1, <2>3 DEF Ends
  <2> QED
    BY <2>4, <2>5, <2>6, <2>7 DEF IInv, Others
<1>6. ASSUME NEW c \in Callers, Fail(c) PROVE IInv'
  <2> DEFINE b == Remember(breaker, "failure")
             n == IF failed < FailureThreshold THEN failed + 1 ELSE failed
  <2>1. /\ Fit(b) /\ b.state = breaker.state /\ b.failures = breaker.failures
    BY <1>1, RememberFit
  <2>2. breaker' = AfterFailure(b, calling[c]) /\ Outdate(breaker) /\ Count(n) /\ Ends(c)
    BY <1>6 DEF Fail
  <2>3. calling[c] \in Age
    BY <1>1, <2>2 DEF Ends
  <2>4. n \in 0 .. FailureThreshold /\ (n = failed + 1 \/ n = FailureThreshold)
    BY <1>1, <1>2
  <2> HIDE DEF b, n
  <2>5. /\ Fit(breaker')
        /\ breaker'.state = "closed" =>
             b.state = "closed" /\ breaker'.failures = b.failures + 1
    BY <2>1, <2>2, <2>3, AfterFailureFit
  <2>6. Explained(breaker', n)
    <3>1. breaker.failures \in Nat
      BY <1>1 DEF Fit, Breaker
    <3> QED
      BY <1>1, <1>2, <2>1, <2>4, <2>5, <3>1 DEF Explained
  <2>7. failed' \in 0 .. FailureThreshold /\ Explained(breaker', failed')
    BY <2>1, <2>2, <2>4, <2>5, <2>6, CountFit
  <2>8. news' \in News \union {NoNews} /\ FitNews'
    BY <2>2, OutdateFit
  <2>9. calling' \in [Callers -> Age \union {Idle}] /\ healthy' \in BOOLEAN
       /\ published' \in 0 .. MaxNews
    BY <1>1, <2>2 DEF Ends
  <2> QED
    BY <2>5, <2>7, <2>8, <2>9 DEF IInv, Others
<1>7. ASSUME NEW c \in Callers, Abort(c) PROVE IInv'
  BY <1>1, <1>7 DEF Abort, Ends, IInv, Others, FitNews, Explained
<1>8. CASE PublishElsewhere
  <2>1. PICK s \in RemoteStates, n \in 0 .. FailureThreshold, f \in Age \union {Never} :
          /\ s # "open" => n = 0
          /\ news' = [state |-> s, failures |-> n, failure |-> f, change |-> 0]
    BY <1>8 DEF PublishElsewhere
  <2>2. s \in BreakerState /\ n \in Nat
    BY <1>2, BreakerConstants
  <2>3. news' \in News /\ (news'.state # "open" => news'.failures = 0)
    BY <1>2, <2>1, <2>2 DEF News
  <2>4. UNCHANGED <<breaker, calling, healthy, failed>> /\ published' \in 0 .. MaxNews
    BY <1>1, <1>2, <1>8 DEF PublishElsewhere
  <2> QED
    BY <1>1, <2>3, <2>4 DEF IInv, Others, FitNews, Explained
<1>9. CASE Tick
  <2>1. /\ breaker' = [breaker EXCEPT !.failure = Older(@), !.change = Older(@)]
        /\ calling' = [c \in Callers |-> Older(calling[c])]
        /\ news' = IF news = NoNews THEN NoNews
                   ELSE [news EXCEPT !.failure = Older(@), !.change = Older(@)]
        /\ UNCHANGED <<published, healthy, failed>>
    BY <1>9 DEF Tick
  <2>2. /\ Fit(breaker')
        /\ breaker'.state = breaker.state
        /\ breaker'.failures = breaker.failures
    <3>1. breaker \in Breaker
      BY <1>1 DEF Fit
    <3>2. Older(breaker.failure) \in Age \union {Never} /\ Older(breaker.change) \in Age
      BY <3>1, OlderAge DEF Breaker
    <3>3. /\ breaker' \in Breaker
          /\ breaker'.state = breaker.state
          /\ breaker'.failures = breaker.failures
          /\ breaker'.successes = breaker.successes
          /\ breaker'.window = breaker.window
      BY <2>1, <3>1, <3>2 DEF Breaker
    <3> QED
      BY <1>1, <3>3 DEF Fit
  <2>3. calling' \in [Callers -> Age \union {Idle}]
    BY <1>1, <2>1, OlderAge
  <2>4. news' \in News \union {NoNews} /\ FitNews'
    <3>1. CASE news = NoNews
      BY <2>1, <3>1 DEF FitNews
    <3>2. CASE news # NoNews
      <4>1. news \in News /\ (news.state # "open" => news.failures = 0)
        BY <1>1, <3>2 DEF FitNews
      <4>2. Older(news.failure) \in Age \union {Never} /\ Older(news.change) \in Age
        BY <4>1, OlderAge DEF News
      <4>3. /\ news' \in News
            /\ news'.state = news.state
            /\ news'.failures = news.failures
        BY <2>1, <3>2, <4>1, <4>2 DEF News
      <4> QED
        BY <4>1, <4>3 DEF FitNews
    <3> QED
      BY <3>1, <3>2
  <2> QED
    BY <1>1, <2>1, <2>2, <2>3, <2>4 DEF IInv, Others, Explained
<1>10. CASE Recover
  BY <1>1, <1>10 DEF Recover, IInv, Others, FitNews, Explained
<1>11. CASE UNCHANGED vars
  BY <1>1, <1>11 DEF vars, IInv, Others, FitNews, Explained
<1> QED
  BY <1>3, <1>4, <1>5, <1>6, <1>7, <1>8, <1>9, <1>10, <1>11 DEF Next, Call, Return

-----------------------------------------------------------------------------
(* The theorems. *)

THEOREM Invariance == Spec => []IInv
<1> QED
  BY InitInv, NextInv, PTL DEF Spec

\* The variables keep their types and the window its size.
THEOREM TypeCorrect == Spec => []TypeOK
<1>1. IInv => TypeOK
  BY DEF IInv, Others, Fit, TypeOK
<1> QED
  BY Invariance, <1>1, PTL

\* A HALF_OPEN breaker has counted no failure and not yet enough successes, and
\* no other one counts successes: call() alone never takes its lines 81-86.
THEOREM CountsFit == Spec => []CountsFitState
<1>1. IInv => CountsFitState
  BY DEF IInv, Fit, CountsFitState
<1> QED
  BY Invariance, <1>1, PTL

\* A breaker trips only after FailureThreshold failed results since it was last
\* closed.
THEOREM TripAfterThreshold == Spec => TripsAfterThreshold
<1>1. ASSUME IInv, [Next]_vars,
             breaker.state = "closed", breaker'.state = "open", Returns
      PROVE  failed' = FailureThreshold
  <2>1. /\ Fit(breaker) /\ Explained(breaker, failed)
        /\ calling \in [Callers -> Age \union {Idle}]
        /\ failed \in 0 .. FailureThreshold
        /\ breaker.failures \in Nat
        /\ FailureThreshold \in Nat
    BY <1>1, BreakerConstants DEF IInv, Others, Fit, Breaker
  <2>2. PICK d \in Callers : calling[d] # Idle /\ calling'[d] = Idle
    BY <1>1 DEF Returns
  <2>3. breaker' # breaker
    BY <1>1
  <2>4. ASSUME NEW c \in Callers, Call(c) PROVE FALSE
    <3>1. 0 # Idle
      BY BreakerConstants
    <3>2. calling' = calling \/ calling' = [calling EXCEPT ![c] = 0]
      BY <2>4 DEF Call, Admit, Refuse
    <3> QED
      BY <2>1, <2>2, <3>1, <3>2
  <2>5. ASSUME NEW c \in Callers, Succeed(c) PROVE FALSE
    <3> DEFINE b == Remember(breaker, "success")
    <3>1. /\ Fit(b) /\ b.state = breaker.state /\ b.failures = breaker.failures
      BY <2>1, RememberFit
    <3>2. Explained(b, failed)
      BY <2>1, <3>1 DEF Explained
    <3>3. breaker' = AfterSuccess(b)
      BY <2>5 DEF Succeed
    <3> HIDE DEF b
    <3>4. breaker'.state # b.state => breaker'.state = "closed"
      BY <2>1, <3>1, <3>2, <3>3, AfterSuccessFit
    <3> QED
      BY <1>1, <3>1, <3>4
  <2>6. ASSUME NEW c \in Callers, Fail(c) PROVE failed' = FailureThreshold
    <3> DEFINE b == Remember(breaker, "failure")
               n == IF failed < FailureThreshold THEN failed + 1 ELSE failed
    <3>1. /\ Fit(b) /\ b.state = breaker.state /\ b.failures = breaker.failures
      BY <2>1, RememberFit
    <3>2. breaker' = AfterFailure(b, calling[c]) /\ Count(n) /\ Ends(c)
      BY <2>6 DEF Fail
    <3>3. calling[c] \in Age
      BY <2>1, <3>2 DEF Ends
    <3>4. failed' = n
      BY <1>1, <3>2 DEF Count
    <3> HIDE DEF b
    <3>5. b.failures + 1 >= FailureThreshold
      BY <1>1, <3>1, <3>2, <3>3, AfterFailureFit
    <3> QED
      BY <1>1, <2>1, <3>1, <3>4, <3>5 DEF Explained
  <2>7. ASSUME NEW c \in Callers, Abort(c) PROVE FALSE
    BY <2>3, <2>7 DEF Abort
  <2>8. ~PublishElsewhere /\ ~Recover
    BY <2>3 DEF PublishElsewhere, Recover
  <2>9. ~Tick
    <3>1. SUFFICES ASSUME Tick PROVE FALSE
      OBVIOUS
    <3>2. calling'[d] = Older(calling[d])
      BY <3>1 DEF Tick
    <3> QED
      BY <2>1, <2>2, <3>2, OlderAge
  <2>10. breaker' = breaker \/ Next
    BY <1>1 DEF vars
  <2> QED
    BY <2>3, <2>4, <2>5, <2>6, <2>7, <2>8, <2>9, <2>10 DEF Next, Return
<1>2. IInv /\ [Next]_vars =>
        [breaker.state = "closed" /\ breaker'.state = "open" /\ Returns
           => failed' = FailureThreshold]_vars
  BY <1>1
<1> QED
  BY Invariance, <1>2, PTL DEF Spec, TripsAfterThreshold

-----------------------------------------------------------------------------
(* The resilient caller. *)

Guarded == {"arm", "run", "disarm", "restore"}

\* Only the main thread comes past signal.signal, and there the handler is set.
MainGuards ==
  /\ \A t \in Threads : doing[t].step \in Guarded => t = Main
  /\ doing[Main].step \in Guarded => handler = "own"

\* The handler is the default one outside the guarded statements.
HandlerKept ==
  ~leaked => IF doing[Main].step \in Guarded THEN saved = "default" ELSE handler = "default"

\* An alarm without a call that raised belongs to the call that runs.
AlarmOwned == alarm => raised \/ doing[Main].step \in {"run", "disarm"}

\* No more permits are about than there were, left behind or not.
PermitBound == permits + Cardinality(InStep(Holding)) <= Concurrent

CallInv ==
  CallTypeOK /\ PermitBound /\ MainGuards /\ HandlerKept /\ AlarmOwned /\ PermitsKept /\ KilledByLeftover

-----------------------------------------------------------------------------
\* Two sets of threads that differ in one thread at most differ by that one in
\* their numbers.
LEMMA Counting ==
  ASSUME NEW t \in Threads, NEW D \in SUBSET Threads, NEW E \in SUBSET Threads,
         \A u \in Threads \ {t} : u \in E <=> u \in D
  PROVE  /\ Cardinality(D) \in Nat /\ Cardinality(E) \in Nat
         /\ Cardinality(D) <= Cardinality(Threads)
         /\ (t \in D <=> t \in E) => Cardinality(E) = Cardinality(D)
         /\ t \notin D /\ t \in E => Cardinality(E) = Cardinality(D) + 1
         /\ t \in D /\ t \notin E => Cardinality(E) = Cardinality(D) - 1
<1>1. IsFiniteSet(D) /\ IsFiniteSet(E) /\ Cardinality(D) \in Nat /\ Cardinality(E) \in Nat
      /\ Cardinality(D) <= Cardinality(Threads)
  BY CallConstants, FS_Subset, FS_CardinalityType
<1>2. (t \in D <=> t \in E) => D = E
  OBVIOUS
<1>3. t \notin D /\ t \in E => E = D \union {t}
  OBVIOUS
<1>4. t \in D /\ t \notin E => D = E \union {t}
  OBVIOUS
<1>5. t \notin D /\ t \in E => Cardinality(E) = Cardinality(D) + 1
  BY <1>1, <1>3, FS_AddElement
<1>6. t \in D /\ t \notin E => Cardinality(E) = Cardinality(D) - 1
  BY <1>1, <1>4, FS_AddElement
<1> QED
  BY <1>1, <1>2, <1>5, <1>6

LEMMA CallInvInit == CallInit => CallInv
<1> SUFFICES ASSUME CallInit PROVE CallInv
  OBVIOUS
<1>1. InStep(Holding) = {} /\ InStep(Counted) = {}
  BY DEF CallInit, InStep, Holding, Counted
<1>2. Cardinality(InStep(Holding)) = 0 /\ Cardinality(InStep(Counted)) = 0
  BY <1>1, FS_EmptySet
<1>3. Cardinality(Threads) \in Nat
  BY CallConstants, FS_CardinalityType
<1>4. CallTypeOK
  <2>1. Concurrent \in Nat /\ MaxAttempts \in Nat
    BY CallConstants
  <2>2. 0 \in -1 .. Cardinality(Threads) + 1
    BY <1>3
  <2>3. doing \in [Threads -> [step : Steps, ok : BOOLEAN]]
    BY DEF CallInit, Steps
  <2>4. attempt \in [Threads -> 0 .. MaxAttempts]
    BY <2>1 DEF CallInit
  <2>5. permits \in 0 .. Concurrent /\ active \in -1 .. Cardinality(Threads) + 1
    BY <2>1, <2>2 DEF CallInit
  <2>6. /\ handler \in Handlers /\ saved \in Handlers
        /\ alarm \in BOOLEAN /\ alive \in BOOLEAN /\ raised \in BOOLEAN /\ leaked \in BOOLEAN
    BY DEF CallInit, Handlers
  <2> QED
    BY <2>3, <2>4, <2>5, <2>6 DEF CallTypeOK
<1>5. MainGuards /\ HandlerKept /\ AlarmOwned /\ KilledByLeftover
  BY CallConstants DEF CallInit, MainGuards, HandlerKept, AlarmOwned, KilledByLeftover, Guarded
<1>6. PermitsKept /\ PermitBound
  BY <1>2, CallConstants DEF CallInit, PermitsKept, PermitBound
<1> QED
  BY <1>4, <1>5, <1>6 DEF CallInv

-----------------------------------------------------------------------------
(* One thread moves to another step. *)

Move(t, s) ==
  \E b \in BOOLEAN : doing' = [doing EXCEPT ![t] = [step |-> s, ok |-> b]]

One(b) == IF b THEN 1 ELSE 0

LEMMA GoMoves ==
  ASSUME CallTypeOK, NEW t \in Threads, NEW s, Go(t, s) \/ Raise(t, s)
  PROVE  Move(t, s)
<1>1. CASE Raise(t, s)
  BY <1>1 DEF Raise, Move
<1>2. CASE Go(t, s)
  <2>1. doing[t] \in [step : Steps, ok : BOOLEAN]
    BY DEF CallTypeOK
  <2>2. [doing[t] EXCEPT !.step = s] = [step |-> s, ok |-> doing[t].ok] /\ doing[t].ok \in BOOLEAN
    BY <2>1
  <2>3. doing' = [doing EXCEPT ![t] = [step |-> s, ok |-> doing[t].ok]]
    BY <1>2, <2>2 DEF Go
  <2> QED
    BY <2>2, <2>3 DEF Move
<1> QED
  BY <1>1, <1>2

\* What a move changes, and how the calls in the bulkhead count afterwards.
LEMMA Moved ==
  ASSUME CallTypeOK, NEW t \in Threads, NEW s \in Steps, Move(t, s)
  PROVE  /\ doing' \in [Threads -> [step : Steps, ok : BOOLEAN]]
         /\ doing'[t].step = s
         /\ \A u \in Threads \ {t} : doing'[u] = doing[u]
         /\ Cardinality(InStep(Holding)) \in Nat /\ Cardinality(InStep(Counted)) \in Nat
         /\ Cardinality(InStep(Counted)) <= Cardinality(Threads)
         /\ Cardinality(Threads) \in Nat
         /\ Cardinality(InStep(Holding)') =
              Cardinality(InStep(Holding)) + One(s \in Holding) - One(doing[t].step \in Holding)
         /\ Cardinality(InStep(Counted)') =
              Cardinality(InStep(Counted)) + One(s \in Counted) - One(doing[t].step \in Counted)
<1>1. PICK b \in BOOLEAN : doing' = [doing EXCEPT ![t] = [step |-> s, ok |-> b]]
  BY DEF Move
<1>2. /\ doing' \in [Threads -> [step : Steps, ok : BOOLEAN]]
      /\ doing'[t].step = s
      /\ \A u \in Threads \ {t} : doing'[u] = doing[u]
  BY <1>1 DEF CallTypeOK
<1>3. Cardinality(Threads) \in Nat
  BY CallConstants, FS_CardinalityType
<1>4. ASSUME NEW S
      PROVE  /\ Cardinality(InStep(S)) \in Nat /\ Cardinality(InStep(S)) <= Cardinality(Threads)
             /\ Cardinality({u \in Threads : doing'[u].step \in S}) =
                  Cardinality(InStep(S)) + One(s \in S) - One(doing[t].step \in S)
  <2> DEFINE D == {u \in Threads : doing[u].step \in S}
             E == {u \in Threads : doing'[u].step \in S}
  <2>1. \A u \in Threads \ {t} : u \in E <=> u \in D
    BY <1>2
  <2>2. (t \in D <=> doing[t].step \in S) /\ (t \in E <=> s \in S)
    BY <1>2
  <2>3. InStep(S) = D
    BY DEF InStep
  <2>4. D \in SUBSET Threads /\ E \in SUBSET Threads
    OBVIOUS
  <2> HIDE DEF D, E
  <2>5. /\ Cardinality(D) \in Nat /\ Cardinality(E) \in Nat
        /\ Cardinality(D) <= Cardinality(Threads)
        /\ (t \in D <=> t \in E) => Cardinality(E) = Cardinality(D)
        /\ t \notin D /\ t \in E => Cardinality(E) = Cardinality(D) + 1
        /\ t \in D /\ t \notin E => Cardinality(E) = Cardinality(D) - 1
    BY <2>1, <2>4, Counting
  <2>6. Cardinality(E) = Cardinality(D) + One(s \in S) - One(doing[t].step \in S)
    BY <2>2, <2>5 DEF One
  <2> QED
    BY <2>3, <2>5, <2>6 DEF E
<1>5. InStep(Holding)' = {u \in Threads : doing'[u].step \in Holding}
      /\ InStep(Counted)' = {u \in Threads : doing'[u].step \in Counted}
  BY DEF InStep, Holding, Counted
<1> QED
  BY <1>2, <1>3, <1>4, <1>5

-----------------------------------------------------------------------------
(* Steps outside TimeoutHandler: the alarm and its handler stay. *)

\* A move between unguarded steps keeps what is known of the alarm.
LEMMA Unguarded ==
  ASSUME CallInv, NEW t \in Threads, NEW s \in Steps, Move(t, s), UNCHANGED signalVars,
         doing[t].step \notin Guarded, s \notin Guarded
  PROVE  MainGuards' /\ HandlerKept' /\ AlarmOwned' /\ KilledByLeftover'
<1>1. doing'[t].step = s /\ \A u \in Threads \ {t} : doing'[u] = doing[u]
  BY Moved DEF CallInv
<1>2. Main \in Threads
  BY CallConstants
<1>3. doing'[Main].step \in Guarded <=> doing[Main].step \in Guarded
  BY <1>1, <1>2
<1>4. doing'[Main].step \in {"run", "disarm"} <=> doing[Main].step \in {"run", "disarm"}
  BY <1>1, <1>2 DEF Guarded
<1>5. MainGuards'
  BY <1>1, <1>3 DEF CallInv, MainGuards, signalVars
<1>6. HandlerKept'
  BY <1>3 DEF CallInv, HandlerKept, signalVars
<1>7. AlarmOwned'
  BY <1>4 DEF CallInv, AlarmOwned, signalVars
<1>8. KilledByLeftover'
  BY DEF CallInv, KilledByLeftover, signalVars
<1> QED
  BY <1>5, <1>6, <1>7, <1>8

LEMMA TypesOfSignals ==
  ASSUME CallTypeOK, UNCHANGED signalVars
  PROVE  /\ handler' \in Handlers /\ saved' \in Handlers
         /\ alarm' \in BOOLEAN /\ alive' \in BOOLEAN /\ raised' \in BOOLEAN /\ leaked' \in BOOLEAN
  BY DEF CallTypeOK, signalVars

\* The steps of the retry, a refused permit and the entry of the try statement
\* leave the bulkhead as it is.
LEMMA QuietKeeps ==
  ASSUME CallInv, NEW t \in Threads, NEW s \in Steps, Move(t, s), UNCHANGED <<bulkheadVars, signalVars>>,
         attempt' \in [Threads -> 0 .. MaxAttempts],
         doing[t].step \notin Guarded, s \notin Guarded,
         s \in Holding <=> doing[t].step \in Holding, s \in Counted <=> doing[t].step \in Counted
  PROVE  CallInv'
<1>1. CallTypeOK'
  BY Moved, TypesOfSignals DEF CallInv, CallTypeOK, bulkheadVars
<1>2. MainGuards' /\ HandlerKept' /\ AlarmOwned' /\ KilledByLeftover'
  BY Unguarded
<1>3. /\ Cardinality(InStep(Holding)') = Cardinality(InStep(Holding))
      /\ Cardinality(InStep(Counted)') = Cardinality(InStep(Counted))
  BY Moved DEF One, CallInv
<1>4. PermitsKept' /\ PermitBound'
  BY <1>3 DEF CallInv, PermitsKept, PermitBound, bulkheadVars, signalVars
<1> QED
  BY <1>1, <1>2, <1>4 DEF CallInv

LEMMA RetryKeeps ==
  ASSUME CallInv, NEW t \in Threads,
         Begin(t) \/ Ask(t) \/ Conclude(t) \/ Wake(t) \/ Reject(t) \/ Try(t)
  PROVE  CallInv'
<1>1. CallTypeOK /\ MaxAttempts \in Nat /\ attempt \in [Threads -> 0 .. MaxAttempts]
  BY CallConstants DEF CallInv, CallTypeOK
<1>2. CASE Begin(t)
  <2>1. Move(t, "ask") /\ doing[t].step = "idle" /\ UNCHANGED <<bulkheadVars, signalVars>>
    BY <1>2 DEF Begin, At, Move
  <2>2. attempt' \in [Threads -> 0 .. MaxAttempts]
    BY <1>1, <1>2 DEF Begin
  <2> QED
    BY <2>1, <2>2, QuietKeeps DEF Guarded, Holding, Counted, Steps
<1>3. CASE Ask(t)
  <2>1. (Move(t, "acquire") \/ Move(t, "count")) /\ doing[t].step = "ask"
        /\ UNCHANGED <<attempt, bulkheadVars, signalVars>>
    BY <1>1, <1>3, GoMoves DEF Ask, At
  <2> QED
    BY <1>1, <2>1, QuietKeeps DEF Guarded, Holding, Counted, Steps
<1>4. CASE Conclude(t)
  <2>1. (Move(t, "idle") \/ Move(t, "sleep")) /\ doing[t].step = "count"
        /\ UNCHANGED <<bulkheadVars, signalVars>>
    BY <1>1, <1>4, GoMoves DEF Conclude, At
  <2>2. attempt' \in [Threads -> 0 .. MaxAttempts]
    BY <1>1, <1>4 DEF Conclude
  <2> QED
    BY <2>1, <2>2, QuietKeeps DEF Guarded, Holding, Counted, Steps
<1>5. CASE Wake(t)
  <2>1. Move(t, "ask") /\ doing[t].step = "sleep" /\ UNCHANGED <<attempt, bulkheadVars, signalVars>>
    BY <1>5 DEF Wake, At, Move
  <2> QED
    BY <1>1, <2>1, QuietKeeps DEF Guarded, Holding, Counted, Steps
<1>6. CASE Reject(t)
  <2>1. Move(t, "count") /\ doing[t].step = "acquire" /\ UNCHANGED <<attempt, bulkheadVars, signalVars>>
    BY <1>1, <1>6, GoMoves DEF Reject, At
  <2> QED
    BY <1>1, <2>1, QuietKeeps DEF Guarded, Holding, Counted, Steps
<1>7. CASE Try(t)
  <2>1. Move(t, "enter") /\ doing[t].step = "acquired" /\ UNCHANGED <<attempt, bulkheadVars, signalVars>>
    BY <1>1, <1>7, GoMoves DEF Try, At
  <2> QED
    BY <1>1, <2>1, QuietKeeps DEF Guarded, Holding, Counted, Steps
<1> QED
  BY <1>2, <1>3, <1>4, <1>5, <1>6, <1>7

-----------------------------------------------------------------------------
(* The bulkhead. *)

LEMMA BulkheadKeeps ==
  ASSUME CallInv, NEW t \in Threads, Acquire(t) \/ Join(t) \/ Leave(t) \/ Release(t)
  PROVE  CallInv'
<1> DEFINE n == Cardinality(Threads)
           h == Cardinality(InStep(Holding))
           c == Cardinality(InStep(Counted))
<1>1. /\ CallTypeOK /\ attempt' = attempt /\ UNCHANGED signalVars
      /\ Concurrent \in Nat /\ permits \in 0 .. Concurrent /\ active \in -1 .. n + 1
      /\ permits + h <= Concurrent
      /\ ~leaked => permits + h = Concurrent /\ active = c
  BY CallConstants DEF CallInv, CallTypeOK, PermitBound, PermitsKept, Acquire, Join, Leave, Release
<1>2. ASSUME NEW s \in Steps, Move(t, s), doing[t].step \notin Guarded, s \notin Guarded,
             permits' \in 0 .. Concurrent, active' \in -1 .. n + 1,
             permits' + Cardinality(InStep(Holding)') <= Concurrent,
             ~leaked => /\ permits' + Cardinality(InStep(Holding)') = Concurrent
                        /\ active' = Cardinality(InStep(Counted)')
      PROVE  CallInv'
  <2>1. CallTypeOK'
    BY <1>1, <1>2, Moved, TypesOfSignals DEF CallTypeOK
  <2>2. MainGuards' /\ HandlerKept' /\ AlarmOwned' /\ KilledByLeftover'
    BY <1>1, <1>2, Unguarded
  <2>3. PermitsKept' /\ PermitBound'
    BY <1>1, <1>2 DEF PermitsKept, PermitBound, signalVars
  <2> QED
    BY <2>1, <2>2, <2>3 DEF CallInv
<1>3. ASSUME NEW s \in Steps, Move(t, s)
      PROVE  /\ h \in Nat /\ c \in Nat /\ n \in Nat /\ c <= n
             /\ Cardinality(InStep(Holding)') = h + One(s \in Holding) - One(doing[t].step \in Holding)
             /\ Cardinality(InStep(Counted)') = c + One(s \in Counted) - One(doing[t].step \in Counted)
  BY <1>1, <1>3, Moved
<1>4. CASE Acquire(t)
  <2>1. Move(t, "acquired") /\ doing[t].step = "acquire" /\ permits' = permits - 1 /\ permits > 0
        /\ active' = active
    BY <1>1, <1>4, GoMoves DEF Acquire, At
  <2>2. /\ h \in Nat /\ c \in Nat /\ n \in Nat
        /\ Cardinality(InStep(Holding)') = h + 1 /\ Cardinality(InStep(Counted)') = c
    BY <1>3, <2>1 DEF One, Holding, Counted, Steps
  <2> HIDE DEF h, c, n
  <2>3. /\ permits' \in 0 .. Concurrent /\ active' \in -1 .. n + 1
        /\ permits' + Cardinality(InStep(Holding)') <= Concurrent
        /\ ~leaked => /\ permits' + Cardinality(InStep(Holding)') = Concurrent
                      /\ active' = Cardinality(InStep(Counted)')
    BY <1>1, <2>1, <2>2
  <2> QED
    BY <1>2, <2>1, <2>3 DEF Guarded, Steps
<1>5. CASE Join(t)
  <2>1. /\ doing[t].step = "enter" /\ permits' = permits
        /\ active' = IF active > n THEN active ELSE active + 1
    BY <1>5 DEF Join, At
  <2>2. Move(t, "install")
    BY <1>1, <1>5, GoMoves DEF Join
  <2>3. /\ h \in Nat /\ c \in Nat /\ n \in Nat /\ c <= n
        /\ Cardinality(InStep(Holding)') = h /\ Cardinality(InStep(Counted)') = c + 1
    BY <1>3, <2>1, <2>2 DEF One, Holding, Counted, Steps
  <2> HIDE DEF h, c, n
  <2>4. /\ permits' \in 0 .. Concurrent /\ active' \in -1 .. n + 1
        /\ permits' + Cardinality(InStep(Holding)') <= Concurrent
        /\ ~leaked => /\ permits' + Cardinality(InStep(Holding)') = Concurrent
                      /\ active' = Cardinality(InStep(Counted)')
    BY <1>1, <2>1, <2>3
  <2> QED
    BY <1>2, <2>1, <2>2, <2>4 DEF Guarded, Steps
<1>6. CASE Leave(t)
  <2>1. /\ doing[t].step = "leave" /\ permits' = permits
        /\ active' = IF active < 0 THEN active ELSE active - 1
    BY <1>6 DEF Leave, At
  <2>2. Move(t, "release")
    BY <1>1, <1>6, GoMoves DEF Leave
  <2>3. /\ h \in Nat /\ c \in Nat /\ n \in Nat /\ c <= n
        /\ Cardinality(InStep(Holding)') = h /\ Cardinality(InStep(Counted)') = c - 1
    BY <1>3, <2>1, <2>2 DEF One, Holding, Counted, Steps
  <2> HIDE DEF h, c, n
  <2>4. /\ permits' \in 0 .. Concurrent /\ active' \in -1 .. n + 1
        /\ permits' + Cardinality(InStep(Holding)') <= Concurrent
        /\ ~leaked => /\ permits' + Cardinality(InStep(Holding)') = Concurrent
                      /\ active' = Cardinality(InStep(Counted)')
    BY <1>1, <2>1, <2>3
  <2> QED
    BY <1>2, <2>1, <2>2, <2>4 DEF Guarded, Steps
<1>7. CASE Release(t)
  <2>1. Move(t, "count") /\ doing[t].step = "release" /\ permits' = permits + 1 /\ active' = active
    BY <1>1, <1>7, GoMoves DEF Release, At
  <2>2. /\ h \in Nat /\ c \in Nat /\ n \in Nat
        /\ Cardinality(InStep(Holding)') = h - 1 /\ Cardinality(InStep(Counted)') = c
        /\ Cardinality(InStep(Holding)') \in Nat
    <3>1. /\ h \in Nat /\ c \in Nat /\ n \in Nat
          /\ Cardinality(InStep(Holding)') = h - 1 /\ Cardinality(InStep(Counted)') = c
      BY <1>3, <2>1 DEF One, Holding, Counted, Steps
    <3>2. h # 0
      <4>1. t \in InStep(Holding)
        BY <2>1 DEF InStep, Holding
      <4>2. IsFiniteSet(InStep(Holding))
        BY CallConstants, FS_Subset DEF InStep
      <4> QED
        BY <4>1, <4>2, FS_EmptySet
    <3> HIDE DEF h, c, n
    <3> QED
      BY <3>1, <3>2
  <2> HIDE DEF h, c, n
  <2>3. /\ permits' \in 0 .. Concurrent /\ active' \in -1 .. n + 1
        /\ permits' + Cardinality(InStep(Holding)') <= Concurrent
        /\ ~leaked => /\ permits' + Cardinality(InStep(Holding)') = Concurrent
                      /\ active' = Cardinality(InStep(Counted)')
    BY <1>1, <2>1, <2>2
  <2> QED
    BY <1>2, <2>1, <2>3 DEF Guarded, Steps
<1> QED
  BY <1>4, <1>5, <1>6, <1>7

-----------------------------------------------------------------------------
(* TimeoutHandler. *)

\* The steps under the timeout happen inside the bulkhead.
Inside == {"install", "arm", "run", "disarm", "restore", "leave"}

LEMMA InsideKeeps ==
  ASSUME CallInv, NEW t \in Threads, NEW s \in Inside, doing[t].step \in Inside, Move(t, s),
         UNCHANGED <<attempt, bulkheadVars>>, leaked => leaked',
         handler' \in Handlers, saved' \in Handlers, alarm' \in BOOLEAN, alive' \in BOOLEAN,
         raised' \in BOOLEAN, leaked' \in BOOLEAN
  PROVE  CallTypeOK' /\ PermitBound' /\ PermitsKept'
<1>1. s \in Steps /\ s \in Holding /\ s \in Counted
  BY DEF Inside, Steps, Holding, Counted
<1>2. doing[t].step \in Holding /\ doing[t].step \in Counted
  BY DEF Inside, Holding, Counted
<1>3. /\ Cardinality(InStep(Holding)') = Cardinality(InStep(Holding))
      /\ Cardinality(InStep(Counted)') = Cardinality(InStep(Counted))
      /\ doing' \in [Threads -> [step : Steps, ok : BOOLEAN]]
  BY <1>1, <1>2, Moved DEF One, CallInv
<1>4. CallTypeOK'
  BY <1>3 DEF CallInv, CallTypeOK, bulkheadVars
<1>5. PermitBound' /\ PermitsKept'
  BY <1>3 DEF CallInv, PermitBound, PermitsKept, bulkheadVars
<1> QED
  BY <1>4, <1>5

LEMMA InstallKeeps ==
  ASSUME CallInv, NEW t \in Threads, Install(t)
  PROVE  CallInv'
<1>1. /\ CallTypeOK /\ Main \in Threads /\ doing[t].step = "install"
      /\ UNCHANGED <<attempt, bulkheadVars, alarm, alive, raised, leaked>>
  BY CallConstants DEF CallInv, Install, At
<1>2. CASE t = Main
  <2>1. handler' = "own" /\ saved' = handler /\ Move(t, "arm")
    BY <1>1, <1>2, GoMoves DEF Install
  <2>2. doing'[Main].step = "arm" /\ \A u \in Threads \ {Main} : doing'[u] = doing[u]
    BY <1>1, <1>2, <2>1, Moved DEF Steps
  <2>3. CallTypeOK' /\ PermitBound' /\ PermitsKept'
    BY <1>1, <2>1, InsideKeeps DEF CallTypeOK, Inside, Handlers
  <2>4. MainGuards'
    BY <2>1, <2>2 DEF CallInv, MainGuards, Guarded
  <2>5. HandlerKept'
    BY <1>1, <1>2, <2>1, <2>2 DEF CallInv, HandlerKept, Guarded
  <2>6. AlarmOwned' /\ KilledByLeftover'
    BY <1>1, <1>2 DEF CallInv, AlarmOwned, KilledByLeftover
  <2> QED
    BY <2>3, <2>4, <2>5, <2>6 DEF CallInv
<1>3. CASE t # Main
  <2>1. UNCHANGED signalVars /\ Move(t, "leave")
    BY <1>1, <1>3, GoMoves DEF Install, signalVars
  <2>2. CallTypeOK' /\ PermitBound' /\ PermitsKept'
    BY <1>1, <2>1, InsideKeeps, TypesOfSignals DEF Inside, signalVars
  <2>3. MainGuards' /\ HandlerKept' /\ AlarmOwned' /\ KilledByLeftover'
    BY <1>1, <2>1, Unguarded DEF Guarded, Steps
  <2> QED
    BY <2>2, <2>3 DEF CallInv
<1> QED
  BY <1>2, <1>3

\* From the alarm on it is the main thread that moves.
LEMMA GuardedKeeps ==
  ASSUME CallInv, NEW t \in Threads,
         Arm(t) \/ FunctionReturns(t) \/ Disarm(t) \/ FunctionRaises(t) \/ Restore(t)
  PROVE  CallInv'
<1>1. /\ CallTypeOK /\ doing[t].step \in Guarded /\ UNCHANGED <<attempt, bulkheadVars, saved, alive, leaked>>
  BY DEF CallInv, Arm, FunctionReturns, Disarm, FunctionRaises, Restore, At, Guarded, signalVars
<1>2. t = Main /\ handler = "own" /\ Main \in Threads
  BY <1>1, CallConstants DEF CallInv, MainGuards
<1>3. ~leaked => saved = "default"
  BY <1>1, <1>2 DEF CallInv, HandlerKept
<1>4. ASSUME NEW s \in Inside \ {"install"}, Move(t, s),
             handler' = IF s = "leave" THEN saved ELSE "own",
             alarm' \in BOOLEAN, raised' \in BOOLEAN, raised => raised',
             alarm' => raised' \/ s \in {"run", "disarm"}
      PROVE  CallInv'
  <2>1. handler' \in Handlers /\ saved' \in Handlers /\ alive' \in BOOLEAN /\ leaked' \in BOOLEAN
    BY <1>1, <1>4 DEF CallTypeOK, Handlers
  <2>2. CallTypeOK' /\ PermitBound' /\ PermitsKept'
    BY <1>1, <1>4, <2>1, InsideKeeps DEF Inside, Guarded
  <2>3. doing'[Main].step = s /\ \A u \in Threads \ {Main} : doing'[u] = doing[u]
    BY <1>1, <1>2, <1>4, Moved DEF Inside, Steps
  <2>4. MainGuards'
    BY <1>4, <2>3 DEF CallInv, MainGuards, Guarded
  <2>5. HandlerKept'
    BY <1>1, <1>3, <1>4, <2>3 DEF HandlerKept, Guarded, Inside
  <2>6. AlarmOwned' /\ KilledByLeftover'
    BY <1>1, <1>4, <2>3 DEF CallInv, AlarmOwned, KilledByLeftover
  <2> QED
    BY <2>2, <2>4, <2>5, <2>6 DEF CallInv
<1>5. CASE Arm(t)
  <2>1. Move(t, "run") /\ handler' = handler /\ raised' = raised /\ alarm' \in BOOLEAN
    BY <1>1, <1>5, GoMoves DEF Arm
  <2> QED
    BY <1>1, <1>2, <1>4, <2>1 DEF CallTypeOK, Inside
<1>6. CASE FunctionReturns(t)
  <2>1. Move(t, "disarm") /\ handler' = handler /\ raised' = raised /\ alarm' = alarm
    BY <1>1, <1>6, GoMoves DEF FunctionReturns, signalVars
  <2> QED
    BY <1>1, <1>2, <1>4, <2>1 DEF CallTypeOK, Inside
<1>7. CASE Disarm(t)
  <2>1. Move(t, "restore") /\ handler' = handler /\ raised' = raised /\ alarm' = FALSE
    BY <1>1, <1>7, GoMoves DEF Disarm
  <2> QED
    BY <1>1, <1>2, <1>4, <2>1 DEF CallTypeOK, Inside
<1>8. CASE FunctionRaises(t)
  <2>1. Move(t, "restore") /\ handler' = handler /\ raised' = TRUE /\ alarm' = alarm
    BY <1>1, <1>8, GoMoves DEF FunctionRaises
  <2> QED
    BY <1>1, <1>2, <1>4, <2>1 DEF CallTypeOK, Inside
<1>9. CASE Restore(t)
  <2>1. /\ Move(t, "leave") /\ handler' = saved /\ raised' = raised /\ alarm' = alarm
        /\ doing[Main].step = "restore"
    BY <1>1, <1>2, <1>9, GoMoves DEF Restore, At
  <2>2. alarm => raised
    BY <2>1 DEF CallInv, AlarmOwned
  <2> QED
    BY <1>1, <1>4, <2>1, <2>2 DEF CallTypeOK, Inside
<1> QED
  BY <1>5, <1>6, <1>7, <1>8, <1>9

-----------------------------------------------------------------------------
(* The alarm. *)

LEMMA KillKeeps ==
  ASSUME CallInv, Kill
  PROVE  CallInv'
<1>1. /\ alarm /\ handler = "default" /\ alarm' = FALSE /\ alive' = FALSE
      /\ UNCHANGED <<doing, attempt, bulkheadVars, handler, saved, raised, leaked>>
  BY DEF Kill
<1>2. raised
  BY <1>1 DEF CallInv, AlarmOwned, MainGuards, Guarded
<1>3. CallTypeOK'
  BY <1>1 DEF CallInv, CallTypeOK, bulkheadVars
<1>4. PermitBound' /\ PermitsKept'
  BY <1>1 DEF CallInv, PermitBound, PermitsKept, InStep, Holding, Counted, bulkheadVars
<1>5. MainGuards' /\ HandlerKept'
  BY <1>1 DEF CallInv, MainGuards, HandlerKept, Guarded
<1>6. AlarmOwned' /\ KilledByLeftover'
  BY <1>1, <1>2 DEF AlarmOwned, KilledByLeftover
<1> QED
  BY <1>3, <1>4, <1>5, <1>6 DEF CallInv

\* The exception leads out of the step; it can free a permit of the bulkhead
\* or lose one, but as long as no handler was left behind it comes up under the
\* timeout only.
LEMMA InterruptKeeps ==
  ASSUME CallInv, Interrupt
  PROVE  CallInv'
<1> DEFINE at == doing[Main].step
<1>1. /\ CallTypeOK /\ Main \in Threads /\ alarm /\ alarm' = FALSE /\ handler = "own"
      /\ leaked' = (leaked \/ at \in {"arm", "restore"})
      /\ UNCHANGED <<attempt, bulkheadVars, handler, saved, alive, raised>>
      /\ at \in Steps
  BY CallConstants DEF CallInv, CallTypeOK, Interrupt
<1>2. PICK s \in Steps : /\ Move(Main, s)
                         /\ s = Caught(at) \/ (at = "count" /\ s = "idle")
  <2>1. Caught(at) \in Steps
    BY <1>1 DEF Caught, Steps
  <2>2. Move(Main, Caught(at)) \/ (at = "count" /\ Move(Main, "idle"))
    BY <1>1, GoMoves DEF Interrupt
  <2> QED
    BY <2>1, <2>2 DEF Steps
<1>3. /\ s \in Guarded => s = "restore" /\ at \in {"run", "disarm"}
      /\ s \in Holding => at \in Holding
      /\ at \in {"run", "disarm"} => s = "restore"
  BY <1>1, <1>2 DEF Caught, Steps, Guarded, Holding
<1>4. /\ doing' \in [Threads -> [step : Steps, ok : BOOLEAN]]
      /\ doing'[Main].step = s /\ \A u \in Threads \ {Main} : doing'[u] = doing[u]
      /\ Cardinality(InStep(Holding)) \in Nat /\ Cardinality(InStep(Counted)) \in Nat
      /\ Cardinality(InStep(Holding)') =
           Cardinality(InStep(Holding)) + One(s \in Holding) - One(at \in Holding)
      /\ Cardinality(InStep(Counted)') =
           Cardinality(InStep(Counted)) + One(s \in Counted) - One(at \in Counted)
  BY <1>1, <1>2, Moved
<1>5. CallTypeOK'
  BY <1>1, <1>4 DEF CallTypeOK, bulkheadVars
<1>6. PermitBound'
  <2>1. One(s \in Holding) - One(at \in Holding) <= 0
        /\ One(s \in Holding) \in Int /\ One(at \in Holding) \in Int
    BY <1>3 DEF One
  <2>2. permits' = permits /\ permits \in Int /\ Concurrent \in Nat
        /\ permits + Cardinality(InStep(Holding)) <= Concurrent
    BY <1>1, CallConstants DEF CallInv, PermitBound, CallTypeOK, bulkheadVars
  <2>3. permits' + Cardinality(InStep(Holding)') <= Concurrent
    BY <1>4, <2>1, <2>2
  <2> QED
    BY <2>3 DEF PermitBound
<1>7. ~leaked' => at \in {"run", "disarm"} /\ s = "restore" /\ ~leaked
  BY <1>1, <1>3 DEF CallInv, HandlerKept, Guarded
<1>8. PermitsKept'
  <2>1. SUFFICES ASSUME ~leaked'
                 PROVE  /\ permits' + Cardinality(InStep(Holding)') = Concurrent
                        /\ active' = Cardinality(InStep(Counted)')
    BY DEF PermitsKept
  <2>2. s \in Holding /\ at \in Holding /\ s \in Counted /\ at \in Counted
    BY <1>7, <2>1 DEF Holding, Counted
  <2> QED
    BY <1>1, <1>4, <1>7, <2>1, <2>2 DEF One, CallInv, PermitsKept, bulkheadVars
<1>9. MainGuards' /\ HandlerKept'
  BY <1>1, <1>3, <1>4, <1>7 DEF CallInv, MainGuards, HandlerKept, Guarded
<1>10. AlarmOwned' /\ KilledByLeftover'
  BY <1>1 DEF CallInv, AlarmOwned, KilledByLeftover
<1> QED
  BY <1>5, <1>6, <1>8, <1>9, <1>10 DEF CallInv

-----------------------------------------------------------------------------
LEMMA CallInvNext == CallInv /\ [CallNext]_callVars => CallInv'
<1> SUFFICES ASSUME CallInv, [CallNext]_callVars PROVE CallInv'
  OBVIOUS
<1>1. CASE UNCHANGED callVars
  BY <1>1 DEF CallInv, callVars, CallTypeOK, PermitBound, MainGuards, HandlerKept, AlarmOwned,
              PermitsKept, KilledByLeftover, InStep
<1>2. CASE Fire
  BY <1>2, KillKeeps, InterruptKeeps DEF Fire
<1>3. ASSUME NEW t \in Threads, Begin(t) \/ Step(t) \/ FunctionReturns(t) \/ FunctionRaises(t)
      PROVE  CallInv'
  BY <1>3, RetryKeeps, BulkheadKeeps, InstallKeeps, GuardedKeeps DEF Step
<1> QED
  BY <1>1, <1>2, <1>3 DEF CallNext

\* However calls overlap and wherever an alarm comes up: the invariant of the
\* caller holds beside the breaker, with which it shares no variable.
THEOREM CallInvariance == ResilienceSpec => []CallInv
<1>1. ResilienceInit => CallInv
  BY CallInvInit DEF ResilienceInit
<1>2. CallInv /\ [ResilienceNext]_resilienceVars => CallInv'
  <2> SUFFICES ASSUME CallInv, [ResilienceNext]_resilienceVars PROVE CallInv'
    OBVIOUS
  <2>1. [CallNext]_callVars
    BY DEF ResilienceNext, OfBreaker, OfCaller, resilienceVars
  <2> QED
    BY <2>1, CallInvNext
<1> QED
  BY <1>1, <1>2, PTL DEF ResilienceSpec

\* Bulkhead.execute gives every permit back, whatever its function does, and
\* active_calls tells the calls that run, as long as no alarm has come up in
\* TimeoutHandler outside its try statement.
THEOREM PermitsAreKept == ResilienceSpec => []PermitsKept
BY CallInvariance, PTL DEF CallInv

\* An alarm ends the process only after a function has raised under a timeout.
THEOREM KilledByLeftoverOnly == ResilienceSpec => []KilledByLeftover
BY CallInvariance, PTL DEF CallInv
=============================================================================
