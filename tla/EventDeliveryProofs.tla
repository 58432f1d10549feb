------------------------ MODULE EventDeliveryProofs -------------------------
(***************************************************************************)
(* For any number of events, subscriptions, workers and retries: an event  *)
(* is completed only if a subscriber has accepted it, and no subscriber    *)
(* accepts an event twice that nobody disturbed.  The first invariant      *)
(* follows what a request has heard through its counters and copies; the   *)
(* second says that an event which may be processed again, in the table or *)
(* in a copy that waits for its turn, was accepted by nobody.              *)
(***************************************************************************)
EXTENDS EventDelivery, FiniteSetTheorems, SequenceTheorems, TLAPS

Sending == {"sent", "post", "answer"}
Asking  == {"create"} \union Sending
Running == {"subscriptions", "finish"} \union Asking
Begun   == {"except"} \union Running
Open    == {"pending", "failed", "retry"}    \* statuses from which an event is processed, or retried

Heard(e) == \E s \in Subs : received[e][s] > 0
Quiet(e) == \A s \in Subs : received[e][s] = 0
Apart(e) == e \notin disturbed \union unrecorded \union overridden

Has(w, e) == Busy(w) /\ \E i \in DOMAIN job[w].list : job[w].list[i].id = e

-----------------------------------------------------------------------------
(* The invariant. *)

\* A request works through distinct events; processing and retrying start from
\* copies that were pending or failed.
Fits(j) ==
  /\ j.list # << >>
  /\ j.view = "edit" <=> j.stage = "edit"
  /\ j.stage = "retry" => j.view = "retry_failed"
  /\ \A i, k \in DOMAIN j.list : j.list[i].id = j.list[k].id => i = k
  /\ j.view # "edit" => \A i \in DOMAIN j.list : j.list[i].row.status \in Open
  /\ j.view = "retry_failed" => \A i \in DOMAIN j.list : j.list[i].row.retry_count < MaxRetries
  /\ j.stage \in Asking => j.rows # << >>

\* The deliveries it still has to make are rows of its event, or gone.
OwnRows(j) ==
  j.stage \in Sending =>
    \A i \in DOMAIN j.rows :
      /\ j.rows[i].id \in Rows
      /\ delivery[j.rows[i].id] # Missing => delivery[j.rows[i].id].event = j.list[1].id

Working == \A w \in Workers : Busy(w) => Fits(job[w]) /\ OwnRows(job[w])

\* What says that an event was received: a row, a delivery, a copy of the row, and
\* what a request under way has counted or is about to note.
HeardCopy(c) == c.row.status = "completed" /\ c.id \notin overridden => Heard(c.id)
HeardJob(j) ==
  /\ \A i \in DOMAIN j.list : HeardCopy(j.list[i])
  /\ j.made > 0 \/ (j.stage = "answer" /\ j.ok) => Heard(j.list[1].id)
RowsHeard ==
  \A e \in Events \ overridden : Exists(e) /\ event[e].status = "completed" => Heard(e)
DeliveriesHeard ==
  \A i \in Rows : /\ delivery[i] # Missing /\ delivery[i].status = "delivered"
                  /\ delivery[i].event \notin overridden
                  => Heard(delivery[i].event)
JobsHeard == \A w \in Workers : Busy(w) => HeardJob(job[w])

HeardInv == TypeOK /\ Working /\ RowsHeard /\ DeliveriesHeard /\ JobsHeard

\* An event without a row yet is unknown to everybody.
Unknown ==
  \A e \in fresh : ~Exists(e) /\ Quiet(e) /\ \A w \in Workers : ~Has(w, e)

Alone == \A e \in Events \ disturbed : \A v, w \in Workers : Has(v, e) /\ Has(w, e) => v = w

\* Nobody has accepted an event that may be processed again, be it in the table or
\* in a copy that waits for its turn.
OpenIsQuiet == \A e \in Events : Apart(e) /\ Exists(e) /\ event[e].status \in Open => Quiet(e)
Waits(j, i) == i > 1 \/ j.stage \notin Begun
WaitsQuietly(j) ==
  \A i \in DOMAIN j.list :
    Apart(j.list[i].id) /\ Waits(j, i) /\ j.list[i].row.status \in Open => Quiet(j.list[i].id)

\* The deliveries of the event at the head: made = 0 says that everybody who was
\* asked refused, and nobody is asked twice.
Round(j) ==
  LET e == j.list[1].id IN
  j.stage \in Running /\ Apart(e) =>
    /\ Exists(e) /\ event[e].status = "processing"
    /\ j.stage \in {"subscriptions", "create"} \/ (j.stage = "finish" /\ j.made = 0) => Quiet(e)
    /\ j.stage \in Asking => \A i, k \in DOMAIN j.rows : j.rows[i].sub = j.rows[k].sub => i = k
    /\ j.stage \in Sending =>
         /\ \A i \in DOMAIN j.rows :
              i > 1 \/ j.stage # "answer" \/ ~j.ok => received[e][j.rows[i].sub] = 0
         /\ j.made = 0 =>
              \A s \in Subs : s # j.rows[1].sub => received[e][s] = 0

AtMostOnce == \A e \in Events : Apart(e) => \A s \in Subs : received[e][s] <= 1

OnceInv ==
  /\ Unknown /\ Alone /\ OpenIsQuiet /\ AtMostOnce
  /\ \A w \in Workers : Busy(w) => WaitsQuietly(job[w]) /\ Round(job[w])

-----------------------------------------------------------------------------
(* Jobs. *)

LEMMA SeqFacts ==
  ASSUME NEW S, NEW q \in Seq(S), q # << >>
  PROVE  /\ Len(q) \in Nat /\ Len(q) >= 1 /\ DOMAIN q = 1 .. Len(q) /\ 1 \in DOMAIN q
         /\ Head(q) = q[1] /\ q[1] \in S /\ Tail(q) \in Seq(S)
         /\ Tail(q) = << >> <=> Len(q) = 1
         /\ \A i \in DOMAIN Tail(q) : i \in Nat /\ i >= 1 /\ i + 1 \in DOMAIN q /\ Tail(q)[i] = q[i + 1]
         /\ \A i \in DOMAIN q : i \in Nat /\ i >= 1 /\ q[i] \in S
<1>1. Len(q) \in Nat /\ Len(q) >= 1 /\ DOMAIN q = 1 .. Len(q) /\ Tail(q) \in Seq(S) /\ Head(q) = q[1]
  OBVIOUS
<1>2. Tail(q) = << >> <=> Len(q) = 1
  <2>1. Len(Tail(q)) = Len(q) - 1
    BY HeadTailProperties
  <2>2. Len(Tail(q)) = 0 <=> Tail(q) = << >>
    BY <1>1, EmptySeq
  <2> QED
    BY <1>1, <2>1, <2>2
<1>3. \A i \in DOMAIN Tail(q) : i \in Nat /\ i >= 1 /\ i + 1 \in DOMAIN q /\ Tail(q)[i] = q[i + 1]
  OBVIOUS
<1>4. 1 \in DOMAIN q /\ \A i \in DOMAIN q : i \in Nat /\ i >= 1 /\ q[i] \in S
  BY <1>1
<1> QED
  BY <1>1, <1>2, <1>3, <1>4

LEMMA JobFacts ==
  ASSUME NEW j \in Job, Fits(j)
  PROVE  /\ j.list \in Seq([id : Events, row : Event]) /\ j.list # << >>
         /\ 1 \in DOMAIN j.list /\ Head(j.list) = j.list[1]
         /\ j.list[1].id \in Events /\ j.list[1].row \in Event
         /\ \A i \in DOMAIN j.list : i \in Nat /\ j.list[i].id \in Events /\ j.list[i].row \in Event
         /\ j.rows \in Seq([id : Nat, sub : Subs]) /\ j.made \in Nat /\ j.ok \in BOOLEAN
         /\ j.stage \in Stage
<1>1. /\ j.list \in Seq([id : Events, row : Event]) /\ j.list # << >>
      /\ j.rows \in Seq([id : Nat, sub : Subs]) /\ j.made \in Nat /\ j.ok \in BOOLEAN
      /\ j.stage \in Stage
  BY DEF Job, Fits
<1>2. /\ 1 \in DOMAIN j.list /\ Head(j.list) = j.list[1]
      /\ \A i \in DOMAIN j.list : i \in Nat /\ j.list[i] \in [id : Events, row : Event]
  BY <1>1, SeqFacts
<1> QED
  BY <1>1, <1>2

\* The next event of the list has been waiting, and nothing of the last round is left.
LEMMA NextFacts ==
  ASSUME NEW j \in Job, Fits(j), j.view # "edit", NextEvent(j) # << >>
  PROVE  /\ NextEvent(j) \in Job /\ Fits(NextEvent(j))
         /\ NextEvent(j).list = Tail(j.list) /\ NextEvent(j).view = j.view
         /\ NextEvent(j).stage \in {"retry", "mark"} /\ NextEvent(j).made = 0
<1> DEFINE q == Tail(j.list)
           stage == IF j.view = "retry_failed" THEN "retry" ELSE "mark"
           n == [j EXCEPT !.list = q, !.rows = << >>, !.made = 0, !.stage = stage]
<1>1. /\ NextEvent(j) = n /\ q # << >>
  BY DEF NextEvent
<1>2. /\ q \in Seq([id : Events, row : Event])
      /\ \A i \in DOMAIN q : i \in Nat /\ i + 1 \in DOMAIN j.list /\ q[i] = j.list[i + 1]
  BY JobFacts, SeqFacts
<1>3. stage \in Stage /\ << >> \in Seq([id : Nat, sub : Subs])
  BY DEF Stage
<1> HIDE DEF q, stage
<1>4. /\ n \in Job /\ n.list = q /\ n.view = j.view /\ n.made = 0
      /\ n.stage = stage
  BY <1>2, <1>3 DEF Job
<1> HIDE DEF n
<1>5. Fits(n)
  <2>1. \A i, k \in DOMAIN q : q[i].id = q[k].id => i = k
    <3>1. ASSUME NEW i \in DOMAIN q, NEW k \in DOMAIN q, q[i].id = q[k].id PROVE i = k
      <4>1. i + 1 = k + 1
        BY <1>2, <3>1 DEF Fits
      <4> QED
        BY <1>2, <4>1
    <3> QED
      BY <3>1
  <2>2. \A i \in DOMAIN q : q[i].row.status \in Open
    BY <1>2 DEF Fits
  <2>3. j.view = "retry_failed" => \A i \in DOMAIN q : q[i].row.retry_count < MaxRetries
    BY <1>2 DEF Fits
  <2> QED
    BY <1>1, <1>4, <2>1, <2>2, <2>3 DEF Fits, Asking, Sending, stage
<1> QED
  BY <1>1, <1>4, <1>5 DEF q, stage

\* A job that is over, or goes on to its next event.
Over(j, k) == k = << >> \/ (j.view # "edit" /\ k = NextEvent(j))

LEMMA OverKeeps ==
  ASSUME NEW j \in Job, NEW k, Fits(j), HeardJob(j), Over(j, k), k # << >>
  PROVE  /\ k \in Job /\ Fits(k) /\ k.stage \notin Begun /\ HeardJob(k)
         /\ k.list = Tail(j.list)
<1>1. /\ k \in Job /\ Fits(k) /\ k.list = Tail(j.list)
      /\ k.stage \in {"retry", "mark"} /\ k.made = 0
  BY NextFacts DEF Over
<1>2. \A i \in DOMAIN k.list : i + 1 \in DOMAIN j.list /\ k.list[i] = j.list[i + 1]
  BY <1>1, JobFacts, SeqFacts
<1>3. HeardJob(k)
  BY <1>1, <1>2 DEF HeardJob, HeardCopy
<1> QED
  BY <1>1, <1>3 DEF Begun, Running, Asking, Sending

-----------------------------------------------------------------------------
(* What a step leaves to the others. *)

\* Nobody's acceptance is taken back, what the admin said stays said, and a row of
\* EventDelivery stays with its event until it goes.
Keeps ==
  /\ \A e \in Events : Heard(e) => Heard(e)'
  /\ overridden \subseteq overridden'
  /\ \A i \in Rows : /\ i \in Rows'
                     /\ delivery'[i] # Missing => delivery[i] # Missing /\ delivery'[i].event = delivery[i].event

LEMMA JobKept ==
  ASSUME NEW j \in Job, Fits(j), Keeps
  PROVE  /\ OwnRows(j) => OwnRows(j)'
         /\ HeardJob(j) => HeardJob(j)'
<1>1. OwnRows(j) => OwnRows(j)'
  BY DEF Keeps, OwnRows
<1>2. HeardJob(j) => HeardJob(j)'
  BY JobFacts DEF Keeps, HeardJob, HeardCopy
<1> QED
  BY <1>1, <1>2

LEMMA JobsKept ==
  ASSUME HeardInv, Keeps, NEW w \in Workers, NEW j \in Job \union {<< >>}, Become(w, j),
         j # << >> => Fits(j) /\ OwnRows(j)' /\ HeardJob(j)'
  PROVE  /\ job' \in [Workers -> Job \union {<< >>}] /\ Working' /\ JobsHeard'
         /\ job'[w] = j /\ \A v \in Workers \ {w} : job'[v] = job[v]
<1>1. /\ job' \in [Workers -> Job \union {<< >>}]
      /\ job'[w] = j /\ \A v \in Workers \ {w} : job'[v] = job[v]
  BY DEF HeardInv, TypeOK, Become
<1>2. ASSUME NEW v \in Workers, Busy(v)'
      PROVE  Fits(job'[v]) /\ OwnRows(job[v])' /\ HeardJob(job[v])'
  <2>1. CASE v = w
    BY <1>1, <1>2, <2>1 DEF Busy, OwnRows, HeardJob, HeardCopy
  <2>2. CASE v # w
    <3>1. job'[v] = job[v] /\ job[v] \in Job /\ Busy(v)
      BY <1>1, <1>2, <2>2 DEF HeardInv, TypeOK, Busy
    <3>2. Fits(job[v]) /\ OwnRows(job[v]) /\ HeardJob(job[v])
      BY <3>1 DEF HeardInv, Working, JobsHeard
    <3>3. PICK k : k = job[v]
      OBVIOUS
    <3>4. OwnRows(k)' /\ HeardJob(k)'
      BY <3>1, <3>2, <3>3, JobKept
    <3> QED
      BY <3>1, <3>2, <3>3, <3>4 DEF OwnRows, HeardJob, HeardCopy
  <2> QED
    BY <2>1, <2>2
<1>3. Working' /\ JobsHeard'
  BY <1>2 DEF Working, JobsHeard, Busy, Fits
<1> QED
  BY <1>1, <1>3

LEMMA TablesKept ==
  ASSUME HeardInv, Keeps,
         \A e \in Events : \/ event'[e] = event[e] \/ event'[e] = Missing
                           \/ event'[e].status # "completed" \/ Heard(e) \/ e \in overridden',
         \A i \in Rows' : \/ i \in Rows /\ delivery'[i] = delivery[i]
                          \/ delivery'[i] = Missing \/ delivery'[i].status # "delivered"
                          \/ delivery'[i].event \in overridden'
                          \/ delivery'[i].event \in Events /\ Heard(delivery'[i].event)
  PROVE  RowsHeard' /\ DeliveriesHeard'
<1>1. RowsHeard'
  BY DEF HeardInv, RowsHeard, Keeps, Exists
<1>2. ASSUME NEW i \in Rows', delivery'[i] # Missing, delivery'[i].status = "delivered",
             delivery'[i].event \notin overridden'
      PROVE  Heard(delivery[i].event)'
  <2>1. CASE i \in Rows /\ delivery'[i] = delivery[i]
    <3>1. delivery[i] \in Delivery
      BY <1>2, <2>1 DEF HeardInv, TypeOK, Rows
    <3>2. PICK e \in Events : e = delivery[i].event
      BY <3>1 DEF Delivery
    <3>3. Heard(e)
      BY <1>2, <2>1, <3>2 DEF HeardInv, DeliveriesHeard, Keeps
    <3> QED
      BY <2>1, <3>2, <3>3 DEF Keeps
  <2>2. CASE delivery'[i].event \in Events /\ Heard(delivery'[i].event)
    <3>1. PICK e \in Events : e = delivery'[i].event
      BY <2>2
    <3> QED
      BY <2>2, <3>1 DEF Keeps
  <2> QED
    BY <1>2, <2>1, <2>2
<1>3. DeliveriesHeard'
  BY <1>2 DEF DeliveriesHeard
<1> QED
  BY <1>1, <1>3

-----------------------------------------------------------------------------
(* Requests arrive. *)

LEMMA Sizes ==
  ASSUME NEW S, IsFiniteSet(S), S # {}
  PROVE  Cardinality(S) \in Nat /\ Cardinality(S) >= 1
BY FS_CardinalityType, FS_EmptySet

\* What a request has read: distinct events, as they are.
Reads(j, set) ==
  /\ j.list # << >>
  /\ \A i \in DOMAIN j.list : j.list[i].id \in set /\ j.list[i].row = event[j.list[i].id]
  /\ \A i, k \in DOMAIN j.list : j.list[i].id = j.list[k].id => i = k

\* The same, but for the status that the admin has put in the form.
Holds(j, set) ==
  \A i \in DOMAIN j.list :
    /\ j.list[i].id \in set
    /\ j.list[i].id \in overridden' \/ j.list[i].row = event[j.list[i].id]

LEMMA Started ==
  ASSUME TypeOK, NEW w \in Workers, NEW set, set \subseteq {e \in Events : Exists(e)},
         NEW view \in {"processor", "retry_failed", "edit"}, NEW stage \in Stage,
         Start(w, view, stage, set)
  PROVE  /\ \E j \in Job : /\ Become(w, j) /\ Reads(j, set)
                           /\ j.view = view /\ j.stage = stage /\ j.made = 0
         /\ job[w] = << >>
         /\ budget' \in 0 .. MaxRequests
         /\ disturbed \subseteq disturbed' /\ disturbed' \subseteq Events
         /\ \A e \in set, v \in Workers : Has(v, e) => e \in disturbed'
         /\ UNCHANGED <<event, fresh, delivery, active, gone, received, unheard, unrecorded, overridden>>
<1>1. /\ job[w] = << >> /\ set # {} /\ Spend
      /\ disturbed' = disturbed \union {e \in set : Listed(e)}
      /\ UNCHANGED <<event, fresh, delivery, active, gone, received, unheard, unrecorded, overridden>>
  BY DEF Start, Busy
<1> DEFINE n == Cardinality(set)
           Jobs(q) == [view |-> view, list |-> [i \in DOMAIN q |-> Copy(q[i])], stage |-> stage,
                       rows |-> << >>, made |-> 0, ok |-> FALSE]
<1>2. n \in Nat /\ n >= 1
  <2>1. IsFiniteSet(set)
    BY EventConstants, FS_Subset
  <2> QED
    BY <1>1, <2>1, Sizes
<1>3. PICK q \in [1 .. n -> set] : /\ \A i, k \in DOMAIN q : i # k => q[i] # q[k]
                                   /\ job' = [job EXCEPT ![w] = Jobs(q)]
  BY DEF Start
<1> HIDE DEF n
<1> DEFINE list == [i \in DOMAIN q |-> Copy(q[i])]
<1>4. /\ DOMAIN list = 1 .. n
      /\ \A i \in 1 .. n : list[i] = [id |-> q[i], row |-> event[q[i]]]
  BY <1>3 DEF Copy
<1>5. \A e \in set : e \in Events /\ event[e] \in Event
  BY DEF TypeOK, Exists
<1>6. list \in Seq([id : Events, row : Event])
  <2>1. list \in [1 .. n -> [id : Events, row : Event]]
    BY <1>3, <1>4, <1>5
  <2> QED
    BY <1>2, <2>1
<1>7. list # << >>
  BY <1>2, <1>4
<1> HIDE DEF list
<1>8. PICK j : j = [view |-> view, list |-> list, stage |-> stage, rows |-> << >>, made |-> 0, ok |-> FALSE]
  OBVIOUS
<1>9. /\ j \in Job /\ j.list = list /\ j.view = view /\ j.stage = stage /\ j.made = 0
  BY <1>6, <1>8 DEF Job
<1>10. Become(w, j)
  BY <1>3, <1>8 DEF Become, list
<1>11. Reads(j, set)
  <2>1. \A i \in DOMAIN list : list[i].id = q[i] /\ list[i].row = event[q[i]] /\ q[i] \in set
    BY <1>3, <1>4
  <2> QED
    BY <1>3, <1>4, <1>7, <1>9, <2>1 DEF Reads
<1>12. /\ disturbed \subseteq disturbed' /\ disturbed' \subseteq Events
       /\ budget' \in 0 .. MaxRequests
  BY <1>1, EventConstants DEF TypeOK, Spend
<1>13. ASSUME NEW e \in set, NEW v \in Workers, Has(v, e) PROVE e \in disturbed'
  <2>1. job[v] \in Job
    BY <1>13 DEF TypeOK, Has, Busy
  <2>2. DOMAIN job[v].list = 1 .. Len(job[v].list)
    BY <2>1 DEF Job
  <2>3. Listed(e)
    BY <1>13, <2>2 DEF Has, Listed
  <2> QED
    BY <1>1, <2>3
<1> QED
  BY <1>1, <1>9, <1>10, <1>11, <1>12, <1>13

LEMMA RequestStarts ==
  ASSUME TypeOK, NEW w \in Workers, Request(w)
  PROVE  \E set \in SUBSET {e \in Events : Exists(e)} :
           /\ \E j \in Job : /\ Become(w, j) /\ Holds(j, set) /\ Fits(j)
                             /\ j.stage \notin Begun /\ j.made = 0
           /\ job[w] = << >>
           /\ budget' \in 0 .. MaxRequests
           /\ disturbed \subseteq disturbed' /\ disturbed' \subseteq Events
           /\ \A e \in set, v \in Workers : Has(v, e) => e \in disturbed'
           /\ overridden \subseteq overridden' /\ overridden' \subseteq Events
           /\ UNCHANGED <<event, fresh, delivery, active, gone, received, unheard, unrecorded>>
<1> DEFINE P == {e \in Events : Exists(e) /\ event[e].status = "pending"}
           F == {e \in Events : Exists(e) /\ Retryable(event[e])}
<1>1. CASE ProcessPending(w)
  <2>1. Start(w, "processor", "mark", P) /\ P \subseteq {e \in Events : Exists(e)}
    BY <1>1 DEF ProcessPending
  <2>2. ASSUME NEW j \in Job, Reads(j, P), j.view = "processor", j.stage = "mark"
        PROVE  Fits(j) /\ j.stage \notin Begun
    BY <2>2 DEF Reads, Fits, Begun, Running, Asking, Sending, Open
  <2>3. "mark" \in Stage
    BY DEF Stage
  <2> HIDE DEF P
  <2>4. /\ \E j \in Job : /\ Become(w, j) /\ Reads(j, P)
                          /\ j.view = "processor" /\ j.stage = "mark" /\ j.made = 0
        /\ job[w] = << >>
        /\ budget' \in 0 .. MaxRequests
        /\ disturbed \subseteq disturbed' /\ disturbed' \subseteq Events
        /\ \A x \in P, v \in Workers : Has(v, x) => x \in disturbed'
        /\ UNCHANGED <<event, fresh, delivery, active, gone, received, unheard, unrecorded, overridden>>
    BY <2>1, <2>3, Started
  <2> QED
    BY <2>1, <2>2, <2>4 DEF TypeOK, Reads, Holds
<1>2. CASE RetryFailed(w)
  <2>1. Start(w, "retry_failed", "retry", F) /\ F \subseteq {e \in Events : Exists(e)}
    BY <1>2 DEF RetryFailed
  <2>2. ASSUME NEW j \in Job, Reads(j, F), j.view = "retry_failed", j.stage = "retry"
        PROVE  Fits(j) /\ j.stage \notin Begun
    BY <2>2 DEF Reads, Fits, Begun, Running, Asking, Sending, Open, Retryable
  <2>3. "retry" \in Stage
    BY DEF Stage
  <2> HIDE DEF F
  <2>4. /\ \E j \in Job : /\ Become(w, j) /\ Reads(j, F)
                          /\ j.view = "retry_failed" /\ j.stage = "retry" /\ j.made = 0
        /\ job[w] = << >>
        /\ budget' \in 0 .. MaxRequests
        /\ disturbed \subseteq disturbed' /\ disturbed' \subseteq Events
        /\ \A x \in F, v \in Workers : Has(v, x) => x \in disturbed'
        /\ UNCHANGED <<event, fresh, delivery, active, gone, received, unheard, unrecorded, overridden>>
    BY <2>1, <2>3, Started
  <2> QED
    BY <2>1, <2>2, <2>4 DEF TypeOK, Reads, Holds
<1>3. ASSUME NEW e \in Events, EditEvent(w, e)
      PROVE  \E set \in SUBSET {x \in Events : Exists(x)} :
               /\ \E j \in Job : /\ Become(w, j) /\ Holds(j, set) /\ Fits(j)
                                 /\ j.stage \notin Begun /\ j.made = 0
               /\ job[w] = << >>
               /\ budget' \in 0 .. MaxRequests
               /\ disturbed \subseteq disturbed' /\ disturbed' \subseteq Events
               /\ \A x \in set, v \in Workers : Has(v, x) => x \in disturbed'
               /\ overridden \subseteq overridden' /\ overridden' \subseteq Events
               /\ UNCHANGED <<event, fresh, delivery, active, gone, received, unheard, unrecorded>>
  <2> DEFINE E == {e}
  <2>1. Start(w, "edit", "edit", E) /\ E \subseteq {x \in Events : Exists(x)}
    BY <1>3 DEF EditEvent
  <2>2. ASSUME NEW j \in Job, Reads(j, E), j.view = "edit", j.stage = "edit"
        PROVE  Fits(j) /\ j.stage \notin Begun
    BY <2>2 DEF Reads, Fits, Begun, Running, Asking, Sending
  <2>3. "edit" \in Stage
    BY DEF Stage
  <2> HIDE DEF E
  <2>4. /\ \E j \in Job : /\ Become(w, j) /\ Reads(j, E)
                          /\ j.view = "edit" /\ j.stage = "edit" /\ j.made = 0
        /\ job[w] = << >>
        /\ budget' \in 0 .. MaxRequests
        /\ disturbed \subseteq disturbed' /\ disturbed' \subseteq Events
        /\ \A x \in E, v \in Workers : Has(v, x) => x \in disturbed'
        /\ UNCHANGED <<event, fresh, delivery, active, gone, received, unheard, unrecorded, overridden>>
    BY <2>1, <2>3, Started
  <2> QED
    BY <2>1, <2>2, <2>4 DEF TypeOK, Reads, Holds
<1>4. ASSUME NEW e \in Events, AdminForm(w, e)
      PROVE  \E set \in SUBSET {x \in Events : Exists(x)} :
               /\ \E j \in Job : /\ Become(w, j) /\ Holds(j, set) /\ Fits(j)
                                 /\ j.stage \notin Begun /\ j.made = 0
               /\ job[w] = << >>
               /\ budget' \in 0 .. MaxRequests
               /\ disturbed \subseteq disturbed' /\ disturbed' \subseteq Events
               /\ \A x \in set, v \in Workers : Has(v, x) => x \in disturbed'
               /\ overridden \subseteq overridden' /\ overridden' \subseteq Events
               /\ UNCHANGED <<event, fresh, delivery, active, gone, received, unheard, unrecorded>>
  <2>1. /\ Exists(e) /\ job[w] = << >> /\ Spend
        /\ disturbed' = disturbed \union {x \in {e} : Listed(x)}
        /\ overridden' = overridden \union {e}
        /\ UNCHANGED <<event, fresh, delivery, active, gone, received, unheard, unrecorded>>
    BY <1>4 DEF AdminForm, Busy
  <2>2. PICK s \in EventStatus :
          job' = [job EXCEPT ![w] =
            [view |-> "edit", list |-> <<[id |-> e, row |-> [event[e] EXCEPT !.status = s]]>>,
             stage |-> "edit", rows |-> << >>, made |-> 0, ok |-> FALSE]]
    BY <1>4 DEF AdminForm
  <2>3. PICK row : row = [event[e] EXCEPT !.status = s]
    OBVIOUS
  <2>4. row \in Event
    BY <2>1, <2>3 DEF TypeOK, Exists, Event
  <2>5. PICK list : list = <<[id |-> e, row |-> row]>>
    OBVIOUS
  <2>6. /\ list \in Seq([id : Events, row : Event]) /\ list # << >>
        /\ DOMAIN list = {1} /\ list[1].id = e
    BY <2>4, <2>5
  <2>7. PICK j : j = [view |-> "edit", list |-> list, stage |-> "edit",
                      rows |-> << >>, made |-> 0, ok |-> FALSE]
    OBVIOUS
  <2>8. /\ j \in Job /\ j.list = list /\ j.view = "edit" /\ j.stage = "edit" /\ j.made = 0
    BY <2>6, <2>7 DEF Job, Stage
  <2>9. Become(w, j)
    BY <2>2, <2>3, <2>5, <2>7 DEF Become
  <2>10. Holds(j, {e})
    BY <2>1, <2>6, <2>8 DEF Holds
  <2>11. Fits(j) /\ j.stage \notin Begun
    BY <2>6, <2>8 DEF Fits, Begun, Running, Asking, Sending
  <2>12. /\ disturbed \subseteq disturbed' /\ disturbed' \subseteq Events
         /\ budget' \in 0 .. MaxRequests
         /\ overridden \subseteq overridden' /\ overridden' \subseteq Events
    BY <2>1, EventConstants DEF TypeOK, Spend
  <2>13. ASSUME NEW v \in Workers, Has(v, e) PROVE e \in disturbed'
    <3>1. job[v] \in Job
      BY <2>13 DEF TypeOK, Has, Busy
    <3>2. DOMAIN job[v].list = 1 .. Len(job[v].list)
      BY <3>1 DEF Job
    <3>3. Listed(e)
      BY <2>13, <3>2 DEF Has, Listed
    <3> QED
      BY <2>1, <3>3
  <2> QED
    BY <2>1, <2>8, <2>9, <2>10, <2>11, <2>12, <2>13
<1> QED
  BY <1>1, <1>2, <1>3, <1>4 DEF Request

LEMMA RequestHeard ==
  ASSUME HeardInv, NEW w \in Workers, Request(w)
  PROVE  HeardInv'
<1>1. PICK set \in SUBSET {e \in Events : Exists(e)}, j \in Job :
        /\ Become(w, j) /\ Holds(j, set) /\ Fits(j) /\ j.stage \notin Begun /\ j.made = 0
        /\ budget' \in 0 .. MaxRequests
        /\ disturbed \subseteq disturbed' /\ disturbed' \subseteq Events
        /\ overridden \subseteq overridden' /\ overridden' \subseteq Events
        /\ UNCHANGED <<event, fresh, delivery, active, gone, received, unheard, unrecorded>>
  BY RequestStarts DEF HeardInv
<1>2. Keeps
  BY <1>1 DEF Keeps, Heard, Rows
<1>3. OwnRows(j)' /\ HeardJob(j)'
  <2>1. OwnRows(j)'
    BY <1>1 DEF OwnRows, Begun, Running, Asking
  <2>2. ASSUME NEW i \in DOMAIN j.list, j.list[i].row.status = "completed", j.list[i].id \notin overridden'
        PROVE  Heard(j.list[i].id)'
    BY <1>1, <2>2 DEF Holds, HeardInv, RowsHeard, Heard
  <2>3. ~(j.made > 0) /\ j.stage # "answer"
    BY <1>1 DEF Begun, Running, Asking, Sending
  <2> QED
    BY <2>1, <2>2, <2>3 DEF HeardJob, HeardCopy
<1>4. job' \in [Workers -> Job \union {<< >>}] /\ Working' /\ JobsHeard'
  BY <1>1, <1>2, <1>3, JobsKept
<1>5. RowsHeard' /\ DeliveriesHeard'
  BY <1>1, <1>2, TablesKept DEF Rows
<1>6. TypeOK'
  BY <1>1, <1>4 DEF HeardInv, TypeOK, Rows
<1> QED
  BY <1>4, <1>5, <1>6 DEF HeardInv

-----------------------------------------------------------------------------
(* What happens to the rows by themselves. *)

LEMMA JobsStay ==
  ASSUME HeardInv, Keeps, job' = job
  PROVE  Working' /\ JobsHeard'
<1>1. ASSUME NEW w \in Workers, Busy(w) PROVE Fits(job[w]) /\ OwnRows(job[w])' /\ HeardJob(job[w])'
  <2>1. PICK j : j = job[w]
    OBVIOUS
  <2>2. j \in Job /\ Fits(j) /\ OwnRows(j) /\ HeardJob(j)
    BY <1>1, <2>1 DEF HeardInv, TypeOK, Busy, Working, JobsHeard
  <2>3. OwnRows(j)' /\ HeardJob(j)'
    BY <2>2, JobKept
  <2> QED
    BY <2>1, <2>2, <2>3 DEF OwnRows, HeardJob, HeardCopy
<1> QED
  BY <1>1 DEF Working, JobsHeard, Busy, Fits

LEMMA PublishHeard ==
  ASSUME HeardInv, NEW e \in Events, Publish(e)
  PROVE  HeardInv'
<1>1. /\ event' = [event EXCEPT ![e] = [status |-> "pending", retry_count |-> 0]] /\ fresh' = fresh \ {e}
      /\ UNCHANGED <<delivery, active, gone, received, job, budget, disturbed, unheard, unrecorded, overridden>>
  BY DEF Publish
<1>2. [status |-> "pending", retry_count |-> 0] \in Event
  BY EventConstants DEF Event, EventStatus
<1>3. Keeps
  BY <1>1 DEF Keeps, Heard, Rows
<1>4. Working' /\ JobsHeard'
  BY <1>1, <1>3, JobsStay
<1>5. /\ event' \in [Events -> Event \union {Missing}]
      /\ \A x \in Events : event[x] # Missing => event'[x] # Missing
      /\ \A x \in Events : event'[x] = event[x] \/ event'[x].status # "completed"
  BY <1>1, <1>2, EventConstants DEF HeardInv, TypeOK
<1>6. RowsHeard' /\ DeliveriesHeard'
  BY <1>1, <1>3, <1>5, TablesKept DEF Rows
<1>7. \A i \in Rows : delivery[i] # Missing => delivery[i].event \in Events
  BY DEF HeardInv, TypeOK, Rows, Delivery
<1>8. TypeOK'
  BY <1>1, <1>5, <1>7 DEF HeardInv, TypeOK, Rows
<1> QED
  BY <1>4, <1>6, <1>8 DEF HeardInv

\* One row of Event is set, by the admin or a statement, or inserted again.
LEMMA RowSet ==
  ASSUME HeardInv, NEW e \in Events, NEW row \in Event, event' = [event EXCEPT ![e] = row],
         delivery' = delivery, Keeps,
         row.status # "completed" \/ Heard(e) \/ e \in overridden'
  PROVE  /\ event' \in [Events -> Event \union {Missing}]
         /\ \A i \in Rows' : delivery'[i] # Missing => event'[delivery'[i].event] # Missing
         /\ RowsHeard' /\ DeliveriesHeard'
<1>1. /\ event' \in [Events -> Event \union {Missing}]
      /\ \A x \in Events : event[x] # Missing => event'[x] # Missing
      /\ \A x \in Events : x # e => event'[x] = event[x]
      /\ event'[e] = row
  BY EventConstants DEF HeardInv, TypeOK
<1>2. \A i \in Rows : delivery[i] # Missing => delivery[i].event \in Events /\ event[delivery[i].event] # Missing
  BY DEF HeardInv, TypeOK, Rows, Delivery
<1>3. RowsHeard' /\ DeliveriesHeard'
  <2>1. \A x \in Events : \/ event'[x] = event[x] \/ event'[x] = Missing
                          \/ event'[x].status # "completed" \/ Heard(x) \/ x \in overridden'
    BY <1>1
  <2>2. \A i \in Rows' : i \in Rows /\ delivery'[i] = delivery[i]
    BY DEF Rows
  <2> QED
    BY <2>1, <2>2, TablesKept
<1> QED
  BY <1>1, <1>2, <1>3 DEF Rows

\* One row of EventDelivery is set.
LEMMA DeliverySet ==
  ASSUME HeardInv, NEW i \in Rows, delivery[i] # Missing, NEW row \in Delivery, row.event = delivery[i].event,
         delivery' = [delivery EXCEPT ![i] = row], event' = event,
         \A e \in Events : Heard(e) => Heard(e)', overridden \subseteq overridden',
         row.status # "delivered" \/ row.event \in overridden' \/ Heard(row.event)
  PROVE  /\ Keeps
         /\ delivery' \in Seq(Delivery \union {Missing})
         /\ \A k \in Rows' : delivery'[k] # Missing => event'[delivery'[k].event] # Missing
         /\ RowsHeard' /\ DeliveriesHeard'
         /\ delivery'[i] = row /\ Rows' = Rows
<1>1. /\ delivery \in Seq(Delivery \union {Missing}) /\ Rows = DOMAIN delivery
      /\ \A k \in Rows : delivery[k] \in Delivery \union {Missing}
  BY DEF HeardInv, TypeOK, Rows
<1>2. /\ delivery' \in Seq(Delivery \union {Missing}) /\ Rows' = Rows
      /\ delivery'[i] = row /\ \A k \in Rows : k # i => delivery'[k] = delivery[k]
  BY <1>1, ExceptSeq DEF Rows
<1>3. row # Missing
  BY EventConstants
<1>4. Keeps
  BY <1>2 DEF Keeps
<1>5. row.event \in Events
  BY DEF Delivery
<1>6. RowsHeard' /\ DeliveriesHeard'
  BY <1>2, <1>4, <1>5, TablesKept
<1>7. \A k \in Rows' : delivery'[k] # Missing => event'[delivery'[k].event] # Missing
  BY <1>2 DEF HeardInv, TypeOK
<1> QED
  BY <1>2, <1>4, <1>6, <1>7

LEMMA DestroyHeard ==
  ASSUME HeardInv, NEW e \in Events, DestroyEvent(e)
  PROVE  HeardInv'
<1>1. /\ event' = [event EXCEPT ![e] = Missing]
      /\ delivery' = [i \in Rows |-> IF delivery[i] # Missing /\ delivery[i].event = e
                                       THEN Missing ELSE delivery[i]]
      /\ disturbed' = disturbed \union {x \in {e} : Listed(x)} /\ Spend
      /\ UNCHANGED <<fresh, active, gone, received, job, unheard, unrecorded, overridden>>
  BY DEF DestroyEvent
<1>2. /\ delivery' \in Seq(Delivery \union {Missing}) /\ Rows' = Rows
      /\ \A i \in Rows : \/ delivery'[i] = Missing
                         \/ delivery'[i] = delivery[i] /\ delivery[i].event # e
  <2>1. Len(delivery) \in Nat /\ \A i \in Rows : delivery[i] \in Delivery \union {Missing}
    BY DEF HeardInv, TypeOK, Rows
  <2>2. delivery' \in [1 .. Len(delivery) -> Delivery \union {Missing}]
    BY <1>1, <2>1 DEF Rows
  <2>3. delivery' \in Seq(Delivery \union {Missing}) /\ Len(delivery') = Len(delivery)
    BY <2>1, <2>2
  <2> QED
    BY <1>1, <2>3 DEF Rows
<1>3. Keeps
  BY <1>1, <1>2 DEF Keeps, Heard
<1>4. Working' /\ JobsHeard'
  BY <1>1, <1>3, JobsStay
<1>5. event' \in [Events -> Event \union {Missing}] /\ \A x \in Events : event'[x] = event[x] \/ event'[x] = Missing
  BY <1>1 DEF HeardInv, TypeOK
<1>6. RowsHeard' /\ DeliveriesHeard'
  BY <1>2, <1>3, <1>5, TablesKept
<1>7. \A i \in Rows' : delivery'[i] # Missing => event'[delivery'[i].event] # Missing
  <2>1. \A i \in Rows : delivery[i] # Missing => delivery[i].event \in Events /\ event[delivery[i].event] # Missing
    BY DEF HeardInv, TypeOK, Rows, Delivery
  <2> QED
    BY <1>1, <1>2, <2>1 DEF HeardInv, TypeOK
<1>8. budget' \in 0 .. MaxRequests /\ disturbed' \subseteq Events
  BY <1>1, EventConstants DEF HeardInv, TypeOK, Spend
<1>9. TypeOK'
  BY <1>1, <1>2, <1>5, <1>7, <1>8 DEF HeardInv, TypeOK
<1> QED
  BY <1>4, <1>6, <1>9 DEF HeardInv

LEMMA AdminHeard ==
  ASSUME HeardInv, Administer \/ \E s \in Subs : Subscribe(s) \/ DestroySubscription(s)
  PROVE  HeardInv'
<1>1. /\ UNCHANGED <<fresh, received, job, disturbed, unheard, unrecorded>> /\ overridden \subseteq overridden'
      /\ budget' \in 0 .. MaxRequests
  BY EventConstants
     DEF HeardInv, TypeOK, Administer, Subscribe, DestroySubscription, AdminRetryEvent, AdminMarkEvent, RetryDelivery,
         AdminMarkDelivery, Spend
<1>2. job' = job /\ \A x \in Events : Heard(x) => Heard(x)'
  BY <1>1 DEF Heard
<1>3. ASSUME NEW e \in Events, AdminRetryEvent(e) \/ AdminMarkEvent(e) PROVE HeardInv'
  <2>1. /\ UNCHANGED <<delivery, active, gone>> /\ delivery' = delivery /\ overridden' = overridden \union {e}
        /\ Exists(e)
    BY <1>3 DEF AdminRetryEvent, AdminMarkEvent
  <2>2. PICK row \in Event : event' = [event EXCEPT ![e] = row]
    <3>1. event[e] \in Event
      BY <2>1 DEF HeardInv, TypeOK, Exists
    <3>2. CASE AdminRetryEvent(e)
      <4>1. event' = [event EXCEPT ![e] = Incremented(event[e])] /\ event[e].retry_count < MaxRetries
        BY <3>2 DEF AdminRetryEvent
      <4>2. Incremented(event[e]) \in Event
        BY <3>1, <4>1, EventConstants DEF Incremented, Event, EventStatus
      <4> QED
        BY <4>1, <4>2
    <3>3. CASE AdminMarkEvent(e)
      <4>1. PICK s \in {"completed", "failed"} : event' = [event EXCEPT ![e].status = s]
        BY <3>3 DEF AdminMarkEvent
      <4>2. [event[e] EXCEPT !.status = s] \in Event
        BY <3>1 DEF Event, EventStatus
      <4> QED
        BY <4>1, <4>2
    <3> QED
      BY <1>3, <3>2, <3>3
  <2>3. Keeps
    BY <1>1, <1>2, <2>1 DEF Keeps, Rows
  <2>4. /\ event' \in [Events -> Event \union {Missing}]
        /\ \A i \in Rows' : delivery'[i] # Missing => event'[delivery'[i].event] # Missing
        /\ RowsHeard' /\ DeliveriesHeard'
    BY <2>1, <2>2, <2>3, RowSet
  <2>5. Working' /\ JobsHeard'
    BY <1>2, <2>3, JobsStay
  <2>6. TypeOK'
    BY <1>1, <2>1, <2>4 DEF HeardInv, TypeOK
  <2> QED
    BY <2>4, <2>5, <2>6 DEF HeardInv
<1>4. ASSUME NEW i \in Rows, RetryDelivery(i) \/ AdminMarkDelivery(i) PROVE HeardInv'
  <2>1. /\ UNCHANGED <<event, active, gone>> /\ event' = event /\ delivery[i] # Missing
    BY <1>4 DEF RetryDelivery, AdminMarkDelivery
  <2>2. delivery[i] \in Delivery
    BY <2>1 DEF HeardInv, TypeOK, Rows
  <2>3. PICK row \in Delivery : /\ delivery' = [delivery EXCEPT ![i] = row] /\ row.event = delivery[i].event
                                /\ row.status # "delivered" \/ row.event \in overridden'
    <3>1. CASE RetryDelivery(i)
      <4>1. delivery' = [delivery EXCEPT ![i] = CountAttempt(delivery[i])] /\ delivery[i].attempt_count < MaxAttempts
        BY <3>1 DEF RetryDelivery
      <4>2. /\ CountAttempt(delivery[i]) \in Delivery /\ CountAttempt(delivery[i]).event = delivery[i].event
            /\ CountAttempt(delivery[i]).status # "delivered"
        <5>1. PICK n \in 0 .. MaxAttempts, st \in DeliveryStatus \ {"delivered"} :
                CountAttempt(delivery[i]) = [delivery[i] EXCEPT !.attempt_count = n, !.status = st]
          <6>1. delivery[i].attempt_count + 1 \in 0 .. MaxAttempts
            BY <2>2, <4>1, EventConstants DEF Delivery
          <6>2. (IF delivery[i].attempt_count + 1 >= MaxAttempts THEN "failed" ELSE "retry")
                  \in DeliveryStatus \ {"delivered"}
            BY DEF DeliveryStatus
          <6> QED
            BY <6>1, <6>2 DEF CountAttempt
        <5> QED
          BY <2>2, <5>1 DEF Delivery
      <4> QED
        BY <4>1, <4>2
    <3>2. CASE AdminMarkDelivery(i)
      <4>1. PICK s \in DeliveryStatus : /\ delivery' = [delivery EXCEPT ![i].status = s]
                                        /\ overridden' = overridden \union {delivery[i].event}
        BY <3>2 DEF AdminMarkDelivery
      <4>2. /\ [delivery[i] EXCEPT !.status = s] \in Delivery
            /\ [delivery[i] EXCEPT !.status = s].event = delivery[i].event
        BY <2>2 DEF Delivery
      <4>3. PICK row : row = [delivery[i] EXCEPT !.status = s]
        OBVIOUS
      <4>4. delivery' = [delivery EXCEPT ![i] = row]
        BY <4>1, <4>3
      <4>5. row \in Delivery /\ row.event = delivery[i].event /\ row.event \in overridden'
        BY <4>1, <4>2, <4>3
      <4> QED
        BY <4>4, <4>5
    <3> QED
      BY <1>4, <3>1, <3>2
  <2>4. /\ Keeps
        /\ delivery' \in Seq(Delivery \union {Missing})
        /\ \A k \in Rows' : delivery'[k] # Missing => event'[delivery'[k].event] # Missing
        /\ RowsHeard' /\ DeliveriesHeard'
    BY <1>1, <1>2, <2>1, <2>3, DeliverySet
  <2>5. Working' /\ JobsHeard'
    BY <1>2, <2>4, JobsStay
  <2>6. overridden' \subseteq Events
    BY <1>4, <2>2 DEF RetryDelivery, AdminMarkDelivery, HeardInv, TypeOK, Delivery
  <2>7. TypeOK'
    BY <1>1, <2>1, <2>4, <2>6 DEF HeardInv, TypeOK
  <2> QED
    BY <2>4, <2>5, <2>7 DEF HeardInv
<1>5. ASSUME NEW s \in Subs, Subscribe(s) PROVE HeardInv'
  <2>1. UNCHANGED <<event, delivery, gone, overridden>> /\ active' \subseteq Subs \ gone
    BY <1>5 DEF Subscribe, HeardInv, TypeOK
  <2>2. Keeps
    BY <1>2, <2>1 DEF Keeps, Rows
  <2>3. Working' /\ JobsHeard' /\ RowsHeard' /\ DeliveriesHeard'
    BY <1>2, <2>1, <2>2, JobsStay, TablesKept DEF Rows
  <2>4. TypeOK'
    BY <1>1, <2>1 DEF HeardInv, TypeOK, Rows
  <2> QED
    BY <2>3, <2>4 DEF HeardInv
<1>6. ASSUME NEW s \in Subs, DestroySubscription(s) PROVE HeardInv'
  <2>1. /\ delivery' = [i \in Rows |-> IF delivery[i] # Missing /\ delivery[i].sub = s
                                         THEN Missing ELSE delivery[i]]
        /\ UNCHANGED <<event, overridden>>
        /\ active' \subseteq Subs \ gone' /\ gone' \subseteq Subs
    BY <1>6 DEF DestroySubscription, HeardInv, TypeOK
  <2>2. /\ delivery' \in Seq(Delivery \union {Missing}) /\ Rows' = Rows
        /\ \A i \in Rows : delivery'[i] = Missing \/ delivery'[i] = delivery[i]
    <3>1. Len(delivery) \in Nat /\ \A i \in Rows : delivery[i] \in Delivery \union {Missing}
      BY DEF HeardInv, TypeOK, Rows
    <3>2. delivery' \in [1 .. Len(delivery) -> Delivery \union {Missing}]
      BY <2>1, <3>1 DEF Rows
    <3>3. delivery' \in Seq(Delivery \union {Missing}) /\ Len(delivery') = Len(delivery)
      BY <3>1, <3>2
    <3> QED
      BY <2>1, <3>3 DEF Rows
  <2>3. Keeps
    BY <1>2, <2>1, <2>2 DEF Keeps
  <2>4. Working' /\ JobsHeard'
    BY <1>2, <2>3, JobsStay
  <2>5. RowsHeard' /\ DeliveriesHeard'
    BY <2>1, <2>2, <2>3, TablesKept
  <2>6. \A i \in Rows' : delivery'[i] # Missing => event'[delivery'[i].event] # Missing
    BY <2>1, <2>2 DEF HeardInv, TypeOK
  <2>7. TypeOK'
    BY <1>1, <2>1, <2>2, <2>6 DEF HeardInv, TypeOK
  <2> QED
    BY <2>4, <2>5, <2>7 DEF HeardInv
<1> QED
  BY <1>3, <1>4, <1>5, <1>6 DEF Administer

-----------------------------------------------------------------------------
(* The statements of a request. *)

LEMMA AtWork ==
  ASSUME HeardInv, NEW w \in Workers, Busy(w)
  PROVE  /\ job[w] \in Job /\ Fits(job[w]) /\ OwnRows(job[w]) /\ HeardJob(job[w])
         /\ This(w) = job[w].list[1].id /\ This(w) \in Events
         /\ Head(job[w].list) = job[w].list[1] /\ job[w].list[1].row \in Event
<1>1. job[w] \in Job /\ Fits(job[w]) /\ OwnRows(job[w]) /\ HeardJob(job[w])
  BY DEF HeardInv, TypeOK, Busy, Working, JobsHeard
<1>2. PICK j : j = job[w]
  OBVIOUS
<1>3. Head(j.list) = j.list[1] /\ j.list[1].id \in Events /\ j.list[1].row \in Event
  BY <1>1, <1>2, JobFacts
<1> QED
  BY <1>1, <1>2, <1>3 DEF This

\* The same event, one statement further.
Onward(j, k) ==
  /\ k \in Job /\ k.list = j.list /\ k.view = j.view /\ j.view # "edit"
  /\ k.stage \notin {"retry", "edit"} /\ (k.stage \in Asking => k.rows # << >>)

\* A statement raises: the except clause is next.
Raises(j, k) == Onward(j, k) /\ k.made = j.made /\ k.stage = "except"

LEMMA OnwardKeeps ==
  ASSUME NEW j \in Job, NEW k, Fits(j), HeardJob(j), Onward(j, k),
         k.made > 0 \/ (k.stage = "answer" /\ k.ok) =>
           j.made > 0 \/ (j.stage = "answer" /\ j.ok) \/ Heard(j.list[1].id)
  PROVE  k \in Job /\ Fits(k) /\ HeardJob(k)
<1>1. Fits(k)
  BY DEF Fits, Onward
<1>2. HeardJob(k)
  BY DEF HeardJob, HeardCopy, Onward
<1> QED
  BY <1>1, <1>2 DEF Onward

LEMMA StageSet ==
  ASSUME NEW j \in Job, NEW s \in Stage
  PROVE  /\ [j EXCEPT !.stage = s] \in Job
         /\ [j EXCEPT !.stage = s].list = j.list /\ [j EXCEPT !.stage = s].view = j.view
         /\ [j EXCEPT !.stage = s].rows = j.rows /\ [j EXCEPT !.stage = s].made = j.made
         /\ [j EXCEPT !.stage = s].ok = j.ok /\ [j EXCEPT !.stage = s].stage = s
BY DEF Job

LEMMA RaiseDoes ==
  ASSUME NEW j \in Job, j.view # "edit"
  PROVE  Raises(j, [j EXCEPT !.stage = "except"])
<1>1. "except" \in Stage /\ "except" \notin Asking
  BY DEF Stage, Asking, Sending
<1> QED
  BY <1>1, StageSet DEF Raises, Onward

\* A statement that touches the row of the event at most.
LEMMA EventStatement ==
  ASSUME HeardInv, NEW w \in Workers, Busy(w), NEW e, e = This(w), NEW j, j = job[w], NEW k, Become(w, k),
         \/ Over(j, k)
         \/ Onward(j, k) /\ k.made = j.made /\ k.stage \notin Sending,
         \/ event' = event
         \/ \E row \in Event : /\ event' = [event EXCEPT ![e] = row]
                               /\ row.status # "completed" \/ Heard(e) \/ e \in overridden,
         UNCHANGED <<fresh, delivery, active, gone, received, budget, disturbed, overridden>>,
         unheard' \subseteq Events, unrecorded' \subseteq Events
  PROVE  HeardInv'
<1>1. /\ j \in Job /\ Fits(j) /\ OwnRows(j) /\ HeardJob(j) /\ e = j.list[1].id /\ e \in Events
      /\ overridden' = overridden /\ delivery' = delivery
  BY AtWork
<1>2. Keeps
  BY DEF Keeps, Heard, Rows
<1>3. k # << >> => k \in Job /\ Fits(k) /\ HeardJob(k) /\ k.stage \notin Sending
  <2>1. CASE Over(j, k)
    BY <1>1, <2>1, OverKeeps DEF Begun, Running, Asking
  <2>2. CASE Onward(j, k) /\ k.made = j.made /\ k.stage \notin Sending
    BY <1>1, <2>2, OnwardKeeps DEF Sending
  <2> QED
    BY <2>1, <2>2
<1>4. k # << >> => OwnRows(k)' /\ HeardJob(k)'
  <2>1. k # << >> => OwnRows(k)
    BY <1>3 DEF OwnRows
  <2> QED
    BY <1>2, <1>3, <2>1, JobKept
<1>5. job' \in [Workers -> Job \union {<< >>}] /\ Working' /\ JobsHeard'
  BY <1>2, <1>3, <1>4, JobsKept
<1>6. /\ event' \in [Events -> Event \union {Missing}]
      /\ \A i \in Rows' : delivery'[i] # Missing => event'[delivery'[i].event] # Missing
      /\ RowsHeard' /\ DeliveriesHeard'
  <2>1. CASE event' = event
    BY <1>2, <2>1, TablesKept DEF Rows, HeardInv, TypeOK
  <2>2. ASSUME NEW row \in Event, event' = [event EXCEPT ![e] = row],
               row.status # "completed" \/ Heard(e) \/ e \in overridden
        PROVE  /\ event' \in [Events -> Event \union {Missing}]
               /\ \A i \in Rows' : delivery'[i] # Missing => event'[delivery'[i].event] # Missing
               /\ RowsHeard' /\ DeliveriesHeard'
    BY <1>1, <1>2, <2>2, RowSet
  <2> QED
    BY <2>1, <2>2
<1>7. TypeOK'
  BY <1>5, <1>6 DEF HeardInv, TypeOK
<1> QED
  BY <1>5, <1>6, <1>7 DEF HeardInv

LEMMA IncrementRetryDoes ==
  ASSUME HeardInv, NEW w \in Workers, IncrementRetry(w), NEW e, e = This(w), NEW j, j = job[w]
  PROVE  \E k : /\ Become(w, k) /\ Busy(w) /\ j.stage = "retry"
                /\ \/ event' = event /\ k = << >>
                   \/ \E row \in Event : /\ event' = [event EXCEPT ![e] = row] /\ Exists(e)
                                         /\ row.status \in {"failed", "retry"}
                                         /\ \/ Over(j, k)
                                            \/ Onward(j, k) /\ k.made = j.made /\ k.stage = "mark"
<1>1. /\ Busy(w) /\ j.stage = "retry" /\ j \in Job /\ Fits(j) /\ j.list[1].row \in Event
      /\ Head(j.list) = j.list[1] /\ 1 \in DOMAIN j.list
  BY AtWork, JobFacts DEF IncrementRetry, At
<1> DEFINE c   == j.list[1].row
           row == Incremented(c)
           k   == IF row.status = "retry" THEN [j EXCEPT !.stage = "mark"] ELSE NextEvent(j)
<1>2. j.view = "retry_failed" /\ c.retry_count < MaxRetries
  BY <1>1 DEF Fits
<1>3. row \in Event /\ row.status \in {"failed", "retry"}
  BY <1>1, <1>2, EventConstants DEF Incremented, Event, EventStatus
<1>4. CASE ~Exists(e)
  BY <1>1, <1>4 DEF IncrementRetry
<1>5. CASE Exists(e)
  <2>1. event' = [event EXCEPT ![e] = row] /\ Become(w, k)
    BY <1>1, <1>5 DEF IncrementRetry
  <2>2. Over(j, k) \/ (Onward(j, k) /\ k.made = j.made /\ k.stage = "mark")
    <3>1. "mark" \in Stage /\ "mark" \notin Asking \union {"retry", "edit"}
      BY DEF Stage, Asking, Sending
    <3> HIDE DEF row
    <3> QED
      BY <1>1, <1>2, <3>1, StageSet DEF Over, Onward
  <2> HIDE DEF k, row
  <2> QED
    BY <1>1, <1>3, <1>5, <2>1, <2>2
<1> QED
  BY <1>4, <1>5

LEMMA MarkProcessingDoes ==
  ASSUME HeardInv, NEW w \in Workers, MarkProcessing(w), NEW e, e = This(w), NEW j, j = job[w]
  PROVE  \E k : /\ Become(w, k) /\ Busy(w) /\ j.stage = "mark"
                /\ \/ event' = event /\ ~Exists(e) /\ Raises(j, k)
                   \/ \E row \in Event : /\ event' = [event EXCEPT ![e] = row] /\ Exists(e)
                                         /\ row.status = "processing"
                                         /\ Onward(j, k) /\ k.made = j.made /\ k.stage = "subscriptions"
<1>1. /\ Busy(w) /\ j.stage = "mark" /\ j \in Job /\ Fits(j)
  BY AtWork DEF MarkProcessing, At
<1>2. j.view # "edit"
  BY <1>1 DEF Fits
<1>3. CASE ~Exists(e)
  <2>1. event' = event /\ Become(w, [j EXCEPT !.stage = "except"])
    BY <1>3 DEF MarkProcessing, Raise
  <2> QED
    BY <1>1, <1>2, <1>3, <2>1, RaiseDoes
<1>4. CASE Exists(e)
  <2> DEFINE k   == [j EXCEPT !.stage = "subscriptions"]
             row == [event[e] EXCEPT !.status = "processing"]
  <2>1. event' = [event EXCEPT ![e] = row] /\ Become(w, k)
    BY <1>4 DEF MarkProcessing
  <2>2. row \in Event /\ row.status = "processing"
    <3>1. event[e] \in Event
      BY <1>1, <1>4, AtWork DEF HeardInv, TypeOK, Exists
    <3> QED
      BY <3>1 DEF Event, EventStatus
  <2>3. Onward(j, k) /\ k.made = j.made /\ k.stage = "subscriptions"
    <3>1. "subscriptions" \in Stage /\ "subscriptions" \notin Asking \union {"retry", "edit"}
      BY DEF Stage, Asking, Sending
    <3> QED
      BY <1>1, <1>2, <3>1, StageSet DEF Onward
  <2> HIDE DEF k, row
  <2> QED
    BY <1>1, <1>4, <2>1, <2>2, <2>3
<1> QED
  BY <1>3, <1>4

LEMMA FinishDoes ==
  ASSUME HeardInv, NEW w \in Workers, Finish(w), NEW e, e = This(w), NEW j, j = job[w]
  PROVE  \E k : /\ Become(w, k) /\ Busy(w) /\ j.stage = "finish"
                /\ \/ event' = event /\ Raises(j, k)
                   \/ \E row \in Event : /\ event' = [event EXCEPT ![e] = row] /\ Exists(e) /\ Over(j, k)
                                         /\ row.status = IF j.made > 0 THEN "completed" ELSE "failed"
<1>1. /\ Busy(w) /\ j.stage = "finish" /\ j \in Job /\ Fits(j)
  BY AtWork DEF Finish, At
<1>2. Over(j, NextEvent(j)) /\ Raises(j, [j EXCEPT !.stage = "except"])
  BY <1>1, RaiseDoes DEF Over, Fits
<1>3. CASE ~Exists(e)
  <2>1. event' = event /\ Become(w, [j EXCEPT !.stage = "except"])
    BY <1>3 DEF Finish, Raise
  <2> QED
    BY <1>1, <1>2, <2>1
<1>4. CASE Exists(e)
  <2> DEFINE s   == IF j.made > 0 THEN "completed" ELSE "failed"
             row == [event[e] EXCEPT !.status = s]
  <2>1. event' = [event EXCEPT ![e] = row] /\ Become(w, NextEvent(j))
    BY <1>4 DEF Finish
  <2>2. s \in EventStatus
    BY DEF EventStatus
  <2> HIDE DEF s
  <2>3. row \in Event /\ row.status = s
    <3>1. event[e] \in Event
      BY <1>1, <1>4, AtWork DEF HeardInv, TypeOK, Exists
    <3> QED
      BY <2>2, <3>1 DEF Event
  <2> HIDE DEF row
  <2> QED
    BY <1>1, <1>2, <1>4, <2>1, <2>3 DEF s
<1> QED
  BY <1>3, <1>4

LEMMA SaveEventDoes ==
  ASSUME HeardInv, NEW w \in Workers, SaveEvent(w), NEW e, e = This(w), NEW j, j = job[w]
  PROVE  /\ Become(w, << >>) /\ Busy(w) /\ j.stage = "edit"
         /\ event' = [event EXCEPT ![e] = j.list[1].row] /\ j.list[1].row \in Event
         /\ j.list[1].row.status = "completed" => Heard(e) \/ e \in overridden
<1>1. /\ Busy(w) /\ j.stage = "edit" /\ j \in Job /\ Fits(j) /\ HeardJob(j) /\ e = j.list[1].id
      /\ Head(j.list) = j.list[1] /\ j.list[1].row \in Event /\ 1 \in DOMAIN j.list
  BY AtWork, JobFacts DEF SaveEvent, At
<1> QED
  BY <1>1 DEF SaveEvent, HeardJob, HeardCopy

\* Whoever has accepted an event that is marked failed so is on record.
LEMMA MarkFailedDoes ==
  ASSUME HeardInv, NEW w \in Workers, MarkFailed(w), NEW e, e = This(w), NEW j, j = job[w]
  PROVE  /\ \E k : Become(w, k) /\ Over(j, k)
         /\ Busy(w) /\ j.stage = "except"
         /\ \/ event' = event
            \/ \E row \in Event : event' = [event EXCEPT ![e] = row] /\ row.status = "failed"
         /\ unrecorded \subseteq unrecorded' /\ unrecorded' \subseteq Events
         /\ e \in unrecorded' \/ Quiet(e)
<1>1. /\ Busy(w) /\ j.stage = "except" /\ j \in Job /\ Fits(j) /\ e \in Events
  BY AtWork DEF MarkFailed, At
<1>2. \E k : Become(w, k) /\ Over(j, k)
  <2>1. Over(j, NextEvent(j)) /\ Over(j, << >>)
    BY <1>1 DEF Over, Fits
  <2>2. Become(w, IF j.view = "retry_failed" THEN << >> ELSE NextEvent(j))
    BY DEF MarkFailed
  <2>3. CASE j.view = "retry_failed"
    BY <2>1, <2>2, <2>3
  <2>4. CASE j.view # "retry_failed"
    BY <2>1, <2>2, <2>4
  <2> QED
    BY <2>3, <2>4
<1>3. \/ event' = event
      \/ \E row \in Event : event' = [event EXCEPT ![e] = row] /\ row.status = "failed"
  <2>1. CASE ~Exists(e)
    BY <2>1 DEF MarkFailed
  <2>2. CASE Exists(e)
    <3> DEFINE row == [event[e] EXCEPT !.status = "failed"]
    <3>1. event' = [event EXCEPT ![e] = row]
      BY <2>2 DEF MarkFailed
    <3>2. row \in Event /\ row.status = "failed"
      <4>1. event[e] \in Event
        BY <1>1, <2>2 DEF HeardInv, TypeOK, Exists
      <4> QED
        BY <4>1 DEF Event, EventStatus
    <3> QED
      BY <3>1, <3>2
  <2> QED
    BY <2>1, <2>2
<1>4. unrecorded' = IF \E s \in Subs : received[e][s] > 0 THEN unrecorded \union {e} ELSE unrecorded
  BY DEF MarkFailed
<1>5. \A s \in Subs : received[e][s] \in Nat
  BY <1>1 DEF HeardInv, TypeOK
<1>6. unrecorded \subseteq Events
  BY DEF HeardInv, TypeOK
<1> QED
  BY <1>1, <1>2, <1>3, <1>4, <1>5, <1>6 DEF Quiet

\* The active subscriptions, each once.
LEMMA FindSubscriptionsDoes ==
  ASSUME HeardInv, NEW w \in Workers, FindSubscriptions(w), NEW e, e = This(w), NEW j, j = job[w]
  PROVE  \E k : /\ Become(w, k) /\ Busy(w) /\ j.stage = "subscriptions" /\ unheard' \subseteq Events
                /\ \/ Over(j, k)
                   \/ /\ Onward(j, k) /\ k.made = j.made /\ k.stage = "create"
                      /\ \A i, l \in DOMAIN k.rows : k.rows[i].sub = k.rows[l].sub => i = l
<1>1. /\ Busy(w) /\ j.stage = "subscriptions" /\ j \in Job /\ Fits(j) /\ e \in Events
  BY AtWork DEF FindSubscriptions, At
<1>2. Over(j, NextEvent(j)) /\ j.view # "edit"
  BY <1>1 DEF Over, Fits
<1>3. CASE active = {}
  <2>1. Become(w, NextEvent(j)) /\ unheard' \subseteq Events
    BY <1>1, <1>3 DEF FindSubscriptions, HeardInv, TypeOK
  <2> QED
    BY <1>1, <1>2, <2>1
<1>4. CASE active # {}
  <2> DEFINE c == Cardinality(active)
             rows(q) == [i \in DOMAIN q |-> [id |-> 0, sub |-> q[i]]]
  <2>1. c \in Nat /\ c >= 1
    <3>1. IsFiniteSet(active)
      BY EventConstants, FS_Subset DEF HeardInv, TypeOK
    <3> QED
      BY <1>4, <3>1, Sizes
  <2>2. PICK q \in [1 .. c -> active] :
          /\ \A i, l \in DOMAIN q : i # l => q[i] # q[l]
          /\ Become(w, [j EXCEPT !.stage = "create", !.rows = rows(q)])
    BY <1>4 DEF FindSubscriptions
  <2>3. unheard' \subseteq Events
    BY <1>4 DEF FindSubscriptions, HeardInv, TypeOK
  <2> HIDE DEF c
  <2>4. PICK r : r = rows(q)
    OBVIOUS
  <2>5. /\ r \in Seq([id : Nat, sub : Subs]) /\ DOMAIN r = 1 .. c /\ r # << >>
        /\ \A i \in 1 .. c : r[i].sub = q[i]
    <3>1. PICK T : T = [id : Nat, sub : Subs]
      OBVIOUS
    <3>2. active \subseteq Subs
      BY DEF HeardInv, TypeOK
    <3>3. r \in [1 .. c -> T] /\ \A i \in 1 .. c : r[i].sub = q[i]
      BY <2>2, <2>4, <3>1, <3>2
    <3>4. r \in Seq(T) /\ Len(r) = c
      BY <2>1, <3>3
    <3>5. r # << >>
      BY <2>1, <3>4
    <3> QED
      BY <3>1, <3>3, <3>4, <3>5
  <2>6. PICK k : k = [j EXCEPT !.stage = "create", !.rows = r]
    OBVIOUS
  <2>7. Onward(j, k) /\ k.made = j.made /\ k.stage = "create" /\ k.rows = r
    BY <1>1, <1>2, <2>5, <2>6 DEF Onward, Job, Stage
  <2>8. Become(w, k)
    BY <2>2, <2>4, <2>6
  <2>9. \A i, l \in DOMAIN k.rows : k.rows[i].sub = k.rows[l].sub => i = l
    BY <2>2, <2>5, <2>7
  <2> QED
    BY <1>1, <2>3, <2>7, <2>8, <2>9
<1> QED
  BY <1>3, <1>4

LEMMA EventStatementsHeard ==
  ASSUME HeardInv, NEW w \in Workers,
         \/ IncrementRetry(w) \/ MarkProcessing(w) \/ FindSubscriptions(w) \/ Finish(w)
         \/ MarkFailed(w) \/ SaveEvent(w) \/ Crash(w)
  PROVE  HeardInv'
<1>1. PICK e, j : e = This(w) /\ j = job[w]
  OBVIOUS
<1>2. unheard \subseteq Events /\ unrecorded \subseteq Events
  BY DEF HeardInv, TypeOK
<1>3. CASE IncrementRetry(w)
  <2>1. UNCHANGED <<fresh, delivery, active, gone, received, budget, disturbed, unheard, unrecorded, overridden>>
    BY <1>3 DEF IncrementRetry
  <2>2. PICK k : /\ Become(w, k) /\ Busy(w) /\ j.stage = "retry"
                 /\ \/ event' = event /\ k = << >>
                    \/ \E row \in Event : /\ event' = [event EXCEPT ![e] = row] /\ Exists(e)
                                          /\ row.status \in {"failed", "retry"}
                                          /\ \/ Over(j, k)
                                             \/ Onward(j, k) /\ k.made = j.made /\ k.stage = "mark"
    BY <1>1, <1>3, IncrementRetryDoes
  <2>3. Over(j, k) \/ (Onward(j, k) /\ k.made = j.made /\ k.stage \notin Sending)
    BY <2>2 DEF Over, Sending
  <2>4. \/ event' = event
        \/ \E row \in Event : /\ event' = [event EXCEPT ![e] = row]
                              /\ row.status # "completed" \/ Heard(e) \/ e \in overridden
    BY <2>2
  <2> QED
    BY <1>1, <1>2, <2>1, <2>2, <2>3, <2>4, EventStatement
<1>4. CASE MarkProcessing(w)
  <2>1. UNCHANGED <<fresh, delivery, active, gone, received, budget, disturbed, unheard, unrecorded, overridden>>
    BY <1>4 DEF MarkProcessing
  <2>2. PICK k : /\ Become(w, k) /\ Busy(w) /\ j.stage = "mark"
                 /\ \/ event' = event /\ ~Exists(e) /\ Raises(j, k)
                    \/ \E row \in Event : /\ event' = [event EXCEPT ![e] = row] /\ Exists(e)
                                          /\ row.status = "processing"
                                          /\ Onward(j, k) /\ k.made = j.made /\ k.stage = "subscriptions"
    BY <1>1, <1>4, MarkProcessingDoes
  <2>3. Over(j, k) \/ (Onward(j, k) /\ k.made = j.made /\ k.stage \notin Sending)
    BY <2>2 DEF Sending, Raises
  <2>4. \/ event' = event
        \/ \E row \in Event : /\ event' = [event EXCEPT ![e] = row]
                              /\ row.status # "completed" \/ Heard(e) \/ e \in overridden
    BY <2>2
  <2> QED
    BY <1>1, <1>2, <2>1, <2>2, <2>3, <2>4, EventStatement
<1>5. CASE Finish(w)
  <2>1. UNCHANGED <<fresh, delivery, active, gone, received, budget, disturbed, unheard, unrecorded, overridden>>
    BY <1>5 DEF Finish
  <2>2. PICK k : /\ Become(w, k) /\ Busy(w) /\ j.stage = "finish"
                 /\ \/ event' = event /\ Raises(j, k)
                    \/ \E row \in Event : /\ event' = [event EXCEPT ![e] = row] /\ Exists(e) /\ Over(j, k)
                                          /\ row.status = IF j.made > 0 THEN "completed" ELSE "failed"
    BY <1>1, <1>5, FinishDoes
  <2>3. j.made > 0 => Heard(e)
    BY <1>1, <2>2, AtWork DEF HeardJob
  <2>4. \/ event' = event
        \/ \E row \in Event : /\ event' = [event EXCEPT ![e] = row]
                              /\ row.status # "completed" \/ Heard(e) \/ e \in overridden
    BY <2>2, <2>3
  <2>5. Over(j, k) \/ (Onward(j, k) /\ k.made = j.made /\ k.stage \notin Sending)
    BY <2>2 DEF Sending, Raises
  <2> QED
    BY <1>1, <1>2, <2>1, <2>2, <2>4, <2>5, EventStatement
<1>6. CASE SaveEvent(w)
  <2>1. UNCHANGED <<fresh, delivery, active, gone, received, budget, disturbed, unheard, unrecorded, overridden>>
    BY <1>6 DEF SaveEvent
  <2>2. /\ Become(w, << >>) /\ Busy(w) /\ j.stage = "edit"
        /\ event' = [event EXCEPT ![e] = j.list[1].row] /\ j.list[1].row \in Event
        /\ j.list[1].row.status = "completed" => Heard(e) \/ e \in overridden
    BY <1>1, <1>6, SaveEventDoes
  <2>3. Over(j, << >>)
    BY DEF Over
  <2>4. \E row \in Event : /\ event' = [event EXCEPT ![e] = row]
                           /\ row.status # "completed" \/ Heard(e) \/ e \in overridden
    BY <2>2
  <2> QED
    BY <1>1, <1>2, <2>1, <2>2, <2>3, <2>4, EventStatement
<1>7. CASE Crash(w)
  <2>1. /\ Become(w, << >>)
        /\ UNCHANGED <<event, fresh, delivery, active, gone, received, budget, unheard, unrecorded, overridden>>
        /\ disturbed' \subseteq Events
    BY <1>7 DEF Crash, HeardInv, TypeOK
  <2>2. Keeps
    BY <2>1 DEF Keeps, Heard, Rows
  <2>3. job' \in [Workers -> Job \union {<< >>}] /\ Working' /\ JobsHeard'
    BY <2>1, <2>2, JobsKept
  <2>4. RowsHeard' /\ DeliveriesHeard'
    BY <2>1, <2>2, TablesKept DEF Rows
  <2>5. TypeOK'
    BY <2>1, <2>3 DEF HeardInv, TypeOK, Rows
  <2> QED
    BY <2>3, <2>4, <2>5 DEF HeardInv
<1>8. CASE FindSubscriptions(w)
  <2>1. UNCHANGED <<event, fresh, delivery, active, gone, received, budget, disturbed, unrecorded, overridden>>
    BY <1>8 DEF FindSubscriptions
  <2>2. PICK k : /\ Become(w, k) /\ Busy(w) /\ j.stage = "subscriptions" /\ unheard' \subseteq Events
                 /\ \/ Over(j, k)
                    \/ /\ Onward(j, k) /\ k.made = j.made /\ k.stage = "create"
                       /\ \A i, l \in DOMAIN k.rows : k.rows[i].sub = k.rows[l].sub => i = l
    BY <1>1, <1>8, FindSubscriptionsDoes
  <2>3. Over(j, k) \/ (Onward(j, k) /\ k.made = j.made /\ k.stage \notin Sending)
    BY <2>2 DEF Sending
  <2> QED
    BY <1>1, <1>2, <2>1, <2>2, <2>3, EventStatement
<1>9. CASE MarkFailed(w)
  <2>1. UNCHANGED <<fresh, delivery, active, gone, received, budget, disturbed, unheard, overridden>>
    BY <1>9 DEF MarkFailed
  <2>2. /\ \E k : Become(w, k) /\ Over(j, k)
        /\ Busy(w) /\ j.stage = "except"
        /\ \/ event' = event
           \/ \E row \in Event : event' = [event EXCEPT ![e] = row] /\ row.status = "failed"
        /\ unrecorded' \subseteq Events
    BY <1>1, <1>9, MarkFailedDoes
  <2>3. PICK k : Become(w, k) /\ Over(j, k)
    BY <2>2
  <2>4. \/ event' = event
        \/ \E row \in Event : /\ event' = [event EXCEPT ![e] = row]
                              /\ row.status # "completed" \/ Heard(e) \/ e \in overridden
    BY <2>2
  <2> QED
    BY <1>1, <1>2, <2>1, <2>2, <2>3, <2>4, EventStatement
<1> QED
  BY <1>3, <1>4, <1>5, <1>6, <1>7, <1>8, <1>9

-----------------------------------------------------------------------------
(* The statements that deliver. *)

\* The rows for the subscriptions that were found are added.
Creates(j, k, e) ==
  /\ Exists(e)
  /\ delivery' \in Seq(Delivery \union {Missing})
  /\ \A i \in Rows : i \in Rows' /\ delivery'[i] = delivery[i]
  /\ \A i \in Rows' \ Rows : delivery'[i].event = e /\ delivery'[i].status = "pending"
  /\ \A i \in DOMAIN k.rows : k.rows[i].id \in Rows' \ Rows
  /\ DOMAIN k.rows = DOMAIN j.rows /\ \A i \in DOMAIN k.rows : k.rows[i].sub = j.rows[i].sub

\* One delivery of the event takes a status.
Marks(e, status) ==
  \E i \in Rows, row \in Delivery :
    /\ delivery[i] # Missing /\ delivery[i].event = e
    /\ delivery' = [delivery EXCEPT ![i] = row]
    /\ row.event = e /\ row.status = status

LEMMA CreateDeliveriesDoes ==
  ASSUME HeardInv, NEW w \in Workers, CreateDeliveries(w), NEW e, e = This(w), NEW j, j = job[w]
  PROVE  \E k : /\ Become(w, k) /\ Busy(w) /\ j.stage = "create"
                /\ \/ Raises(j, k) /\ delivery' = delivery
                   \/ Onward(j, k) /\ k.made = j.made /\ k.stage = "sent" /\ Creates(j, k, e)
<1>1. /\ Busy(w) /\ j.stage = "create" /\ j \in Job /\ Fits(j) /\ e \in Events
  BY AtWork DEF CreateDeliveries, At
<1>2. Raises(j, [j EXCEPT !.stage = "except"]) /\ j.view # "edit"
  BY <1>1, RaiseDoes DEF Fits
<1> DEFINE Possible == Exists(e) /\ \A i \in DOMAIN j.rows : j.rows[i].sub \notin gone
<1>3. CASE ~Possible
  <2>1. delivery' = delivery /\ Become(w, [j EXCEPT !.stage = "except"])
    BY <1>3 DEF CreateDeliveries, Raise
  <2> QED
    BY <1>1, <1>2, <2>1
<1>4. CASE Possible
  <2> DEFINE n == Len(delivery)
             c == Len(j.rows)
             row(i) == [event |-> e, sub |-> j.rows[i].sub, status |-> "pending", attempt_count |-> 0]
             new == [i \in DOMAIN j.rows |-> row(i)]
             rows == [i \in DOMAIN j.rows |-> [id |-> n + i, sub |-> j.rows[i].sub]]
  <2>1. /\ c \in Nat /\ c >= 1 /\ DOMAIN j.rows = 1 .. c
        /\ \A i \in 1 .. c : j.rows[i].sub \in Subs
    <3>1. j.rows \in Seq([id : Nat, sub : Subs]) /\ j.rows # << >>
      BY <1>1, JobFacts DEF Fits, Asking
    <3>2. /\ c \in Nat /\ c >= 1 /\ DOMAIN j.rows = 1 .. c
          /\ \A i \in DOMAIN j.rows : j.rows[i] \in [id : Nat, sub : Subs]
      BY <3>1, SeqFacts
    <3> QED
      BY <3>2
  <2>2. n \in Nat /\ delivery \in Seq(Delivery \union {Missing})
    BY DEF HeardInv, TypeOK
  <2>3. /\ delivery' = delivery \o new
        /\ Become(w, [j EXCEPT !.stage = "sent", !.rows = rows])
    BY <1>4 DEF CreateDeliveries
  <2>4. Exists(e)
    BY <1>4
  <2> HIDE DEF c, n
  <2>5. PICK a : a = new
    OBVIOUS
  <2>6. a \in Seq(Delivery) /\ Len(a) = c /\ \A i \in 1 .. c : a[i] = row(i)
    <3>1. \A i \in 1 .. c : row(i) \in Delivery
      BY <1>1, <2>1, EventConstants DEF Delivery, DeliveryStatus
    <3>2. a \in [1 .. c -> Delivery] /\ \A i \in 1 .. c : a[i] = row(i)
      BY <2>1, <2>5, <3>1
    <3> QED
      BY <2>1, <3>2
  <2>7. PICK r : r = rows
    OBVIOUS
  <2>8. /\ r \in Seq([id : Nat, sub : Subs]) /\ DOMAIN r = 1 .. c /\ r # << >>
        /\ \A i \in 1 .. c : r[i].id = n + i /\ r[i].sub = j.rows[i].sub
    <3>1. PICK T : T = [id : Nat, sub : Subs]
      OBVIOUS
    <3>2. r \in [1 .. c -> T] /\ \A i \in 1 .. c : r[i].id = n + i /\ r[i].sub = j.rows[i].sub
      BY <2>1, <2>2, <2>7, <3>1
    <3>3. r \in Seq(T) /\ Len(r) = c
      BY <2>1, <3>2
    <3>4. r # << >>
      BY <2>1, <3>3
    <3> QED
      BY <3>1, <3>2, <3>3, <3>4
  <2>9. /\ delivery' \in Seq(Delivery \union {Missing}) /\ Len(delivery') = n + c
        /\ \A i \in 1 .. n + c : delivery'[i] = IF i <= n THEN delivery[i] ELSE a[i - n]
    <3>1. a \in Seq(Delivery \union {Missing})
      BY <2>6
    <3> QED
      BY <2>2, <2>3, <2>5, <2>6, <3>1, ConcatProperties DEF n
  <2>10. PICK k : k = [j EXCEPT !.stage = "sent", !.rows = r]
    OBVIOUS
  <2>11. Onward(j, k) /\ k.made = j.made /\ k.stage = "sent" /\ k.rows = r
    BY <1>1, <1>2, <2>8, <2>10 DEF Onward, Job, Stage
  <2>12. Become(w, k)
    BY <2>3, <2>7, <2>10
  <2>13. \A i \in Rows : i \in Rows' /\ delivery'[i] = delivery[i]
    BY <2>1, <2>2, <2>9 DEF Rows, n
  <2>14. \A i \in Rows' \ Rows : delivery'[i].event = e /\ delivery'[i].status = "pending"
    <3>1. ASSUME NEW i \in Rows' \ Rows PROVE delivery'[i].event = e /\ delivery'[i].status = "pending"
      <4>1. i \in 1 .. n + c /\ ~(i <= n) /\ i - n \in 1 .. c
        BY <2>1, <2>2, <2>9, <3>1 DEF Rows, n
      <4>2. delivery'[i] = row(i - n)
        BY <2>6, <2>9, <4>1
      <4> QED
        BY <4>2
    <3> QED
      BY <3>1
  <2>15. \A i \in DOMAIN k.rows : k.rows[i].id \in Rows' \ Rows
    BY <2>1, <2>2, <2>8, <2>9, <2>11 DEF Rows, n
  <2>16. DOMAIN k.rows = DOMAIN j.rows /\ \A i \in DOMAIN k.rows : k.rows[i].sub = j.rows[i].sub
    BY <2>1, <2>8, <2>11
  <2> QED
    <3>1. Creates(j, k, e)
      BY <2>4, <2>9, <2>13, <2>14, <2>15, <2>16 DEF Creates
    <3> QED
      BY <1>1, <2>11, <2>12, <3>1
<1> QED
  BY <1>3, <1>4

LEMMA MarkSentDoes ==
  ASSUME HeardInv, NEW w \in Workers, MarkSent(w), NEW e, e = This(w), NEW j, j = job[w]
  PROVE  \E k : /\ Become(w, k) /\ Busy(w) /\ j.stage = "sent"
                /\ \/ Raises(j, k) /\ delivery' = delivery
                   \/ /\ Onward(j, k) /\ k.made = j.made /\ k.stage = "post" /\ k.rows = j.rows
                      /\ Marks(e, "sent")
<1>1. /\ Busy(w) /\ j.stage = "sent" /\ j \in Job /\ Fits(j) /\ OwnRows(j) /\ e \in Events
      /\ e = j.list[1].id
  BY AtWork DEF MarkSent, At
<1>2. Raises(j, [j EXCEPT !.stage = "except"]) /\ j.view # "edit"
  BY <1>1, RaiseDoes DEF Fits
<1>3. PICK i : i = Head(j.rows).id
  OBVIOUS
<1>4. /\ j.rows # << >> /\ i = j.rows[1].id /\ i \in Rows
      /\ delivery[i] # Missing => delivery[i].event = e
  <2>1. j.rows # << >> /\ j.rows \in Seq([id : Nat, sub : Subs])
    BY <1>1, JobFacts DEF Fits, Asking, Sending
  <2>2. 1 \in DOMAIN j.rows /\ Head(j.rows) = j.rows[1]
    BY <2>1, SeqFacts
  <2> QED
    BY <1>1, <1>3, <2>1, <2>2 DEF OwnRows, Sending
<1>5. CASE delivery[i] = Missing
  <2>1. delivery' = delivery /\ Become(w, [j EXCEPT !.stage = "except"])
    BY <1>3, <1>5 DEF MarkSent, Raise
  <2> QED
    BY <1>1, <1>2, <2>1
<1>6. CASE delivery[i] # Missing
  <2> DEFINE k   == [j EXCEPT !.stage = "post"]
             row == [delivery[i] EXCEPT !.status = "sent"]
  <2>1. delivery' = [delivery EXCEPT ![i] = row] /\ Become(w, k)
    BY <1>3, <1>6 DEF MarkSent
  <2>2. row \in Delivery /\ row.event = e /\ row.status = "sent"
    <3>1. delivery[i] \in Delivery
      BY <1>4, <1>6 DEF HeardInv, TypeOK, Rows
    <3> QED
      BY <1>4, <1>6, <3>1 DEF Delivery, DeliveryStatus
  <2>3. Onward(j, k) /\ k.made = j.made /\ k.stage = "post" /\ k.rows = j.rows
    <3>1. "post" \in Stage
      BY DEF Stage
    <3> QED
      BY <1>1, <1>2, <1>4, <3>1, StageSet DEF Onward
  <2> HIDE DEF k, row
  <2>4. Marks(e, "sent")
    BY <1>4, <1>6, <2>1, <2>2 DEF Marks
  <2> QED
    BY <1>1, <2>1, <2>3, <2>4
<1> QED
  BY <1>5, <1>6

LEMMA MarkAnswerDoes ==
  ASSUME HeardInv, NEW w \in Workers, MarkAnswer(w), NEW e, e = This(w), NEW j, j = job[w]
  PROVE  \E k : /\ Become(w, k) /\ Busy(w) /\ j.stage = "answer"
                /\ \/ Raises(j, k) /\ delivery' = delivery
                   \/ /\ Onward(j, k) /\ k.rows = Tail(j.rows)
                      /\ k.made = IF j.ok THEN j.made + 1 ELSE j.made
                      /\ k.stage = IF k.rows = << >> THEN "finish" ELSE "sent"
                      /\ Marks(e, IF j.ok THEN "delivered" ELSE "failed")
<1>1. /\ Busy(w) /\ j.stage = "answer" /\ j \in Job /\ Fits(j) /\ OwnRows(j) /\ e \in Events
      /\ e = j.list[1].id
  BY AtWork DEF MarkAnswer, At
<1>2. Raises(j, [j EXCEPT !.stage = "except"]) /\ j.view # "edit"
  BY <1>1, RaiseDoes DEF Fits
<1>3. PICK i : i = Head(j.rows).id
  OBVIOUS
<1>4. /\ j.rows # << >> /\ i = j.rows[1].id /\ i \in Rows
      /\ delivery[i] # Missing => delivery[i].event = e
      /\ Tail(j.rows) \in Seq([id : Nat, sub : Subs])
      /\ Tail(j.rows) = << >> <=> Len(j.rows) = 1
  <2>1. j.rows # << >> /\ j.rows \in Seq([id : Nat, sub : Subs])
    BY <1>1, JobFacts DEF Fits, Asking, Sending
  <2>2. 1 \in DOMAIN j.rows /\ Head(j.rows) = j.rows[1]
    BY <2>1, SeqFacts
  <2>3. /\ Tail(j.rows) \in Seq([id : Nat, sub : Subs])
        /\ Tail(j.rows) = << >> <=> Len(j.rows) = 1
    BY <2>1, SeqFacts
  <2> QED
    BY <1>1, <1>3, <2>1, <2>2, <2>3 DEF OwnRows, Sending
<1>5. CASE delivery[i] = Missing
  <2>1. delivery' = delivery /\ Become(w, [j EXCEPT !.stage = "except"])
    BY <1>3, <1>5 DEF MarkAnswer, Raise
  <2> QED
    BY <1>1, <1>2, <2>1
<1>6. CASE delivery[i] # Missing
  <2> DEFINE m     == IF j.ok THEN j.made + 1 ELSE j.made
             stage == IF Len(j.rows) = 1 THEN "finish" ELSE "sent"
             s     == IF j.ok THEN "delivered" ELSE "failed"
             rest  == Tail(j.rows)
             k     == [j EXCEPT !.rows = rest, !.made = m, !.stage = stage]
             row   == [delivery[i] EXCEPT !.status = s]
  <2>1. delivery' = [delivery EXCEPT ![i] = row] /\ Become(w, k)
    BY <1>3, <1>6 DEF MarkAnswer
  <2>2. m \in Nat /\ stage \in Stage /\ s \in DeliveryStatus
    BY <1>1, JobFacts DEF Stage, DeliveryStatus
  <2> HIDE DEF m, stage, s, rest
  <2>3. row \in Delivery /\ row.event = e /\ row.status = s
    <3>1. delivery[i] \in Delivery
      BY <1>4, <1>6 DEF HeardInv, TypeOK, Rows
    <3> QED
      BY <1>4, <1>6, <2>2, <3>1 DEF Delivery
  <2>4. k \in Job /\ k.list = j.list /\ k.view = j.view /\ k.rows = rest /\ k.made = m /\ k.stage = stage
    <3>1. rest \in Seq([id : Nat, sub : Subs])
      BY <1>4 DEF rest
    <3> QED
      BY <1>1, <2>2, <3>1 DEF Job
  <2> HIDE DEF k, row
  <2>5. Onward(j, k)
    BY <1>2, <1>4, <2>4 DEF Onward, Asking, Sending, stage, rest
  <2>6. /\ k.rows = Tail(j.rows) /\ k.made = IF j.ok THEN j.made + 1 ELSE j.made
        /\ k.stage = IF k.rows = << >> THEN "finish" ELSE "sent"
    BY <1>4, <2>4 DEF rest, m, stage
  <2>7. Marks(e, s)
    BY <1>4, <1>6, <2>1, <2>3 DEF Marks
  <2> QED
    BY <1>1, <2>1, <2>5, <2>6, <2>7 DEF s
<1> QED
  BY <1>5, <1>6

LEMMA PostDoes ==
  ASSUME HeardInv, NEW w \in Workers, Post(w), NEW e, e = This(w), NEW j, j = job[w]
  PROVE  \E k : \E accepts, answers \in BOOLEAN, s \in Subs :
           /\ Become(w, k) /\ Busy(w) /\ j.stage = "post"
           /\ Onward(j, k) /\ k.made = j.made /\ k.stage = "answer" /\ k.rows = j.rows
           /\ s = j.rows[1].sub /\ k.ok = (accepts /\ answers)
           /\ received' = IF accepts THEN [received EXCEPT ![e][s] = @ + 1] ELSE received
           /\ unrecorded' = IF accepts /\ ~answers THEN unrecorded \union {e} ELSE unrecorded
<1>1. /\ Busy(w) /\ j.stage = "post" /\ j \in Job /\ Fits(j) /\ j.view # "edit"
  BY AtWork DEF Post, At, Fits
<1>2. /\ j.rows # << >> /\ j.rows \in Seq([id : Nat, sub : Subs])
  BY <1>1, JobFacts DEF Fits, Asking, Sending
<1>3. PICK s : s = Head(j.rows).sub
  OBVIOUS
<1>4. s = j.rows[1].sub /\ s \in Subs
  <2>1. Head(j.rows) = j.rows[1] /\ j.rows[1] \in [id : Nat, sub : Subs]
    BY <1>2, SeqFacts
  <2> QED
    BY <1>3, <2>1
<1>5. PICK accepts \in BOOLEAN, answers \in BOOLEAN :
        /\ received' = IF accepts THEN [received EXCEPT ![e][s] = @ + 1] ELSE received
        /\ unrecorded' = IF accepts /\ ~answers THEN unrecorded \union {e} ELSE unrecorded
        /\ Become(w, [j EXCEPT !.stage = "answer", !.ok = accepts /\ answers])
  BY <1>3 DEF Post
<1>6. PICK ok \in BOOLEAN : ok = (accepts /\ answers)
  OBVIOUS
<1>7. PICK k : k = [j EXCEPT !.stage = "answer", !.ok = ok]
  OBVIOUS
<1>8. Become(w, k)
  <2>1. [j EXCEPT !.stage = "answer", !.ok = accepts /\ answers] = k
    BY <1>6, <1>7
  <2> QED
    BY <1>5, <2>1
<1>9. Onward(j, k) /\ k.made = j.made /\ k.stage = "answer" /\ k.rows = j.rows /\ k.ok = ok
  BY <1>1, <1>2, <1>7 DEF Onward, Job, Stage
<1> QED
  BY <1>1, <1>4, <1>5, <1>6, <1>8, <1>9

\* What remains when the tables are known to be right.
LEMMA StatementHeard ==
  ASSUME HeardInv, NEW w \in Workers, NEW k, Become(w, k), Keeps,
         k # << >> => k \in Job /\ Fits(k) /\ OwnRows(k)' /\ HeardJob(k)',
         RowsHeard', DeliveriesHeard',
         delivery' \in Seq(Delivery \union {Missing}),
         \A i \in Rows' : delivery'[i] # Missing => event'[delivery'[i].event] # Missing,
         received' \in [Events -> [Subs -> Nat]], unheard' \subseteq Events, unrecorded' \subseteq Events,
         UNCHANGED <<event, fresh, active, gone, budget, disturbed, overridden>>
  PROVE  HeardInv'
<1>1. job' \in [Workers -> Job \union {<< >>}] /\ Working' /\ JobsHeard'
  BY JobsKept
<1>2. TypeOK'
  BY <1>1 DEF HeardInv, TypeOK
<1> QED
  BY <1>1, <1>2 DEF HeardInv

LEMMA RaiseHeard ==
  ASSUME HeardInv, NEW w \in Workers, Busy(w), NEW j, j = job[w], NEW k, Become(w, k), Raises(j, k),
         UNCHANGED <<event, fresh, delivery, active, gone, received, budget, disturbed, unheard, unrecorded, overridden>>
  PROVE  HeardInv'
<1>1. Onward(j, k) /\ k.made = j.made /\ k.stage \notin Sending
  BY DEF Raises, Sending
<1>2. unheard' \subseteq Events /\ unrecorded' \subseteq Events
  BY DEF HeardInv, TypeOK
<1> QED
  BY <1>1, <1>2, EventStatement

LEMMA CreateDeliveriesHeard ==
  ASSUME HeardInv, NEW w \in Workers, CreateDeliveries(w)
  PROVE  HeardInv'
<1>1. PICK e, j : e = This(w) /\ j = job[w]
  OBVIOUS
<1>2. UNCHANGED <<event, fresh, active, gone, received, budget, disturbed, unheard, unrecorded, overridden>>
  BY DEF CreateDeliveries
<1>3. PICK k : /\ Become(w, k) /\ Busy(w) /\ j.stage = "create"
               /\ \/ Raises(j, k) /\ delivery' = delivery
                  \/ Onward(j, k) /\ k.made = j.made /\ k.stage = "sent" /\ Creates(j, k, e)
  BY <1>1, CreateDeliveriesDoes
<1>4. CASE Raises(j, k) /\ delivery' = delivery
  BY <1>1, <1>2, <1>3, <1>4, RaiseHeard
<1>5. CASE Onward(j, k) /\ k.made = j.made /\ k.stage = "sent" /\ Creates(j, k, e)
  <2>1. j \in Job /\ Fits(j) /\ HeardJob(j) /\ e = j.list[1].id /\ e \in Events
    BY <1>1, <1>3, AtWork
  <2>2. Keeps
    BY <1>2, <1>5 DEF Keeps, Heard, Creates
  <2>3. RowsHeard' /\ DeliveriesHeard'
    <3>1. \A i \in Rows' : (i \in Rows /\ delivery'[i] = delivery[i]) \/ delivery'[i].status # "delivered"
      BY <1>5 DEF Creates
    <3> QED
      BY <1>2, <2>2, <3>1, TablesKept
  <2>4. k \in Job /\ Fits(k) /\ HeardJob(k)
    BY <1>3, <1>5, <2>1, OnwardKeeps
  <2>5. HeardJob(k)'
    BY <2>2, <2>4, JobKept
  <2>6. OwnRows(k)'
    BY <1>5, <2>1 DEF OwnRows, Onward, Creates
  <2>7. \A i \in Rows' : delivery'[i] # Missing => event'[delivery'[i].event] # Missing
    BY <1>2, <1>5, <2>1 DEF HeardInv, TypeOK, Exists, Creates
  <2>8. received' \in [Events -> [Subs -> Nat]] /\ unheard' \subseteq Events /\ unrecorded' \subseteq Events
    BY <1>2, <1>5 DEF HeardInv, TypeOK, Creates
  <2>9. delivery' \in Seq(Delivery \union {Missing})
    BY <1>5 DEF Creates
  <2> QED
    BY <1>2, <1>3, <1>5, <2>2, <2>3, <2>4, <2>5, <2>6, <2>7, <2>8, <2>9, StatementHeard
<1> QED
  BY <1>3, <1>4, <1>5

\* MarkSent and MarkAnswer set one row of EventDelivery.
LEMMA RowMarked ==
  ASSUME HeardInv, NEW w \in Workers, Busy(w), NEW j, j = job[w], NEW e, e = j.list[1].id,
         NEW k, Become(w, k), Onward(j, k),
         k.made > 0 \/ (k.stage = "answer" /\ k.ok) => Heard(e),
         j.stage \in Sending,
         \A i \in DOMAIN k.rows : \E l \in DOMAIN j.rows : k.rows[i] = j.rows[l],
         NEW status, Marks(e, status), status = "delivered" => Heard(e),
         UNCHANGED <<event, fresh, active, gone, received, budget, disturbed, unheard, unrecorded, overridden>>
  PROVE  HeardInv'
<1>1. j \in Job /\ Fits(j) /\ HeardJob(j) /\ OwnRows(j)
  BY AtWork
<1>2. /\ Keeps
      /\ delivery' \in Seq(Delivery \union {Missing})
      /\ \A l \in Rows' : delivery'[l] # Missing => event'[delivery'[l].event] # Missing
      /\ RowsHeard' /\ DeliveriesHeard'
  <2>1. \A x \in Events : Heard(x) => Heard(x)'
    BY DEF Heard
  <2> QED
    BY <2>1, DeliverySet DEF Marks
<1>3. k \in Job /\ Fits(k) /\ HeardJob(k)
  BY <1>1, OnwardKeeps
<1>4. OwnRows(k)
  BY <1>1 DEF OwnRows, Onward
<1>5. OwnRows(k)' /\ HeardJob(k)'
  BY <1>2, <1>3, <1>4, JobKept
<1>6. received' \in [Events -> [Subs -> Nat]] /\ unheard' \subseteq Events /\ unrecorded' \subseteq Events
  BY DEF HeardInv, TypeOK
<1> QED
  BY <1>2, <1>3, <1>5, <1>6, StatementHeard

LEMMA MarksHeard ==
  ASSUME HeardInv, NEW w \in Workers, MarkSent(w) \/ MarkAnswer(w)
  PROVE  HeardInv'
<1>1. PICK e, j : e = This(w) /\ j = job[w]
  OBVIOUS
<1>2. UNCHANGED <<event, fresh, active, gone, received, budget, disturbed, unheard, unrecorded, overridden>>
  BY DEF MarkSent, MarkAnswer
<1>3. CASE MarkSent(w)
  <2>1. PICK k : /\ Become(w, k) /\ Busy(w) /\ j.stage = "sent"
                 /\ \/ Raises(j, k) /\ delivery' = delivery
                    \/ /\ Onward(j, k) /\ k.made = j.made /\ k.stage = "post" /\ k.rows = j.rows
                       /\ Marks(e, "sent")
    BY <1>1, <1>3, MarkSentDoes
  <2>2. CASE Raises(j, k) /\ delivery' = delivery
    BY <1>1, <1>2, <2>1, <2>2, RaiseHeard
  <2>3. CASE /\ Onward(j, k) /\ k.made = j.made /\ k.stage = "post" /\ k.rows = j.rows
             /\ Marks(e, "sent")
    <3>1. e = j.list[1].id /\ HeardJob(j)
      BY <1>1, <2>1, AtWork
    <3>2. k.made > 0 \/ (k.stage = "answer" /\ k.ok) => Heard(e)
      BY <2>3, <3>1 DEF HeardJob
    <3>3. j.stage \in Sending /\ \A i \in DOMAIN k.rows : \E l \in DOMAIN j.rows : k.rows[i] = j.rows[l]
      BY <2>1, <2>3 DEF Sending
    <3> QED
      BY <1>1, <1>2, <2>1, <2>3, <3>1, <3>2, <3>3, RowMarked
  <2> QED
    BY <2>1, <2>2, <2>3
<1>4. CASE MarkAnswer(w)
  <2>1. PICK k : /\ Become(w, k) /\ Busy(w) /\ j.stage = "answer"
                 /\ \/ Raises(j, k) /\ delivery' = delivery
                    \/ /\ Onward(j, k) /\ k.rows = Tail(j.rows)
                       /\ k.made = IF j.ok THEN j.made + 1 ELSE j.made
                       /\ k.stage = IF k.rows = << >> THEN "finish" ELSE "sent"
                       /\ Marks(e, IF j.ok THEN "delivered" ELSE "failed")
    BY <1>1, <1>4, MarkAnswerDoes
  <2>2. CASE Raises(j, k) /\ delivery' = delivery
    BY <1>1, <1>2, <2>1, <2>2, RaiseHeard
  <2>3. CASE /\ Onward(j, k) /\ k.rows = Tail(j.rows)
             /\ k.made = IF j.ok THEN j.made + 1 ELSE j.made
             /\ k.stage = IF k.rows = << >> THEN "finish" ELSE "sent"
             /\ Marks(e, IF j.ok THEN "delivered" ELSE "failed")
    <3>1. e = j.list[1].id /\ HeardJob(j) /\ j \in Job /\ Fits(j)
      BY <1>1, <2>1, AtWork
    <3>2. k.made > 0 \/ (k.stage = "answer" /\ k.ok) => Heard(e)
      BY <2>1, <2>3, <3>1 DEF HeardJob
    <3>3. \A i \in DOMAIN k.rows : i + 1 \in DOMAIN j.rows /\ k.rows[i] = j.rows[i + 1]
      <4>1. j.rows \in Seq([id : Nat, sub : Subs]) /\ j.rows # << >>
        BY <2>1, <3>1, JobFacts DEF Fits, Asking, Sending
      <4> QED
        BY <2>3, <4>1, SeqFacts
    <3>4. j.ok => Heard(e)
      BY <2>1, <3>1 DEF HeardJob
    <3>5. PICK status : status = (IF j.ok THEN "delivered" ELSE "failed") /\ Marks(e, status)
      BY <2>3
    <3>6. status = "delivered" => Heard(e)
      BY <3>4, <3>5
    <3>8. \A i \in DOMAIN k.rows : \E l \in DOMAIN j.rows : k.rows[i] = j.rows[l]
      BY <3>3
    <3>7. j.stage \in Sending
      BY <2>1 DEF Sending
    <3> QED
      BY <1>1, <1>2, <2>1, <2>3, <3>1, <3>2, <3>5, <3>6, <3>7, <3>8, RowMarked
  <2> QED
    BY <2>1, <2>2, <2>3
<1> QED
  BY <1>3, <1>4

LEMMA PostHeard ==
  ASSUME HeardInv, NEW w \in Workers, Post(w)
  PROVE  HeardInv'
<1>1. PICK e, j : e = This(w) /\ j = job[w]
  OBVIOUS
<1>2. UNCHANGED <<event, fresh, delivery, active, gone, budget, disturbed, unheard, overridden>>
  BY DEF Post
<1>3. PICK k : \E accepts, answers \in BOOLEAN, s \in Subs :
        /\ Become(w, k) /\ Busy(w) /\ j.stage = "post"
        /\ Onward(j, k) /\ k.made = j.made /\ k.stage = "answer" /\ k.rows = j.rows
        /\ s = j.rows[1].sub /\ k.ok = (accepts /\ answers)
        /\ received' = IF accepts THEN [received EXCEPT ![e][s] = @ + 1] ELSE received
        /\ unrecorded' = IF accepts /\ ~answers THEN unrecorded \union {e} ELSE unrecorded
  BY <1>1, PostDoes
<1>4. PICK accepts \in BOOLEAN, answers \in BOOLEAN, s \in Subs :
        /\ Become(w, k) /\ Busy(w) /\ j.stage = "post"
        /\ Onward(j, k) /\ k.made = j.made /\ k.stage = "answer" /\ k.rows = j.rows
        /\ s = j.rows[1].sub /\ k.ok = (accepts /\ answers)
        /\ received' = IF accepts THEN [received EXCEPT ![e][s] = @ + 1] ELSE received
        /\ unrecorded' = IF accepts /\ ~answers THEN unrecorded \union {e} ELSE unrecorded
  BY <1>3
<1>5. j \in Job /\ Fits(j) /\ HeardJob(j) /\ OwnRows(j) /\ e = j.list[1].id /\ e \in Events
  BY <1>1, <1>4, AtWork
<1>6. /\ received' \in [Events -> [Subs -> Nat]]
      /\ \A x \in Events, t \in Subs : received[x][t] > 0 => received'[x][t] > 0
      /\ accepts => received'[e][s] > 0
  BY <1>4, <1>5 DEF HeardInv, TypeOK
<1>7. (\A x \in Events : Heard(x) => Heard(x)') /\ (accepts => Heard(e)')
  BY <1>6 DEF Heard
<1>8. Keeps
  BY <1>2, <1>7 DEF Keeps, Rows
<1>9. RowsHeard' /\ DeliveriesHeard'
  BY <1>2, <1>8, TablesKept DEF Rows
<1>10. k \in Job /\ Fits(k)
  BY <1>4, <1>5 DEF Onward, Fits
<1>11. OwnRows(k)'
  <2>1. OwnRows(k)
    BY <1>4, <1>5 DEF OwnRows, Onward, Sending
  <2> QED
    BY <1>8, <1>10, <2>1, JobKept
<1>12. HeardJob(k)'
  <2>1. HeardJob(j)'
    BY <1>5, <1>8, JobKept
  <2> QED
    BY <1>4, <1>5, <1>7, <2>1 DEF HeardJob, HeardCopy, Onward
<1>13. unheard' \subseteq Events /\ unrecorded' \subseteq Events
  BY <1>2, <1>4, <1>5 DEF HeardInv, TypeOK
<1>14. /\ delivery' \in Seq(Delivery \union {Missing})
       /\ \A i \in Rows' : delivery'[i] # Missing => event'[delivery'[i].event] # Missing
  BY <1>2 DEF HeardInv, TypeOK, Rows
<1> QED
  BY <1>2, <1>4, <1>6, <1>8, <1>9, <1>10, <1>11, <1>12, <1>13, <1>14, StatementHeard

-----------------------------------------------------------------------------
(* The first theorem. *)

LEMMA HeardInit ==
  ASSUME Init
  PROVE  HeardInv
<1>1. delivery = << >> /\ Rows = {} /\ delivery \in Seq(Delivery \union {Missing})
  BY DEF Init, Rows
<1>2. \A w \in Workers : ~Busy(w)
  BY DEF Init, Busy
<1>3. TypeOK
  BY <1>1, EventConstants DEF Init, TypeOK
<1> QED
  BY <1>1, <1>2, <1>3 DEF HeardInv, Working, RowsHeard, DeliveriesHeard, JobsHeard, Init, Exists

LEMMA HeardNext ==
  ASSUME HeardInv, [Next]_vars
  PROVE  HeardInv'
<1>1. CASE \E e \in Events : Publish(e) \/ DestroyEvent(e)
  BY <1>1, PublishHeard, DestroyHeard
<1>2. CASE Administer \/ \E s \in Subs : Subscribe(s) \/ DestroySubscription(s)
  BY <1>2, AdminHeard
<1>3. ASSUME NEW w \in Workers, Request(w) \/ Execute(w) \/ Crash(w) PROVE HeardInv'
  BY <1>3, RequestHeard, EventStatementsHeard, CreateDeliveriesHeard, MarksHeard, PostHeard DEF Execute
<1>4. CASE UNCHANGED vars
  <2>1. UNCHANGED vars
    BY <1>4
  <2>2. Keeps /\ job' = job
    BY <2>1 DEF vars, Keeps, Heard, Rows
  <2>3. Working' /\ JobsHeard'
    BY <2>2, JobsStay
  <2>4. RowsHeard' /\ DeliveriesHeard'
    BY <2>1, <2>2, TablesKept DEF vars, Rows
  <2>5. TypeOK'
    BY <2>1 DEF vars, HeardInv, TypeOK, Rows
  <2> QED
    BY <2>3, <2>4, <2>5 DEF HeardInv
<1> QED
  BY <1>1, <1>2, <1>3, <1>4 DEF Next

\* Whatever is said to have been received was: it is inductive with the rows, the
\* deliveries and the requests under way.
THEOREM HeardInvariance == Spec => []HeardInv
<1>1. Init => HeardInv
  BY HeardInit
<1>2. HeardInv /\ [Next]_vars => HeardInv'
  BY HeardNext
<1> QED
  BY <1>1, <1>2, PTL DEF Spec

\* The tables, the copies and the jobs keep their types, and a delivery belongs to
\* a row that exists: the foreign key of EventDelivery.
THEOREM EventsTyped == Spec => []TypeOK
<1>1. HeardInv => TypeOK
  BY DEF HeardInv
<1> QED
  BY <1>1, HeardInvariance, PTL

\* An event is completed, and a delivery delivered, only if a subscriber accepted
\* the event, whatever overlapped, died or was written back.
THEOREM CompletedOnlyWhenReceived == Spec => []CompletedWasReceived
<1>1. HeardInv => CompletedWasReceived
  <2>1. ASSUME HeardInv, NEW e \in Events \ overridden, Exists(e), event[e].status = "completed"
        PROVE  \E s \in Subs : received[e][s] > 0
    BY <2>1 DEF HeardInv, RowsHeard, Heard
  <2>2. ASSUME HeardInv, NEW e \in Events \ overridden, NEW i \in Rows,
               delivery[i] # Missing, delivery[i].event = e, delivery[i].status = "delivered"
        PROVE  \E s \in Subs : received[e][s] > 0
    BY <2>2 DEF HeardInv, DeliveriesHeard, Heard
  <2> QED
    BY <2>1, <2>2 DEF CompletedWasReceived
<1> QED
  BY <1>1, HeardInvariance, PTL

-----------------------------------------------------------------------------
(* Nothing twice: what the others keep. *)

Shrinks == \A x \in Events : Apart(x)' => Apart(x)
Same(x) == event'[x] = event[x] /\ received'[x] = received[x]

LEMMA JobOnce ==
  ASSUME NEW j \in Job, Fits(j), Shrinks,
         \A i \in DOMAIN j.list : Apart(j.list[i].id)' => Same(j.list[i].id)
  PROVE  /\ WaitsQuietly(j) => WaitsQuietly(j)'
         /\ Round(j) => Round(j)'
<1>1. /\ \A i \in DOMAIN j.list : j.list[i].id \in Events
      /\ 1 \in DOMAIN j.list
  BY JobFacts
<1>2. ASSUME WaitsQuietly(j) PROVE WaitsQuietly(j)'
  BY <1>1, <1>2 DEF WaitsQuietly, Waits, Shrinks, Same, Quiet
<1>3. ASSUME Round(j) PROVE Round(j)'
  <2>1. PICK e : e = j.list[1].id
    OBVIOUS
  <2>2. Apart(e)' => Apart(e) /\ Same(e)
    BY <1>1, <2>1 DEF Shrinks
  <2> QED
    BY <1>3, <2>1, <2>2 DEF Round, Same, Exists, Quiet
<1> QED
  BY <1>2, <1>3

\* The rows change by themselves.
LEMMA RowsOnce ==
  ASSUME HeardInv, OnceInv, job' = job, received' = received, fresh' \subseteq fresh, Shrinks,
         disturbed \subseteq disturbed',
         \A x \in Events, w \in Workers : Has(w, x) /\ Apart(x)' => event'[x] = event[x],
         \A x \in fresh' : event'[x] = event[x],
         \A x \in Events : \/ event'[x] = event[x] \/ event'[x] = Missing
                           \/ ~Apart(x)' \/ Quiet(x)
  PROVE  OnceInv'
<1>1. Unknown'
  BY DEF OnceInv, Unknown, Exists, Quiet, Has, Busy
<1>2. Alone'
  BY DEF OnceInv, Alone, Has, Busy
<1>3. OpenIsQuiet' /\ AtMostOnce'
  BY DEF OnceInv, OpenIsQuiet, AtMostOnce, Shrinks, Exists, Quiet
<1>4. ASSUME NEW v \in Workers, Busy(v) PROVE WaitsQuietly(job[v])' /\ Round(job[v])'
  <2>1. PICK j : j = job[v]
    OBVIOUS
  <2>2. j \in Job /\ Fits(j) /\ WaitsQuietly(j) /\ Round(j)
    BY <1>4, <2>1 DEF HeardInv, TypeOK, Busy, Working, OnceInv
  <2>3. \A i \in DOMAIN j.list : j.list[i].id \in Events /\ Has(v, j.list[i].id)
    BY <1>4, <2>1, <2>2, JobFacts DEF Has
  <2>4. \A i \in DOMAIN j.list : Apart(j.list[i].id)' => Same(j.list[i].id)
    BY <2>3 DEF Same
  <2>5. WaitsQuietly(j)' /\ Round(j)'
    BY <2>2, <2>4, JobOnce
  <2> QED
    BY <2>1, <2>5 DEF WaitsQuietly, Waits, Round
<1> QED
  BY <1>1, <1>2, <1>3, <1>4 DEF OnceInv, Busy

\* A worker takes a step on the event at the head of its list.
LEMMA StepOnce ==
  ASSUME HeardInv, OnceInv, NEW w \in Workers, Busy(w), NEW e, e = job[w].list[1].id,
         NEW k \in Job \union {<< >>}, Become(w, k), fresh' = fresh, Shrinks, disturbed \subseteq disturbed',
         k # << >> => /\ \A i \in DOMAIN k.list : Has(w, k.list[i].id)
                      /\ WaitsQuietly(k)' /\ Round(k)',
         \A x \in Events \ {e} : Same(x),
         Apart(e)' => /\ event'[e] # Missing /\ event'[e].status \in Open => Quiet(e)'
                      /\ \A s \in Subs : received'[e][s] <= 1
  PROVE  OnceInv'
<1>1. /\ job'[w] = k /\ \A v \in Workers \ {w} : job'[v] = job[v]
      /\ e \in Events /\ Has(w, e)
  <2>1. job[w] \in Job /\ Fits(job[w])
    BY AtWork
  <2>2. 1 \in DOMAIN job[w].list /\ e \in Events
    BY <2>1, JobFacts
  <2> QED
    BY <2>2 DEF Has, Become, HeardInv, TypeOK
<1>2. \A v \in Workers, x \in Events : Has(v, x)' => Has(v, x)
  <2>1. \A x \in Events : Has(w, x)' => Has(w, x)
    BY <1>1 DEF Has, Busy
  <2>2. \A v \in Workers \ {w}, x \in Events : Has(v, x)' => Has(v, x)
    BY <1>1 DEF Has, Busy
  <2> QED
    BY <2>1, <2>2
<1>3. Unknown'
  <2>1. \A x \in fresh : x \in Events /\ x # e /\ Same(x)
    BY <1>1 DEF OnceInv, Unknown, HeardInv, TypeOK
  <2> QED
    BY <1>2, <2>1 DEF OnceInv, Unknown, Same, Exists, Quiet
<1>4. Alone'
  BY <1>2 DEF OnceInv, Alone
<1>5. OpenIsQuiet' /\ AtMostOnce'
  <2>1. ASSUME NEW x \in Events, Apart(x)'
        PROVE  /\ event'[x] # Missing /\ event'[x].status \in Open => Quiet(x)'
               /\ \A s \in Subs : received'[x][s] <= 1
    <3>1. CASE x = e
      BY <2>1, <3>1 DEF Quiet
    <3>2. CASE x # e
      BY <2>1, <3>2 DEF OnceInv, OpenIsQuiet, AtMostOnce, Shrinks, Same, Exists, Quiet
    <3> QED
      BY <3>1, <3>2
  <2> QED
    BY <2>1 DEF OpenIsQuiet, AtMostOnce, Exists
<1>6. ASSUME NEW v \in Workers, Busy(v)' PROVE WaitsQuietly(job[v])' /\ Round(job[v])'
  <2>1. CASE v = w
    BY <1>1, <1>6, <2>1 DEF Busy, WaitsQuietly, Waits, Round
  <2>2. CASE v # w
    <3>1. PICK j : j = job[v]
      OBVIOUS
    <3>2. Busy(v) /\ job'[v] = j
      BY <1>1, <1>6, <2>2, <3>1 DEF Busy
    <3>3. j \in Job /\ Fits(j) /\ WaitsQuietly(j) /\ Round(j)
      BY <3>1, <3>2 DEF HeardInv, TypeOK, Busy, Working, OnceInv
    <3>4. ASSUME NEW i \in DOMAIN j.list, Apart(j.list[i].id)' PROVE Same(j.list[i].id)
      <4>1. j.list[i].id \in Events /\ Has(v, j.list[i].id)
        BY <3>1, <3>2, <3>3, JobFacts DEF Has
      <4>2. Apart(j.list[i].id)
        BY <3>4, <4>1 DEF Shrinks
      <4>3. j.list[i].id # e
        BY <1>1, <2>2, <4>1, <4>2 DEF OnceInv, Alone, Apart
      <4> QED
        BY <4>1, <4>3
    <3>5. WaitsQuietly(j)' /\ Round(j)'
      BY <3>3, <3>4, JobOnce
    <3> QED
      BY <3>2, <3>5 DEF WaitsQuietly, Waits, Round
  <2> QED
    BY <2>1, <2>2
<1> QED
  BY <1>3, <1>4, <1>5, <1>6 DEF OnceInv

LEMMA PublishOnce ==
  ASSUME HeardInv, OnceInv, NEW e \in Events, Publish(e)
  PROVE  OnceInv'
<1>1. /\ e \in fresh /\ fresh' = fresh \ {e} /\ \A x \in Events \ {e} : event'[x] = event[x]
      /\ UNCHANGED <<delivery, active, gone, received, job, budget, disturbed, unheard, unrecorded, overridden>>
  BY DEF Publish, HeardInv, TypeOK
<1>2. Shrinks
  BY <1>1 DEF Shrinks, Apart
<1>3. Quiet(e) /\ \A w \in Workers : ~Has(w, e)
  BY <1>1 DEF OnceInv, Unknown
<1>4. fresh' \subseteq Events \ {e}
  BY <1>1 DEF HeardInv, TypeOK
<1> QED
  BY <1>1, <1>2, <1>3, <1>4, RowsOnce

LEMMA DestroyOnce ==
  ASSUME HeardInv, OnceInv, NEW e \in Events, DestroyEvent(e)
  PROVE  OnceInv'
<1>1. /\ \A x \in Events \ {e} : event'[x] = event[x]
      /\ event'[e] = Missing /\ Exists(e)
      /\ disturbed' = disturbed \union {x \in {e} : Listed(x)}
      /\ UNCHANGED <<fresh, active, gone, received, job, unheard, unrecorded, overridden>>
  BY DEF DestroyEvent, HeardInv, TypeOK
<1>2. Shrinks /\ disturbed \subseteq disturbed'
  BY <1>1 DEF Shrinks, Apart
<1>3. \A w \in Workers : Has(w, e) => ~Apart(e)'
  <2>1. ASSUME NEW w \in Workers, Has(w, e) PROVE e \in disturbed'
    <3>1. job[w] \in Job
      BY <2>1 DEF HeardInv, TypeOK, Has, Busy
    <3>2. DOMAIN job[w].list = 1 .. Len(job[w].list)
      BY <3>1 DEF Job
    <3> QED
      BY <1>1, <2>1, <3>2 DEF Has, Listed
  <2> QED
    BY <2>1 DEF Apart
<1>4. e \notin fresh /\ fresh \subseteq Events
  BY <1>1 DEF OnceInv, Unknown, HeardInv, TypeOK
<1> QED
  BY <1>1, <1>2, <1>3, <1>4, RowsOnce

LEMMA AdminOnce ==
  ASSUME HeardInv, OnceInv, Administer \/ \E s \in Subs : Subscribe(s) \/ DestroySubscription(s)
  PROVE  OnceInv'
<1>1. UNCHANGED <<fresh, received, job, disturbed, unrecorded>> /\ overridden \subseteq overridden'
  BY DEF Administer, Subscribe, DestroySubscription, AdminRetryEvent, AdminMarkEvent, RetryDelivery,
         AdminMarkDelivery
<1>2. Shrinks
  BY <1>1 DEF Shrinks, Apart
<1>3. ASSUME NEW e \in Events, AdminRetryEvent(e) \/ AdminMarkEvent(e) PROVE OnceInv'
  <2>1. /\ Exists(e) /\ e \in overridden' /\ \A x \in Events \ {e} : event'[x] = event[x]
    BY <1>3 DEF AdminRetryEvent, AdminMarkEvent, HeardInv, TypeOK
  <2>2. ~Apart(e)' /\ e \notin fresh /\ fresh \subseteq Events
    BY <2>1 DEF Apart, OnceInv, Unknown, HeardInv, TypeOK
  <2> QED
    BY <1>1, <1>2, <2>1, <2>2, RowsOnce
<1>4. CASE event' = event
  BY <1>1, <1>2, <1>4, RowsOnce
<1> QED
  BY <1>3, <1>4 DEF Administer, Subscribe, DestroySubscription, RetryDelivery, AdminMarkDelivery

LEMMA RequestOnce ==
  ASSUME HeardInv, OnceInv, NEW w \in Workers, Request(w)
  PROVE  OnceInv'
<1>1. PICK set \in SUBSET {e \in Events : Exists(e)}, j \in Job :
        /\ Become(w, j) /\ Holds(j, set) /\ Fits(j) /\ j.stage \notin Begun
        /\ job[w] = << >>
        /\ disturbed \subseteq disturbed'
        /\ \A e \in set, v \in Workers : Has(v, e) => e \in disturbed'
        /\ overridden \subseteq overridden'
        /\ UNCHANGED <<event, fresh, delivery, active, gone, received, unheard, unrecorded>>
  BY RequestStarts DEF HeardInv
<1>2. /\ job'[w] = j /\ \A v \in Workers \ {w} : job'[v] = job[v]
  BY <1>1 DEF Become, HeardInv, TypeOK
<1>3. Shrinks
  BY <1>1 DEF Shrinks, Apart
<1>4. /\ \A x \in Events : Has(w, x)' => x \in set
      /\ \A v \in Workers \ {w}, x \in Events : Has(v, x)' => Has(v, x)
  BY <1>1, <1>2 DEF Has, Busy, Holds
<1>5. Unknown'
  <2>1. \A x \in fresh : x \in Events /\ x \notin set
    BY DEF OnceInv, Unknown, HeardInv, TypeOK
  <2> QED
    BY <1>1, <1>4, <2>1 DEF OnceInv, Unknown, Exists, Quiet
<1>6. Alone'
  BY <1>1, <1>4 DEF OnceInv, Alone
<1>7. OpenIsQuiet' /\ AtMostOnce'
  BY <1>1, <1>3 DEF OnceInv, OpenIsQuiet, AtMostOnce, Shrinks, Exists, Quiet
<1>8. WaitsQuietly(j)' /\ Round(j)'
  <2>1. ASSUME NEW i \in DOMAIN j.list, Apart(j.list[i].id)', j.list[i].row.status \in Open
        PROVE  Quiet(j.list[i].id)'
    <3>1. PICK x \in Events : x = j.list[i].id /\ Exists(x)
      BY <1>1 DEF Holds
    <3>2. j.list[i].row = event[x] /\ Apart(x)
      BY <1>1, <1>3, <2>1, <3>1 DEF Holds, Apart, Shrinks
    <3>3. Quiet(x)
      BY <2>1, <3>1, <3>2 DEF OnceInv, OpenIsQuiet
    <3> QED
      BY <1>1, <3>1, <3>3 DEF Quiet
  <2> QED
    BY <1>1, <2>1 DEF WaitsQuietly, Round, Begun
<1>9. ASSUME NEW v \in Workers, Busy(v)' PROVE WaitsQuietly(job[v])' /\ Round(job[v])'
  <2>1. CASE v = w
    BY <1>2, <1>8, <2>1 DEF WaitsQuietly, Waits, Round
  <2>2. CASE v # w
    <3>1. PICK k : k = job[v]
      OBVIOUS
    <3>2. Busy(v) /\ job'[v] = k
      BY <1>2, <1>9, <2>2, <3>1 DEF Busy
    <3>3. k \in Job /\ Fits(k) /\ WaitsQuietly(k) /\ Round(k)
      BY <3>1, <3>2 DEF HeardInv, TypeOK, Busy, Working, OnceInv
    <3>4. \A i \in DOMAIN k.list : Apart(k.list[i].id)' => Same(k.list[i].id)
      BY <1>1 DEF Same
    <3>5. WaitsQuietly(k)' /\ Round(k)'
      BY <1>3, <3>3, <3>4, JobOnce
    <3> QED
      BY <3>2, <3>5 DEF WaitsQuietly, Waits, Round
  <2> QED
    BY <2>1, <2>2
<1> QED
  BY <1>5, <1>6, <1>7, <1>9 DEF OnceInv

\* The events behind the head have been waiting; nothing has happened to them.
LEMMA OverOnce ==
  ASSUME HeardInv, OnceInv, NEW w \in Workers, Busy(w), NEW j, j = job[w], NEW e, e = j.list[1].id,
         NEW k, Over(j, k), k # << >>, Shrinks, \A x \in Events \ {e} : Same(x)
  PROVE  /\ k \in Job /\ \A i \in DOMAIN k.list : Has(w, k.list[i].id)
         /\ WaitsQuietly(k)' /\ Round(k)'
<1>1. j \in Job /\ Fits(j) /\ HeardJob(j) /\ WaitsQuietly(j)
  BY AtWork DEF OnceInv
<1>2. k \in Job /\ k.stage \notin Begun /\ k.list = Tail(j.list)
  BY <1>1, OverKeeps
<1>3. /\ \A i \in DOMAIN k.list : i \in Nat /\ i >= 1 /\ i + 1 \in DOMAIN j.list /\ k.list[i] = j.list[i + 1]
      /\ 1 \in DOMAIN j.list /\ \A i \in DOMAIN j.list : j.list[i].id \in Events
  BY <1>1, <1>2, JobFacts, SeqFacts
<1>4. \A i \in DOMAIN k.list : Has(w, k.list[i].id)
  BY <1>3 DEF Has
<1>5. ASSUME NEW i \in DOMAIN k.list, Apart(k.list[i].id)', k.list[i].row.status \in Open
      PROVE  Quiet(k.list[i].id)'
  <2>1. PICK l \in DOMAIN j.list : l = i + 1 /\ k.list[i] = j.list[l] /\ l > 1
    BY <1>3
  <2>2. PICK x \in Events : x = j.list[l].id
    BY <1>3
  <2>3. x # e
    BY <1>1, <1>3, <2>1, <2>2 DEF Fits
  <2>4. Apart(x)
    BY <1>5, <2>1, <2>2 DEF Shrinks
  <2>5. Quiet(x)
    BY <1>1, <1>5, <2>1, <2>2, <2>4 DEF WaitsQuietly, Waits
  <2>6. Quiet(x)'
    BY <2>3, <2>5 DEF Same, Quiet
  <2> QED
    BY <2>1, <2>2, <2>6 DEF Quiet
<1>6. WaitsQuietly(k)'
  BY <1>5 DEF WaitsQuietly
<1>7. Round(k)'
  BY <1>2 DEF Round, Begun
<1> QED
  BY <1>2, <1>4, <1>6, <1>7

LEMMA OnwardOnce ==
  ASSUME HeardInv, OnceInv, NEW w \in Workers, Busy(w), NEW j, j = job[w], NEW e, e = j.list[1].id,
         NEW k, Onward(j, k), Shrinks, \A x \in Events \ {e} : Same(x),
         k.stage \in Begun \/ (j.stage \notin Begun /\ received' = received)
  PROVE  k \in Job /\ (\A i \in DOMAIN k.list : Has(w, k.list[i].id)) /\ WaitsQuietly(k)'
<1>1. j \in Job /\ Fits(j) /\ WaitsQuietly(j)
  BY AtWork DEF OnceInv
<1>2. k \in Job /\ k.list = j.list
  BY DEF Onward
<1>3. 1 \in DOMAIN j.list /\ \A i \in DOMAIN j.list : j.list[i].id \in Events
  BY <1>1, JobFacts
<1>4. ASSUME NEW i \in DOMAIN j.list, Apart(j.list[i].id)', Waits(k, i), j.list[i].row.status \in Open
      PROVE  Quiet(j.list[i].id)'
  <2>1. PICK x \in Events : x = j.list[i].id
    BY <1>3
  <2>2. Apart(x)
    BY <1>4, <2>1 DEF Shrinks
  <2>3. Waits(j, i)
    BY <1>4 DEF Waits
  <2>4. Quiet(x)
    BY <1>1, <1>4, <2>1, <2>2, <2>3 DEF WaitsQuietly
  <2>5. received'[x] = received[x]
    <3>1. CASE i > 1
      <4>1. x # e
        BY <1>1, <1>3, <2>1, <3>1 DEF Fits
      <4> QED
        BY <4>1 DEF Same
    <3>2. CASE ~(i > 1)
      BY <1>4, <3>2 DEF Waits
    <3> QED
      BY <3>1, <3>2
  <2> QED
    BY <2>1, <2>4, <2>5 DEF Quiet
<1>5. WaitsQuietly(k)'
  BY <1>2, <1>4 DEF WaitsQuietly, Waits
<1> QED
  BY <1>2, <1>3, <1>5 DEF Has

\* The statement has no effect but on the job.
LEMMA OverStep ==
  ASSUME HeardInv, OnceInv, NEW w \in Workers, Busy(w), NEW j, j = job[w], NEW k, Become(w, k),
         Over(j, k) \/ Raises(j, k),
         event' = event, received' = received, fresh' = fresh, Shrinks, disturbed \subseteq disturbed'
  PROVE  OnceInv'
<1>1. PICK e : e = j.list[1].id
  OBVIOUS
<1>2. e \in Events
  BY <1>1, AtWork
<1>3. \A x \in Events : Same(x)
  BY DEF Same
<1>4. Apart(e)' => /\ event'[e] # Missing /\ event'[e].status \in Open => Quiet(e)'
                   /\ \A s \in Subs : received'[e][s] <= 1
  BY <1>2 DEF OnceInv, OpenIsQuiet, AtMostOnce, Shrinks, Exists, Quiet
<1>5. /\ k \in Job \union {<< >>}
      /\ k # << >> => /\ \A i \in DOMAIN k.list : Has(w, k.list[i].id)
                      /\ WaitsQuietly(k)' /\ Round(k)'
  <2>1. CASE k # << >> /\ Over(j, k)
    BY <1>1, <1>3, <2>1, OverOnce
  <2>2. CASE Raises(j, k)
    <3>1. Onward(j, k) /\ k.stage \in Begun /\ k.stage \notin Running
      BY <2>2 DEF Raises, Begun, Running, Asking, Sending
    <3>2. Round(k)'
      BY <3>1 DEF Round
    <3> QED
      BY <1>1, <1>3, <3>1, <3>2, OnwardOnce
  <2> QED
    BY <2>1, <2>2
<1> QED
  BY <1>1, <1>3, <1>4, <1>5, StepOnce

\* The row of the event is set, and its job is over or goes on.
LEMMA RowStep ==
  ASSUME HeardInv, OnceInv, NEW w \in Workers, Busy(w), NEW j, j = job[w], NEW e, e = j.list[1].id,
         NEW k, Become(w, k), NEW row \in Event, event' = [event EXCEPT ![e] = row],
         UNCHANGED <<fresh, received, disturbed, overridden>>, unrecorded \subseteq unrecorded',
         row.status \in Open /\ Apart(e)' => Quiet(e),
         \/ Over(j, k)
         \/ Onward(j, k) /\ (k.stage \in Begun \/ j.stage \notin Begun) /\ Round(k)'
  PROVE  OnceInv'
<1>1. e \in Events
  BY AtWork
<1>2. Shrinks /\ fresh' = fresh /\ disturbed \subseteq disturbed' /\ received' = received /\ (Apart(e)' => Apart(e))
  BY DEF Shrinks, Apart
<1>3. event'[e] = row /\ \A x \in Events \ {e} : Same(x)
  BY <1>1 DEF Same, HeardInv, TypeOK
<1>4. Apart(e)' => /\ event'[e] # Missing /\ event'[e].status \in Open => Quiet(e)'
                   /\ \A s \in Subs : received'[e][s] <= 1
  BY <1>1, <1>2, <1>3 DEF OnceInv, AtMostOnce, Quiet
<1>5. /\ k \in Job \union {<< >>}
      /\ k # << >> => /\ \A i \in DOMAIN k.list : Has(w, k.list[i].id)
                      /\ WaitsQuietly(k)' /\ Round(k)'
  <2>1. CASE k = << >>
    BY <2>1
  <2>2. CASE k # << >> /\ Over(j, k)
    BY <1>2, <1>3, <2>2, OverOnce
  <2>3. CASE Onward(j, k) /\ (k.stage \in Begun \/ j.stage \notin Begun) /\ Round(k)'
    BY <1>2, <1>3, <2>3, OnwardOnce
  <2> QED
    BY <2>1, <2>2, <2>3
<1> QED
  BY <1>2, <1>3, <1>4, <1>5, StepOnce

LEMMA IncrementRetryOnce ==
  ASSUME HeardInv, OnceInv, NEW w \in Workers, IncrementRetry(w)
  PROVE  OnceInv'
<1>1. PICK e, j : e = This(w) /\ j = job[w]
  OBVIOUS
<1>2. UNCHANGED <<fresh, received, disturbed, unrecorded, overridden>>
  BY DEF IncrementRetry
<1>3. PICK k : /\ Become(w, k) /\ Busy(w) /\ j.stage = "retry"
               /\ \/ event' = event /\ k = << >>
                  \/ \E row \in Event : /\ event' = [event EXCEPT ![e] = row] /\ Exists(e)
                                        /\ row.status \in {"failed", "retry"}
                                        /\ \/ Over(j, k)
                                           \/ Onward(j, k) /\ k.made = j.made /\ k.stage = "mark"
  BY <1>1, IncrementRetryDoes
<1>4. j \in Job /\ Fits(j) /\ e = j.list[1].id /\ 1 \in DOMAIN j.list
  BY <1>1, <1>3, AtWork, JobFacts
<1>5. (Apart(e)' => Apart(e)) /\ (Apart(e) => Quiet(e))
  <2>1. j.list[1].row.status \in Open /\ Waits(j, 1)
    BY <1>3, <1>4 DEF Fits, Waits, Begun, Running, Asking, Sending
  <2>2. Apart(e)' => Apart(e)
    BY <1>2 DEF Apart
  <2> QED
    BY <1>1, <1>3, <1>4, <2>1, <2>2 DEF OnceInv, WaitsQuietly
<1>6. CASE event' = event /\ k = << >>
  BY <1>1, <1>2, <1>3, <1>6, OverStep DEF Over, Shrinks, Apart
<1>7. ASSUME NEW row \in Event, event' = [event EXCEPT ![e] = row],
             \/ Over(j, k)
             \/ Onward(j, k) /\ k.made = j.made /\ k.stage = "mark"
      PROVE  OnceInv'
  <2>1. k.stage = "mark" => Round(k)'
    BY DEF Round, Running, Asking, Sending
  <2>2. j.stage \notin Begun
    BY <1>3 DEF Begun, Running, Asking, Sending
  <2> QED
    BY <1>1, <1>2, <1>3, <1>4, <1>5, <1>7, <2>1, <2>2, RowStep
<1> QED
  BY <1>3, <1>6, <1>7

LEMMA MarkProcessingOnce ==
  ASSUME HeardInv, OnceInv, NEW w \in Workers, MarkProcessing(w)
  PROVE  OnceInv'
<1>1. PICK e, j : e = This(w) /\ j = job[w]
  OBVIOUS
<1>2. UNCHANGED <<fresh, received, disturbed, unrecorded, overridden>>
  BY DEF MarkProcessing
<1>3. PICK k : /\ Become(w, k) /\ Busy(w) /\ j.stage = "mark"
               /\ \/ event' = event /\ ~Exists(e) /\ Raises(j, k)
                  \/ \E row \in Event : /\ event' = [event EXCEPT ![e] = row] /\ Exists(e)
                                        /\ row.status = "processing"
                                        /\ Onward(j, k) /\ k.made = j.made /\ k.stage = "subscriptions"
  BY <1>1, MarkProcessingDoes
<1>4. j \in Job /\ Fits(j) /\ e = j.list[1].id /\ 1 \in DOMAIN j.list /\ e \in Events
  BY <1>1, <1>3, AtWork, JobFacts
<1>5. (Apart(e)' => Apart(e)) /\ (Apart(e) => Quiet(e))
  <2>1. j.list[1].row.status \in Open /\ Waits(j, 1)
    BY <1>3, <1>4 DEF Fits, Waits, Begun, Running, Asking, Sending
  <2>2. Apart(e)' => Apart(e)
    BY <1>2 DEF Apart
  <2> QED
    BY <1>1, <1>3, <1>4, <2>1, <2>2 DEF OnceInv, WaitsQuietly
<1>6. CASE event' = event /\ Raises(j, k)
  BY <1>1, <1>2, <1>3, <1>6, OverStep DEF Shrinks, Apart
<1>7. ASSUME NEW row \in Event, event' = [event EXCEPT ![e] = row], row.status = "processing",
             Onward(j, k), k.stage = "subscriptions"
      PROVE  OnceInv'
  <2>1. event'[e] = row /\ row # Missing
    BY <1>4, <1>7, EventConstants DEF HeardInv, TypeOK
  <2>2. k.list[1].id = e /\ (Apart(e)' => Quiet(e)')
    BY <1>2, <1>4, <1>5, <1>7 DEF Onward, Apart, Quiet
  <2>3. Round(k)'
    BY <1>7, <2>1, <2>2 DEF Round, Exists, Asking, Sending
  <2>4. k.stage \in Begun
    BY <1>7 DEF Begun, Running
  <2>5. row.status \notin Open
    BY <1>7 DEF Open
  <2> QED
    BY <1>1, <1>2, <1>3, <1>4, <1>7, <2>3, <2>4, <2>5, RowStep
<1> QED
  BY <1>3, <1>6, <1>7

LEMMA FinishOnce ==
  ASSUME HeardInv, OnceInv, NEW w \in Workers, Finish(w)
  PROVE  OnceInv'
<1>1. PICK e, j : e = This(w) /\ j = job[w]
  OBVIOUS
<1>2. UNCHANGED <<fresh, received, disturbed, unrecorded, overridden>>
  BY DEF Finish
<1>3. PICK k : /\ Become(w, k) /\ Busy(w) /\ j.stage = "finish"
               /\ \/ event' = event /\ Raises(j, k)
                  \/ \E row \in Event : /\ event' = [event EXCEPT ![e] = row] /\ Exists(e) /\ Over(j, k)
                                        /\ row.status = IF j.made > 0 THEN "completed" ELSE "failed"
  BY <1>1, FinishDoes
<1>4. j \in Job /\ e = j.list[1].id /\ Round(j)
  BY <1>1, <1>3, AtWork DEF OnceInv
<1>5. CASE event' = event /\ Raises(j, k)
  BY <1>1, <1>2, <1>3, <1>5, OverStep DEF Shrinks, Apart
<1>6. ASSUME NEW row \in Event, event' = [event EXCEPT ![e] = row], Over(j, k),
             row.status = IF j.made > 0 THEN "completed" ELSE "failed"
      PROVE  OnceInv'
  <2>1. j.made = 0 /\ Apart(e) => Quiet(e)
    BY <1>3, <1>4 DEF Round, Running
  <2>2. row.status \in Open => j.made = 0
    BY <1>4, <1>6 DEF Open, Job
  <2>3. Apart(e)' => Apart(e)
    BY <1>2 DEF Apart
  <2> QED
    BY <1>1, <1>2, <1>3, <1>4, <1>6, <2>1, <2>2, <2>3, RowStep
<1> QED
  BY <1>3, <1>5, <1>6

LEMMA SaveOrCrashOnce ==
  ASSUME HeardInv, OnceInv, NEW w \in Workers, SaveEvent(w) \/ Crash(w)
  PROVE  OnceInv'
<1>1. PICK e, j : e = This(w) /\ j = job[w]
  OBVIOUS
<1>2. Over(j, << >>)
  BY DEF Over
<1>3. CASE SaveEvent(w)
  <2>1. /\ Become(w, << >>) /\ Busy(w) /\ j.stage = "edit"
        /\ event' = [event EXCEPT ![e] = j.list[1].row] /\ j.list[1].row \in Event
    BY <1>1, <1>3, SaveEventDoes
  <2>2. UNCHANGED <<fresh, received, disturbed, unrecorded, overridden>>
    BY <1>3 DEF SaveEvent
  <2>3. j \in Job /\ Fits(j) /\ e = j.list[1].id /\ 1 \in DOMAIN j.list
    BY <1>1, <2>1, AtWork, JobFacts
  <2>4. j.list[1].row.status \in Open /\ Apart(e)' => Quiet(e)
    <3>1. Waits(j, 1)
      BY <2>1 DEF Waits, Begun, Running, Asking, Sending
    <3>2. Apart(e)' => Apart(e)
      BY <2>2 DEF Apart
    <3> QED
      BY <1>1, <2>1, <2>3, <3>1, <3>2 DEF OnceInv, WaitsQuietly
  <2> QED
    BY <1>1, <1>2, <2>1, <2>2, <2>3, <2>4, RowStep
<1>4. CASE Crash(w)
  <2>1. /\ Busy(w) /\ Become(w, << >>) /\ disturbed \subseteq disturbed'
        /\ UNCHANGED <<event, fresh, delivery, active, gone, received, budget, unheard, unrecorded, overridden>>
    BY <1>4 DEF Crash
  <2> QED
    BY <1>1, <1>2, <2>1, OverStep DEF Shrinks, Apart
<1> QED
  BY <1>3, <1>4

LEMMA MarkFailedOnce ==
  ASSUME HeardInv, OnceInv, NEW w \in Workers, MarkFailed(w)
  PROVE  OnceInv'
<1>1. PICK e, j : e = This(w) /\ j = job[w]
  OBVIOUS
<1>2. UNCHANGED <<fresh, received, disturbed, overridden>>
  BY DEF MarkFailed
<1>3. /\ \E k : Become(w, k) /\ Over(j, k)
      /\ Busy(w) /\ j.stage = "except"
      /\ \/ event' = event
         \/ \E row \in Event : event' = [event EXCEPT ![e] = row] /\ row.status = "failed"
      /\ unrecorded \subseteq unrecorded'
      /\ e \in unrecorded' \/ Quiet(e)
  BY <1>1, MarkFailedDoes
<1>4. PICK k : Become(w, k) /\ Over(j, k)
  BY <1>3
<1>5. e = j.list[1].id /\ (Apart(e)' => Quiet(e))
  BY <1>1, <1>3, AtWork DEF Apart
<1>6. CASE event' = event
  BY <1>1, <1>2, <1>3, <1>4, <1>6, OverStep DEF Shrinks, Apart
<1>7. CASE \E row \in Event : event' = [event EXCEPT ![e] = row] /\ row.status = "failed"
  BY <1>1, <1>2, <1>3, <1>4, <1>5, <1>7, RowStep
<1> QED
  BY <1>3, <1>6, <1>7

\* A delivery takes a step: the event stays in processing.
LEMMA OnwardStep ==
  ASSUME HeardInv, OnceInv, NEW w \in Workers, Busy(w), NEW j, j = job[w], NEW e, e = j.list[1].id,
         NEW k, Become(w, k), Onward(j, k), k.stage \in Running, j.stage \in Running,
         event' = event, fresh' = fresh, disturbed' = disturbed, Shrinks,
         \A x \in Events \ {e} : received'[x] = received[x],
         Apart(e)' => \A s \in Subs : received'[e][s] <= 1,
         Round(k)'
  PROVE  OnceInv'
<1>1. e \in Events /\ Round(j)
  BY AtWork DEF OnceInv
<1>2. \A x \in Events \ {e} : Same(x)
  BY DEF Same
<1>3. k \in Job /\ (\A i \in DOMAIN k.list : Has(w, k.list[i].id)) /\ WaitsQuietly(k)'
  BY <1>2, OnwardOnce DEF Begun
<1>4. Apart(e)' => event'[e].status \notin Open
  BY <1>1 DEF Round, Shrinks, Open
<1> QED
  BY <1>1, <1>2, <1>3, <1>4, StepOnce

\* The deliveries to be made are laid out; nobody has been asked.
LEMMA FindSubscriptionsOnce ==
  ASSUME HeardInv, OnceInv, NEW w \in Workers, FindSubscriptions(w)
  PROVE  OnceInv'
<1>1. PICK e, j : e = This(w) /\ j = job[w]
  OBVIOUS
<1>2. UNCHANGED <<event, fresh, delivery, active, gone, received, budget, disturbed, unrecorded, overridden>>
  BY DEF FindSubscriptions
<1>3. PICK k : /\ Become(w, k) /\ Busy(w) /\ j.stage = "subscriptions" /\ unheard' \subseteq Events
               /\ \/ Over(j, k)
                  \/ /\ Onward(j, k) /\ k.made = j.made /\ k.stage = "create"
                     /\ \A i, l \in DOMAIN k.rows : k.rows[i].sub = k.rows[l].sub => i = l
  BY <1>1, FindSubscriptionsDoes
<1>4. /\ j \in Job /\ Fits(j) /\ e = j.list[1].id /\ e \in Events /\ Round(j)
      /\ Shrinks
  BY <1>1, <1>2, <1>3, AtWork DEF OnceInv, Shrinks, Apart
<1>5. CASE Over(j, k)
  BY <1>1, <1>2, <1>3, <1>4, <1>5, OverStep
<1>6. CASE /\ Onward(j, k) /\ k.made = j.made /\ k.stage = "create"
           /\ \A i, l \in DOMAIN k.rows : k.rows[i].sub = k.rows[l].sub => i = l
  <2>1. k \in Job /\ k.list = j.list
    BY <1>6 DEF Onward
  <2>2. Round(k)
    BY <1>3, <1>4, <1>6, <2>1 DEF Round, Sending, Asking, Running
  <2>3. Round(k)'
    <3>1. Fits(k)
      BY <1>4, <1>6 DEF Onward, Fits
    <3>2. \A x : Same(x)
      BY <1>2 DEF Same
    <3> QED
      BY <1>4, <2>1, <2>2, <3>1, <3>2, JobOnce
  <2>4. k.stage \in Running /\ j.stage \in Running
    BY <1>3, <1>6 DEF Running, Asking
  <2>5. Apart(e)' => \A s \in Subs : received'[e][s] <= 1
    BY <1>2, <1>4 DEF OnceInv, AtMostOnce, Shrinks
  <2> QED
    BY <1>1, <1>2, <1>3, <1>4, <1>6, <2>3, <2>4, <2>5, OnwardStep
<1> QED
  BY <1>3, <1>5, <1>6

LEMMA CreateDeliveriesOnce ==
  ASSUME HeardInv, OnceInv, NEW w \in Workers, CreateDeliveries(w)
  PROVE  OnceInv'
<1>1. PICK e, j : e = This(w) /\ j = job[w]
  OBVIOUS
<1>2. UNCHANGED <<event, fresh, active, gone, received, budget, disturbed, unheard, unrecorded, overridden>>
  BY DEF CreateDeliveries
<1>3. PICK k : /\ Become(w, k) /\ Busy(w) /\ j.stage = "create"
               /\ \/ Raises(j, k) /\ delivery' = delivery
                  \/ Onward(j, k) /\ k.made = j.made /\ k.stage = "sent" /\ Creates(j, k, e)
  BY <1>1, CreateDeliveriesDoes
<1>4. /\ j \in Job /\ Fits(j) /\ e = j.list[1].id /\ e \in Events /\ Round(j)
      /\ Shrinks
  BY <1>1, <1>2, <1>3, AtWork DEF OnceInv, Shrinks, Apart
<1>5. CASE Raises(j, k)
  BY <1>1, <1>2, <1>3, <1>4, <1>5, OverStep
<1>6. CASE Onward(j, k) /\ k.made = j.made /\ k.stage = "sent" /\ Creates(j, k, e)
  <2>1. k \in Job /\ k.list = j.list /\ k.rows # << >>
    BY <1>6 DEF Onward, Asking, Sending
  <2>2. Apart(e) => Exists(e) /\ event[e].status = "processing" /\ Quiet(e)
    BY <1>3, <1>4 DEF Round, Running, Asking
  <2>3. Apart(e) => \A i, l \in DOMAIN k.rows : k.rows[i].sub = k.rows[l].sub => i = l
    BY <1>3, <1>4, <1>6 DEF Creates, Round, Running, Asking
  <2>4. \A i \in DOMAIN k.rows : k.rows[i].sub \in Subs
    <3>1. k.rows \in Seq([id : Nat, sub : Subs])
      BY <2>1 DEF Job
    <3>2. \A i \in DOMAIN k.rows : k.rows[i] \in [id : Nat, sub : Subs]
      BY <2>1, <3>1, SeqFacts
    <3> QED
      BY <3>2
  <2>5. Round(k)
    BY <1>4, <1>6, <2>1, <2>2, <2>3, <2>4 DEF Round, Sending, Running, Quiet
  <2>6. Round(k)'
    <3>1. Fits(k)
      BY <1>4, <1>6 DEF Onward, Fits
    <3>2. \A x : Same(x)
      BY <1>2 DEF Same
    <3> QED
      BY <1>4, <2>1, <2>5, <3>1, <3>2, JobOnce
  <2>7. k.stage \in Running /\ j.stage \in Running
    BY <1>3, <1>6 DEF Running, Asking, Sending
  <2>8. Apart(e)' => \A s \in Subs : received'[e][s] <= 1
    BY <1>2, <1>4 DEF OnceInv, AtMostOnce, Shrinks
  <2> QED
    BY <1>1, <1>2, <1>3, <1>4, <1>6, <2>6, <2>7, <2>8, OnwardStep
<1> QED
  BY <1>3, <1>5, <1>6

LEMMA MarkSentOnce ==
  ASSUME HeardInv, OnceInv, NEW w \in Workers, MarkSent(w)
  PROVE  OnceInv'
<1>1. PICK e, j : e = This(w) /\ j = job[w]
  OBVIOUS
<1>2. UNCHANGED <<event, fresh, active, gone, received, budget, disturbed, unheard, unrecorded, overridden>>
  BY DEF MarkSent
<1>3. PICK k : /\ Become(w, k) /\ Busy(w) /\ j.stage = "sent"
               /\ \/ Raises(j, k) /\ delivery' = delivery
                  \/ /\ Onward(j, k) /\ k.made = j.made /\ k.stage = "post" /\ k.rows = j.rows
                     /\ Marks(e, "sent")
  BY <1>1, MarkSentDoes
<1>4. /\ j \in Job /\ Fits(j) /\ e = j.list[1].id /\ e \in Events /\ Round(j)
      /\ Shrinks
  BY <1>1, <1>2, <1>3, AtWork DEF OnceInv, Shrinks, Apart
<1>5. CASE Raises(j, k)
  BY <1>1, <1>2, <1>3, <1>4, <1>5, OverStep
<1>6. CASE Onward(j, k) /\ k.made = j.made /\ k.stage = "post" /\ k.rows = j.rows
  <2>1. k \in Job /\ k.list = j.list
    BY <1>6 DEF Onward
  <2>2. Round(k)
    BY <1>3, <1>4, <1>6, <2>1 DEF Round, Sending, Asking, Running
  <2>3. Round(k)'
    <3>1. Fits(k)
      BY <1>4, <1>6 DEF Onward, Fits
    <3>2. \A x : Same(x)
      BY <1>2 DEF Same
    <3> QED
      BY <1>4, <2>1, <2>2, <3>1, <3>2, JobOnce
  <2>4. k.stage \in Running /\ j.stage \in Running
    BY <1>3, <1>6 DEF Running, Asking, Sending
  <2>5. Apart(e)' => \A s \in Subs : received'[e][s] <= 1
    BY <1>2, <1>4 DEF OnceInv, AtMostOnce, Shrinks
  <2> QED
    BY <1>1, <1>2, <1>3, <1>4, <1>6, <2>3, <2>4, <2>5, OnwardStep
<1> QED
  BY <1>3, <1>5, <1>6

LEMMA MarkAnswerOnce ==
  ASSUME HeardInv, OnceInv, NEW w \in Workers, MarkAnswer(w)
  PROVE  OnceInv'
<1>1. PICK e, j : e = This(w) /\ j = job[w]
  OBVIOUS
<1>2. UNCHANGED <<event, fresh, active, gone, received, budget, disturbed, unheard, unrecorded, overridden>>
  BY DEF MarkAnswer
<1>3. PICK k : /\ Become(w, k) /\ Busy(w) /\ j.stage = "answer"
               /\ \/ Raises(j, k) /\ delivery' = delivery
                  \/ /\ Onward(j, k) /\ k.rows = Tail(j.rows)
                     /\ k.made = IF j.ok THEN j.made + 1 ELSE j.made
                     /\ k.stage = IF k.rows = << >> THEN "finish" ELSE "sent"
                     /\ Marks(e, IF j.ok THEN "delivered" ELSE "failed")
  BY <1>1, MarkAnswerDoes
<1>4. /\ j \in Job /\ Fits(j) /\ e = j.list[1].id /\ e \in Events /\ Round(j)
      /\ Shrinks
  BY <1>1, <1>2, <1>3, AtWork DEF OnceInv, Shrinks, Apart
<1>5. CASE Raises(j, k)
  BY <1>1, <1>2, <1>3, <1>4, <1>5, OverStep
<1>6. CASE /\ Onward(j, k) /\ k.rows = Tail(j.rows)
           /\ k.made = IF j.ok THEN j.made + 1 ELSE j.made
           /\ k.stage = IF k.rows = << >> THEN "finish" ELSE "sent"
  <2>1. k \in Job /\ k.list = j.list
    BY <1>6 DEF Onward
  <2>2. /\ 1 \in DOMAIN j.rows /\ j.made \in Nat
        /\ \A i \in DOMAIN k.rows : i \in Nat /\ i >= 1 /\ i + 1 \in DOMAIN j.rows /\ k.rows[i] = j.rows[i + 1]
    <3>1. j.rows \in Seq([id : Nat, sub : Subs]) /\ j.rows # << >> /\ j.made \in Nat
      BY <1>3, <1>4, JobFacts DEF Fits, Asking, Sending
    <3> QED
      BY <1>6, <3>1, SeqFacts
  <2>3. ASSUME Apart(e)
        PROVE  /\ Exists(e) /\ event[e].status = "processing"
               /\ \A i, l \in DOMAIN j.rows : j.rows[i].sub = j.rows[l].sub => i = l
               /\ \A i \in DOMAIN j.rows : i > 1 \/ ~j.ok => received[e][j.rows[i].sub] = 0
               /\ j.made = 0 => \A s \in Subs : s # j.rows[1].sub => received[e][s] = 0
    BY <1>3, <1>4, <2>3 DEF Round, Running, Asking, Sending
  <2>4. ASSUME Apart(e), k.made = 0 PROVE Quiet(e)
    <3>1. j.made = 0 /\ ~j.ok
      BY <1>6, <2>2, <2>4
    <3> QED
      BY <2>2, <2>3, <2>4, <3>1 DEF Quiet
  <2>5. ASSUME Apart(e), NEW i \in DOMAIN k.rows PROVE received[e][k.rows[i].sub] = 0
    BY <2>2, <2>3, <2>5
  <2>6. ASSUME Apart(e), NEW i \in DOMAIN k.rows, NEW l \in DOMAIN k.rows, k.rows[i].sub = k.rows[l].sub
        PROVE  i = l
    <3>1. i + 1 = l + 1
      BY <2>2, <2>3, <2>6
    <3> QED
      BY <2>2, <3>1
  <2>7. Round(k)
    <3>1. k.stage \in {"finish", "sent"} /\ (k.stage = "sent" <=> k.stage \in Sending)
          /\ (k.stage = "sent" <=> k.stage \in Asking)
      BY <1>6 DEF Asking, Sending
    <3> QED
      BY <1>4, <2>1, <2>3, <2>4, <2>5, <2>6, <3>1 DEF Round, Quiet
  <2>8. Round(k)'
    <3>1. Fits(k)
      BY <1>4, <1>6 DEF Onward, Fits
    <3>2. \A x : Same(x)
      BY <1>2 DEF Same
    <3> QED
      BY <1>4, <2>1, <2>7, <3>1, <3>2, JobOnce
  <2>9. k.stage \in Running /\ j.stage \in Running
    BY <1>3, <1>6 DEF Running, Asking, Sending
  <2>10. Apart(e)' => \A s \in Subs : received'[e][s] <= 1
    BY <1>2, <1>4 DEF OnceInv, AtMostOnce, Shrinks
  <2> QED
    BY <1>1, <1>2, <1>3, <1>4, <1>6, <2>8, <2>9, <2>10, OnwardStep
<1> QED
  BY <1>3, <1>5, <1>6

LEMMA PostOnce ==
  ASSUME HeardInv, OnceInv, NEW w \in Workers, Post(w)
  PROVE  OnceInv'
<1>1. PICK e, j : e = This(w) /\ j = job[w]
  OBVIOUS
<1>2. UNCHANGED <<event, fresh, delivery, active, gone, budget, disturbed, unheard, overridden>>
  BY DEF Post
<1>3. PICK k : \E accepts, answers \in BOOLEAN, s \in Subs :
        /\ Become(w, k) /\ Busy(w) /\ j.stage = "post"
        /\ Onward(j, k) /\ k.made = j.made /\ k.stage = "answer" /\ k.rows = j.rows
        /\ s = j.rows[1].sub /\ k.ok = (accepts /\ answers)
        /\ received' = IF accepts THEN [received EXCEPT ![e][s] = @ + 1] ELSE received
        /\ unrecorded' = IF accepts /\ ~answers THEN unrecorded \union {e} ELSE unrecorded
  BY <1>1, PostDoes
<1>4. PICK accepts \in BOOLEAN, answers \in BOOLEAN, s \in Subs :
        /\ Become(w, k) /\ Busy(w) /\ j.stage = "post"
        /\ Onward(j, k) /\ k.made = j.made /\ k.stage = "answer" /\ k.rows = j.rows
        /\ s = j.rows[1].sub /\ k.ok = (accepts /\ answers)
        /\ received' = IF accepts THEN [received EXCEPT ![e][s] = @ + 1] ELSE received
        /\ unrecorded' = IF accepts /\ ~answers THEN unrecorded \union {e} ELSE unrecorded
  BY <1>3
<1>5. /\ j \in Job /\ Fits(j) /\ e = j.list[1].id /\ e \in Events /\ Round(j)
      /\ Shrinks
  BY <1>1, <1>2, <1>4, AtWork DEF OnceInv, Shrinks, Apart
<1>6. /\ \A x \in Events \ {e} : received'[x] = received[x]
      /\ \A t \in Subs : received[e][t] \in Nat
      /\ \A t \in Subs : received'[e][t] = IF accepts /\ t = s THEN received[e][t] + 1 ELSE received[e][t]
  BY <1>4, <1>5 DEF HeardInv, TypeOK
<1>7. j.rows # << >> /\ 1 \in DOMAIN j.rows /\ \A i \in DOMAIN j.rows : i \in Nat /\ i >= 1 /\ j.rows[i].sub \in Subs
  <2>1. j.rows \in Seq([id : Nat, sub : Subs]) /\ j.rows # << >>
    BY <1>4, <1>5, JobFacts DEF Fits, Asking, Sending
  <2>2. 1 \in DOMAIN j.rows /\ \A i \in DOMAIN j.rows : i \in Nat /\ i >= 1 /\ j.rows[i] \in [id : Nat, sub : Subs]
    BY <2>1, SeqFacts
  <2> QED
    BY <2>1, <2>2
<1>8. ASSUME Apart(e)
      PROVE  /\ Exists(e) /\ event[e].status = "processing"
             /\ \A i, l \in DOMAIN j.rows : j.rows[i].sub = j.rows[l].sub => i = l
             /\ \A i \in DOMAIN j.rows : received[e][j.rows[i].sub] = 0
             /\ j.made = 0 => \A t \in Subs : t # s => received[e][t] = 0
  BY <1>4, <1>5, <1>8 DEF Round, Running, Asking, Sending
<1>9. Apart(e)' => \A t \in Subs : received'[e][t] <= 1
  <2>1. ASSUME Apart(e), NEW t \in Subs PROVE received'[e][t] <= 1
    <3>1. received[e][s] = 0 /\ received[e][t] <= 1
      BY <1>4, <1>5, <1>7, <1>8, <2>1 DEF OnceInv, AtMostOnce
    <3> QED
      BY <1>6, <2>1, <3>1
  <2> QED
    BY <1>5, <2>1 DEF Shrinks
<1>10. Round(k)'
  <2>1. k.list = j.list
    BY <1>4 DEF Onward
  <2>2. ASSUME Apart(e)'
        PROVE  /\ Exists(e)' /\ event'[e].status = "processing"
               /\ \A i, l \in DOMAIN k.rows : k.rows[i].sub = k.rows[l].sub => i = l
               /\ \A i \in DOMAIN k.rows : i > 1 \/ ~k.ok => received'[e][k.rows[i].sub] = 0
               /\ k.made = 0 => \A t \in Subs : t # k.rows[1].sub => received'[e][t] = 0
    <3>1. Apart(e)
      BY <1>5, <2>2 DEF Shrinks
    <3>2. accepts => k.ok
      BY <1>4, <2>2 DEF Apart
    <3>3. Exists(e)' /\ event'[e].status = "processing"
      BY <1>2, <1>8, <3>1 DEF Exists
    <3>4. ASSUME NEW i \in DOMAIN k.rows, i > 1 \/ ~k.ok PROVE received'[e][k.rows[i].sub] = 0
      <4>1. k.rows[i].sub \in Subs /\ received[e][k.rows[i].sub] = 0
        BY <1>4, <1>7, <1>8, <3>1
      <4>2. ~accepts \/ k.rows[i].sub # s
        BY <1>4, <1>7, <1>8, <3>1, <3>2, <3>4
      <4> QED
        BY <1>6, <4>1, <4>2
    <3>5. k.made = 0 => \A t \in Subs : t # k.rows[1].sub => received'[e][t] = 0
      BY <1>4, <1>6, <1>8, <3>1
    <3> QED
      BY <1>4, <1>8, <3>1, <3>3, <3>4, <3>5
  <2> QED
    BY <1>4, <1>5, <2>1, <2>2 DEF Round, Asking, Sending
<1>11. k.stage \in Running /\ j.stage \in Running
  BY <1>4 DEF Running, Asking, Sending
<1> QED
  BY <1>1, <1>2, <1>4, <1>5, <1>6, <1>9, <1>10, <1>11, OnwardStep

-----------------------------------------------------------------------------
(* The second theorem. *)

LEMMA OnceInit ==
  ASSUME Init
  PROVE  OnceInv
<1>1. \A w \in Workers : ~Busy(w)
  BY DEF Init, Busy
<1>2. \A e \in Events : ~Exists(e) /\ Quiet(e)
  BY DEF Init, Exists, Quiet
<1>3. AtMostOnce
  BY DEF Init, AtMostOnce
<1> QED
  BY <1>1, <1>2, <1>3 DEF OnceInv, Unknown, Alone, OpenIsQuiet, Has, Init

LEMMA OnceNext ==
  ASSUME HeardInv, OnceInv, [Next]_vars
  PROVE  OnceInv'
<1>1. CASE \E e \in Events : Publish(e) \/ DestroyEvent(e)
  BY <1>1, PublishOnce, DestroyOnce
<1>2. CASE Administer \/ \E s \in Subs : Subscribe(s) \/ DestroySubscription(s)
  BY <1>2, AdminOnce
<1>3. ASSUME NEW w \in Workers, Request(w) \/ Execute(w) \/ Crash(w) PROVE OnceInv'
  BY <1>3, RequestOnce, IncrementRetryOnce, MarkProcessingOnce, FindSubscriptionsOnce, CreateDeliveriesOnce,
     MarkSentOnce, PostOnce, MarkAnswerOnce, FinishOnce, MarkFailedOnce, SaveOrCrashOnce DEF Execute
<1>4. CASE UNCHANGED vars
  BY <1>4, RowsOnce DEF vars, Shrinks, Apart
<1> QED
  BY <1>1, <1>2, <1>3, <1>4 DEF Next

\* An event that may be processed again was accepted by nobody, and the deliveries
\* under way ask nobody twice: inductive beside HeardInv.
THEOREM OnceInvariance == Spec => []OnceInv
<1>1. Init => OnceInv
  BY OnceInit
<1>2. HeardInv /\ OnceInv /\ [Next]_vars => OnceInv'
  BY OnceNext
<1> QED
  BY <1>1, <1>2, HeardInvariance, PTL DEF Spec

\* No subscriber accepts an event twice, retries included, as long as nobody disturbs
\* the event and its status tells of the acceptance: a request that raises after one
\* marks the event failed, and is exempt.
THEOREM NobodyTakesTwice == Spec => []ReceivedOnce
<1>1. OnceInv => ReceivedOnce
  BY DEF OnceInv, AtMostOnce, Apart, ReceivedOnce
<1> QED
  BY <1>1, OnceInvariance, PTL
=============================================================================
