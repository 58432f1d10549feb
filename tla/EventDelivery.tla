--------------------------- MODULE EventDelivery ----------------------------
(***************************************************************************)
(* The event bus (events/services.py, events/views.py, events/admin.py):   *)
(* events are published, processed by requests that deliver them to every  *)
(* subscription with an HTTP POST, and retried.  Nothing claims an event:  *)
(* a request works through the list it has read.  Statements commit one by *)
(* one; all but the edit of an event write single columns, and such a      *)
(* write fails when the row is gone.                                       *)
(* events/services.py ends line 179 with a stray quotation mark and cannot *)
(* be imported as it stands; the line is read without it.                  *)
(***************************************************************************)
EXTENDS Integers, Sequences, FiniteSets

CONSTANTS
  Events,        \* ids of Event rows
  Subs,          \* ids of EventSubscription rows, all of one event type
  Workers,       \* processes that handle requests
  MaxRetries,    \* Event.max_retries, and the limit retry_failed_events is given
  MaxAttempts,   \* EventDelivery.max_attempts
  MaxRequests,   \* bound: requests that are accepted in a behaviour
  Missing        \* a row that does not exist

EventStatus    == {"pending", "processing", "completed", "failed", "retry"}
DeliveryStatus == {"pending", "sent", "delivered", "failed", "retry"}

Event    == [status : EventStatus, retry_count : 0 .. MaxRetries]
Delivery == [event : Events, sub : Subs, status : DeliveryStatus, attempt_count : 0 .. MaxAttempts]

\* What a request does next with the event at the head of its list.
Stage == {"retry", "mark", "subscriptions", "create", "sent", "post", "answer", "finish",
          "except", "edit"}

Job ==
  [view  : {"processor", "retry_failed", "edit"},
   list  : Seq([id : Events, row : Event]),   \* what it has read, its own copies
   stage : Stage,
   rows  : Seq([id : Nat, sub : Subs]),       \* deliveries of the event still to be made;
                                              \* until they are rows, their id is 0
   made  : Nat,                               \* deliveries that were answered with 2xx
   ok    : BOOLEAN]                           \* the last answer

ASSUME EventConstants ==
  /\ MaxRetries \in Nat /\ MaxAttempts \in Nat /\ MaxRequests \in Nat
  /\ IsFiniteSet(Events) /\ IsFiniteSet(Subs)
  /\ Missing \notin Event /\ Missing \notin Delivery

VARIABLES
  event,      \* the rows of Event
  fresh,      \* ids that have never had a row
  delivery,   \* the rows of EventDelivery in the order of insertion; those of an event
              \* or a subscription that is deleted go with it and are Missing
  active,     \* the subscriptions with is_active
  gone,       \* the subscriptions that were deleted
  received,   \* how often each subscriber has accepted each event
  job,        \* what each worker is doing
  budget,     \* requests still to arrive
  disturbed,  \* history: events that two requests, or one that was cut short, held
  unheard,    \* history: events processed when no subscription was active
  unrecorded, \* history: events accepted by a subscriber of which their status does not
              \* tell, since the answer was lost or the request raised thereafter
  overridden  \* history: events whose status, or whose delivery, the admin has set

vars == <<event, fresh, delivery, active, gone, received, job, budget,
          disturbed, unheard, unrecorded, overridden>>

Rows == 1 .. Len(delivery)

TypeOK ==
  /\ event \in [Events -> Event \union {Missing}]
  /\ fresh \subseteq Events
  /\ delivery \in Seq(Delivery \union {Missing})
  /\ \A i \in Rows : delivery[i] # Missing => event[delivery[i].event] # Missing
  /\ active \subseteq Subs \ gone /\ gone \subseteq Subs
  /\ received \in [Events -> [Subs -> Nat]]
  /\ job \in [Workers -> Job \union {<< >>}]
  /\ budget \in 0 .. MaxRequests
  /\ \A ids \in {disturbed, unheard, unrecorded, overridden} : ids \subseteq Events

Init ==
  /\ event = [e \in Events |-> Missing]
  /\ fresh = Events
  /\ delivery = << >>
  /\ active \in SUBSET Subs /\ gone = {}
  /\ received = [e \in Events |-> [s \in Subs |-> 0]]
  /\ job = [w \in Workers |-> << >>]
  /\ budget = MaxRequests
  /\ disturbed = {} /\ unheard = {} /\ unrecorded = {} /\ overridden = {}

Exists(e) == event[e] # Missing
Busy(w)   == job[w] # << >>
Listed(e) == \E w \in Workers : Busy(w) /\ \E i \in 1 .. Len(job[w].list) : job[w].list[i].id = e

Spend == budget > 0 /\ budget' = budget - 1

-----------------------------------------------------------------------------
(* Requests. *)

\* publish_event, which webhook_event_handler calls, and EventListCreateView.post.
\* (Nothing reads the Redis queue publish_event appends to.)
Publish(e) ==
  /\ e \in fresh
  /\ fresh' = fresh \ {e}
  /\ event' = [event EXCEPT ![e] = [status |-> "pending", retry_count |-> 0]]
  /\ UNCHANGED <<delivery, active, gone, received, job, budget, disturbed, unheard, unrecorded, overridden>>

\* EventDetailView.delete, with its deliveries.
DestroyEvent(e) ==
  /\ Exists(e) /\ Spend
  /\ event' = [event EXCEPT ![e] = Missing]
  /\ delivery' = [i \in Rows |-> IF delivery[i] # Missing /\ delivery[i].event = e
                                   THEN Missing ELSE delivery[i]]
  /\ disturbed' = disturbed \union {x \in {e} : Listed(x)}
  /\ UNCHANGED <<fresh, active, gone, received, job, unheard, unrecorded, overridden>>

\* EventSubscriptionDetailView.patch of is_active, the admin's actions, and the POST of a
\* subscription that was not active yet.
Subscribe(s) ==
  /\ s \notin gone /\ Spend
  /\ active' = IF s \in active THEN active \ {s} ELSE active \union {s}
  /\ UNCHANGED <<event, fresh, delivery, gone, received, job, disturbed, unheard, unrecorded, overridden>>

\* EventSubscriptionDetailView.delete, with the deliveries.
DestroySubscription(s) ==
  /\ s \notin gone /\ Spend
  /\ gone' = gone \union {s}
  /\ active' = active \ {s}
  /\ delivery' = [i \in Rows |-> IF delivery[i] # Missing /\ delivery[i].sub = s
                                   THEN Missing ELSE delivery[i]]
  /\ UNCHANGED <<event, fresh, received, job, disturbed, unheard, unrecorded, overridden>>

Copy(e) == [id |-> e, row |-> event[e]]

Start(w, view, stage, set) ==
  /\ ~Busy(w) /\ set # {} /\ Spend
  /\ \E list \in {q \in [1 .. Cardinality(set) -> set] : \A i, k \in DOMAIN q : i # k => q[i] # q[k]} :
       job' = [job EXCEPT ![w] =
         [view |-> view, list |-> [i \in DOMAIN list |-> Copy(list[i])], stage |-> stage,
          rows |-> << >>, made |-> 0, ok |-> FALSE]]
  /\ disturbed' = disturbed \union {e \in set : Listed(e)}
  /\ UNCHANGED <<event, fresh, delivery, active, gone, received, unheard, unrecorded, overridden>>

\* EventProcessorView.post and get_pending_events.
ProcessPending(w) ==
  Start(w, "processor", "mark", {e \in Events : Exists(e) /\ event[e].status = "pending"})

Mut_Retryable(row) == row.retry_count < MaxRetries
\* The filter of retry_failed_events.
Retryable(row) == row.status = "failed" /\ row.retry_count < MaxRetries

RetryFailed(w) ==
  Start(w, "retry_failed", "retry", {e \in Events : Exists(e) /\ Retryable(event[e])})

\* EventDetailView.patch writes every column of the row it has read.
EditEvent(w, e) == Exists(e) /\ Start(w, "edit", "edit", {e})

\* The form of EventAdmin does the same, with a status of its own.
AdminForm(w, e) ==
  /\ Exists(e) /\ ~Busy(w) /\ Spend
  /\ \E s \in EventStatus :
       job' = [job EXCEPT ![w] =
         [view |-> "edit", list |-> <<[id |-> e, row |-> [event[e] EXCEPT !.status = s]]>>,
          stage |-> "edit", rows |-> << >>, made |-> 0, ok |-> FALSE]]
  /\ disturbed' = disturbed \union {x \in {e} : Listed(x)}
  /\ overridden' = overridden \union {e}
  /\ UNCHANGED <<event, fresh, delivery, active, gone, received, unheard, unrecorded>>

\* increment_retry
Incremented(row) ==
  [status      |-> IF row.retry_count + 1 >= MaxRetries THEN "failed" ELSE "retry",
   retry_count |-> row.retry_count + 1]

\* EventAdmin.retry_failed_events counts a retry and leaves the rest to nobody.
AdminRetryEvent(e) ==
  /\ Exists(e) /\ Spend
  /\ event[e].status = "failed" /\ event[e].retry_count < MaxRetries
  /\ event' = [event EXCEPT ![e] = Incremented(@)]
  /\ overridden' = overridden \union {e}
  /\ UNCHANGED <<fresh, delivery, active, gone, received, job, disturbed, unheard, unrecorded>>

\* EventAdmin.mark_as_completed, mark_as_failed
AdminMarkEvent(e) ==
  /\ Exists(e) /\ Spend
  /\ \E s \in {"completed", "failed"} : event' = [event EXCEPT ![e].status = s]
  /\ overridden' = overridden \union {e}
  /\ UNCHANGED <<fresh, delivery, active, gone, received, job, disturbed, unheard, unrecorded>>

\* EventDelivery.increment_attempt
CountAttempt(row) ==
  [row EXCEPT !.attempt_count = @ + 1,
              !.status = IF row.attempt_count + 1 >= MaxAttempts THEN "failed" ELSE "retry"]

\* retry_failed_deliveries counts the attempt of each failed delivery and then asks
\* bulk_update for a field that does not exist: nothing is sent.  The action of
\* EventDeliveryAdmin counts and does nothing else.
RetryDelivery(i) ==
  /\ delivery[i] # Missing /\ Spend
  /\ delivery[i].status = "failed" /\ delivery[i].attempt_count < MaxAttempts
  /\ delivery' = [delivery EXCEPT ![i] = CountAttempt(@)]
  /\ UNCHANGED <<event, fresh, active, gone, received, job, disturbed, unheard, unrecorded, overridden>>

\* EventDeliveryAdmin.mark_as_delivered, and the status in its form, read and saved at once.
AdminMarkDelivery(i) ==
  /\ delivery[i] # Missing /\ Spend
  /\ \E s \in DeliveryStatus : delivery' = [delivery EXCEPT ![i].status = s]
  /\ overridden' = overridden \union {delivery[i].event}
  /\ UNCHANGED <<event, fresh, active, gone, received, job, disturbed, unheard, unrecorded>>

-----------------------------------------------------------------------------
(* The statements of a request. *)

At(w, stage) == Busy(w) /\ job[w].stage = stage
This(w) == Head(job[w].list).id

\* The job of w after its event.
NextEvent(j) ==
  LET rest == Tail(j.list) IN
  IF rest = << >> THEN << >>
  ELSE [j EXCEPT !.list = rest, !.rows = << >>, !.made = 0,
                 !.stage = IF j.view = "retry_failed" THEN "retry" ELSE "mark"]

Become(w, j) == job' = [job EXCEPT ![w] = j]

\* A statement of process_event raises.
Raise(w) == Become(w, [job[w] EXCEPT !.stage = "except"])

\* event.increment_retry() on the copy; a row that is gone raises.
IncrementRetry(w) ==
  LET e   == This(w)
      j   == job[w]
      row == Incremented(Head(j.list).row) IN
  /\ At(w, "retry")
  /\ IF Exists(e)
       THEN /\ event' = [event EXCEPT ![e] = row]
            /\ Become(w, IF row.status = "retry" THEN [j EXCEPT !.stage = "mark"] ELSE NextEvent(j))
       ELSE Become(w, << >>) /\ UNCHANGED event
  /\ UNCHANGED <<fresh, delivery, active, gone, received, budget, disturbed, unheard, unrecorded, overridden>>

\* event.mark_processing()
MarkProcessing(w) ==
  LET e == This(w)
      j == job[w] IN
  /\ At(w, "mark")
  /\ IF Exists(e)
       THEN event' = [event EXCEPT ![e].status = "processing"] /\ Become(w, [j EXCEPT !.stage = "subscriptions"])
       ELSE Raise(w) /\ UNCHANGED event
  /\ UNCHANGED <<fresh, delivery, active, gone, received, budget, disturbed, unheard, unrecorded, overridden>>

\* The subscriptions that are active now, in any order; without one the event is left
\* as it is.
FindSubscriptions(w) ==
  LET e == This(w)
      j == job[w] IN
  /\ At(w, "subscriptions")
  /\ IF active = {}
       THEN Become(w, NextEvent(j)) /\ unheard' = unheard \union {e}
       ELSE /\ \E subs \in {q \in [1 .. Cardinality(active) -> active] :
                              \A i, k \in DOMAIN q : i # k => q[i] # q[k]} :
                 Become(w, [j EXCEPT !.stage = "create",
                                     !.rows = [i \in DOMAIN subs |-> [id |-> 0, sub |-> subs[i]]]])
            /\ UNCHANGED unheard
  /\ UNCHANGED <<event, fresh, delivery, active, gone, received, budget, disturbed, unrecorded, overridden>>

\* The rows of EventDelivery, in one statement; without the event or a subscription the
\* foreign key fails.
CreateDeliveries(w) ==
  LET e == This(w)
      j == job[w]
      n == Len(delivery) IN
  /\ At(w, "create")
  /\ IF Exists(e) /\ \A i \in DOMAIN j.rows : j.rows[i].sub \notin gone
       THEN /\ delivery' = delivery \o
                 [i \in DOMAIN j.rows |-> [event |-> e, sub |-> j.rows[i].sub,
                                          status |-> "pending", attempt_count |-> 0]]
            /\ Become(w, [j EXCEPT !.stage = "sent",
                                   !.rows = [i \in DOMAIN j.rows |-> [id |-> n + i, sub |-> j.rows[i].sub]]])
       ELSE Raise(w) /\ UNCHANGED delivery
  /\ UNCHANGED <<event, fresh, active, gone, received, budget, disturbed, unheard, unrecorded, overridden>>

\* delivery.mark_sent(); a row that is gone raises, and so does delivery.mark_failed()
\* in the except clause of _process_delivery.
MarkSent(w) ==
  LET i == Head(job[w].rows).id IN
  /\ At(w, "sent")
  /\ IF delivery[i] # Missing
       THEN delivery' = [delivery EXCEPT ![i].status = "sent"] /\ Become(w, [job[w] EXCEPT !.stage = "post"])
       ELSE Raise(w) /\ UNCHANGED delivery
  /\ UNCHANGED <<event, fresh, active, gone, received, budget, disturbed, unheard, unrecorded, overridden>>

\* requests.post: the subscriber accepts, or not, and the answer comes back, or not.
Post(w) ==
  LET e == This(w)
      s == Head(job[w].rows).sub IN
  /\ At(w, "post")
  /\ \E accepts, answers \in BOOLEAN :
       /\ received' = IF accepts THEN [received EXCEPT ![e][s] = @ + 1] ELSE received
       /\ unrecorded' = IF accepts /\ ~answers THEN unrecorded \union {e} ELSE unrecorded
       /\ Become(w, [job[w] EXCEPT !.stage = "answer", !.ok = accepts /\ answers])
  /\ UNCHANGED <<event, fresh, delivery, active, gone, budget, disturbed, unheard, overridden>>

Mut_MarkAnswer(w) ==   \* any answer will do
  LET j == job[w]
      i == Head(j.rows).id IN
  /\ At(w, "answer")
  /\ IF delivery[i] # Missing
       THEN /\ delivery' = [delivery EXCEPT ![i].status = "delivered"]
            /\ Become(w, [j EXCEPT !.rows = Tail(@), !.made = @ + 1,
                                   !.stage = IF Len(j.rows) = 1 THEN "finish" ELSE "sent"])
       ELSE Raise(w) /\ UNCHANGED delivery
  /\ UNCHANGED <<event, fresh, active, gone, received, budget, disturbed, unheard, unrecorded, overridden>>
\* delivery.mark_delivered() or mark_failed()
MarkAnswer(w) ==
  LET j == job[w]
      i == Head(j.rows).id IN
  /\ At(w, "answer")
  /\ IF delivery[i] # Missing
       THEN /\ delivery' = [delivery EXCEPT ![i].status = IF j.ok THEN "delivered" ELSE "failed"]
            /\ Become(w, [j EXCEPT !.rows = Tail(@), !.made = IF j.ok THEN @ + 1 ELSE @,
                                   !.stage = IF Len(j.rows) = 1 THEN "finish" ELSE "sent"])
       ELSE Raise(w) /\ UNCHANGED delivery
  /\ UNCHANGED <<event, fresh, active, gone, received, budget, disturbed, unheard, unrecorded, overridden>>

Mut_Finish(w) ==   \* nothing when every delivery failed
  LET e == This(w)
      j == job[w] IN
  /\ At(w, "finish")
  /\ IF Exists(e)
       THEN /\ event' = IF j.made > 0 THEN [event EXCEPT ![e].status = "completed"] ELSE event
            /\ Become(w, NextEvent(j))
       ELSE Raise(w) /\ UNCHANGED event
  /\ UNCHANGED <<fresh, delivery, active, gone, received, budget, disturbed, unheard, unrecorded, overridden>>
\* event.mark_completed() when a delivery succeeded, mark_failed() when none did.
Finish(w) ==
  LET e == This(w)
      j == job[w] IN
  /\ At(w, "finish")
  /\ IF Exists(e)
       THEN /\ event' = [event EXCEPT ![e].status = IF j.made > 0 THEN "completed" ELSE "failed"]
            /\ Become(w, NextEvent(j))
       ELSE Raise(w) /\ UNCHANGED event
  /\ UNCHANGED <<fresh, delivery, active, gone, received, budget, disturbed, unheard, unrecorded, overridden>>

\* The except clause of process_event: event.mark_failed(), whoever has accepted the event;
\* a row that is gone raises here too.  EventProcessorView goes on with the next event,
\* retry_failed_events ends.
MarkFailed(w) ==
  LET e == This(w)
      j == job[w] IN
  /\ At(w, "except")
  /\ event' = IF Exists(e) THEN [event EXCEPT ![e].status = "failed"] ELSE event
  /\ unrecorded' = IF \E s \in Subs : received[e][s] > 0 THEN unrecorded \union {e} ELSE unrecorded
  /\ Become(w, IF j.view = "retry_failed" THEN << >> ELSE NextEvent(j))
  /\ UNCHANGED <<fresh, delivery, active, gone, received, budget, disturbed, unheard, overridden>>

\* serializer.save() of an edit: UPDATE of every column, or INSERT.
SaveEvent(w) ==
  /\ At(w, "edit")
  /\ event' = [event EXCEPT ![This(w)] = Head(job[w].list).row]
  /\ Become(w, << >>)
  /\ UNCHANGED <<fresh, delivery, active, gone, received, budget, disturbed, unheard, unrecorded, overridden>>

\* The worker dies; nobody takes its list up.
Crash(w) ==
  /\ Busy(w)
  /\ Become(w, << >>)
  /\ disturbed' = disturbed \union {e \in Events : \E i \in 1 .. Len(job[w].list) : job[w].list[i].id = e}
  /\ UNCHANGED <<event, fresh, delivery, active, gone, received, budget, unheard, unrecorded, overridden>>

Execute(w) ==
  \/ IncrementRetry(w) \/ MarkProcessing(w) \/ FindSubscriptions(w) \/ CreateDeliveries(w)
  \/ MarkSent(w) \/ Post(w) \/ MarkAnswer(w) \/ Finish(w) \/ MarkFailed(w) \/ SaveEvent(w)

Administer ==
  \/ \E e \in Events : AdminRetryEvent(e) \/ AdminMarkEvent(e)
  \/ \E i \in Rows : RetryDelivery(i) \/ AdminMarkDelivery(i)

Request(w) ==
  \/ ProcessPending(w) \/ RetryFailed(w)
  \/ \E e \in Events : EditEvent(w, e) \/ AdminForm(w, e)

Next ==
  \/ \E e \in Events : Publish(e) \/ DestroyEvent(e)
  \/ \E s \in Subs : Subscribe(s) \/ DestroySubscription(s)
  \/ Administer
  \/ \E w \in Workers : Request(w) \/ Execute(w) \/ Crash(w)

Spec == Init /\ [][Next]_vars

\* A request that has begun goes on; requests.post has a timeout.
FairSpec == Spec /\ \A w \in Workers : WF_vars(Execute(w))

-----------------------------------------------------------------------------
(* Properties. *)

\* An event is completed, and a delivery delivered, only if a subscriber has
\* accepted the event, whichever requests overlapped, wherever one died and
\* whatever an edit wrote back; only the admin can say otherwise.
CompletedWasReceived ==
  \A e \in Events \ overridden :
    (\/ Exists(e) /\ event[e].status = "completed"
     \/ \E i \in Rows : delivery[i] # Missing /\ delivery[i].event = e /\ delivery[i].status = "delivered")
    => \E s \in Subs : received[e][s] > 0

\* A subscriber takes an event at most once, retries included, as long as no two
\* requests held the event, none died with it, the event's status tells of the
\* acceptance and the admin kept away: an event is retried only when every subscriber
\* refused it.  (When the subscription of another subscriber is deleted during the
\* deliveries, mark_sent raises and the event is marked failed, although a subscriber
\* has accepted it: unrecorded, it is delivered again.)
ReceivedOnce ==
  \A e \in Events \ (disturbed \union unrecorded \union overridden) :
    \A s \in Subs : received[e][s] <= 1

\* An event that is being processed is completed or failed in the end, or is
\* gone, unless no subscription was active, it was disturbed or the admin has
\* marked it so.  A delivery that raises does not leave it in processing.
ProcessingEnds ==
  \A e \in Events :
    Exists(e) /\ event[e].status = "processing"
    ~> ~Exists(e) \/ event[e].status # "processing" \/ e \in unheard \union disturbed \union overridden
=============================================================================
