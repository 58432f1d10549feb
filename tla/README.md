# A specification of the e-commerce services

TLA+ modules for the parts of this repository in which several actors, retries,
crashes or stale reads decide whether the system is right: the saga
orchestrator, stock, payments, orders, the event bus, the gateway, service
discovery, authentication, the audit service and the resilience library.  Paths
below are paths of the repository; line numbers are those of the modelled
commit.

## 1. The system

A Django 4.2 monorepo.  Every "service" is an app with tables on a database of
its own (`ecommerce/routers.py`, `DATABASES` in the settings); Redis is cache,
Celery broker and the home of a few shared keys.  Requests are handled by
several worker processes, each with threads.  Two facts of the framework shape
all the models:

* **No transaction where one is written.** `transaction.atomic()` without
  `using=` opens a transaction on the `default` database.  The router sends
  every app's tables elsewhere, where the connection is in autocommit mode.  A
  block that reads like a transaction is a sequence of statements that commit
  one by one, with no rollback and no isolation; `select_for_update()` outside
  a transaction of its own database raises `TransactionManagementError`.
* **Read, compute, write back.** Handlers read a row (often in a serializer,
  before the service is called), compute in Python and write absolute values
  with `save(update_fields=...)`.

### Components

| component | state | operations | what is hard | what makes it correct | modelled in |
|---|---|---|---|---|---|
| Saga orchestrator (`saga/patterns.py`, `saga/views.py`) | the `Saga` object, a record in Redis, executor threads, effects in the databases | execute, run a step with retries and timeouts, compensate, persist, recover, answer | threads that outlive their timeout; a failing compensation; a crash; a lost record | COMPLETED only after all steps; reverse order; bounded effects; what is compensated is undone; a true answer | `Saga`, `SagaContract` |
| Saga steps of an order (`saga/patterns.py` 312-797) | rows of inventory, orders, payments, notifications | execute and compensate of five steps | partial failure inside a step | each compensate undoes its execute | kinds of step in `Saga` |
| Inventory (`inventory/`) | items, reservations, movements, alerts | adjust, reserve, confirm, release, bulk update, edit, form, cleanup | lost updates, double settlement, cleanup against confirm, crash between statements | stock never negative, the movements explain the stock, alerts agree with it | `Inventory` |
| Circuit breaker (`resilience/patterns.py`) | state, counts, sliding window, Redis copy | call, reset, adopt a foreign record | calls that end in another state of the breaker | counts fit the state; it trips only after the threshold; it recovers | `CircuitBreaker` |
| Resilient caller (same file) | bulkhead semaphore, SIGALRM, retries | call | an alarm that interrupts the main thread anywhere | permits come back; an alarm strikes only the call it was set for | `ResilientCall` |
| Payments (`payments/`) | payments, refunds, webhooks, subscriptions | refund, webhook, update, cancel | webhooks twice and out of order, concurrent refunds | never more refunded than paid; the payment shows its refunds | `Payments` |
| Orders (`orders/`) | orders, histories, carts, items | status, payment status, fulfilment, cancel, cart | stale checks, whole-row saves | the history tells the state; an order is not cancelled while it is shipped; one cart | `Orders` |
| Events (`events/`) | events, subscriptions, deliveries | publish, process, deliver, retry, edit, delete | two processors of one event, lost answers, rows deleted meanwhile, edits with stale rows | completed means received; accepted once; processing ends | `EventDelivery` |
| Gateway, limits (`gateway/middleware.py`) | counters in Redis | count, refuse | get/set/incr races, expiry between two of them | a bounded overrun; every window ends | `RateLimiter` |
| Gateway, calls (same file) | breaker per process, its record, instance lists, round robin | call, retry, discover | a record shared by processes, a lock held during a request | failures counted once, instances take turns, calls end | `GatewayCall` |
| Service discovery (`service_discovery/`) | services, instances, health rows, configuration, its history and caches | register, remove, heartbeat, check, read and set a value | late heartbeats, health checks with stale rows, two caches | a removed instance stays removed; caches and history agree with the row | `ServiceRegistry`, `ConfigurationStore` |
| Authentication (`authentication/`) | users, profiles, roles, tokens, login attempts | log in, register, verify, reset, edit, delete | check and count of attempts apart, whole-row saves, registration that fails half-way | bounded attempts, lockouts end, passwords are kept, every user has a profile | `LoginLimit`, `Accounts` |
| Audit (`audit/`) | log tables, statistics, configuration per process, spans, security events | log, count, start and end a span, resolve | a cached configuration, statistics of several statements, stale rows | obeyed within five minutes; sums agree; an ended span is reopened only by who asks for it | `AuditTrail`, `Tracing` |
| Inventory statistics (`inventory/services.py` 21-47, 502-550) | cached counts | read, clear | stale cache | | no (section 6) |
| Notifications, products, data synchronisation, chaos engine, deployment | | | | | no (section 6) |

`PROJECT.json` lists the same components with their status, and under
`hazards` each place in the code where one of these things can go wrong.

### How they interact

`OrderSagaView` runs a saga in the request's thread, in an event loop of its
own; each step's database work runs in the loop's executor and touches the
tables of inventory, orders, payments and notifications directly.  The stock
views call `InventoryService`; every save of an item sends `post_save`, whose
receiver works on the alerts inside the same request.  The gateway's
middleware counts every request before its view runs; the gateway's proxy is
written to call services through a breaker of its own, a record of which is
shared in Redis.  Events are processed by the requests of the event views;
what `publish_event` puts in a Redis queue is read by nobody.  Providers of
payments, subscribers of events and instances of services are outside: they
call or are called over HTTP, answer late, twice or not at all, and are the
environment of the models.  The services share no rows with one another
(except for the saga's steps), which is why each is a module of its own.

Two more habits of the code recur:

* **Whole rows.** `save()` without `update_fields` writes every column as it was
  read, and inserts the row again if it has been deleted; `save(update_fields=)`
  of a deleted row raises `DatabaseError`.  Generic `PUT`/`PATCH` views and several
  handlers do the first.
* **Transactions of Django itself.** A cascading delete, `bulk_create`,
  `get_or_create` and the views of the admin do open transactions on the database
  they use.  The models make each of them one step, but for a form of the admin that
  changes a row: it locks nothing, so it reads the row and saves it later, like a
  generic view.

Some modules of the repository cannot be imported or always raise as they stand.
The models read past an error of that kind where the rest of the component is
clear (section 2 says where), and leave out what no call can reach (section 6).
For example `ecommerce/urls.py` includes the URLs of notifications, whose import
fails; every other component is read as if it did not.

## 2. Modules

| module | models | role |
|---|---|---|
| `Saga` | `Saga`, `SagaStep`, the answer of `OrderSagaView` | state machine |
| `SagaContract` | what the orchestrator promises | abstract specification of `Saga` |
| `Inventory` | the handlers of `inventory/services.py`, their serializers and the signal receiver | state machine |
| `CircuitBreaker`, `ResilientCall` | `resilience/patterns.py` | state machines, composed in `Resilience` |
| `Payments` | `payments/views.py`, serializers, admin | state machine |
| `Orders` | `orders/views.py`, serializers, admin | state machine |
| `EventDelivery` | `events/services.py`, views, admin | state machine |
| `RateLimiter`, `GatewayCall` | `gateway/middleware.py`: `check_rate_limit` with its middleware and decorator; breaker, retry and discovery client | state machines, composed in `Gateway` |
| `ServiceRegistry`, `ConfigurationStore` | `service_discovery/` | state machines, composed in `ServiceDiscovery` |
| `AuditTrail`, `Tracing` | `audit/` | state machines, composed in `Audit` |
| `LoginLimit`, `Accounts` | `authentication/` | state machines, composed in `Authentication` |
| `MC...` | | constants of one instance for TLC |
| `...Proofs` | | theorems on the modules they are named after; accounts and payments share one, gateway and service discovery another |

A composing module puts two state machines of one component side by side and
chooses in its initial state, by `part`, which one a behaviour exercises.  That is
no restriction where the two share no state (each of those modules says why), and
it keeps TLC from multiplying their states.

The modules of handlers are built alike.  A request is accepted by a worker that
is free: the rows the handler reads at once, its validation and its early
returns are the guard of that action, and what it is going to write is kept with
the worker.  Every later statement is an action of its own.  `Crash(w)` (`Abort`,
`CutShort`, `Die`, `Perish`, `Vanish` in modules that are composed) lets a worker
die, or a statement fail, between any two of them; nothing rolls back what was
written, as nothing in the code does.  History
variables (`disturbed`, `silent`, `overridden`, `tangled`, ...) say on which rows
requests overlapped, died, or were bypassed by the admin; no guard reads them.

### Saga

One behaviour is one saga: sagas share nothing (own loop, own executor, own
Redis key).  `pc` is the place where the coroutine is suspended: `await` and
`undo` inside `wait_for`, `backoff` in `asyncio.sleep`, `next` and `unwind` at
the head of the loops of `execute` and `_compensate`.  `thread` is the executor
thread being waited for.  The step of the coroutine from one suspension to the
next is one action, the persisting call at its end included.

* A timeout cancels the wait and not the thread: `StepTimesOut` moves a working
  thread to `late`, and `LateThread` lets it take effect at any later moment,
  during a retry, the compensation or after the answer.  The same holds for
  `compensate` (`UndoFails`, `LateUndoThread`).  A timer may also fire although
  the thread has just returned: both can be due in one turn of the loop.
* `ThreadRaises` may leave its effect: a step commits statement by statement.
  `unreachable` are the errors `run` retries (connection errors), `raised` all
  others.  A `Tolerant` step raises only without effect: its import of the
  notification service stands before its `try`.
* What a step does is abstracted to whether it reached the database, counted in
  `effects` and `undone`.  Two traits of the concrete steps matter to the
  orchestrator and are constants: `Tolerant` steps return normally although
  nothing was done (`send_notification`), `Swallows` steps return normally from
  a `compensate` that failed (`reserve_inventory`, `send_notification`).
* `Persist` may fail silently; `ExpireRecord` is the hour's time to live, which
  every persist of a live saga renews.

`execute` sets the saga FAILED and raises `SagaException` only for an exception
that `run`, `_compensate` and `_persist_state` have not turned into their own
(lines 214-219); they catch everything, so the branch has no action and `Answer`
never says `error`.

### Inventory

A worker accepts a request (`ReceiveStock`, `ReceiveSettle`, `ReceiveSweep`,
`ReceiveEdit`): the view and serializer read the row, validate, and the service computes on that
copy.  Then it runs the handler's statements one by one (`Program` is their
order, `Execute` the actions), each a commit of its own.  `Crash` is a statement
that fails or a process that dies: what was committed stays.

* `handler[w].copy` holds the instances the handler works with.  `save` writes
  back the columns of `update_fields` (`Columns`) from the copy, whatever the
  row has become.  Only `confirm` and `release` fetch the item late
  (`reservation.inventory_item`), which is the `load` statement.
* A save of an item is followed by `resolve` and `raise`, the statements of the
  `post_save` receiver; `adjust`, `confirm` and `bulk` run the same pair again
  through `_check_stock_alerts`.  A `bulk_update` sends no signal.
* The sweep keeps one copy of the item per reservation, and the SQL of
  `bulk_update` takes the first `WHEN` of a key: `Restock` chooses which of the
  copies of one item that is.
* An edit (`ReceiveEdit`: `PUT` or `PATCH` by any authenticated user, or the form
  of the admin) may write any quantity, the number of reserved units included, and
  writes no movement.  The history `edited` adds up what edits have put into a row,
  so that the balance can be stated with it: stock is what the movements explain
  *and* what somebody typed in, and nothing else.
* The admin's form of a reservation (`AdminReservation`) sets its status without
  touching the item.
* `ledger` is what the `StockMovement` rows add up to.  `disturbed` is a
  history variable: the items on which handlers overlapped or were cut short,
  which the sweep held in two copies, or a reservation of which the form wrote.

Not modelled: a bulk list of more than one row, edits of the two levels, the
admin's forms of movements and alerts, deletion of rows, acknowledging an alert,
moving a reservation to another item, and the service methods no view reaches
(`transfer_stock`, `bulk_reserve_stock`, `StockReservation.release`).

### CircuitBreaker

The lock of `call` is held while a call is admitted and while its result is
counted, and not between: `Admit`/`Refuse` and `Succeed`/`Fail` are one step
each, and a result may meet another state than the one it was admitted in.
`calling[c]` is the age of the call of thread `c`.  Times are kept as ages up to
`Timeout`; the code compares them with the timeout and with each other only.
`Seen` is `_sync_distributed_state`: before each admission a newer record of
another process may replace everything but the window.  `PublishElsewhere` is
that other process, which may publish any state with the counts its transition
leaves.  `Recover` is the health of the service behind the breaker.

Two things the code does are visible in the model and surprise a reader: a
refusal is recorded in the window like a failed call, and any number of calls
enter while the breaker is HALF_OPEN (nothing counts running probes, and nothing
is written to).  Not modelled: the PATCH endpoint (`resilience/views.py` 112-160),
which changes the fields one by one without the lock.  What the module says of the
fields therefore holds as long as nobody uses that endpoint.

### ResilientCall

`ResilientServiceCaller.call` nests timeout, bulkhead, breaker and retry around a
function.  `doing[t]` is the statement a thread is at.  SIGALRM is one per process:
`handler`, `saved` and `alarm` are the process's handler, the main thread's
`old_handler`, and whether an alarm is set.  `Interrupt` raises in the main thread
wherever it is, `Kill` ends the process when the default action is installed.

* `signal.signal` works in the main thread only; in every other thread an
  attempt ends with an error before the function is called.
* A function that raises leaves its alarm behind (`raised`), since
  `signal.alarm(0)` is after the call and not in `finally`; the handler is
  restored, so the alarm meets the default action.
* `int(timeout) = 0` sets no alarm (`Seconds`).
* The breaker's answer to the caller is left open; `CircuitBreaker` says which
  answers there are.  Backoff times and the totals of the metrics are left out.

The library has no caller in the repository except the management API.

### Payments

`payment`, `subscription` and `webhook` are rows; `requested` adds up the `Refund`
rows of a payment.  `job[w]` holds a worker's statements still to run, its copy
of the payment and the amounts.  A refund request (`RequestRefund`) checks the
amount on the copy it then adds it to, but only against what is left: the
serializers take a negative amount.  The webhook of a refund replaces the amount by
the one it names; anybody may send it, for the check of the signature is commented
out, and nothing looks at the number.  A dispute and a generic `PATCH` change the
status.  All of them save whole rows.  The admin adds payments (`AdminAdd`), edits
amount, refunded amount and status in a form (`AdminForm`), adds and edits `Refund`
rows (`AdminRefund`) and marks statuses (`AdminMark`).  `RefundListCreateView`
(`ListRefund`) stores a `Refund` row and leaves the payment alone.

`ReceiveWebhook` is any event at any time, twice if it likes; every delivery inserts
a row of its own, for events are not recognised.  Histories: `apart` are payments
whose refunded amount or `Refund` rows were set without the other; `overstated`
those of which a webhook or a form has *said* that more was refunded than paid;
`disturbed` and `lost` are overlaps and deaths.  Bounds: `Prices`, `Amounts` (what
clients, the provider and the admin name, negative ones included), `Hooks`,
`MaxRequests`, `Patched` and `SubscriptionStatus`.

### Orders

`order`, `history`, `owner` (the carts) and `item` are rows; `job[w]` is a worker's
list of writes, each with the values it computed from the order as it read it.  A
status update writes the row twice (once in the serializer, once for the timestamp).
A cancellation's entry has no `new_value`; `Says` is what it tells all the same.
The admin's bulk actions change the status in one statement, its form (`AdminForm`)
reads the row and saves it with another status, and neither adds to the history;
another form deletes entries of it (`AdminForget`).  `silent` are those orders.  `POST` of an order and of an item that is not in the cart yet write
nothing (the first passes `user_id` to a model without it, the second leaves
`cart_id` empty), so orders and items come from the admin.

A cart is found or created by the requests that need it (`OpenCart`), and its
customer is a writable field: `PUT` or `PATCH` of one's own cart (`UpdateCart`, then
`SaveCart`) gives it to anybody, `AdminCart` to anybody or to no customer (`Guest`).
`given` are the customers who got a cart in this way; of them nothing limits the
number.  Money, addresses, discounts and search are data no guard of a status reads,
and are left out.

### EventDelivery

`event` and `delivery` are rows, `received` counts what the subscribers accepted.
A request works through the list of events it read at its start (`job[w].list`
with its copies), and for each event through `mark`, `subscriptions`, `create`,
`sent`, `post`, `answer`, `finish`.  Nothing claims an event.  An answer may be lost:
the subscriber has accepted and the service does not know.  A subscription may be
deleted at any moment (`DestroySubscription`); its deliveries go with it, the next
`save` of one raises, and the `except` clause of `process_event` marks the event as
failed (`MarkFailed`) although others have accepted it, so that a retry delivers it to
them again.  `unrecorded` are the events some subscriber has accepted without their
status telling of it, for either reason.  The admin's form and actions set any status
(`overridden`).

`retry_failed_deliveries` sets a delivery to retry and then fails on a field that
does not exist.  `cleanup_expired_events` would only set a status; its `update()`
names `updated_at`, a column `Event` does not have, so that it raises and writes
nothing.  `events/services.py` ends line 179 with a stray quotation mark; it is read
without it.  `EventProcessorView` calls `.count()` on a list after it has processed
the events, so its answer is always an error; what it did stays.

### RateLimiter

`counter[k]` is a key of Redis with its value and whether it has a time to live.
Reading (`Read`) and writing (`Write`, either `set` with a timeout or `incr`) are
two commands; `ExpireKey` may come between them, and then `incr` creates a key that
never expires (`orphan`).  The keys of one client are modelled.  The middleware
runs before authentication, so a client is an address; the test for 'GET' in the
path never holds.  The decorator `rate_limit` works on the health view only: on a
method of a class it takes the view for the request and fails.

### GatewayCall

`breaker[p]` is the breaker of process `p`, `record` its copy in Redis,
`instances[p]` the list of healthy instances with its age (`stale`), `index` the
shared position of the round robin.  A caller takes its process's lock, adopts
the record, may be refused, picks (`instance`: length of the list; `index`: read
and write of the position), sends the request with the lock held, and counts the
result.  `RetryMiddleware` calls again.  Restarted processes forget their breaker;
Redis may lose the record or fail to answer (`mixed`).  The proxy view that is
written to make such calls fails in its `rate_limit` decorator, and the GraphQL
schema calls its resolvers with an argument missing; the module is what they
call, as they are written to call it.  Left out: weighted, least-connections
and random selection, which no caller asks for, and request transformation.

### ServiceRegistry and ConfigurationStore

The registry has one service and its instances.  `task[w]` is a request with the
copies it read: registration (`get_or_create`, then the instance), removal,
heartbeats (`update_fields`), the sweep of health checks (whole rows, from a list
read at its start), generic edits, the admin.  `Instance.key` tells a row from a
row inserted later with the same `instance_id`.  Registration and removal answer
400 although they have changed their rows, because `cache_clear` of a method
without cache raises after it (`services.py` 104, 132); the model keeps the rows.

`ConfigurationStore` has one key: `config` (its row), `history`, `redis` (half an
hour) and `local[p]` (five minutes).  `get_configuration` asks them in that order
and fills them; `set_configuration` writes row, history and caches; the generic
views write the row only, and what the signal deletes is a key nobody uses.
`Decode` is `json.loads`, which gives another value for a quoted text and fails
for a plain one.  `tangled` is set when requests overlap or someone else than
`set_configuration` writes.

### AuditTrail and Tracing

`AuditTrail` has the tables, the configurations of the services and each
process's cache of them, whose key is the service and the current five minutes
(`bucket`).  A batch is filtered event by event (`kept`) and then inserted; the
statistics read a total and then one grouping after the other while rows come
and go.  `written` counts the writes, for the property to say by how much the
numbers may differ.  `log_event` and `bulk_log_events` have no caller and are
modelled as the interface they are; the logging of the middleware and of the
signals always violates a NOT NULL column and changes nothing.

`Tracing` has the spans and the security events.  `end_trace` reads a span and
writes the whole row; without all three error columns the database refuses it.  The
status it stores is the client's word, unchecked: it may be "active", with the end
time set all the same, or a word that is no choice.  `PUT` and `PATCH` write any
status, "active" included, with any times or none; the admin's forms change rows
(and add security events) in the same way, its actions set columns in one statement.  `plain` are the rows
that nobody has filled in column by column.

### LoginLimit and Accounts

`LoginLimit` keeps the failed attempts as a set of rows, each with its caller (an
email and an address) and its age, as far as the two windows tell ages apart; the
cleanup of rows that are thirty days old removes none of those.  The check is a
request's first step and the row its last (the check is two counts, of the email and
of the address, which are one step here).  A refused login is stored as a failed
attempt; a login whose `authenticate()` fails raises in a signal receiver of the
audit service and is not stored.  The field `passed` of a row is history: its
request had passed the check.

`Accounts` has users, profiles, the role `customer` and tokens.  An email is a column
that profile update and admin write, unique among the rows: a save that would repeat
one is refused.  A token is usable or not, and whether an email is verified is left
out: it decides only whether a login succeeds, which `LoginLimit` leaves open.  The
admin's form of a profile may give it to another user (`AdminMoveProfile`).  A registration
inserts the user, whose signals insert profile and role, and then always fails on
a second profile: the rows stay, the answer is an error.  Profile updates save
whole users from the copy the authentication middleware read.  The functions
that make and use tokens have no URL and are modelled for their callers.

## 3. Runs

One run per question, each with its safety and liveness together; each takes a
minute or two at most on two cores.

| run | instance | what it shows |
|---|---|---|
| `saga` | 4 steps: swallowing, plain, plain, tolerant and swallowing; 1 retry | effects are bounded (`EffectsBounded`), clean steps undone (`CleanStepsUndone`), the contract implemented (`KeepsContract`), an answer given although threads hang (`SagaAnswers`) |
| `saga_success` | same | violation of `SuccessMeansCompleted`: a compensated saga is answered as a success |
| `inventory` | 2 items, 2 reservations, 2 workers, 3 requests of any kind, crashes | `UndisturbedBalance`, `UndisturbedAlerts`: an item whose handlers did not overlap agrees with its movements, edits, reservations and alerts; `SettledOnce`: a reservation is settled once unless two handlers held it |
| `resilience` | 2 callers, thresholds 2, window 3, timeout 2, 1 foreign change; or 2 threads, 1 permit, 2 attempts | `CountsFitState`, `TripsAfterThreshold`, `OpenIsTemporary`, `ClosesAfterRecovery`; `PermitsKept`, `KilledByLeftover`, `CallEnds` |
| `payments` | 1 payment of price 2, amounts -1, 1 and 3, 2 workers, 2 webhooks, 3 requests | `NeverOverRefunded`: no more is refunded than paid unless a webhook or a form has said so; `UndisturbedRefunds`: the payment shows its refund rows; `WebhooksSettle` |
| `orders` | 1 order, 2 customers, 2 workers, 5 statuses asked for, 3 requests | `HistoryTells`; `CancelledInTime`: what has the status shipped gets no `cancelled_at`; `OneCart`: a customer nobody has given a cart to has one, or with overlapping requests no more than there are workers |
| `events` | 1 event, 2 subscriptions that may be deleted, 2 workers, 2 retries, 2 attempts, 3 requests | `CompletedWasReceived`, `ReceivedOnce`, `ProcessingEnds` |
| `gateway` | 2 workers, minute, hour and view key, 2 paths, 4 requests; or 2 processes with a caller each, 0 or 2 instances, threshold 2, 1 retry, 3 events | `OverrunBounded`, `WindowEnds`; `CountsAsOne`, `TakeTurns` |
| `gateway_calls` | 3 threads of one process, 0 or 2 instances, threshold 2, 1 retry, 4 events | `CallsEnd`: threads that wait for the breaker's lock while others hold it during their requests get their turn |
| `discovery` | 2 workers, 2 instances, 4 requests; or 2 readers in 2 processes, 2 texts, 4 requests | `EmptyIsInactive`, `NoneRevived`; `RedisIsCurrent`, `HistoryChains` |
| `audit` | 2 threads of a process, 3 tables, 2 services, 3 requests; or 2 traces, 1 incident, 4 requests | `LoggedAsConfigured`, `StatsWithin`; `ColumnsAgree`, `EndedStays` |
| `auth` | 2 threads, an email from 2 addresses, limits 2, windows 2 and 3; or 2 users, 2 addresses, 1 token, 2 passwords, 4 requests | `AttemptsBounded`, `LockoutEnds`; `KeepsPassword`, `HasProfile` |

The violated property is a disagreement of the code with its own test; `findings`
in `PROJECT.json` quotes the line.

The passing properties say what does hold in spite of missing transactions, and it
matters what they leave out.  Many speak of rows on which requests did not overlap
and were not cut short; a history variable (`disturbed`, `tangled`,
`orphan`, `mixed`, `shared`, `crowd`, `cut`) exempts the others.  The code does nothing
against those interleavings, and on the exempted rows what the property says can be
false: stock updates are lost, a shipped order is cancelled, an old password comes
back.  So these properties do **not** catch the race or the crash itself, and the
hazard entries say so one by one.  They show that a single request, after any
sequence of others, keeps its tables in agreement, and that the damage of an overlap
stays on its rows.  The properties that hold *under* interleaving are those of `saga`
and `resilience`, `OverrunBounded`, `CompletedWasReceived`, `StatsWithin`,
`LoggedAsConfigured`, `AttemptsBounded`, `NeverOverRefunded`, `OneCart`, `CallsEnd`
and `EndedStays`.

### Bounds, and why they are enough

* **Saga.** Four steps give a position before, between and after each kind of
  step; the real saga has five and no sixth kind.  One retry distinguishes the
  first attempt, a retry and the last one; the code's three add repetitions.
* **Two workers** everywhere but in `gateway_calls`, where a third thread lets two wait
  for the one that holds the lock: a lost update, a double processing or a stale copy
  needs two, and no property counts three.  Where the number matters
  (`OverrunBounded`, `PermitsKept`, `NeverOverRefunded`), a theorem covers any number.
* **Requests** (`MaxRequests` and the like): three let one request prepare a row and
  two meet on it; four where a row must come, go and come back.
* **Rows.** A second item, reservation, trace or instance shows that damage stays
  where it was done, or is what a sweep's two copies need.  Where nothing relates
  two rows (payments, orders, events), one is enough.
* **Amounts** of payments: one that is negative, one that leaves a rest, one that is
  more than the price.
* **Numbers.** Stock 2, reorder level 1 and maximum 2 let every alert arise;
  price 2 has a partial and (by two) a full refund; thresholds of 2 separate the first
  from the last; a window of 3 is larger than the threshold and still forgets; a
  timeout of 2 ticks has a moment that is neither start nor end.  Limits are 1, 2
  and 3, so that each is reached while another is not.
* **The environment.** `MaxNews` bounds the changes of other breakers, so that
  liveness is asked once they have stopped contradicting this one; `MaxEvents`
  calls, restarts, expiries and changes of the registry; `Hooks` the deliveries.

Symmetry (workers and customers in `orders`; workers, items, reservations in `inventory`; row ids
in `audit`) is used where no definition tells the values apart and the run has
no liveness property.

### Fairness

* **Saga**: weak fairness of the coroutine (`Orchestrate`).  The event loop runs
  due callbacks, and the timers of `wait_for` and `sleep` become due whatever
  the threads do.  Nothing is assumed of the threads.
* **Resilience**: time passes (`Tick`); each thread goes on calling the breaker
  (`Call`) and each call returns (`Return`), for the breaker has no timer and
  reacts only to calls.  In the caller each thread goes on (`Step`) and an alarm
  that is set goes off (`Fire`); that the called function ends is not assumed
  where an alarm is set for it.
* **Payments, EventDelivery, RateLimiter**: a worker that has begun a request runs
  its next statement (`Execute`); the HTTP clients have timeouts.  Dying instead
  remains possible, and the properties name what is then lost.
  For the counters of the limits, Redis also expires keys that have a time to
  live (`ExpireKey`).
* **GatewayCall**: the same, but strong fairness of each caller (`Execute`).  While one
  waits for the breaker's lock, its step is possible only now and then, and
  `threading.Lock` promises no order: that a thread that finds the lock free again and
  again will take it once is the scheduler's promise, not the lock's.
* **Authentication**: time passes (`Tick`).  No request is obliged to come or end.
* **Inventory, Orders, ServiceDiscovery, Audit**: none; safety properties only.
  Their liveness would only say that a request runs to its end.

`CHECK_DEADLOCK FALSE` stands in every cfg because every system here really stops:
an answered or crashed saga, a dead process, and a service to which no request
arrives any more once the bound on requests is reached.

## 4. Proofs

TLAPS proves the following for every value of the constants that meets the named
`ASSUME` of the module: number domains of the parameters, finite sets where a
property counts (threads and workers of the bulkhead, the limits and the logins,
events and subscriptions, reservations, row ids), batches of events that are not empty,
registries that are lists of instances, and sentinels that are none of the values
they stand beside.  TLC evaluates each of those assumptions on a run and has
checked the inductive invariants on the runs' instances before they were proved.

* **SagaProofs.** The inductive invariant is `TypeOK /\ Phase /\ InOrder /\
  Attempts /\ Forward /\ Backward /\ RecordNeverAhead`.  None of the safety
  properties is inductive alone: `UndoInReverse` needs to know that the completed
  steps are `1 .. k` in order (`InOrder`) and that the cursor separates visited
  from unvisited ones (`Backward`); `EffectsBounded` needs that effects and
  running threads of a step never exceed its attempts (`Attempts`).  From it
  follow `EffectsBounded`, `CleanStepsUndone`, four more properties that no run
  repeats (`CompletedMeansDone`, `UndoInReverse`, `RecordNeverAhead`,
  `NoStepAfterGiveUp`), and `Implementation`: every step of the orchestrator is one
  of `SagaContract` or a stutter.
* **ResilienceProofs.** For the breaker, `Fit` relates the counts to the state and
  bounds the window; `Explained` says that a CLOSED breaker's failures are among
  the failed results counted since it closed, or that the threshold has been
  reached already; `FitNews` says the same of the record in Redis.  They give
  `CountsFitState` (hence `call()` alone never takes lines 81-86 of
  `resilience/patterns.py`; the PATCH endpoint, which is not modelled, may write
  counts with which it does) and `TripsAfterThreshold` for any number of threads and any
  thresholds.  For the caller, `CallInv` says who may be at which statement in
  terms of what is installed: only the main thread is inside the timeout
  (`MainGuards`), outside it the default handler is installed unless an alarm has
  leaked (`HandlerKept`), and an alarm that is set belongs to the guarded call or
  was left by one that raised (`AlarmOwned`).  `PermitsKept` is inductive only with
  a bound on the permits (`PermitBound`), because it speaks of the cardinality of a
  set of threads that changes by one.  It holds for any number of threads and
  permits, as does `KilledByLeftover`.
* **InventoryProofs.** `NeverNegative` is not inductive: what is written is a
  copy read earlier.  The first invariant extends it to the copies
  (`SafeHandler`) and adds that a reserve never loads the row again after its
  check, and that the reservations a handler settles exist.  It holds for any
  number of workers, overlapping and cut short in any way: lost updates can lose
  stock but never make it negative.  The second, `BalanceInv`, is about items whose
  requests did not overlap.  An item nobody works on is balanced; for the one
  request at work on it there is a quantity such that the equations hold again
  once what is written to row, movements and reservations, and not yet to the
  others, is added or taken off (`Books`), the copy still to be written is no
  older than the row (`Fresh`), and one ACTIVE reservation is what it settles
  (`Settles`).  What edits have put in is part of the equations (`edited`).
  `UndisturbedBalance`, `UndisturbedAlerts` and `SettledOnce` follow.
  The ACTIVE reservations of an item are a sum over a finite set; the lemmas on
  such sums unfold the library's fold one element at a time.
* **AccountsAndPaymentsProofs**, payments.  `RefundInv` adds to the types what a copy under way is worth:
  a request that has not written yet holds the row as it is, if it is alone with
  it (`FreshUntouched`, `Alone`, `ReadAgrees`); what its remaining statements add
  closes the gap between row and refunds (`RestAgrees`, `CopyAgrees`).  `Restrained`
  says that no row outside `overstated` shows more refunded than paid, nor any copy
  but that of a webhook or form, whose save is what puts its payment into
  `overstated`.  `NeverOverRefunded` and `UndisturbedRefunds` follow for
  any prices and amounts, payments, workers and webhooks.
* **AccountsAndPaymentsProofs**, authentication.  `AccountInv` says that at most
  one request at a time is about a user whose requests did not overlap
  (`OneRequest`), and that the row such a request is going to write has the password
  that was set last, or sets it (`RequestsSound`, `Faithful`); whoever has no profile
  yet is waited for by the request that inserted the user (`ProfilesAwaited`).
  `KeepsPassword` and `HasProfile` follow for any users, tokens and threads.
  `AttemptsBounded` counts the failures that slipped through with the logins about
  to be stored; `LimitInv` counts with them every login of the email that the check
  has let pass, whatever becomes of it.  A login passes only while fewer rows than
  the limit are in the window, and at most one per thread has passed and is not
  stored, so that the sum stays below the limit plus the number of threads.
* **OrdersProofs.** `HistoryTells` speaks of an order at rest, while the handlers
  write the row and its history in either order and some write the row twice.
  `OrderInv` therefore looks ahead: if the writes a worker still holds were made,
  the last of them to the row and the last entry of each column would agree
  (`HolderTells`); and none of them cancels a row whose status is shipped
  (`CancelChecked`), although the check was made before the first of them.  An order
  that was shipped once and has another status now can be cancelled, and nothing here
  says otherwise.  For the carts, `CartAwaited` counts the carts of a customer together with
  those that workers are about to create for him: unless he was given one, the sum is
  at most the number of workers however requests overlap, and without an overlap a
  cart is about to be created only where there is none.
* **EventDeliveryProofs.** `HeardInv` says that rows, deliveries, the copies of both
  that requests hold, their counters and the answers under way claim no more
  than was received, which gives `CompletedWasReceived` in spite of overlapping
  requests, deaths and edits that write old copies back.  `OnceInv` is about
  events with none of these: whatever may still be processed, in a row or in the
  list of a request, was accepted by nobody (`OpenIsQuiet`, `WaitsQuietly`), unless it
  is in `unrecorded`: a request that raises after an acceptance puts the event there
  before `MarkFailed` opens it again.  One round of deliveries asks nobody twice
  (`Round`); together they give `ReceivedOnce`, with subscriptions and their
  deliveries deleted at any moment.
* **GatewayAndDiscoveryProofs**, gateway.  For the calls, `CountInv` says that whoever is past the waiting
  holds the lock of its process (`LocksHeld`) and that the record in Redis carries
  the count of failures (`OneCount`), so that `CountsAsOne` holds for any number of
  processes.  `TurnInv` says that the k-th last pick lies k places behind the
  position in the cache, modulo the length of the list; `TakeTurns` follows
  because two of these places coincide only a whole round apart.  For the limits,
  `RoomKept`: a counter plus the checks that passed on it and will still add to it
  is at most `limit + workers - 1`.  A check passes only below the limit, and at
  most `workers` have passed at a time, which is why an overrun does not feed on
  itself; this for any workers, paths and limits.
* **GatewayAndDiscoveryProofs**, service discovery.  `RedisIsCurrent` and
  `HistoryChains` speak of a key at rest.  `ConfigInv` says what holds between: unless
  writes have crossed or been cut short, there is one request that sets, alone, and
  at `save` its copy is the row, at `log` row and history differ by the entry it is
  about to add, at `cache` only the caches are behind; a read that is about to fill
  them has the value of the row.  For any readers, processes and texts.
  `RegistryInv` says that a key, once given out, belongs to one `instance_id` and one
  service, in every row and every copy (`OneKey`): hence a row found under the key of
  a copy is the row the copy was read from, and a heartbeat or a confirmation writes
  a row that is there.  `NoneRevived` says so: a row that was not there comes from the
  insert of a registration, which may have been accepted before a removal and then
  does bring the instance back, or from the whole-row save of a health check or an
  edit that started with an old copy; never from a heartbeat or a confirmation.  `EmptyIsInactive` needs more: that a
  deletion nothing has overlapped leaves the others it has seen (`OthersLeft`), so one
  that leaves none has saved the service as inactive, and that from then on no copy
  that may still be saved is active (`EmptyStays`).  For any handlers and instances.
* **AuditProofs.** `ColumnInv` extends `ColumnsAgree` to the copies that `end_trace`
  is going to write (`CopiesHonest`), for any status its client names; a span
  ended with "active" or edited column by column is not `plain`.  `EndedStays` is an action property of the same invariant: a span that has ended is
  active again only if the request that wrote it asks for "active", or read it when
  it was.  `TrailInv` is about logs and statistics.  Every entry of a
  cache and every configuration a request holds was in force since the five
  minutes of its key began (`HeldInForce`, `CachesFresh`, `LogsHonest`), hence
  `LoggedAsConfigured`.  What a view has counted, and what it would count now, is
  off from its total by at most the rows written since (`Counted`), hence
  `StatsWithin`; both for any processes, threads, tables and rows.

Every safety property the passing runs check is stated by a theorem.  Only model-checked is
liveness, which is out of the prover's reach: `SagaAnswers`, `OpenIsTemporary`,
`ClosesAfterRecovery`, `CallEnds`, `WebhooksSettle`, `ProcessingEnds`, `WindowEnds`,
`CallsEnd`, `LockoutEnds`.

## 5. Hazards

`PROJECT.json` lists them, each at its line, with the properties that watch it.
The assumption behind most of them is the same: a check and the write it
protects are separated by other workers' statements, and a row that was read is
written as a whole.  Where the code does nothing against it, the hazard happens, and
no property can forbid it; the entry then has a note instead of a property, or beside
one that holds only without the overlap.  Without a property are:

* a crash between two steps of a saga: nothing resumes it, so nothing can be said
  beyond `RecordNeverAhead`, which is a theorem;
* stale copies, two requests that settle one reservation, and half-done work in the
  inventory: all three happen in the model, and `NeverNegative` is what survives;
* the stale statistics of the inventory, which nothing reads back;
* the delivery `retry_failed_deliveries` leaves in retry for ever;
* the PATCH endpoint of the breaker (`resilience/views.py` 133), which writes
  fields without the lock between the loads and stores of a locked section.

## 6. Not modelled, and why

* **The statements of the five saga steps.** As written none of them succeeds on
  these databases: `select_for_update` outside a transaction of the inventory's
  database raises, `_create_order` leaves out the NOT NULL column `customer`
  (`orders/models.py` 81), `_process_payment` passes a string for the foreign key
  of the provider.  A model of them would show a saga that always compensates at
  its first step.  What the orchestrator can see of a step is in `Saga`.
* **Notifications** (`notification/`). `services.py` imports `NotificationStats`,
  which `models.py` does not define; views, tasks and services cannot be imported,
  and their code names fields the models do not have, so that it has no meaning
  to model.
* **Chaos engine and management API of the resilience library**: sleeps and errors
  at random, reads of metrics, and the PATCH and reset endpoints named above.
* **Inventory**: bulk lists of more than one row, edits of the two levels, the
  admin's forms of movements and alerts, moving a reservation to another item,
  deletion of rows, acknowledging an alert, the statistics cache, and what no view
  reaches (`transfer_stock`, `bulk_reserve_stock`,
  `StockReservation.release`).
* **Gateway**: the proxy's transformation of requests, the statistics and
  configuration views (two of which raise `NameError`), the balancing strategies
  without a caller.
* **Service discovery**: the registration key in Redis that nothing reads,
  `delete_configuration` (no caller), searches.
* **Authentication**: JSON web tokens, which have no state here; logout, which
  answers 400 because the blacklist is not installed; addresses, whose default
  flag has the read-and-write race of every other row.
* **Audit**: searches, exports, masking and the trace tree, which only read.
* **Products**: one statement per request, no state machine.
* **Data synchronisation and migration** (`ecommerce/data_sync.py`, `scripts/`):
  scripts run by hand; nothing calls them while the services run.
* **Deployment** (`k8s/`, `istio/`, `monitoring/`, `load_test/`): configuration.

What would come next: the breaker's sections split into loads and stores, to place
the PATCH endpoint between them; more than one row in a bulk list.
