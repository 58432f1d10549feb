----------------------------- MODULE AuditTrail -----------------------------
(***************************************************************************)
(* The tables of the audit service, what is written to them and how they   *)
(* are counted.  log_event and bulk_log_events ask the configuration of a  *)
(* service whether an event is to be logged; each process keeps what it    *)
(* found under the service and the current five minutes, never clears it   *)
(* and never hears of a change.  The statistics are computed by several    *)
(* statements, between which rows come and go.  A statement commits by     *)
(* itself, and a row whose text columns are given as None is refused: the  *)
(* middleware and the signals of the audit service never log anything.     *)
(***************************************************************************)
EXTENDS Naturals, Sequences, FiniteSets

CONSTANTS
  Clerks,       \* threads that handle requests
  Homes,        \* processes
  HomeOf,       \* the process of a thread
  Tables,       \* the tables that are used
  Services,
  RowIds,       \* per table
  Batches,      \* the batches of events that are logged together
  MaxTrail,     \* bound: requests of a behaviour
  MaxBucket,    \* bound: five minutes that pass
  Absent        \* no row, no configuration

\* The statistics of each table, as the statements that follow the first, which
\* counts: groupings, and what is done about errors.  Only those of security
\* events are not restricted to a service; of the changes there are none.
AuditStats       == [groupings |-> 3, perService |-> TRUE,  errors |-> "listed"]
SecurityStats    == [groupings |-> 3, perService |-> FALSE, errors |-> "no"]
PerformanceStats == [groupings |-> 1, perService |-> TRUE,  errors |-> "no"]
ApiStats         == [groupings |-> 3, perService |-> TRUE,  errors |-> "rate"]
TraceStats       == [groupings |-> 1, perService |-> TRUE,  errors |-> "no"]

Statistics ==
  [audit_logs |-> AuditStats, security_events |-> SecurityStats, api_audit_logs |-> ApiStats,
   performance_metrics |-> PerformanceStats, distributed_traces |-> TraceStats]

\* A row: the service it is about and whether it counts as an error.  (The columns
\* that matter of a security event and of a span are in Tracing.)
Row     == [service : Services, error : BOOLEAN]
\* A configuration: enabled, log_level 'error', and whether log_types is empty.
Setting == [enabled : BOOLEAN, errorsOnly : BOOLEAN, allTypes : BOOLEAN]
\* An event: its type is among log_types, and no text of it is None.
Event   == [service : Services, error : BOOLEAN, listed : BOOLEAN, complete : BOOLEAN]

ASSUME TrailConstants ==
  /\ HomeOf \in [Clerks -> Homes]
  /\ "audit_logs" \in Tables
  /\ Tables \subseteq DOMAIN Statistics \union {"data_change_logs"}
  /\ IsFiniteSet(RowIds)
  /\ Batches \subseteq Seq(Event) \ {<< >>}
  /\ Absent \notin Row \union Setting /\ MaxTrail \in Nat /\ MaxBucket \in Nat

Buckets == 0 .. MaxBucket
Found   == Setting \union {Absent}

VARIABLES
  rows,       \* the rows of each table
  settings,   \* the AuditConfiguration of each service
  cached,     \* _config_cache of each process
  bucket,     \* timestamp // _cache_ttl
  clerk,      \* the request of each thread
  requests,   \* requests so far
  held,       \* history: what has been in force in the current bucket
  written     \* history: rows written and deleted so far

trailVars == <<rows, settings, cached, bucket, clerk, requests, held, written>>

Free(w)      == clerk[w] = << >>
At(w, stage) == clerk[w] # << >> /\ clerk[w].stage = stage
Move(w, job) == clerk' = [clerk EXCEPT ![w] = job]
Leave(w)     == Move(w, << >>)
Spend        == requests < MaxTrail /\ requests' = requests + 1
Unused(t)    == {i \in RowIds : rows[t][i] = Absent}

\* What the query of _get_cached_config finds.
Enabled(c) == IF c # Absent /\ c.enabled THEN c ELSE Absent
InForce(s) == Enabled(settings[s])

TrailTypeOK ==
  /\ rows \in [Tables -> [RowIds -> Row \union {Absent}]]
  /\ settings \in [Services -> Found]
  /\ \A h \in Homes : DOMAIN cached[h] \subseteq Services \X Buckets
  /\ \A h \in Homes : \A k \in DOMAIN cached[h] :
       cached[h][k] # Absent => cached[h][k] \in Setting /\ cached[h][k].enabled
  /\ bucket \in Buckets /\ requests \in 0 .. MaxTrail
  /\ held \in [Services -> SUBSET Found] /\ written \in Nat
  /\ \A w \in Clerks : ~Free(w) => clerk[w].stage \in
       {"lookup", "fetch", "keep", "insert", "save", "group", "errors", "report", "configure"}

TrailInit ==
  /\ rows = [t \in Tables |-> [i \in RowIds |-> Absent]]
  /\ settings = [s \in Services |-> Absent]
  /\ cached = [h \in Homes |-> << >>]
  /\ bucket = 0 /\ requests = 0 /\ written = 0
  /\ clerk = [w \in Clerks |-> << >>]
  /\ held = [s \in Services |-> {Absent}]

-----------------------------------------------------------------------------
(* log_event, and bulk_log_events for more than one event. *)

Allowed(c, e) ==
  /\ c # Absent
  /\ c.errorsOnly => e.error
  /\ c.allTypes \/ e.listed

LogEvents(w) ==
  /\ Free(w) /\ Spend
  /\ \E b \in Batches : Move(w, [stage |-> "lookup", rest |-> b, kept |-> << >>])
  /\ UNCHANGED <<rows, settings, cached, bucket, held, written>>

\* The next event, once its configuration c is known; could is what c might
\* have been under the rule that a configuration is at most one bucket old.
Decide(w, c, could) ==
  LET job == clerk[w]
      e   == Head(job.rest)
  IN  Move(w, [stage |-> IF Tail(job.rest) = << >> THEN "insert" ELSE "lookup",
               rest  |-> Tail(job.rest),
               kept  |-> IF Allowed(c, e) THEN Append(job.kept, [event |-> e, could |-> could])
                         ELSE job.kept])

Mut_Key(s) == <<s, 0>>

Key(s) == <<s, bucket>>

\* _get_cached_config: None is kept as well.
Lookup(w) ==
  /\ At(w, "lookup")
  /\ LET s == Head(clerk[w].rest).service
         h == HomeOf[w]
     IN  IF Key(s) \in DOMAIN cached[h]
           THEN Decide(w, cached[h][Key(s)], held[s])
           ELSE Move(w, [stage |-> "fetch", rest |-> clerk[w].rest, kept |-> clerk[w].kept,
                         key |-> Key(s)])
  /\ UNCHANGED <<rows, settings, cached, bucket, requests, held, written>>

Fetch(w) ==
  /\ At(w, "fetch")
  /\ LET job == clerk[w]
         s   == Head(job.rest).service
     IN  Move(w, [stage |-> "keep", rest |-> job.rest, kept |-> job.kept, key |-> job.key,
                  config |-> InForce(s), could |-> held[s]])
  /\ UNCHANGED <<rows, settings, cached, bucket, requests, held, written>>

\* Under the key computed before the query.
Keep(w) ==
  /\ At(w, "keep")
  /\ LET job == clerk[w]
         h   == HomeOf[w]
     IN  /\ cached' = [cached EXCEPT ![h] =
                         [k \in DOMAIN @ \union {job.key} |->
                            IF k = job.key THEN job.config ELSE @[k]]]
         /\ Decide(w, job.config, job.could)
  /\ UNCHANGED <<rows, settings, bucket, requests, held, written>>

\* Some assignment of new identifiers to the events, in order.
Stored(t, events, ids) ==
  [rows EXCEPT ![t] = [i \in RowIds |->
     IF \E n \in DOMAIN ids : ids[n] = i
       THEN LET e == events[CHOOSE n \in DOMAIN ids : ids[n] = i] IN [service |-> e.service, error |-> e.error]
       ELSE @[i]]]

\* One statement: all the events that are left, or none if one of them lacks a text.
Insert(w) ==
  /\ At(w, "insert")
  /\ Leave(w)
  /\ LET events == [n \in DOMAIN clerk[w].kept |-> clerk[w].kept[n].event] IN
       \/ /\ events # << >> /\ \A n \in DOMAIN events : events[n].complete
          /\ \E ids \in [DOMAIN events -> Unused("audit_logs")] :
               /\ \A m, n \in DOMAIN ids : ids[m] = ids[n] => m = n
               /\ rows' = Stored("audit_logs", events, ids)
          /\ written' = written + Len(events)
       \/ /\ events = << >> \/ \E n \in DOMAIN events : ~events[n].complete
          /\ UNCHANGED <<rows, written>>
  /\ UNCHANGED <<settings, cached, bucket, requests, held>>

-----------------------------------------------------------------------------
(* Rows that are written without asking a configuration. *)

Put(t, i, r) ==
  /\ rows' = [rows EXCEPT ![t][i] = r]
  /\ written' = written + 1

\* POST of a list view.
CreateRow(w) ==
  /\ Free(w) /\ Spend
  /\ \E t \in Tables : \E i \in Unused(t), r \in Row : Put(t, i, r)
  /\ UNCHANGED <<settings, cached, bucket, clerk, held>>

\* A metric without a value or a name is refused by its columns.
RecordMetric(w) ==
  /\ Free(w) /\ Spend
  /\ \E given \in BOOLEAN :
       IF given /\ "performance_metrics" \in Tables
         THEN \E i \in Unused("performance_metrics"), s \in Services :
                Put("performance_metrics", i, [service |-> s, error |-> FALSE])
         ELSE UNCHANGED <<rows, written>>
  /\ UNCHANGED <<settings, cached, bucket, clerk, held>>

\* Which columns without null a call of log_api_call gives: error_type and
\* error_message, stack_trace, response_status.  A client chooses ...
ClientCalls == [errors : BOOLEAN, trace : BOOLEAN, status : BOOLEAN]
\* ... and AuditMiddleware never gives a stack trace, and the errors only for a
\* response that is one.
MiddlewareCalls == [errors : BOOLEAN, trace : {FALSE}, status : {TRUE}]

\* Those columns refuse None.
Given(call) == call.errors /\ call.trace /\ call.status

LogApiCall(w) ==
  /\ Free(w) /\ Spend
  /\ "api_audit_logs" \in Tables
  /\ \E call \in ClientCalls \union MiddlewareCalls :
       IF Given(call)
         THEN \E i \in Unused("api_audit_logs"), r \in Row : Put("api_audit_logs", i, r)
         ELSE UNCHANGED <<rows, written>>
  /\ UNCHANGED <<settings, cached, bucket, clerk, held>>

\* track_data_change, called by the signals for every row that any service saves
\* or deletes, gets _meta as the content type and never writes a row.
TrackChange(w) ==
  /\ Free(w) /\ Spend
  /\ UNCHANGED <<rows, settings, cached, bucket, clerk, held, written>>

DestroyRow(w) ==
  /\ Free(w) /\ Spend
  /\ \E t \in Tables, i \in RowIds : rows[t][i] # Absent /\ Put(t, i, Absent)
  /\ UNCHANGED <<settings, cached, bucket, clerk, held>>

\* The update serializers of security events and spans leave out the service.
Edited(t, row) ==
  {r \in Row : t \in {"security_events", "distributed_traces"} => r.service = row.service}

\* PUT and PATCH read the row ...
EditRow(w) ==
  /\ Free(w) /\ Spend
  /\ \E t \in Tables, i \in RowIds :
       /\ rows[t][i] # Absent
       /\ \E r \in Edited(t, rows[t][i]) :
            Move(w, [stage |-> "save", table |-> t, id |-> i, row |-> r])
  /\ UNCHANGED <<rows, settings, cached, bucket, held, written>>

\* ... and write all of it, into a new row if it is gone.
SaveRow(w) ==
  /\ At(w, "save")
  /\ Put(clerk[w].table, clerk[w].id, clerk[w].row)
  /\ Leave(w)
  /\ UNCHANGED <<settings, cached, bucket, requests, held>>

-----------------------------------------------------------------------------
(* The configuration of a service.  No write of it reaches the caches. *)

Configured(s, c) ==
  /\ settings' = [settings EXCEPT ![s] = c]
  /\ held' = [held EXCEPT ![s] = @ \union {Enabled(c)}]

Configure(w) ==
  /\ Free(w) /\ Spend
  /\ \E s \in Services, c \in Setting :
       /\ settings[s] = Absent
       /\ Configured(s, c)
  /\ UNCHANGED <<rows, cached, bucket, clerk, written>>

Reconfigure(w) ==
  /\ Free(w) /\ Spend
  /\ \E s \in Services, c \in Setting :
       settings[s] # Absent /\ Move(w, [stage |-> "configure", service |-> s, config |-> c])
  /\ UNCHANGED <<rows, settings, cached, bucket, held, written>>

SaveConfiguration(w) ==
  /\ At(w, "configure")
  /\ Configured(clerk[w].service, clerk[w].config)
  /\ Leave(w)
  /\ UNCHANGED <<rows, cached, bucket, requests, written>>

DestroyConfiguration(w) ==
  /\ Free(w) /\ Spend
  /\ \E s \in Services : settings[s] # Absent /\ Configured(s, Absent)
  /\ UNCHANGED <<rows, cached, bucket, clerk, written>>

-----------------------------------------------------------------------------
(* Statistics of one service in one table. *)

Selected(t, s) ==
  {i \in RowIds : rows[t][i] # Absent /\ (Statistics[t].perService => rows[t][i].service = s)}

Mut_Errors(t, s) == {i \in RowIds : rows[t][i] # Absent /\ rows[t][i].error}

Errors(t, s) == {i \in Selected(t, s) : rows[t][i].error}

\* The statement with the totals ...
Count(w) ==
  /\ Free(w) /\ Spend
  /\ \E t \in Tables \intersect DOMAIN Statistics, s \in Services :
       Move(w, [stage |-> "group", table |-> t, service |-> s, since |-> written,
                total |-> Cardinality(Selected(t, s)),
                groups |-> << >>, errors |-> 0])
  /\ UNCHANGED <<rows, settings, cached, bucket, held, written>>

\* ... the grouped statements, of which only the sum of the groups is kept ...
Group(w) ==
  /\ At(w, "group")
  /\ LET job == clerk[w]
         of  == Statistics[job.table]
     IN  Move(w, [job EXCEPT
           !.groups = Append(@, Cardinality(Selected(job.table, job.service))),
           !.stage  = IF Len(job.groups) + 1 < of.groupings THEN "group"
                      ELSE IF of.errors = "listed" \/ (of.errors = "rate" /\ job.total > 0) THEN "errors"
                      ELSE "report"])
  /\ UNCHANGED <<rows, settings, cached, bucket, requests, held, written>>

\* ... and get_api_stats counts the errors to divide them by the total;
\* get_audit_stats lists the latest.
CountErrors(w) ==
  /\ At(w, "errors")
  /\ Move(w, [clerk[w] EXCEPT !.stage = "report",
                              !.errors = Cardinality(Errors(clerk[w].table, clerk[w].service))])
  /\ UNCHANGED <<rows, settings, cached, bucket, requests, held, written>>

Answer(w) ==
  /\ At(w, "report")
  /\ Leave(w)
  /\ UNCHANGED <<rows, settings, cached, bucket, requests, held, written>>

-----------------------------------------------------------------------------
Tick ==
  /\ bucket < MaxBucket
  /\ bucket' = bucket + 1
  /\ held' = [s \in Services |-> {InForce(s)}]
  /\ UNCHANGED <<rows, settings, cached, clerk, requests, written>>

\* A process restarts with an empty cache; its requests are lost.
Restart(h) ==
  /\ cached[h] # << >>
  /\ cached' = [cached EXCEPT ![h] = << >>]
  /\ clerk' = [w \in Clerks |-> IF HomeOf[w] = h THEN << >> ELSE clerk[w]]
  /\ UNCHANGED <<rows, settings, bucket, requests, held, written>>

TrailNext ==
  \/ \E w \in Clerks :
       \/ LogEvents(w) \/ Lookup(w) \/ Fetch(w) \/ Keep(w) \/ Insert(w)
       \/ CreateRow(w) \/ RecordMetric(w) \/ LogApiCall(w) \/ TrackChange(w)
       \/ DestroyRow(w) \/ EditRow(w) \/ SaveRow(w)
       \/ Configure(w) \/ Reconfigure(w) \/ SaveConfiguration(w) \/ DestroyConfiguration(w)
       \/ Count(w) \/ Group(w) \/ CountErrors(w) \/ Answer(w)
  \/ Tick
  \/ \E h \in Homes : Restart(h)

-----------------------------------------------------------------------------
(* An event that is about to be logged is allowed by a configuration that was *)
(* in force at some time since the five minutes began in which the event was  *)
(* looked up: a change is obeyed after at most that time, by every process,   *)
(* although no cache hears of it.                                             *)
LoggedAsConfigured ==
  \A w \in Clerks : ~Free(w) /\ "kept" \in DOMAIN clerk[w] =>
    \A n \in DOMAIN clerk[w].kept :
      \E c \in clerk[w].kept[n].could :
        /\ c # Absent /\ c.enabled
        /\ c.errorsOnly => clerk[w].kept[n].event.error
        /\ c.allTypes \/ clerk[w].kept[n].event.listed

(* The statistics are read by several statements.  The sum of each grouping   *)
(* differs from the total by no more than the rows written and deleted since  *)
(* the total was read, and the errors exceed it by no more: without a write   *)
(* in between the numbers agree and the error rate is at most 100.            *)
StatsWithin ==
  \A w \in Clerks : ~Free(w) /\ "total" \in DOMAIN clerk[w] =>
    LET job  == clerk[w]
        late == written - job.since
    IN  /\ \A n \in DOMAIN job.groups :
             job.groups[n] <= job.total + late /\ job.total <= job.groups[n] + late
        /\ job.errors <= job.total + late
=============================================================================
