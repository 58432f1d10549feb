------------------------------- MODULE Tracing -------------------------------
(***************************************************************************)
(* The rows of the audit service that have a life of their own: spans of   *)
(* distributed traces, which start and end, and security events, which are *)
(* resolved.  end_trace and the generic views read a row and later write   *)
(* all of its columns, into a new row if it has gone; the admin's actions  *)
(* update some columns in one statement.  The forms of the admin are       *)
(* generic views that leave no column out.  A trace has one span, for      *)
(* trace_id is unique.  Times are abstracted to whether they are set.      *)
(***************************************************************************)
EXTENDS Naturals

CONSTANTS
  Agents,      \* threads that handle requests
  Traces,      \* trace identifiers
  Incidents,   \* primary keys of security events
  MaxTracing,  \* bound: requests of a behaviour
  Missing      \* no row

TraceStatus == {"active", "completed", "failed", "timeout"}
\* end_trace stores whatever its client says, "active" or a word that is no choice.
EndStatus   == TraceStatus \union {"unknown"}

\* status; whether end_time and duration_ms are set.
Span     == [status : EndStatus, ended : BOOLEAN, timed : BOOLEAN]
\* is_resolved; whether resolved_at and resolved_by are set.
Incident == [resolved : BOOLEAN, dated : BOOLEAN, signed : BOOLEAN]

\* A request that has read a row, and what it will write; of a span also the status
\* it saw and the one its client asks for, and for end_trace whether the row can be
\* stored.
Asked        == EndStatus \union {"nothing"}
EndTask      == [stage : {"end"}, id : Traces, saw : EndStatus, asked : Asked, fits : BOOLEAN,
                 row : Span]
SpanTask     == [stage : {"span"}, id : Traces, saw : EndStatus, asked : Asked, row : Span]
IncidentTask == [stage : {"incident"}, id : Incidents, row : Incident]
Task         == EndTask \union SpanTask \union IncidentTask

ASSUME TracingConstants ==
  /\ Missing \notin Span \union Incident
  /\ Traces \intersect Incidents = {} /\ MaxTracing \in Nat

VARIABLES
  spans,      \* the distributed_traces
  incidents,  \* the security_events
  agent,      \* the request of each thread that has read a row: what it will write
  handled,    \* requests so far
  plain       \* history: rows that no client or admin filled in column by column

tracingVars == <<spans, incidents, agent, handled, plain>>

Handle       == handled < MaxTracing /\ handled' = handled + 1
Ready(a)     == agent[a] = << >>
Holds(a, s)  == agent[a] # << >> /\ agent[a].stage = s
Return(a)    == agent' = [agent EXCEPT ![a] = << >>]

TracingTypeOK ==
  /\ spans \in [Traces -> Span \union {Missing}]
  /\ incidents \in [Incidents -> Incident \union {Missing}]
  /\ agent \in [Agents -> Task \union {<< >>}]
  /\ handled \in 0 .. MaxTracing /\ plain \subseteq Traces \union Incidents

TracingInit ==
  /\ spans = [t \in Traces |-> Missing]
  /\ incidents = [i \in Incidents |-> Missing]
  /\ agent = [a \in Agents |-> << >>]
  /\ handled = 0 /\ plain = Traces \union Incidents

WriteSpan(t, row)     == spans' = [spans EXCEPT ![t] = row]
WriteIncident(i, row) == incidents' = [incidents EXCEPT ![i] = row]

-----------------------------------------------------------------------------
(* Spans. *)

\* A second start with the trace_id of another span is refused.
StartTrace(a) ==
  /\ Ready(a) /\ Handle
  /\ \E t \in Traces :
       /\ spans[t] = Missing
       /\ WriteSpan(t, [status |-> "active", ended |-> FALSE, timed |-> FALSE])
       /\ plain' = plain \union {t}
  /\ UNCHANGED <<incidents, agent>>

\* POST of the list: every column as the client has it.  (The admin cannot add a span,
\* whose start_time is not in the form.)
CreateSpan(a) ==
  /\ Ready(a) /\ Handle
  /\ \E t \in Traces, s \in TraceStatus, ended, timed \in BOOLEAN :
       /\ spans[t] = Missing
       /\ WriteSpan(t, [status |-> s, ended |-> ended, timed |-> timed])
       /\ plain' = plain \ {t}
  /\ UNCHANGED <<incidents, agent>>

\* end_trace finds the span and sets status, times and error columns.  Fits: the request
\* has given the three error columns, which refuse None, and no more than ten letters of
\* status.
EndTrace(a) ==
  /\ Ready(a) /\ Handle
  /\ \E t \in Traces, s \in EndStatus, fits \in BOOLEAN :
       /\ spans[t] # Missing
       /\ agent' = [agent EXCEPT ![a] =
            [stage |-> "end", id |-> t, saw |-> spans[t].status, asked |-> s, fits |-> fits,
             row |-> [status |-> s, ended |-> TRUE, timed |-> TRUE]]]
  /\ UNCHANGED <<spans, incidents, plain>>

\* A row that cannot be stored changes nothing.  A client that "ends" a span with the
\* status "active" has filled in its columns by hand.
SaveEnd(a) ==
  /\ Holds(a, "end")
  /\ IF agent[a].fits
       THEN /\ WriteSpan(agent[a].id, agent[a].row)
            /\ plain' = IF agent[a].row.status = "active" THEN plain \ {agent[a].id}
                        ELSE plain \union {agent[a].id}
       ELSE UNCHANGED <<spans, plain>>
  /\ Return(a)
  /\ UNCHANGED <<incidents, handled>>

Mut_Patched(read, asked) == IF asked = "nothing" THEN "active" ELSE asked

\* DistributedTraceUpdateSerializer: a status that the request leaves out stays as read.
Patched(read, asked) == IF asked = "nothing" THEN read ELSE asked

\* PUT, PATCH or the change form of the admin: any choice of status, and times set,
\* cleared or as they were read.
EditSpan(a) ==
  /\ Ready(a) /\ Handle
  /\ \E t \in Traces, asked \in TraceStatus \union {"nothing"}, ended, timed \in BOOLEAN :
       /\ spans[t] # Missing
       /\ agent' = [agent EXCEPT ![a] =
            [stage |-> "span", id |-> t, saw |-> spans[t].status, asked |-> asked,
             row |-> [status |-> Patched(spans[t].status, asked), ended |-> ended, timed |-> timed]]]
  /\ UNCHANGED <<spans, incidents, plain>>

SaveSpan(a) ==
  /\ Holds(a, "span")
  /\ WriteSpan(agent[a].id, agent[a].row)
  /\ plain' = plain \ {agent[a].id}
  /\ Return(a)
  /\ UNCHANGED <<incidents, handled>>

DestroySpan(a) ==
  /\ Ready(a) /\ Handle
  /\ \E t \in Traces : spans[t] # Missing /\ WriteSpan(t, Missing)
  /\ UNCHANGED <<incidents, agent, plain>>

\* mark_as_completed and mark_as_failed, over the selected rows in one statement.
AdminMarkSpans ==
  /\ Handle
  /\ \E marked \in SUBSET {t \in Traces : spans[t] # Missing}, s \in {"completed", "failed"} :
       /\ marked # {}
       /\ spans' = [t \in Traces |->
            IF t \in marked THEN [spans[t] EXCEPT !.status = s, !.ended = TRUE] ELSE spans[t]]
       /\ plain' = plain \union marked
  /\ UNCHANGED <<incidents, agent>>

-----------------------------------------------------------------------------
(* Security events. *)

Recorded(i) ==
  /\ incidents[i] = Missing
  /\ WriteIncident(i, [resolved |-> FALSE, dated |-> FALSE, signed |-> FALSE])
  /\ plain' = plain \union {i}

\* create_security_event for a client, who may forget the address, which has no null.
LogIncident(a) ==
  /\ Ready(a) /\ Handle
  /\ \E i \in Incidents, given \in BOOLEAN :
       IF given THEN Recorded(i) ELSE UNCHANGED <<incidents, plain>>
  /\ UNCHANGED <<spans, agent>>

\* The signals of a login to the admin and of a logout.  That of a failed login
\* raises before it records anything.
SignInOrOut(a) ==
  /\ Ready(a) /\ Handle
  /\ \E i \in Incidents : Recorded(i)
  /\ UNCHANGED <<spans, agent>>

\* The add form of the admin, with all columns.
AddIncident(a) ==
  /\ Ready(a) /\ Handle
  /\ \E i \in Incidents, new \in Incident :
       incidents[i] = Missing /\ WriteIncident(i, new) /\ plain' = plain \ {i}
  /\ UNCHANGED <<spans, agent>>

\* The change form of the admin writes all three columns; SecurityEventUpdateSerializer
\* never resolved_at, which then stays as it was read.
EditIncident(a) ==
  /\ Ready(a) /\ Handle
  /\ \E i \in Incidents, resolved, signed, dated \in BOOLEAN :
       /\ incidents[i] # Missing
       /\ agent' = [agent EXCEPT ![a] =
            [stage |-> "incident", id |-> i,
             row |-> [resolved |-> resolved, dated |-> dated, signed |-> signed]]]
  /\ UNCHANGED <<spans, incidents, plain>>

SaveIncident(a) ==
  /\ Holds(a, "incident")
  /\ WriteIncident(agent[a].id, agent[a].row)
  /\ plain' = plain \ {agent[a].id}
  /\ Return(a)
  /\ UNCHANGED <<spans, handled>>

DestroyIncident(a) ==
  /\ Ready(a) /\ Handle
  /\ \E i \in Incidents : incidents[i] # Missing /\ WriteIncident(i, Missing)
  /\ UNCHANGED <<spans, agent, plain>>

Mut_Resolve(row, yes) == [row EXCEPT !.resolved = yes, !.dated = yes]

\* mark_as_resolved and bulk_resolve; mark_as_unresolved.
Resolve(row, yes) ==
  IF yes THEN [row EXCEPT !.resolved = TRUE, !.dated = TRUE]
  ELSE [row EXCEPT !.resolved = FALSE, !.dated = FALSE, !.signed = FALSE]

AdminMarkIncidents ==
  /\ Handle
  /\ \E marked \in SUBSET {i \in Incidents : incidents[i] # Missing}, yes \in BOOLEAN :
       /\ marked # {}
       /\ incidents' = [i \in Incidents |->
            IF i \in marked THEN Resolve(incidents[i], yes) ELSE incidents[i]]
       /\ plain' = plain \union marked
  /\ UNCHANGED <<spans, agent>>

-----------------------------------------------------------------------------
\* A request dies between its statements.
Die(a) == ~Ready(a) /\ Return(a) /\ UNCHANGED <<spans, incidents, handled, plain>>

TracingNext ==
  \/ \E a \in Agents :
       \/ StartTrace(a) \/ CreateSpan(a) \/ EndTrace(a) \/ SaveEnd(a)
       \/ EditSpan(a) \/ SaveSpan(a) \/ DestroySpan(a)
       \/ LogIncident(a) \/ SignInOrOut(a) \/ AddIncident(a) \/ EditIncident(a) \/ SaveIncident(a) \/ DestroyIncident(a)
       \/ Die(a)
  \/ AdminMarkSpans \/ AdminMarkIncidents

-----------------------------------------------------------------------------
(* A row that nobody filled in column by column agrees with itself: a span is *)
(* active exactly while it has no end time, and a security event is resolved  *)
(* exactly when it has a date and is not signed before.  Whole rows written   *)
(* by end_trace and columns written by the admin's actions, in any order and  *)
(* from copies of any age, keep it so.                                        *)
ColumnsAgree ==
  /\ \A t \in plain \intersect Traces : spans[t] # Missing =>
       /\ spans[t].status = "active" <=> ~spans[t].ended
       /\ spans[t].timed => spans[t].ended
  /\ \A i \in plain \intersect Incidents : incidents[i] # Missing =>
       /\ incidents[i].resolved = incidents[i].dated
       /\ incidents[i].signed => incidents[i].resolved

(* A span that has ended becomes active in two ways only: a request asks for  *)
(* "active" in so many words (no endpoint forbids it), or it asks for no      *)
(* status and writes back a copy it had read before the span ended.           *)
EndedStays ==
  [][\A t \in Traces :
       /\ spans[t] # Missing /\ spans[t].status # "active"
       /\ spans'[t] # Missing /\ spans'[t].status = "active"
       => \E a \in Agents :
            /\ ~Ready(a) /\ agent[a].id = t /\ agent'[a] = << >>
            /\ \/ agent[a].asked = "active"
               \/ agent[a].asked = "nothing" /\ agent[a].saw = "active"]_tracingVars
=============================================================================
