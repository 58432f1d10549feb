----------------------------- MODULE AuditProofs -----------------------------
(***************************************************************************)
(* For any number of threads, spans, security events and rows of the log.  *)
(*                                                                         *)
(* Tracing: the columns of a row agree unless somebody filled them in one  *)
(* by one, and a span that has ended becomes active only when a request    *)
(* says so or writes back a copy that was read before it ended.            *)
(*                                                                         *)
(* The trail rests on TrailInv.  LoggedAsConfigured: the configuration     *)
(* that a request is about to apply was in force at some time since the    *)
(* five minutes of its cache key began, and so was every entry of the      *)
(* caches whose five minutes are not over.  StatsWithin: what a request has       *)
(* counted differs from what it would count now by at most the rows        *)
(* written since, because a statement changes one row of a selection.      *)
(***************************************************************************)
EXTENDS Audit, FiniteSetTheorems, TLAPS

\* What a request holds: end_trace the status it was asked for and an end time, a
\* generic view the status it was asked for or, asked for none, the one it saw.
CopiesHonest ==
  \A a \in Agents :
    /\ Holds(a, "end")  => agent[a].row.status = agent[a].asked /\ agent[a].row.ended
    /\ Holds(a, "span") => agent[a].row.status = Patched(agent[a].saw, agent[a].asked)

\* The rows, and what the requests will write.
RowsTyped ==
  /\ spans \in [Traces -> Span \union {Missing}]
  /\ incidents \in [Incidents -> Incident \union {Missing}]
  /\ agent \in [Agents -> Task \union {<< >>}]

ColumnInv == RowsTyped /\ CopiesHonest /\ ColumnsAgree

-----------------------------------------------------------------------------
(* Types. *)

\* What a generic view holds is a span.
LEMMA PatchedTyped ==
  ASSUME NEW read \in EndStatus, NEW asked \in TraceStatus \union {"nothing"},
         NEW ended \in BOOLEAN, NEW timed \in BOOLEAN
  PROVE  [status |-> Patched(read, asked), ended |-> ended, timed |-> timed] \in Span
<1>1. Patched(read, asked) \in EndStatus
  BY DEF Patched, EndStatus
<1> QED
  BY <1>1 DEF Span

\* The columns that Resolve sets agree, whatever they were before, unless an
\* unresolved event was signed.
LEMMA ResolveTyped ==
  ASSUME NEW r \in Incident, NEW yes \in BOOLEAN
  PROVE  /\ Resolve(r, yes) \in Incident
         /\ Resolve(r, yes).resolved = Resolve(r, yes).dated
         /\ Resolve(r, yes).signed => Resolve(r, yes).resolved
<1>1. r.resolved \in BOOLEAN /\ r.dated \in BOOLEAN /\ r.signed \in BOOLEAN
      /\ r = [resolved |-> r.resolved, dated |-> r.dated, signed |-> r.signed]
  BY DEF Incident
<1>2. CASE yes
  <2>1. Resolve(r, yes) = [resolved |-> TRUE, dated |-> TRUE, signed |-> r.signed]
    BY <1>1, <1>2 DEF Resolve
  <2> QED
    BY <1>1, <2>1 DEF Incident
<1>3. CASE ~yes
  <2>1. Resolve(r, yes) = [resolved |-> FALSE, dated |-> FALSE, signed |-> FALSE]
    BY <1>1, <1>3 DEF Resolve
  <2> QED
    BY <2>1 DEF Incident
<1> QED
  BY <1>2, <1>3

\* Every step keeps the types.
LEMMA TypesKeep ==
  ASSUME RowsTyped, TracingNext
  PROVE  RowsTyped'
<1> USE DEF RowsTyped, Return, WriteSpan, WriteIncident
<1>1. ASSUME NEW a \in Agents,
             StartTrace(a) \/ CreateSpan(a) \/ DestroySpan(a)
      PROVE  RowsTyped'
  <2>1. \A s \in TraceStatus, ended, timed \in BOOLEAN :
          [status |-> s, ended |-> ended, timed |-> timed] \in Span
    BY DEF Span, EndStatus
  <2>2. "active" \in TraceStatus
    BY DEF TraceStatus
  <2>3. PICK t \in Traces, s \in Span \union {Missing} : spans' = [spans EXCEPT ![t] = s]
    BY <1>1, <2>1, <2>2 DEF StartTrace, CreateSpan, DestroySpan
  <2> QED
    BY <1>1, <2>3 DEF StartTrace, CreateSpan, DestroySpan
<1>2. ASSUME NEW a \in Agents, EndTrace(a) PROVE RowsTyped'
  <2>1. PICK t \in Traces, s \in EndStatus, fits \in BOOLEAN :
          /\ spans[t] # Missing
          /\ agent' = [agent EXCEPT ![a] =
               [stage |-> "end", id |-> t, saw |-> spans[t].status, asked |-> s, fits |-> fits,
                row |-> [status |-> s, ended |-> TRUE, timed |-> TRUE]]]
    BY <1>2 DEF EndTrace
  <2>2. spans[t] \in Span
    BY <2>1
  <2>3. [stage |-> "end", id |-> t, saw |-> spans[t].status, asked |-> s, fits |-> fits,
         row |-> [status |-> s, ended |-> TRUE, timed |-> TRUE]] \in EndTask
    BY <2>2 DEF EndTask, Span, Asked
  <2> QED
    BY <1>2, <2>1, <2>3 DEF EndTrace, Task
<1>3. ASSUME NEW a \in Agents, EditSpan(a) PROVE RowsTyped'
  <2>1. PICK t \in Traces, asked \in TraceStatus \union {"nothing"}, ended, timed \in BOOLEAN :
          /\ spans[t] # Missing
          /\ agent' = [agent EXCEPT ![a] =
               [stage |-> "span", id |-> t, saw |-> spans[t].status, asked |-> asked,
                row |-> [status |-> Patched(spans[t].status, asked),
                         ended |-> ended, timed |-> timed]]]
    BY <1>3 DEF EditSpan
  <2>2. spans[t].status \in EndStatus
    BY <2>1 DEF Span
  <2>3. [status |-> Patched(spans[t].status, asked), ended |-> ended, timed |-> timed] \in Span
    BY <2>2, PatchedTyped
  <2>4. asked \in Asked
    BY DEF Asked, EndStatus
  <2>5. [stage |-> "span", id |-> t, saw |-> spans[t].status, asked |-> asked,
         row |-> [status |-> Patched(spans[t].status, asked), ended |-> ended,
                  timed |-> timed]] \in SpanTask
    BY <2>2, <2>3, <2>4 DEF SpanTask
  <2> QED
    BY <1>3, <2>1, <2>5 DEF EditSpan, Task
<1>4. ASSUME NEW a \in Agents, SaveEnd(a) PROVE RowsTyped'
  <2>1. agent[a] \in EndTask
    BY <1>4 DEF SaveEnd, Holds, Task, EndTask, SpanTask, IncidentTask
  <2> QED
    BY <1>4, <2>1 DEF SaveEnd, EndTask
<1>5. ASSUME NEW a \in Agents, SaveSpan(a) PROVE RowsTyped'
  <2>1. agent[a] \in SpanTask
    BY <1>5 DEF SaveSpan, Holds, Task, EndTask, SpanTask, IncidentTask
  <2> QED
    BY <1>5, <2>1 DEF SaveSpan, SpanTask
<1>6. ASSUME NEW a \in Agents, LogIncident(a) \/ SignInOrOut(a) \/ AddIncident(a) \/ DestroyIncident(a)
      PROVE  RowsTyped'
  <2>1. [resolved |-> FALSE, dated |-> FALSE, signed |-> FALSE] \in Incident
    BY DEF Incident
  <2>2. \/ incidents' = incidents
        \/ \E i \in Incidents, e \in Incident \union {Missing} : incidents' = [incidents EXCEPT ![i] = e]
    BY <1>6, <2>1 DEF LogIncident, SignInOrOut, AddIncident, DestroyIncident, Recorded
  <2> QED
    BY <1>6, <2>2 DEF LogIncident, SignInOrOut, AddIncident, DestroyIncident
<1>7. ASSUME NEW a \in Agents, EditIncident(a) PROVE RowsTyped'
  <2>1. PICK i \in Incidents, resolved, signed, dated \in BOOLEAN :
          /\ incidents[i] # Missing
          /\ agent' = [agent EXCEPT ![a] =
               [stage |-> "incident", id |-> i,
                row |-> [resolved |-> resolved, dated |-> dated, signed |-> signed]]]
    BY <1>7 DEF EditIncident
  <2>2. [stage |-> "incident", id |-> i,
         row |-> [resolved |-> resolved, dated |-> dated, signed |-> signed]] \in IncidentTask
    BY DEF IncidentTask, Incident
  <2> QED
    BY <1>7, <2>1, <2>2 DEF EditIncident, Task
<1>8. ASSUME NEW a \in Agents, SaveIncident(a) PROVE RowsTyped'
  <2>1. agent[a] \in IncidentTask
    BY <1>8 DEF SaveIncident, Holds, Task, EndTask, SpanTask, IncidentTask
  <2> QED
    BY <1>8, <2>1 DEF SaveIncident, IncidentTask
<1>9. ASSUME NEW a \in Agents, Die(a) PROVE RowsTyped'
  BY <1>9 DEF Die
<1>10. CASE AdminMarkSpans
  <2>1. PICK marked \in SUBSET {t \in Traces : spans[t] # Missing}, s \in {"completed", "failed"} :
          spans' = [t \in Traces |->
            IF t \in marked THEN [spans[t] EXCEPT !.status = s, !.ended = TRUE] ELSE spans[t]]
    BY <1>10 DEF AdminMarkSpans
  <2>2. \A r \in Span : [r EXCEPT !.status = s, !.ended = TRUE] \in Span
    BY DEF Span, EndStatus, TraceStatus
  <2>3. \A t \in marked : spans[t] \in Span
    OBVIOUS
  <2> QED
    BY <1>10, <2>1, <2>2, <2>3 DEF AdminMarkSpans
<1>11. CASE AdminMarkIncidents
  <2>1. PICK marked \in SUBSET {i \in Incidents : incidents[i] # Missing}, yes \in BOOLEAN :
          incidents' = [i \in Incidents |->
            IF i \in marked THEN Resolve(incidents[i], yes) ELSE incidents[i]]
    BY <1>11 DEF AdminMarkIncidents
  <2>2. \A i \in marked : Resolve(incidents[i], yes) \in Incident
    BY ResolveTyped
  <2> QED
    BY <1>11, <2>1, <2>2 DEF AdminMarkIncidents
<1> QED
  BY <1>1, <1>2, <1>3, <1>4, <1>5, <1>6, <1>7, <1>8, <1>9, <1>10, <1>11 DEF TracingNext

-----------------------------------------------------------------------------
(* The copies. *)

\* Only EndTrace and EditSpan begin to hold a span, and both note what they saw.
LEMMA CopiesKeep ==
  ASSUME RowsTyped, CopiesHonest, TracingNext
  PROVE  CopiesHonest'
<1> USE DEF Holds
<1>1. ASSUME NEW a \in Agents, EndTrace(a) PROVE CopiesHonest'
  <2>1. PICK t \in Traces, s \in EndStatus, fits \in BOOLEAN :
          agent' = [agent EXCEPT ![a] =
            [stage |-> "end", id |-> t, saw |-> spans[t].status, asked |-> s, fits |-> fits,
             row |-> [status |-> s, ended |-> TRUE, timed |-> TRUE]]]
    BY <1>1 DEF EndTrace
  <2> QED
    BY <2>1 DEF CopiesHonest, RowsTyped
<1>2. ASSUME NEW a \in Agents, EditSpan(a) PROVE CopiesHonest'
  <2>1. PICK t \in Traces, asked \in TraceStatus \union {"nothing"}, ended, timed \in BOOLEAN :
          agent' = [agent EXCEPT ![a] =
            [stage |-> "span", id |-> t, saw |-> spans[t].status, asked |-> asked,
             row |-> [status |-> Patched(spans[t].status, asked),
                      ended |-> ended, timed |-> timed]]]
    BY <1>2 DEF EditSpan
  <2> QED
    BY <2>1 DEF CopiesHonest, RowsTyped
<1>3. ASSUME NEW a \in Agents, EditIncident(a) PROVE CopiesHonest'
  <2>1. PICK i \in Incidents, resolved, signed, dated \in BOOLEAN :
          agent' = [agent EXCEPT ![a] =
            [stage |-> "incident", id |-> i,
             row |-> [resolved |-> resolved, dated |-> dated, signed |-> signed]]]
    BY <1>3 DEF EditIncident
  <2> QED
    BY <2>1 DEF CopiesHonest, RowsTyped
<1>4. ASSUME NEW a \in Agents, Return(a) PROVE CopiesHonest'
  BY <1>4 DEF Return, CopiesHonest, RowsTyped
<1>5. CASE UNCHANGED agent
  BY <1>5 DEF CopiesHonest
<1> QED
  BY <1>1, <1>2, <1>3, <1>4, <1>5
     DEF TracingNext, StartTrace, CreateSpan, SaveEnd, SaveSpan, DestroySpan, LogIncident,
         SignInOrOut, AddIncident, SaveIncident, DestroyIncident, Die, AdminMarkSpans,
         AdminMarkIncidents

-----------------------------------------------------------------------------
(* The columns. *)

SpanAgrees(s) == (s.status = "active" <=> ~s.ended) /\ (s.timed => s.ended)
IncidentAgrees(i) == i.resolved = i.dated /\ (i.signed => i.resolved)

\* A step leaves each span as it was, gives it columns that agree, deletes it, or
\* is a written column by column.
LEMMA SpansMove ==
  ASSUME RowsTyped, CopiesHonest, TracingNext, NEW t \in Traces
  PROVE  \/ spans'[t] = spans[t] /\ (t \in plain' => t \in plain)
         \/ spans'[t] = Missing
         \/ spans'[t] \in Span /\ SpanAgrees(spans'[t])
         \/ t \notin plain'
<1> USE DEF RowsTyped, WriteSpan
<1>1. ASSUME NEW a \in Agents, StartTrace(a)
      PROVE  \/ spans'[t] = spans[t] /\ (t \in plain' => t \in plain)
             \/ spans'[t] \in Span /\ SpanAgrees(spans'[t])
  <2> DEFINE new == [status |-> "active", ended |-> FALSE, timed |-> FALSE]
  <2>1. new \in Span /\ SpanAgrees(new)
    BY DEF SpanAgrees, Span, EndStatus, TraceStatus
  <2> HIDE DEF new
  <2>2. PICK u \in Traces : spans' = [spans EXCEPT ![u] = new] /\ plain' = plain \union {u}
    BY <1>1 DEF StartTrace, new
  <2> QED
    BY <2>1, <2>2
<1>2. ASSUME NEW a \in Agents, CreateSpan(a) \/ SaveSpan(a) \/ DestroySpan(a)
      PROVE  \/ spans'[t] = spans[t] /\ (t \in plain' => t \in plain)
             \/ spans'[t] = Missing
             \/ t \notin plain'
  BY <1>2 DEF CreateSpan, SaveSpan, DestroySpan
<1>3. ASSUME NEW a \in Agents, SaveEnd(a)
      PROVE  \/ spans'[t] = spans[t] /\ (t \in plain' => t \in plain)
             \/ spans'[t] \in Span /\ SpanAgrees(spans'[t])
             \/ t \notin plain'
  <2>1. agent[a] \in EndTask
    BY <1>3 DEF SaveEnd, Holds, Task, EndTask, SpanTask, IncidentTask
  <2>2. agent[a].row \in Span /\ (agent[a].row.status # "active" => SpanAgrees(agent[a].row))
    <3>1. agent[a].row \in Span
      BY <2>1 DEF EndTask
    <3>2. agent[a].row.ended
      BY <1>3 DEF SaveEnd, CopiesHonest
    <3> QED
      BY <3>1, <3>2 DEF SpanAgrees
  <2> QED
    BY <1>3, <2>2 DEF SaveEnd
<1>4. ASSUME AdminMarkSpans
      PROVE  \/ spans'[t] = spans[t] /\ (t \in plain' => t \in plain)
             \/ spans'[t] \in Span /\ SpanAgrees(spans'[t])
  <2>1. PICK marked \in SUBSET {u \in Traces : spans[u] # Missing}, s \in {"completed", "failed"} :
          /\ spans' = [u \in Traces |->
               IF u \in marked THEN [spans[u] EXCEPT !.status = s, !.ended = TRUE] ELSE spans[u]]
          /\ plain' = plain \union marked
    BY <1>4 DEF AdminMarkSpans
  <2>2. \A r \in Span : LET n == [r EXCEPT !.status = s, !.ended = TRUE] IN n \in Span /\ SpanAgrees(n)
    BY DEF Span, EndStatus, TraceStatus, SpanAgrees
  <2>3. CASE t \in marked
    BY <2>1, <2>2, <2>3
  <2>4. CASE t \notin marked
    BY <2>1, <2>4
  <2> QED
    BY <2>3, <2>4
<1>5. ASSUME \/ \E a \in Agents : \/ LogIncident(a) \/ SignInOrOut(a) \/ AddIncident(a)
                                   \/ SaveIncident(a) \/ DestroyIncident(a) \/ EndTrace(a) \/ EditSpan(a)
                                   \/ EditIncident(a) \/ Die(a)
             \/ AdminMarkIncidents
      PROVE  spans'[t] = spans[t] /\ (t \in plain' => t \in plain)
  <2>1. Traces \intersect Incidents = {}
    BY TracingConstants
  <2>2. CASE AdminMarkIncidents
    BY <2>1, <2>2 DEF AdminMarkIncidents
  <2>3. ASSUME NEW a \in Agents, SaveIncident(a)
        PROVE  spans'[t] = spans[t] /\ (t \in plain' => t \in plain)
    BY <2>3 DEF SaveIncident
  <2>4. ASSUME NEW a \in Agents, LogIncident(a) \/ SignInOrOut(a) \/ AddIncident(a)
        PROVE  spans'[t] = spans[t] /\ (t \in plain' => t \in plain)
    BY <2>1, <2>4 DEF LogIncident, SignInOrOut, AddIncident, Recorded
  <2> QED
    BY <1>5, <2>2, <2>3, <2>4 DEF DestroyIncident, EndTrace, EditSpan, EditIncident, Die
<1> QED
  BY <1>1, <1>2, <1>3, <1>4, <1>5 DEF TracingNext

\* The same of a security event.
LEMMA IncidentsMove ==
  ASSUME RowsTyped, TracingNext, NEW i \in Incidents
  PROVE  \/ incidents'[i] = incidents[i] /\ (i \in plain' => i \in plain)
         \/ incidents'[i] = Missing
         \/ incidents'[i] \in Incident /\ IncidentAgrees(incidents'[i])
         \/ i \notin plain'
<1> USE DEF RowsTyped, WriteIncident
<1>1. ASSUME NEW a \in Agents, LogIncident(a) \/ SignInOrOut(a)
      PROVE  \/ incidents'[i] = incidents[i] /\ (i \in plain' => i \in plain)
             \/ incidents'[i] \in Incident /\ IncidentAgrees(incidents'[i])
  <2> DEFINE new == [resolved |-> FALSE, dated |-> FALSE, signed |-> FALSE]
  <2>1. new \in Incident /\ IncidentAgrees(new)
    BY DEF IncidentAgrees, Incident
  <2> HIDE DEF new
  <2>2. \/ incidents' = incidents /\ plain' = plain
        \/ \E u \in Incidents : incidents' = [incidents EXCEPT ![u] = new] /\ plain' = plain \union {u}
    BY <1>1 DEF LogIncident, SignInOrOut, Recorded, new
  <2> QED
    BY <2>1, <2>2
<1>2. ASSUME NEW a \in Agents, AddIncident(a) \/ SaveIncident(a) \/ DestroyIncident(a)
      PROVE  \/ incidents'[i] = incidents[i] /\ (i \in plain' => i \in plain)
             \/ incidents'[i] = Missing
             \/ i \notin plain'
  BY <1>2 DEF AddIncident, SaveIncident, DestroyIncident
<1>3. ASSUME AdminMarkIncidents
      PROVE  \/ incidents'[i] = incidents[i] /\ (i \in plain' => i \in plain)
             \/ incidents'[i] \in Incident /\ IncidentAgrees(incidents'[i])
  <2>1. PICK marked \in SUBSET {u \in Incidents : incidents[u] # Missing}, yes \in BOOLEAN :
          /\ incidents' = [u \in Incidents |->
               IF u \in marked THEN Resolve(incidents[u], yes) ELSE incidents[u]]
          /\ plain' = plain \union marked
    BY <1>3 DEF AdminMarkIncidents
  <2>2. i \in marked => /\ Resolve(incidents[i], yes) \in Incident
                        /\ IncidentAgrees(Resolve(incidents[i], yes))
    BY ResolveTyped DEF IncidentAgrees
  <2> QED
    BY <2>1, <2>2
<1>4. ASSUME \/ \E a \in Agents : \/ StartTrace(a) \/ CreateSpan(a) \/ EndTrace(a) \/ SaveEnd(a)
                                   \/ EditSpan(a) \/ SaveSpan(a) \/ DestroySpan(a)
                                   \/ EditIncident(a) \/ Die(a)
             \/ AdminMarkSpans
      PROVE  incidents'[i] = incidents[i] /\ (i \in plain' => i \in plain)
  <2>1. Traces \intersect Incidents = {}
    BY TracingConstants
  <2>2. CASE AdminMarkSpans
    BY <2>1, <2>2 DEF AdminMarkSpans
  <2>3. ASSUME NEW a \in Agents, StartTrace(a) \/ CreateSpan(a)
        PROVE  incidents'[i] = incidents[i] /\ (i \in plain' => i \in plain)
    BY <2>1, <2>3 DEF StartTrace, CreateSpan
  <2>4. ASSUME NEW a \in Agents, SaveEnd(a)
        PROVE  incidents'[i] = incidents[i] /\ (i \in plain' => i \in plain)
    <3>1. agent[a].id \in Traces
      BY <2>4 DEF SaveEnd, Holds, Task, EndTask, SpanTask, IncidentTask
    <3> QED
      BY <2>1, <2>4, <3>1 DEF SaveEnd
  <2>5. ASSUME NEW a \in Agents, SaveSpan(a)
        PROVE  incidents'[i] = incidents[i] /\ (i \in plain' => i \in plain)
    BY <2>5 DEF SaveSpan
  <2> QED
    BY <1>4, <2>2, <2>3, <2>4, <2>5 DEF EndTrace, EditSpan, DestroySpan, EditIncident, Die
<1> QED
  BY <1>1, <1>2, <1>3, <1>4 DEF TracingNext

\* Together: the columns keep agreeing.
LEMMA ColumnsKeep ==
  ASSUME ColumnInv, TracingNext
  PROVE  ColumnInv'
<1>1. RowsTyped' /\ CopiesHonest'
  BY TypesKeep, CopiesKeep DEF ColumnInv
<1>2. ASSUME NEW t \in plain' \intersect Traces, spans'[t] # Missing
      PROVE  SpanAgrees(spans'[t])
  BY <1>2, SpansMove DEF ColumnInv, ColumnsAgree, SpanAgrees
<1>3. ASSUME NEW i \in plain' \intersect Incidents, incidents'[i] # Missing
      PROVE  IncidentAgrees(incidents'[i])
  BY <1>3, IncidentsMove DEF ColumnInv, ColumnsAgree, IncidentAgrees
<1> QED
  BY <1>1, <1>2, <1>3 DEF ColumnInv, ColumnsAgree, SpanAgrees, IncidentAgrees

\* A span is written "active" again only by a request that asks for it or saw it.
LEMMA ReopenedByCopy ==
  ASSUME ColumnInv, TracingNext, NEW t \in Traces,
         spans[t] # Missing, spans[t].status # "active",
         spans'[t] # Missing, spans'[t].status = "active"
  PROVE  \E a \in Agents :
           /\ ~Ready(a) /\ agent[a].id = t /\ agent'[a] = << >>
           /\ \/ agent[a].asked = "active"
              \/ agent[a].asked = "nothing" /\ agent[a].saw = "active"
<1> USE DEF ColumnInv, RowsTyped, WriteSpan
<1>1. ASSUME NEW a \in Agents, SaveSpan(a) \/ SaveEnd(a)
      PROVE  /\ ~Ready(a) /\ agent[a].id = t /\ agent'[a] = << >>
             /\ \/ agent[a].asked = "active"
                \/ agent[a].asked = "nothing" /\ agent[a].saw = "active"
  <2>1. agent[a].id = t /\ spans'[t] = agent[a].row
    BY <1>1 DEF SaveSpan, SaveEnd
  <2>2. agent[a].row.status \in {agent[a].asked, Patched(agent[a].saw, agent[a].asked)}
    BY <1>1 DEF SaveSpan, SaveEnd, CopiesHonest
  <2>3. agent[a] # << >> /\ agent'[a] = << >>
    BY <1>1 DEF SaveSpan, SaveEnd, Holds, Return
  <2> QED
    BY <2>1, <2>2, <2>3 DEF Ready, Patched
<1>2. ASSUME NEW a \in Agents, StartTrace(a) \/ CreateSpan(a) PROVE FALSE
  BY <1>2 DEF StartTrace, CreateSpan
<1>3. ASSUME NEW a \in Agents, DestroySpan(a) PROVE FALSE
  BY <1>3 DEF DestroySpan
<1>4. ASSUME AdminMarkSpans PROVE FALSE
  <2>1. PICK marked \in SUBSET {u \in Traces : spans[u] # Missing}, s \in {"completed", "failed"} :
          spans' = [u \in Traces |->
            IF u \in marked THEN [spans[u] EXCEPT !.status = s, !.ended = TRUE] ELSE spans[u]]
    BY <1>4 DEF AdminMarkSpans
  <2>2. \A r \in Span : [r EXCEPT !.status = s, !.ended = TRUE].status # "active"
    BY DEF Span
  <2>3. spans[t] \in Span
    OBVIOUS
  <2> QED
    BY <2>1, <2>2, <2>3
<1>5. ~UNCHANGED spans
  OBVIOUS
<1> QED
  BY <1>1, <1>2, <1>3, <1>4, <1>5
     DEF TracingNext, EndTrace, EditSpan, LogIncident, SignInOrOut, AddIncident, EditIncident, SaveIncident,
         DestroyIncident, Die, AdminMarkIncidents

-----------------------------------------------------------------------------
\* ColumnInv is inductive, in the service as a whole.
THEOREM ColumnInvariance == Spec => []ColumnInv
<1>1. Init => ColumnInv
  BY DEF Init, TracingInit, ColumnInv, RowsTyped, CopiesHonest, ColumnsAgree, Holds
<1>2. ColumnInv /\ [Next]_vars => ColumnInv'
  <2> SUFFICES ASSUME ColumnInv, [Next]_vars PROVE ColumnInv'
    OBVIOUS
  <2>1. CASE TracingNext
    BY <2>1, ColumnsKeep
  <2>2. CASE UNCHANGED tracingVars
    BY <2>2 DEF tracingVars, ColumnInv, RowsTyped, CopiesHonest, ColumnsAgree, Holds
  <2> QED
    BY <2>1, <2>2 DEF Next, vars
<1> QED
  BY <1>1, <1>2, PTL DEF Spec

\* Whatever requests and the admin do, in whatever order, the columns of a row
\* that nobody filled in one by one agree.
THEOREM ColumnsAlwaysAgree == Spec => []ColumnsAgree
BY ColumnInvariance, PTL DEF ColumnInv

\* Only a request for "active", or a copy read before a span ended, makes it active.
THEOREM EndedStaysEnded == Spec => EndedStays
<1> DEFINE Reopened ==
      \A t \in Traces :
        /\ spans[t] # Missing /\ spans[t].status # "active"
        /\ spans'[t] # Missing /\ spans'[t].status = "active"
        => \E a \in Agents :
             /\ ~Ready(a) /\ agent[a].id = t /\ agent'[a] = << >>
             /\ \/ agent[a].asked = "active"
                \/ agent[a].asked = "nothing" /\ agent[a].saw = "active"
<1>1. ColumnInv /\ [Next]_vars => [Reopened]_tracingVars
  BY ReopenedByCopy DEF Next, vars, tracingVars
<1>2. Spec => [][Reopened]_tracingVars
  <2> HIDE DEF Reopened
  <2> QED
    BY <1>1, ColumnInvariance, PTL DEF Spec
<1> QED
  BY <1>2 DEF EndedStays
-----------------------------------------------------------------------------
(* The requests that log and count, by what they hold. *)

Logged       == [event : Event, could : SUBSET Found]
LookupJob    == [stage : {"lookup", "insert"}, rest : Seq(Event), kept : Seq(Logged)]
FetchJob     == [stage : {"fetch"}, rest : Seq(Event), kept : Seq(Logged), key : Services \X Buckets]
KeepJob      == [stage : {"keep"}, rest : Seq(Event), kept : Seq(Logged), key : Services \X Buckets,
                 config : Found, could : SUBSET Found]
SaveJob      == [stage : {"save"}, table : Tables, id : RowIds, row : Row]
ConfigureJob == [stage : {"configure"}, service : Services, config : Setting]
CountJob     == [stage : {"group", "errors", "report"}, table : Tables, service : Services,
                 since : Nat, total : Nat, groups : Seq(Nat), errors : Nat]
LogJob       == LookupJob \union FetchJob \union KeepJob
Job          == LogJob \union SaveJob \union ConfigureJob \union CountJob

TrailTyped ==
  /\ rows \in [Tables -> [RowIds -> Row \union {Absent}]]
  /\ settings \in [Services -> Found]
  /\ held \in [Services -> SUBSET Found]
  /\ bucket \in Buckets
  /\ written \in Nat
  /\ clerk \in [Clerks -> Job \union {<< >>}]

\* What a query of _get_cached_config can have found.
Findable == {c \in Found : c # Absent => c.enabled}

\* An event that is kept was allowed by one of the configurations noted with it.
Justified(k) == \E c \in k.could : c \in Findable /\ Allowed(c, k.event)

\* A request that logs looks its next event up under a key that is not of the
\* future, and what it found was in force since that key's five minutes began.
Honest(job) ==
  /\ job.stage \in {"lookup", "fetch", "keep"} => job.rest # << >>
  /\ \A n \in DOMAIN job.kept : Justified(job.kept[n])
  /\ job.stage \in {"fetch", "keep"} =>
       job.key[1] = Head(job.rest).service /\ job.key[2] <= bucket
  /\ job.stage = "keep" =>
       /\ job.config \in job.could /\ job.config \in Findable
       /\ job.key[2] = bucket => job.config \in held[job.key[1]]

\* What has been in force ...
HeldInForce == \A s \in Services : held[s] \subseteq Findable /\ InForce(s) \in held[s]

\* ... the caches ...
CachesFresh ==
  /\ cached = [h \in Homes |-> cached[h]]
  /\ \A h \in Homes : cached[h] = [k \in DOMAIN cached[h] |-> cached[h][k]]
  /\ \A h \in Homes : \A k \in DOMAIN cached[h] :
       /\ k \in Services \X Buckets
       /\ k[2] <= bucket
       /\ k[2] = bucket => cached[h][k] \in held[k[1]]

\* ... and the requests that log.
LogsHonest == \A w \in Clerks : clerk[w] \in LogJob => Honest(clerk[w])

ConfigInv == HeldInForce /\ CachesFresh /\ LogsHonest

\* m and n differ by no more than what was written since.
Near(m, n, late) == m <= n + late /\ n <= m + late

\* The rows a request counts now are as near to its total as those it counted.
Counted(job) ==
  LET late == written - job.since
  IN  /\ job.since <= written
      /\ Near(job.total, Cardinality(Selected(job.table, job.service)), late)
      /\ \A n \in DOMAIN job.groups : Near(job.total, job.groups[n], late)
      /\ job.errors <= job.total + late

CountInv == \A w \in Clerks : clerk[w] \in CountJob => Counted(clerk[w])

TrailInv == TrailTyped /\ ConfigInv /\ CountInv

\* What a thread does follows from the stage of its request.
LEMMA JobAt ==
  ASSUME TrailTyped, NEW w \in Clerks, clerk[w] # << >>
  PROVE  /\ clerk[w].stage \in {"lookup", "insert"} => clerk[w] \in LookupJob
         /\ clerk[w].stage = "fetch" => clerk[w] \in FetchJob
         /\ clerk[w].stage = "keep" => clerk[w] \in KeepJob
         /\ clerk[w].stage = "save" => clerk[w] \in SaveJob
         /\ clerk[w].stage = "configure" => clerk[w] \in ConfigureJob
         /\ clerk[w].stage \in {"group", "errors", "report"} => clerk[w] \in CountJob
<1>1. clerk[w] \in Job
  BY DEF TrailTyped
<1> QED
  BY <1>1 DEF Job, LogJob, LookupJob, FetchJob, KeepJob, SaveJob, ConfigureJob, CountJob

\* No request is of two kinds, and none is << >>.
LEMMA KindsApart ==
  /\ << >> \notin LogJob /\ << >> \notin CountJob
  /\ \A job \in LogJob : job \notin CountJob
  /\ \A job \in SaveJob \union ConfigureJob : job \notin LogJob /\ job \notin CountJob
<1>1. \A job \in LogJob \union CountJob : "stage" \in DOMAIN job
  BY DEF LogJob, LookupJob, FetchJob, KeepJob, CountJob
<1>2. DOMAIN << >> = {}
  OBVIOUS
<1>3. << >> \notin LogJob /\ << >> \notin CountJob
  BY <1>1, <1>2
<1> QED
  BY <1>3 DEF LogJob, LookupJob, FetchJob, KeepJob, SaveJob, ConfigureJob, CountJob

\* Appending to what is kept.
LEMMA AppendKept ==
  ASSUME NEW kept \in Seq(Logged), NEW k \in Logged
  PROVE  /\ Append(kept, k) \in Seq(Logged)
         /\ \A n \in DOMAIN Append(kept, k) :
              (n \in DOMAIN kept /\ Append(kept, k)[n] = kept[n]) \/ Append(kept, k)[n] = k
OBVIOUS

\* Decide goes on with the next event, and keeps this one only if the configuration
\* allows it.
LEMMA DecideMoves ==
  ASSUME NEW w \in Clerks, NEW c, NEW could \in SUBSET Found,
         clerk[w].rest \in Seq(Event), clerk[w].rest # << >>, clerk[w].kept \in Seq(Logged),
         c \in could, c \in Findable, \A n \in DOMAIN clerk[w].kept : Justified(clerk[w].kept[n]),
         Decide(w, c, could)
  PROVE  \E job \in LookupJob :
           /\ Move(w, job)
           /\ job.stage = "lookup" => job.rest # << >>
           /\ \A n \in DOMAIN job.kept : Justified(job.kept[n])
<1> DEFINE old  == clerk[w]
           e    == Head(old.rest)
           next == [event |-> e, could |-> could]
           kept == IF Allowed(c, e) THEN Append(old.kept, next) ELSE old.kept
           st   == IF Tail(old.rest) = << >> THEN "insert" ELSE "lookup"
           job  == [stage |-> st, rest |-> Tail(old.rest), kept |-> kept]
<1>1. e \in Event /\ Tail(old.rest) \in Seq(Event)
  OBVIOUS
<1>2. next \in Logged
  BY <1>1 DEF Logged
<1>3. Allowed(c, e) => Justified(next)
  BY DEF Justified
<1>4. kept \in Seq(Logged) /\ \A n \in DOMAIN kept : Justified(kept[n])
  <2> HIDE DEF next, e
  <2>1. CASE Allowed(c, e)
    BY <2>1, <1>2, <1>3, AppendKept
  <2>2. CASE ~Allowed(c, e)
    BY <2>2
  <2> QED
    BY <2>1, <2>2
<1>5. job \in LookupJob
  <2> HIDE DEF kept
  <2> QED
    BY <1>1, <1>4 DEF LookupJob
<1>6. Move(w, job)
  BY DEF Decide
<1>7. job.stage = "lookup" => job.rest # << >>
  OBVIOUS
<1>8. \A n \in DOMAIN job.kept : Justified(job.kept[n])
  <2> HIDE DEF kept
  <2> QED
    BY <1>4
<1> HIDE DEF job
<1> QED
  BY <1>5, <1>6, <1>7, <1>8

-----------------------------------------------------------------------------
(* What a step of the tables does to each variable. *)

\* Lookup keeps the event, or is going to ask the database under the key of now.
LEMMA LookupMoves ==
  ASSUME TrailTyped, ConfigInv, NEW w \in Clerks, Lookup(w)
  PROVE  \E job \in LogJob : Move(w, job) /\ Honest(job)
<1> DEFINE s == Head(clerk[w].rest).service
           h == HomeOf[w]
<1>1. clerk[w] \in LookupJob /\ clerk[w].stage = "lookup"
  BY JobAt DEF Lookup, At
<1>2. Honest(clerk[w])
  BY <1>1 DEF ConfigInv, LogsHonest, LogJob
<1>3. clerk[w].rest \in Seq(Event) /\ clerk[w].rest # << >> /\ clerk[w].kept \in Seq(Logged)
  BY <1>1, <1>2 DEF LookupJob, Honest
<1>4. s \in Services /\ h \in Homes
  <2>1. Head(clerk[w].rest) \in Event
    BY <1>3
  <2> QED
    BY <2>1, TrailConstants DEF Event
<1>5. CASE Key(s) \in DOMAIN cached[h]
  <2>1. cached[h][Key(s)] \in held[s]
    BY <1>4, <1>5 DEF ConfigInv, CachesFresh, Key
  <2>2. held[s] \in SUBSET Found /\ held[s] \subseteq Findable
    BY <1>4 DEF TrailTyped, ConfigInv, HeldInForce
  <2>3. Decide(w, cached[h][Key(s)], held[s])
    BY <1>5 DEF Lookup
  <2>4. PICK job \in LookupJob :
          /\ Move(w, job)
          /\ job.stage = "lookup" => job.rest # << >>
          /\ \A n \in DOMAIN job.kept : Justified(job.kept[n])
    <3> HIDE DEF s, h
    <3> QED
      BY <1>2, <1>3, <2>1, <2>2, <2>3, DecideMoves DEF Honest
  <2>5. Honest(job)
    BY <2>4 DEF LookupJob, Honest
  <2> QED
    BY <2>4, <2>5 DEF LogJob
<1>6. CASE Key(s) \notin DOMAIN cached[h]
  <2> DEFINE job == [stage |-> "fetch", rest |-> clerk[w].rest, kept |-> clerk[w].kept, key |-> Key(s)]
  <2>1. Move(w, job)
    BY <1>6 DEF Lookup
  <2>2. Key(s) \in Services \X Buckets /\ Key(s)[1] = s /\ Key(s)[2] = bucket
    BY <1>4 DEF Key, TrailTyped
  <2>3. job \in FetchJob
    BY <1>3, <2>2 DEF FetchJob
  <2>4. bucket <= bucket
    BY TrailConstants DEF TrailTyped, Buckets
  <2>5. Honest(job)
    BY <1>2, <1>3, <2>2, <2>4 DEF Honest
  <2> QED
    BY <2>1, <2>3, <2>5 DEF LogJob
<1> QED
  BY <1>5, <1>6

\* What Fetch finds is in force.
LEMMA FetchMoves ==
  ASSUME TrailTyped, ConfigInv, NEW w \in Clerks, Fetch(w)
  PROVE  \E job \in LogJob : Move(w, job) /\ Honest(job)
<1> DEFINE s == Head(clerk[w].rest).service
<1>1. clerk[w] \in FetchJob
  BY JobAt DEF Fetch, At
<1>2. Honest(clerk[w]) /\ clerk[w].stage = "fetch"
  BY <1>1 DEF ConfigInv, LogsHonest, LogJob, FetchJob
<1>3. /\ clerk[w].rest \in Seq(Event) /\ clerk[w].rest # << >> /\ clerk[w].kept \in Seq(Logged)
      /\ clerk[w].key \in Services \X Buckets
  BY <1>1, <1>2 DEF FetchJob, Honest
<1>4. s \in Services
  <2>1. Head(clerk[w].rest) \in Event
    BY <1>3
  <2> QED
    BY <2>1 DEF Event
<1>5. held[s] \in SUBSET Found /\ held[s] \subseteq Findable /\ InForce(s) \in held[s]
  BY <1>4 DEF TrailTyped, ConfigInv, HeldInForce
<1> DEFINE job == [stage |-> "keep", rest |-> clerk[w].rest, kept |-> clerk[w].kept,
                   key |-> clerk[w].key, config |-> InForce(s), could |-> held[s]]
<1>6. Move(w, job)
  BY DEF Fetch
<1>7. job \in KeepJob
  BY <1>3, <1>5 DEF KeepJob
<1>8. Honest(job)
  <2>1. clerk[w].key[1] = s /\ clerk[w].key[2] <= bucket
    BY <1>2 DEF Honest
  <2> QED
    BY <1>2, <1>3, <1>5, <2>1 DEF Honest
<1> QED
  BY <1>6, <1>7, <1>8 DEF LogJob

\* Keep stores what was found, and keeps the event if that allows it.
LEMMA KeepMoves ==
  ASSUME TrailTyped, ConfigInv, NEW w \in Clerks, Keep(w)
  PROVE  /\ \E job \in LogJob : Move(w, job) /\ Honest(job)
         /\ \E k \in Services \X Buckets, c \in Found :
              /\ k[2] <= bucket
              /\ k[2] = bucket => c \in held[k[1]]
              /\ cached' = [cached EXCEPT ![HomeOf[w]] =
                   [x \in DOMAIN @ \union {k} |-> IF x = k THEN c ELSE @[x]]]
<1>1. clerk[w] \in KeepJob
  BY JobAt DEF Keep, At
<1>2. Honest(clerk[w]) /\ clerk[w].stage = "keep"
  BY <1>1 DEF ConfigInv, LogsHonest, LogJob, KeepJob
<1>3. /\ clerk[w].rest \in Seq(Event) /\ clerk[w].rest # << >> /\ clerk[w].kept \in Seq(Logged)
      /\ clerk[w].key \in Services \X Buckets
      /\ clerk[w].config \in Found /\ clerk[w].could \in SUBSET Found
  BY <1>1, <1>2 DEF KeepJob, Honest
<1>4. PICK job \in LookupJob :
        /\ Move(w, job)
        /\ job.stage = "lookup" => job.rest # << >>
        /\ \A n \in DOMAIN job.kept : Justified(job.kept[n])
  <2>1. Decide(w, clerk[w].config, clerk[w].could)
    BY DEF Keep
  <2>2. /\ clerk[w].config \in clerk[w].could /\ clerk[w].config \in Findable
        /\ \A n \in DOMAIN clerk[w].kept : Justified(clerk[w].kept[n])
    BY <1>2 DEF Honest
  <2> QED
    BY <1>3, <2>1, <2>2, DecideMoves
<1>5. Honest(job)
  BY <1>4 DEF LookupJob, Honest
<1>6. \E k \in Services \X Buckets, c \in Found :
        /\ k[2] <= bucket
        /\ k[2] = bucket => c \in held[k[1]]
        /\ cached' = [cached EXCEPT ![HomeOf[w]] =
             [x \in DOMAIN @ \union {k} |-> IF x = k THEN c ELSE @[x]]]
  <2> DEFINE k == clerk[w].key
             c == clerk[w].config
  <2>1. k[2] <= bucket /\ (k[2] = bucket => c \in held[k[1]])
    BY <1>2 DEF Honest
  <2>2. cached' = [cached EXCEPT ![HomeOf[w]] =
          [x \in DOMAIN @ \union {k} |-> IF x = k THEN c ELSE @[x]]]
    BY DEF Keep
  <2>3. k \in Services \X Buckets /\ c \in Found
    BY <1>3
  <2> HIDE DEF k, c
  <2> QED
    BY <2>1, <2>2, <2>3
<1> QED
  BY <1>4, <1>5, <1>6 DEF LogJob

\* A statement that writes the events that are kept gives rows to as many
\* identifiers, all of them free, as it counts.
LEMMA InsertMoves ==
  ASSUME TrailTyped, NEW w \in Clerks, Insert(w)
  PROVE  /\ Leave(w)
         /\ \/ UNCHANGED <<rows, written>>
            \/ \E n \in Nat, D \in SUBSET RowIds, new \in [RowIds -> Row \union {Absent}] :
                 /\ Cardinality(D) <= n
                 /\ \A i \in RowIds \ D : new[i] = rows["audit_logs"][i]
                 /\ rows' = [rows EXCEPT !["audit_logs"] = new]
                 /\ written' = written + n
<1> DEFINE kept   == clerk[w].kept
           events == [n \in DOMAIN kept |-> kept[n].event]
           t      == "audit_logs"
<1>1. kept \in Seq(Logged)
  BY JobAt DEF Insert, At, LookupJob
<1>2. DOMAIN events = 1 .. Len(kept) /\ Len(kept) \in Nat
  BY <1>1
<1>3. events \in [1 .. Len(kept) -> Event]
  <2> SUFFICES ASSUME NEW n \in 1 .. Len(kept) PROVE kept[n].event \in Event
    BY <1>2
  <2>1. kept[n] \in Logged
    BY <1>1
  <2> QED
    BY <2>1 DEF Logged
<1>4. events \in Seq(Event) /\ Len(events) = Len(kept)
  BY <1>2, <1>3
<1> HIDE DEF events, kept
<1>5. ASSUME NEW ids \in [DOMAIN events -> Unused(t)], rows' = Stored(t, events, ids),
             written' = written + Len(events)
      PROVE  \E n \in Nat, D \in SUBSET RowIds, new \in [RowIds -> Row \union {Absent}] :
               /\ Cardinality(D) <= n
               /\ \A i \in RowIds \ D : new[i] = rows[t][i]
               /\ rows' = [rows EXCEPT ![t] = new]
               /\ written' = written + n
  <2> DEFINE D   == {ids[n] : n \in DOMAIN ids}
             at(i) == CHOOSE n \in DOMAIN ids : ids[n] = i
             new == [i \in RowIds |->
               IF \E n \in DOMAIN ids : ids[n] = i
                 THEN [service |-> events[at(i)].service, error |-> events[at(i)].error]
                 ELSE rows[t][i]]
  <2>1. D \in SUBSET RowIds
    BY DEF Unused
  <2>2. DOMAIN ids = 1 .. Len(kept)
    BY <1>2
  <2>3. Cardinality(D) <= Len(kept)
    <3>1. IsFiniteSet(DOMAIN ids) /\ Cardinality(DOMAIN ids) = Len(kept)
      <4>1. /\ IsFiniteSet(1 .. Len(kept))
            /\ Cardinality(1 .. Len(kept)) = IF 1 > Len(kept) THEN 0 ELSE Len(kept) - 1 + 1
        BY <1>2, FS_Interval
      <4> QED
        BY <1>2, <2>2, <4>1
    <3>2. ids \in Surjection(DOMAIN ids, D)
      BY DEF Surjection
    <3> HIDE DEF D
    <3> QED
      BY <3>1, <3>2, FS_Surjection
  <2>4. t \in Tables
    BY TrailConstants
  <2>5. new \in [RowIds -> Row \union {Absent}]
    <3> SUFFICES ASSUME NEW i \in RowIds PROVE new[i] \in Row \union {Absent}
      OBVIOUS
    <3>1. CASE \E n \in DOMAIN ids : ids[n] = i
      <4>1. at(i) \in DOMAIN events
        BY <3>1, <1>2
      <4>2. events[at(i)] \in Event
        BY <4>1, <1>2, <1>3
      <4>3. new[i] = [service |-> events[at(i)].service, error |-> events[at(i)].error]
        BY <3>1
      <4> HIDE DEF new, at
      <4> QED
        BY <4>2, <4>3 DEF Event, Row
    <3>2. CASE ~\E n \in DOMAIN ids : ids[n] = i
      BY <3>2, <2>4 DEF TrailTyped
    <3> QED
      BY <3>1, <3>2
  <2>6. \A i \in RowIds \ D : new[i] = rows[t][i]
    OBVIOUS
  <2>7. rows' = [rows EXCEPT ![t] = new]
    BY <1>5 DEF Stored
  <2> HIDE DEF D, new
  <2> QED
    BY <1>2, <1>4, <1>5, <2>1, <2>3, <2>5, <2>6, <2>7
<1> QED
  BY <1>5 DEF Insert, events, kept

\* Every other write of rows is of one of them.
LEMMA PutMoves ==
  ASSUME TrailTyped, NEW t \in Tables, NEW i \in RowIds, NEW r \in Row \union {Absent}, Put(t, i, r)
  PROVE  \E n \in Nat, D \in SUBSET RowIds, new \in [RowIds -> Row \union {Absent}] :
           /\ Cardinality(D) <= n
           /\ \A x \in RowIds \ D : new[x] = rows[t][x]
           /\ rows' = [rows EXCEPT ![t] = new]
           /\ written' = written + n
<1> DEFINE new == [rows[t] EXCEPT ![i] = r]
<1>1. new \in [RowIds -> Row \union {Absent}]
  BY DEF TrailTyped
<1>2. Cardinality({i}) = 1
  BY FS_Singleton
<1>3. {i} \in SUBSET RowIds /\ \A x \in RowIds \ {i} : new[x] = rows[t][x]
  BY DEF TrailTyped
<1>4. rows' = [rows EXCEPT ![t] = new] /\ written' = written + 1
  BY DEF Put
<1> HIDE DEF new
<1>5. 1 \in Nat /\ 1 <= 1
  OBVIOUS
<1> QED
  BY <1>1, <1>2, <1>3, <1>4, <1>5

\* So a step gives a value to at most as many rows, of one table, as it counts.
LEMMA RowsMove ==
  ASSUME TrailTyped, TrailNext
  PROVE  \/ UNCHANGED <<rows, written>>
         \/ \E t \in Tables, n \in Nat, D \in SUBSET RowIds, new \in [RowIds -> Row \union {Absent}] :
              /\ Cardinality(D) <= n
              /\ \A x \in RowIds \ D : new[x] = rows[t][x]
              /\ rows' = [rows EXCEPT ![t] = new]
              /\ written' = written + n
<1> DEFINE Wrote ==
      \E t \in Tables, n \in Nat, D \in SUBSET RowIds, new \in [RowIds -> Row \union {Absent}] :
        /\ Cardinality(D) <= n
        /\ \A x \in RowIds \ D : new[x] = rows[t][x]
        /\ rows' = [rows EXCEPT ![t] = new]
        /\ written' = written + n
<1>1. ASSUME NEW t \in Tables, NEW i \in RowIds, NEW r \in Row \union {Absent}, Put(t, i, r)
      PROVE  Wrote
  BY <1>1, PutMoves
<1>2. ASSUME NEW w \in Clerks, Insert(w) PROVE UNCHANGED <<rows, written>> \/ Wrote
  <2>1. "audit_logs" \in Tables
    BY TrailConstants
  <2> QED
    BY <1>2, <2>1, InsertMoves
<1> HIDE DEF Wrote
<1>3. ASSUME NEW w \in Clerks, CreateRow(w) PROVE Wrote
  BY <1>1, <1>3 DEF CreateRow, Unused
<1>4. ASSUME NEW w \in Clerks, RecordMetric(w) PROVE UNCHANGED <<rows, written>> \/ Wrote
  <2>1. \A s \in Services : [service |-> s, error |-> FALSE] \in Row
    BY DEF Row
  <2> QED
    BY <1>1, <1>4, <2>1 DEF RecordMetric, Unused
<1>5. ASSUME NEW w \in Clerks, LogApiCall(w) PROVE UNCHANGED <<rows, written>> \/ Wrote
  BY <1>1, <1>5 DEF LogApiCall, Unused
<1>6. ASSUME NEW w \in Clerks, DestroyRow(w) PROVE Wrote
  BY <1>1, <1>6 DEF DestroyRow
<1>7. ASSUME NEW w \in Clerks, SaveRow(w) PROVE Wrote
  <2>1. clerk[w] \in SaveJob
    BY <1>7, JobAt DEF SaveRow, At
  <2> QED
    BY <1>1, <1>7, <2>1 DEF SaveRow, SaveJob
<1>8. ASSUME \/ Tick
             \/ \E h \in Homes : Restart(h)
             \/ \E w \in Clerks :
                  \/ LogEvents(w) \/ Lookup(w) \/ Fetch(w) \/ Keep(w) \/ TrackChange(w) \/ EditRow(w)
                  \/ Configure(w) \/ Reconfigure(w) \/ SaveConfiguration(w) \/ DestroyConfiguration(w)
                  \/ Count(w) \/ Group(w) \/ CountErrors(w) \/ Answer(w)
      PROVE  UNCHANGED <<rows, written>>
  BY <1>8
     DEF Tick, Restart, LogEvents, Lookup, Fetch, Keep, TrackChange, EditRow, Configure, Reconfigure,
         SaveConfiguration, DestroyConfiguration, Count, Group, CountErrors, Answer
<1>9. UNCHANGED <<rows, written>> \/ Wrote
  BY <1>2, <1>3, <1>4, <1>5, <1>6, <1>7, <1>8 DEF TrailNext
<1> QED
  BY <1>9 DEF Wrote

\* A write of a configuration adds it to what has been in force.
LEMMA ConfiguredMoves ==
  ASSUME TrailTyped, HeldInForce, NEW s \in Services, NEW c \in Found, Configured(s, c)
  PROVE  /\ settings' \in [Services -> Found]
         /\ held' \in [Services -> SUBSET Found]
         /\ \A x \in Services : held[x] \subseteq held'[x]
         /\ HeldInForce'
<1>1. Enabled(c) \in Found /\ Enabled(c) \in Findable
  BY DEF Enabled, Found, Findable
<1>2. settings' = [settings EXCEPT ![s] = c] /\ held' = [held EXCEPT ![s] = @ \union {Enabled(c)}]
  BY DEF Configured
<1>3. settings' \in [Services -> Found] /\ held' \in [Services -> SUBSET Found]
  BY <1>1, <1>2 DEF TrailTyped
<1>4. \A x \in Services : held[x] \subseteq held'[x]
  BY <1>2 DEF TrailTyped
<1>5. ASSUME NEW x \in Services
      PROVE  held'[x] \subseteq Findable /\ Enabled(settings'[x]) \in held'[x]
  <2>1. CASE x = s
    BY <1>1, <1>2, <2>1 DEF TrailTyped, HeldInForce
  <2>2. CASE x # s
    BY <1>2, <2>2 DEF TrailTyped, HeldInForce, InForce
  <2> QED
    BY <2>1, <2>2
<1> QED
  BY <1>3, <1>4, <1>5 DEF HeldInForce, InForce

\* What has been in force only grows, until the next five minutes begin.
LEMMA TimeMoves ==
  ASSUME TrailTyped, HeldInForce, TrailNext
  PROVE  /\ settings' \in [Services -> Found]
         /\ held' \in [Services -> SUBSET Found]
         /\ bucket' \in Buckets
         /\ HeldInForce'
         /\ \/ bucket' = bucket /\ \A s \in Services : held[s] \subseteq held'[s]
            \/ bucket' = bucket + 1 /\ UNCHANGED <<cached, clerk>>
<1>1. CASE Tick
  <2>1. bucket' \in Buckets
    BY <1>1, TrailConstants DEF Tick, TrailTyped, Buckets
  <2>2. \A s \in Services : InForce(s) \in Found /\ InForce(s) \in Findable
    BY DEF HeldInForce, TrailTyped
  <2>3. held' = [s \in Services |-> {InForce(s)}] /\ settings' = settings
    BY <1>1 DEF Tick
  <2>4. HeldInForce'
    BY <2>2, <2>3 DEF HeldInForce, InForce
  <2> QED
    BY <1>1, <2>1, <2>2, <2>3, <2>4 DEF Tick, TrailTyped
<1>2. ASSUME NEW w \in Clerks, Configure(w) \/ SaveConfiguration(w) \/ DestroyConfiguration(w)
      PROVE  /\ bucket' = bucket
             /\ \E s \in Services, c \in Found : Configured(s, c)
  <2>1. ASSUME SaveConfiguration(w)
        PROVE  clerk[w].service \in Services /\ clerk[w].config \in Found
    <3>1. clerk[w] \in ConfigureJob
      BY <2>1, JobAt DEF SaveConfiguration, At
    <3> QED
      BY <3>1 DEF ConfigureJob, Found
  <2>2. Setting \subseteq Found /\ Absent \in Found
    BY DEF Found
  <2> QED
    BY <1>2, <2>1, <2>2 DEF Configure, SaveConfiguration, DestroyConfiguration
<1>3. ASSUME NEW w \in Clerks, Configure(w) \/ SaveConfiguration(w) \/ DestroyConfiguration(w)
      PROVE  /\ settings' \in [Services -> Found]
             /\ held' \in [Services -> SUBSET Found]
             /\ \A x \in Services : held[x] \subseteq held'[x]
             /\ HeldInForce'
             /\ bucket' = bucket
  BY <1>2, <1>3, ConfiguredMoves
<1>4. ASSUME \/ \E h \in Homes : Restart(h)
             \/ \E w \in Clerks :
                  \/ LogEvents(w) \/ Lookup(w) \/ Fetch(w) \/ Keep(w) \/ Insert(w)
                  \/ CreateRow(w) \/ RecordMetric(w) \/ LogApiCall(w) \/ TrackChange(w)
                  \/ DestroyRow(w) \/ EditRow(w) \/ SaveRow(w) \/ Reconfigure(w)
                  \/ Count(w) \/ Group(w) \/ CountErrors(w) \/ Answer(w)
      PROVE  UNCHANGED <<settings, bucket, held>>
  BY <1>4
     DEF Restart, LogEvents, Lookup, Fetch, Keep, Insert, CreateRow, RecordMetric, LogApiCall,
         TrackChange, DestroyRow, EditRow, SaveRow, Reconfigure, Count, Group, CountErrors, Answer
<1>5. ASSUME UNCHANGED <<settings, bucket, held>>
      PROVE  /\ settings' \in [Services -> Found]
             /\ held' \in [Services -> SUBSET Found]
             /\ \A x \in Services : held[x] \subseteq held'[x]
             /\ HeldInForce'
             /\ bucket' = bucket
  BY <1>5 DEF TrailTyped, HeldInForce, InForce
<1>6. bucket \in Buckets
  BY DEF TrailTyped
<1> QED
  BY <1>1, <1>3, <1>4, <1>5, <1>6 DEF TrailNext

-----------------------------------------------------------------------------
(* The caches: an entry of the current five minutes was in force within them. *)

LEMMA CachesKeep ==
  ASSUME TrailTyped, ConfigInv, TrailNext
  PROVE  CachesFresh'
<1>1. HeldInForce
  BY DEF ConfigInv
<1>2. /\ bucket \in Nat /\ bucket' \in Nat
      /\ \/ bucket' = bucket /\ \A s \in Services : held[s] \subseteq held'[s]
         \/ bucket' = bucket + 1 /\ UNCHANGED <<cached, clerk>>
  BY <1>1, TimeMoves DEF TrailTyped, Buckets
<1>3. /\ cached = [h \in Homes |-> cached[h]]
      /\ \A h \in Homes : cached[h] = [k \in DOMAIN cached[h] |-> cached[h][k]]
      /\ \A h \in Homes : \A k \in DOMAIN cached[h] :
           /\ k \in Services \X Buckets
           /\ k[2] \in Nat /\ k[1] \in Services
           /\ k[2] <= bucket
           /\ k[2] = bucket => cached[h][k] \in held[k[1]]
  BY DEF ConfigInv, CachesFresh, Buckets
<1>4. CASE UNCHANGED cached
  <2>1. ASSUME NEW h \in Homes, NEW k \in DOMAIN cached[h]
        PROVE  k[2] <= bucket' /\ (k[2] = bucket' => cached[h][k] \in held'[k[1]])
    <3>1. CASE bucket' = bucket + 1
      BY <1>2, <1>3, <3>1
    <3>2. CASE bucket' = bucket /\ \A s \in Services : held[s] \subseteq held'[s]
      BY <1>3, <3>2
    <3> QED
      BY <1>2, <3>1, <3>2
  <2> QED
    BY <1>3, <1>4, <2>1 DEF CachesFresh
<1>5. ASSUME NEW w \in Clerks, Keep(w) PROVE CachesFresh'
  <2> DEFINE p == HomeOf[w]
  <2>1. p \in Homes
    BY TrailConstants
  <2>2. PICK k \in Services \X Buckets, c \in Found :
          /\ k[2] <= bucket
          /\ k[2] = bucket => c \in held[k[1]]
          /\ cached' = [cached EXCEPT ![p] =
               [x \in DOMAIN @ \union {k} |-> IF x = k THEN c ELSE @[x]]]
    BY <1>5, KeepMoves
  <2>3. bucket' = bucket /\ held' = held
    BY <1>5 DEF Keep
  <2> DEFINE new == [x \in DOMAIN cached[p] \union {k} |-> IF x = k THEN c ELSE cached[p][x]]
  <2>4. /\ new = [x \in DOMAIN new |-> new[x]]
        /\ \A x \in DOMAIN new : /\ x \in Services \X Buckets
                                 /\ x[2] <= bucket
                                 /\ x[2] = bucket => new[x] \in held[x[1]]
    BY <1>3, <2>1, <2>2
  <2>5. cached' = [cached EXCEPT ![p] = new]
    BY <2>2
  <2> HIDE DEF new, p
  <2>6. \A h \in Homes : cached'[h] = IF h = p THEN new ELSE cached[h]
    BY <1>3, <2>5
  <2>7. cached' = [h \in Homes |-> cached'[h]]
    BY <1>3, <2>5
  <2> QED
    BY <1>3, <2>3, <2>4, <2>6, <2>7 DEF CachesFresh
<1>6. ASSUME NEW h \in Homes, Restart(h) PROVE CachesFresh'
  <2>1. cached' = [cached EXCEPT ![h] = << >>] /\ bucket' = bucket /\ held' = held
    BY <1>6 DEF Restart
  <2>2. cached' = [x \in Homes |-> cached'[x]] /\ \A x \in Homes : cached'[x] = IF x = h THEN << >> ELSE cached[x]
    BY <1>3, <2>1
  <2>3. << >> = [k \in DOMAIN << >> |-> << >>[k]] /\ DOMAIN << >> = {}
    OBVIOUS
  <2> QED
    BY <1>3, <2>1, <2>2, <2>3 DEF CachesFresh
<1> QED
  BY <1>4, <1>5, <1>6
     DEF TrailNext, Tick, LogEvents, Lookup, Fetch, Insert, CreateRow, RecordMetric, LogApiCall,
         TrackChange, DestroyRow, EditRow, SaveRow, Configure, Reconfigure, SaveConfiguration,
         DestroyConfiguration, Count, Group, CountErrors, Answer

-----------------------------------------------------------------------------
(* What a request becomes. *)

\* The rows that are counted, and those among them that are errors.
LEMMA SelectedFinite ==
  ASSUME NEW t, NEW s
  PROVE  /\ IsFiniteSet(Selected(t, s)) /\ Cardinality(Selected(t, s)) \in Nat
         /\ Cardinality(Errors(t, s)) \in Nat
         /\ Cardinality(Errors(t, s)) <= Cardinality(Selected(t, s))
<1>1. Selected(t, s) \in SUBSET RowIds /\ Errors(t, s) \in SUBSET Selected(t, s)
  BY DEF Selected, Errors
<1>2. IsFiniteSet(RowIds)
  BY TrailConstants
<1> QED
  BY <1>1, <1>2, FS_Subset, FS_CardinalityType

\* The statement with the totals.
LEMMA CountMoves ==
  ASSUME TrailTyped, NEW w \in Clerks, Count(w)
  PROVE  \E job \in CountJob : Move(w, job) /\ Counted(job)
<1>1. PICK t \in Tables \intersect DOMAIN Statistics, s \in Services :
        Move(w, [stage |-> "group", table |-> t, service |-> s, since |-> written,
                 total |-> Cardinality(Selected(t, s)),
                 groups |-> << >>, errors |-> 0])
  BY DEF Count
<1> DEFINE total == Cardinality(Selected(t, s))
           job == [stage |-> "group", table |-> t, service |-> s, since |-> written,
                   total |-> total, groups |-> << >>, errors |-> 0]
<1>2. total \in Nat /\ written \in Nat
  BY SelectedFinite DEF TrailTyped
<1>3. /\ job.since = written /\ job.total = total /\ job.groups = << >> /\ job.errors = 0
      /\ job.table = t /\ job.service = s /\ DOMAIN job.groups = {}
  OBVIOUS
<1>4. job \in CountJob
  <2>1. << >> \in Seq(Nat) /\ 0 \in Nat
    OBVIOUS
  <2> HIDE DEF total
  <2> QED
    BY <1>2, <2>1 DEF CountJob
<1>5. Counted(job)
  <2> HIDE DEF job
  <2> QED
    BY <1>2, <1>3 DEF Counted, Near
<1>6. Move(w, job)
  BY <1>1
<1> HIDE DEF job
<1> QED
  BY <1>4, <1>5, <1>6

\* A grouping adds up to what its table holds now.
LEMMA GroupMoves ==
  ASSUME TrailTyped, CountInv, NEW w \in Clerks, Group(w)
  PROVE  \E job \in CountJob : Move(w, job) /\ Counted(job)
<1> DEFINE old == clerk[w]
           now == Cardinality(Selected(old.table, old.service))
<1>1. old \in CountJob /\ Counted(old)
  BY JobAt DEF Group, At, CountInv
<1>2. now \in Nat /\ written \in Nat
  BY SelectedFinite DEF TrailTyped
<1>3. PICK st \in {"group", "errors", "report"} :
        Move(w, [old EXCEPT !.groups = Append(@, now), !.stage = st])
  BY DEF Group
<1> DEFINE job == [old EXCEPT !.groups = Append(@, now), !.stage = st]
<1> HIDE DEF now
<1>4. old.since \in Nat /\ old.total \in Nat /\ old.groups \in Seq(Nat) /\ old.errors \in Nat
  BY <1>1 DEF CountJob
<1>5. Append(old.groups, now) \in Seq(Nat)
  BY <1>2, <1>4
<1>6. job \in CountJob
  <2> HIDE DEF old
  <2> QED
    BY <1>1, <1>2, <1>5 DEF CountJob
<1>7. \A n \in DOMAIN Append(old.groups, now) :
        \/ n \in DOMAIN old.groups /\ Append(old.groups, now)[n] = old.groups[n]
        \/ Append(old.groups, now)[n] = now
  BY <1>2, <1>4
<1>8. /\ job.since = old.since /\ job.total = old.total /\ job.errors = old.errors
      /\ job.table = old.table /\ job.service = old.service
      /\ job.groups = Append(old.groups, now)
  <2> HIDE DEF old
  <2> QED
    BY <1>1 DEF CountJob
<1>9. Counted(job)
  <2> HIDE DEF job, old
  <2>1. /\ old.since <= written
        /\ Near(old.total, now, written - old.since)
        /\ \A n \in DOMAIN old.groups : Near(old.total, old.groups[n], written - old.since)
        /\ old.errors <= old.total + (written - old.since)
    BY <1>1 DEF Counted, now
  <2>2. \A n \in DOMAIN job.groups : Near(old.total, job.groups[n], written - old.since)
    BY <1>7, <1>8, <2>1
  <2> QED
    BY <1>8, <2>1, <2>2 DEF Counted, now
<1>10. Move(w, job)
  BY <1>3
<1> HIDE DEF job
<1> QED
  BY <1>6, <1>9, <1>10

\* The errors are among the rows.
LEMMA CountErrorsMoves ==
  ASSUME TrailTyped, CountInv, NEW w \in Clerks, CountErrors(w)
  PROVE  \E job \in CountJob : Move(w, job) /\ Counted(job)
<1> DEFINE old  == clerk[w]
           now  == Cardinality(Selected(old.table, old.service))
           some == Cardinality(Errors(old.table, old.service))
           job  == [old EXCEPT !.stage = "report", !.errors = some]
<1>1. old \in CountJob /\ Counted(old)
  BY JobAt DEF CountErrors, At, CountInv
<1>2. now \in Nat /\ some \in Nat /\ some <= now /\ written \in Nat
  BY SelectedFinite DEF TrailTyped
<1>3. Move(w, job)
  BY DEF CountErrors
<1>4. some = Cardinality(Errors(old.table, old.service)) /\ now = Cardinality(Selected(old.table, old.service))
  OBVIOUS
<1> HIDE DEF now, some
<1>5. old.since \in Nat /\ old.total \in Nat /\ old.groups \in Seq(Nat)
  BY <1>1 DEF CountJob
<1>6. job \in CountJob
  <2> HIDE DEF old
  <2> QED
    BY <1>1, <1>2, <1>5 DEF CountJob
<1>7. /\ job.since = old.since /\ job.total = old.total /\ job.errors = some
      /\ job.table = old.table /\ job.service = old.service /\ job.groups = old.groups
  <2> HIDE DEF old
  <2> QED
    BY <1>1 DEF CountJob
<1>8. Counted(job)
  <2> HIDE DEF job, old
  <2>1. /\ old.since <= written
        /\ Near(old.total, now, written - old.since)
        /\ \A n \in DOMAIN old.groups : Near(old.total, old.groups[n], written - old.since)
    BY <1>1, <1>4 DEF Counted
  <2>2. some <= old.total + (written - old.since)
    BY <1>2, <1>5, <2>1 DEF Near
  <2> QED
    BY <1>4, <1>7, <2>1, <2>2 DEF Counted
<1> HIDE DEF job
<1> QED
  BY <1>3, <1>6, <1>8

\* The requests that neither log nor count.
LEMMA OthersMove ==
  ASSUME TrailTyped, NEW w \in Clerks, LogEvents(w) \/ EditRow(w) \/ Reconfigure(w)
  PROVE  \E job \in Job :
           /\ Move(w, job)
           /\ job \in LogJob => Honest(job)
           /\ job \notin CountJob
<1>1. ASSUME LogEvents(w)
      PROVE  \E job \in LookupJob : Move(w, job) /\ Honest(job)
  <2>1. PICK b \in Batches : Move(w, [stage |-> "lookup", rest |-> b, kept |-> << >>])
    BY <1>1 DEF LogEvents
  <2> DEFINE job == [stage |-> "lookup", rest |-> b, kept |-> << >>]
  <2>2. b \in Seq(Event) /\ b # << >> /\ << >> \in Seq(Logged)
    BY TrailConstants
  <2>3. job \in LookupJob
    BY <2>2 DEF LookupJob
  <2>4. Honest(job)
    BY <2>2 DEF Honest
  <2> HIDE DEF job
  <2> QED
    BY <2>1, <2>3, <2>4 DEF job
<1>2. ASSUME EditRow(w)
      PROVE  \E job \in SaveJob : Move(w, job)
  <2>1. PICK t \in Tables, i \in RowIds :
          \E r \in Edited(t, rows[t][i]) : Move(w, [stage |-> "save", table |-> t, id |-> i, row |-> r])
    BY <1>2 DEF EditRow
  <2>2. PICK r \in Row : Move(w, [stage |-> "save", table |-> t, id |-> i, row |-> r])
    BY <2>1 DEF Edited
  <2>3. [stage |-> "save", table |-> t, id |-> i, row |-> r] \in SaveJob
    BY DEF SaveJob
  <2> QED
    BY <2>2, <2>3
<1>3. ASSUME Reconfigure(w)
      PROVE  \E job \in ConfigureJob : Move(w, job)
  <2>1. PICK s \in Services, c \in Setting : Move(w, [stage |-> "configure", service |-> s, config |-> c])
    BY <1>3 DEF Reconfigure
  <2>2. [stage |-> "configure", service |-> s, config |-> c] \in ConfigureJob
    BY DEF ConfigureJob
  <2> QED
    BY <2>1, <2>2
<1> QED
  BY <1>1, <1>2, <1>3, KindsApart DEF Job, LogJob

\* So a request that begins or goes on is as it should be, by the tables as they
\* are.
LEMMA ClerkMoves ==
  ASSUME TrailInv, TrailNext
  PROVE  \/ UNCHANGED clerk
         \/ \E h \in Homes : clerk' = [w \in Clerks |-> IF HomeOf[w] = h THEN << >> ELSE clerk[w]]
         \/ \E w \in Clerks, job \in Job \union {<< >>} :
              /\ Move(w, job)
              /\ job \in LogJob => Honest(job)
              /\ job \in CountJob => UNCHANGED <<rows, written>> /\ Counted(job)
<1> USE DEF TrailInv
<1> DEFINE Moved ==
      \E w \in Clerks, job \in Job \union {<< >>} :
        /\ Move(w, job)
        /\ job \in LogJob => Honest(job)
        /\ job \in CountJob => UNCHANGED <<rows, written>> /\ Counted(job)
<1>1. ASSUME NEW w \in Clerks, Lookup(w) \/ Fetch(w) \/ Keep(w) PROVE Moved
  <2>1. PICK job \in LogJob : Move(w, job) /\ Honest(job)
    BY <1>1, LookupMoves, FetchMoves, KeepMoves
  <2>2. job \in Job /\ job \notin CountJob
    BY KindsApart DEF Job
  <2> QED
    BY <2>1, <2>2
<1>2. ASSUME NEW w \in Clerks, Count(w) \/ Group(w) \/ CountErrors(w) PROVE Moved
  <2>1. PICK job \in CountJob : Move(w, job) /\ Counted(job)
    BY <1>2, CountMoves, GroupMoves, CountErrorsMoves
  <2>2. job \in Job /\ job \notin LogJob
    BY KindsApart DEF Job
  <2>3. UNCHANGED <<rows, written>>
    BY <1>2 DEF Count, Group, CountErrors
  <2> QED
    BY <2>1, <2>2, <2>3
<1>3. ASSUME NEW w \in Clerks, LogEvents(w) \/ EditRow(w) \/ Reconfigure(w) PROVE Moved
  BY <1>3, OthersMove
<1>4. ASSUME NEW w \in Clerks, Leave(w) PROVE Moved
  BY <1>4, KindsApart DEF Leave
<1> HIDE DEF Moved
<1>5. ASSUME \E w \in Clerks : \/ LogEvents(w) \/ Lookup(w) \/ Fetch(w) \/ Keep(w) \/ Insert(w)
                               \/ EditRow(w) \/ SaveRow(w) \/ Reconfigure(w) \/ SaveConfiguration(w)
                               \/ Count(w) \/ Group(w) \/ CountErrors(w) \/ Answer(w)
      PROVE  Moved
  BY <1>1, <1>2, <1>3, <1>4, <1>5 DEF Insert, SaveRow, SaveConfiguration, Answer
<1>6. ASSUME \/ Tick
             \/ \E w \in Clerks :
                  \/ CreateRow(w) \/ RecordMetric(w) \/ LogApiCall(w) \/ TrackChange(w)
                  \/ DestroyRow(w) \/ Configure(w) \/ DestroyConfiguration(w)
      PROVE  UNCHANGED clerk
  BY <1>6
     DEF Tick, CreateRow, RecordMetric, LogApiCall, TrackChange, DestroyRow, Configure,
         DestroyConfiguration
<1>7. ASSUME NEW h \in Homes, Restart(h)
      PROVE  clerk' = [w \in Clerks |-> IF HomeOf[w] = h THEN << >> ELSE clerk[w]]
  BY <1>7 DEF Restart
<1>8. \/ UNCHANGED clerk
      \/ \E h \in Homes : clerk' = [w \in Clerks |-> IF HomeOf[w] = h THEN << >> ELSE clerk[w]]
      \/ Moved
  BY <1>5, <1>6, <1>7 DEF TrailNext
<1> QED
  BY <1>8 DEF Moved

-----------------------------------------------------------------------------
(* What a request holds stays true while others move. *)

\* Adding the elements of D to a set, or some of them.
LEMMA AtMostMore ==
  ASSUME NEW A, NEW B, NEW D, IsFiniteSet(A), IsFiniteSet(D), B \subseteq A \union D
  PROVE  Cardinality(B) <= Cardinality(A) + Cardinality(D)
<1>1. IsFiniteSet(A \union D) /\ Cardinality(A \intersect D) \in Nat
      /\ Cardinality(A \union D) = Cardinality(A) + Cardinality(D) - Cardinality(A \intersect D)
  <2>1. IsFiniteSet(A \intersect D)
    <3>1. A \intersect D \in SUBSET A
      OBVIOUS
    <3> QED
      BY <3>1, FS_Subset
  <2> QED
    BY <2>1, FS_Union, FS_CardinalityType
<1>2. Cardinality(A) \in Nat /\ Cardinality(D) \in Nat
  BY FS_CardinalityType
<1>3. IsFiniteSet(B) /\ Cardinality(B) <= Cardinality(A \union D)
  BY <1>1, FS_Subset
<1>4. Cardinality(B) \in Nat
  BY <1>3, FS_CardinalityType
<1> QED
  BY <1>1, <1>2, <1>3, <1>4

\* The rows that are counted change by no more than the rows written.
LEMMA SelectedChanges ==
  ASSUME TrailTyped, TrailNext, NEW t \in Tables, NEW s
  PROVE  /\ Cardinality(Selected(t, s)) \in Nat /\ Cardinality(Selected(t, s)') \in Nat
         /\ written \in Nat /\ written' \in Nat /\ written <= written'
         /\ Near(Cardinality(Selected(t, s)), Cardinality(Selected(t, s)'), written' - written)
<1> DEFINE A == Selected(t, s)
           B == Selected(t, s)'
<1>1. A \in SUBSET RowIds /\ B \in SUBSET RowIds /\ IsFiniteSet(RowIds)
  BY TrailConstants DEF Selected
<1>2. IsFiniteSet(A) /\ IsFiniteSet(B) /\ Cardinality(A) \in Nat /\ Cardinality(B) \in Nat
  <2> HIDE DEF A, B
  <2> QED
    BY <1>1, FS_Subset, FS_CardinalityType
<1>3. written \in Nat
  BY DEF TrailTyped
<1>4. CASE UNCHANGED <<rows, written>>
  <2>1. A = B
    BY <1>4 DEF Selected
  <2> HIDE DEF A, B
  <2>2. written' = written /\ written \in Nat /\ Cardinality(B) = Cardinality(A)
    BY <1>3, <1>4, <2>1
  <2>3. Near(Cardinality(A), Cardinality(B), written' - written)
    BY <1>2, <2>2 DEF Near
  <2> QED
    BY <1>2, <2>2, <2>3 DEF A, B
<1>5. ASSUME NEW u \in Tables, NEW n \in Nat, NEW D \in SUBSET RowIds,
             NEW new \in [RowIds -> Row \union {Absent}],
             Cardinality(D) <= n,
             \A x \in RowIds \ D : new[x] = rows[u][x],
             rows' = [rows EXCEPT ![u] = new],
             written' = written + n
      PROVE  /\ written' \in Nat /\ written <= written'
             /\ Near(Cardinality(A), Cardinality(B), written' - written)
  <2>1. IsFiniteSet(D) /\ Cardinality(D) \in Nat
    BY <1>1, FS_Subset, FS_CardinalityType
  <2>2. \A i \in RowIds \ D : rows'[t][i] = rows[t][i]
    BY <1>5 DEF TrailTyped
  <2>3. A \subseteq B \union D /\ B \subseteq A \union D
    BY <2>2 DEF Selected
  <2> HIDE DEF A, B
  <2>4. Cardinality(A) <= Cardinality(B) + Cardinality(D) /\ Cardinality(B) <= Cardinality(A) + Cardinality(D)
    BY <1>2, <2>1, <2>3, AtMostMore
  <2>5. written' \in Nat /\ written <= written' /\ written' - written = n
    BY <1>3, <1>5
  <2> QED
    BY <1>2, <1>5, <2>1, <2>4, <2>5 DEF Near
<1> HIDE DEF A, B
<1>6. /\ written' \in Nat /\ written <= written'
      /\ Near(Cardinality(A), Cardinality(B), written' - written)
  <2>1. CASE UNCHANGED <<rows, written>>
    BY <1>3, <1>4, <2>1 DEF A, B
  <2>2. CASE \E u \in Tables, n \in Nat, D \in SUBSET RowIds, new \in [RowIds -> Row \union {Absent}] :
               /\ Cardinality(D) <= n
               /\ \A x \in RowIds \ D : new[x] = rows[u][x]
               /\ rows' = [rows EXCEPT ![u] = new]
               /\ written' = written + n
    BY <1>5, <2>2
  <2> QED
    BY <2>1, <2>2, RowsMove
<1> QED
  BY <1>2, <1>3, <1>6 DEF A, B

LEMMA CountedLasts ==
  ASSUME TrailTyped, TrailNext, NEW job \in CountJob, Counted(job)
  PROVE  Counted(job)'
<1>1. /\ job.table \in Tables /\ job.since \in Nat /\ job.total \in Nat /\ job.errors \in Nat
      /\ \A n \in DOMAIN job.groups : job.groups[n] \in Nat
  <2>1. job.groups \in Seq(Nat)
    BY DEF CountJob
  <2> QED
    BY <2>1 DEF CountJob
<1> DEFINE a == Cardinality(Selected(job.table, job.service))
           b == Cardinality(Selected(job.table, job.service)')
           late == written - job.since
           more == written' - job.since
<1>2. /\ a \in Nat /\ b \in Nat /\ written \in Nat /\ written' \in Nat /\ written <= written'
      /\ Near(a, b, written' - written)
  BY <1>1, SelectedChanges
<1>3. /\ job.since <= written
      /\ Near(job.total, a, late)
      /\ \A n \in DOMAIN job.groups : Near(job.total, job.groups[n], late)
      /\ job.errors <= job.total + late
  BY DEF Counted
<1> HIDE DEF a, b
<1>4. job.since <= written' /\ late \in Nat /\ more \in Nat /\ late <= more /\ more = late + (written' - written)
  BY <1>1, <1>2, <1>3
<1>5. Near(job.total, b, more)
  <2> HIDE DEF late, more
  <2>1. \A x, y, z, m, n \in Nat : Near(x, y, m) /\ Near(y, z, n) => Near(x, z, m + n)
    BY DEF Near
  <2>2. written' - written \in Nat
    <3>1. \A x, y \in Nat : x <= y => y - x \in Nat
      OBVIOUS
    <3> QED
      BY <1>2, <3>1
  <2> QED
    BY <1>1, <1>2, <1>3, <1>4, <2>1, <2>2
<1>6. \A n \in DOMAIN job.groups : Near(job.total, job.groups[n], more)
  <2> HIDE DEF late, more
  <2> QED
    BY <1>1, <1>3, <1>4 DEF Near
<1>7. job.errors <= job.total + more
  <2> HIDE DEF late, more
  <2> QED
    BY <1>1, <1>3, <1>4
<1> QED
  BY <1>4, <1>5, <1>6, <1>7 DEF Counted, b

LEMMA HonestLasts ==
  ASSUME TrailTyped, HeldInForce, TrailNext, NEW job \in LogJob, Honest(job)
  PROVE  Honest(job)'
<1>1. /\ bucket \in Nat /\ bucket' \in Nat
      /\ \/ bucket' = bucket /\ \A s \in Services : held[s] \subseteq held'[s]
         \/ bucket' = bucket + 1
  BY TimeMoves DEF TrailTyped, Buckets
<1>2. job.stage \in {"fetch", "keep"} => job.key[1] \in Services /\ job.key[2] \in Nat
  BY DEF LogJob, LookupJob, FetchJob, KeepJob, Buckets
<1> QED
  BY <1>1, <1>2 DEF Honest

-----------------------------------------------------------------------------
(* TrailInv is inductive. *)

LEMMA TrailTypesKeep ==
  ASSUME TrailInv, TrailNext
  PROVE  TrailTyped'
<1> USE DEF TrailInv
<1>1. rows' \in [Tables -> [RowIds -> Row \union {Absent}]] /\ written' \in Nat
  <2>1. CASE UNCHANGED <<rows, written>>
    BY <2>1 DEF TrailTyped
  <2>2. CASE \E t \in Tables, n \in Nat, D \in SUBSET RowIds, new \in [RowIds -> Row \union {Absent}] :
               /\ Cardinality(D) <= n
               /\ \A x \in RowIds \ D : new[x] = rows[t][x]
               /\ rows' = [rows EXCEPT ![t] = new]
               /\ written' = written + n
    BY <2>2 DEF TrailTyped
  <2> QED
    BY <2>1, <2>2, RowsMove
<1>2. settings' \in [Services -> Found] /\ held' \in [Services -> SUBSET Found] /\ bucket' \in Buckets
  BY TimeMoves DEF ConfigInv
<1>3. clerk' \in [Clerks -> Job \union {<< >>}]
  BY ClerkMoves DEF TrailTyped, Move
<1> QED
  BY <1>1, <1>2, <1>3 DEF TrailTyped

\* A request of the next state is one of this state, or has just moved.
LEMMA RequestsLast ==
  ASSUME TrailInv, TrailNext, NEW w \in Clerks
  PROVE  /\ clerk'[w] \in LogJob => Honest(clerk'[w])
         /\ clerk'[w] \in CountJob => Counted(clerk'[w])
<1> USE DEF TrailInv
<1>1. CASE UNCHANGED clerk
  BY <1>1 DEF ConfigInv, LogsHonest, CountInv
<1>2. ASSUME NEW h \in Homes, clerk' = [x \in Clerks |-> IF HomeOf[x] = h THEN << >> ELSE clerk[x]]
      PROVE  /\ clerk'[w] \in LogJob => Honest(clerk'[w])
             /\ clerk'[w] \in CountJob => Counted(clerk'[w])
  <2>1. clerk'[w] = << >> \/ clerk'[w] = clerk[w]
    BY <1>2
  <2> QED
    BY <2>1, KindsApart DEF ConfigInv, LogsHonest, CountInv
<1>3. ASSUME NEW v \in Clerks, NEW job \in Job \union {<< >>},
             Move(v, job),
             job \in LogJob => Honest(job),
             job \in CountJob => UNCHANGED <<rows, written>> /\ Counted(job)
      PROVE  /\ clerk'[w] \in LogJob => Honest(clerk'[w])
             /\ clerk'[w] \in CountJob => Counted(clerk'[w])
  <2>1. clerk'[w] = clerk[w] \/ clerk'[w] = job
    BY <1>3 DEF Move, TrailTyped
  <2> QED
    BY <1>3, <2>1 DEF ConfigInv, LogsHonest, CountInv
<1> QED
  BY <1>1, <1>2, <1>3, ClerkMoves

LEMMA TrailKeeps ==
  ASSUME TrailInv, TrailNext
  PROVE  TrailInv'
<1>1. TrailTyped /\ HeldInForce
  BY DEF TrailInv, ConfigInv
<1>2. TrailTyped' /\ HeldInForce' /\ CachesFresh'
  BY <1>1, TrailTypesKeep, TimeMoves, CachesKeep DEF TrailInv
<1>3. LogsHonest'
  <2> SUFFICES ASSUME NEW w \in Clerks, clerk'[w] \in LogJob PROVE Honest(clerk[w])'
    BY DEF LogsHonest
  <2>1. PICK job \in LogJob : job = clerk'[w]
    OBVIOUS
  <2>2. Honest(job)
    BY <2>1, RequestsLast
  <2>3. Honest(job)'
    BY <1>1, <2>2, HonestLasts
  <2> QED
    BY <2>1, <2>3 DEF Honest
<1>4. CountInv'
  <2> SUFFICES ASSUME NEW w \in Clerks, clerk'[w] \in CountJob PROVE Counted(clerk[w])'
    BY DEF CountInv
  <2>1. PICK job \in CountJob : job = clerk'[w]
    OBVIOUS
  <2>2. Counted(job)
    BY <2>1, RequestsLast
  <2>3. Counted(job)'
    BY <1>1, <2>2, CountedLasts
  <2> QED
    BY <2>1, <2>3 DEF Counted, Selected
<1> QED
  BY <1>2, <1>3, <1>4 DEF TrailInv, ConfigInv

LEMMA TrailStarts ==
  ASSUME TrailInit
  PROVE  TrailInv
<1>1. TrailTyped
  BY TrailConstants DEF TrailInit, TrailTyped, Found, Buckets
<1>2. HeldInForce
  BY DEF TrailInit, HeldInForce, Findable, Found, InForce, Enabled
<1>3. CachesFresh
  <2>1. << >> = [k \in DOMAIN << >> |-> << >>[k]] /\ DOMAIN << >> = {}
    OBVIOUS
  <2> QED
    BY <2>1 DEF TrailInit, CachesFresh
<1>4. LogsHonest /\ CountInv
  BY KindsApart DEF TrailInit, LogsHonest, CountInv
<1> QED
  BY <1>1, <1>2, <1>3, <1>4 DEF TrailInv, ConfigInv

\* What the tables, the caches and the requests hold, in the service as a whole.
THEOREM TrailInvariance == Spec => []TrailInv
<1>1. Init => TrailInv
  BY TrailStarts DEF Init
<1>2. TrailInv /\ [Next]_vars => TrailInv'
  <2> SUFFICES ASSUME TrailInv, [Next]_vars PROVE TrailInv'
    OBVIOUS
  <2>1. CASE TrailNext
    BY <2>1, TrailKeeps
  <2>2. CASE UNCHANGED trailVars
    BY <2>2
       DEF trailVars, TrailInv, TrailTyped, ConfigInv, HeldInForce, InForce, CachesFresh,
           LogsHonest, Honest, CountInv, Counted, Selected
  <2> QED
    BY <2>1, <2>2 DEF Next, vars
<1> QED
  BY <1>1, <1>2, PTL DEF Spec

\* A change of the configuration of a service is obeyed by every process after at
\* most five minutes, although no cache hears of it: for any number of threads,
\* processes, services and batches.
THEOREM LoggedOnlyAsConfigured == Spec => []LoggedAsConfigured
<1>1. TrailInv => LoggedAsConfigured
  <2> SUFFICES ASSUME TrailInv, NEW w \in Clerks, ~Free(w), "kept" \in DOMAIN clerk[w],
                      NEW n \in DOMAIN clerk[w].kept
               PROVE  \E c \in clerk[w].kept[n].could :
                        /\ c # Absent /\ c.enabled
                        /\ c.errorsOnly => clerk[w].kept[n].event.error
                        /\ c.allTypes \/ clerk[w].kept[n].event.listed
    BY DEF LoggedAsConfigured
  <2>1. clerk[w] \in Job
    BY DEF TrailInv, TrailTyped, Free
  <2>2. clerk[w] \in LogJob
    BY <2>1 DEF Job, SaveJob, ConfigureJob, CountJob
  <2>3. Justified(clerk[w].kept[n])
    BY <2>2 DEF TrailInv, ConfigInv, LogsHonest, Honest
  <2> QED
    BY <2>3 DEF Justified, Findable, Allowed
<1> QED
  BY <1>1, TrailInvariance, PTL

\* The numbers of one answer of a statistics view differ by no more than the rows
\* written while it was computed: for any tables, rows and threads.
THEOREM StatsStayWithin == Spec => []StatsWithin
<1>1. TrailInv => StatsWithin
  <2> SUFFICES ASSUME TrailInv, NEW w \in Clerks, ~Free(w), "total" \in DOMAIN clerk[w]
               PROVE  LET job  == clerk[w]
                          late == written - job.since
                      IN  /\ \A n \in DOMAIN job.groups :
                               job.groups[n] <= job.total + late /\ job.total <= job.groups[n] + late
                          /\ job.errors <= job.total + late
    BY DEF StatsWithin
  <2>1. clerk[w] \in Job
    BY DEF TrailInv, TrailTyped, Free
  <2>2. clerk[w] \in CountJob
    BY <2>1 DEF Job, LogJob, LookupJob, FetchJob, KeepJob, SaveJob, ConfigureJob
  <2>3. Counted(clerk[w])
    BY <2>2 DEF TrailInv, CountInv
  <2> QED
    BY <2>3 DEF Counted, Near
<1> QED
  BY <1>1, TrailInvariance, PTL
=============================================================================
