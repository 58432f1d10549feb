--------------------------- MODULE ServiceRegistry ---------------------------
(***************************************************************************)
(* The registry of service_discovery: the row of one service, the rows of  *)
(* its instances, and the handlers that register and remove them, take     *)
(* their heartbeats and check their health.  A worker holds copies of the  *)
(* rows it has read; each statement commits by itself, save() of a copy    *)
(* writes the whole row and inserts it again when it is gone, and save of  *)
(* some fields then fails.  Only Django's own delete is a transaction, and *)
(* the signal that follows the removal of an instance is part of it.       *)
(***************************************************************************)
EXTENDS Naturals, FiniteSets

CONSTANTS
  Handlers,       \* threads and processes that handle requests
  InstanceIds,    \* instance_id of the instances
  Reported,       \* the states that heartbeats, edits and the admin name
  MaxRegistry,    \* bound: requests of a behaviour
  NoRow           \* no row

ServiceStatus  == {"active", "inactive", "maintenance", "deprecated"}
InstanceStatus == {"healthy", "unhealthy", "starting", "stopping", "maintenance"}

Service  == [key : Nat, status : ServiceStatus]
Instance == [key : Nat, service : Nat, status : InstanceStatus]

ASSUME RegistryConstants ==
  /\ MaxRegistry \in Nat /\ Reported \subseteq InstanceStatus
  /\ NoRow \notin Service /\ NoRow \notin Instance

\* A copy of the rows of an instance, as a query with select_related returns it.
Copy == [id : InstanceIds, row : Instance, service : Service]

Stages == {"insert", "created", "save", "update", "delete", "commit", "look", "inactive",
           "request", "record", "signal", "confirm"}

Task ==
  [kind   : {"register", "deregister", "destroy", "heartbeat", "edit", "check"},
   stage  : Stages,
   of     : Copy,
   status : InstanceStatus,   \* what it is about to write
   again  : BOOLEAN,          \* _create_failed_health_check is running
   last   : BOOLEAN,          \* the deletion has found no other instance
   todo   : SUBSET Copy]      \* what a sweep has still to check

VARIABLES
  service,   \* the row of the service
  instance,  \* the row of each instance
  task,      \* the request of each worker
  born,      \* rows ever created: their keys
  arrivals,  \* requests still to come
  crowd,     \* history: workers whose request has overlapped another
  emptied    \* history: the last removal left no instance, and nothing overlapped it

registryVars == <<service, instance, task, born, arrivals, crowd, emptied>>

Idle        == << >>
Working(w)  == task[w] # Idle
In(w, s)    == Working(w) /\ task[w].stage = s
Row(w)      == task[w].of.row
Present(r)  == \E i \in InstanceIds : instance[i] # NoRow /\ instance[i].key = r.key
Locked(r)   == \E v \in Handlers : In(v, "commit") /\ Row(v).key = r.key
Owned(s)    == {i \in InstanceIds : instance[i] # NoRow /\ instance[i].service = s}
Go(w, s)    == task' = [task EXCEPT ![w].stage = s]
Leave(w)    == task' = [task EXCEPT ![w] = Idle]
Ask         == arrivals > 0 /\ arrivals' = arrivals - 1
Others(w)   == {v \in Handlers \ {w} : Working(v)}
Accept(w)   == /\ ~Working(w) /\ Ask
               /\ crowd' = IF Others(w) = {} THEN crowd \ {w} ELSE crowd \union Others(w) \union {w}

RegistryTypeOK ==
  /\ service \in Service \union {NoRow}
  /\ instance \in [InstanceIds -> Instance \union {NoRow}]
  /\ \A i \in InstanceIds : instance[i] # NoRow => service # NoRow /\ instance[i].service = service.key
  /\ \A w \in Handlers : Working(w) =>
       /\ task[w].kind \in {"register", "deregister", "destroy", "heartbeat", "edit", "check"}
       /\ task[w].stage \in Stages /\ task[w].of \in Copy /\ task[w].todo \subseteq Copy
  /\ born \in Nat /\ arrivals \in 0 .. MaxRegistry /\ crowd \subseteq Handlers /\ emptied \in BOOLEAN

RegistryInit ==
  /\ service = NoRow /\ instance = [i \in InstanceIds |-> NoRow]
  /\ task = [w \in Handlers |-> Idle]
  /\ born = 0 /\ arrivals = MaxRegistry /\ crowd = {} /\ emptied = FALSE

NewTask(w, k, st, i, r, s, v) ==
  task' = [task EXCEPT ![w] =
    [kind |-> k, stage |-> st, of |-> [id |-> i, row |-> r, service |-> s], status |-> v,
     again |-> FALSE, last |-> FALSE, todo |-> {}]]

-----------------------------------------------------------------------------
(* Requests, up to the rows they read. *)

\* register_service: get_or_create of the service.  The fields it saves of a
\* service that exists are not its status.
RegisterService(w, i) ==
  LET s == IF service = NoRow THEN [key |-> born, status |-> "active"] ELSE service
      k == IF service = NoRow THEN born + 1 ELSE born IN
  /\ Accept(w)
  /\ service' = s
  /\ born' = k + 1
  /\ NewTask(w, "register", "insert", i, [key |-> k, service |-> s.key, status |-> "starting"], s, "starting")
  /\ UNCHANGED <<instance, emptied>>

\* POST of an instance: its service must exist and its instance_id must not.
CreateInstance(w, i, v) ==
  /\ Accept(w)
  /\ service # NoRow /\ instance[i] = NoRow
  /\ born' = born + 1
  /\ NewTask(w, "register", "insert", i, [key |-> born, service |-> service.key, status |-> v], service, v)
  /\ UNCHANGED <<service, instance, emptied>>

\* A request that reads instance i, or answers 404.
Find(w, i, kind, stage, v) ==
  /\ Accept(w)
  /\ instance[i] # NoRow
  /\ NewTask(w, kind, stage, i, instance[i], service, v)
  /\ UNCHANGED <<service, instance, born, emptied>>

Deregister(w, i)      == Find(w, i, "deregister", "delete", "stopping")
DestroyInstance(w, i) == Find(w, i, "destroy", "delete", "stopping")
Heartbeat(w, i, v)    == Find(w, i, "heartbeat", "update", v)
EditInstance(w, i, v) == Find(w, i, "edit", "save", v)
CheckOne(w, i)        == Find(w, i, "check", "request", "unhealthy")

\* The copies of a sweep are checked one after another.
NextCheck(w, todo) ==
  IF todo = {} THEN Leave(w)
  ELSE \E c \in todo : task' = [task EXCEPT ![w] =
         [kind |-> "check", stage |-> "request", of |-> c, status |-> "unhealthy",
          again |-> FALSE, last |-> FALSE, todo |-> todo \ {c}]]

\* perform_bulk_health_checks reads the instances of an active service; some of
\* them are due.
Sweep(w) ==
  /\ Accept(w)
  /\ service # NoRow /\ service.status = "active"
  /\ \E due \in SUBSET Owned(service.key) :
       /\ due # {}
       /\ NextCheck(w, {[id |-> i, row |-> instance[i], service |-> service] : i \in due})
  /\ UNCHANGED <<service, instance, born, emptied>>

\* A bulk action of the admin is one UPDATE.
AdminMark(i, v) ==
  /\ instance[i] # NoRow /\ Ask
  /\ instance' = [instance EXCEPT ![i].status = v]
  /\ UNCHANGED <<service, task, born, crowd, emptied>>

AdminService(v) ==
  /\ service # NoRow /\ Ask
  /\ service' = [service EXCEPT !.status = v]
  /\ emptied' = FALSE
  /\ UNCHANGED <<instance, task, born, crowd>>

\* The deletion of a service takes its instances with it.
DestroyService ==
  /\ service # NoRow /\ Ask
  /\ \A w \in Handlers : ~In(w, "commit")
  /\ service' = NoRow
  /\ instance' = [i \in InstanceIds |-> NoRow]
  /\ emptied' = FALSE
  /\ UNCHANGED <<task, born, crowd>>

-----------------------------------------------------------------------------
(* Statements. *)

\* save() of a copy s of the service; the name is unique.
SavesService(s) == service = NoRow \/ service.key = s.key

\* A check that raises goes on as a failed check, and if that raises too the
\* request ends, the rest of a sweep with it.  Every other request just ends.
Raise(w) ==
  IF task[w].kind = "check" /\ ~task[w].again
    THEN task' = [task EXCEPT ![w].stage = "record", ![w].status = "unhealthy", ![w].again = TRUE]
    ELSE Leave(w)

\* INSERT of an instance: refused when the instance_id is taken or the service
\* has gone.
Insert(w) ==
  LET c == task[w].of IN
  /\ In(w, "insert")
  /\ IF instance[c.id] = NoRow /\ service # NoRow /\ service.key = c.row.service
       THEN instance' = [instance EXCEPT ![c.id] = c.row] /\ Go(w, "created")
       ELSE Leave(w) /\ UNCHANGED instance
  /\ UNCHANGED <<service, born, arrivals, crowd, emptied>>

\* update_service_heartbeat: an instance that was inserted saves its service.
\* What register_service does after it changes no field that is modelled.
Created(w) ==
  LET s == task[w].of.service IN
  /\ In(w, "created")
  /\ IF SavesService(s)
       THEN /\ service' = s
            /\ IF task[w].kind = "check" THEN Go(w, "confirm") ELSE Leave(w)
       ELSE Raise(w) /\ UNCHANGED service
  /\ UNCHANGED <<instance, born, arrivals, crowd, emptied>>

\* The whole row, by the form of an edit or by update_instance_status.
SaveInstance(w) ==
  LET c == task[w].of
      r == [c.row EXCEPT !.status = task[w].status] IN
  /\ In(w, "save") \/ In(w, "signal")
  /\ ~Locked(r)
  /\ IF Present(r)
       THEN /\ instance' = [instance EXCEPT ![c.id] = r]
            /\ IF task[w].kind = "check" THEN Go(w, "confirm") ELSE Leave(w)
       ELSE IF instance[c.id] = NoRow /\ service # NoRow /\ service.key = r.service
         THEN instance' = [instance EXCEPT ![c.id] = r] /\ Go(w, "created")
         ELSE Raise(w) /\ UNCHANGED instance
  /\ UNCHANGED <<service, born, arrivals, crowd, emptied>>

Mut_Update(w) ==   \* saves the whole row
  LET c == task[w].of IN
  /\ In(w, "update")
  /\ ~Locked(c.row)
  /\ instance' = IF service # NoRow /\ service.key = c.row.service
                 THEN [instance EXCEPT ![c.id] = [c.row EXCEPT !.status = task[w].status]]
                 ELSE instance
  /\ Leave(w)
  /\ UNCHANGED <<service, born, arrivals, crowd, emptied>>
\* update_heartbeat saves some fields: a heartbeat of a row that is gone is refused.
Update(w) ==
  LET c == task[w].of IN
  /\ In(w, "update")
  /\ ~Locked(c.row)
  /\ instance' = IF Present(c.row) THEN [instance EXCEPT ![c.id].status = task[w].status]
                 ELSE instance
  /\ Leave(w)
  /\ UNCHANGED <<service, born, arrivals, crowd, emptied>>

Mut_NoneLeft(r) == Owned(r.service) = {}   \* counts the row itself
\* service.instances.exists() is false, the row that is being deleted aside.
NoneLeft(r) == \A i \in Owned(r.service) : instance[i].key = r.key

\* The deletion of an instance looks for others: it does not see what another
\* deletion has not committed.
Delete(w) ==
  /\ In(w, "delete")
  /\ ~Locked(Row(w))
  /\ task' = [task EXCEPT ![w].stage = "commit", ![w].last = NoneLeft(Row(w))]
  /\ UNCHANGED <<service, instance, born, arrivals, crowd, emptied>>

\* cleanup_service_registry saves the service as inactive if there are none, and
\* all is committed, or all is undone if that fails.
Commit(w) ==
  LET t == task[w]
      s == [t.of.service EXCEPT !.status = "inactive"]
      gone == [instance EXCEPT ![t.of.id] = IF @ # NoRow /\ @.key = Row(w).key THEN NoRow ELSE @] IN
  /\ In(w, "commit")
  /\ IF t.last /\ ~SavesService(s)
       THEN Leave(w) /\ UNCHANGED <<service, instance, emptied>>
       ELSE /\ instance' = gone
            /\ service' = IF t.last THEN s ELSE service
            /\ emptied' = (w \notin crowd /\ \A i \in InstanceIds : gone[i] = NoRow)
            /\ IF t.kind = "deregister" THEN Go(w, "look") ELSE Leave(w)
  /\ UNCHANGED <<born, arrivals, crowd>>

\* deregister_service looks once more ...
Look(w) ==
  /\ In(w, "look")
  /\ IF Owned(Row(w).service) = {} THEN Go(w, "inactive") ELSE Leave(w)
  /\ UNCHANGED <<service, instance, born, arrivals, crowd, emptied>>

\* ... and saves the status of the service, if it is still there.
Inactivate(w) ==
  /\ In(w, "inactive")
  /\ service' = IF service # NoRow /\ service.key = Row(w).service
                THEN [service EXCEPT !.status = "inactive"] ELSE service
  /\ Leave(w)
  /\ UNCHANGED <<instance, born, arrivals, crowd, emptied>>

\* The request of perform_health_check: 200, another status, no answer.  Without
\* an answer the check is a failed one from the start.
Request(w) ==
  /\ In(w, "request")
  /\ \/ task' = [task EXCEPT ![w].stage = "record", ![w].status = "healthy"]
     \/ \E failed \in BOOLEAN :
          task' = [task EXCEPT ![w].stage = "record", ![w].again = failed]
  /\ UNCHANGED <<service, instance, born, arrivals, crowd, emptied>>

\* HealthCheck.objects.create needs the row of the instance.
Record(w) ==
  /\ In(w, "record")
  /\ ~Locked(Row(w))
  /\ IF Present(Row(w)) THEN Go(w, "signal") ELSE Raise(w)
  /\ UNCHANGED <<service, instance, born, arrivals, crowd, emptied>>

\* save(update_fields) at the end of a check.
Confirm(w) ==
  LET c == task[w].of IN
  /\ In(w, "confirm")
  /\ ~Locked(c.row)
  /\ IF Present(c.row)
       THEN instance' = [instance EXCEPT ![c.id].status = task[w].status] /\ NextCheck(w, task[w].todo)
       ELSE Raise(w) /\ UNCHANGED instance
  /\ UNCHANGED <<service, born, arrivals, crowd, emptied>>

\* The database cannot be reached or the worker dies: a transaction is undone.
Crash(w) ==
  /\ Working(w) /\ Leave(w)
  /\ UNCHANGED <<service, instance, born, arrivals, crowd, emptied>>

-----------------------------------------------------------------------------

Serve(w) ==
  \/ \E i \in InstanceIds :
       \/ RegisterService(w, i) \/ Deregister(w, i) \/ DestroyInstance(w, i) \/ CheckOne(w, i)
       \/ \E v \in Reported : CreateInstance(w, i, v) \/ Heartbeat(w, i, v) \/ EditInstance(w, i, v)
  \/ Sweep(w)

Step(w) ==
  \/ Insert(w) \/ Created(w) \/ SaveInstance(w) \/ Update(w) \/ Delete(w) \/ Commit(w)
  \/ Look(w) \/ Inactivate(w) \/ Request(w) \/ Record(w) \/ Confirm(w) \/ Crash(w)

RegistryNext ==
  \/ \E w \in Handlers : Serve(w) \/ Step(w)
  \/ \E i \in InstanceIds, v \in Reported : AdminMark(i, v)
  \/ \E v \in {"active", "inactive", "maintenance"} : AdminService(v)
  \/ DestroyService

-----------------------------------------------------------------------------
(* Properties. *)

\* An instance comes into the registry, again or for the first time, only with the
\* INSERT of a registration or with the whole-row save of a health check or an edit
\* that read it before it was removed, and only into the service that is there now.
\* A registration accepted before a deregistration may well bring the instance_id
\* back after it, and so may a slow check: what never does is a late heartbeat, a
\* late confirmation of a check, or a save for a service that was deleted.
NoneRevived ==
  [][\A i \in InstanceIds : instance[i] = NoRow /\ instance'[i] # NoRow =>
       /\ service # NoRow /\ instance'[i].service = service.key
       /\ \E w \in Handlers : /\ Working(w) /\ task'[w] # task[w]
                              /\ task[w].of.id = i /\ instance'[i].key = Row(w).key
                              /\ \/ task[w].kind = "check" /\ In(w, "signal")
                                 \/ task[w].kind = "edit" /\ In(w, "save")
                                 \/ In(w, "insert")]_registryVars

\* A service whose last instance was removed while nothing else ran is not
\* active, so that it is not swept, until an operator says otherwise.
EmptyIsInactive ==
  emptied /\ service # NoRow /\ (\A i \in InstanceIds : instance[i] = NoRow) => service.status # "active"
=============================================================================
