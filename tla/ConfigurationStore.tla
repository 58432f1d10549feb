-------------------------- MODULE ConfigurationStore --------------------------
(***************************************************************************)
(* One key of the configuration service (service_discovery): its row and   *)
(* its history in the database, and two caches of the value, one in Redis  *)
(* for half an hour and one in the class ConfigurationService, in each     *)
(* process, for five minutes.  get_configuration and set_configuration use *)
(* the caches; the generic views write the row and nothing else, and what  *)
(* the signal clear_config_cache deletes is a key of another cache.        *)
(* Statements commit one by one.  A bulk update sets key after key.        *)
(***************************************************************************)
EXTENDS Naturals, Sequences

CONSTANTS
  Readers,            \* threads that handle requests
  Hosts,              \* processes
  HostOf,             \* the process of a thread
  Texts,              \* values as they are written
  Decode,             \* what json.loads makes of a text; Failure if it is not JSON
  Descriptions,       \* stands for every other column
  Failure,
  MaxConfig,          \* bound: requests, restarts and expiries of a behaviour
  Nothing             \* no row, no key

Configuration == [key : Nat, value : Texts, description : Descriptions, version : Nat]
Change        == [key : Nat, old : Texts \union {Nothing}, new : Texts]

ASSUME ConfigConstants ==
  /\ HostOf \in [Readers -> Hosts]
  /\ Failure \notin Texts /\ Nothing \notin Texts /\ Nothing \notin Configuration
  /\ \A t \in Texts : Decode[t] # Nothing
  /\ MaxConfig \in Nat

Reading ==
  [kind        : {"get", "set", "edit"},
   stage       : {"row", "fill", "save", "log", "cache", "overwrite"},
   of          : Configuration \union {Nothing},   \* its copy of the row
   old         : Texts \union {Nothing},           \* the value before it
   value       : Texts \union {Nothing},
   description : Descriptions \union {Nothing}]

VARIABLES
  config,     \* the row
  history,    \* its history, oldest first
  redis,      \* config:<key>:... in Redis
  local,      \* _config_cache of each process
  reading,    \* the request of each thread
  keys,       \* rows ever created
  spare,      \* requests, restarts and expiries still to come
  tangled     \* history: requests that write overlapped, one was cut short, or a
              \* generic view wrote the row

configVars == <<config, history, redis, local, reading, keys, spare, tangled>>

Active(r)     == reading[r] # << >>
OnStage(r, s) == Active(r) /\ reading[r].stage = s
Proceed(r, s) == reading' = [reading EXCEPT ![r].stage = s]
Done(r)       == reading' = [reading EXCEPT ![r] = << >>]
Charge        == spare > 0 /\ spare' = spare - 1
Exists(c)     == config # Nothing /\ config.key = c.key

ConfigTypeOK ==
  /\ config \in Configuration \union {Nothing}
  /\ \A i \in DOMAIN history : history[i] \in Change /\ Exists(history[i])
  /\ redis \in Texts \union {Nothing}
  /\ \A p \in Hosts : local[p] \in Texts \union {Decode[t] : t \in Texts} \union {Nothing}
  /\ \A p \in Hosts : local[p] # Failure
  /\ \A r \in Readers : Active(r) => reading[r] \in Reading
  /\ keys \in Nat /\ spare \in 0 .. MaxConfig /\ tangled \in BOOLEAN

ConfigInit ==
  /\ config = Nothing /\ history = << >> /\ redis = Nothing
  /\ local = [p \in Hosts |-> Nothing]
  /\ reading = [r \in Readers |-> << >>]
  /\ keys = 0 /\ spare = MaxConfig /\ tangled = FALSE

StartReading(r, kind, st, c, old, v, d) ==
  reading' = [reading EXCEPT ![r] =
    [kind |-> kind, stage |-> st, of |-> c, old |-> old, value |-> v, description |-> d]]

\* A request that writes starts while another runs, or any while one writes.
Crosses(r, writes) ==
  \E q \in Readers \ {r} : Active(q) /\ (writes \/ reading[q].kind # "get")

-----------------------------------------------------------------------------
(* get_configuration: what is in the class cache is the answer. *)

\* Else Redis, whose text is decoded and kept by the class; a text that cannot
\* be decoded is an error for as long as it is there.
ReadRedis(r) ==
  LET p == HostOf[r] IN
  /\ ~Active(r) /\ Charge
  /\ local[p] = Nothing
  /\ tangled' = (tangled \/ Crosses(r, FALSE))
  /\ IF redis # Nothing
       THEN /\ local' = IF Decode[redis] = Failure THEN local ELSE [local EXCEPT ![p] = Decode[redis]]
            /\ UNCHANGED reading
       ELSE StartReading(r, "get", "row", Nothing, Nothing, Nothing, Nothing) /\ UNCHANGED local
  /\ UNCHANGED <<config, history, redis, keys>>

\* Else the row ...
ReadRow(r) ==
  /\ OnStage(r, "row")
  /\ reading' = IF config = Nothing THEN [reading EXCEPT ![r] = << >>]
                ELSE [reading EXCEPT ![r].stage = "fill", ![r].value = config.value]
  /\ UNCHANGED <<config, history, redis, local, keys, spare, tangled>>

\* ... which both caches keep as it is.
Fill(r) ==
  /\ OnStage(r, "fill")
  /\ redis' = reading[r].value
  /\ local' = [local EXCEPT ![HostOf[r]] = reading[r].value]
  /\ Done(r)
  /\ UNCHANGED <<config, history, keys, spare, tangled>>

-----------------------------------------------------------------------------
(* set_configuration. *)

\* get_or_create; an existing row is compared with what is asked.
ReadOrCreate(r, v, d) ==
  /\ ~Active(r) /\ Charge
  /\ tangled' = (tangled \/ Crosses(r, TRUE))
  /\ IF config = Nothing
       THEN LET c == [key |-> keys, value |-> v, description |-> d, version |-> 1] IN
            /\ config' = c
            /\ keys' = keys + 1
            /\ StartReading(r, "set", "log", c, Nothing, v, d)
       ELSE /\ StartReading(r, "set", IF config.value = v /\ config.description = d THEN "cache" ELSE "save",
                     config, config.value, v, d)
            /\ UNCHANGED <<config, keys>>
  /\ UNCHANGED <<history, redis, local>>

\* save(update_fields): the columns that differ from the copy, and the version.
SaveFields(r) ==
  LET j == reading[r] IN
  /\ OnStage(r, "save")
  /\ IF Exists(j.of)
       THEN /\ config' = [config EXCEPT
                 !.value = IF j.of.value = j.value THEN @ ELSE j.value,
                 !.description = IF j.of.description = j.description THEN @ ELSE j.description,
                 !.version = j.of.version + 1]
            /\ Proceed(r, "log")
       ELSE Done(r) /\ UNCHANGED config
  /\ UNCHANGED <<history, redis, local, keys, spare, tangled>>

Mut_Logged(j) == [key |-> j.of.key, old |-> j.value, new |-> j.value]   \* old_value read too late
\* The history of the change.
Logged(j) == [key |-> j.of.key, old |-> j.old, new |-> j.value]

\* ConfigurationHistory.objects.create needs the row.
LogConfig(r) ==
  LET j == reading[r] IN
  /\ OnStage(r, "log")
  /\ IF Exists(j.of) THEN history' = Append(history, Logged(j)) /\ Proceed(r, "cache")
     ELSE Done(r) /\ UNCHANGED history
  /\ UNCHANGED <<config, redis, local, keys, spare, tangled>>

Mut_CacheBoth(r) ==   \* Redis keeps what it has
  /\ OnStage(r, "cache")
  /\ local' = [local EXCEPT ![HostOf[r]] = reading[r].value]
  /\ Done(r)
  /\ UNCHANGED <<config, history, redis, keys, spare, tangled>>
\* Both caches are given what was asked.
CacheBoth(r) ==
  /\ OnStage(r, "cache")
  /\ redis' = reading[r].value
  /\ local' = [local EXCEPT ![HostOf[r]] = reading[r].value]
  /\ Done(r)
  /\ UNCHANGED <<config, history, keys, spare, tangled>>

-----------------------------------------------------------------------------
(* The generic views. *)

\* POST: the key is unique.
CreateConfig(v, d) ==
  /\ config = Nothing /\ Charge
  /\ config' = [key |-> keys, value |-> v, description |-> d, version |-> 1]
  /\ keys' = keys + 1 /\ tangled' = TRUE
  /\ UNCHANGED <<history, redis, local, reading>>

\* PUT or PATCH reads the row ...
EditConfig(r, v, d) ==
  /\ ~Active(r) /\ Charge
  /\ config # Nothing
  /\ StartReading(r, "edit", "overwrite", config, Nothing, v, d)
  /\ tangled' = TRUE
  /\ UNCHANGED <<config, history, redis, local, keys>>

\* ... and saves all of it, the version as it was read; a row that is gone comes
\* back, unless another has its key.
Overwrite(r) ==
  LET j == reading[r] IN
  /\ OnStage(r, "overwrite")
  /\ config' = IF config = Nothing \/ Exists(j.of)
                 THEN [j.of EXCEPT !.value = j.value, !.description = j.description]
                 ELSE config
  /\ Done(r)
  /\ UNCHANGED <<history, redis, local, keys, spare, tangled>>

\* DELETE takes the history with it.
DestroyConfig ==
  /\ config # Nothing /\ Charge
  /\ config' = Nothing /\ history' = << >> /\ tangled' = TRUE
  /\ UNCHANGED <<redis, local, reading, keys>>

-----------------------------------------------------------------------------
(* Time and faults. *)

ExpireRedis ==
  /\ redis # Nothing /\ Charge
  /\ redis' = Nothing
  /\ UNCHANGED <<config, history, local, reading, keys, tangled>>

\* _cache_ttl has passed, or the process is started again.
ExpireLocal(p) ==
  /\ local[p] # Nothing /\ Charge
  /\ local' = [local EXCEPT ![p] = Nothing]
  /\ UNCHANGED <<config, history, redis, reading, keys, tangled>>

\* The database or Redis cannot be reached, or the worker dies.
CutShort(r) ==
  /\ Active(r) /\ Done(r)
  /\ tangled' = (tangled \/ reading[r].kind = "set")
  /\ UNCHANGED <<config, history, redis, local, keys, spare>>

ConfigNext ==
  \/ \E r \in Readers :
       \/ ReadRedis(r) \/ ReadRow(r) \/ Fill(r) \/ SaveFields(r) \/ LogConfig(r) \/ CacheBoth(r)
       \/ Overwrite(r) \/ CutShort(r)
       \/ \E v \in Texts, d \in Descriptions : ReadOrCreate(r, v, d) \/ EditConfig(r, v, d)
  \/ \E v \in Texts, d \in Descriptions : CreateConfig(v, d)
  \/ DestroyConfig \/ ExpireRedis \/ \E p \in Hosts : ExpireLocal(p)

-----------------------------------------------------------------------------
(* Properties. *)

Quiet == \A r \in Readers : ~Active(r)

\* As long as set_configuration alone writes, one request at a time, Redis holds
\* the value of the row or nothing, whichever processes read and write it.
RedisIsCurrent ==
  Quiet /\ ~tangled /\ redis # Nothing => config # Nothing /\ redis = config.value

\* As long as it does, the history tells every change: each starts from what the
\* one before left, the last left the present value, and the version counts them.
HistoryChains ==
  Quiet /\ ~tangled /\ config # Nothing =>
    /\ config.version = Len(history)
    /\ history[1].old = Nothing /\ history[Len(history)].new = config.value
    /\ \A i \in 2 .. Len(history) : history[i].old = history[i - 1].new
=============================================================================
