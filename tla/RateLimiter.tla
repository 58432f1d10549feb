---------------------------- MODULE RateLimiter -----------------------------
(***************************************************************************)
(* The rate limits of the gateway (gateway/middleware.py): before a view   *)
(* runs, RateLimitingMiddleware counts the request in a window of a minute *)
(* and in one of an hour, and the decorator rate_limit counts it for the   *)
(* view.  A window is one counter in Redis; reading it and writing it are  *)
(* two commands, and Redis drops it when its time is over.  The requests   *)
(* of one client: the keys of two clients are different.                   *)
(***************************************************************************)
EXTENDS Integers, Sequences, FiniteSets

CONSTANTS
  Workers,      \* threads and processes that handle requests
  Keys,         \* the keys of the client: one per window, one per limited view
  Paths,        \* kinds of path
  Limits,       \* what a request for a path passes: a sequence of [key, limit]
  MaxRequests,  \* bound: requests of a behaviour
  NoKey         \* the answer of GET for a key that does not exist

ASSUME LimitConstants ==
  /\ MaxRequests \in Nat /\ IsFiniteSet(Workers)
  /\ NoKey \notin [value : Nat, ttl : BOOLEAN] \union Nat
  /\ \A p \in Paths :
       Limits[p] \in Seq([key : Keys, limit : Nat \ {0}]) /\ Limits[p] # << >>

\* The value of a key and whether it has a time to live.
Counter == [value : Nat, ttl : BOOLEAN]

Job == [path : Paths, at : Nat, stage : {"get", "write"}, current : Nat \union {NoKey}]

VARIABLES
  counter,    \* the keys in Redis
  job,        \* the request of each worker, and the limit it is at
  requests,   \* requests still to come
  orphan      \* history: keys that ran out while a check had read them

limiterVars == <<counter, job, requests, orphan>>

Admitting(w) == job[w] # << >>
Limit(w)     == Limits[job[w].path][job[w].at]
Checking(k)  == {w \in Workers : Admitting(w) /\ job[w].stage = "write" /\ Limit(w).key = k}

LimiterTypeOK ==
  /\ counter \in [Keys -> Counter \union {NoKey}]
  /\ job \in [Workers -> Job \union {<< >>}]
  /\ \A w \in Workers : Admitting(w) => job[w].at \in DOMAIN Limits[job[w].path]
  /\ requests \in 0 .. MaxRequests
  /\ orphan \subseteq Keys

LimiterInit ==
  /\ counter = [k \in Keys |-> NoKey]
  /\ job = [w \in Workers |-> << >>]
  /\ requests = MaxRequests
  /\ orphan = {}

\* get_rate_limits: a request for path p arrives.
Arrive(w, p) ==
  /\ ~Admitting(w) /\ requests > 0
  /\ requests' = requests - 1
  /\ job' = [job EXCEPT ![w] = [path |-> p, at |-> 1, stage |-> "get", current |-> NoKey]]
  /\ UNCHANGED <<counter, orphan>>

\* redis_client.get(key)
Read(w) ==
  LET k == Limit(w).key IN
  /\ Admitting(w) /\ job[w].stage = "get"
  /\ job' = [job EXCEPT ![w].stage = "write",
                        ![w].current = IF counter[k] = NoKey THEN NoKey ELSE counter[k].value]
  /\ UNCHANGED <<counter, requests, orphan>>

Mut_Exceeded(current, limit) == current = limit   \* an overrun is never refused
\* A counter that has reached the limit refuses the request.
Exceeded(current, limit) == current >= limit

Mut_Setex == [value |-> 1, ttl |-> FALSE]   \* set without a time
\* setex(key, window, 1)
Setex == [value |-> 1, ttl |-> TRUE]

\* incr(key): a key that does not exist counts from 0 and has no time to live.
Incr(c) == IF c = NoKey THEN [value |-> 1, ttl |-> FALSE] ELSE [c EXCEPT !.value = @ + 1]

\* The next limit of the request, or the view.
NextLimit(w) ==
  job' = [job EXCEPT ![w] =
    IF job[w].at = Len(Limits[job[w].path]) THEN << >>
    ELSE [job[w] EXCEPT !.at = @ + 1, !.stage = "get", !.current = NoKey]]

\* setex for the first request of a window, incr for a later one; the limits
\* that come before have counted a request that this one refuses.
Write(w) ==
  LET k == Limit(w).key
      n == job[w].current IN
  /\ Admitting(w) /\ job[w].stage = "write"
  /\ IF n # NoKey /\ Exceeded(n, Limit(w).limit)
       THEN /\ job' = [job EXCEPT ![w] = << >>]
            /\ UNCHANGED counter
       ELSE /\ counter' = [counter EXCEPT ![k] = IF n = NoKey THEN Setex ELSE Incr(@)]
            /\ NextLimit(w)
  /\ UNCHANGED <<requests, orphan>>

\* Redis cannot be reached, or the worker dies: the view does not run.
Abort(w) ==
  /\ Admitting(w)
  /\ job' = [job EXCEPT ![w] = << >>]
  /\ UNCHANGED <<counter, requests, orphan>>

\* The time of a key is over.
ExpireKey(k) ==
  /\ counter[k] # NoKey /\ counter[k].ttl
  /\ counter' = [counter EXCEPT ![k] = NoKey]
  /\ orphan' = IF Checking(k) = {} THEN orphan ELSE orphan \union {k}
  /\ UNCHANGED <<job, requests>>

LimiterNext ==
  \/ \E w \in Workers : \/ \E p \in Paths : Arrive(w, p)
                        \/ Read(w) \/ Write(w) \/ Abort(w)
  \/ \E k \in Keys : ExpireKey(k)

-----------------------------------------------------------------------------
(* Properties. *)

\* However many checks overlap, a counter exceeds the largest limit of its key
\* by less than the number of workers: an overrun does not feed on itself.
OverrunBounded ==
  \A k \in Keys : counter[k] # NoKey =>
    \E p \in Paths : \E i \in DOMAIN Limits[p] :
      /\ Limits[p][i].key = k
      /\ counter[k].value <= Limits[p][i].limit + Cardinality(Workers) - 1

\* Every window ends, so that a client that has used it up is served again,
\* however its requests interleave, unless the window ran out between the two
\* commands of a check.
WindowEnds ==
  \A k \in Keys : counter[k] # NoKey ~> counter[k] = NoKey \/ k \in orphan
=============================================================================
