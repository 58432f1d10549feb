------------------------------ MODULE MCGateway ------------------------------
(* Values for the small instances of Gateway. *)
EXTENDS Gateway

\* A path under /api/auth/ and the health view, which has the default limits and
\* that of its decorator; the limits are scaled down.
MCKeys  == {"minute", "hour", "view"}
MCPaths == {"auth", "health"}
MCLimits ==
  LET Middleware(m, h) == <<[key |-> "minute", limit |-> m], [key |-> "hour", limit |-> h]>> IN
  [auth   |-> Middleware(1, 2),
   health |-> Append(Middleware(2, 3), [key |-> "view", limit |-> 1])]

CONSTANTS c1, c2, p1, p2, i1, i2

\* Two processes with a thread each, or threads that wait for the lock of their
\* one process.
MCApart      == [c \in {c1, c2} |-> IF c = c1 THEN p1 ELSE p2]
MCTogether   == [c \in Callers |-> p1]
MCRegistries == {<< >>, <<i1, i2>>}
=============================================================================
