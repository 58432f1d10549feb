-------------------------------- MODULE Audit --------------------------------
(***************************************************************************)
(* The audit service: the tables it appends to and counts, and the rows    *)
(* that change their status.  They share a database but no row, so a       *)
(* behaviour exercises one of them: the other's state stays as it is.      *)
(***************************************************************************)
EXTENDS AuditTrail, Tracing

VARIABLE part   \* what the behaviour exercises

vars == <<trailVars, tracingVars, part>>

Init == TrailInit /\ TracingInit /\ part \in {"trail", "tracing"}

Next ==
  \/ part = "trail" /\ TrailNext /\ UNCHANGED <<tracingVars, part>>
  \/ part = "tracing" /\ TracingNext /\ UNCHANGED <<trailVars, part>>

Spec == Init /\ [][Next]_vars

(* The type invariant of both. *)
TypeOK == TrailTypeOK /\ TracingTypeOK
=============================================================================
