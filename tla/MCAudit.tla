------------------------------- MODULE MCAudit -------------------------------
EXTENDS Audit, TLC
CONSTANTS w1, w2, p1, s1, s2

MCHomeOf == w1 :> p1 @@ w2 :> p1

Ev(s, error, listed, complete) ==
  [service |-> s, error |-> error, listed |-> listed, complete |-> complete]

MCBatches ==
  {<<Ev(s1, FALSE, TRUE, TRUE)>>,
   <<Ev(s1, FALSE, FALSE, FALSE)>>,
   <<Ev(s1, TRUE, FALSE, TRUE), Ev(s1, FALSE, TRUE, TRUE)>>,
   <<Ev(s2, TRUE, TRUE, TRUE), Ev(s1, TRUE, TRUE, TRUE)>>}

Identifiers == Permutations(RowIds)
=============================================================================
