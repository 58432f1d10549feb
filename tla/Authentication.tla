--------------------------- MODULE Authentication ---------------------------
(***************************************************************************)
(* The authentication service: the limit on failed attempts and the        *)
(* accounts.  They share a database but no row that decides anything: what *)
(* authenticate() answers is left open in one and the attempts in the      *)
(* other.  A behaviour exercises one of them.                              *)
(***************************************************************************)
EXTENDS LoginLimit, Accounts

VARIABLE part   \* what the behaviour exercises

authVars == <<limitVars, accountVars, part>>

AuthInit == LimitInit /\ AccountInit /\ part \in {"limit", "accounts"}

OfLimits   == part = "limit" /\ LimitNext /\ UNCHANGED <<accountVars, part>>
OfAccounts == part = "accounts" /\ AccountNext /\ UNCHANGED <<limitVars, part>>

AuthNext == OfLimits \/ OfAccounts

(* Time passes; no request is obliged to come, to go on or to end. *)
AuthFairness == WF_authVars(part = "limit" /\ Tick /\ UNCHANGED <<accountVars, part>>)

AuthSpec == AuthInit /\ [][AuthNext]_authVars /\ AuthFairness

(* The type invariant of both. *)
AuthTypeOK == LimitTypeOK /\ AccountTypeOK
=============================================================================
