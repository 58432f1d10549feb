----------------------------- MODULE LoginLimit -----------------------------
(***************************************************************************)
(* The login and registration endpoints and the limit on failed attempts.  *)
(* check_rate_limit counts the failed attempts of an email or of an        *)
(* address in a window; the attempt itself is stored at the end of the     *)
(* request, so that requests overlap between the check and the row.  A     *)
(* refused login is stored as a failed attempt too, and so prolongs the    *)
(* refusal.  A login that fails in authenticate() raises in a signal       *)
(* handler of the audit service and is not stored at all.  Registration    *)
(* is limited by the failed logins without an email, whoever sent them.    *)
(* Rows older than both windows are left out, and so are refusals of one   *)
(* caller in one tick that are more than make a difference.                *)
(***************************************************************************)
EXTENDS Naturals, FiniteSets

CONSTANTS
  Servers,          \* threads that handle requests
  Callers,          \* pairs of an email and an address
  Blank,            \* the email of a request without one
  LoginWindow,      \* ticks of the clock in 15 minutes
  RegisterWindow,   \* ticks of the clock in 60 minutes
  LoginMax,         \* max_attempts
  RegisterMax

ASSUME LimitConstants ==
  /\ \A c \in Callers : DOMAIN c = 1 .. 2
  /\ LoginWindow \in Nat \ {0} /\ RegisterWindow \in Nat \ {0}
  /\ LoginWindow <= RegisterWindow
  /\ LoginMax \in Nat \ {0} /\ RegisterMax \in Nat \ {0}
  /\ IsFiniteSet(Servers)

Cap == IF LoginMax > RegisterMax THEN LoginMax ELSE RegisterMax

\* A row of LoginAttempt with success False; whether its request had passed the
\* check is history, n tells it from others of its kind.
Attempt == [caller : Callers, age : 0 .. RegisterWindow - 1, passed : BOOLEAN, n : Nat]

VARIABLES
  failed,    \* the rows of failed attempts
  server     \* the request of each thread after the check, << >> if none

limitVars == <<failed, server>>

Emails      == {c[1] : c \in Callers}
Resting(w)  == server[w] = << >>
Serves(w, c, stage) ==
  server' = [server EXCEPT ![w] = [caller |-> c, stage |-> stage]]
Serving(w, stage) == ~Resting(w) /\ server[w].stage = stage
Rest(w)     == server' = [server EXCEPT ![w] = << >>]

LimitTypeOK ==
  /\ failed \subseteq Attempt /\ IsFiniteSet(failed)
  /\ \A w \in Servers : ~Resting(w) =>
       /\ server[w].caller \in Callers
       /\ server[w].stage \in {"refuse", "authenticate", "fail", "register"}

LimitInit ==
  /\ failed = {}
  /\ server = [w \in Servers |-> << >>]

-----------------------------------------------------------------------------
\* Rows of these callers since the cutoff time.
Recent(cs, window) == Cardinality({r \in failed : r.caller \in cs /\ r.age < window})

\* check_rate_limit
Limited(email, address, window, max) ==
  \/ Recent({c \in Callers : c[1] = email}, window) >= max
  \/ Recent({c \in Callers : c[2] = address}, window) >= max

Mut_LoginLimited(c) == Limited(c[1], c[2], LoginWindow, LoginMax + 1)   \* > instead of >=
LoginLimited(c) == Limited(c[1], c[2], LoginWindow, LoginMax)

\* log_login_attempt with success False.
LogAttempt(c, passed) ==
  LET like == {r \in failed : r.caller = c /\ r.age = 0 /\ r.passed = passed} IN
  failed' = IF passed \/ Cardinality(like) < Cap
              THEN failed \union {[caller |-> c, age |-> 0, passed |-> passed, n |-> Cardinality(like)]}
              ELSE failed

Mut_Login(w) ==   \* stores the attempt before the check
  /\ Resting(w)
  /\ \E c \in Callers :
       /\ Serves(w, c, IF LoginLimited(c) THEN "refuse" ELSE "authenticate")
       /\ LogAttempt(c, FALSE)

Login(w) ==
  /\ Resting(w)
  /\ \E c \in Callers : Serves(w, c, IF LoginLimited(c) THEN "refuse" ELSE "authenticate")
  /\ UNCHANGED failed

Refuse(w) ==
  /\ Serving(w, "refuse")
  /\ LogAttempt(server[w].caller, FALSE)
  /\ Rest(w)

\* The serializer: the credentials are right, or the password is wrong, the user
\* unknown or disabled (authenticate() fails), or the email is not verified or the
\* request lacks a field.
Authenticate(w) ==
  /\ Serving(w, "authenticate")
  /\ \/ Serves(w, server[w].caller, "fail")
     \/ /\ server[w].caller[1] # Blank     \* right, or raised in log_failed_login
        /\ Rest(w)
  /\ UNCHANGED failed

LogFailure(w) ==
  /\ Serving(w, "fail")
  /\ LogAttempt(server[w].caller, TRUE)
  /\ Rest(w)

\* The check of UserRegistrationView; what a registration does is in Accounts.
AskToRegister(w) ==
  /\ Resting(w)
  /\ \E c \in Callers :
       /\ ~Limited(Blank, c[2], RegisterWindow, RegisterMax)
       /\ Serves(w, c, "register")
  /\ UNCHANGED failed

Registered(w) ==
  /\ Serving(w, "register")
  /\ Rest(w)
  /\ UNCHANGED failed

-----------------------------------------------------------------------------
Tick ==
  /\ failed' = {[r EXCEPT !.age = @ + 1] : r \in {s \in failed : s.age + 1 < RegisterWindow}}
  /\ UNCHANGED server

\* A request dies with its thread.
Perish(w) == ~Resting(w) /\ Rest(w) /\ UNCHANGED failed

LimitNext ==
  \/ \E w \in Servers :
       \/ Login(w) \/ Refuse(w) \/ Authenticate(w) \/ LogFailure(w)
       \/ AskToRegister(w) \/ Registered(w) \/ Perish(w)
  \/ Tick

-----------------------------------------------------------------------------
Slipped(e) == {r \in failed : r.caller[1] = e /\ r.passed /\ r.age < LoginWindow}
Pending(e) == {w \in Servers : Serving(w, "fail") /\ server[w].caller[1] = e}

(* Overlapping logins pass the check together, but not many: the failures of  *)
(* an email within a window that had passed it, with those about to be        *)
(* stored, are fewer than the limit plus the number of threads.               *)
AttemptsBounded ==
  \A e \in Emails :
    Cardinality(Slipped(e)) + Cardinality(Pending(e)) < LoginMax + Cardinality(Servers)

Renewed(c) == \E w \in Servers :
  \/ Refuse(w) /\ (server[w].caller[1] = c[1] \/ server[w].caller[2] = c[2])
  \/ LogFailure(w) /\ (server[w].caller[1] = c[1] \/ server[w].caller[2] = c[2])

(* A caller is refused only as long as attempts of its email or from its      *)
(* address go on: a lockout ends when the windows pass without one.  That     *)
(* refusals are attempts is why it need not end for one who keeps trying.     *)
LockoutEnds ==
  \A c \in Callers : []<>(~LoginLimited(c)) \/ []<><<Renewed(c)>>_limitVars
=============================================================================
