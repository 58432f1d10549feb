------------------------------ MODULE Accounts ------------------------------
(***************************************************************************)
(* The accounts of the authentication service: users with their profile,   *)
(* the role customer, the tokens that verify an email or reset a password. *)
(* A request that saves a user writes every column as it read it, so an    *)
(* update of the profile can bring back an old password, or a user that    *)
(* was deleted; whenever a user is inserted, the signals of User give it a *)
(* profile and a role.  Statements commit one by one, except in the admin, *)
(* whose views open a transaction on the right database.  No URL reaches   *)
(* the functions of utils.py that make and use tokens and roles; they are  *)
(* modelled as their callers would find them.                              *)
(***************************************************************************)
EXTENDS Naturals, FiniteSets

CONSTANTS
  Handlers,      \* threads that handle requests
  Users,         \* ids of users
  Addresses,     \* addresses, each unique among the rows
  Tokens,        \* the random tokens
  Passwords,
  MaxAccounts,   \* bound: requests of a behaviour
  Nobody         \* no row

Kinds == {"verification", "reset"}
\* usable: neither used nor past its expires_at.
Token == [user : Users, kind : Kinds, usable : BOOLEAN]
\* email, is_active, password (Nobody while none is set).  is_verified decides
\* only whether a login succeeds, which LoginLimit leaves open.
User  == [email : Addresses, active : BOOLEAN, password : Passwords \union {Nobody}]
\* The row of UserRole for the role customer.
RoleState == {"none", "active", "inactive"}

ASSUME AccountConstants ==
  /\ Nobody \notin Passwords /\ Nobody \notin User /\ Nobody \notin Token
  /\ MaxAccounts \in Nat

VARIABLES
  users,      \* the rows of users
  born,       \* ids that were given
  profiles,   \* users with a profile
  customer,   \* the role customer of each user
  tokens,     \* the rows of both token tables
  handler,    \* the request of each thread
  received,   \* requests so far
  spent,      \* history: tokens that were used, whose text does not come again
  shared,     \* history: users whose requests overlapped
  latest,     \* history: the password of each user that was set last
  cut         \* history: users whose inserting request died of it, or whose
              \* profile alone was deleted or given to another

accountVars == <<users, born, profiles, customer, tokens, handler, received,
                 spent, shared, latest, cut>>

rowVars   == <<users, born, profiles, customer, tokens>>
traceVars == <<spent, shared, latest, cut>>

Open(h)        == handler[h] = << >>
OnTask(h, s)   == ~Open(h) /\ handler[h].stage = s
Become(h, job) == handler' = [handler EXCEPT ![h] = job]
Close(h)       == Become(h, << >>)
Receive        == received < MaxAccounts /\ received' = received + 1
OnUser(u)      == {h \in Handlers : ~Open(h) /\ handler[h].user = u}
Usable(t, k)   == tokens[t] # Nobody /\ tokens[t].kind = k /\ tokens[t].usable

AccountTypeOK ==
  /\ users \in [Users -> User \union {Nobody}] /\ born \subseteq Users
  /\ profiles \subseteq Users /\ customer \in [Users -> RoleState]
  /\ tokens \in [Tokens -> Token \union {Nobody}]
  /\ \A h \in Handlers : ~Open(h) =>
       /\ handler[h].user \in Users
       /\ handler[h].stage \in {"profile", "role", "password", "fail", "mail", "create",
                                "assign", "mark", "user", "save", "edit"}
  /\ received \in 0 .. MaxAccounts
  /\ spent \subseteq Tokens /\ shared \subseteq Users
  /\ latest \in [Users -> Passwords \union {Nobody}] /\ cut \subseteq Users

AccountInit ==
  /\ users = [u \in Users |-> Nobody] /\ born = {}
  /\ profiles = {} /\ customer = [u \in Users |-> "none"]
  /\ tokens = [t \in Tokens |-> Nobody]
  /\ handler = [h \in Handlers |-> << >>]
  /\ received = 0
  /\ spent = {} /\ shared = {} /\ cut = {}
  /\ latest = [u \in Users |-> Nobody]

\* A request about u begins while others are about u.
Meets(u) == IF OnUser(u) = {} THEN {} ELSE {u}

\* The unique column lets u have the email.
Free(u, email) == \A v \in Users \ {u} : users[v] # Nobody => users[v].email # email

-----------------------------------------------------------------------------
(* Registration: UserRegistrationSerializer.create and the signals of User. *)

NewUser(email) == [email |-> email, active |-> TRUE, password |-> Nobody]

\* create_user; a second user with the email is refused.
Register(h) ==
  /\ Open(h) /\ Receive
  /\ \E u \in Users \ born, p \in Passwords, e \in Addresses :
       /\ Free(u, e)
       /\ users' = [users EXCEPT ![u] = NewUser(e)]
       /\ born' = born \union {u}
       /\ Become(h, [stage |-> "profile", user |-> u, resume |-> "password", password |-> p, email |-> e])
  /\ UNCHANGED <<profiles, customer, tokens, traceVars>>

Mut_CreateProfile(h) ==
  /\ OnTask(h, "profile")
  /\ Become(h, [handler[h] EXCEPT !.stage = "role"])
  /\ UNCHANGED <<rowVars, received, traceVars>>

\* create_user_profile, which fails if the user is gone.
CreateProfile(h) ==
  /\ OnTask(h, "profile")
  /\ LET u == handler[h].user IN
       \/ users[u] = Nobody /\ Close(h) /\ UNCHANGED profiles
       \/ /\ users[u] # Nobody
          /\ profiles' = profiles \union {u}
          /\ Become(h, [handler[h] EXCEPT !.stage = "role"])
  /\ UNCHANGED <<users, born, customer, tokens, received, traceVars>>

\* get_or_create leaves a row as it is.
Given(u) == IF customer[u] = "none" THEN [customer EXCEPT ![u] = "active"] ELSE customer

Continue(h) ==
  IF handler[h].resume = "end" THEN Close(h)
  ELSE Become(h, [handler[h] EXCEPT !.stage = handler[h].resume])

\* assign_default_role: the role customer may not exist.
GiveRole(h) ==
  /\ OnTask(h, "role")
  /\ LET u == handler[h].user IN
       \/ users[u] = Nobody /\ Close(h) /\ UNCHANGED customer
       \/ users[u] # Nobody /\ customer' = Given(u) /\ Continue(h)
       \/ UNCHANGED customer /\ Continue(h)
  /\ UNCHANGED <<users, born, profiles, tokens, received, traceVars>>

\* save() of every column: updates the row, or inserts it, which calls the
\* signals, or fails, for another has the email by now.
Write(h, u, row, resume) ==
  \/ ~Free(u, row.email) /\ UNCHANGED users /\ Close(h)
  \/ /\ Free(u, row.email)
     /\ users' = [users EXCEPT ![u] = row]
     /\ IF users[u] = Nobody
          THEN Become(h, [stage |-> "profile", user |-> u, resume |-> resume, password |-> Nobody,
                          email |-> row.email])
          ELSE IF resume = "end" THEN Close(h) ELSE Become(h, [handler[h] EXCEPT !.stage = resume])

Mut_SetPassword(h) ==
  /\ OnTask(h, "password")
  /\ latest' = [latest EXCEPT ![handler[h].user] = handler[h].password]
  /\ Become(h, [handler[h] EXCEPT !.stage = "fail"])
  /\ UNCHANGED <<rowVars, received, spent, shared, cut>>

\* set_password and save, of the columns as they were created.
SetPassword(h) ==
  /\ OnTask(h, "password")
  /\ LET job == handler[h] IN
       /\ Write(h, job.user, [NewUser(job.email) EXCEPT !.password = job.password], "fail")
       /\ latest' = IF Free(job.user, job.email) THEN [latest EXCEPT ![job.user] = job.password] ELSE latest
  /\ UNCHANGED <<born, profiles, customer, tokens, received, spent, shared, cut>>

\* UserProfile.objects.create: there is a profile already, so the request fails
\* and neither mails a verification token nor answers with JWTs; only a profile
\* that somebody deleted makes room.
SecondProfile(h) ==
  /\ OnTask(h, "fail")
  /\ LET u == handler[h].user IN
       IF u \in profiles \/ users[u] = Nobody
         THEN Close(h) /\ UNCHANGED profiles
         ELSE /\ profiles' = profiles \union {u}
              /\ Become(h, [stage |-> "mail", user |-> u, kind |-> "verification"])
  /\ UNCHANGED <<users, born, customer, tokens, received, traceVars>>

-----------------------------------------------------------------------------
(* Tokens. *)

\* generate_verification_token and generate_password_reset_token delete the
\* tokens of the user ...
Others(u, k) == [t \in Tokens |->
  IF tokens[t] # Nobody /\ tokens[t].user = u /\ tokens[t].kind = k THEN Nobody ELSE tokens[t]]

RequestToken(h) ==
  /\ Open(h) /\ Receive
  /\ \E u \in Users, k \in Kinds :
       /\ users[u] # Nobody
       /\ tokens' = Others(u, k)
       /\ Become(h, [stage |-> "create", user |-> u, kind |-> k, resume |-> "end"])
       /\ shared' = shared \union Meets(u)
  /\ UNCHANGED <<users, born, profiles, customer, spent, latest, cut>>

\* The same in a registration, after which comes RoleManager.assign_role.
MailToken(h) ==
  /\ OnTask(h, "mail")
  /\ tokens' = Others(handler[h].user, "verification")
  /\ Become(h, [stage |-> "create", user |-> handler[h].user, kind |-> "verification",
                 resume |-> "assign"])
  /\ UNCHANGED <<users, born, profiles, customer, received, traceVars>>

\* ... and create a new one, of a random text that was never used.
CreateToken(h) ==
  /\ OnTask(h, "create")
  /\ LET u == handler[h].user IN
       IF users[u] = Nobody THEN UNCHANGED tokens /\ Close(h)
       ELSE \E t \in {x \in Tokens \ spent : tokens[x] = Nobody
                        /\ \A o \in Handlers : Open(o) \/ "token" \notin DOMAIN handler[o]
                                               \/ handler[o].token # x} :
              tokens' = [tokens EXCEPT ![t] =
                [user |-> u, kind |-> handler[h].kind, usable |-> TRUE]]
              /\ Continue(h)
  /\ UNCHANGED <<users, born, profiles, customer, received, traceVars>>

AssignCustomer(h) ==
  /\ OnTask(h, "assign")
  /\ LET u == handler[h].user IN
       customer' \in {customer, IF users[u] = Nobody THEN customer ELSE Given(u)}
  /\ Close(h)
  /\ UNCHANGED <<users, born, profiles, tokens, received, traceVars>>

\* token_obj.save(), which inserts a token that has gone.
MarkUsed(h) == [tokens EXCEPT ![handler[h].token] = [handler[h].row EXCEPT !.usable = FALSE]]

\* verify_email_token and reset_password_with_token find the token ...
FindToken(h) ==
  /\ Open(h) /\ Receive
  /\ \E t \in Tokens, k \in Kinds, p \in Passwords :
       /\ Usable(t, k)
       /\ Become(h, [stage |-> "mark", user |-> tokens[t].user, kind |-> k, token |-> t,
                     row |-> tokens[t], password |-> p])
       /\ shared' = shared \union Meets(tokens[t].user)
  /\ UNCHANGED <<rowVars, spent, latest, cut>>

\* ... mark it ...
MarkToken(h) ==
  /\ OnTask(h, "mark")
  /\ IF users[handler[h].user] = Nobody       \* the foreign key
       THEN UNCHANGED tokens /\ Close(h)
       ELSE tokens' = MarkUsed(h) /\ Become(h, [handler[h] EXCEPT !.stage = "user"])
  /\ UNCHANGED <<users, born, profiles, customer, received, traceVars>>

\* ... read its user ...
ReadUser(h) ==
  /\ OnTask(h, "user")
  /\ LET u == handler[h].user IN
       IF users[u] = Nobody THEN Close(h)
       ELSE Become(h, [stage |-> "save", user |-> u, token |-> handler[h].token,
              row |-> IF handler[h].kind = "verification"
                        THEN users[u]   \* with is_verified
                        ELSE [users[u] EXCEPT !.password = handler[h].password],
              sets |-> handler[h].kind = "reset"])
  /\ UNCHANGED <<rowVars, received, traceVars>>

\* ... and save all of it.
SaveUser(h) ==
  /\ OnTask(h, "save")
  /\ LET job == handler[h] IN
       /\ Write(h, job.user, job.row, "end")
       /\ latest' = IF job.sets /\ Free(job.user, job.row.email)
                    THEN [latest EXCEPT ![job.user] = job.row.password] ELSE latest
       /\ spent' = IF "token" \in DOMAIN job THEN spent \union {job.token} ELSE spent
  /\ UNCHANGED <<born, profiles, customer, tokens, received, shared, cut>>

Expire ==
  /\ \E t \in Tokens : tokens[t] # Nobody /\ tokens[t].usable
                       /\ tokens' = [tokens EXCEPT ![t].usable = FALSE]
  /\ UNCHANGED <<users, born, profiles, customer, handler, received, traceVars>>

\* cleanup_expired_tokens: the tokens that were used expire some time too.
RemoveExpired ==
  /\ \E ended \in SUBSET {t \in Tokens : tokens[t] # Nobody /\ ~tokens[t].usable} :
       tokens' = [t \in Tokens |-> IF t \in ended THEN Nobody ELSE tokens[t]]
  /\ UNCHANGED <<users, born, profiles, customer, handler, received, traceVars>>

-----------------------------------------------------------------------------
(* The profile, the admin and the roles. *)

\* UserProfileView: the request's user was read when it was authenticated, and is
\* saved with a new email, if no other user has it.
UpdateProfile(h) ==
  /\ Open(h) /\ Receive
  /\ \E u \in Users, e \in Addresses :
       /\ users[u] # Nobody /\ users[u].active /\ Free(u, e)
       /\ Become(h, [stage |-> "save", user |-> u, row |-> [users[u] EXCEPT !.email = e], sets |-> FALSE])
       /\ shared' = shared \union Meets(u)
  /\ UNCHANGED <<rowVars, spent, latest, cut>>

\* The form of UserAdmin is the only way to verify a user or to disable one.
AdminEdit(h) ==
  /\ Open(h) /\ Receive
  /\ \E u \in Users, e \in Addresses, a \in BOOLEAN :
       /\ users[u] # Nobody /\ Free(u, e)
       /\ Become(h, [stage |-> "edit", user |-> u,
                     row |-> [users[u] EXCEPT !.email = e, !.active = a]])
       /\ shared' = shared \union Meets(u)
  /\ UNCHANGED <<rowVars, spent, latest, cut>>

\* Its form for the password saves outside a transaction.
AdminPassword(h) ==
  /\ Open(h) /\ Receive
  /\ \E u \in Users, p \in Passwords :
       /\ users[u] # Nobody
       /\ Become(h, [stage |-> "save", user |-> u, sets |-> TRUE,
                     row |-> [users[u] EXCEPT !.password = p]])
       /\ shared' = shared \union Meets(u)
  /\ UNCHANGED <<rowVars, spent, latest, cut>>

\* An edit is saved with what the signals do in one transaction ...
AdminSave(h) ==
  /\ OnTask(h, "edit")
  /\ LET u   == handler[h].user
         row == handler[h].row IN
       \/ /\ Free(u, row.email)
          /\ users' = [users EXCEPT ![u] = row]
          /\ IF users[u] # Nobody THEN UNCHANGED <<profiles, customer>>
             ELSE profiles' = profiles \union {u} /\ customer' \in {customer, Given(u)}
       \/ ~Free(u, row.email) /\ UNCHANGED <<users, profiles, customer>>
  /\ Close(h)
  /\ UNCHANGED <<born, tokens, received, traceVars>>

\* ... as is a new user.
AdminCreate ==
  /\ Receive
  /\ \E u \in Users \ born, p \in Passwords, e \in Addresses :
       /\ Free(u, e)
       /\ users' = [users EXCEPT ![u] = [NewUser(e) EXCEPT !.password = p]]
       /\ born' = born \union {u}
       /\ profiles' = profiles \union {u}
       /\ customer' \in {customer, Given(u)}
       /\ latest' = [latest EXCEPT ![u] = p]
  /\ UNCHANGED <<tokens, handler, spent, shared, cut>>

\* The admin deletes a user with all that refers to it.
AdminDelete ==
  /\ Receive
  /\ \E u \in Users :
       /\ users[u] # Nobody
       /\ users' = [users EXCEPT ![u] = Nobody]
       /\ profiles' = profiles \ {u} /\ customer' = [customer EXCEPT ![u] = "none"]
       /\ tokens' = [t \in Tokens |->
            IF tokens[t] # Nobody /\ tokens[t].user = u THEN Nobody ELSE tokens[t]]
       /\ shared' = shared \union Meets(u)
  /\ UNCHANGED <<born, handler, spent, latest, cut>>

\* ... or only the profile.
AdminDeleteProfile ==
  /\ Receive
  /\ \E u \in profiles : profiles' = profiles \ {u} /\ cut' = cut \union {u}
  /\ UNCHANGED <<users, born, customer, tokens, handler, spent, shared, latest>>

\* The form of a profile can give it to a user that has none.
AdminMoveProfile ==
  /\ Receive
  /\ \E u \in profiles, v \in Users \ profiles :
       /\ users[v] # Nobody
       /\ profiles' = (profiles \ {u}) \union {v} /\ cut' = cut \union {u}
  /\ UNCHANGED <<users, born, customer, tokens, handler, spent, shared, latest>>

\* RoleManager.assign_role and remove_role
AssignRole ==
  /\ Receive
  /\ \E u \in Users : users[u] # Nobody /\ customer' = Given(u)
  /\ UNCHANGED <<users, born, profiles, tokens, handler, traceVars>>

RemoveRole ==
  /\ Receive
  /\ \E u \in Users : customer[u] = "active" /\ customer' = [customer EXCEPT ![u] = "inactive"]
  /\ UNCHANGED <<users, born, profiles, tokens, handler, traceVars>>

-----------------------------------------------------------------------------
\* A request dies between its statements.
Vanish(h) ==
  /\ ~Open(h) /\ Close(h)
  /\ cut' = IF handler[h].stage = "profile" THEN cut \union {handler[h].user} ELSE cut
  /\ UNCHANGED <<rowVars, received, spent, shared, latest>>

AccountNext ==
  \/ \E h \in Handlers :
       \/ Register(h) \/ CreateProfile(h) \/ GiveRole(h) \/ SetPassword(h) \/ SecondProfile(h)
       \/ RequestToken(h) \/ MailToken(h) \/ CreateToken(h) \/ AssignCustomer(h)
       \/ FindToken(h) \/ MarkToken(h) \/ ReadUser(h) \/ SaveUser(h)
       \/ UpdateProfile(h) \/ AdminEdit(h) \/ AdminPassword(h) \/ AdminSave(h)
       \/ Vanish(h)
  \/ Expire \/ RemoveExpired
  \/ AdminCreate \/ AdminDelete \/ AdminDeleteProfile \/ AdminMoveProfile \/ AssignRole \/ RemoveRole

(* Unless requests about a user overlapped, the user has the password that    *)
(* was set last: whole rows are written with old columns only by requests     *)
(* that overlapped another.                                                   *)
KeepsPassword ==
  \A u \in Users \ shared : users[u] # Nobody /\ OnUser(u) = {} =>
    users[u].password = latest[u]

(* Every user that no request is about has a profile, although registrations  *)
(* fail over it, saves of stale copies insert users and the admin deletes     *)
(* them; unless a request died right after it had inserted the user, or the   *)
(* admin deleted the profile or gave it to another.                           *)
HasProfile ==
  \A u \in Users \ cut : users[u] # Nobody /\ OnUser(u) = {} => u \in profiles
=============================================================================
