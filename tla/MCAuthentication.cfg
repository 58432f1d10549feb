SPECIFICATION AuthSpec
CONSTANTS
  h1 = h1
  h2 = h2
  a = a
  b = b
  u1 = u1
  u2 = u2
  x = x
  y = y
  none = none
  Servers = {h1, h2}
  Callers <- MCCallers
  Blank = none
  LoginWindow = 2
  RegisterWindow = 3
  LoginMax = 2
  RegisterMax = 2
  Handlers = {h1, h2}
  Users = {u1, u2}
  Addresses = {a, b}
  Tokens = {t1}
  Passwords = {p1, p2}
  MaxAccounts = 4
  Nobody = Nobody
CHECK_DEADLOCK FALSE
INVARIANTS
  AttemptsBounded
  KeepsPassword
  HasProfile
PROPERTIES
  LockoutEnds
