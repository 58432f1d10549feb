------------------------- MODULE MCAuthentication -------------------------
EXTENDS Authentication, TLC
CONSTANTS h1, h2, a, b, u1, u2, x, y, none

MCCallers == {<<a, x>>, <<a, y>>}
=============================================================================
