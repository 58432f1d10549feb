-------------------------- MODULE MCServiceDiscovery --------------------------
EXTENDS ServiceDiscovery, TLC
CONSTANTS w1, w2, p1, p2, quoted, plain, decoded
MCHostOf == w1 :> p1 @@ w2 :> p2
MCDecode == quoted :> decoded @@ plain :> Failure
=============================================================================
