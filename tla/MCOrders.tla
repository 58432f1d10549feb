------------------------------ MODULE MCOrders ------------------------------
EXTENDS Orders, TLC
Symmetry == Permutations(Workers) \union Permutations(Customers)
=============================================================================
