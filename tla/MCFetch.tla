------------------------------ MODULE MCFetch ------------------------------
EXTENDS Fetch, TLC

CONSTANTS p1, p2
Of(k, orders) == {[kind |-> k, order |-> o] : o \in orders}
MCCommands == Of("install", {<<p1>>}) \cup Of("download", {<<p1, p2>>})
Symmetry == Permutations(Proc) \cup Permutations(Ver)
=============================================================================
