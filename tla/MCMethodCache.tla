---------------------------- MODULE MCMethodCache ----------------------------
EXTENDS MethodCache, TLC
CONSTANTS sub, super, n1
\* sub < super; the classes share the slot of a name, so their entries collide
MCPath == [c \in Classes |-> IF c = sub THEN <<sub, super>> ELSE <<super>>]
MCHash == [k \in Classes \X Names |-> k[2]]
MCName == [s \in Sites |-> n1]
Symmetry == Permutations(Threads) \cup Permutations(Methods)
==============================================================================
