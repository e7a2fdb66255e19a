--------------------------- MODULE MCObjectMemory ---------------------------
EXTENDS ObjectMemory, TLC
Symmetry == Permutations(Slots) \cup Permutations(Mature) \cup Permutations(Ids)
=============================================================================
