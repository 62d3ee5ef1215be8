--------------------------- MODULE MCEntityEvents ---------------------------
EXTENDS EntityEvents
CONSTANTS t1, t2
TestSymmetry == Permutations(Tests)
=============================================================================
