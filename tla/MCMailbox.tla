------------------------------ MODULE MCMailbox ------------------------------
EXTENDS Assistant, TLC
Symmetry == Permutations(Messages) \cup Permutations(Jobs)
=============================================================================
