------------------------- MODULE MCTemporaryPassword -------------------------
EXTENDS TemporaryPassword, TLC

\* Threads are told apart by nothing but what they do.
Symmetry == Permutations(Threads)
=============================================================================
