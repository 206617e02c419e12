---------------------------- MODULE MCErrorChain ----------------------------
EXTENDS ErrorChain, TLC

\* Nodes and handles are interchangeable.
ErrorSymmetry == Permutations(Nodes) \cup Permutations(Handles)

AllPrograms == SUBSET Liberties
=============================================================================
