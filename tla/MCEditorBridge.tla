--------------------------- MODULE MCEditorBridge ---------------------------
EXTENDS EditorBridge, TLC

\* Batons are interchangeable.
BatonSymmetry == Permutations(Batons)

AllPrograms == SUBSET Liberties
=============================================================================
