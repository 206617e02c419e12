-------------------------- MODULE MCClientContext --------------------------
EXTENDS ClientContext, TLC

CellSymmetry == Permutations(Cells)

\* Programs that take any of the liberties.
AllPrograms == SUBSET Liberties
=============================================================================
