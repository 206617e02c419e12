\* Programs that take none, some and all of the liberties the types of error.rs
\* give.  A run stops when every node has been used.
CONSTANTS
  Nodes = {n1, n2, n3, n4}
  Handles = {h1, h2, h3}
  NoNode = NoNode
  Programs <- AllPrograms
SPECIFICATION Spec
SYMMETRY ErrorSymmetry
INVARIANTS TypeOK ChainsValid ChainsOwned ChainsCleared
CHECK_DEADLOCK FALSE
