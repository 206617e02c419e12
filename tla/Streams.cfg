\* Programs that close what they open, once, from the top, those that take the
\* liberties one property is not about, and those that do all that the types allow.
\* A run stops when all is dropped.
CONSTANTS
  Streams = {s1, s2, s3, s4}
  Programs <- SomePrograms
SPECIFICATION Spec
SYMMETRY StreamSymmetry
INVARIANTS TypeOK LayeredCallsDefined KeptCloseOnce ClosedFree
CHECK_DEADLOCK FALSE
