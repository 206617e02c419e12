\* Programs that hand up to five values to one context, in any order.  A run stops when
\* the context is dropped.
CONSTANTS
  Cells = {c1, c2, c3, c4, c5}
  Null = Null
  Programs <- AllPrograms
SPECIFICATION Spec
SYMMETRY CellSymmetry
INVARIANTS TypeOK SlotsDefined LogMessageRestored CellsOwned
CHECK_DEADLOCK FALSE
