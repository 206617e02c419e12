\* A stream of wrap_write is closed by stream_copy.
CONSTANTS
  Streams = {s1, s2}
  Programs = {{"hand"}}
SPECIFICATION Spec
SYMMETRY StreamSymmetry
INVARIANTS ClosesOnce
CHECK_DEADLOCK FALSE
