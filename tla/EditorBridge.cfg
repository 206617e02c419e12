\* Programs that take any of the liberties, and those that take none, which keep the
\* order svn_delta.h asks for.  A run stops when the editor is dropped.
CONSTANTS
  Batons = {b1, b2, b3, b4}
  NoBaton = NoBaton
  Editors = {"rust", "c"}
  Programs <- AllPrograms
  MaxReports = 2
SPECIFICATION Spec
SYMMETRY BatonSymmetry
INVARIANTS TypeOK DrivesValid DrivesFree ReportsEnd
CHECK_DEADLOCK FALSE
