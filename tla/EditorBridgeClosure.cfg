\* The closure of apply_textdelta over a C editor.
CONSTANTS
  Batons = {b1, b2, b3}
  NoBaton = NoBaton
  Editors = {"c"}
  Programs = {{"closure"}}
  MaxReports = 1
SPECIFICATION Spec
SYMMETRY BatonSymmetry
INVARIANTS BatonsValid
CHECK_DEADLOCK FALSE
