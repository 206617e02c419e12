\* Programs that make four values from the functions of the bindings, one from
\* another, and drop them in any order.
CONSTANTS
  MaxObjects = 4
  MaxRoots = 1
  Types <- AllTypes
  Makers <- AllMakers
  What <- AllKinds
  Nobody = Nobody
SPECIFICATION Spec
INVARIANTS TypeOK ValuesDefined Catalogue
CHECK_DEADLOCK FALSE
