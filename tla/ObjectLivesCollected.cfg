\* The same, for the changes that are collected from an iterator.
CONSTANTS
  MaxObjects = 4
  MaxRoots = 1
  Types <- AllTypes
  Makers <- AllMakers
  What <- AllKinds
  Nobody = Nobody
SPECIFICATION Spec
INVARIANTS ChangesCollected
CHECK_DEADLOCK FALSE
