\* Every function that gives a callback to C, with every outcome of C, of the
\* callbacks and of the conversions.
CONSTANTS
  Sites <- AllSites
  Program <- AllPrograms
  Callbacks <- AllCallbacks
SPECIFICATION Spec
INVARIANTS TypeOK CallsDefined LeakFree ClosuresDroppedOnce ErrorsReturned Catalogue
