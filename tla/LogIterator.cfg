\* Two iterators on one session, dropped, forgotten or read to the end.
SPECIFICATION FairSpec
CONSTANTS
  Iterators = {i1, i2}
  NoIterator = NoIterator
  MaxEntries = 3
  Capacity = 2
\* The system stops when the caller has closed the session.
CHECK_DEADLOCK FALSE
INVARIANTS TypeOK DropExcludes
PROPERTIES
  ImplementsLogStream
  DropTerminates
  NextReturns
  ReaderReachesEnd
