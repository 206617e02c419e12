\* Two clients, each with a change to commit, and two transactions: a client can try
\* again, or take over that of the other.  The change of one client alone can be of two
\* files (Narrow).
CONSTANTS
  Clients = {a, b}
  Paths = {p, q}
  Texts = {t}
  Empty = Empty
  Absent = Absent
  Null = Null
  MaxTxns = 2
  MaxUpdates = 2
  Programs <- SomePrograms
SPECIFICATION Spec
SYMMETRY Symmetry
CONSTRAINTS Apart Narrow
INVARIANTS TypeOK CommittedAsTold CommittedOnce UpdatesCounted
PROPERTIES StorePromised
CHECK_DEADLOCK FALSE
