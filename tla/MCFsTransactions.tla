-------------------------- MODULE MCFsTransactions --------------------------
EXTENDS FsTransactions, FiniteSets, TLC

Symmetry == Permutations(Clients) \cup Permutations(Paths)

\* Programs that take none of the liberties, or one of them.
SomePrograms == {{}} \cup {{l} : l \in Liberties}

\* Transactions and the property share no variable: a run has the one or the other.
Apart == begun = 0 \/ \A c \in Clients : read[c] = Null /\ updates = 0

\* The paths that have been written to, and the clients that have done something.
Touched ==
  UNION {DOMAIN changes[n] : n \in Names} \cup UNION {DOMAIN told[c] : c \in Clients}
    \cup {stream[c].path : c \in {d \in Clients : stream[d] # Null}}
Busy == {c \in Clients : known[c] # Null \/ \E n \in Names : owner[n] = c}

\* Two files are a change of one client, two clients write to one file.
Narrow == Cardinality(Touched) <= 1 \/ Cardinality(Busy) <= 1
=============================================================================
