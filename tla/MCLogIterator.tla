---------------------------- MODULE MCLogIterator ----------------------------
(* The model-checking instance of LogIterator: iterators are model values.  *)
EXTENDS LogIterator, TLC

\* Every action treats the iterators alike.
IteratorSymmetry == Permutations(Iterators)
=============================================================================
