------------------------------ MODULE MCStreams ------------------------------
EXTENDS Streams, TLC

\* Stream values are interchangeable.
StreamSymmetry == Permutations(Streams)

\* No liberties, for each property those it is not about, and all.
SomePrograms ==
  {{}, {"hand", "unclosed"}, {"reuse", "under", "unclosed"},
   {"reuse", "under", "target", "hand"}, Liberties}
=============================================================================
