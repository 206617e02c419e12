------------------------------ MODULE LogStream ------------------------------
(***************************************************************************)
(* What iter_logs promises its caller, with no thread and no channel: a    *)
(* lazy sequence of log entries.  Each call of next() yields the following *)
(* entry of the retrieval, or its failure once every entry it produced has *)
(* been yielded, or None.  Dropping the iterator ends it.                  *)
(*                                                                         *)
(* The promise is the documentation of RaLogIterator and of LogIterator    *)
(* ("a streaming iterator over log entries") and of set_cancel_handler     *)
(* ("Operations will fail with an SVN_ERR_CANCELLED error if cancelled").  *)
(* LogIterator.tla, translated from the code, implements it but for the    *)
(* error of a cancellation, which it does not report.                      *)
(***************************************************************************)
EXTENDS Naturals, Sequences

CONSTANTS
  Iterators,    \* the iterators a run may create
  MaxEntries    \* bound on the number of entries one retrieval produces

(***************************************************************************)
(* How svn_ra_get_log2 (svn_client_log5) comes out after its last entry:   *)
(*   "ok"         it returns SVN_NO_ERROR;                                 *)
(*   "failed"     it returns an error that is not SVN_ERR_CANCELLED;       *)
(*   "cancelled"  the caller's own cancel callback stopped it, and it      *)
(*                returns SVN_ERR_CANCELLED;                               *)
(*   "panicked"   converting the arguments panicked, so there was no call. *)
(***************************************************************************)
Outcomes == {"ok", "failed", "cancelled", "panicked"}

Fates == { f \in [entries : 0..MaxEntries, outcome : Outcomes] :
             f.outcome = "panicked" => f.entries = 0 }

Items == [tag : {"entry", "error"}, no : Nat]
Entry(n) == [tag |-> "entry", no |-> n]
Failure == [tag |-> "error", no |-> 0]

\* The number of items a retrieval owes: its entries and its error, a cancellation too.
Yield(f) == IF f.outcome \in {"failed", "cancelled"} THEN f.entries + 1 ELSE f.entries

\* The k-th of them.
ItemAt(f, k) == IF k <= f.entries THEN Entry(k) ELSE Failure

-----------------------------------------------------------------------------
VARIABLES
  fate,       \* what each iterator's retrieval produces
  delivered,  \* the items next() has returned, in order
  ended,      \* next() has returned None
  status      \* "none", "open" or "gone"

vars == <<fate, delivered, ended, status>>

Init ==
  /\ fate = [i \in Iterators |-> [entries |-> 0, outcome |-> "ok"]]
  /\ delivered = [i \in Iterators |-> <<>>]
  /\ ended = [i \in Iterators |-> FALSE]
  /\ status = [i \in Iterators |-> "none"]

Open(i) ==
  /\ status[i] = "none"
  /\ status' = [status EXCEPT ![i] = "open"]
  /\ \E f \in Fates : fate' = [fate EXCEPT ![i] = f]
  /\ UNCHANGED <<delivered, ended>>

\* next() returns Some: the item that follows those already returned.
YieldNext(i) ==
  /\ status[i] = "open"
  /\ ~ended[i]
  /\ Len(delivered[i]) < Yield(fate[i])
  /\ delivered' = [delivered EXCEPT
                     ![i] = Append(@, ItemAt(fate[i], Len(delivered[i]) + 1))]
  /\ UNCHANGED <<fate, ended, status>>

\* next() returns None: only when nothing is left to yield.
End(i) ==
  /\ status[i] = "open"
  /\ Len(delivered[i]) = Yield(fate[i])
  /\ ended' = [ended EXCEPT ![i] = TRUE]
  /\ UNCHANGED <<fate, delivered, status>>

Close(i) ==
  /\ status[i] = "open"
  /\ status' = [status EXCEPT ![i] = "gone"]
  /\ UNCHANGED <<fate, delivered, ended>>

Next == \E i \in Iterators : Open(i) \/ YieldNext(i) \/ End(i) \/ Close(i)

Spec == Init /\ [][Next]_vars
=============================================================================
