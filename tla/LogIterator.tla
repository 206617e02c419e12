----------------------------- MODULE LogIterator -----------------------------
(***************************************************************************)
(* Session::iter_logs / RaLogIterator (ra.rs) and Context::iter_logs /     *)
(* LogIterator (client.rs), which are the same program: the caller's       *)
(* thread holds an iterator, a worker thread runs get_log() on a raw       *)
(* pointer to the caller's session, and a bounded channel joins the two.   *)
(*                                                                         *)
(* std::sync::mpsc::sync_channel is external.  What the code relies on: a  *)
(* send blocks while the buffer is full and fails once the receiver is     *)
(* dropped, which also wakes a blocked sender and discards the buffer; a   *)
(* recv blocks while the buffer is empty and the sender alive, and fails   *)
(* only when the buffer is empty and the sender is gone.                   *)
(***************************************************************************)
EXTENDS Naturals, Sequences

CONSTANTS
  Iterators,    \* the iterators a run may create, one after the other
  MaxEntries,   \* bound on the number of entries one retrieval produces
  Capacity,     \* the bound given to sync_channel
  NoIterator    \* the caller holds no iterator

ASSUME CapacityPositive == Capacity \in Nat \ {0}
ASSUME NoIteratorFresh  == NoIterator \notin Iterators
ASSUME EntriesBound     == MaxEntries \in Nat

VARIABLES
  fate,       \* what the retrieval of each iterator will produce
  worker,     \* the control state of each iterator's worker thread
  result,     \* what get_log returned to the worker
  sent,       \* how many items the worker has put on the channel
  chan,       \* the channel's buffer
  rx,         \* the receiver: "none", "open" or "closed"
  held,       \* the iterator that mutably borrows the session
  caller,     \* the control state of the caller's thread
  delivered,  \* what next() has returned, in order
  ended       \* whether next() has returned None

workerVars == <<worker, result, sent>>
callerVars == <<held, caller, delivered, ended>>
vars == <<fate, worker, result, sent, chan, rx, held, caller, delivered, ended>>

\* The caller's view of one iterator: "gone" once dropped or forgotten.
status == [i \in Iterators |-> IF worker[i] = "unborn" THEN "none"
                               ELSE IF held = i /\ caller # "joining" THEN "open"
                               ELSE "gone"]

\* The Nones with which the documented stream agrees: all but those that end a
\* retrieval whose cancellation was not reported.
endedAsTold == [i \in Iterators |-> ended[i] /\ fate[i].outcome # "cancelled"]

Stream ==
  INSTANCE LogStream WITH
    fate <- fate, delivered <- delivered, ended <- endedAsTold, status <- status

Fates == Stream!Fates
Items == Stream!Items
Entry(n) == Stream!Entry(n)
Failure == Stream!Failure

-----------------------------------------------------------------------------
Init ==
  /\ fate = [i \in Iterators |-> [entries |-> 0, outcome |-> "ok"]]
  /\ worker = [i \in Iterators |-> "unborn"]
  /\ result = [i \in Iterators |-> "none"]
  /\ sent = [i \in Iterators |-> 0]
  /\ chan = [i \in Iterators |-> <<>>]
  /\ rx = [i \in Iterators |-> "none"]
  /\ held = NoIterator
  /\ caller = "idle"
  /\ delivered = [i \in Iterators |-> <<>>]
  /\ ended = [i \in Iterators |-> FALSE]

(***************************************************************************)
(* The worker thread.  It is inside the session from its first statement   *)
(* until get_log returns.                                                  *)
(***************************************************************************)
Goto(i, pc) == worker' = [worker EXCEPT ![i] = pc]
InSession(i) == worker[i] \in {"starting", "retrieving", "sending"}

\* The path and revprop strings become C strings; an interior NUL panics, and
\* unwinding drops the sender.
ConvertArguments(i) ==
  /\ worker[i] = "starting"
  /\ Goto(i, IF fate[i].outcome = "panicked" THEN "exited" ELSE "retrieving")
  /\ UNCHANGED <<fate, result, sent, chan, rx, callerVars>>

\* The C library calls the receiver with the next entry, which is duplicated
\* into a pool of its own.
ReceiveEntry(i) ==
  /\ worker[i] = "retrieving"
  /\ sent[i] < fate[i].entries
  /\ Goto(i, "sending")
  /\ UNCHANGED <<fate, result, sent, chan, rx, callerVars>>

\* Mutant: the channel is created unbounded.
EnqueueUnbounded(i, item) ==
  /\ rx[i] = "open"
  /\ chan' = [chan EXCEPT ![i] = Append(@, item)]
  /\ sent' = [sent EXCEPT ![i] = @ + 1]

Enqueue(i, item) ==
  /\ rx[i] = "open"
  /\ Len(chan[i]) < Capacity
  /\ chan' = [chan EXCEPT ![i] = Append(@, item)]
  /\ sent' = [sent EXCEPT ![i] = @ + 1]

SendEntry(i) ==
  /\ worker[i] = "sending"
  /\ Enqueue(i, Entry(sent[i] + 1))
  /\ Goto(i, "retrieving")
  /\ UNCHANGED <<fate, result, rx, callerVars>>

\* tx.send failed: the receiver returns SVN_ERR_CANCELLED, and so does get_log.
SendRefused(i) ==
  /\ worker[i] = "sending"
  /\ rx[i] = "closed"
  /\ result' = [result EXCEPT ![i] = "cancelled"]
  /\ Goto(i, "returned")
  /\ UNCHANGED <<fate, sent, chan, rx, callerVars>>

RetrievalReturns(i) ==
  /\ worker[i] = "retrieving"
  /\ sent[i] = fate[i].entries
  /\ result' = [result EXCEPT ![i] = fate[i].outcome]
  /\ Goto(i, "returned")
  /\ UNCHANGED <<fate, sent, chan, rx, callerVars>>

\* A cancelled retrieval is not reported, whoever cancelled it: the code asks for
\* SVN_ERR_CANCELLED, its comment for a cancellation "caused by dropping the iterator".
FinishQuietly(i) ==
  /\ worker[i] = "returned"
  /\ result[i] \in {"ok", "cancelled"}
  /\ Goto(i, "exited")
  /\ UNCHANGED <<fate, result, sent, chan, rx, callerVars>>

\* Mutant: an error ends the worker without being sent.
FailureIgnored(i) ==
  /\ worker[i] = "returned"
  /\ result[i] = "failed"
  /\ Goto(i, "exited")
  /\ UNCHANGED <<fate, result, sent, chan, rx, callerVars>>

\* Mutant: the error is sent before the entries still waiting to be read.
FailureOvertakes(i) ==
  /\ worker[i] = "returned"
  /\ result[i] = "failed"
  /\ chan' = IF rx[i] = "open" THEN [chan EXCEPT ![i] = <<Failure>> \o @] ELSE chan
  /\ sent' = [sent EXCEPT ![i] = @ + 1]
  /\ Goto(i, "exited")
  /\ UNCHANGED <<fate, result, rx, callerVars>>

\* The items of a retrieval for which the worker calls tx.send.
Sends(f) == IF f.outcome = "failed" THEN f.entries + 1 ELSE f.entries

ReportFailure(i) ==
  /\ worker[i] = "returned"
  /\ result[i] = "failed"
  /\ \/ Enqueue(i, Failure)
     \/ rx[i] = "closed" /\ UNCHANGED <<chan, sent>>
  /\ Goto(i, "exited")
  /\ UNCHANGED <<fate, result, rx, callerVars>>

Worker(i) ==
  \/ ConvertArguments(i)
  \/ ReceiveEntry(i)
  \/ SendEntry(i)
  \/ SendRefused(i)
  \/ RetrievalReturns(i)
  \/ FinishQuietly(i)
  \/ ReportFailure(i)

(***************************************************************************)
(* The caller's thread.  The borrow checker lets it reach the session only *)
(* while it holds no iterator.                                             *)
(***************************************************************************)
IterLogs(i) ==
  /\ caller = "idle" /\ held = NoIterator
  /\ worker[i] = "unborn"
  /\ \E f \in Fates : fate' = [fate EXCEPT ![i] = f]
  /\ rx' = [rx EXCEPT ![i] = "open"]
  /\ Goto(i, "starting")
  /\ held' = i
  /\ UNCHANGED <<result, sent, chan, caller, delivered, ended>>

CallNext(i) ==
  /\ caller = "idle" /\ held = i
  /\ caller' = "receiving"
  /\ UNCHANGED <<fate, workerVars, chan, rx, held, delivered, ended>>

NextIsItem(i) ==
  /\ caller = "receiving" /\ held = i
  /\ chan[i] # <<>>
  /\ delivered' = [delivered EXCEPT ![i] = Append(@, Head(chan[i]))]
  /\ chan' = [chan EXCEPT ![i] = Tail(@)]
  /\ caller' = "idle"
  /\ UNCHANGED <<fate, workerVars, rx, held, ended>>

\* Mutant: the iterator keeps a clone of the sender, so recv never fails.
SenderNeverDropped(i) ==
  /\ caller = "receiving" /\ held = i
  /\ chan[i] = <<>>
  /\ rx[i] = "closed"
  /\ ended' = [ended EXCEPT ![i] = TRUE]
  /\ caller' = "idle"
  /\ UNCHANGED <<fate, workerVars, chan, rx, held, delivered>>

NextIsNone(i) ==
  /\ caller = "receiving" /\ held = i
  /\ chan[i] = <<>>
  /\ worker[i] = "exited"
  /\ ended' = [ended EXCEPT ![i] = TRUE]
  /\ caller' = "idle"
  /\ UNCHANGED <<fate, workerVars, chan, rx, held, delivered>>

\* Mutant: Drop joins the worker before it drops the receiver.
JoinFirst(i) ==
  /\ caller = "idle" /\ held = i
  /\ caller' = "joining"
  /\ UNCHANGED <<fate, workerVars, chan, rx, held, delivered, ended>>

\* Drop first replaces the receiver, which discards what it had buffered ...
DropReceiver(i) ==
  /\ caller = "idle" /\ held = i
  /\ rx' = [rx EXCEPT ![i] = "closed"]
  /\ chan' = [chan EXCEPT ![i] = <<>>]
  /\ caller' = "joining"
  /\ UNCHANGED <<fate, workerVars, held, delivered, ended>>

\* Mutant: Drop only signals the worker and does not wait for it.
JoinNothing(i) ==
  /\ caller = "joining" /\ held = i
  /\ held' = NoIterator
  /\ caller' = "idle"
  /\ UNCHANGED <<fate, workerVars, chan, rx, delivered, ended>>

\* ... and then waits for the worker, ignoring a panic.
JoinWorker(i) ==
  /\ caller = "joining" /\ held = i
  /\ worker[i] = "exited"
  /\ held' = NoIterator
  /\ caller' = "idle"
  /\ UNCHANGED <<fate, workerVars, chan, rx, delivered, ended>>

\* mem::forget is safe Rust: the borrow ends and Drop never runs.
Forget(i) ==
  /\ caller = "idle" /\ held = i
  /\ held' = NoIterator
  /\ UNCHANGED <<fate, workerVars, chan, rx, caller, delivered, ended>>

EnterSession ==
  /\ caller = "idle" /\ held = NoIterator
  /\ caller' = "calling"
  /\ UNCHANGED <<fate, workerVars, chan, rx, held, delivered, ended>>

LeaveSession ==
  /\ caller = "calling"
  /\ caller' = "idle"
  /\ UNCHANGED <<fate, workerVars, chan, rx, held, delivered, ended>>

\* The caller drops the session, whose pool frees everything in it.
CloseSession ==
  /\ caller = "idle" /\ held = NoIterator
  /\ caller' = "closed"
  /\ UNCHANGED <<fate, workerVars, chan, rx, held, delivered, ended>>

Caller(i) ==
  \/ IterLogs(i)
  \/ CallNext(i)
  \/ NextIsItem(i)
  \/ NextIsNone(i)
  \/ DropReceiver(i)
  \/ JoinWorker(i)
  \/ Forget(i)

Next ==
  \/ \E i \in Iterators : Worker(i) \/ Caller(i)
  \/ EnterSession
  \/ LeaveSession
  \/ CloseSession

(***************************************************************************)
(* Fairness.  A runnable thread is scheduled, and the C library returns    *)
(* from a retrieval.  The caller finishes a next(), a drop or a session    *)
(* call it has begun; nothing makes it begin one.                          *)
(***************************************************************************)
Fairness ==
  /\ \A i \in Iterators :
       /\ WF_vars(Worker(i))
       /\ WF_vars(NextIsItem(i))
       /\ WF_vars(NextIsNone(i))
       /\ WF_vars(JoinWorker(i))
  /\ WF_vars(LeaveSession)

Spec == Init /\ [][Next]_vars
FairSpec == Spec /\ Fairness

-----------------------------------------------------------------------------
TypeOK ==
  /\ fate \in [Iterators -> Fates]
  /\ worker \in [Iterators -> {"unborn", "starting", "retrieving", "sending",
                              "returned", "exited"}]
  /\ result \in [Iterators -> {"none", "ok", "failed", "cancelled"}]
  /\ sent \in [Iterators -> 0..MaxEntries + 1]
  /\ chan \in [Iterators -> Seq(Items)]
  /\ \A i \in Iterators : Len(chan[i]) <= Capacity
  /\ rx \in [Iterators -> {"none", "open", "closed"}]
  /\ held \in Iterators \cup {NoIterator}
  /\ caller \in {"idle", "receiving", "joining", "calling", "closed"}
  /\ delivered \in [Iterators -> Seq(Items)]
  /\ ended \in [Iterators -> BOOLEAN]

\* The caller has forgotten iterator i: its receiver will never be dropped.
Forgotten(i) == rx[i] = "open" /\ held # i

(***************************************************************************)
(* The safety comment of iter_logs: the session is a raw pointer in the    *)
(* worker, so no worker may be inside it while the caller calls it, once   *)
(* the caller has dropped it, or while another worker is inside it.  Drop  *)
(* sees to that: only the workers of forgotten iterators do it.            *)
(***************************************************************************)
DropExcludes ==
  /\ caller \in {"calling", "closed"} =>
       \A i \in Iterators : InSession(i) => Forgotten(i)
  /\ \A i, j \in Iterators :
       InSession(i) /\ InSession(j) => i = j \/ Forgotten(i) \/ Forgotten(j)

(***************************************************************************)
(* What next() returns, whatever the interleaving of the two threads and   *)
(* wherever the channel stands: every entry once and in order, then the    *)
(* failure, and None only after everything the retrieval had to report.    *)
(* The None of a retrieval that the caller's own cancel callback stopped   *)
(* is left out (endedAsTold): the stream owes an error there, as           *)
(* set_cancel_handler says, and the code drops it.  Its entries are not.   *)
(***************************************************************************)
ImplementsLogStream == Stream!Spec

\* Dropping an iterator terminates, even with the worker blocked on a full
\* channel: the code's drop "joins the worker thread" and must not hang.
DropTerminates == (caller = "joining") ~> (caller = "idle")

\* A call of next() returns: the worker sends or exits on every path.
NextReturns == (caller = "receiving") ~> (caller = "idle")

\* Asking for more until told None.
Asking(i) == CallNext(i) /\ ~ended[i]
Eager == \A i \in Iterators : WF_vars(Asking(i))

\* A caller that keeps calling next() reaches the end of the log, with all that
\* the worker sends delivered, unless it drops the iterator first.
ReaderReachesEnd ==
  Eager =>
    \A i \in Iterators :
      (status[i] = "open") ~> (\/ status[i] = "gone"
                               \/ ended[i] /\ Len(delivered[i]) = Sends(fate[i]))
=============================================================================
