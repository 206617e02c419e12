------------------------- MODULE LogIterator_proofs -------------------------
(***************************************************************************)
(* Proofs about LogIterator, for any number of iterators, entries and any  *)
(* channel capacity:                                                       *)
(*   TypeCorrect    the type invariant;                                    *)
(*   Exclusion      a caller meets no worker inside its session but those  *)
(*                  of iterators it has forgotten;                         *)
(*   Refinement     the threads and the channel implement LogStream;       *)
(*   NoDeadlock     a caller waits for a worker only if it can go on;      *)
(*   WorkersEnd     and a worker takes a bounded number of steps;          *)
(*   Delivery       next() returns the items in order, then None for good. *)
(***************************************************************************)
EXTENDS LogIterator, TLAPS

USE CapacityPositive, NoIteratorFresh, EntriesBound

-----------------------------------------------------------------------------
(* The items of a retrieval. *)

\* Every retrieval of Fates has a natural number of entries within the bound.
LEMMA FateBounds ==
  ASSUME NEW f \in Fates
  PROVE  /\ f.entries \in Nat
         /\ f.entries <= MaxEntries
         /\ f.outcome \in {"ok", "failed", "cancelled", "panicked"}
         /\ f.outcome = "panicked" => f.entries = 0
  BY DEF Fates, Stream!Fates, Stream!Outcomes

\* Entries and the failure are items of the channel.
LEMMA ItemTypes ==
  /\ \A n \in Nat : Entry(n) \in Items
  /\ Failure \in Items
  BY DEF Items, Entry, Failure, Stream!Items, Stream!Entry, Stream!Failure

(***************************************************************************)
(* What the worker's control state says about the items it has sent.       *)
(***************************************************************************)
Phase(i) ==
  /\ worker[i] = "unborn" =>
       /\ rx[i] = "none" /\ sent[i] = 0 /\ chan[i] = <<>>
       /\ delivered[i] = <<>> /\ ended[i] = FALSE
       /\ held # i
  /\ worker[i] # "unborn" => rx[i] # "none"
  /\ worker[i] = "starting" => sent[i] = 0
  /\ worker[i] = "retrieving" => sent[i] <= fate[i].entries
  /\ worker[i] = "retrieving" => fate[i].outcome # "panicked"
  /\ worker[i] = "sending" => sent[i] < fate[i].entries
  /\ worker[i] = "sending" => fate[i].outcome # "panicked"
  /\ worker[i] = "returned" =>
       /\ result[i] # "none"
       /\ sent[i] <= fate[i].entries
       /\ result[i] = "cancelled" =>
            rx[i] = "closed" \/ (fate[i].outcome = "cancelled" /\ sent[i] = fate[i].entries)
       /\ result[i] # "cancelled" =>
            fate[i].outcome = result[i] /\ sent[i] = fate[i].entries
  /\ worker[i] = "exited" /\ rx[i] = "open" => sent[i] = Sends(fate[i])

\* The phases, with the types they need.
PhaseInv ==
  /\ TypeOK
  /\ \A i \in Iterators : Phase(i)

LEMMA PhaseInit == Init => PhaseInv
  BY FateBounds DEF Init, PhaseInv, TypeOK, Phase, Fates, Items,
     Stream!Fates, Stream!Outcomes, Stream!Items

\* A step of one worker preserves the phases.
LEMMA PhaseWorker ==
  ASSUME PhaseInv, NEW i \in Iterators, Worker(i)
  PROVE  PhaseInv'
<1> USE DEF PhaseInv, TypeOK, Phase, Goto, workerVars, callerVars
<1>f. fate[i] \in Fates
  OBVIOUS
<1>b. /\ fate[i].entries \in Nat
      /\ fate[i].entries <= MaxEntries
      /\ fate[i].outcome \in {"ok", "failed", "cancelled", "panicked"}
      /\ fate[i].outcome = "panicked" => fate[i].entries = 0
  BY <1>f, FateBounds
<1>1. CASE ConvertArguments(i)
  BY <1>1, <1>b DEF ConvertArguments, Sends
<1>2. CASE ReceiveEntry(i)
  BY <1>2, <1>b DEF ReceiveEntry
<1>3. CASE SendEntry(i)
  <2>1. Entry(sent[i] + 1) \in Items
    BY ItemTypes
  <2>2. Append(chan[i], Entry(sent[i] + 1)) \in Seq(Items)
    BY <2>1
  <2>3. Len(Append(chan[i], Entry(sent[i] + 1))) = Len(chan[i]) + 1
    BY <2>1
  <2> QED
    BY SMTT(20), <1>3, <1>b, <2>2, <2>3 DEF SendEntry, Enqueue
<1>4. CASE SendRefused(i)
  BY <1>4, <1>b DEF SendRefused
<1>5. CASE RetrievalReturns(i)
  BY SMTT(20), <1>5, <1>b DEF RetrievalReturns
<1>6. CASE FinishQuietly(i)
  BY SMTT(20), <1>6, <1>b DEF FinishQuietly, Sends
<1>7. CASE ReportFailure(i)
  <2>1. Append(chan[i], Failure) \in Seq(Items)
    BY ItemTypes
  <2>2. Len(Append(chan[i], Failure)) = Len(chan[i]) + 1
    BY ItemTypes
  <2>3. sent[i] = fate[i].entries /\ fate[i].outcome = "failed"
    BY <1>7 DEF ReportFailure
  <2>4. CASE Enqueue(i, Failure)
    <3>1. TypeOK'
      BY SMTT(20), <1>7, <1>b, <2>1, <2>2, <2>4 DEF ReportFailure, Enqueue
    <3>2. ASSUME NEW j \in Iterators PROVE Phase(j)'
      BY <1>7, <1>b, <2>3, <2>4, <3>2 DEF ReportFailure, Enqueue, Sends
    <3> QED
      BY <3>1, <3>2
  <2>5. CASE rx[i] = "closed" /\ UNCHANGED <<chan, sent>>
    BY <1>7, <1>b, <2>3, <2>5 DEF ReportFailure
  <2> QED
    BY <1>7, <2>4, <2>5 DEF ReportFailure
<1> QED
  BY <1>1, <1>2, <1>3, <1>4, <1>5, <1>6, <1>7 DEF Worker

\* A step of the caller's thread preserves them.
LEMMA PhaseCaller ==
  ASSUME PhaseInv, NEW i \in Iterators, Caller(i)
  PROVE  PhaseInv'
<1> USE DEF PhaseInv, TypeOK, Phase, Goto, workerVars, callerVars
<1>1. CASE IterLogs(i)
  BY <1>1 DEF IterLogs
<1>2. CASE CallNext(i)
  BY <1>2 DEF CallNext
<1>3. CASE NextIsItem(i)
  <2>1. /\ Head(chan[i]) \in Items
        /\ Tail(chan[i]) \in Seq(Items)
        /\ Len(Tail(chan[i])) <= Capacity
    BY <1>3 DEF NextIsItem
  <2>2. Append(delivered[i], Head(chan[i])) \in Seq(Items)
    BY <2>1
  <2> QED
    BY <1>3, <2>1, <2>2 DEF NextIsItem
<1>4. CASE NextIsNone(i)
  BY <1>4 DEF NextIsNone
<1>5. CASE DropReceiver(i)
  BY <1>5 DEF DropReceiver
<1>6. CASE JoinWorker(i)
  BY <1>6 DEF JoinWorker
<1>7. CASE Forget(i)
  BY <1>7 DEF Forget
<1> QED
  BY <1>1, <1>2, <1>3, <1>4, <1>5, <1>6, <1>7 DEF Caller

LEMMA PhaseNext == PhaseInv /\ [Next]_vars => PhaseInv'
<1> SUFFICES ASSUME PhaseInv, [Next]_vars PROVE PhaseInv'
  OBVIOUS
<1>1. CASE \E i \in Iterators : Worker(i) \/ Caller(i)
  BY <1>1, PhaseWorker, PhaseCaller
<1>2. CASE EnterSession \/ LeaveSession \/ CloseSession \/ UNCHANGED vars
  BY <1>2 DEF PhaseInv, TypeOK, Phase, EnterSession, LeaveSession, CloseSession,
              vars, workerVars
<1> QED
  BY <1>1, <1>2 DEF Next

THEOREM PhaseCorrect == Spec => []PhaseInv
  BY PhaseInit, PhaseNext, PTL DEF Spec

(***************************************************************************)
(* Every variable keeps its type: in particular the channel never holds    *)
(* more than Capacity items and no worker sends more than its retrieval    *)
(* produced.                                                               *)
(***************************************************************************)
THEOREM TypeCorrect == Spec => []TypeOK
<1>1. PhaseInv => TypeOK
  BY DEF PhaseInv
<1> QED
  BY <1>1, PhaseCorrect, PTL

-----------------------------------------------------------------------------
(***************************************************************************)
(* Exclusion.  The borrow of an iterator outlasts its worker.              *)
(***************************************************************************)
Borrow ==
  /\ \A i \in Iterators :
       /\ worker[i] \notin {"unborn", "exited"} => held = i \/ rx[i] = "open"
       /\ held = i => rx[i] = "open" \/ caller = "joining"
  /\ caller \in {"receiving", "joining"} => held # NoIterator
  /\ caller \in {"calling", "closed"} => held = NoIterator

LEMMA BorrowInit == Init => Borrow
  BY DEF Init, Borrow

LEMMA BorrowNext ==
  ASSUME PhaseInv, Borrow, [Next]_vars
  PROVE  Borrow'
<1> USE DEF PhaseInv, TypeOK, Borrow, Goto, workerVars, callerVars
<1>1. ASSUME NEW i \in Iterators, Worker(i) PROVE Borrow'
  BY <1>1 DEF Worker, ConvertArguments, ReceiveEntry, SendEntry, SendRefused,
              RetrievalReturns, FinishQuietly, ReportFailure
<1>2. ASSUME NEW i \in Iterators, Caller(i) PROVE Borrow'
  <2>1. CASE IterLogs(i)
    BY <2>1 DEF IterLogs
  <2>2. CASE JoinWorker(i)
    BY <2>2 DEF JoinWorker
  <2>3. CASE CallNext(i) \/ NextIsItem(i) \/ NextIsNone(i) \/ DropReceiver(i)
    BY <2>3 DEF CallNext, NextIsItem, NextIsNone, DropReceiver
  <2>4. CASE Forget(i)
    BY <2>4 DEF Forget
  <2> QED
    BY <1>2, <2>1, <2>2, <2>3, <2>4 DEF Caller
<1>3. CASE EnterSession \/ LeaveSession \/ CloseSession \/ UNCHANGED vars
  BY <1>3 DEF EnterSession, LeaveSession, CloseSession, vars
<1> QED
  BY <1>1, <1>2, <1>3 DEF Next

\* The borrow and the phases together exclude the caller and other workers.
LEMMA BorrowExcludes == PhaseInv /\ Borrow => DropExcludes
  BY DEF PhaseInv, TypeOK, Borrow, DropExcludes, Forgotten, InSession

(***************************************************************************)
(* The safety comment of iter_logs is right about iterators whose Drop     *)
(* runs: their workers are never inside a session that its owner uses, has *)
(* closed, or has lent to another worker.                                  *)
(***************************************************************************)
THEOREM Exclusion == Spec => []DropExcludes
<1>1. Init => Borrow
  BY BorrowInit
<1>2. PhaseInv /\ Borrow /\ [Next]_vars => Borrow'
  BY BorrowNext
<1>3. PhaseInv /\ Borrow => DropExcludes
  BY BorrowExcludes
<1> QED
  BY <1>1, <1>2, <1>3, PhaseCorrect, PTL DEF Spec

-----------------------------------------------------------------------------
(***************************************************************************)
(* Refinement.  The channel holds exactly the items that follow those      *)
(* delivered, as long as its receiver is open.                             *)
(***************************************************************************)
Pipeline(i) ==
  /\ rx[i] = "open" =>
       /\ Len(delivered[i]) + Len(chan[i]) = sent[i]
       /\ sent[i] <= Sends(fate[i])
       /\ \A k \in 1..Len(chan[i]) :
            chan[i][k] = Stream!ItemAt(fate[i], Len(delivered[i]) + k)
  /\ rx[i] = "closed" => held # i \/ caller = "joining"
  /\ ended[i] => /\ worker[i] = "exited" /\ chan[i] = <<>>
                 /\ Len(delivered[i]) = Sends(fate[i])

PipelineInv ==
  /\ PhaseInv
  /\ \A i \in Iterators : Pipeline(i)

LEMMA PipelineInit == Init => PipelineInv
  BY PhaseInit DEF Init, PipelineInv, Pipeline

\* A full retrieval never sends more than it has to report.
LEMMA SendsBounds ==
  ASSUME NEW f \in Fates
  PROVE  /\ Sends(f) \in Nat
         /\ f.entries <= Sends(f)
         /\ f.outcome = "failed" => Sends(f) = f.entries + 1
  BY FateBounds DEF Sends

\* It sends what the stream owes, but for the error of a cancellation.
LEMMA YieldBounds ==
  ASSUME NEW f \in Fates
  PROVE  /\ Stream!Yield(f) \in Nat
         /\ Sends(f) <= Stream!Yield(f)
         /\ f.outcome # "cancelled" => Sends(f) = Stream!Yield(f)
  BY FateBounds DEF Sends, Stream!Yield

\* The lengths the pipeline adds up are numbers.
LEMMA Lengths ==
  ASSUME PipelineInv, NEW i \in Iterators
  PROVE  Len(delivered[i]) \in Nat /\ Len(chan[i]) \in Nat /\ sent[i] \in Nat
<1>1. delivered[i] \in Seq(Items) /\ chan[i] \in Seq(Items) /\ sent[i] \in 0..MaxEntries + 1
  BY DEF PipelineInv, PhaseInv, TypeOK
<1> QED
  BY <1>1

\* A step that leaves an iterator alone leaves its pipeline as it was.
LEMMA PipelineFrame ==
  ASSUME NEW j \in Iterators, PipelineInv,
         chan'[j] = chan[j], sent'[j] = sent[j], worker'[j] = worker[j],
         UNCHANGED <<fate, rx, delivered, ended, held, caller>>
  PROVE  Pipeline(j)'
<1>1. Pipeline(j)
  BY DEF PipelineInv
<1> QED
  BY <1>1 DEF Pipeline

\* Putting on one iterator's channel what comes next touches no other's.
LEMMA EnqueueFrame ==
  ASSUME PipelineInv, NEW i \in Iterators, NEW j \in Iterators \ {i},
         NEW item, Enqueue(i, item)
  PROVE  chan'[j] = chan[j] /\ sent'[j] = sent[j]
<1>1. DOMAIN chan = Iterators /\ DOMAIN sent = Iterators
  BY DEF PipelineInv, PhaseInv, TypeOK
<1> QED
  BY <1>1 DEF Enqueue

LEMMA PipelineWorker ==
  ASSUME PipelineInv, NEW i \in Iterators, Worker(i)
  PROVE  PipelineInv'
<1>p. PhaseInv'
  BY PhaseWorker DEF PipelineInv
<1>l. Len(delivered[i]) \in Nat /\ Len(chan[i]) \in Nat /\ sent[i] \in Nat
  BY Lengths
<1> USE <1>p DEF PipelineInv, PhaseInv, TypeOK, Pipeline, Goto, workerVars, callerVars
<1>b. /\ fate[i].entries \in Nat
      /\ Sends(fate[i]) \in Nat
      /\ fate[i].entries <= Sends(fate[i])
      /\ fate[i].outcome = "failed" => Sends(fate[i]) = fate[i].entries + 1
  BY SendsBounds, FateBounds
<1>c. worker[i] # "exited" => ~ended[i]
  OBVIOUS
<1>1. CASE ConvertArguments(i) \/ ReceiveEntry(i) \/ SendRefused(i)
           \/ RetrievalReturns(i) \/ FinishQuietly(i)
  <2>1. UNCHANGED <<fate, sent, chan, rx, callerVars>>
    BY <1>1 DEF ConvertArguments, ReceiveEntry, SendRefused, RetrievalReturns,
                FinishQuietly
  <2>2. \A j \in Iterators : worker[j] = "exited" => worker'[j] = "exited"
    BY <1>1 DEF ConvertArguments, ReceiveEntry, SendRefused, RetrievalReturns,
                FinishQuietly
  <2> QED
    BY <2>1, <2>2
<1>2. ASSUME NEW item \in Items, Enqueue(i, item),
             item = Stream!ItemAt(fate[i], sent[i] + 1),
             sent[i] < Sends(fate[i]), ~ended[i],
             UNCHANGED <<fate, rx, callerVars>>,
             \A j \in Iterators \ {i} : worker'[j] = worker[j]
      PROVE  PipelineInv'
  <2>1. chan'[i] = Append(chan[i], item) /\ sent'[i] = sent[i] + 1
    BY <1>2 DEF Enqueue
  <2>2. /\ Len(chan'[i]) = Len(chan[i]) + 1
        /\ \A k \in 1..Len(chan[i]) : chan'[i][k] = chan[i][k]
        /\ chan'[i][Len(chan[i]) + 1] = item
    BY <2>1
  <2>4. rx[i] = "open"
    BY <1>2 DEF Enqueue
  <2>5. \A k \in 1..Len(chan'[i]) :
          chan'[i][k] = Stream!ItemAt(fate[i], Len(delivered[i]) + k)
    <3>1. Len(delivered[i]) + (Len(chan[i]) + 1) = sent[i] + 1
      BY <1>l, <2>4
    <3>2. \A k \in 1..Len(chan[i]) :
            chan[i][k] = Stream!ItemAt(fate[i], Len(delivered[i]) + k)
      BY <2>4
    <3>3. TAKE k \in 1..Len(chan'[i])
    <3>4. CASE k \in 1..Len(chan[i])
      BY <2>2, <3>2, <3>4
    <3>5. CASE k = Len(chan[i]) + 1
      BY <1>2, <2>2, <3>1, <3>5
    <3> QED
      BY <1>l, <2>2, <3>4, <3>5
  <2>6. Pipeline(i)'
    <3>1. UNCHANGED <<fate, rx, delivered, ended, held, caller>>
      BY <1>2
    <3>2. (Len(delivered[i]) + Len(chan[i]) = sent[i])' /\ (sent[i] <= Sends(fate[i]))'
      BY SMTT(20), <1>2, <1>b, <1>l, <2>1, <2>2, <2>4, <3>1
    <3>3. ~ended'[i] /\ rx'[i] = "open"
      BY <1>2, <2>4, <3>1
    <3> QED
      BY <2>5, <3>1, <3>2, <3>3
  <2>7. \A j \in Iterators \ {i} : Pipeline(j)'
    <3> HIDE DEF PipelineInv, PhaseInv, TypeOK, Pipeline, Goto, workerVars
    <3> TAKE j \in Iterators \ {i}
    <3>1. chan'[j] = chan[j] /\ sent'[j] = sent[j]
      BY <1>2, EnqueueFrame
    <3>2. worker'[j] = worker[j] /\ UNCHANGED <<fate, rx, delivered, ended, held, caller>>
      BY <1>2
    <3> QED
      BY <3>1, <3>2, PipelineFrame
  <2> HIDE DEF PhaseInv, TypeOK, Pipeline
  <2> QED
    BY <1>p, <2>6, <2>7
<1>3. CASE SendEntry(i)
  <2>1. sent[i] < fate[i].entries /\ sent[i] \in Nat
    BY <1>3 DEF SendEntry, Phase
  <2>2. Entry(sent[i] + 1) = Stream!ItemAt(fate[i], sent[i] + 1)
    BY <2>1, <1>b DEF Stream!ItemAt, Entry
  <2>3. Entry(sent[i] + 1) \in Items
    BY ItemTypes, <2>1
  <2>4. /\ Enqueue(i, Entry(sent[i] + 1))
        /\ ~ended[i]
        /\ UNCHANGED <<fate, rx, callerVars>>
        /\ \A j \in Iterators \ {i} : worker'[j] = worker[j]
    BY <1>3, <1>c DEF SendEntry
  <2>5. sent[i] < Sends(fate[i])
    BY <2>1, <1>b
  <2> QED
    BY <2>2, <2>3, <2>4, <2>5, <1>2
<1>4. CASE ReportFailure(i)
  <2>1. sent[i] = fate[i].entries /\ fate[i].outcome = "failed" /\ ~ended[i]
    BY <1>4, <1>c DEF ReportFailure, Phase
  <2>2. CASE Enqueue(i, Failure)
    <3>1. Failure = Stream!ItemAt(fate[i], sent[i] + 1)
      BY <2>1, <1>b DEF Stream!ItemAt, Failure
    <3>2. /\ UNCHANGED <<fate, rx, callerVars>>
          /\ \A j \in Iterators \ {i} : worker'[j] = worker[j]
      BY <1>4 DEF ReportFailure
    <3>3. sent[i] < Sends(fate[i])
      BY <2>1, <1>b
    <3> QED
      BY <2>1, <2>2, <3>1, <3>2, <3>3, <1>2, ItemTypes
  <2>3. CASE rx[i] = "closed" /\ UNCHANGED <<chan, sent>>
    BY <1>4, <2>1, <2>3 DEF ReportFailure
  <2> QED
    BY <1>4, <2>2, <2>3 DEF ReportFailure
<1> QED
  BY <1>1, <1>3, <1>4 DEF Worker

LEMMA PipelineCaller ==
  ASSUME PipelineInv, NEW i \in Iterators, Caller(i)
  PROVE  PipelineInv'
<1>p. PhaseInv'
  BY PhaseCaller DEF PipelineInv
<1> USE <1>p DEF PipelineInv, PhaseInv, TypeOK, Pipeline, Goto, workerVars, callerVars
<1>1. CASE IterLogs(i)
  <2>1. /\ worker[i] = "unborn" /\ sent[i] = 0 /\ chan[i] = <<>>
        /\ delivered[i] = <<>> /\ ended[i] = FALSE
    BY <1>1 DEF IterLogs, Phase
  <2>2. fate'[i] \in Fates
    OBVIOUS
  <2>3. 0 <= Sends(fate'[i])
    BY <2>2, SendsBounds
  <2>4. Pipeline(i)'
    BY <1>1, <2>1, <2>3 DEF IterLogs
  <2>5. \A j \in Iterators \ {i} : Pipeline(j)'
    BY <1>1 DEF IterLogs, Phase
  <2> HIDE DEF TypeOK, PhaseInv, Pipeline
  <2> QED
    BY <1>p, <2>4, <2>5
<1>2. CASE CallNext(i)
  BY <1>2 DEF CallNext
<1>3. CASE NextIsItem(i)
  <2>1. rx[i] = "open" /\ ~ended[i]
    BY <1>3 DEF NextIsItem, Phase
  <2>2. /\ Len(delivered'[i]) = Len(delivered[i]) + 1
        /\ Len(chan'[i]) = Len(chan[i]) - 1
        /\ Len(chan[i]) \in Nat /\ Len(delivered[i]) \in Nat
        /\ \A k \in 1..Len(chan'[i]) : chan'[i][k] = chan[i][k + 1]
    BY <1>3 DEF NextIsItem
  <2>3. \A k \in 1..Len(chan'[i]) :
          chan'[i][k] = Stream!ItemAt(fate[i], Len(delivered'[i]) + k)
    <3>1. \A k \in 1..Len(chan[i]) :
            chan[i][k] = Stream!ItemAt(fate[i], Len(delivered[i]) + k)
      BY <2>1
    <3>2. TAKE k \in 1..Len(chan'[i])
    <3>3. k + 1 \in 1..Len(chan[i])
      BY <2>2, <3>2
    <3>4. Len(delivered[i]) + (k + 1) = Len(delivered'[i]) + k
      BY <2>2, <3>2
    <3> QED
      BY <2>2, <3>1, <3>3, <3>4
  <2>4. Pipeline(i)'
    BY <1>3, <2>1, <2>2, <2>3 DEF NextIsItem
  <2>5. \A j \in Iterators \ {i} : Pipeline(j)'
    BY <1>3 DEF NextIsItem
  <2> HIDE DEF TypeOK, PhaseInv, Pipeline
  <2> QED
    BY <1>p, <2>4, <2>5
<1>4. CASE NextIsNone(i)
  <2>1. rx[i] = "open" /\ sent[i] = Sends(fate[i]) /\ Len(chan[i]) = 0
    BY <1>4 DEF NextIsNone, Phase
  <2>2. Len(delivered[i]) = Sends(fate[i])
    BY <2>1
  <2> QED
    BY <1>4, <2>2 DEF NextIsNone
<1>5. CASE DropReceiver(i)
  <2>1. Pipeline(i)'
    BY <1>5 DEF DropReceiver
  <2>2. \A j \in Iterators \ {i} : Pipeline(j)'
    BY <1>5 DEF DropReceiver
  <2> HIDE DEF TypeOK, PhaseInv, Pipeline
  <2> QED
    BY <1>p, <2>1, <2>2
<1>6. CASE JoinWorker(i)
  BY <1>6 DEF JoinWorker
<1>7. CASE Forget(i)
  BY <1>7 DEF Forget
<1> QED
  BY <1>1, <1>2, <1>3, <1>4, <1>5, <1>6, <1>7 DEF Caller

LEMMA PipelineNext == PipelineInv /\ [Next]_vars => PipelineInv'
<1> SUFFICES ASSUME PipelineInv, [Next]_vars PROVE PipelineInv'
  OBVIOUS
<1>1. CASE \E i \in Iterators : Worker(i) \/ Caller(i)
  BY <1>1, PipelineWorker, PipelineCaller
<1>2. CASE EnterSession \/ LeaveSession \/ CloseSession \/ UNCHANGED vars
  <2>1. PhaseInv'
    BY PhaseNext DEF PipelineInv
  <2>2. /\ UNCHANGED <<fate, workerVars, chan, rx, held, delivered, ended>>
        /\ caller = "joining" => caller' = "joining"
    BY <1>2 DEF EnterSession, LeaveSession, CloseSession, vars, workerVars
  <2> QED
    BY <2>1, <2>2 DEF PipelineInv, Pipeline, workerVars
<1> QED
  BY <1>1, <1>2 DEF Next

LEMMA RefinementInit == Init => Stream!Init
  BY DEF Init, Stream!Init, status, endedAsTold

\* A worker changes nothing the caller can see.
LEMMA WorkerStutters ==
  ASSUME PipelineInv, NEW i \in Iterators, Worker(i)
  PROVE  UNCHANGED <<fate, delivered, endedAsTold, status>>
<1> USE DEF PipelineInv, PhaseInv, TypeOK, Goto, workerVars, callerVars
<1>1. UNCHANGED <<fate, held, caller, delivered, ended>>
  BY DEF Worker, ConvertArguments, ReceiveEntry, SendEntry, SendRefused,
         RetrievalReturns, FinishQuietly, ReportFailure
<1>2. \A j \in Iterators : worker'[j] = "unborn" <=> worker[j] = "unborn"
  BY DEF Worker, ConvertArguments, ReceiveEntry, SendEntry, SendRefused,
         RetrievalReturns, FinishQuietly, ReportFailure
<1> QED
  BY <1>1, <1>2 DEF status, endedAsTold

\* Each step of the caller is one step of the stream, or none.
LEMMA CallerRefines ==
  ASSUME PipelineInv, NEW i \in Iterators, Caller(i)
  PROVE  Stream!Next \/ UNCHANGED <<fate, delivered, endedAsTold, status>>
<1> USE DEF PipelineInv, PhaseInv, TypeOK, Goto, workerVars, callerVars
<1>s. status \in [Iterators -> {"none", "open", "gone"}]
  BY DEF status
<1>1. CASE IterLogs(i)
  <2>1. status[i] = "none"
    BY <1>1 DEF IterLogs, status
  <2>2. status' = [status EXCEPT ![i] = "open"]
    BY <1>1 DEF IterLogs, status
  <2>3. endedAsTold' = endedAsTold
    BY <1>1 DEF IterLogs, Phase, endedAsTold
  <2>4. Stream!Open(i)
    BY <1>1, <2>1, <2>2, <2>3 DEF IterLogs, Stream!Open, Fates
  <2> QED
    BY <2>4 DEF Stream!Next
<1>2. CASE CallNext(i)
  BY <1>2 DEF CallNext, status, endedAsTold
<1>3. CASE NextIsItem(i)
  <2>1. /\ rx[i] = "open" /\ ~ended[i] /\ worker[i] # "unborn"
        /\ Len(delivered[i]) + Len(chan[i]) = sent[i]
        /\ sent[i] <= Sends(fate[i])
        /\ \A k \in 1..Len(chan[i]) :
             chan[i][k] = Stream!ItemAt(fate[i], Len(delivered[i]) + k)
    <3>1. /\ caller = "receiving" /\ held = i /\ chan[i] # <<>>
      BY <1>3 DEF NextIsItem
    <3>2. rx[i] = "open" /\ worker[i] # "unborn"
      BY <3>1 DEF Phase, Pipeline
    <3> QED
      BY <3>1, <3>2 DEF Pipeline
  <2>a. /\ held = i /\ caller = "receiving" /\ caller' = "idle"
        /\ held' = held /\ worker' = worker
    BY <1>3 DEF NextIsItem
  <2>2. status[i] = "open" /\ status' = status
    <3> HIDE DEF TypeOK, PhaseInv, PipelineInv
    <3> QED
      BY <2>a, <2>1 DEF status
  <2>3. /\ Len(chan[i]) \in Nat /\ Len(chan[i]) >= 1
        /\ Head(chan[i]) = chan[i][1]
    BY <1>3 DEF NextIsItem
  <2>4. Stream!Yield(fate[i]) \in Nat /\ Sends(fate[i]) \in Nat
        /\ Sends(fate[i]) <= Stream!Yield(fate[i])
    BY YieldBounds, SendsBounds
  <2>5. Len(delivered[i]) < Stream!Yield(fate[i])
    BY <2>1, <2>3, <2>4
  <2>6. Head(chan[i]) = Stream!ItemAt(fate[i], Len(delivered[i]) + 1)
    BY <2>1, <2>3
  <2>7. ~endedAsTold[i] /\ endedAsTold' = endedAsTold
    BY <1>3, <2>1 DEF NextIsItem, endedAsTold
  <2>8. Stream!YieldNext(i)
    BY <1>3, <2>1, <2>2, <2>5, <2>6, <2>7 DEF NextIsItem, Stream!YieldNext
  <2> QED
    BY <2>8 DEF Stream!Next
<1>4. CASE NextIsNone(i)
  <2>1. /\ worker[i] = "exited" /\ rx[i] = "open" /\ chan[i] = <<>>
        /\ Len(delivered[i]) + Len(chan[i]) = sent[i]
        /\ sent[i] = Sends(fate[i])
    BY <1>4 DEF NextIsNone, Phase, Pipeline
  <2>2. status[i] = "open" /\ status' = status
    BY <1>4, <2>1 DEF NextIsNone, status
  <2>3. CASE fate[i].outcome = "cancelled"
    <3>1. endedAsTold' = endedAsTold
      BY <1>4, <2>3 DEF NextIsNone, endedAsTold
    <3> QED
      BY <1>4, <2>2, <3>1 DEF NextIsNone
  <2>4. CASE fate[i].outcome # "cancelled"
    <3>1. Len(delivered[i]) = Stream!Yield(fate[i])
      BY <2>1, <2>4, YieldBounds
    <3>2. endedAsTold' = [endedAsTold EXCEPT ![i] = TRUE]
      BY <1>4, <2>4 DEF NextIsNone, endedAsTold
    <3>3. Stream!End(i)
      BY <1>4, <2>2, <3>1, <3>2 DEF NextIsNone, Stream!End
    <3> QED
      BY <3>3 DEF Stream!Next
  <2> QED
    BY <2>3, <2>4
<1>5. CASE DropReceiver(i) \/ Forget(i)
  <2>1. worker[i] # "unborn" /\ held = i /\ caller = "idle"
    BY <1>5 DEF DropReceiver, Forget, Phase
  <2>a. /\ worker' = worker
        /\ \/ held' = i /\ caller' = "joining"
           \/ held' = NoIterator
    BY <1>5, <2>1 DEF DropReceiver, Forget
  <2>2. status[i] = "open" /\ status' = [status EXCEPT ![i] = "gone"]
    <3> HIDE DEF TypeOK, PhaseInv, PipelineInv
    <3> QED
      BY <2>a, <2>1 DEF status
  <2>3. endedAsTold' = endedAsTold
    BY <1>5 DEF DropReceiver, Forget, endedAsTold
  <2>4. Stream!Close(i)
    BY <1>5, <2>2, <2>3 DEF DropReceiver, Forget, Stream!Close
  <2> QED
    BY <2>4 DEF Stream!Next
<1>6. CASE JoinWorker(i)
  BY <1>6 DEF JoinWorker, status, endedAsTold
<1> QED
  BY <1>1, <1>2, <1>3, <1>4, <1>5, <1>6 DEF Caller

LEMMA RefinementNext ==
  ASSUME PipelineInv, [Next]_vars
  PROVE  [Stream!Next]_(Stream!vars)
<1> USE DEF Stream!vars
<1>1. ASSUME NEW i \in Iterators, Worker(i) PROVE UNCHANGED Stream!vars
  BY <1>1, WorkerStutters
<1>2. ASSUME NEW i \in Iterators, Caller(i) PROVE [Stream!Next]_(Stream!vars)
  BY <1>2, CallerRefines
<1>3. CASE EnterSession \/ LeaveSession \/ CloseSession \/ UNCHANGED vars
  BY <1>3 DEF EnterSession, LeaveSession, CloseSession, vars, workerVars, status,
              endedAsTold
<1> QED
  BY <1>1, <1>2, <1>3 DEF Next

(***************************************************************************)
(* The worker thread, the channel and the two halves of Drop implement the *)
(* abstract stream: what next() returns does not depend on how the threads *)
(* interleave, on the capacity of the channel, or on whether an iterator   *)
(* is dropped or forgotten.  Of a retrieval that the caller's own callback *)
(* cancels the stream sees the entries and not the None that ends it.      *)
(***************************************************************************)
THEOREM Refinement == Spec => ImplementsLogStream
<1>1. PipelineInv /\ [Next]_vars => PipelineInv'
  BY PipelineNext
<1>2. PipelineInv /\ [Next]_vars => [Stream!Next]_(Stream!vars)
  BY RefinementNext
<1> QED
  BY <1>1, <1>2, PipelineInit, RefinementInit, PTL
     DEF Spec, ImplementsLogStream, Stream!Spec
-----------------------------------------------------------------------------
(***************************************************************************)
(* Progress: what the liveness properties need besides fairness.  The      *)
(* caller waits for the worker only when the worker can take a step, and   *)
(* the steps of a worker are numbered.                                     *)
(***************************************************************************)
\* A send is refused, or there is room for it.
SendReturns(i) == rx[i] = "closed" \/ (rx[i] = "open" /\ Len(chan[i]) < Capacity)

\* The guards of the worker's actions.
Ready(i) ==
  \/ worker[i] = "starting"
  \/ worker[i] = "retrieving" /\ sent[i] <= fate[i].entries
  \/ worker[i] = "sending" /\ SendReturns(i)
  \/ worker[i] = "returned" /\ result[i] \in {"ok", "cancelled"}
  \/ worker[i] = "returned" /\ result[i] = "failed" /\ SendReturns(i)

\* The caller waits for iterator i.
WaitsFor(i) == held = i /\ caller \in {"receiving", "joining"}

\* What a waiting caller waits for is there, or the worker is free to bring it.
NeverStuck ==
  /\ caller \in {"receiving", "joining"} => held \in Iterators
  /\ \A i \in Iterators : WaitsFor(i) =>
       \/ worker[i] = "exited"
       \/ caller = "receiving" /\ chan[i] # <<>>
       \/ Ready(i)

\* The steps that a worker has left at most.
Left(i) ==
  IF worker[i] = "exited"
    THEN 0
    ELSE LET entries == 2 * (fate[i].entries - sent[i]) IN
         CASE worker[i] = "unborn"     -> 2 * MaxEntries + 5
           [] worker[i] = "starting"   -> entries + 4
           [] worker[i] = "retrieving" -> entries + 3
           [] worker[i] = "sending"    -> entries + 2
           [] worker[i] = "returned"   -> entries + 1

LeftBounded == \A i \in Iterators : Left(i) \in 0 .. 2 * MaxEntries + 5

\* Every step of a worker is one fewer, and no step of another thread is one more.
LeftShrinks ==
  \A i \in Iterators : Left(i)' <= Left(i) /\ (Worker(i) => Left(i)' < Left(i))

\* The half of Drop that waits comes after the half that closes.
ClosedToJoin == \A i \in Iterators : held = i /\ caller = "joining" => rx[i] = "closed"

LEMMA ClosedToJoinNext ==
  ASSUME PhaseInv, ClosedToJoin, [Next]_vars
  PROVE  ClosedToJoin'
<1> USE DEF PhaseInv, TypeOK, ClosedToJoin, workerVars, callerVars
<1>1. ASSUME NEW i \in Iterators, Worker(i) PROVE ClosedToJoin'
  BY <1>1 DEF Worker, ConvertArguments, ReceiveEntry, SendEntry, SendRefused,
              RetrievalReturns, FinishQuietly, ReportFailure
<1>2. ASSUME NEW i \in Iterators, Caller(i) PROVE ClosedToJoin'
  BY <1>2 DEF Caller, IterLogs, CallNext, NextIsItem, NextIsNone, DropReceiver,
              JoinWorker, Forget
<1>3. CASE EnterSession \/ LeaveSession \/ CloseSession \/ UNCHANGED vars
  BY <1>3 DEF EnterSession, LeaveSession, CloseSession, vars
<1> QED
  BY <1>1, <1>2, <1>3 DEF Next

\* With the receiver closed, or the buffer empty, nothing holds a worker up.
LEMMA ReadyIfWaited ==
  ASSUME PhaseInv, Borrow, ClosedToJoin
  PROVE  NeverStuck
<1> USE DEF PhaseInv, TypeOK, Borrow, ClosedToJoin
<1>1. caller \in {"receiving", "joining"} => held \in Iterators
  OBVIOUS
<1>2. ASSUME NEW i \in Iterators, WaitsFor(i), worker[i] # "exited",
             ~(caller = "receiving" /\ chan[i] # <<>>)
      PROVE  Ready(i)
  <2>1. SendReturns(i)
    <3>1. CASE caller = "joining"
      BY <1>2, <3>1 DEF WaitsFor, SendReturns
    <3>2. CASE caller = "receiving"
      BY <1>2, <3>2 DEF WaitsFor, SendReturns
    <3> QED
      BY <1>2, <3>1, <3>2 DEF WaitsFor
  <2>2. worker[i] \in {"starting", "retrieving", "sending", "returned"}
    BY <1>2 DEF WaitsFor, Phase
  <2>3. worker[i] = "retrieving" => sent[i] <= fate[i].entries
    BY DEF Phase
  <2>4. worker[i] = "returned" => result[i] \in {"ok", "failed", "cancelled"}
    BY DEF Phase
  <2> QED
    BY <2>1, <2>2, <2>3, <2>4 DEF Ready
<1> QED
  BY <1>1, <1>2 DEF NeverStuck

(***************************************************************************)
(* No deadlock of the two threads, for every capacity: a caller in next()  *)
(* or in drop waits for a worker that has exited or can take a step, also  *)
(* with a full channel, since Drop closes the receiver first.              *)
(***************************************************************************)
THEOREM NoDeadlock == Spec => []NeverStuck
<1>1. Init => Borrow /\ ClosedToJoin
  BY BorrowInit DEF Init, ClosedToJoin
<1>2. PhaseInv /\ Borrow /\ [Next]_vars => Borrow'
  BY BorrowNext
<1>3. PhaseInv /\ ClosedToJoin /\ [Next]_vars => ClosedToJoin'
  BY ClosedToJoinNext
<1>4. PhaseInv /\ Borrow /\ ClosedToJoin => NeverStuck
  BY ReadyIfWaited
<1> QED
  BY <1>1, <1>2, <1>3, <1>4, PhaseCorrect, PTL DEF Spec

LEMMA PhaseLeft == PhaseInv => LeftBounded
<1> SUFFICES ASSUME PhaseInv, NEW i \in Iterators
             PROVE  Left(i) \in 0 .. 2 * MaxEntries + 5
  BY DEF LeftBounded
<1>1. fate[i].entries \in Nat /\ fate[i].entries <= MaxEntries /\ sent[i] \in Nat
  BY FateBounds DEF PhaseInv, TypeOK
<1>2. worker[i] \in {"starting", "retrieving", "sending", "returned"}
        => sent[i] <= fate[i].entries
  BY <1>1 DEF PhaseInv, Phase
<1>3. worker[i] \in {"unborn", "starting", "retrieving", "sending", "returned", "exited"}
  BY DEF PhaseInv, TypeOK
<1> QED
  BY <1>1, <1>2, <1>3 DEF Left

LEMMA WorkerShrinks ==
  ASSUME PhaseInv, NEW i \in Iterators, Worker(i)
  PROVE  Left(i)' < Left(i) /\ \A j \in Iterators \ {i} : Left(j)' = Left(j)
<1> USE DEF PhaseInv, TypeOK, Goto, workerVars, callerVars
<1>b. fate[i].entries \in Nat /\ sent[i] \in Nat
  BY FateBounds
<1>p. worker[i] \in {"retrieving", "sending", "returned"} => sent[i] <= fate[i].entries
  BY <1>b DEF Phase
<1>1. CASE ConvertArguments(i)
  <2>1. Left(i) = 2 * (fate[i].entries - sent[i]) + 4 /\ sent[i] = 0
    BY <1>1 DEF ConvertArguments, Left, Phase
  <2> QED
    BY <1>1, <1>b, <2>1 DEF ConvertArguments, Left
<1>2. CASE ReceiveEntry(i)
  BY SMTT(20), <1>2, <1>b DEF ReceiveEntry, Left
<1>3. CASE SendEntry(i)
  <2>1. worker[i] = "sending" /\ worker' = [worker EXCEPT ![i] = "retrieving"]
    BY <1>3 DEF SendEntry
  <2>2. sent' = [sent EXCEPT ![i] = @ + 1] /\ fate' = fate
    BY <1>3 DEF SendEntry, Enqueue
  <2>3. Left(i) = 2 * (fate[i].entries - sent[i]) + 2
    BY <2>1 DEF Left
  <2>4. Left(i)' = 2 * (fate[i].entries - (sent[i] + 1)) + 3
    <3>1. worker'[i] = "retrieving" /\ sent'[i] = sent[i] + 1 /\ fate'[i] = fate[i]
      BY <2>1, <2>2
    <3> QED
      BY <3>1 DEF Left
  <2>5. \A j \in Iterators \ {i} : Left(j)' = Left(j)
    BY <2>1, <2>2 DEF Left
  <2> QED
    BY <1>b, <2>3, <2>4, <2>5
<1>4. CASE SendRefused(i)
  BY <1>4, <1>b DEF SendRefused, Left
<1>5. CASE RetrievalReturns(i)
  BY <1>5, <1>b DEF RetrievalReturns, Left
<1>6. CASE FinishQuietly(i)
  BY <1>6, <1>b, <1>p DEF FinishQuietly, Left
<1>7. CASE ReportFailure(i)
  BY SMTT(20), <1>7, <1>b, <1>p DEF ReportFailure, Enqueue, Left
<1> QED
  BY <1>1, <1>2, <1>3, <1>4, <1>5, <1>6, <1>7 DEF Worker

\* A worker's step is seen in its control state, and in that of no other.
LEMMA WorkerMoves ==
  ASSUME PhaseInv, NEW i \in Iterators, Worker(i)
  PROVE  worker'[i] # worker[i] /\ worker[i] # "unborn"
BY DEF PhaseInv, TypeOK, Goto, Worker, ConvertArguments, ReceiveEntry, SendEntry,
       SendRefused, RetrievalReturns, FinishQuietly, ReportFailure

LEMMA ShrinksNext ==
  ASSUME PhaseInv, [Next]_vars
  PROVE  [LeftShrinks]_vars
<1>n. \A i \in Iterators : Left(i) \in 0 .. 2 * MaxEntries + 5
  BY PhaseLeft DEF LeftBounded
<1>m. \A i \in Iterators : Left(i)' \in 0 .. 2 * MaxEntries + 5
  <2>1. PhaseInv'
    BY PhaseNext
  <2>2. LeftBounded'
    BY <2>1, PhaseLeft, PTL
  <2> QED
    BY <2>2 DEF LeftBounded
<1>1. ASSUME NEW i \in Iterators, Worker(i) PROVE LeftShrinks
  <2>1. Left(i)' < Left(i) /\ \A j \in Iterators \ {i} : Left(j)' = Left(j)
    BY <1>1, WorkerShrinks
  <2>2. ASSUME NEW j \in Iterators \ {i} PROVE ~Worker(j)
    <3>1. worker'[j] = worker[j]
      BY <1>1 DEF PhaseInv, TypeOK, Goto, Worker, ConvertArguments, ReceiveEntry, SendEntry,
                  SendRefused, RetrievalReturns, FinishQuietly, ReportFailure
    <3> QED
      BY <3>1, WorkerMoves
  <2>3. Left(i)' <= Left(i)
    BY <2>1, <1>n, <1>m
  <2>4. ASSUME NEW j \in Iterators
        PROVE  Left(j)' <= Left(j) /\ (Worker(j) => Left(j)' < Left(j))
    <3>1. CASE j = i
      BY <2>1, <2>3, <3>1
    <3>2. CASE j # i
      <4>1. Left(j)' = Left(j) /\ ~Worker(j) /\ Left(j) \in Nat
        BY <2>1, <2>2, <1>n, <3>2
      <4> QED
        BY <4>1
    <3> QED
      BY <3>1, <3>2
  <2> QED
    BY <2>4 DEF LeftShrinks
<1>2. ASSUME NEW i \in Iterators, IterLogs(i) PROVE LeftShrinks
  <2>1. fate'[i] \in Fates /\ sent[i] = 0 /\ worker[i] = "unborn" /\ worker'[i] = "starting"
    BY <1>2 DEF IterLogs, Goto, workerVars, PhaseInv, TypeOK, Phase
  <2>2. Left(i)' <= Left(i)
    <3>1. fate'[i].entries \in Nat /\ fate'[i].entries <= MaxEntries
      BY <2>1, FateBounds
    <3>2. Left(i) = 2 * MaxEntries + 5
      BY <2>1 DEF Left
    <3>3. sent'[i] = 0
      BY <1>2, <2>1 DEF IterLogs
    <3>4. Left(i)' = 2 * (fate'[i].entries - 0) + 4
      BY <2>1, <3>3 DEF Left
    <3> QED
      BY <3>1, <3>2, <3>4
  <2>3. ASSUME NEW j \in Iterators \ {i}
        PROVE  Left(j)' = Left(j) /\ worker'[j] = worker[j]
    BY <1>2 DEF IterLogs, Goto, Left, PhaseInv, TypeOK
  <2>4. \A j \in Iterators : ~Worker(j)
    BY <2>1, <2>3, WorkerMoves
  <2> QED
    BY <2>2, <2>3, <2>4, <1>n DEF LeftShrinks
<1>3. ASSUME UNCHANGED <<fate, worker, sent>> PROVE LeftShrinks
  <2>1. \A j \in Iterators : Left(j)' = Left(j) /\ ~Worker(j)
    BY <1>3, WorkerMoves DEF Left
  <2> QED
    BY <2>1, <1>n DEF LeftShrinks
<1>4. CASE \E i \in Iterators : Caller(i)
  BY <1>4, <1>2, <1>3 DEF Caller, CallNext, NextIsItem, NextIsNone, DropReceiver, JoinWorker,
     Forget, workerVars
<1>5. CASE EnterSession \/ LeaveSession \/ CloseSession
  BY <1>5, <1>3 DEF EnterSession, LeaveSession, CloseSession, workerVars
<1> QED
  BY <1>1, <1>4, <1>5 DEF Next

(***************************************************************************)
(* A worker comes to its end: it takes a bounded number of steps, which    *)
(* neither the caller nor another worker can add to.  With NoDeadlock and  *)
(* a fair scheduler a drop returns, and so does a next().                  *)
(***************************************************************************)
THEOREM WorkersEnd == Spec => []LeftBounded /\ [][LeftShrinks]_vars
<1>1. PhaseInv /\ [Next]_vars => [LeftShrinks]_vars
  BY ShrinksNext
<1> QED
  BY <1>1, PhaseLeft, PhaseCorrect, PTL DEF Spec

-----------------------------------------------------------------------------
(***************************************************************************)
(* What the abstract stream says of the items themselves, and so, by the   *)
(* refinement, what the two threads and their channel deliver.             *)
(***************************************************************************)
\* What next() has returned is the beginning of what the retrieval owes, each item at
\* its place; None comes when all that the worker sends has been returned, which is all
\* that is owed unless the caller's own callback cancelled the retrieval.
DeliversInOrder ==
  \A i \in Iterators :
    /\ Len(delivered[i]) <= Stream!Yield(fate[i])
    /\ \A k \in 1 .. Len(delivered[i]) : delivered[i][k] = Stream!ItemAt(fate[i], k)
    /\ endedAsTold[i] => Len(delivered[i]) = Stream!Yield(fate[i])

\* None comes after all that the worker sends, whatever stopped the retrieval.
AllBeforeNone == \A i \in Iterators : ended[i] => Len(delivered[i]) = Sends(fate[i])

\* What next() has returned is not taken back, and what a retrieval has to report is
\* settled before anything of it is returned.
StreamGrows ==
  \A i \in Iterators :
    /\ delivered'[i] = delivered[i] \/
         \E e \in Items : delivered'[i] = Append(delivered[i], e)
    /\ delivered[i] # << >> => fate'[i] = fate[i]

\* After None, whatever it ended, next() returns nothing else.
NoneIsFinal ==
  \A i \in Iterators :
    ended[i] => ended'[i] /\ delivered'[i] = delivered[i] /\ fate'[i] = fate[i]

NothingTakenBack == StreamGrows /\ NoneIsFinal

StreamInv ==
  /\ fate \in [Iterators -> Fates]
  /\ delivered \in [Iterators -> Seq(Items)]
  /\ endedAsTold \in [Iterators -> BOOLEAN]
  /\ \A i \in Iterators : status[i] = "none" => delivered[i] = << >> /\ ~endedAsTold[i]
  /\ DeliversInOrder

\* What a retrieval reports are items.
LEMMA ItemsOfStream ==
  ASSUME NEW f \in Fates, NEW k \in Nat
  PROVE  Stream!ItemAt(f, k) \in Items
BY DEF Stream!ItemAt, Stream!Entry, Stream!Failure, Items, Stream!Items

LEMMA StreamInit == Stream!Init => StreamInv
<1> SUFFICES ASSUME Stream!Init PROVE StreamInv
  OBVIOUS
<1>1. [entries |-> 0, outcome |-> "ok"] \in Fates
  BY EntriesBound DEF Fates, Stream!Fates, Stream!Outcomes
<1>2. << >> \in Seq(Items)
  OBVIOUS
<1>3. /\ fate \in [Iterators -> Fates] /\ delivered \in [Iterators -> Seq(Items)]
      /\ endedAsTold \in [Iterators -> BOOLEAN]
      /\ \A i \in Iterators : delivered[i] = << >> /\ ~endedAsTold[i]
  BY <1>1, <1>2 DEF Stream!Init
<1>4. \A i \in Iterators : Stream!Yield(fate[i]) \in Nat
  BY <1>3, YieldBounds
<1> QED BY <1>3, <1>4 DEF StreamInv, DeliversInOrder

LEMMA StreamStep ==
  ASSUME StreamInv, [Stream!Next]_(Stream!vars)
  PROVE  StreamInv' /\ StreamGrows
<1> USE DEF StreamInv
<1>1. CASE UNCHANGED Stream!vars
  BY <1>1 DEF Stream!vars, DeliversInOrder, StreamGrows
<1>2. ASSUME NEW i \in Iterators, Stream!Open(i)
      PROVE  StreamInv' /\ StreamGrows
  <2>1. /\ delivered[i] = << >> /\ ~endedAsTold[i]
        /\ fate' \in [Iterators -> Fates]
        /\ \A j \in Iterators \ {i} : fate'[j] = fate[j] /\ status'[j] = status[j]
        /\ UNCHANGED <<delivered, endedAsTold>>
    BY <1>2 DEF Stream!Open, Fates
  <2>2. Stream!Yield(fate'[i]) \in Nat
    BY <2>1, YieldBounds
  <2>3. DeliversInOrder'
    <3>1. Len(delivered'[i]) = 0 /\ ~endedAsTold'[i]
      BY <2>1
    <3>2. \A j \in Iterators \ {i} :
            delivered'[j] = delivered[j] /\ endedAsTold'[j] = endedAsTold[j] /\ fate'[j] = fate[j]
      BY <2>1
    <3> QED BY <2>2, <3>1, <3>2 DEF DeliversInOrder
  <2>4. \A j \in Iterators : status'[j] = "none" => delivered'[j] = << >> /\ ~endedAsTold'[j]
    BY <2>1
  <2>5. StreamGrows
    BY <2>1 DEF StreamGrows
  <2> QED BY <2>1, <2>3, <2>4, <2>5
<1>3. ASSUME NEW i \in Iterators, Stream!YieldNext(i)
      PROVE  StreamInv' /\ StreamGrows
  <2> DEFINE item == Stream!ItemAt(fate[i], Len(delivered[i]) + 1)
  <2>1. /\ status[i] = "open" /\ ~endedAsTold[i]
        /\ Len(delivered[i]) < Stream!Yield(fate[i])
        /\ delivered' = [delivered EXCEPT ![i] = Append(delivered[i], item)]
        /\ UNCHANGED <<fate, endedAsTold, status>>
    BY <1>3 DEF Stream!YieldNext
  <2>2. Stream!Yield(fate[i]) \in Nat /\ item \in Items
    BY YieldBounds, ItemsOfStream
  <2> HIDE DEF item
  <2>3. /\ delivered' \in [Iterators -> Seq(Items)]
        /\ delivered'[i] = Append(delivered[i], item)
        /\ \A j \in Iterators \ {i} : delivered'[j] = delivered[j]
    BY <2>1, <2>2
  <2>4. /\ Len(delivered'[i]) = Len(delivered[i]) + 1
        /\ delivered'[i][Len(delivered[i]) + 1] = item
        /\ \A k \in 1 .. Len(delivered[i]) : delivered'[i][k] = delivered[i][k]
    BY <2>2, <2>3
  <2>5. DeliversInOrder'
    BY <2>1, <2>2, <2>3, <2>4 DEF DeliversInOrder, item
  <2>6. StreamGrows
    BY <2>1, <2>2, <2>3 DEF StreamGrows
  <2> QED BY <2>1, <2>3, <2>5, <2>6
<1>4. ASSUME NEW i \in Iterators, Stream!End(i)
      PROVE  StreamInv' /\ StreamGrows
  BY <1>4 DEF Stream!End, DeliversInOrder, StreamGrows
<1>5. ASSUME NEW i \in Iterators, Stream!Close(i)
      PROVE  StreamInv' /\ StreamGrows
  <2>1. /\ \A j \in Iterators : status'[j] = "none" => status[j] = "none"
        /\ UNCHANGED <<fate, delivered, endedAsTold>>
    BY <1>5 DEF Stream!Close
  <2> QED BY <2>1 DEF DeliversInOrder, StreamGrows
<1> QED BY <1>1, <1>2, <1>3, <1>4, <1>5 DEF Stream!Next

LEMMA NoneIsFinalNext ==
  ASSUME PipelineInv, [Next]_vars
  PROVE  NoneIsFinal
<1> USE DEF PipelineInv, PhaseInv, TypeOK, NoneIsFinal, workerVars, callerVars
<1>1. ASSUME NEW i \in Iterators, Worker(i) PROVE NoneIsFinal
  BY <1>1 DEF Worker, ConvertArguments, ReceiveEntry, SendEntry, SendRefused,
              RetrievalReturns, FinishQuietly, ReportFailure
<1>2. ASSUME NEW i \in Iterators, Caller(i) PROVE NoneIsFinal
  <2>1. CASE IterLogs(i)
    BY <2>1 DEF IterLogs, Phase
  <2>2. CASE NextIsItem(i)
    <3>1. ~ended[i]
      BY <2>2 DEF NextIsItem, Pipeline
    <3> QED
      BY <2>2, <3>1 DEF NextIsItem
  <2>3. CASE CallNext(i) \/ NextIsNone(i) \/ DropReceiver(i) \/ JoinWorker(i) \/ Forget(i)
    BY <2>3 DEF CallNext, NextIsNone, DropReceiver, JoinWorker, Forget
  <2> QED
    BY <1>2, <2>1, <2>2, <2>3 DEF Caller
<1>3. CASE EnterSession \/ LeaveSession \/ CloseSession \/ UNCHANGED vars
  BY <1>3 DEF EnterSession, LeaveSession, CloseSession, vars
<1> QED
  BY <1>1, <1>2, <1>3 DEF Next

(***************************************************************************)
(* The items that next() returns are those of the retrieval, in order and  *)
(* without a gap, then its failure; None comes after all of them that the  *)
(* worker sends, and is final.  The order is derived from the stream that  *)
(* the iterator implements with no look at the threads; that None is last, *)
(* after a cancellation too, from the invariant of the channel.            *)
(***************************************************************************)
THEOREM Delivery == Spec => []DeliversInOrder /\ []AllBeforeNone /\ [][NothingTakenBack]_vars
<1>1. Stream!Init => StreamInv
  BY StreamInit
<1>2. StreamInv /\ [Stream!Next]_(Stream!vars) => StreamInv'
  BY StreamStep
<1>3. StreamInv /\ [Stream!Next]_(Stream!vars) => StreamGrows
  BY StreamStep
<1>4. StreamInv => DeliversInOrder
  BY DEF StreamInv
<1>5. PipelineInv => AllBeforeNone
  BY DEF PipelineInv, Pipeline, AllBeforeNone
<1>6. PipelineInv /\ [Next]_vars => PipelineInv'
  BY PipelineNext
<1>7. PipelineInv /\ [Next]_vars => NoneIsFinal
  BY NoneIsFinalNext
<1>8. StreamGrows /\ NoneIsFinal => NothingTakenBack
  BY DEF NothingTakenBack
<1> QED
  BY <1>1, <1>2, <1>3, <1>4, <1>5, <1>6, <1>7, <1>8, PipelineInit, Refinement, PTL
     DEF Spec, ImplementsLogStream, Stream!Spec

=============================================================================
