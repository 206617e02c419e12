------------------------------- MODULE Streams -------------------------------
(***************************************************************************)
(* Stream values (io.rs): who frees the memory behind an svn_stream_t, and  *)
(* who may still reach it.                                                 *)
(*                                                                         *)
(* from_backend and wrap_write box what the callbacks of a stream need and *)
(* give the box to the C library as a baton; the close callback frees it.  *)
(* It runs when the program calls Stream::close, when the library closes   *)
(* the stream, as svn_stream_copy3 does with both of its own, when a       *)
(* stream made over this one is closed, and, if needs_close is set, when   *)
(* the value is dropped.                                                   *)
(*                                                                         *)
(* No lifetime ties a stream to the streams under it, or to the writer or  *)
(* string it was made from: liberties are what the types let a program do. *)
(***************************************************************************)
EXTENDS Naturals

CONSTANTS
  Streams,   \* the Stream values a run may make
  Programs   \* sets of liberties: the programs a run is about

\* What a program may do because the types allow it.
Liberties ==
  {"reuse",        \* call a stream again after it was closed
   "under",        \* close or drop a stream that another one in use is over
   "target",       \* drop the writer or the string before its stream
   "hand",         \* have a stream that needs_close closed by others
   "unclosed"}     \* drop a stream that was not closed

ASSUME LibertyKinds == Programs \subseteq SUBSET Liberties

VARIABLES
  liberties,   \* those that the program takes
  kind,        \* kind[s]: what stream s was made from
  value,       \* value[s]: "none", "held" or "dropped"; the pool goes with it
  box,         \* box[s]: the baton, "none", "live" or "freed"
  needsClose,  \* needsClose[s]: needs_close
  uses,        \* uses[s]: the streams whose memory a call on s touches
  closes,      \* closes[s]: the streams whose close callback closing s runs
  usable,      \* the streams the program may still call
  gone         \* the streams whose writer or string has been dropped

layers == <<uses, closes>>
vars == <<liberties, kind, value, box, needsClose, uses, closes, usable, gone>>

Kinds == {"none", "memory", "string", "backend", "writer", "over", "tee"}

May(l) == l \in liberties

\* Calling s is defined: nothing it touches has been freed.
Intact(s) ==
  \A t \in uses[s] :
    value[t] = "held" /\ box[t] # "freed" /\ t \notin gone

Callable(s) == s \in usable /\ value[s] = "held" /\ Intact(s)

Make(s, k, b, u, c) ==
  /\ value[s] = "none"
  /\ kind' = [kind EXCEPT ![s] = k]
  /\ value' = [value EXCEPT ![s] = "held"]
  /\ box' = [box EXCEPT ![s] = b]
  /\ uses' = [uses EXCEPT ![s] = {s} \cup u]
  /\ closes' = [closes EXCEPT ![s] = {s} \cup c]
  /\ usable' = usable \cup {s}
  /\ UNCHANGED gone

Init ==
  /\ liberties \in Programs
  /\ kind = [s \in Streams |-> "none"]
  /\ value = [s \in Streams |-> "none"]
  /\ box = [s \in Streams |-> "none"]
  /\ needsClose = [s \in Streams |-> FALSE]
  /\ uses = [s \in Streams |-> {}]
  /\ closes = [s \in Streams |-> {}]
  /\ usable = {}
  /\ gone = {}

-----------------------------------------------------------------------------
(***************************************************************************)
(* Making streams.                                                         *)
(***************************************************************************)
\* empty, buffered, From<&[u8]>, the files: all of it is in the stream's pool.
FromBytes(s) ==
  /\ Make(s, "memory", "none", {}, {})
  /\ UNCHANGED needsClose

FromStringbuf(s) ==
  /\ Make(s, "string", "none", {}, {})
  /\ UNCHANGED needsClose

FromBackend(s) ==
  /\ Make(s, "backend", "live", {}, {})
  /\ UNCHANGED needsClose

\* Mutant: wrap_write leaves needs_close unset.
WrapWriteUnclosed(s) ==
  /\ Make(s, "writer", "live", {}, {})
  /\ UNCHANGED needsClose

WrapWrite(s) ==
  /\ Make(s, "writer", "live", {}, {})
  /\ needsClose' = [needsClose EXCEPT ![s] = TRUE]

\* compressed, checksummed: closing the new stream closes the old one.
Over(s, p) ==
  /\ Callable(p)
  /\ Make(s, "over", "none", uses[p], closes[p])
  /\ UNCHANGED needsClose

\* svn_stream_disown: the close does not reach the old stream.
Disown(s, p) ==
  /\ Callable(p)
  /\ Make(s, "over", "none", uses[p], {})
  /\ UNCHANGED needsClose

\* Two streams with nothing in common: closing what they share would happen twice.
Tee(s, a, b) ==
  /\ Callable(a) /\ Callable(b)
  /\ uses[a] \cap uses[b] = {}
  /\ Make(s, "tee", "none", uses[a] \cup uses[b], closes[a] \cup closes[b])
  /\ UNCHANGED needsClose

-----------------------------------------------------------------------------
(***************************************************************************)
(* Closing and dropping them.                                              *)
(***************************************************************************)
\* No stream in use, but those in C, touches one in C.
Topmost(C) == \A d \in usable \ C : uses[d] \cap C = {}

Freed(C) == [t \in Streams |-> IF t \in C /\ box[t] = "live" THEN "freed" ELSE box[t]]

\* The streams of C have been closed.  A program that calls one again takes a liberty,
\* also where an error has not told it which of them were.
Shut(C) ==
  /\ May("under") \/ Topmost(C)
  /\ box' = Freed(C)
  /\ \/ usable' = usable \ C
     \/ May("reuse") /\ usable' = usable

\* What a close of s has closed when it returns: all that it reaches, or less if a
\* layer fails, which still has to compress or to read, before it closes what is
\* under it.  The callbacks of a backend and a writer free their box in any case.
Closings(s) == {C \in SUBSET closes[s] : kind[s] \in {"over", "tee"} \/ s \in C}

\* Mutant: needs_close stays as it was.
CloseForgets(s) ==
  /\ Callable(s)
  /\ \A t \in closes[s] \ {s} : needsClose[t] => May("hand")
  /\ \E C \in Closings(s) : Shut(C)
  /\ UNCHANGED <<kind, value, needsClose, layers, gone>>

\* Stream::close, Ok or not.
Close(s) ==
  /\ Callable(s)
  /\ \A t \in closes[s] \ {s} : needsClose[t] => May("hand")
  /\ needsClose' = [needsClose EXCEPT ![s] = FALSE]
  /\ \E C \in Closings(s) : Shut(C)
  /\ UNCHANGED <<kind, value, layers, gone>>

\* stream_copy, streams_contents_same: the C functions close what they were given,
\* when they fail too.
Consume(a, b) ==
  /\ Callable(a) /\ Callable(b)
  /\ uses[a] \cap uses[b] = {}
  /\ \A t \in closes[a] \cup closes[b] : needsClose[t] => May("hand")
  /\ \E C \in Closings(a), D \in Closings(b) : Shut(C \cup D)
  /\ UNCHANGED <<kind, value, needsClose, layers, gone>>

\* Writers and tees have no read callback, nor has what is over one.
Readable(s) == \A t \in uses[s] : kind[t] \notin {"writer", "tee"}

\* string_from_stream, contents_checksum: they read to the end and then close, and
\* leave the stream as it is when the reading fails.
ReadToEnd(s) ==
  /\ Callable(s)
  /\ \E C \in SUBSET closes[s] :
       /\ C # {} => Readable(s) /\ C \in Closings(s)
       /\ Shut(C)
  /\ UNCHANGED <<kind, value, needsClose, layers, gone>>

\* Mutant: every stream is closed when it is dropped.
DropCloses(s) ==
  /\ value[s] = "held"
  /\ May("under") \/ Topmost({s})
  /\ value' = [value EXCEPT ![s] = "dropped"]
  /\ box' = Freed(closes[s])
  /\ usable' = usable \ {s}
  /\ UNCHANGED <<kind, needsClose, layers, gone>>

\* Mutant: a value that was dropped can be used.
DropStreamKeeps(s) ==
  /\ value[s] = "held"
  /\ value' = [value EXCEPT ![s] = "dropped"]
  /\ UNCHANGED <<kind, box, needsClose, layers, usable, gone>>

\* Drop for Stream.  A second close of a freed baton is undefined: ClosesOnce is
\* about it.
DropStream(s) ==
  /\ value[s] = "held"
  /\ needsClose[s] => Intact(s)
  /\ May("under") \/ Topmost({s})
  /\ s \in usable /\ kind[s] = "backend" => May("unclosed")
  /\ value' = [value EXCEPT ![s] = "dropped"]
  /\ box' = IF needsClose[s] THEN Freed({s}) ELSE box
  /\ usable' = usable \ {s}
  /\ UNCHANGED <<kind, needsClose, layers, gone>>

\* The program drops the writer of wrap_write, or the StringBuf.
DropTarget(s) ==
  /\ kind[s] \in {"string", "writer"} /\ s \notin gone
  /\ value[s] = "held" => May("target")
  /\ gone' = gone \cup {s}
  /\ UNCHANGED <<kind, value, box, needsClose, layers, usable>>

Step ==
  \/ \E s \in Streams :
       \/ FromBytes(s) \/ FromStringbuf(s) \/ FromBackend(s) \/ WrapWrite(s)
       \/ Close(s) \/ ReadToEnd(s) \/ DropStream(s) \/ DropTarget(s)
       \/ \E p \in Streams :
            \/ Over(s, p) \/ Disown(s, p) \/ Consume(s, p)
            \/ \E b \in Streams : Tee(s, p, b)

Next == Step /\ UNCHANGED liberties

Spec == Init /\ [][Next]_vars

-----------------------------------------------------------------------------
TypeOK ==
  /\ liberties \in Programs
  /\ kind \in [Streams -> Kinds]
  /\ value \in [Streams -> {"none", "held", "dropped"}]
  /\ box \in [Streams -> {"none", "live", "freed"}]
  /\ needsClose \in [Streams -> BOOLEAN]
  /\ uses \in [Streams -> SUBSET Streams]
  /\ closes \in [Streams -> SUBSET Streams]
  /\ usable \subseteq Streams
  /\ gone \subseteq Streams
  /\ \A s \in usable : value[s] = "held"

(***************************************************************************)
(* Whatever order streams are layered, closed by the program or by the     *)
(* library, and dropped in, a stream the program may still call reaches    *)
(* only memory that is there: the callbacks of from_backend and wrap_write *)
(* never see a baton that close_trampoline or close_fn has freed, and the  *)
(* C stream under another is not gone.                                     *)
(***************************************************************************)
CallsDefined == \A s \in usable : Intact(s)

(***************************************************************************)
(* needs_close: dropping the stream will run its close callback, so the    *)
(* box that callback frees, and the writer it flushes, are still there.    *)
(* close_fn frees its box at every call.                                   *)
(***************************************************************************)
ClosesOnce ==
  \A s \in Streams :
    value[s] = "held" /\ needsClose[s] => box[s] = "live" /\ s \notin gone

(***************************************************************************)
(* The box of a stream whose value is gone has been freed: by close_trampoline *)
(* for a backend, by close_fn for a writer.                                *)
(***************************************************************************)
NoLeak == \A s \in Streams : value[s] = "dropped" => box[s] # "live"

-----------------------------------------------------------------------------
(***************************************************************************)
(* What a program may rely on, by the liberties it takes.                  *)
(***************************************************************************)
Layered == ~(May("reuse") \/ May("under") \/ May("target"))
Kept == ~(May("hand") \/ May("target"))

\* If streams are used from the top and closed once, and writers kept, no call
\* reaches freed memory, whoever closes them.
LayeredCallsDefined == Layered => CallsDefined

\* If only the program closes a stream that needs_close, and keeps its writer, its
\* drop finds both, even if it is called after a close or dropped out of order.
KeptCloseOnce == Kept => ClosesOnce

\* If backends are closed, themselves or through a stream over them, and again after a
\* close or a function that failed before it reached them, nothing leaks.
ClosedFree == ~May("unclosed") => NoLeak
=============================================================================
