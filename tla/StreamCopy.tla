----------------------------- MODULE StreamCopy -----------------------------
(***************************************************************************)
(* The bytes that go through a stream (io.rs, backend.rs), from a Rust     *)
(* reader behind from_backend to a Rust writer behind from_backend or      *)
(* wrap_write.                                                             *)
(*                                                                         *)
(* The library's driver is svn_stream_copy3, called by stream_copy: it     *)
(* asks for Chunk bytes at a time, and one that comes back shorter is the  *)
(* last.  read_trampoline is registered as a read that fills its buffer,   *)
(* and calls StreamBackend::read once.  The program's driver is a loop     *)
(* over the impls of std::io::Read and Write for Stream, which goes on     *)
(* until a read returns nothing.                                           *)
(***************************************************************************)
EXTENDS Naturals, Sequences

CONSTANTS
  MaxSize,  \* bound on the bytes the reader has
  Chunk,    \* SVN__STREAM_CHUNK_SIZE, or the buffer of the program's loop
  Drivers,  \* who drives: "library", "program"
  Ends      \* what the ends may be like: values of short

ASSUME MaxSizeNat == MaxSize \in Nat
ASSUME ChunkPositive == Chunk \in Nat \ {0}
ASSUME DriverKinds == Drivers \subseteq {"library", "program"}
ASSUME EndKinds == Ends \subseteq SUBSET {"read", "write"}

VARIABLES
  driver,   \* who drives
  short,    \* which end may do less than it is asked: "read", "write"
  size,     \* the reader has the bytes 1 .. size
  pos,      \* the number of them it has given
  buffer,   \* the bytes between a read and the write of them
  last,     \* the driver takes the bytes in the buffer for the last
  dest,     \* the bytes the writer has got
  outcome   \* "running", "flushing", "ok" or "failed"

input == <<driver, short, size>>
copyVars == <<driver, short, size, pos, buffer, last, dest, outcome>>

Outcomes == {"running", "flushing", "ok", "failed"}

Lesser(a, b) == IF a < b THEN a ELSE b

\* The numbers of bytes w may move if it is asked for n: all, or, if it is
\* short, at least one.
Moves(w, n) == IF w \in short /\ n > 0 THEN 1 .. n ELSE {n}

Bytes(a, n) == [i \in 1 .. n |-> a + i]

CopyInit ==
  /\ driver \in Drivers
  /\ short \in Ends
  /\ size \in 0 .. MaxSize
  /\ pos = 0
  /\ buffer = <<>>
  /\ last = FALSE
  /\ dest = <<>>
  /\ outcome = "running"

-----------------------------------------------------------------------------
\* Mutant: the last chunk is taken for the end, and not written.
ReadDropsLast ==
  /\ outcome = "running" /\ buffer = <<>> /\ ~last
  /\ \E n \in Moves("read", Lesser(Chunk, size - pos)) :
       /\ pos' = pos + n
       /\ last' = IF driver = "library" THEN n # Chunk ELSE n = 0
       /\ buffer' = IF last' THEN <<>> ELSE Bytes(pos, n)
  /\ UNCHANGED <<input, dest, outcome>>

\* Mutant: the end is never seen.
ReadForever ==
  /\ outcome = "running" /\ buffer = <<>> /\ ~last
  /\ \E n \in Moves("read", Lesser(Chunk, size - pos)) :
       /\ pos' = pos + n
       /\ buffer' = Bytes(pos, n)
  /\ UNCHANGED <<input, last, dest, outcome>>

\* Mutant: *len stays what was asked for.
ReadFills ==
  /\ outcome = "running" /\ buffer = <<>> /\ ~last
  /\ \E n \in Moves("read", Lesser(Chunk, size - pos)) :
       /\ pos' = pos + Chunk
       /\ buffer' = Bytes(pos, Chunk)
       /\ last' = (n = 0)
  /\ UNCHANGED <<input, dest, outcome>>

\* read_trampoline, under svn_stream_read_full or Stream::read.
Read ==
  /\ outcome = "running" /\ buffer = <<>> /\ ~last
  /\ \E n \in Moves("read", Lesser(Chunk, size - pos)) :
       /\ pos' = pos + n
       /\ buffer' = Bytes(pos, n)
       /\ last' = IF driver = "library" THEN n # Chunk ELSE n = 0
  /\ UNCHANGED <<input, dest, outcome>>

\* Mutant: what the writer did not take is tried again before what it took.
WriteRetries ==
  /\ outcome = "running" /\ buffer # <<>>
  /\ \E n \in Moves("write", Len(buffer)) :
       /\ dest' = dest \o SubSeq(buffer, 1, n)
       /\ buffer' = IF n < Len(buffer) THEN buffer ELSE <<>>
       /\ last' = IF driver = "library" THEN n # Chunk ELSE last
  /\ UNCHANGED <<input, pos, outcome>>

\* write_trampoline, or write_fn of wrap_write.  The library looks at the number
\* of bytes written only to see if they were the last.  Stream::write does not
\* look at it, and io::Write::write returns that it wrote the whole buffer.
Write ==
  /\ outcome = "running" /\ buffer # <<>>
  /\ \E n \in Moves("write", Len(buffer)) :
       /\ dest' = dest \o SubSeq(buffer, 1, n)
       /\ buffer' = <<>>
       /\ last' = IF driver = "library" THEN n # Chunk ELSE last
  /\ UNCHANGED <<input, pos, outcome>>

\* The read, the write or the cancel function returns an error; the library
\* still closes both streams.
Fails ==
  /\ outcome = "running"
  /\ outcome' = "failed"
  /\ UNCHANGED <<input, pos, buffer, last, dest>>

Finish ==
  /\ outcome = "running" /\ buffer = <<>> /\ last
  /\ outcome' = "flushing"
  /\ UNCHANGED <<input, pos, buffer, last, dest>>

\* Closing the streams flushes the writer, which may fail.
CloseStreams ==
  /\ outcome = "flushing"
  /\ outcome' \in {"ok", "failed"}
  /\ UNCHANGED <<input, pos, buffer, last, dest>>

CopyNext == Read \/ Write \/ Fails \/ Finish \/ CloseStreams

\* The driver is a loop in one thread, and readers, writers and errors are as they
\* please.
CopySpec ==
  CopyInit /\ [][CopyNext]_copyVars /\ WF_copyVars(Read \/ Write \/ Finish \/ CloseStreams)

-----------------------------------------------------------------------------
CopyTypeOK ==
  /\ driver \in Drivers
  /\ short \in Ends
  /\ size \in 0 .. MaxSize
  /\ pos \in 0 .. size
  /\ buffer \in Seq(1 .. size)
  /\ last \in BOOLEAN
  /\ dest \in Seq(1 .. size)
  /\ outcome \in Outcomes

(***************************************************************************)
(* A copy that returns Ok has copied everything: the writer has all the    *)
(* bytes of the reader, in order, however the chunks fell.                 *)
(***************************************************************************)
Complete == outcome = "ok" => dest = Bytes(0, size)

\* So it is between a reader and a writer that do all they are asked.
WholeComplete == short = {} => Complete

(***************************************************************************)
(* Whatever readers and writers do, a copy by the library leaves nothing   *)
(* out in the middle: at every moment, and after every failure, the writer *)
(* has the first bytes of the reader.                                      *)
(***************************************************************************)
NoHoles ==
  driver = "library" => Len(dest) <= size /\ dest = Bytes(0, Len(dest))

\* Every copy ends, readers that return as little as they may included.
Terminates == <>(outcome \in {"ok", "failed"})
=============================================================================
