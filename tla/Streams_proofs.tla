--------------------------- MODULE Streams_proofs ---------------------------
(***************************************************************************)
(* Proofs about streams: first their lives, in Streams, for programs that  *)
(* take any liberties (each property names those that break it); then the  *)
(* bytes that are copied through them, in StreamCopy.                      *)
(***************************************************************************)
EXTENDS Streams, StreamCopy, TLAPS

\* A program keeps its habits.
LEMMA SameProgram ==
  ASSUME [Next]_vars
  PROVE  liberties' = liberties /\ Layered' = Layered /\ Kept' = Kept
<1>1. liberties' = liberties
  BY DEF Next, vars
<1> QED
  BY <1>1 DEF Layered, Kept, May

\* What has not been made has no box, and nothing is over it.
Fresh ==
  \A s \in Streams :
    /\ value[s] = "none" => box[s] = "none" /\ ~needsClose[s] /\ s \notin gone
    /\ value[s] = "none" <=> kind[s] = "none"
    /\ value[s] # "none" => s \in uses[s] /\ s \in closes[s]
    /\ \A t \in uses[s] \cup closes[s] : value[t] # "none"
    /\ closes[s] \subseteq uses[s]
    /\ needsClose[s] => kind[s] = "writer"

TypeInv == TypeOK /\ Fresh

-----------------------------------------------------------------------------
LEMMA TypeInit == Init => TypeInv
BY DEF Init, TypeInv, TypeOK, Fresh, Kinds

\* One step per action.
LEMMA TypeStep == TypeInv /\ [Next]_vars => TypeInv'
<1> SUFFICES ASSUME TypeInv, [Next]_vars PROVE TypeInv'
  OBVIOUS
<1> USE SameProgram DEF TypeInv, TypeOK, Fresh, Kinds, layers
<1>1. CASE UNCHANGED vars
  BY <1>1 DEF vars
<1>2. ASSUME NEW s \in Streams, FromBytes(s) PROVE TypeInv'
  BY <1>2 DEF FromBytes, Make
<1>3. ASSUME NEW s \in Streams, FromStringbuf(s) PROVE TypeInv'
  BY <1>3 DEF FromStringbuf, Make
<1>4. ASSUME NEW s \in Streams, FromBackend(s) PROVE TypeInv'
  BY <1>4 DEF FromBackend, Make
<1>5. ASSUME NEW s \in Streams, WrapWrite(s) PROVE TypeInv'
  BY <1>5 DEF WrapWrite, Make
<1>6. ASSUME NEW s \in Streams, Close(s) PROVE TypeInv'
  BY <1>6 DEF Close, Closings, Shut, Freed
<1>7. ASSUME NEW s \in Streams, DropStream(s) PROVE TypeInv'
  BY <1>7 DEF DropStream, Freed
<1>8. ASSUME NEW s \in Streams, DropTarget(s) PROVE TypeInv'
  BY <1>8 DEF DropTarget
<1>9. ASSUME NEW s \in Streams, NEW p \in Streams, Over(s, p) PROVE TypeInv'
  BY <1>9 DEF Over, Make, Callable, Intact
<1>10. ASSUME NEW s \in Streams, NEW p \in Streams, Disown(s, p) PROVE TypeInv'
  BY <1>10 DEF Disown, Make, Callable, Intact
<1>11. ASSUME NEW s \in Streams, NEW p \in Streams, Consume(s, p) PROVE TypeInv'
  BY <1>11 DEF Consume, Closings, Shut, Freed
<1>12. ASSUME NEW s \in Streams, NEW p \in Streams, NEW b \in Streams, Tee(s, p, b) PROVE TypeInv'
  BY <1>12 DEF Tee, Make, Callable, Intact
<1>13. ASSUME NEW s \in Streams, ReadToEnd(s) PROVE TypeInv'
  BY <1>13 DEF ReadToEnd, Readable, Closings, Shut, Freed
<1> QED
  BY <1>1, <1>2, <1>3, <1>4, <1>5, <1>6, <1>7, <1>8, <1>9, <1>10, <1>11, <1>12, <1>13
  DEF Next, Step

(***************************************************************************)
(* Type correctness, whatever the program does with its streams.           *)
(***************************************************************************)
THEOREM TypeCorrect == Spec => []TypeOK
<1>1. TypeInv => TypeOK
  BY DEF TypeInv
<1> QED
  BY <1>1, TypeInit, TypeStep, PTL DEF Spec

-----------------------------------------------------------------------------
CallsInv == TypeInv /\ (Layered => CallsDefined)

LEMMA CallsStep == CallsInv /\ [Next]_vars => CallsInv'
<1> SUFFICES ASSUME CallsInv, [Next]_vars, Layered PROVE CallsDefined'
  BY TypeStep, SameProgram DEF CallsInv, May
<1>v. TypeInv /\ CallsDefined
  BY DEF CallsInv
<1> USE <1>v DEF TypeInv, TypeOK, Fresh, CallsDefined, Intact, Callable, layers
<1>0. ~May("reuse") /\ ~May("under") /\ ~May("target")
  BY DEF Layered
<1>1. CASE UNCHANGED vars
  BY <1>1 DEF vars
<1>2. ASSUME NEW s \in Streams, FromBytes(s) PROVE CallsDefined'
  BY <1>2, <1>0 DEF FromBytes, Make
<1>3. ASSUME NEW s \in Streams, FromStringbuf(s) PROVE CallsDefined'
  BY <1>3, <1>0 DEF FromStringbuf, Make
<1>4. ASSUME NEW s \in Streams, FromBackend(s) PROVE CallsDefined'
  BY <1>4, <1>0 DEF FromBackend, Make
<1>5. ASSUME NEW s \in Streams, WrapWrite(s) PROVE CallsDefined'
  BY <1>5, <1>0 DEF WrapWrite, Make
<1>6. ASSUME NEW s \in Streams, Close(s) PROVE CallsDefined'
  BY <1>6, <1>0 DEF Close, Closings, Shut, Freed, Topmost
<1>7. ASSUME NEW s \in Streams, DropStream(s) PROVE CallsDefined'
  BY <1>7, <1>0 DEF DropStream, Freed, Topmost
<1>8. ASSUME NEW s \in Streams, DropTarget(s) PROVE CallsDefined'
  BY <1>8, <1>0 DEF DropTarget
<1>9. ASSUME NEW s \in Streams, NEW p \in Streams, Over(s, p) PROVE CallsDefined'
  BY <1>9, <1>0 DEF Over, Make
<1>10. ASSUME NEW s \in Streams, NEW p \in Streams, Disown(s, p) PROVE CallsDefined'
  BY <1>10, <1>0 DEF Disown, Make
<1>11. ASSUME NEW s \in Streams, NEW p \in Streams, Consume(s, p) PROVE CallsDefined'
  BY <1>11, <1>0 DEF Consume, Closings, Shut, Freed, Topmost
<1>12. ASSUME NEW s \in Streams, NEW p \in Streams, NEW b \in Streams, Tee(s, p, b) PROVE CallsDefined'
  BY <1>12, <1>0 DEF Tee, Make
<1>13. ASSUME NEW s \in Streams, ReadToEnd(s) PROVE CallsDefined'
  BY <1>13, <1>0 DEF ReadToEnd, Readable, Closings, Shut, Freed, Topmost
<1> QED
  BY <1>1, <1>2, <1>3, <1>4, <1>5, <1>6, <1>7, <1>8, <1>9, <1>10, <1>11, <1>12, <1>13
  DEF Next, Step

(***************************************************************************)
(* No call of the program, and no close of the library, reaches a baton    *)
(* that has been freed or a stream, writer or string that is gone, however *)
(* many streams are layered and in whatever order they are closed and      *)
(* dropped, if it is from the top, once, and the writers last.             *)
(***************************************************************************)
THEOREM CallsCorrect == Spec => []LayeredCallsDefined
<1>1. Init => CallsInv
  BY TypeInit DEF CallsInv, Init, CallsDefined
<1>2. CallsInv => LayeredCallsDefined
  BY DEF CallsInv, LayeredCallsDefined
<1> QED
  BY <1>1, <1>2, CallsStep, PTL DEF Spec

-----------------------------------------------------------------------------
CloseInv == TypeInv /\ (Kept => ClosesOnce)

LEMMA CloseStep == CloseInv /\ [Next]_vars => CloseInv'
<1> SUFFICES ASSUME CloseInv, [Next]_vars, Kept PROVE ClosesOnce'
  BY TypeStep, SameProgram DEF CloseInv, May
<1>v. TypeInv /\ ClosesOnce
  BY DEF CloseInv
<1> USE <1>v DEF TypeInv, TypeOK, Fresh, ClosesOnce, layers
<1>0. ~May("hand") /\ ~May("target")
  BY DEF Kept
<1>1. CASE UNCHANGED vars
  BY <1>1 DEF vars
<1>2. ASSUME NEW s \in Streams, FromBytes(s) PROVE ClosesOnce'
  BY <1>2, <1>0 DEF FromBytes, Make
<1>3. ASSUME NEW s \in Streams, FromStringbuf(s) PROVE ClosesOnce'
  BY <1>3, <1>0 DEF FromStringbuf, Make
<1>4. ASSUME NEW s \in Streams, FromBackend(s) PROVE ClosesOnce'
  BY <1>4, <1>0 DEF FromBackend, Make
<1>5. ASSUME NEW s \in Streams, WrapWrite(s) PROVE ClosesOnce'
  BY <1>5, <1>0 DEF WrapWrite, Make
<1>6. ASSUME NEW s \in Streams, Close(s) PROVE ClosesOnce'
  BY <1>6, <1>0 DEF Close, Closings, Shut, Freed
<1>7. ASSUME NEW s \in Streams, DropStream(s) PROVE ClosesOnce'
  BY <1>7, <1>0 DEF DropStream, Freed
<1>8. ASSUME NEW s \in Streams, DropTarget(s) PROVE ClosesOnce'
  BY <1>8, <1>0 DEF DropTarget
<1>9. ASSUME NEW s \in Streams, NEW p \in Streams, Over(s, p) PROVE ClosesOnce'
  BY <1>9, <1>0 DEF Over, Make
<1>10. ASSUME NEW s \in Streams, NEW p \in Streams, Disown(s, p) PROVE ClosesOnce'
  BY <1>10, <1>0 DEF Disown, Make
<1>11. ASSUME NEW s \in Streams, NEW p \in Streams, Consume(s, p) PROVE ClosesOnce'
  BY <1>11, <1>0 DEF Consume, Closings, Shut, Freed
<1>12. ASSUME NEW s \in Streams, NEW p \in Streams, NEW b \in Streams, Tee(s, p, b) PROVE ClosesOnce'
  BY <1>12, <1>0 DEF Tee, Make
<1>13. ASSUME NEW s \in Streams, ReadToEnd(s) PROVE ClosesOnce'
  BY <1>13, <1>0 DEF ReadToEnd, Readable, Closings, Shut, Freed
<1> QED
  BY <1>1, <1>2, <1>3, <1>4, <1>5, <1>6, <1>7, <1>8, <1>9, <1>10, <1>11, <1>12, <1>13
  DEF Next, Step

(***************************************************************************)
(* While needs_close is set, the drop of the stream has a box to free and  *)
(* a writer to flush, if only the program closes such streams.             *)
(***************************************************************************)
THEOREM ClosesCorrect == Spec => []KeptCloseOnce
<1>1. Init => CloseInv
  BY TypeInit DEF CloseInv, Init, ClosesOnce
<1>2. CloseInv => KeptCloseOnce
  BY DEF CloseInv, KeptCloseOnce
<1> QED
  BY <1>1, <1>2, CloseStep, PTL DEF Spec

-----------------------------------------------------------------------------
\* A box is live until its stream is closed, and what needs no close on drop is
\* a backend, which is closed before.
Owned ==
  \A s \in Streams :
    box[s] = "live" =>
      /\ value[s] = "held"
      /\ s \in usable
      /\ kind[s] = "backend" \/ needsClose[s]

LeakInv == TypeInv /\ (~May("unclosed") => Owned)

LEMMA LeakStep == LeakInv /\ [Next]_vars => LeakInv'
<1> SUFFICES ASSUME LeakInv, [Next]_vars, ~May("unclosed") PROVE Owned'
  BY TypeStep, SameProgram DEF LeakInv, May
<1>v. TypeInv /\ Owned
  BY DEF LeakInv
<1> USE <1>v DEF TypeInv, TypeOK, Fresh, Owned, layers
<1>1. CASE UNCHANGED vars
  BY <1>1 DEF vars
<1>2. ASSUME NEW s \in Streams, FromBytes(s) PROVE Owned'
  BY <1>2 DEF FromBytes, Make
<1>3. ASSUME NEW s \in Streams, FromStringbuf(s) PROVE Owned'
  BY <1>3 DEF FromStringbuf, Make
<1>4. ASSUME NEW s \in Streams, FromBackend(s) PROVE Owned'
  BY <1>4 DEF FromBackend, Make
<1>5. ASSUME NEW s \in Streams, WrapWrite(s) PROVE Owned'
  BY <1>5 DEF WrapWrite, Make
<1>6. ASSUME NEW s \in Streams, Close(s) PROVE Owned'
  BY <1>6 DEF Close, Closings, Shut, Freed
<1>7. ASSUME NEW s \in Streams, DropStream(s) PROVE Owned'
  BY <1>7 DEF DropStream, Freed
<1>8. ASSUME NEW s \in Streams, DropTarget(s) PROVE Owned'
  BY <1>8 DEF DropTarget
<1>9. ASSUME NEW s \in Streams, NEW p \in Streams, Over(s, p) PROVE Owned'
  BY <1>9 DEF Over, Make
<1>10. ASSUME NEW s \in Streams, NEW p \in Streams, Disown(s, p) PROVE Owned'
  BY <1>10 DEF Disown, Make
<1>11. ASSUME NEW s \in Streams, NEW p \in Streams, Consume(s, p) PROVE Owned'
  BY <1>11 DEF Consume, Closings, Shut, Freed
<1>12. ASSUME NEW s \in Streams, NEW p \in Streams, NEW b \in Streams, Tee(s, p, b) PROVE Owned'
  BY <1>12 DEF Tee, Make
<1>13. ASSUME NEW s \in Streams, ReadToEnd(s) PROVE Owned'
  BY <1>13 DEF ReadToEnd, Readable, Closings, Shut, Freed
<1> QED
  BY <1>1, <1>2, <1>3, <1>4, <1>5, <1>6, <1>7, <1>8, <1>9, <1>10, <1>11, <1>12, <1>13
  DEF Next, Step

(***************************************************************************)
(* Every box is freed by the time its stream is dropped, if every stream   *)
(* over a backend is closed, itself or through a stream over it.           *)
(***************************************************************************)
THEOREM NothingLeaks == Spec => []ClosedFree
<1>1. Init => LeakInv
  BY TypeInit DEF LeakInv, Init, Owned
<1>2. LeakInv => ClosedFree
  BY DEF LeakInv, Owned, NoLeak, ClosedFree
<1> QED
  BY <1>1, <1>2, LeakStep, PTL DEF Spec
-----------------------------------------------------------------------------
(***************************************************************************)
(* The bytes: StreamCopy.  The writer has the bytes up to some place; what *)
(* is in the buffer follows on, up to where the reader is.  A copy gets    *)
(* out of this step only by a short write, which ends it.                  *)
(***************************************************************************)
LEMMA BytesSeq ==
  ASSUME NEW a \in Nat, NEW n \in Nat
  PROVE  /\ Bytes(a, n) \in Seq(Nat)
         /\ Len(Bytes(a, n)) = n
         /\ \A i \in 1 .. n : Bytes(a, n)[i] = a + i
         /\ DOMAIN Bytes(a, n) = 1 .. n
BY DEF Bytes

\* The first m bytes of a buffer that follows on from the first a.
LEMMA BytesFollow ==
  ASSUME NEW a \in Nat, NEW n \in Nat, NEW m \in 0 .. n
  PROVE  Bytes(0, a) \o SubSeq(Bytes(a, n), 1, m) = Bytes(0, a + m)
<1>1. SubSeq(Bytes(a, n), 1, m) = Bytes(a, m)
  BY BytesSeq DEF Bytes
<1>2. Bytes(0, a) \o Bytes(a, m) = Bytes(0, a + m)
  BY BytesSeq DEF Bytes
<1> QED
  BY <1>1, <1>2

-----------------------------------------------------------------------------
\* The buffer holds the bytes before the reader's position, a chunk at the most.
Buffered ==
  /\ Len(buffer) <= Chunk
  /\ Len(buffer) <= pos
  /\ buffer = Bytes(pos - Len(buffer), Len(buffer))

CopyTypeInv == CopyTypeOK /\ Buffered

LEMMA MovesBound ==
  ASSUME NEW w, NEW n \in Nat, NEW k \in Moves(w, n)
  PROVE  k \in 0 .. n /\ (w \notin short => k = n)
BY DEF Moves

LEMMA CopyTypeInit == CopyInit => CopyTypeInv
<1> SUFFICES ASSUME CopyInit PROVE CopyTypeInv
  OBVIOUS
<1>1. size \in Nat /\ pos = 0 /\ buffer = <<>> /\ dest = <<>>
  BY MaxSizeNat DEF CopyInit
<1>2. Buffered
  BY <1>1, ChunkPositive DEF Buffered, Bytes
<1>3. last \in BOOLEAN
  BY Zenon DEF CopyInit
<1>4. CopyTypeOK
  BY <1>1, <1>3, MaxSizeNat DEF CopyInit, CopyTypeOK, Outcomes
<1> QED
  BY <1>2, <1>4 DEF CopyTypeInv

LEMMA CopyTypeStep == CopyTypeInv /\ [CopyNext]_copyVars => CopyTypeInv'
<1> SUFFICES ASSUME CopyTypeInv, [CopyNext]_copyVars PROVE CopyTypeInv'
  OBVIOUS
<1> USE MaxSizeNat, ChunkPositive DEF CopyTypeInv, CopyTypeOK, Buffered, Outcomes, input
<1>1. CASE Read
  <2>1. PICK n \in Moves("read", Lesser(Chunk, size - pos)) :
          /\ pos' = pos + n
          /\ buffer' = Bytes(pos, n)
          /\ last' = IF driver = "library" THEN n # Chunk ELSE n = 0
    BY <1>1 DEF Read
  <2>2. n \in 0 .. size - pos /\ n <= Chunk
    BY MovesBound DEF Lesser
  <2>3. Len(buffer') = n /\ buffer' \in Seq(1 .. size)
    BY <2>1, <2>2, BytesSeq DEF Bytes
  <2>4. last' \in BOOLEAN
    BY <2>1
  <2> QED
    BY SMTT(20), <1>1, <2>1, <2>2, <2>3, <2>4 DEF Read
<1>2. CASE Write
  <2>1. PICK n \in Moves("write", Len(buffer)) :
          /\ dest' = dest \o SubSeq(buffer, 1, n)
          /\ buffer' = <<>>
          /\ last' = IF driver = "library" THEN n # Chunk ELSE last
    BY <1>2 DEF Write
  <2>2. n \in 0 .. Len(buffer)
    BY MovesBound
  <2>3. dest' \in Seq(1 .. size)
    BY <2>1, <2>2
  <2>4. last' \in BOOLEAN
    BY <2>1
  <2>5. Len(buffer') = 0 /\ buffer' = Bytes(pos - 0, 0)
    BY <2>1 DEF Bytes
  <2> QED
    BY <1>2, <2>1, <2>3, <2>4, <2>5 DEF Write
<1>3. CASE Fails
  BY <1>3 DEF Fails
<1>4. CASE Finish
  BY <1>4 DEF Finish
<1>5. CASE CloseStreams
  BY <1>5 DEF CloseStreams
<1>6. CASE UNCHANGED copyVars
  BY <1>6 DEF copyVars
<1> QED
  BY <1>1, <1>2, <1>3, <1>4, <1>5, <1>6 DEF CopyNext

(***************************************************************************)
(* Type correctness: only bytes of the reader are ever in the buffer, or   *)
(* written.                                                                *)
(***************************************************************************)
THEOREM CopyTypeCorrect == CopySpec => []CopyTypeOK
<1>1. CopyTypeInv => CopyTypeOK
  BY DEF CopyTypeInv
<1> QED
  BY <1>1, CopyTypeInit, CopyTypeStep, PTL DEF CopySpec

-----------------------------------------------------------------------------
Prefix == Len(dest) <= size /\ dest = Bytes(0, Len(dest))

\* The buffer follows on from what is written.
InStep == Len(dest) + Len(buffer) = pos

HoleInv ==
  /\ CopyTypeInv
  /\ driver = "library" => Prefix /\ (InStep \/ (last /\ buffer = <<>>))

\* A write of n bytes of a buffer that follows on from the writer's.
LEMMA WriteFollows ==
  ASSUME CopyTypeInv, Prefix, InStep, NEW n \in 0 .. Len(buffer),
         dest' = dest \o SubSeq(buffer, 1, n), size' = size
  PROVE  Prefix' /\ Len(dest') = Len(dest) + n
<1>1. Len(dest) \in Nat /\ Len(buffer) \in Nat /\ pos - Len(buffer) = Len(dest)
  BY DEF CopyTypeInv, CopyTypeOK, InStep
<1>2. dest = Bytes(0, Len(dest)) /\ buffer = Bytes(Len(dest), Len(buffer))
  BY <1>1 DEF Prefix, CopyTypeInv, Buffered
<1>3. dest' = Bytes(0, Len(dest) + n)
  BY <1>1, <1>2, BytesFollow
<1>4. Len(dest) + n \in Nat /\ Len(dest) + n <= size
  BY <1>1 DEF CopyTypeInv, CopyTypeOK, InStep
<1>5. Len(dest') = Len(dest) + n
  <2> DEFINE m == Len(dest) + n
  <2>1. m \in Nat
    BY <1>4
  <2>2. dest' = Bytes(0, m)
    BY <1>3
  <2> HIDE DEF m
  <2>3. Len(Bytes(0, m)) = m
    BY <2>1, BytesSeq
  <2>4. Len(dest') = m
    BY <2>2, <2>3
  <2> QED
    BY <2>4 DEF m
<1> QED
  BY <1>3, <1>4, <1>5 DEF Prefix

LEMMA HoleStep == HoleInv /\ [CopyNext]_copyVars => HoleInv'
<1> SUFFICES ASSUME HoleInv, [CopyNext]_copyVars, driver' = "library"
             PROVE  (Prefix /\ (InStep \/ (last /\ buffer = <<>>)))'
  BY CopyTypeStep DEF HoleInv
<1>0. driver = "library" /\ size' = size
  BY DEF CopyNext, Read, Write, Fails, Finish, CloseStreams, input, copyVars
<1> USE ChunkPositive DEF HoleInv, CopyTypeInv, CopyTypeOK, Buffered, input
<1>1. CASE Read
  <2>1. PICK n \in Moves("read", Lesser(Chunk, size - pos)) :
          pos' = pos + n /\ buffer' = Bytes(pos, n)
    BY <1>1 DEF Read
  <2>2. n \in Nat
    BY MovesBound DEF Lesser
  <2>3. InStep
    BY <1>0, <1>1 DEF Read
  <2>4. Len(buffer) = 0 /\ Len(buffer') = n
    BY <1>1, <2>1, <2>2, BytesSeq DEF Read
  <2> QED
    BY <1>0, <1>1, <2>1, <2>2, <2>3, <2>4 DEF Read, Prefix, InStep
<1>2. CASE Write
  <2>1. PICK n \in Moves("write", Len(buffer)) :
          /\ dest' = dest \o SubSeq(buffer, 1, n)
          /\ buffer' = <<>>
          /\ last' = (n # Chunk)
    BY <1>0, <1>2 DEF Write
  <2>2. n \in 0 .. Len(buffer)
    BY MovesBound
  <2>3. InStep
    BY <1>0, <1>2 DEF Write
  <2>4. Prefix' /\ Len(dest') = Len(dest) + n
    BY <1>0, <2>1, <2>2, <2>3, WriteFollows
  <2>5. n = Len(buffer) \/ last'
    <3>1. Len(buffer) \in Nat /\ Len(buffer) <= Chunk /\ n <= Len(buffer)
      BY <2>2
    <3>2. n # Chunk => last'
      BY <2>1
    <3> QED
      BY <3>1, <3>2
  <2>6. Len(buffer') = 0 /\ buffer' = <<>> /\ pos' = pos
    BY <1>2, <2>1 DEF Write
  <2>7. n = Len(buffer) => InStep'
    BY <2>3, <2>4, <2>6 DEF InStep
  <2> QED
    BY <2>4, <2>5, <2>6, <2>7
<1>3. CASE Fails
  BY <1>0, <1>3 DEF Fails, Prefix, InStep
<1>4. CASE Finish
  BY <1>0, <1>4 DEF Finish, Prefix, InStep
<1>5. CASE CloseStreams
  BY <1>0, <1>5 DEF CloseStreams, Prefix, InStep
<1>6. CASE UNCHANGED copyVars
  BY <1>0, <1>6 DEF copyVars, Prefix, InStep
<1> QED
  BY <1>1, <1>2, <1>3, <1>4, <1>5, <1>6 DEF CopyNext

(***************************************************************************)
(* A copy by the library leaves nothing out in the middle, for every size, *)
(* chunk, reader and writer.                                               *)
(***************************************************************************)
THEOREM NothingSkipped == CopySpec => []NoHoles
<1>1. CopyInit => HoleInv
  <2> SUFFICES ASSUME CopyInit PROVE Prefix /\ InStep
    BY CopyTypeInit DEF HoleInv
  <2>1. dest = Bytes(0, 0) /\ Len(dest) = 0 /\ size \in Nat
    BY MaxSizeNat DEF CopyInit, Bytes
  <2> QED
    BY <2>1 DEF CopyInit, Prefix, InStep
<1>2. HoleInv => NoHoles
  BY DEF HoleInv, NoHoles, Prefix
<1> QED
  BY <1>1, <1>2, HoleStep, PTL DEF CopySpec

-----------------------------------------------------------------------------
\* A chunk that is not whole is the end of the reader.
WholeInv ==
  /\ Prefix /\ InStep
  /\ Len(buffer) \notin {0, Chunk} => pos = size
  /\ last => pos = size
  /\ outcome \in {"flushing", "ok"} => last /\ buffer = <<>>

CompleteInv == CopyTypeInv /\ (short = {} => WholeInv)

LEMMA CompleteStep == CompleteInv /\ [CopyNext]_copyVars => CompleteInv'
<1>p. ASSUME [CopyNext]_copyVars PROVE UNCHANGED input
  BY <1>p DEF CopyNext, Read, Write, Fails, Finish, CloseStreams, input, copyVars
<1> SUFFICES ASSUME CompleteInv, [CopyNext]_copyVars, short = {} PROVE WholeInv'
  BY <1>p, CopyTypeStep DEF CompleteInv, input
<1>0. CopyTypeInv' /\ size' = size
  BY <1>p, CopyTypeStep DEF CompleteInv, input
<1>w. CopyTypeInv /\ WholeInv
  BY DEF CompleteInv
<1> USE <1>w, ChunkPositive DEF WholeInv, CopyTypeInv, CopyTypeOK, Buffered, input
<1>1. CASE Read
  <2>1. PICK n \in Moves("read", Lesser(Chunk, size - pos)) :
          /\ pos' = pos + n
          /\ buffer' = Bytes(pos, n)
          /\ last' = IF driver = "library" THEN n # Chunk ELSE n = 0
    BY <1>1 DEF Read
  <2>2. n = Lesser(Chunk, size - pos) /\ n \in Nat
    BY MovesBound DEF Lesser
  <2>3. n = Chunk \/ pos' = size
    BY <2>1, <2>2 DEF Lesser
  <2>4. Len(buffer) = 0 /\ Len(buffer') = n
    BY <1>1, <2>1, <2>2, BytesSeq DEF Read
  <2>5. last' => pos' = size
    BY <2>1, <2>3
  <2>6. dest' = dest /\ outcome' = "running"
    BY <1>1 DEF Read
  <2>7. Prefix' /\ InStep'
    BY <1>0, <2>1, <2>2, <2>4, <2>6 DEF Prefix, InStep
  <2> QED
    BY <1>0, <2>3, <2>4, <2>5, <2>6, <2>7
<1>2. CASE Write
  <2>1. PICK n \in Moves("write", Len(buffer)) :
          /\ dest' = dest \o SubSeq(buffer, 1, n)
          /\ buffer' = <<>>
          /\ last' = IF driver = "library" THEN n # Chunk ELSE last
    BY <1>2 DEF Write
  <2>2. n = Len(buffer) /\ n \in 0 .. Len(buffer)
    BY MovesBound
  <2>3. Prefix' /\ Len(dest') = Len(dest) + n
    BY <1>0, <2>1, <2>2, WriteFollows
  <2>4. n # 0
    BY <1>2, <2>2 DEF Write
  <2>5. last' => pos = size
    <3>1. CASE driver = "library"
      BY <2>1, <2>2, <2>4, <3>1
    <3>2. CASE driver # "library"
      BY <2>1, <3>2
    <3> QED
      BY <3>1, <3>2
  <2>6. Len(buffer') = 0 /\ pos' = pos /\ outcome' = "running"
    BY <1>2, <2>1 DEF Write
  <2>7. InStep'
    BY <2>2, <2>3, <2>6 DEF InStep
  <2> QED
    BY <1>0, <2>3, <2>5, <2>6, <2>7
<1>3. CASE Fails
  BY <1>0, <1>3 DEF Fails, Prefix, InStep
<1>4. CASE Finish
  BY <1>0, <1>4 DEF Finish, Prefix, InStep
<1>5. CASE CloseStreams
  BY <1>0, <1>5 DEF CloseStreams, Prefix, InStep
<1>6. CASE UNCHANGED copyVars
  BY <1>0, <1>6 DEF copyVars, Prefix, InStep
<1> QED
  BY <1>1, <1>2, <1>3, <1>4, <1>5, <1>6 DEF CopyNext

(***************************************************************************)
(* A copy that returns Ok has copied everything, for every size and chunk, *)
(* if the reader and the writer do all they are asked.                     *)
(***************************************************************************)
THEOREM CopiesAll == CopySpec => []WholeComplete
<1>1. CopyInit => CompleteInv
  <2> SUFFICES ASSUME CopyInit PROVE WholeInv
    BY CopyTypeInit DEF CompleteInv
  <2>1. dest = Bytes(0, 0) /\ Len(dest) = 0 /\ Len(buffer) = 0 /\ size \in Nat
    BY MaxSizeNat DEF CopyInit, Bytes
  <2> QED
    BY <2>1 DEF CopyInit, WholeInv, Prefix, InStep
<1>2. CompleteInv => WholeComplete
  BY DEF CompleteInv, WholeInv, WholeComplete, Complete, Prefix, InStep, CopyTypeInv, CopyTypeOK
<1> QED
  BY <1>1, <1>2, CompleteStep, PTL DEF CopySpec
-----------------------------------------------------------------------------
(***************************************************************************)
(* Progress of a copy: at every moment the driver can take the step it is  *)
(* at, and the steps are numbered.                                         *)
(***************************************************************************)
\* The last chunk is seen by the library when it is read short, and by the program
\* when it is empty.
LastSeen == last /\ buffer # <<>> => driver = "library" /\ Len(buffer) < Chunk

\* The steps that the driver has left at most.
StepsLeft ==
  IF outcome \in {"ok", "failed"} THEN 0
  ELSE IF outcome = "flushing" THEN 1
  ELSE 2 + 2 * (size - pos) + (IF last THEN 0 ELSE 1) + (IF buffer = <<>> THEN 0 ELSE 1)

\* A copy that has not ended is before a read, a write, its end or its close: the
\* guards of the actions.  A read can always return, and so can a write.
NeverIdle ==
  outcome \notin {"ok", "failed"} =>
    \/ outcome = "flushing"
    \/ outcome = "running" /\ buffer = <<>> /\ ~last
         /\ Moves("read", Lesser(Chunk, size - pos)) # {}
    \/ outcome = "running" /\ buffer # <<>> /\ Moves("write", Len(buffer)) # {}
    \/ outcome = "running" /\ buffer = <<>> /\ last

CopyEnds ==
  /\ StepsLeft \in 0 .. 2 * MaxSize + 3
  /\ NeverIdle
CopyShrinks == StepsLeft' < StepsLeft

LEMMA LastSeenStep == CopyTypeInv /\ LastSeen /\ [CopyNext]_copyVars => LastSeen'
<1> SUFFICES ASSUME CopyTypeInv, LastSeen, [CopyNext]_copyVars PROVE LastSeen'
  OBVIOUS
<1> USE ChunkPositive DEF CopyTypeInv, CopyTypeOK, Buffered, LastSeen, input
<1>1. CASE Read
  <2>1. PICK n \in Moves("read", Lesser(Chunk, size - pos)) :
          /\ buffer' = Bytes(pos, n)
          /\ last' = IF driver = "library" THEN n # Chunk ELSE n = 0
    BY <1>1 DEF Read
  <2>2. n \in Nat /\ n <= Chunk
    BY MovesBound DEF Lesser
  <2>3. Len(buffer') = n
    BY <2>1, <2>2, BytesSeq
  <2>4. n = 0 => buffer' = <<>>
    BY <2>1 DEF Bytes
  <2>5. ASSUME last', buffer' # <<>> PROVE driver = "library" /\ n # Chunk
    BY <2>1, <2>4, <2>5
  <2>6. ASSUME last', buffer' # <<>> PROVE driver' = "library" /\ Len(buffer') < Chunk
    <3>1. driver = "library" /\ n # Chunk
      BY <2>5, <2>6
    <3>2. driver' = driver
      BY <1>1 DEF Read
    <3> QED
      BY <2>2, <2>3, <3>1, <3>2
  <2> HIDE DEF CopyTypeInv, CopyTypeOK, Buffered
  <2> QED
    BY <2>6
<1>2. CASE Write
  BY <1>2 DEF Write
<1>3. CASE Fails \/ Finish \/ CloseStreams \/ UNCHANGED copyVars
  BY <1>3 DEF Fails, Finish, CloseStreams, copyVars
<1> QED
  BY <1>1, <1>2, <1>3 DEF CopyNext

LEMMA CopyProgress == CopyTypeInv => CopyEnds
<1> SUFFICES ASSUME CopyTypeInv PROVE CopyEnds
  OBVIOUS
<1> USE MaxSizeNat, ChunkPositive DEF CopyTypeInv, CopyTypeOK, Outcomes
<1>1. StepsLeft \in 0 .. 2 * MaxSize + 3
  <2>1. buffer # <<>> => pos >= 1
    BY DEF Buffered
  <2> QED
    BY <2>1 DEF StepsLeft
<1>2. \A w : \A n \in Nat : Moves(w, n) # {}
  <2>1. ASSUME NEW w, NEW n \in Nat PROVE n \in Moves(w, n)
    BY DEF Moves
  <2> QED
    BY <2>1
<1>3. Lesser(Chunk, size - pos) \in Nat /\ Len(buffer) \in Nat
  BY DEF Lesser
<1>4. NeverIdle
  BY <1>2, <1>3, Zenon DEF NeverIdle
<1> QED
  BY <1>1, <1>4 DEF CopyEnds

LEMMA CopyShrinksStep ==
  CopyTypeInv /\ LastSeen /\ [CopyNext]_copyVars => [CopyShrinks]_copyVars
<1> SUFFICES ASSUME CopyTypeInv, LastSeen, CopyNext PROVE CopyShrinks
  OBVIOUS
<1> USE MaxSizeNat, ChunkPositive DEF CopyTypeInv, CopyTypeOK, Outcomes, input
<1>1. CASE Read
  <2>1. PICK n \in Moves("read", Lesser(Chunk, size - pos)) :
          /\ pos' = pos + n
          /\ buffer' = Bytes(pos, n)
          /\ last' = IF driver = "library" THEN n # Chunk ELSE n = 0
    BY <1>1 DEF Read
  <2>2. n \in 0 .. size - pos
    BY MovesBound DEF Lesser
  <2>3. n = 0 => buffer' = <<>> /\ last'
    <3>1. 0 # Chunk /\ Bytes(pos, 0) = <<>>
      BY DEF Bytes
    <3> QED
      BY <2>1, <3>1
  <2>4. StepsLeft = 2 + 2 * (size - pos) + 1 + 0
    BY <1>1 DEF Read, StepsLeft
  <2>5. StepsLeft' = 2 + 2 * (size - (pos + n)) + (IF last' THEN 0 ELSE 1)
                       + (IF buffer' = <<>> THEN 0 ELSE 1)
    BY <1>1, <2>1 DEF Read, StepsLeft
  <2> QED
    BY <2>2, <2>3, <2>4, <2>5 DEF CopyShrinks
<1>2. CASE Write
  <2>1. PICK n \in Moves("write", Len(buffer)) :
          /\ buffer' = <<>>
          /\ last' = IF driver = "library" THEN n # Chunk ELSE last
    BY <1>2 DEF Write
  <2>2. n \in 0 .. Len(buffer)
    BY MovesBound
  <2>3. ASSUME last PROVE last'
    <3>1. driver = "library" /\ Len(buffer) < Chunk
      BY <1>2, <2>3 DEF LastSeen, Write
    <3>2. n # Chunk
      BY <2>2, <3>1
    <3> QED
      BY <2>1, <3>1, <3>2
  <2>4. StepsLeft = 2 + 2 * (size - pos) + (IF last THEN 0 ELSE 1) + 1
    BY <1>2 DEF Write, StepsLeft
  <2>5. StepsLeft' = 2 + 2 * (size - pos) + (IF last' THEN 0 ELSE 1) + 0
    BY <1>2, <2>1 DEF Write, StepsLeft
  <2> QED
    BY <2>3, <2>4, <2>5 DEF CopyShrinks
<1>3. CASE Fails \/ Finish
  BY <1>3 DEF Fails, Finish, StepsLeft, CopyShrinks
<1>4. CASE CloseStreams
  BY <1>4 DEF CloseStreams, StepsLeft, CopyShrinks
<1> QED
  BY <1>1, <1>2, <1>3, <1>4 DEF CopyNext

(***************************************************************************)
(* A copy never waits, and takes at most two steps for a byte and three    *)
(* for the rest, whatever the reader and the writer give and take: each    *)
(* step, a read of nothing included, is one fewer.                         *)
(***************************************************************************)
THEOREM CopyComesToEnd == CopySpec => []CopyEnds /\ [][CopyShrinks]_copyVars
<1>1. CopyInit => LastSeen
  BY DEF CopyInit, LastSeen
<1> QED
  BY <1>1, CopyTypeInit, CopyTypeStep, LastSeenStep, CopyProgress, CopyShrinksStep, PTL DEF CopySpec
=============================================================================
