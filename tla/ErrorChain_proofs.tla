-------------------------- MODULE ErrorChain_proofs --------------------------
(***************************************************************************)
(* Proofs about ErrorChain: type correctness of everything safe Rust       *)
(* allows, and, for callers that treat views as borrows and trampolines    *)
(* that hand errors over, that no error is read after it was freed, freed  *)
(* twice or leaked; and that a walk over the causes of an error ends.      *)
(***************************************************************************)
EXTENDS ErrorChain, TLAPS

\* A program keeps its habits.
LEMMA SameProgram == ASSUME [Next]_vars PROVE liberties' = liberties /\ WellUsed' = WellUsed
<1>1. liberties' = liberties
  BY DEF Next, vars
<1> QED
  BY <1>1 DEF WellUsed, May

(***************************************************************************)
(* The inductive invariant.                                                *)
(***************************************************************************)
\* A chain lies in one pool, and a pool is named by a node in it.
HeapOK ==
  \A n \in Nodes : Allocated(n) =>
    /\ pool[pool[n]] = pool[n]
    /\ \A m \in causes[n] : pool[m] = pool[n]
    /\ child[n] # NoNode => pool[child[n]] = pool[n]

PointersOK ==
  /\ \A h \in Handles : Live(h) => Allocated(ptr[h])
  /\ \A n \in given \cup freed : Allocated(n)

\* Only a handle of static lifetime owns, and there is one callback at a time.
LivesOK ==
  /\ \A h \in Handles : owns[h] => life[h] = "static"
  /\ \A f, g \in Handles : life[f] \in Frames /\ life[g] \in Frames => f = g

\* The library's errors are seen from Rust only from within a callback.
LentInFrame ==
  \A n \in given, h \in Handles :
    Live(h) /\ PoolOf(h) = pool[n] =>
      \E f \in Handles : life[f] \in Frames /\ PoolOf(f) = pool[n]

MemoryOK == TypeOK /\ HeapOK /\ PointersOK

Ownership ==
  LivesOK /\ LentInFrame /\ HandlesValid /\ GivenValid /\ OneOwner /\ NoLeak

-----------------------------------------------------------------------------
(***************************************************************************)
(* What the helpers of the specification do.                               *)
(***************************************************************************)
\* A new node leaves every other node where it is and keeps the heap's shape.
LEMMA AllocMemory ==
  ASSUME TypeOK, HeapOK,
         NEW n \in Nodes, NEW c \in Nodes \cup {NoNode},
         c # NoNode => Allocated(c),
         Alloc(n, c)
  PROVE  /\ pool' \in [Nodes -> Nodes \cup {NoNode}]
         /\ causes' \in [Nodes -> SUBSET Nodes]
         /\ child' \in [Nodes -> Nodes \cup {NoNode}]
         /\ HeapOK'
         /\ ~Allocated(n)
         /\ pool'[n] = IF c = NoNode THEN n ELSE pool[c]
         /\ pool'[n] \in Nodes
         /\ \A m \in Nodes \ {n} : pool'[m] = pool[m]
<1> USE NoNodeFresh DEF TypeOK, Alloc, Allocated
<1>1. /\ pool' \in [Nodes -> Nodes \cup {NoNode}]
      /\ causes' \in [Nodes -> SUBSET Nodes]
      /\ child' \in [Nodes -> Nodes \cup {NoNode}]
      /\ ~Allocated(n)
      /\ pool'[n] = IF c = NoNode THEN n ELSE pool[c]
      /\ pool'[n] \in Nodes
      /\ \A m \in Nodes \ {n} : pool'[m] = pool[m]
  OBVIOUS
<1>2. HeapOK'
  BY <1>1 DEF HeapOK
<1> QED BY <1>1, <1>2

\* A handle that is set is live, the others are untouched, and the types hold.
LEMMA SetHandle ==
  ASSUME TypeOK,
         NEW h \in Handles, NEW n \in Nodes, NEW own \in BOOLEAN,
         NEW l \in Lives \ {"none"},
         Set(h, n, own, l)
  PROVE  /\ ptr' \in [Handles -> Nodes \cup {NoNode}]
         /\ owns' \in [Handles -> BOOLEAN]
         /\ life' \in [Handles -> Lives]
         /\ ptr'[h] = n /\ owns'[h] = own /\ life'[h] = l
         /\ \A g \in Handles \ {h} :
              ptr'[g] = ptr[g] /\ owns'[g] = owns[g] /\ life'[g] = life[g]
         /\ \A g \in Handles : Live(g)' <=> life'[g] # "none"
BY NoNodeFresh DEF TypeOK, Set, Live

LEMMA UnsetHandle ==
  ASSUME TypeOK, NEW h \in Handles, Unset(h)
  PROVE  /\ ptr' \in [Handles -> Nodes \cup {NoNode}]
         /\ owns' \in [Handles -> BOOLEAN]
         /\ life' \in [Handles -> Lives]
         /\ ptr'[h] = NoNode /\ owns'[h] = FALSE /\ life'[h] = "none"
         /\ \A g \in Handles \ {h} :
              ptr'[g] = ptr[g] /\ owns'[g] = owns[g] /\ life'[g] = life[g]
         /\ \A g \in Handles : Live(g)' <=> life'[g] # "none"
BY NoNodeFresh DEF TypeOK, Set, Unset, Live, Lives

\* A view's lifetime is a lifetime, and never that of a trampoline's frame.
LEMMA ViewLife ==
  ASSUME TypeOK, NEW c \in Handles, Live(c)
  PROVE  LifeOfView(c) \in Lives \ ({"none"} \cup Frames)
BY LivesFresh DEF TypeOK, LifeOfView, Lives, Frames

-----------------------------------------------------------------------------
(***************************************************************************)
(* Memory: types, the shape of the heap, and pointers into it.             *)
(***************************************************************************)
LEMMA MemoryInit == Init => MemoryOK
BY NoNodeFresh, LivesFresh
   DEF Init, MemoryOK, TypeOK, HeapOK, PointersOK, Live, Lives, Frames, Allocated

LEMMA MemoryStep ==
  ASSUME MemoryOK, [Next]_vars
  PROVE  MemoryOK'
<1>p. liberties' = liberties
  BY SameProgram
<1> USE <1>p, NoNodeFresh DEF MemoryOK, Live, Allocated, PoolOf
<1>a. "static" \in Lives \ {"none"} /\ "frame" \in Lives \ {"none"}
      /\ "frameStatic" \in Lives \ {"none"}
  BY DEF Lives, Frames
<1>1. ASSUME NEW h \in Handles, NEW n \in Nodes, FromMessage(h, n)
      PROVE  MemoryOK'
  <2>1. Alloc(n, NoNode) /\ Set(h, n, TRUE, "static") /\ UNCHANGED <<freed, given>>
    BY <1>1 DEF FromMessage
  <2>2. TypeOK'
    BY <2>1, <1>a, AllocMemory, SetHandle DEF TypeOK
  <2>3. /\ HeapOK'
        /\ \A m \in Nodes \ {n} : pool'[m] = pool[m]
        /\ pool'[n] \in Nodes
    BY <2>1, AllocMemory
  <2>4. ptr'[h] = n /\ \A g \in Handles \ {h} : ptr'[g] = ptr[g]
    BY <2>1, <1>a, SetHandle
  <2>5. \A g \in Handles : Live(g)' => Allocated(ptr[g])'
    BY <2>3, <2>4 DEF PointersOK, TypeOK
  <2>6. \A m \in given' \cup freed' : Allocated(m)'
    BY <2>1, <2>3 DEF PointersOK, TypeOK
  <2> QED BY <2>2, <2>3, <2>5, <2>6 DEF PointersOK
<1>2. ASSUME NEW h \in Handles, NEW n \in Nodes, WithCause(h, n)
      PROVE  MemoryOK'
  <2>1. /\ Alloc(n, ptr[h]) /\ Set(h, n, TRUE, "static") /\ UNCHANGED <<freed, given>>
        /\ ptr[h] \in Nodes /\ Allocated(ptr[h])
    BY <1>2 DEF WithCause, Movable, TypeOK, PointersOK
  <2>2. TypeOK'
    BY <2>1, <1>a, AllocMemory, SetHandle DEF TypeOK
  <2>3. /\ HeapOK'
        /\ \A m \in Nodes \ {n} : pool'[m] = pool[m]
        /\ pool'[n] \in Nodes
    BY <2>1, AllocMemory
  <2>4. ptr'[h] = n /\ \A g \in Handles \ {h} : ptr'[g] = ptr[g]
    BY <2>1, <1>a, SetHandle
  <2>5. \A g \in Handles : Live(g)' => Allocated(ptr[g])'
    BY <2>3, <2>4 DEF PointersOK, TypeOK
  <2>6. \A m \in given' \cup freed' : Allocated(m)'
    BY <2>1, <2>3 DEF PointersOK, TypeOK
  <2> QED BY <2>2, <2>3, <2>5, <2>6 DEF PointersOK
<1>3. ASSUME NEW h \in Handles, NEW c \in Handles, NEW n \in Nodes, Clone(h, c, n)
      PROVE  MemoryOK'
  <2>1. Alloc(n, NoNode) /\ Set(h, n, TRUE, "static") /\ UNCHANGED <<freed, given>>
    BY <1>3 DEF Clone
  <2>2. TypeOK'
    BY <2>1, <1>a, AllocMemory, SetHandle DEF TypeOK
  <2>3. /\ HeapOK'
        /\ \A m \in Nodes \ {n} : pool'[m] = pool[m]
        /\ pool'[n] \in Nodes
    BY <2>1, AllocMemory
  <2>4. ptr'[h] = n /\ \A g \in Handles \ {h} : ptr'[g] = ptr[g]
    BY <2>1, <1>a, SetHandle
  <2>5. \A g \in Handles : Live(g)' => Allocated(ptr[g])'
    BY <2>3, <2>4 DEF PointersOK, TypeOK
  <2>6. \A m \in given' \cup freed' : Allocated(m)'
    BY <2>1, <2>3 DEF PointersOK, TypeOK
  <2> QED BY <2>2, <2>3, <2>5, <2>6 DEF PointersOK
<1>4. ASSUME NEW h \in Handles, NEW n \in Nodes, NEW own \in BOOLEAN, NEW l \in Lives \ {"none"},
             Allocated(n), Set(h, n, own, l),
             UNCHANGED <<heap, freed>>, given' \subseteq given
      PROVE  MemoryOK'
  <2>1. TypeOK'
    BY <1>4, SetHandle DEF TypeOK, heap
  <2>2. HeapOK'
    BY <1>4 DEF HeapOK, heap
  <2>3. PointersOK'
    BY <1>4, SetHandle DEF PointersOK, heap, TypeOK
  <2> QED BY <2>1, <2>2, <2>3
<1>5. ASSUME NEW h \in Handles, NEW c \in Handles,
             Child(h, c) \/ FindCause(h, c) \/ PurgeTracing(h, c)
      PROVE  MemoryOK'
  <2>1. Live(c) /\ ptr[c] \in Nodes /\ Allocated(ptr[c]) /\ UNCHANGED <<heap, freed, given>>
    BY <1>5 DEF Child, FindCause, PurgeTracing, PointersOK, TypeOK
  <2>2. LifeOfView(c) \in Lives \ {"none"} /\ c \in Lives \ {"none"}
    BY <2>1, ViewLife, LivesFresh DEF Lives
  <2>3. PICK n \in Nodes, l \in Lives \ {"none"} : Allocated(n) /\ Set(h, n, FALSE, l)
    <3>1. CASE Child(h, c)
      <4>1. child[ptr[c]] \in Nodes /\ Allocated(child[ptr[c]])
        BY <2>1, <3>1 DEF Child, HeapOK, TypeOK
      <4> QED BY <3>1, <4>1, <2>2 DEF Child
    <3>2. CASE FindCause(h, c)
      <4>1. PICK n \in causes[ptr[c]] : Set(h, n, FALSE, LifeOfView(c))
        BY <3>2 DEF FindCause
      <4>2. n \in Nodes /\ Allocated(n)
        BY <2>1, <4>1 DEF HeapOK, TypeOK
      <4> QED BY <4>1, <4>2, <2>2
    <3>3. CASE PurgeTracing(h, c)
      BY <3>3, <2>1, <2>2 DEF PurgeTracing
    <3> QED BY <1>5, <3>1, <3>2, <3>3
  <2> QED BY <2>1, <2>3, <1>4
<1>6. ASSUME NEW h \in Handles, IntoStatic(h)
      PROVE  MemoryOK'
  <2>1. /\ UNCHANGED <<heap, freed, given, ptr, owns>> /\ ptr[h] # NoNode
        /\ life' \in [Handles -> Lives] /\ \A g \in Handles : (Live(g)' <=> life'[g] # "none")
    BY <1>6, <1>a DEF IntoStatic, Movable, TypeOK
  <2>2. TypeOK'
    BY <2>1 DEF TypeOK, heap
  <2> QED BY <2>1, <2>2 DEF HeapOK, PointersOK, heap
<1>7. ASSUME NEW h \in Handles, Drop(h) \/ IntoRaw(h) \/ ReturnAsMutPtr(h)
      PROVE  MemoryOK'
  <2>1. /\ Unset(h) /\ UNCHANGED heap
        /\ ptr[h] \in Nodes /\ Allocated(ptr[h])
        /\ given' \subseteq given \cup {ptr[h]}
        /\ freed' \subseteq freed \cup {PoolOf(h)}
        /\ PoolOf(h) \in Nodes /\ Allocated(PoolOf(h))
    BY <1>7 DEF Drop, IntoRaw, ReturnAsMutPtr, Returnable, Movable, TypeOK, PointersOK, HeapOK
  <2>2. TypeOK'
    BY <2>1, UnsetHandle DEF TypeOK, heap
  <2>3. HeapOK'
    BY <2>1 DEF HeapOK, heap
  <2>4. \A g \in Handles : Live(g)' => Allocated(ptr[g])'
    <3>1. TypeOK /\ Unset(h) /\ pool' = pool
      BY <2>1 DEF heap
    <3>2. ptr'[h] = NoNode /\ \A g \in Handles \ {h} : ptr'[g] = ptr[g]
      BY <3>1, UnsetHandle
    <3> QED BY <3>1, <3>2 DEF PointersOK
  <2>5. \A m \in given' \cup freed' : Allocated(m)'
    BY <2>1 DEF PointersOK, heap
  <2> QED BY <2>2, <2>3, <2>4, <2>5 DEF PointersOK
<1>8. ASSUME NEW n \in Nodes, LibraryFails(n)
      PROVE  MemoryOK'
  <2>1. Alloc(n, NoNode) /\ given' = given \cup {n} /\ UNCHANGED <<freed, ptr, owns, life>>
    BY <1>8 DEF LibraryFails
  <2>2. TypeOK'
    BY <2>1, AllocMemory DEF TypeOK
  <2>3. /\ HeapOK'
        /\ \A m \in Nodes \ {n} : pool'[m] = pool[m]
        /\ pool'[n] \in Nodes
    BY <2>1, AllocMemory
  <2>4. PointersOK'
    BY <2>1, <2>3 DEF PointersOK, TypeOK
  <2> QED BY <2>2, <2>3, <2>4
<1>9. ASSUME NEW n \in Nodes, LibraryClears(n)
      PROVE  MemoryOK'
  <2>1. /\ UNCHANGED <<heap, ptr, owns, life>> /\ given' \subseteq given
        /\ freed' = freed \cup {pool[n]} /\ pool[n] \in Nodes /\ Allocated(pool[n])
    BY <1>9 DEF LibraryClears, TypeOK, PointersOK, HeapOK
  <2>2. TypeOK'
    BY <2>1 DEF TypeOK, heap
  <2> QED BY <2>1, <2>2 DEF HeapOK, PointersOK, heap
<1>10. ASSUME NEW h \in Handles, NEW n \in Nodes,
              FromRaw(h, n) \/ LendWarning(h, n) \/ LendLockError(h, n)
       PROVE  MemoryOK'
  <2>1. Allocated(n) /\ UNCHANGED <<heap, freed>> /\ given' \subseteq given
    BY <1>10 DEF FromRaw, LendWarning, LendLockError, PointersOK
  <2>2. PICK own \in BOOLEAN, l \in Lives \ {"none"} : Set(h, n, own, l)
    BY <1>10, <1>a DEF FromRaw, LendWarning, LendLockError
  <2> QED BY <2>1, <2>2, <1>4
<1>11. CASE UNCHANGED vars
  BY <1>11 DEF vars, TypeOK, HeapOK, PointersOK
<1> QED BY <1>1, <1>2, <1>3, <1>5, <1>6, <1>7, <1>8, <1>9, <1>10, <1>11
        DEF Next, Rust, Boundary

\* Every pointer of the program is an error that was allocated, whatever safe
\* Rust does with handles and whatever trampolines return.
THEOREM TypeCorrect == Spec => []TypeOK
<1>1. MemoryOK => TypeOK
  BY DEF MemoryOK
<1> QED BY MemoryInit, MemoryStep, <1>1, PTL DEF Spec
-----------------------------------------------------------------------------
(***************************************************************************)
(* Ownership, for well-used handles.                                       *)
(***************************************************************************)
\* A node just allocated in a pool of its own is in nobody's chain.
LEMMA FreshPool ==
  ASSUME MemoryOK, NEW n \in Nodes, Alloc(n, NoNode)
  PROVE  /\ pool'[n] = n /\ n \notin freed /\ n \notin given
         /\ \A m \in Nodes : Allocated(m) => m # n /\ pool'[m] = pool[m] /\ pool[m] # n
         /\ \A m \in Nodes : Allocated(m)' => m = n \/ Allocated(m)
         /\ \A g \in Handles : Live(g) => ptr[g] \in Nodes /\ Allocated(ptr[g])
         /\ \A m \in given : m \in Nodes /\ Allocated(m)
<1>1. /\ pool'[n] = n /\ ~Allocated(n)
      /\ \A m \in Nodes \ {n} : pool'[m] = pool[m]
  BY AllocMemory DEF MemoryOK
<1>2. \A m \in Nodes : Allocated(m) => m # n /\ pool'[m] = pool[m] /\ pool[m] # n
  BY <1>1 DEF MemoryOK, HeapOK, Allocated
<1> QED BY <1>1, <1>2 DEF MemoryOK, PointersOK, TypeOK, Live, Allocated

LEMMA OwnershipInit == Init => Ownership
BY LivesFresh
   DEF Init, Ownership, LivesOK, LentInFrame, HandlesValid, GivenValid, OneOwner, NoLeak,
       Live, Allocated, Frames

LEMMA OwnershipStep ==
  ASSUME WellUsed, MemoryOK, Ownership, [Next]_vars
  PROVE  Ownership'
<1> USE NoNodeFresh DEF Ownership, Live, Allocated, PoolOf
<1>a. /\ Disciplined /\ ~May("as_mut_ptr") /\ ~May("adopt")
      /\ "static" \notin Frames /\ "frameStatic" \in Frames /\ "none" \notin Frames
      /\ TypeOK
  BY DEF WellUsed, Disciplined, Frames, MemoryOK
<1>b. /\ "static" \in Lives \ {"none"} /\ "frameStatic" \in Lives \ {"none"}
      /\ \A g \in Handles : Live(g) => ptr[g] \in Nodes /\ Allocated(ptr[g])
      /\ \A m \in given : m \in Nodes /\ Allocated(m)
      /\ \A g \in Handles : ~Live(g) => life[g] = "none" /\ life[g] \notin Frames
  BY <1>a DEF Lives, Frames, MemoryOK, PointersOK, TypeOK
<1>1. ASSUME NEW h \in Handles, NEW n \in Nodes,
             ~Live(h), Alloc(n, NoNode), Set(h, n, TRUE, "static"), UNCHANGED <<freed, given>>
      PROVE  Ownership'
  <2>1. /\ ptr'[h] = n /\ owns'[h] /\ life'[h] = "static"
        /\ \A g \in Handles \ {h} :
             ptr'[g] = ptr[g] /\ owns'[g] = owns[g] /\ life'[g] = life[g]
    <3>1. TypeOK /\ "static" \in Lives \ {"none"} /\ Set(h, n, TRUE, "static")
      BY <1>1, <1>a, <1>b
    <3> QED BY <3>1 DEF Set, TypeOK
  <2>2. /\ pool'[n] = n /\ n \notin freed /\ n \notin given
        /\ \A m \in Nodes : Allocated(m) => m # n /\ pool'[m] = pool[m] /\ pool[m] # n
        /\ \A m \in Nodes : Allocated(m)' => m = n \/ Allocated(m)
    BY <1>1, FreshPool
  <2>11. LivesOK'
    BY <1>1, <1>a, <1>b, <2>1, <2>2 DEF LivesOK
  <2>12. LentInFrame'
    BY <1>1, <1>a, <1>b, <2>1, <2>2 DEF LentInFrame
  <2>13. HandlesValid'
    BY <1>1, <1>a, <1>b, <2>1, <2>2 DEF HandlesValid, GivenValid
  <2>14. GivenValid'
    BY <1>1, <1>a, <1>b, <2>1, <2>2 DEF GivenValid, OneOwner, HandlesValid
  <2>15. OneOwner'
    BY <1>1, <1>a, <1>b, <2>1, <2>2 DEF OneOwner
  <2>16. NoLeak'
    BY <1>1, <1>a, <1>b, <2>1, <2>2 DEF NoLeak
  <2> QED BY <2>11, <2>12, <2>13, <2>14, <2>15, <2>16
<1>2. ASSUME NEW h \in Handles, NEW n \in Nodes, WithCause(h, n)
      PROVE  Ownership'
  <2>1. /\ Live(h) /\ owns[h] /\ life[h] = "static" /\ UNCHANGED <<freed, given>>
        /\ Alloc(n, ptr[h]) /\ Set(h, n, TRUE, "static")
    BY <1>2, <1>a DEF WithCause, Movable
  <2>2. /\ ptr'[h] = n /\ owns'[h] /\ life'[h] = "static"
        /\ \A g \in Handles \ {h} :
             ptr'[g] = ptr[g] /\ owns'[g] = owns[g] /\ life'[g] = life[g]
    BY <2>1, <1>a, <1>b, SetHandle
  <2>3. /\ ~Allocated(n) /\ pool'[n] = PoolOf(h)
        /\ \A m \in Nodes \ {n} : pool'[m] = pool[m]
    BY <2>1, <1>b, AllocMemory DEF MemoryOK
  <2>4. \A m \in Nodes : Allocated(m) => m # n /\ pool'[m] = pool[m]
    BY <2>3
  <2>11. LivesOK'
    BY <1>a, <1>b, <2>1, <2>2, <2>3, <2>4 DEF LivesOK
  <2>12. LentInFrame'
    BY <1>a, <1>b, <2>1, <2>2, <2>3, <2>4 DEF LentInFrame
  <2>13. HandlesValid'
    BY <1>a, <1>b, <2>1, <2>2, <2>3, <2>4 DEF HandlesValid, GivenValid
  <2>14. GivenValid'
    BY <1>a, <1>b, <2>1, <2>2, <2>3, <2>4 DEF GivenValid, OneOwner, HandlesValid
  <2>15. OneOwner'
    BY <1>a, <1>b, <2>1, <2>2, <2>3, <2>4 DEF OneOwner
  <2>16. NoLeak'
    BY <1>a, <1>b, <2>1, <2>2, <2>3, <2>4 DEF NoLeak
  <2> QED BY <2>11, <2>12, <2>13, <2>14, <2>15, <2>16
<1>3. ASSUME NEW h \in Handles, NEW c \in Handles,
             Child(h, c) \/ FindCause(h, c) \/ PurgeTracing(h, c)
      PROVE  Ownership'
  <2>1. ~Live(h) /\ Live(c) /\ UNCHANGED <<heap, freed, given>>
    BY <1>3 DEF Child, FindCause, PurgeTracing
  <2>2. PICK m \in Nodes, l \in Lives \ {"none"} :
          pool[m] = PoolOf(c) /\ l \notin Frames /\ Set(h, m, FALSE, l)
    <3>1. /\ LifeOfView(c) \in Lives \ {"none"} /\ LifeOfView(c) \notin Frames
          /\ c \in Lives \ {"none"} /\ c \notin Frames
      BY <2>1, <1>a, ViewLife, LivesFresh DEF Lives, Frames
    <3>2. CASE Child(h, c)
      <4>1. child[ptr[c]] \in Nodes /\ pool[child[ptr[c]]] = PoolOf(c)
        BY <2>1, <3>2, <1>b, <1>a DEF Child, MemoryOK, HeapOK, TypeOK
      <4> QED BY <3>1, <3>2, <4>1 DEF Child
    <3>3. CASE FindCause(h, c)
      <4>1. PICK m \in causes[ptr[c]] : Set(h, m, FALSE, LifeOfView(c))
        BY <3>3 DEF FindCause
      <4>2. m \in Nodes /\ pool[m] = PoolOf(c)
        BY <2>1, <4>1, <1>b, <1>a DEF MemoryOK, HeapOK, TypeOK
      <4> QED BY <3>1, <4>1, <4>2
    <3>4. CASE PurgeTracing(h, c)
      BY <2>1, <3>1, <3>4, <1>b DEF PurgeTracing
    <3> QED BY <1>3, <3>2, <3>3, <3>4
  <2>3. /\ ptr'[h] = m /\ owns'[h] = FALSE /\ life'[h] = l
        /\ \A g \in Handles \ {h} :
             ptr'[g] = ptr[g] /\ owns'[g] = owns[g] /\ life'[g] = life[g]
    BY <2>2, <1>a DEF Set, TypeOK
  <2>4. pool' = pool
    BY <2>1 DEF heap
  <2>11. LivesOK'
    BY <1>a, <1>b, <2>1, <2>2, <2>3, <2>4 DEF LivesOK
  <2>12. LentInFrame'
    BY <1>a, <1>b, <2>1, <2>2, <2>3, <2>4 DEF LentInFrame
  <2>13. HandlesValid'
    BY <1>a, <1>b, <2>1, <2>2, <2>3, <2>4 DEF HandlesValid, GivenValid
  <2>14. GivenValid'
    BY <1>a, <1>b, <2>1, <2>2, <2>3, <2>4 DEF GivenValid, OneOwner, HandlesValid
  <2>15. OneOwner'
    BY <1>a, <1>b, <2>1, <2>2, <2>3, <2>4 DEF OneOwner
  <2>16. NoLeak'
    BY <1>a, <1>b, <2>1, <2>2, <2>3, <2>4 DEF NoLeak
  <2> QED BY <2>11, <2>12, <2>13, <2>14, <2>15, <2>16
<1>4. ASSUME NEW h \in Handles, IntoStatic(h)
      PROVE  FALSE
  BY <1>4, <1>a, LivesFresh DEF IntoStatic, LivesOK
<1>5. ASSUME NEW h \in Handles, Drop(h)
      PROVE  Ownership'
  <2>1. /\ Live(h) /\ Unset(h) /\ UNCHANGED <<heap, given>> /\ pool' = pool
        /\ owns[h] \/ life[h] \in Frames => Unviewed(h)
        /\ freed' = IF owns[h] THEN freed \cup {PoolOf(h)} ELSE freed
    BY <1>5, <1>a DEF Drop, heap
  <2>2. /\ ptr'[h] = NoNode /\ owns'[h] = FALSE /\ life'[h] = "none"
        /\ \A g \in Handles \ {h} :
             ptr'[g] = ptr[g] /\ owns'[g] = owns[g] /\ life'[g] = life[g]
    BY <2>1, <1>a, UnsetHandle
  <2>3. \A g \in Handles \ {h} :
          Live(g) /\ (owns[h] \/ life[h] \in Frames) => PoolOf(g) # PoolOf(h)
    BY <2>1 DEF Unviewed
  <2>11. LivesOK'
    BY <1>a, <1>b, <2>1, <2>2, <2>3 DEF LivesOK
  <2>12. LentInFrame'
    BY <1>a, <1>b, <2>1, <2>2, <2>3 DEF LentInFrame
  <2>13. HandlesValid'
    BY <1>a, <1>b, <2>1, <2>2, <2>3 DEF HandlesValid, GivenValid
  <2>14. GivenValid'
    BY <1>a, <1>b, <2>1, <2>2, <2>3 DEF GivenValid, OneOwner, HandlesValid
  <2>15. OneOwner'
    BY <1>a, <1>b, <2>1, <2>2, <2>3 DEF OneOwner
  <2>16. NoLeak'
    BY <1>a, <1>b, <2>1, <2>2, <2>3 DEF NoLeak
  <2> QED BY <2>11, <2>12, <2>13, <2>14, <2>15, <2>16
<1>6. ASSUME NEW h \in Handles, IntoRaw(h)
      PROVE  Ownership'
  <2>1. /\ Live(h) /\ Unset(h) /\ UNCHANGED <<heap, freed>> /\ pool' = pool
        /\ owns[h] /\ life[h] = "static" /\ Unviewed(h)
        /\ given' = given \cup {ptr[h]}
    BY <1>6, <1>a DEF IntoRaw, Returnable, Movable, heap
  <2>2. /\ ptr'[h] = NoNode /\ owns'[h] = FALSE /\ life'[h] = "none"
        /\ \A g \in Handles \ {h} :
             ptr'[g] = ptr[g] /\ owns'[g] = owns[g] /\ life'[g] = life[g]
    BY <2>1, <1>a, UnsetHandle
  <2>3. \A g \in Handles \ {h} : Live(g) => PoolOf(g) # PoolOf(h)
    BY <2>1 DEF Unviewed
  <2>11. LivesOK'
    BY <1>a, <1>b, <2>1, <2>2, <2>3 DEF LivesOK
  <2>12. LentInFrame'
    BY <1>a, <1>b, <2>1, <2>2, <2>3 DEF LentInFrame
  <2>13. HandlesValid'
    BY <1>a, <1>b, <2>1, <2>2, <2>3 DEF HandlesValid, GivenValid
  <2>14. GivenValid'
    BY <1>a, <1>b, <2>1, <2>2, <2>3 DEF GivenValid, OneOwner, HandlesValid
  <2>15. OneOwner'
    BY <1>a, <1>b, <2>1, <2>2, <2>3 DEF OneOwner
  <2>16. NoLeak'
    BY <1>a, <1>b, <2>1, <2>2, <2>3 DEF NoLeak
  <2> QED BY <2>11, <2>12, <2>13, <2>14, <2>15, <2>16
<1>7. ASSUME NEW n \in Nodes, LibraryFails(n)
      PROVE  Ownership'
  <2>1. /\ \A g \in Handles : life[g] \notin Frames
        /\ Alloc(n, NoNode) /\ given' = given \cup {n}
        /\ UNCHANGED <<freed, ptr, owns, life>>
    BY <1>7 DEF LibraryFails, InCallback
  <2>2. /\ pool'[n] = n /\ n \notin freed /\ n \notin given
        /\ \A m \in Nodes : Allocated(m) => m # n /\ pool'[m] = pool[m] /\ pool[m] # n
        /\ \A m \in Nodes : Allocated(m)' => m = n \/ Allocated(m)
    BY <2>1, FreshPool
  <2>11. LivesOK'
    BY <1>a, <1>b, <2>1, <2>2 DEF LivesOK
  <2>12. LentInFrame'
    BY <1>a, <1>b, <2>1, <2>2 DEF LentInFrame
  <2>13. HandlesValid'
    BY <1>a, <1>b, <2>1, <2>2 DEF HandlesValid, GivenValid
  <2>14. GivenValid'
    BY <1>a, <1>b, <2>1, <2>2 DEF GivenValid, OneOwner, HandlesValid
  <2>15. OneOwner'
    BY <1>a, <1>b, <2>1, <2>2 DEF OneOwner
  <2>16. NoLeak'
    BY <1>a, <1>b, <2>1, <2>2 DEF NoLeak
  <2> QED BY <2>11, <2>12, <2>13, <2>14, <2>15, <2>16
<1>8. ASSUME NEW n \in Nodes, LibraryClears(n)
      PROVE  Ownership'
  <2>1. /\ \A g \in Handles : life[g] \notin Frames
        /\ n \in given /\ given' = given \ {n} /\ freed' = freed \cup {pool[n]}
        /\ pool' = pool /\ UNCHANGED <<ptr, owns, life>>
    BY <1>8 DEF LibraryClears, InCallback, heap
  <2>2. \A g \in Handles : Live(g) => PoolOf(g) # pool[n]
    BY <2>1 DEF LentInFrame
  <2>11. LivesOK'
    BY <1>a, <1>b, <2>1, <2>2 DEF LivesOK
  <2>12. LentInFrame'
    BY <1>a, <1>b, <2>1, <2>2 DEF LentInFrame
  <2>13. HandlesValid'
    BY <1>a, <1>b, <2>1, <2>2 DEF HandlesValid, GivenValid
  <2>14. GivenValid'
    BY <1>a, <1>b, <2>1, <2>2 DEF GivenValid, OneOwner, HandlesValid
  <2>15. OneOwner'
    BY <1>a, <1>b, <2>1, <2>2 DEF OneOwner
  <2>16. NoLeak'
    BY <1>a, <1>b, <2>1, <2>2 DEF NoLeak
  <2> QED BY <2>11, <2>12, <2>13, <2>14, <2>15, <2>16
<1>9. ASSUME NEW h \in Handles, NEW n \in Nodes, FromRaw(h, n)
      PROVE  Ownership'
  <2>1. /\ \A g \in Handles : life[g] \notin Frames
        /\ ~Live(h) /\ n \in given /\ given' = given \ {n} /\ UNCHANGED freed
        /\ pool' = pool /\ Set(h, n, TRUE, "static")
    BY <1>9 DEF FromRaw, InCallback, heap
  <2>2. /\ ptr'[h] = n /\ owns'[h] /\ life'[h] = "static"
        /\ \A g \in Handles \ {h} :
             ptr'[g] = ptr[g] /\ owns'[g] = owns[g] /\ life'[g] = life[g]
    <3>1. TypeOK /\ "static" \in Lives \ {"none"} /\ Set(h, n, TRUE, "static")
      BY <2>1, <1>a, <1>b
    <3> QED BY <3>1 DEF Set, TypeOK
  <2>3. \A g \in Handles : Live(g) => PoolOf(g) # pool[n]
    BY <2>1 DEF LentInFrame
  <2>11. LivesOK'
    BY <1>a, <1>b, <2>1, <2>2, <2>3 DEF LivesOK
  <2>12. LentInFrame'
    BY <1>a, <1>b, <2>1, <2>2, <2>3 DEF LentInFrame, OneOwner
  <2>13. HandlesValid'
    BY <1>a, <1>b, <2>1, <2>2, <2>3 DEF HandlesValid, GivenValid
  <2>14. GivenValid'
    BY <1>a, <1>b, <2>1, <2>2, <2>3 DEF GivenValid, OneOwner, HandlesValid
  <2>15. OneOwner'
    BY <1>a, <1>b, <2>1, <2>2, <2>3 DEF OneOwner
  <2>16. NoLeak'
    BY <1>a, <1>b, <2>1, <2>2, <2>3 DEF NoLeak
  <2> QED BY <2>11, <2>12, <2>13, <2>14, <2>15, <2>16
<1>10. ASSUME NEW h \in Handles, NEW n \in Nodes, LendWarning(h, n)
       PROVE  Ownership'
  <2>1. /\ \A g \in Handles : life[g] \notin Frames
        /\ ~Live(h) /\ n \in given /\ UNCHANGED <<freed, given>>
        /\ pool' = pool /\ Set(h, n, FALSE, "frameStatic")
    BY <1>10 DEF LendWarning, InCallback, heap
  <2>2. /\ ptr'[h] = n /\ owns'[h] = FALSE /\ life'[h] = "frameStatic"
        /\ \A g \in Handles \ {h} :
             ptr'[g] = ptr[g] /\ owns'[g] = owns[g] /\ life'[g] = life[g]
    BY <2>1, <1>a DEF Set, TypeOK
  <2>3. \A g \in Handles, m \in given : Live(g) => PoolOf(g) # pool[m]
    BY <2>1 DEF LentInFrame
  <2>11. LivesOK'
    BY <1>a, <1>b, <2>1, <2>2, <2>3 DEF LivesOK
  <2>12. LentInFrame'
    BY <1>a, <1>b, <2>1, <2>2, <2>3 DEF LentInFrame
  <2>13. HandlesValid'
    BY <1>a, <1>b, <2>1, <2>2, <2>3 DEF HandlesValid, GivenValid
  <2>14. GivenValid'
    BY <1>a, <1>b, <2>1, <2>2, <2>3 DEF GivenValid, OneOwner, HandlesValid
  <2>15. OneOwner'
    BY <1>a, <1>b, <2>1, <2>2, <2>3 DEF OneOwner
  <2>16. NoLeak'
    BY <1>a, <1>b, <2>1, <2>2, <2>3 DEF NoLeak
  <2> QED BY <2>11, <2>12, <2>13, <2>14, <2>15, <2>16
<1>11. CASE UNCHANGED vars
  BY <1>11 DEF vars, LivesOK, LentInFrame, HandlesValid, GivenValid, OneOwner, NoLeak
<1>12. ASSUME NEW h \in Handles, NEW n \in Nodes, ReturnAsMutPtr(h) \/ LendLockError(h, n)
       PROVE  FALSE
  BY <1>12, <1>a DEF ReturnAsMutPtr, LendLockError
<1>13. ASSUME NEW h \in Handles, NEW n \in Nodes,
              FromMessage(h, n) \/ \E c \in Handles : Clone(h, c, n)
       PROVE  Ownership'
  BY <1>13, <1>1 DEF FromMessage, Clone
<1>14. CASE Rust
  BY <1>14, <1>2, <1>3, <1>4, <1>5, <1>13 DEF Rust
<1>15. CASE Boundary
  <2>1. CASE \E h \in Handles : IntoRaw(h) \/ ReturnAsMutPtr(h)
    BY <2>1, <1>6, <1>a DEF ReturnAsMutPtr
  <2>2. CASE \E n \in Nodes : LibraryFails(n) \/ LibraryClears(n)
    BY <2>2, <1>7, <1>8
  <2>3. CASE \E h \in Handles, n \in Nodes :
               FromRaw(h, n) \/ LendWarning(h, n) \/ LendLockError(h, n)
    BY <2>3, <1>9, <1>10, <1>12
  <2> QED BY <1>15, <2>1, <2>2, <2>3 DEF Boundary
<1> QED BY <1>11, <1>14, <1>15 DEF Next

(***************************************************************************)
(* Well-used errors are never read after they were freed, are freed at     *)
(* most once, and are never leaked, for any number of errors and handles.  *)
(***************************************************************************)
THEOREM OwnershipCorrect == Spec => [](ChainsValid /\ ChainsOwned /\ ChainsCleared)
<1> DEFINE Inv == MemoryOK /\ (WellUsed => Ownership)
<1>1. Init => Inv
  BY MemoryInit, OwnershipInit
<1>2. Inv /\ [Next]_vars => Inv'
  BY MemoryStep, OwnershipStep, SameProgram
<1>3. Inv => ChainsValid /\ ChainsOwned /\ ChainsCleared
  BY DEF Ownership, ChainsValid, ChainsOwned, ChainsCleared
<1> QED BY <1>1, <1>2, <1>3, PTL DEF Spec

(***************************************************************************)
(* No error is read after it is freed, by Rust or by the C library.        *)
(***************************************************************************)
THEOREM ValidityCorrect == Spec => []ChainsValid
  BY OwnershipCorrect, PTL

(***************************************************************************)
(* No chain is lost: what is allocated has an owner, or C will clear it.   *)
(***************************************************************************)
THEOREM ClearingCorrect == Spec => []ChainsCleared
  BY OwnershipCorrect, PTL

-----------------------------------------------------------------------------
(***************************************************************************)
(* Chains: a walk from an error to its causes ends.                        *)
(***************************************************************************)
\* The errors below n are its direct cause and what is below that, and n is not one of
\* them.  An error is made above one that is there, and has its cause for good.
ChainsFinite ==
  \A n \in Nodes : Allocated(n) =>
    IF child[n] = NoNode
      THEN causes[n] = {n}
      ELSE /\ child[n] \in Nodes /\ Allocated(child[n])
           /\ causes[n] = {n} \cup causes[child[n]]
           /\ n \notin causes[child[n]]

ChainsKept ==
  \A n \in Nodes : Allocated(n) =>
    pool'[n] = pool[n] /\ causes'[n] = causes[n] /\ child'[n] = child[n]

\* What a step does to the heap.
LEMMA HeapSteps ==
  ASSUME MemoryOK, Next
  PROVE  \/ UNCHANGED heap
         \/ \E n \in Nodes, c \in Nodes \cup {NoNode} :
              Alloc(n, c) /\ (c # NoNode => Allocated(c))
<1>1. CASE \E h \in Handles, n \in Nodes : FromMessage(h, n)
  BY <1>1 DEF FromMessage
<1>2. CASE \E h \in Handles, n \in Nodes : WithCause(h, n)
  BY <1>2 DEF WithCause, Movable, Live, MemoryOK, PointersOK, TypeOK
<1>3. CASE \E h, c \in Handles, n \in Nodes : Clone(h, c, n)
  BY <1>3 DEF Clone
<1>4. CASE \E n \in Nodes : LibraryFails(n)
  BY <1>4 DEF LibraryFails
<1>5. CASE UNCHANGED heap
  BY <1>5
<1> QED
  BY <1>1, <1>2, <1>3, <1>4, <1>5
  DEF Next, Rust, Boundary, Child, FindCause, PurgeTracing, IntoStatic, Drop, IntoRaw,
      ReturnAsMutPtr, LibraryClears, FromRaw, LendWarning, LendLockError

LEMMA ChainsStep ==
  ASSUME MemoryOK, ChainsFinite, [Next]_vars
  PROVE  ChainsFinite' /\ ChainsKept
<1>1. CASE UNCHANGED heap
  BY <1>1 DEF ChainsFinite, ChainsKept, Allocated, heap
<1>2. ASSUME NEW n \in Nodes, NEW c \in Nodes \cup {NoNode},
             Alloc(n, c), c # NoNode => Allocated(c)
      PROVE  ChainsFinite' /\ ChainsKept
  <2>1. /\ pool[n] = NoNode /\ pool'[n] # NoNode
        /\ causes'[n] = IF c = NoNode THEN {n} ELSE {n} \cup causes[c]
        /\ child'[n] = c
        /\ \A m \in Nodes \ {n} :
             pool'[m] = pool[m] /\ causes'[m] = causes[m] /\ child'[m] = child[m]
    BY <1>2, NoNodeFresh DEF Alloc, Allocated, MemoryOK, TypeOK
  <2>2. c # NoNode => c \in Nodes \ {n}
    BY <1>2, <2>1 DEF Allocated
  <2>3. c # NoNode => n \notin causes[c]
    BY <1>2, <2>1, <2>2 DEF Allocated, MemoryOK, HeapOK
  <2>4. ASSUME NEW m \in Nodes, m # n, Allocated(m)
        PROVE  /\ child[m] # NoNode => child[m] \in Nodes \ {n}
               /\ child[m] # NoNode => Allocated(child[m])
    BY <2>1, <2>4 DEF ChainsFinite, Allocated
  <2>5. ChainsFinite'
    <3> SUFFICES ASSUME NEW m \in Nodes, pool'[m] # NoNode
                 PROVE  IF child'[m] = NoNode
                          THEN causes'[m] = {m}
                          ELSE /\ child'[m] \in Nodes /\ pool'[child'[m]] # NoNode
                               /\ causes'[m] = {m} \cup causes'[child'[m]]
                               /\ m \notin causes'[child'[m]]
      BY DEF ChainsFinite, Allocated
    <3>1. CASE m = n
      BY <1>2, <2>1, <2>2, <2>3, <3>1 DEF Allocated
    <3>2. CASE m # n
      BY <2>1, <2>4, <3>2 DEF ChainsFinite, Allocated
    <3> QED BY <3>1, <3>2
  <2>6. ChainsKept
    BY <2>1 DEF ChainsKept, Allocated
  <2> QED BY <2>5, <2>6
<1>3. CASE UNCHANGED vars
  BY <1>1, <1>3 DEF vars, heap
<1> QED BY <1>1, <1>2, <1>3, HeapSteps

\* Whatever a program does with its errors, also with views and adopted ones: the walk from
\* an error to its causes (child, find_cause, the loop of Debug) meets no error twice, has
\* fewer before it at every step, and finds the same chain every time.
THEOREM ChainsEnd == Spec => []ChainsFinite /\ [][ChainsKept]_vars
<1>1. Init => MemoryOK /\ ChainsFinite
  BY MemoryInit DEF Init, ChainsFinite, Allocated
<1>2. MemoryOK /\ [Next]_vars => MemoryOK'
  BY MemoryStep
<1>3. MemoryOK /\ ChainsFinite /\ [Next]_vars => ChainsFinite' /\ [ChainsKept]_vars
  BY ChainsStep
<1> QED BY <1>1, <1>2, <1>3, PTL DEF Spec

=============================================================================
