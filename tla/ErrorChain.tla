----------------------------- MODULE ErrorChain -----------------------------
(***************************************************************************)
(* Error<'a> (error.rs): Rust handles on the errors of the C library.      *)
(*                                                                         *)
(* A C error (a node) points to its cause and lives in a pool it shares    *)
(* with its causes; svn_error_clear of any of them frees the whole pool.   *)
(* An Error is a pointer and the flag owns_ptr: dropping an owning handle  *)
(* clears the chain.  Errors cross the boundary both ways, out of the      *)
(* callbacks' trampolines and back from the C functions that called them.  *)
(*                                                                         *)
(* What Rust's types forbid is a guard: a value is not moved or dropped    *)
(* while a value whose lifetime names it is in use.  What they allow,      *)
(* because the lifetime of a view is that of its parent's type parameter   *)
(* and not of the parent, is an action, taken by some programs only.       *)
(***************************************************************************)
EXTENDS Naturals

CONSTANTS
  Nodes,        \* the C errors a run may allocate
  Handles,      \* the Error values the program may hold at one time
  NoNode,       \* the null pointer
  Programs      \* sets of liberties: the programs a run is about

\* What a program may do because the types allow it.
Liberties ==
  {"views",       \* use a view as if it were not a borrow
   "as_mut_ptr",  \* return an error from a callback of list, get_location_segments or
                  \* blame, or from a filter of import
   "adopt"}       \* lock paths, with a callback that is lent the error of each

ASSUME NoNodeFresh == NoNode \notin Nodes
ASSUME LivesFresh  == {"none", "static", "frame", "frameStatic"} \cap Handles = {}
ASSUME LibertyKinds == Programs \subseteq SUBSET Liberties

VARIABLES
  liberties,  \* those that the program takes
  pool,     \* pool[n]: the pool of node n, NoNode until n is allocated
  causes,   \* causes[n]: n and every error below it
  child,    \* child[n]: the direct cause of n
  freed,    \* the pools that have been destroyed
  given,    \* the nodes the C library holds a pointer to and will clear
  ptr,      \* ptr[h]: the node handle h points to, NoNode if h is not in use
  owns,     \* owns[h]: owns_ptr
  life      \* life[h]: the lifetime of h

heap == <<pool, causes, child>>
vars == <<liberties, pool, causes, child, freed, given, ptr, owns, life>>

May(l) == l \in liberties

\* Callers treat a handle without owns_ptr as a borrow.
Disciplined == ~May("views")

Frames == {"frame", "frameStatic"}
Lives  == {"none", "static"} \cup Frames \cup Handles

Live(h) == ptr[h] # NoNode
PoolOf(h) == pool[ptr[h]]
Allocated(n) == pool[n] # NoNode

\* A value bound to the frame of a trampoline is lent to the callback.
InCallback == \E h \in Handles : life[h] \in Frames

\* The borrow checker: no value whose lifetime names h is in use.
Unborrowed(h) == \A g \in Handles : life[g] # h

\* A value the caller may move: its own, and not borrowed.
Movable(h) == Live(h) /\ life[h] \notin Frames /\ Unborrowed(h)

\* No other handle points into h's chain.
Unviewed(h) == \A g \in Handles \ {h} : Live(g) => PoolOf(g) # PoolOf(h)

Set(h, n, own, l) ==
  /\ ptr' = [ptr EXCEPT ![h] = n]
  /\ owns' = [owns EXCEPT ![h] = own]
  /\ life' = [life EXCEPT ![h] = l]

Unset(h) == Set(h, NoNode, FALSE, "none")

\* svn_error_create: a node above c in c's pool, or in a pool of its own.
Alloc(n, c) ==
  /\ ~Allocated(n)
  /\ pool' = [pool EXCEPT ![n] = IF c = NoNode THEN n ELSE pool[c]]
  /\ causes' = [causes EXCEPT ![n] = IF c = NoNode THEN {n} ELSE {n} \cup causes[c]]
  /\ child' = [child EXCEPT ![n] = c]

Init ==
  /\ liberties \in Programs
  /\ pool = [n \in Nodes |-> NoNode]
  /\ causes = [n \in Nodes |-> {}]
  /\ child = [n \in Nodes |-> NoNode]
  /\ freed = {}
  /\ given = {}
  /\ ptr = [h \in Handles |-> NoNode]
  /\ owns = [h \in Handles |-> FALSE]
  /\ life = [h \in Handles |-> "none"]

-----------------------------------------------------------------------------
(***************************************************************************)
(* Making errors.                                                          *)
(***************************************************************************)
FromMessage(h, n) ==
  /\ ~Live(h)
  /\ Alloc(n, NoNode)
  /\ Set(h, n, TRUE, "static")
  /\ UNCHANGED <<freed, given>>

\* Error::new with a child: the child's handle is detached, whether or not it
\* owns the pointer, and the new handle, in its place here, owns the chain.
WithCause(h, n) ==
  /\ Movable(h) /\ life[h] = "static"
  /\ Disciplined => owns[h]
  /\ Alloc(n, ptr[h])
  /\ Set(h, n, TRUE, "static")
  /\ UNCHANGED <<freed, given>>

\* Mutant: Clone copies the pointer.
CloneShares(h, c, n) ==
  /\ ~Live(h) /\ Live(c)
  /\ life[c] = "static"
  /\ ~Allocated(n)
  /\ Set(h, ptr[c], TRUE, "static")
  /\ UNCHANGED <<heap, freed, given>>

\* svn_error_dup copies the chain into a new pool.  The copy is one node here:
\* no other chain ever shares what lies below its head.
Clone(h, c, n) ==
  /\ ~Live(h) /\ Live(c)
  /\ life[c] \in {"static", "frameStatic"}
  /\ Alloc(n, NoNode)
  /\ Set(h, n, TRUE, "static")
  /\ UNCHANGED <<freed, given>>

(***************************************************************************)
(* Views: handles that do not own their pointer.  The lifetime of child()  *)
(* and find_cause() is the type parameter of the error they are called on, *)
(* which is 'static for an owning error; that of purge_tracing() is the    *)
(* borrow of self.                                                         *)
(***************************************************************************)
LifeOfView(c) ==
  IF life[c] \in {"static", "frameStatic"} THEN "static"
  ELSE IF life[c] = "frame" THEN c
  ELSE life[c]

\* Mutant: no test for the null pointer.
ChildUnchecked(h, c) ==
  /\ ~Live(h) /\ Live(c)
  /\ Set(h, child[ptr[c]], FALSE, LifeOfView(c))
  /\ UNCHANGED <<heap, freed, given>>

Child(h, c) ==
  /\ ~Live(h) /\ Live(c)
  /\ child[ptr[c]] # NoNode
  /\ Set(h, child[ptr[c]], FALSE, LifeOfView(c))
  /\ UNCHANGED <<heap, freed, given>>

FindCause(h, c) ==
  /\ ~Live(h) /\ Live(c)
  /\ \E n \in causes[ptr[c]] : Set(h, n, FALSE, LifeOfView(c))
  /\ UNCHANGED <<heap, freed, given>>

\* svn_error_purge_tracing returns its argument, tracing being compiled out.
PurgeTracing(h, c) ==
  /\ ~Live(h) /\ Live(c)
  /\ Set(h, ptr[c], FALSE, c)
  /\ UNCHANGED <<heap, freed, given>>

\* into_static rebinds the lifetime and keeps owns_ptr.
IntoStatic(h) ==
  /\ Movable(h) /\ life[h] \in Handles
  /\ Disciplined => owns[h]
  /\ life' = [life EXCEPT ![h] = "static"]
  /\ UNCHANGED <<heap, freed, given, ptr, owns>>

\* Mutant: drop leaves the chain allocated.
DropForgets(h) ==
  /\ Live(h) /\ Unborrowed(h)
  /\ Disciplined /\ (owns[h] \/ life[h] \in Frames) => Unviewed(h)
  /\ Unset(h)
  /\ UNCHANGED <<heap, freed, given>>

Drop(h) ==
  /\ Live(h) /\ Unborrowed(h)
  /\ Disciplined /\ (owns[h] \/ life[h] \in Frames) => Unviewed(h)
  /\ freed' = IF owns[h] THEN freed \cup {PoolOf(h)} ELSE freed
  /\ Unset(h)
  /\ UNCHANGED <<heap, given>>

-----------------------------------------------------------------------------
(***************************************************************************)
(* Errors that cross the boundary.                                         *)
(***************************************************************************)
\* An error returned by the caller's callback leaves through its trampoline.
Returnable(h) ==
  /\ Movable(h) /\ life[h] = "static"
  /\ Disciplined => owns[h] /\ Unviewed(h)

\* Mutant: the trampoline drops the error it has returned.
IntoRawDrops(h) ==
  /\ Returnable(h)
  /\ given' = given \cup {ptr[h]}
  /\ freed' = IF owns[h] THEN freed \cup {PoolOf(h)} ELSE freed
  /\ Unset(h)
  /\ UNCHANGED heap

\* into_raw or detach: the C library takes the pointer over.
IntoRaw(h) ==
  /\ Returnable(h)
  /\ given' = given \cup {ptr[h]}
  /\ Unset(h)
  /\ UNCHANGED <<heap, freed>>

\* as_mut_ptr: the error is dropped at the end of the match that returns it.
ReturnAsMutPtr(h) ==
  /\ May("as_mut_ptr")
  /\ Returnable(h)
  /\ given' = given \cup {ptr[h]}
  /\ freed' = IF owns[h] THEN freed \cup {PoolOf(h)} ELSE freed
  /\ Unset(h)
  /\ UNCHANGED heap

\* The library makes an error, and between callbacks clears one it holds ...
LibraryFails(n) ==
  /\ ~InCallback
  /\ Alloc(n, NoNode)
  /\ given' = given \cup {n}
  /\ UNCHANGED <<freed, ptr, owns, life>>

LibraryClears(n) ==
  /\ ~InCallback
  /\ n \in given
  /\ given' = given \ {n}
  /\ freed' = freed \cup {pool[n]}
  /\ UNCHANGED <<heap, ptr, owns, life>>

\* ... or returns it from the function that Rust called: svn_result.
FromRaw(h, n) ==
  /\ ~InCallback
  /\ ~Live(h)
  /\ n \in given
  /\ given' = given \ {n}
  /\ Set(h, n, TRUE, "static")
  /\ UNCHANGED <<heap, freed>>

\* It lends an error to a callback.  The filesystem's warning callback gets a
\* reference to an Error<'static> that does not own it ...
LendWarning(h, n) ==
  /\ ~InCallback
  /\ ~Live(h)
  /\ n \in given
  /\ Set(h, n, FALSE, "frameStatic")
  /\ UNCHANGED <<heap, freed, given>>

\* ... and the lock callbacks wrap it like an error they were given.
LendLockError(h, n) ==
  /\ May("adopt")
  /\ ~InCallback
  /\ ~Live(h)
  /\ n \in given
  /\ Set(h, n, TRUE, "frame")
  /\ UNCHANGED <<heap, freed, given>>

Rust ==
  \E h \in Handles :
    \/ \E n \in Nodes : FromMessage(h, n) \/ WithCause(h, n)
    \/ \E c \in Handles \ {h} :
         \/ \E n \in Nodes : Clone(h, c, n)
         \/ Child(h, c) \/ FindCause(h, c) \/ PurgeTracing(h, c)
    \/ IntoStatic(h)
    \/ Drop(h)

Boundary ==
  \/ \E h \in Handles : IntoRaw(h) \/ ReturnAsMutPtr(h)
  \/ \E n \in Nodes : LibraryFails(n) \/ LibraryClears(n)
  \/ \E h \in Handles, n \in Nodes :
       FromRaw(h, n) \/ LendWarning(h, n) \/ LendLockError(h, n)

Next == (Rust \/ Boundary) /\ UNCHANGED liberties

Spec == Init /\ [][Next]_vars

-----------------------------------------------------------------------------
TypeOK ==
  /\ liberties \in Programs
  /\ pool \in [Nodes -> Nodes \cup {NoNode}]
  /\ causes \in [Nodes -> SUBSET Nodes]
  /\ child \in [Nodes -> Nodes \cup {NoNode}]
  /\ freed \subseteq Nodes
  /\ given \subseteq Nodes
  /\ ptr \in [Handles -> Nodes \cup {NoNode}]
  /\ owns \in [Handles -> BOOLEAN]
  /\ life \in [Handles -> Lives]
  /\ \A h \in Handles : Live(h) <=> life[h] # "none"

(***************************************************************************)
(* Every Error a program can still read points to an error that has not    *)
(* been freed: child() and find_cause() return "an error [with] the same   *)
(* lifetime as this error", part of a chain its parent owns.               *)
(***************************************************************************)
HandlesValid == \A h \in Handles : Live(h) => PoolOf(h) \notin freed

\* An error returned to the C library, or lent by it, is there when the library
\* reads and clears it: the trampolines "transfer ownership to SVN".
GivenValid == \A n \in given : pool[n] \notin freed

(***************************************************************************)
(* A chain that is allocated has one owner, an owning handle or the        *)
(* library, so that it is cleared once, however errors are wrapped,        *)
(* cloned, viewed and passed through callbacks.                            *)
(***************************************************************************)
OneOwner ==
  /\ \A h, g \in Handles :
       Live(h) /\ Live(g) /\ owns[h] /\ owns[g] /\ PoolOf(h) = PoolOf(g) => h = g
  /\ \A n, m \in given : pool[n] = pool[m] => n = m
  /\ \A h \in Handles, n \in given : Live(h) /\ owns[h] => PoolOf(h) # pool[n]

\* No chain is leaked: while it is allocated somebody will clear it.
NoLeak ==
  \A n \in Nodes : Allocated(n) /\ pool[n] \notin freed =>
    \/ \E h \in Handles : Live(h) /\ owns[h] /\ PoolOf(h) = pool[n]
    \/ \E m \in given : pool[m] = pool[n]

-----------------------------------------------------------------------------
(***************************************************************************)
(* What a program may rely on: callers that treat views as borrows, and    *)
(* callbacks whose trampolines hand errors over.                           *)
(***************************************************************************)
WellUsed == ~(May("views") \/ May("as_mut_ptr") \/ May("adopt"))

\* No error is read after it is freed, by Rust or by the C library.
ChainsValid == WellUsed => HandlesValid /\ GivenValid

\* No chain is cleared twice.
ChainsOwned == WellUsed => OneOwner

\* No chain is left allocated.
ChainsCleared == WellUsed => NoLeak
=============================================================================
