---------------------------- MODULE ObjectLives ----------------------------
(***************************************************************************)
(* The lives of the values of a binding.  A program makes values with the   *)
(* functions of a catalogue, one from another, and drops them in any order  *)
(* that the borrow checker accepts.  A pool is destroyed, with every C      *)
(* object in it, when the last value that holds it is dropped.              *)
(***************************************************************************)
EXTENDS ObjectKinds, Naturals, FiniteSets

CONSTANTS
  MaxObjects,  \* bound: how many values a program makes
  MaxRoots,    \* bound: how many of them with a constructor
  Types,       \* the types of the values
  Makers,      \* the functions that return one
  What,        \* What[f]: the kind of function f
  Nobody       \* the maker of no value

ASSUME BoundNat == MaxObjects \in Nat
ASSUME NobodyNew == Nobody \notin Makers
ASSUME WhatType == What \in [Makers -> Kinds(Types)]

Ids == 1 .. MaxObjects

VARIABLES
  made,    \* the values made so far are 1 .. made
  live,    \* those not dropped yet
  maker,   \* maker[x]: the function that made x
  pool,    \* pool[x]: the pool that the C object of x is in, named by its first value
  reach,   \* reach[x]: the pools that a use of x reads
  ties,    \* ties[x]: the values that x borrows, directly or not
  line     \* line[x]: the functions that x descends from

vars == <<made, live, maker, pool, reach, ties, line>>

Init ==
  /\ made = 0
  /\ live = {}
  /\ maker = [x \in Ids |-> Nobody]
  /\ pool = [x \in Ids |-> x]
  /\ reach = [x \in Ids |-> {}]
  /\ ties = [x \in Ids |-> {}]
  /\ line = [x \in Ids |-> {}]

\* Mutant: what shares a pool is not counted.
HoldsUncounted(x) == IF What[maker[x]].memory = "own" THEN {pool[x]} ELSE {}

\* The pools that value x keeps from being destroyed.
Holds(x) == IF What[maker[x]].memory \in {"own", "shared"} THEN {pool[x]} ELSE {}

Allocated == UNION {Holds(x) : x \in live}

-----------------------------------------------------------------------------
Enter(f, x, p, r, t, l) ==
  /\ made' = x
  /\ live' = live \cup {x}
  /\ maker' = [maker EXCEPT ![x] = f]
  /\ pool' = [pool EXCEPT ![x] = p]
  /\ reach' = [reach EXCEPT ![x] = r]
  /\ ties' = [ties EXCEPT ![x] = t]
  /\ line' = [line EXCEPT ![x] = l]

Construct(f) ==
  /\ made < MaxObjects
  /\ What[f].of = ""
  /\ Cardinality({x \in 1 .. made : What[maker[x]].of = ""}) < MaxRoots
  /\ LET x == made + 1 IN Enter(f, x, x, {x}, {}, {f})

\* Function f is called on value p.
Derive(f, p) ==
  LET k == What[f]
      x == made + 1
      mine == IF k.memory \in {"shared", "parent"} THEN pool[p] ELSE x
      others == CASE k.uses = "nothing" -> {}
                  [] k.uses = "parent" -> reach[p]
                  [] k.uses = "behind" -> reach[p] \ {pool[p]}
      borrowed == CASE k.tied = "nothing" -> {}
                    [] k.tied = "parent" -> {p} \cup ties[p]
                    [] k.tied = "same" -> ties[p]
  IN
  /\ made < MaxObjects
  /\ p \in live
  /\ k.of = What[maker[p]].gives
  /\ Enter(f, x, mine, {mine} \cup others, borrowed, {f} \cup line[p])

\* Mutant: Drop clears the fields of the value, which is still known as made.
DropValueClears(x) ==
  /\ x \in live
  /\ \A y \in live : x \notin ties[y]
  /\ live' = live \ {x}
  /\ maker' = [maker EXCEPT ![x] = Nobody]
  /\ UNCHANGED <<made, pool, reach, ties, line>>

\* A value is dropped when nothing borrows it.
DropValue(x) ==
  /\ x \in live
  /\ \A y \in live : x \notin ties[y]
  /\ live' = live \ {x}
  /\ UNCHANGED <<made, maker, pool, reach, ties, line>>

Next ==
  \/ \E f \in Makers : Construct(f)
  \/ \E f \in Makers, p \in live : Derive(f, p)
  \/ \E x \in live : DropValue(x)

Spec == Init /\ [][Next]_vars

-----------------------------------------------------------------------------
TypeOK ==
  /\ made \in 0 .. MaxObjects
  /\ live \subseteq 1 .. made
  /\ maker \in [Ids -> Makers \cup {Nobody}]
  /\ \A x \in 1 .. made : maker[x] \in Makers
  /\ pool \in [Ids -> Ids]
  /\ reach \in [Ids -> SUBSET Ids]
  /\ ties \in [Ids -> SUBSET Ids]
  /\ line \in [Ids -> SUBSET Makers]

\* The value x can be used: every pool that its C object leads to is there.
Defined(x) == reach[x] \subseteq Allocated

\* x and the values that it was made from come of functions that keep the rule.
Ruled(x) == \A f \in line[x] : Sound(What[f])

\* No order of drops that the types allow leaves a value pointing into a pool that
\* has been destroyed, unless it was made by, or from a value of, a function that
\* breaks the rule.
ValuesDefined == \A x \in live : Ruled(x) => Defined(x)
=============================================================================
