------------------------- MODULE ObjectLives_proofs -------------------------
(***************************************************************************)
(* For every catalogue of functions and every number of values: a value that*)
(* comes of functions that keep the rule of ObjectKinds never points into a *)
(* pool that has been destroyed, and none like it brings such a pool back. *)
(* The values can be dropped one after another.                            *)
(***************************************************************************)
EXTENDS ObjectLives, TLAPS

USE BoundNat DEF Ids

-----------------------------------------------------------------------------
(***************************************************************************)
(* The invariant.                                                          *)
(***************************************************************************)

\* What borrows a value is dropped before it.
TiesLive == \A x \in live : ties[x] \subseteq live

\* A value is itself in the pool that it holds, and reads it.
HoldsOwn == \A x \in live : pool[x] \in reach[x]

\* The pools that a ruled value reads are held by it and by what it borrows.  The
\* tie of a value is as good as the lifetime of its type, so this is not lost when
\* other values are dropped, as "held by someone alive" would be.
Kept(x) == reach[x] \subseteq Holds(x) \cup UNION {Holds(y) : y \in ties[x]}

RuledKept == \A x \in live : Ruled(x) => Kept(x)

Inv == TypeOK /\ TiesLive /\ HoldsOwn /\ RuledKept

-----------------------------------------------------------------------------
(***************************************************************************)
(* Kinds.                                                                  *)
(***************************************************************************)

\* A kind of the catalogue has the fields that the actions read.
LEMMA KindFields ==
  ASSUME NEW f \in Makers
  PROVE  /\ What[f].memory \in Memories
         /\ What[f].uses \in Uses
         /\ What[f].tied \in Ties
  BY WhatType DEF Kinds

-----------------------------------------------------------------------------
(***************************************************************************)
(* What the operators of Derive say of the new value.                      *)
(***************************************************************************)
Mine(f, p, x) == IF What[f].memory \in {"shared", "parent"} THEN pool[p] ELSE x
Others(f, p) ==
  CASE What[f].uses = "nothing" -> {}
    [] What[f].uses = "parent" -> reach[p]
    [] What[f].uses = "behind" -> reach[p] \ {pool[p]}
Borrowed(f, p) ==
  CASE What[f].tied = "nothing" -> {}
    [] What[f].tied = "parent" -> {p} \cup ties[p]
    [] What[f].tied = "same" -> ties[p]

\* A step of Next in the terms of Enter.
LEMMA NextCases ==
  ASSUME TypeOK, Next
  PROVE  \/ \E n \in Ids, f \in Makers :
              /\ n = made + 1 /\ What[f].of = ""
              /\ Enter(f, n, n, {n}, {}, {f})
         \/ \E n \in Ids, f \in Makers, p \in live :
              /\ n = made + 1
              /\ Enter(f, n, Mine(f, p, n), {Mine(f, p, n)} \cup Others(f, p),
                       Borrowed(f, p), {f} \cup line[p])
         \/ \E x \in live : DropValue(x)
  <1>n. made < MaxObjects => made + 1 \in Ids
    BY DEF TypeOK
  <1>1. CASE \E f \in Makers : Construct(f)
    BY <1>n, <1>1 DEF Construct
  <1>2. CASE \E f \in Makers, p \in live : Derive(f, p)
    <2>1. PICK f \in Makers, p \in live : Derive(f, p)
      BY <1>2
    <2> QED BY <1>n, <2>1 DEF Derive, Mine, Others, Borrowed
  <1> QED BY <1>1, <1>2 DEF Next

\* The pools and ties of a derived value are of their types, and it borrows what is
\* alive.
LEMMA DeriveTypes ==
  ASSUME TypeOK, TiesLive, NEW n \in Ids, NEW f \in Makers, NEW p \in live
  PROVE  /\ Mine(f, p, n) \in Ids
         /\ Others(f, p) \subseteq Ids
         /\ Borrowed(f, p) \subseteq live
  <1>1. p \in Ids /\ live \subseteq Ids
    BY DEF TypeOK
  <1>2. Mine(f, p, n) \in Ids
    BY <1>1 DEF TypeOK, Mine
  <1>3. Others(f, p) \subseteq Ids
    BY <1>1, KindFields DEF TypeOK, Others, Uses
  <1>4. Borrowed(f, p) \subseteq live
    BY KindFields DEF TiesLive, Borrowed, Ties
  <1> QED BY <1>2, <1>3, <1>4

\* Entering a new value leaves the others as they are.
LEMMA EnterFrame ==
  ASSUME TypeOK, NEW n \in Ids, n = made + 1, NEW f, NEW q, NEW r, NEW t, NEW l,
         Enter(f, n, q, r, t, l)
  PROVE  /\ n \notin live /\ live' = live \cup {n}
         /\ maker'[n] = f /\ pool'[n] = q /\ reach'[n] = r /\ ties'[n] = t /\ line'[n] = l
         /\ \A y \in live :
              /\ y \in Ids /\ y # n
              /\ maker'[y] = maker[y] /\ pool'[y] = pool[y] /\ reach'[y] = reach[y]
              /\ ties'[y] = ties[y] /\ line'[y] = line[y]
  BY SMTT(20) DEF TypeOK, Enter

-----------------------------------------------------------------------------
(***************************************************************************)
(* Type correctness.                                                       *)
(***************************************************************************)
LEMMA TypeEnter ==
  ASSUME TypeOK, NEW n \in Ids, n = made + 1, NEW f \in Makers, NEW q \in Ids,
         NEW r \in SUBSET Ids, NEW t \in SUBSET Ids, NEW l \in SUBSET Makers,
         Enter(f, n, q, r, t, l)
  PROVE  TypeOK'
  <1>1. made' = n /\ made \in Nat /\ made' \in 0 .. MaxObjects
    BY DEF TypeOK, Enter
  <1>2. live' \subseteq 1 .. made'
    BY <1>1 DEF TypeOK, Enter
  <1>3. /\ maker' \in [Ids -> Makers \cup {Nobody}]
        /\ pool' \in [Ids -> Ids]
        /\ reach' \in [Ids -> SUBSET Ids]
        /\ ties' \in [Ids -> SUBSET Ids]
        /\ line' \in [Ids -> SUBSET Makers]
    BY <1>1 DEF TypeOK, Enter
  <1>4. ASSUME NEW x \in 1 .. made' PROVE maker'[x] \in Makers
    BY SMTT(20), <1>1 DEF TypeOK, Enter
  <1> QED BY <1>1, <1>2, <1>3, <1>4 DEF TypeOK

LEMMA InitInv == Init => Inv
  BY DEF Init, Inv, TypeOK, TiesLive, HoldsOwn, RuledKept

-----------------------------------------------------------------------------
(***************************************************************************)
(* The steps.                                                              *)
(***************************************************************************)

\* Entering a value that keeps the invariant keeps it for the others.
LEMMA InvEnter ==
  ASSUME Inv, NEW n \in Ids, n = made + 1, NEW f \in Makers, NEW q \in Ids,
         NEW r \in SUBSET Ids, NEW t \in SUBSET live, NEW l \in SUBSET Makers,
         Enter(f, n, q, r, t, l), q \in r,
         Ruled(n)' => Kept(n)'
  PROVE  Inv'
  <1>f. /\ n \notin live /\ live' = live \cup {n}
        /\ maker'[n] = f /\ pool'[n] = q /\ reach'[n] = r /\ ties'[n] = t /\ line'[n] = l
        /\ \A y \in live :
             /\ y \in Ids /\ y # n
             /\ maker'[y] = maker[y] /\ pool'[y] = pool[y] /\ reach'[y] = reach[y]
             /\ ties'[y] = ties[y] /\ line'[y] = line[y]
    BY EnterFrame DEF Inv
  <1>t. t \subseteq Ids
    BY <1>f
  <1>1. TypeOK'
    BY <1>t, TypeEnter DEF Inv
  <1>2. TiesLive'
    BY <1>f DEF Inv, TiesLive
  <1>3. HoldsOwn'
    BY <1>f DEF Inv, HoldsOwn
  <1>4. ASSUME NEW x \in live, Ruled(x)' PROVE Kept(x)'
    <2>1. Kept(x)
      BY <1>4, <1>f DEF Inv, RuledKept, Ruled
    <2>2. \A y \in live : Holds(y)' = Holds(y)
      BY <1>f DEF Holds
    <2>3. ties[x] \subseteq live
      BY DEF Inv, TiesLive
    <2> QED BY <2>1, <2>2, <2>3, <1>f DEF Kept
  <1>5. RuledKept'
    BY <1>4, <1>f DEF RuledKept
  <1> QED BY <1>1, <1>2, <1>3, <1>5 DEF Inv

\* A value that a constructor makes holds its pool, when the constructor is ruled.
LEMMA InvConstruct ==
  ASSUME Inv, NEW n \in Ids, n = made + 1, NEW f \in Makers, What[f].of = "",
         Enter(f, n, n, {n}, {}, {f})
  PROVE  Inv'
  <1>1. /\ maker'[n] = f /\ pool'[n] = n /\ reach'[n] = {n}
        /\ line'[n] = {f}
    BY DEF Inv, TypeOK, Enter
  <1>2. ASSUME Ruled(n)' PROVE Kept(n)'
    <2>1. Sound(What[f])
      BY <1>1, <1>2 DEF Ruled
    <2>2. What[f].memory = "own"
      BY <2>1 DEF Sound
    <2>3. Holds(n)' = {n}
      BY <1>1, <2>2 DEF Holds
    <2> QED BY <1>1, <2>3 DEF Kept
  <1>3. /\ {n} \in SUBSET Ids /\ n \in {n}
        /\ {} \in SUBSET live /\ {f} \in SUBSET Makers
    OBVIOUS
  <1> HIDE DEF Inv, Enter, Ids
  <1> QED BY <1>2, <1>3, InvEnter

\* A value made from another one: by the rule, what it needs is held by it, by its
\* parent that it borrows, or by what the parent borrows.
LEMMA InvDerive ==
  ASSUME Inv, NEW n \in Ids, n = made + 1, NEW f \in Makers, NEW p \in live,
         Enter(f, n, Mine(f, p, n), {Mine(f, p, n)} \cup Others(f, p), Borrowed(f, p),
               {f} \cup line[p])
  PROVE  Inv'
  <1> DEFINE q == Mine(f, p, n)
             o == Others(f, p)
             t == Borrowed(f, p)
  <1>1. /\ n \notin live
        /\ maker'[n] = f /\ pool'[n] = q /\ reach'[n] = {q} \cup o
        /\ ties'[n] = t /\ line'[n] = {f} \cup line[p]
        /\ \A y \in live :
             /\ y \in Ids
             /\ maker'[y] = maker[y] /\ pool'[y] = pool[y]
    BY EnterFrame DEF Inv
  <1>2. q \in Ids /\ o \subseteq Ids /\ t \subseteq live
    BY DeriveTypes DEF Inv
  <1>3. line[p] \subseteq Makers
    BY <1>1 DEF Inv, TypeOK
  <1>4. ASSUME Ruled(n)' PROVE Kept(n)'
    <2>1. Sound(What[f]) /\ Ruled(p)
      BY <1>1, <1>4 DEF Ruled
    <2>2. Kept(p) /\ ties[p] \subseteq live /\ pool[p] \in reach[p]
      BY <2>1 DEF Inv, RuledKept, TiesLive, HoldsOwn
    <2>3. \A y \in live : Holds(y)' = Holds(y)
      BY <1>1 DEF Holds
    <2>4. Holds(p) \subseteq {pool[p]}
      BY DEF Holds
    <2>5. Holds(n)' = IF What[f].memory \in {"own", "shared"} THEN {q} ELSE {}
      BY <1>1 DEF Holds
    <2> DEFINE cover == Holds(n)' \cup UNION {Holds(y) : y \in t}
    <2>6. ASSUME t = {p} \cup ties[p] PROVE reach[p] \subseteq cover
      BY <2>6, <2>2 DEF Kept
    <2>7. ASSUME t = ties[p] PROVE reach[p] \ {pool[p]} \subseteq cover
      BY <2>7, <2>2, <2>4 DEF Kept
    <2>8. q \in cover
      <3>1. CASE What[f].memory \in {"own", "shared"}
        BY <3>1, <2>5
      <3>2. CASE What[f].memory = "parent"
        <4>1. t = {p} \cup ties[p]
          BY <3>2, <2>1 DEF Sound, Borrowed
        <4>2. q = pool[p]
          BY <3>2 DEF Mine
        <4> QED BY <4>1, <4>2, <2>6, <2>2
      <3> QED BY <3>1, <3>2, <2>1, KindFields DEF Sound, Memories
    <2>9. o \subseteq cover
      <3>1. CASE What[f].uses = "nothing"
        BY <3>1 DEF Others
      <3>2. CASE What[f].uses = "parent"
        <4>1. o = reach[p]
          BY <3>2 DEF Others
        <4>2. CASE What[f].tied = "parent"
          BY <4>1, <4>2, <2>6 DEF Borrowed
        <4>3. CASE What[f].memory = "shared" /\ What[f].tied = "same"
          <5>1. t = ties[p] /\ q = pool[p]
            BY <4>3 DEF Borrowed, Mine
          <5> QED BY <4>1, <5>1, <2>7, <2>8
        <4> QED BY <3>2, <4>2, <4>3, <2>1 DEF Sound
      <3>3. CASE What[f].uses = "behind"
        <4>1. o = reach[p] \ {pool[p]}
          BY <3>3 DEF Others
        <4>2. CASE What[f].tied = "parent"
          BY <4>1, <4>2, <2>6 DEF Borrowed
        <4>3. CASE What[f].tied = "same"
          BY <4>1, <4>3, <2>7 DEF Borrowed
        <4> QED BY <3>3, <4>2, <4>3, <2>1, KindFields DEF Sound, Ties
      <3> QED BY <3>1, <3>2, <3>3, KindFields DEF Uses
    <2>10. cover = Holds(n)' \cup UNION {Holds(y)' : y \in t}
      BY <2>3, <1>2
    <2> QED BY <1>1, <2>8, <2>9, <2>10 DEF Kept
  <1> QED BY <1>1, <1>2, <1>3, <1>4, InvEnter

\* A value that is dropped is in nobody's ties.
LEMMA InvDrop ==
  ASSUME Inv, NEW x \in live, DropValue(x)
  PROVE  Inv'
  <1>1. TypeOK'
    BY DEF Inv, TypeOK, DropValue
  <1>2. TiesLive' /\ HoldsOwn'
    BY DEF Inv, TiesLive, HoldsOwn, DropValue
  <1>3. RuledKept'
    BY DEF Inv, RuledKept, Ruled, Kept, Holds, DropValue
  <1> QED BY <1>1, <1>2, <1>3 DEF Inv

LEMMA InvNext == Inv /\ [Next]_vars => Inv'
  <1> SUFFICES ASSUME Inv, [Next]_vars PROVE Inv'
    OBVIOUS
  <1>1. CASE Next
    <2>1. CASE \E n \in Ids, f \in Makers :
                 n = made + 1 /\ What[f].of = "" /\ Enter(f, n, n, {n}, {}, {f})
      BY <2>1, InvConstruct
    <2>2. CASE \E n \in Ids, f \in Makers, p \in live :
                 /\ n = made + 1
                 /\ Enter(f, n, Mine(f, p, n), {Mine(f, p, n)} \cup Others(f, p),
                          Borrowed(f, p), {f} \cup line[p])
      BY <2>2, InvDerive
    <2>3. CASE \E x \in live : DropValue(x)
      BY <2>3, InvDrop
    <2> QED BY <1>1, <2>1, <2>2, <2>3, NextCases DEF Inv
  <1>2. CASE UNCHANGED vars
    <2>1. TypeOK' /\ TiesLive' /\ HoldsOwn'
      BY <1>2 DEF vars, Inv, TypeOK, TiesLive, HoldsOwn
    <2>2. \A y : Holds(y)' = Holds(y)
      BY <1>2 DEF vars, Holds
    <2>3. \A y : (Ruled(y)' <=> Ruled(y)) /\ (Kept(y)' <=> Kept(y))
      BY <1>2, <2>2 DEF vars, Ruled, Kept
    <2> QED BY <1>2, <2>1, <2>3 DEF vars, Inv, RuledKept
  <1> QED BY <1>1, <1>2

LEMMA InvAlways == Spec => []Inv
  BY InitInv, InvNext, PTL DEF Spec

-----------------------------------------------------------------------------
(***************************************************************************)
(* The theorems.                                                           *)
(***************************************************************************)

\* The state of the values is of its types.
THEOREM TypeCorrect == Spec => []TypeOK
  BY InvAlways, PTL DEF Inv

\* Every program that is accepted by the borrow checker, of any length, leaves the
\* values that come of ruled functions defined until they are dropped.
THEOREM ValuesCorrect == Spec => []ValuesDefined
  <1>1. Inv => ValuesDefined
    <2> SUFFICES ASSUME Inv, NEW x \in live, Ruled(x) PROVE Defined(x)
      BY DEF ValuesDefined
    <2>1. Kept(x) /\ ties[x] \subseteq live
      BY DEF Inv, RuledKept, TiesLive
    <2> QED BY <2>1 DEF Kept, Defined, Allocated
  <1> QED BY <1>1, InvAlways, PTL

-----------------------------------------------------------------------------
(***************************************************************************)
(* Drops go through, and are final.                                        *)
(***************************************************************************)
\* A value borrows older ones, and all that they borrow.
BorrowsOlder ==
  \A x \in live :
    /\ \A y \in ties[x] : y \in 1 .. made /\ y < x
    /\ \A y \in ties[x] : ties[y] \subseteq ties[x]

\* The value that was made last can be dropped: nothing borrows it.
NewestUnborrowed ==
  \A x \in live : (\A y \in live : y <= x) => \A y \in live : x \notin ties[y]

\* A pool that has been destroyed is held by no value again, unless by one that was made
\* by, or from a value of, a function that breaks the rule.
PoolsStayDestroyed ==
  \A q \in 1 .. made : q \in Allocated' =>
    q \in Allocated \/ \E x \in live' \ live : ~Ruled(x)'

LEMMA OlderEnter ==
  ASSUME Inv, BorrowsOlder, NEW n \in Ids, n = made + 1, NEW f, NEW q, NEW r,
         NEW t \in SUBSET live, NEW l, Enter(f, n, q, r, t, l),
         \A y \in t : ties[y] \subseteq t
  PROVE  BorrowsOlder'
  <1>1. /\ live' = live \cup {n} /\ ties'[n] = t
        /\ \A y \in live : y \in Ids /\ y # n /\ ties'[y] = ties[y]
    BY EnterFrame DEF Inv
  <1>2. made \in Nat /\ made' = made + 1 /\ live \subseteq 1 .. made
    BY DEF Inv, TypeOK, Enter
  <1>3. \A x \in live : ties[x] \subseteq live
    BY DEF Inv, TiesLive
  <1>4. ASSUME NEW x \in live
        PROVE  /\ \A y \in ties'[x] : y \in 1 .. made' /\ y < x
               /\ \A y \in ties'[x] : ties'[y] \subseteq ties'[x]
    BY <1>1, <1>2, <1>3 DEF BorrowsOlder
  <1>5. /\ \A y \in ties'[n] : y \in 1 .. made' /\ y < n
        /\ \A y \in ties'[n] : ties'[y] \subseteq ties'[n]
    <2>1. \A y \in t : y \in live /\ ties'[y] = ties[y]
      BY <1>1
    <2> HIDE DEF Inv, BorrowsOlder, Enter
    <2>2. \A y \in t : y \in 1 .. made' /\ y < n
      BY <1>2, <2>1
    <2> QED BY <1>1, <2>1, <2>2
  <1> QED BY <1>1, <1>4, <1>5 DEF BorrowsOlder

LEMMA OlderNext == ASSUME Inv, BorrowsOlder, [Next]_vars PROVE BorrowsOlder'
  <1>1. CASE \E n \in Ids, f \in Makers : n = made + 1 /\ Enter(f, n, n, {n}, {}, {f})
    BY <1>1, OlderEnter
  <1>2. ASSUME NEW n \in Ids, NEW f \in Makers, NEW p \in live, n = made + 1,
               Enter(f, n, Mine(f, p, n), {Mine(f, p, n)} \cup Others(f, p),
                     Borrowed(f, p), {f} \cup line[p])
        PROVE  BorrowsOlder'
    <2>1. Borrowed(f, p) \in SUBSET live
      BY DeriveTypes DEF Inv
    <2>2. \A y \in Borrowed(f, p) : ties[y] \subseteq Borrowed(f, p)
      BY KindFields DEF Borrowed, Ties, BorrowsOlder
    <2> HIDE DEF Ids, Inv, BorrowsOlder, Enter
    <2> QED BY <1>2, <2>1, <2>2, OlderEnter
  <1>3. CASE \E x \in live : DropValue(x)
    BY <1>3 DEF DropValue, BorrowsOlder
  <1>4. CASE UNCHANGED vars
    BY <1>4 DEF vars, BorrowsOlder
  <1> QED BY <1>1, <1>2, <1>3, <1>4, NextCases DEF Inv

\* The borrows of the values have no cycle: a program can always drop all it has, the
\* newest value first, as the end of a scope does.
THEOREM DropsGoThrough == Spec => [](BorrowsOlder /\ NewestUnborrowed)
  <1>1. Init => BorrowsOlder
    BY DEF Init, BorrowsOlder
  <1>2. Inv /\ BorrowsOlder => NewestUnborrowed
    BY DEF Inv, TypeOK, BorrowsOlder, NewestUnborrowed
  <1> QED BY <1>1, <1>2, OlderNext, InvAlways, PTL DEF Spec

\* A value that comes of ruled functions holds a pool that nobody held before only if
\* the pool is new.
LEMMA DestroyedEnter ==
  ASSUME Inv, NEW n \in Ids, NEW f \in Makers, NEW p \in live, n = made + 1,
         Enter(f, n, Mine(f, p, n), {Mine(f, p, n)} \cup Others(f, p),
               Borrowed(f, p), {f} \cup line[p]),
         Ruled(n)', NEW q \in 1 .. made, q \in Holds(n)'
  PROVE  q \in Allocated
  <1>1. /\ maker'[n] = f /\ pool'[n] = Mine(f, p, n) /\ line'[n] = {f} \cup line[p]
    BY EnterFrame DEF Inv
  <1>2. q = Mine(f, p, n) /\ q # n
    BY <1>1 DEF Holds, Inv, TypeOK
  <1>3. q = pool[p]
    BY <1>2 DEF Mine
  <1>4. Ruled(p)
    BY <1>1 DEF Ruled
  <1>5. Kept(p) /\ ties[p] \subseteq live /\ pool[p] \in reach[p]
    BY <1>4 DEF Inv, RuledKept, TiesLive, HoldsOwn
  <1> QED BY <1>3, <1>5 DEF Kept, Allocated

LEMMA DestroyedStep == ASSUME Inv, [Next]_vars PROVE PoolsStayDestroyed
  <1> SUFFICES ASSUME NEW q \in 1 .. made, NEW x \in live', q \in Holds(x)'
               PROVE  q \in Allocated \/ \E y \in live' \ live : ~Ruled(y)'
    BY DEF PoolsStayDestroyed, Allocated
  <1>1. ASSUME x \in live, maker'[x] = maker[x], pool'[x] = pool[x]
        PROVE  q \in Allocated
    BY <1>1 DEF Holds, Allocated
  <1>2. ASSUME NEW n \in Ids, NEW f \in Makers, n = made + 1,
               Enter(f, n, n, {n}, {}, {f})
        PROVE  q \in Allocated
    <2>1. /\ live' = live \cup {n} /\ pool'[n] = n
          /\ \A y \in live : maker'[y] = maker[y] /\ pool'[y] = pool[y]
      BY <1>2, EnterFrame DEF Inv
    <2>2. x # n
      BY <1>2, <2>1 DEF Holds, Inv, TypeOK
    <2> QED BY <1>1, <2>1, <2>2
  <1>3. ASSUME NEW n \in Ids, NEW f \in Makers, NEW p \in live, n = made + 1,
               Enter(f, n, Mine(f, p, n), {Mine(f, p, n)} \cup Others(f, p),
                     Borrowed(f, p), {f} \cup line[p])
        PROVE  q \in Allocated \/ \E y \in live' \ live : ~Ruled(y)'
    <2>1. /\ n \notin live /\ live' = live \cup {n}
          /\ \A y \in live : maker'[y] = maker[y] /\ pool'[y] = pool[y]
      BY <1>3, EnterFrame DEF Inv
    <2>2. CASE x = n
      <3> HIDE DEF Ids, Inv, Enter
      <3> QED BY <1>3, <2>1, <2>2, DestroyedEnter
    <2> QED BY <1>1, <2>1, <2>2
  <1>4. CASE \E y \in live : DropValue(y)
    BY <1>1, <1>4 DEF DropValue
  <1>5. CASE UNCHANGED vars
    BY <1>1, <1>5 DEF vars
  <1> QED BY <1>2, <1>3, <1>4, <1>5, NextCases DEF Inv

\* A pool is destroyed for good: no function that keeps the rule hands out a value in a
\* pool, or a count of one, that no value holds any more.
THEOREM DestroyedForGood == Spec => [][PoolsStayDestroyed]_vars
  <1>1. Inv /\ [Next]_vars => [PoolsStayDestroyed]_vars
    BY DestroyedStep
  <1> QED BY <1>1, InvAlways, PTL DEF Spec

=============================================================================
