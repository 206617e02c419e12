---------------------------- MODULE ObjectKinds ----------------------------
(***************************************************************************)
(* A value of a binding wraps a pointer into the memory of an APR pool.     *)
(* What a function that returns one promises by its signature, and what its *)
(* body does:                                                              *)
(*   of      the type of the value it is called on ("" for a constructor)   *)
(*   gives   the type of the value it returns                               *)
(*   memory  where the C object of the new value is: in a pool of its "own",*)
(*           in one that it has a "shared" reference count of, in the pool  *)
(*           of its "parent", or in one that has been dropped on the way    *)
(*           out ("dead")                                                   *)
(*   uses    which other C objects that one points to: none, the one of the *)
(*           "parent" with all it uses, or only what is "behind" the parent *)
(*   tied    what the lifetime in its type borrows: "nothing", the "parent",*)
(*           or the "same" as the type of the parent borrows                *)
(***************************************************************************)
Kind(of, gives, memory, uses, tied) ==
  [of |-> of, gives |-> gives, memory |-> memory, uses |-> uses, tied |-> tied]

Memories == {"own", "shared", "parent", "dead"}
Uses == {"nothing", "parent", "behind"}
Ties == {"nothing", "parent", "same"}

Kinds(T) == [of : T \cup {""}, gives : T, memory : Memories, uses : Uses, tied : Ties]

\* A constructor, and a function whose value owns all it needs.
New(gives) == Kind("", gives, "own", "nothing", "nothing")
Copied(of, gives) == Kind(of, gives, "own", "nothing", "nothing")

\* A value in a pool of its own that points to its parent, and borrows it.
Inside(of, gives) == Kind(of, gives, "own", "parent", "parent")
\* A view of the parent's memory that borrows it.
View(of, gives) == Kind(of, gives, "parent", "nothing", "parent")
\* A part of a container whose pool the container and its parts share.
Part(of, gives) == Kind(of, gives, "shared", "nothing", "nothing")

\* The same with the lifetime left out: a value in a pool of its own that points to
\* its parent, and a pointer into the parent's memory.
Loose(of, gives) == Kind(of, gives, "own", "parent", "nothing")
Bare(of, gives) == Kind(of, gives, "parent", "nothing", "nothing")
\* A pointer into a pool that goes with the call.
Lost(of, gives) == Kind(of, gives, "dead", "nothing", "nothing")

-----------------------------------------------------------------------------
(***************************************************************************)
(* The rule: what the new value needs of others, its tie keeps.             *)
(***************************************************************************)
Sound(k) ==
  /\ k.memory # "dead"
  /\ k.of = "" => k.memory = "own" /\ k.uses = "nothing"
  /\ k.memory = "parent" => k.tied = "parent"
  /\ k.uses = "parent" =>
       \/ k.tied = "parent"
       \/ k.memory = "shared" /\ k.tied = "same"
  /\ k.uses = "behind" => k.tied # "nothing"
=============================================================================
