------------------------------ MODULE CallSteps ------------------------------
(***************************************************************************)
(* How a binding passes closures and arguments to C: the steps its wrapper  *)
(* functions are made of, in the order the code has them, and the rules by  *)
(* which such a program is right.                                          *)
(*                                                                         *)
(* C gets a baton, the address of a cell, and a trampoline that reads the   *)
(* cell.  A trampoline expects a fat pointer there, or the structure its    *)
(* own function has put there.  What is in the cell is its shape:           *)
(*   "ref"   a reference to a closure that the caller lends (&dyn Fn, or    *)
(*           the structure the trampoline expects, with such a reference)   *)
(*   "own"   a Box<dyn Fn>, the caller's or one made around its closure     *)
(*   "once"  a FnOnce, which the trampoline moves out of the cell           *)
(*   "thin"  an address with no vtable: of the closure or of a reference    *)
(*   "raw"   the same, of a closure that was in a Box<dyn Fn>               *)
(* C also gets pointers to memory that it reads, with no closure: strings,  *)
(* arrays of strings, values.  Their shape is "arg".                        *)
(* Dropping a cell drops the closure it owns.  It is Rust's own drop for    *)
(* what is on the frame, and a Box::from_raw, as a type that the code names *)
(* again, for what was turned into a raw pointer.                           *)
(***************************************************************************)
EXTENDS Naturals, Sequences

Shapes == {"ref", "own", "once", "thin", "raw", "arg"}

Owns(s) == s \in {"own", "once", "raw"}
Fits(s) == s \notin {"thin", "raw"}

Step(op, c, s) == [op |-> op, cb |-> c, as |-> s]

\* The cell of callback c, and the callback itself, are given to C.
Frame(c, s) == Step("frame", c, s)   \* a local variable of the function
Bare(c)     == Step("bare", c, "thin")   \* no cell: the address of the lent closure
Block(c, s) == Step("block", c, s)   \* a local variable of a block that ends before the call
Arg(c)      == Frame(c, "arg")   \* memory of the function, or of its pool
Temp(c)     == Block(c, "arg")   \* memory that is gone before the call
Held(c, s)  == Step("held", c, s)    \* a Box, still a Rust value
Box(c, s)   == Step("box", c, s)     \* Box::into_raw
\* Nothing yet; but a trampoline of this call boxes something for C each time that it
\* runs: a closure ("own"), which the last call of it frees, or a value ("arg"), which
\* nothing does.
Inner(c, s) == Step("inner", c, s)

\* The end of a box: Box::from_raw as shape s, and the same only when the call failed.
Free(c, s)      == Step("free", c, s)
FreeIfErr(c, s) == Step("freeIfErr", c, s)
\* The cell and a dropper that frees it as s go to the object to be returned.
Own(c, s)       == Step("own", c, s)

Try     == Step("try", "", "")       \* a conversion with `?`, a validation
Call    == Step("call", "", "")      \* the C function
Tell    == Step("call", "", "void")  \* the same, of one that returns no error
Check   == Step("check", "", "")     \* its error, if any, is adopted and returned
Stashed == Step("stashed", "", "")   \* an error that the trampoline kept is returned
Ok      == Step("ok", "", "")
\* An object that keeps C's hold on the callbacks is returned; its type has the
\* lifetime of what it was lent, or not.
Tied    == Step("object", "", "tied")
Untied  == Step("object", "", "untied")

\* The usual functions that give C arguments: they convert them with `?`, with
\* unwrap(), or have none; or they convert them and ask C for a context first.
Converted == << Try, Arg("args"), Call, Check, Ok >>
Direct    == << Arg("args"), Call, Check, Ok >>
Asked     == << Call, Check, Ok >>
Opened    == << Try, Arg("args"), Try, Call, Check, Ok >>

Puts  == {"frame", "bare", "block", "held", "box", "inner"}
Frees == {"free", "freeIfErr", "own"}
Ends  == {"ok", "object"}
Exits == {"try", "check", "stashed"} \cup Ends

Steps(C) ==
  [op : Puts \cup Frees, cb : C, as : Shapes]
    \cup {Try, Call, Tell, Check, Stashed, Ok, Tied, Untied}

-----------------------------------------------------------------------------
(***************************************************************************)
(* The rules.                                                              *)
(***************************************************************************)
\* One end, and one call.
OneCall(p) ==
  /\ p # << >>
  /\ \A i \in DOMAIN p : p[i].op \in Ends <=> i = Len(p)
  /\ \A i, j \in DOMAIN p : p[i].op = "call" /\ p[j].op = "call" => i = j

\* Each callback is put once; what needs no freeing owns nothing.
PutsOnce(p) ==
  /\ \A i, j \in DOMAIN p :
       p[i].op \in Puts /\ p[j].op \in Puts /\ p[i].cb = p[j].cb => i = j
  /\ \A i \in DOMAIN p : p[i].op \in {"bare", "block"} => ~Owns(p[i].as)
  /\ \A i \in DOMAIN p : p[i].op = "inner" => p[i].as \in {"own", "arg"}

\* Boxes are freed after the call, once on each way; what the object keeps is handed
\* to it last.
FreesOnce(p) ==
  /\ \A k \in DOMAIN p : p[k].op \in Frees =>
       /\ \E i \in 1 .. k - 1 :
            /\ \/ p[i].op = "box"
               \/ p[i].op = "held" /\ p[k].op = "own"
            /\ p[i].cb = p[k].cb
       /\ \A i \in DOMAIN p : p[i].op = "call" => i < k
       /\ \A j \in 1 .. k - 1 : p[j].op \in Frees /\ p[j].cb = p[k].cb =>
            /\ p[j].op = "freeIfErr"
            /\ \E i \in j + 1 .. k - 1 : p[i].op = "check"
  /\ \A k \in DOMAIN p : p[k].op = "freeIfErr" =>
       /\ \E i \in k + 1 .. Len(p) : p[i].op = "check"
       /\ \E i \in 1 .. k - 1 : p[i].op = "call"
  /\ \A k, i \in DOMAIN p : p[k].op = "own" /\ k < i => p[i].op \in {"own", "object"}

\* What a trampoline keeps is looked at after the call.
StashesLate(p) ==
  \A i, k \in DOMAIN p : p[i].op = "call" /\ p[k].op = "stashed" => i < k

WellFormed(p) == OneCall(p) /\ PutsOnce(p) /\ FreesOnce(p) /\ StashesLate(p)

\* What ends the life of a box when the function is left at step i.
EndsAt(p, k, i) ==
  \/ p[k].op = "free"
  \/ p[k].op = "freeIfErr" /\ p[i].op = "check"
  \/ p[k].op = "own" /\ p[i].op = "object"

\* No way out leaves a box behind; one of a trampoline is left if C fails before the
\* call that frees it.
Balanced(p) ==
  /\ \A i, j \in DOMAIN p :
       p[i].op \in Exits /\ p[j].op = "box" /\ j < i =>
         \E k \in 1 .. i - 1 :
           p[k].op \in Frees /\ p[k].cb = p[j].cb /\ EndsAt(p, k, i)
  /\ \A j \in DOMAIN p : p[j].op # "inner"

\* A box is freed as what it is, so that a lent closure is not dropped and an owned
\* one is; and no closure is moved out of a cell that still drops it.
Matching(p) ==
  \A j, k \in DOMAIN p :
    p[j].op \in Puts =>
      /\ p[j].as # "once"
      /\ p[k].op \in Frees /\ p[j].cb = p[k].cb =>
           (Owns(p[j].as) <=> Owns(p[k].as))

\* The trampolines find what they expect, and C what it reads.
Fitting(p) ==
  \A j \in DOMAIN p : p[j].op \in Puts => Fits(p[j].as) /\ p[j].op # "block"

\* What an object keeps of its callbacks lasts as long as it does.
Lasting(p) ==
  p[Len(p)].op = "object" =>
    \A j \in DOMAIN p :
      /\ p[j].op \in Puts =>
           /\ p[j].op \in {"held", "box"}
           /\ p[j].op = "held" =>
                \E k \in DOMAIN p : p[k].op = "own" /\ p[k].cb = p[j].cb
           /\ Owns(p[j].as) \/ p[Len(p)] = Tied
      /\ p[j].op # "free"

\* The first thing done with the error of the call is to adopt it.
Adopting(p) ==
  \A i, j \in DOMAIN p :
    i < j /\ p[i] = Call /\ p[j].op \in Exits =>
      \E k \in i + 1 .. j : p[k].op = "check"

=============================================================================
