----------------------------- MODULE CallSites -----------------------------
(***************************************************************************)
(* A wrapper function at work: it runs one of the programs of CallSteps,    *)
(* while C calls the callbacks it was given and returns when and what it    *)
(* likes, the caller drops the closures it lent as soon as their lifetimes  *)
(* let it, and an object that was returned is used and dropped.             *)
(***************************************************************************)
EXTENDS CallSteps

CONSTANTS
  Callbacks,   \* the callbacks and the arguments that the functions give to C
  Sites,       \* the functions
  Program      \* Program[f]: the steps of function f

ASSUME ProgramType == Program \in [Sites -> Seq(Steps(Callbacks))]
ASSUME ProgramsWellFormed == \A f \in Sites : WellFormed(Program[f])

VARIABLES
  site,      \* the function that runs
  pc,        \* the step it is at
  phase,     \* "running", "calling" C, holding an "object", or "done"
  place,     \* place[c]: where the cell of c is
  shape,     \* shape[c]: what is in it
  closure,   \* closure[c]: see Closures
  dropper,   \* dropper[c]: the shape as which the object frees the cell
  failed,    \* a callback has returned an error
  error,     \* the svn_error_t of the call: "none", "held" or "adopted"
  result     \* what the function has returned: "none", "ok" or "err"

cells == <<place, shape, dropper>>
vars == <<site, pc, phase, place, shape, closure, dropper, failed, error, result>>

\* "inner": no trampoline has made the box, or its last call has freed it; "made": C has it.
Places ==
  {"none", "frame", "bare", "block", "held", "box", "inner", "made", "owner", "freed"}

\* A closure is dropped by its owner, by the "caller" that lent it, by code that
\* had only been lent it ("stolen"), or "twice".
Closures == {"alive", "dropped", "caller", "stolen", "twice"}

prog == Program[site]
At(op) == phase = "running" /\ prog[pc].op = op
cb == prog[pc].cb
kind == prog[pc].as

Init ==
  /\ site \in Sites
  /\ pc = 1
  /\ phase = "running"
  /\ place = [c \in Callbacks |-> "none"]
  /\ shape = [c \in Callbacks |-> "ref"]
  /\ closure = [c \in Callbacks |-> "alive"]
  /\ dropper = [c \in Callbacks |-> "ref"]
  /\ failed = FALSE
  /\ error = "none"
  /\ result = "none"

Next1 == pc' = pc + 1 /\ UNCHANGED <<site, phase, result>>

\* The closure of c after its cell has been dropped as shape s.
Dropped(c, s) ==
  IF ~Owns(s) THEN closure[c]
  ELSE IF closure[c] # "alive" THEN "twice"
  ELSE IF Owns(shape[c]) THEN "dropped" ELSE "stolen"

-----------------------------------------------------------------------------
(***************************************************************************)
(* The function.                                                           *)
(***************************************************************************)
Put ==
  /\ phase = "running" /\ prog[pc].op \in Puts
  /\ place' = [place EXCEPT ![cb] = prog[pc].op]
  /\ shape' = [shape EXCEPT ![cb] = kind]
  /\ Next1
  /\ UNCHANGED <<closure, dropper, failed, error>>

\* The function returns: its frame goes, and the Boxes it has as Rust values.
Return(r, p) ==
  LET local == {c \in Callbacks : place[c] \in {"frame", "held"}} IN
    /\ result' = r
    /\ phase' = p
    /\ place' = [c \in Callbacks |-> IF c \in local THEN "freed" ELSE place[c]]
    /\ closure' = [c \in Callbacks |->
                     IF c \in local THEN Dropped(c, shape[c]) ELSE closure[c]]
    /\ UNCHANGED <<site, pc, shape, dropper, failed>>

Convert ==
  /\ At("try")
  /\ \/ Next1 /\ UNCHANGED <<cells, closure, failed, error>>
     \/ Return("err", "done") /\ UNCHANGED error

EnterC ==
  /\ At("call")
  /\ phase' = "calling"
  /\ UNCHANGED <<site, pc, cells, closure, failed, error, result>>

\* Mutant: the pointer is returned where the Error that owns it should be.
CheckReturnsPointer ==
  /\ At("check")
  /\ IF error = "held"
       THEN Return(error, "done") /\ UNCHANGED error
       ELSE Next1 /\ UNCHANGED <<cells, closure, failed, error>>

\* Mutant: the error is adopted and dropped, not returned.
CheckSwallows ==
  /\ At("check")
  /\ error' = IF error = "held" THEN "adopted" ELSE error
  /\ Next1 /\ UNCHANGED <<cells, closure, failed>>

\* svn_result(err)?, Error::from_raw(err)?
CheckError ==
  /\ At("check")
  /\ IF error = "held"
       THEN Return("err", "done") /\ error' = "adopted"
       ELSE Next1 /\ UNCHANGED <<cells, closure, failed, error>>

ReturnStashed ==
  /\ At("stashed")
  /\ IF failed
       THEN Return("err", "done") /\ UNCHANGED error
       ELSE Next1 /\ UNCHANGED <<cells, closure, failed, error>>

\* Mutant: every box is freed as that of a Box<dyn Fn>.
FreeBoxAsOwned ==
  /\ phase = "running" /\ prog[pc].op \in {"free", "freeIfErr"}
  /\ place[cb] = "box"
  /\ place' = [place EXCEPT ![cb] = "freed"]
  /\ closure' = [closure EXCEPT ![cb] = Dropped(cb, "own")]
  /\ Next1
  /\ UNCHANGED <<shape, dropper, failed, error>>

\* drop(Box::from_raw(baton)); the guards of FreeIfErr are `!ret.is_null()`.
FreeBox ==
  /\ phase = "running" /\ prog[pc].op \in {"free", "freeIfErr"}
  /\ IF prog[pc].op = "free" \/ error = "held"
       THEN /\ place[cb] = "box"
            /\ place' = [place EXCEPT ![cb] = "freed"]
            /\ closure' = [closure EXCEPT ![cb] = Dropped(cb, kind)]
            /\ UNCHANGED <<shape, dropper>>
       ELSE UNCHANGED <<cells, closure>>
  /\ Next1
  /\ UNCHANGED <<failed, error>>

\* Mutant: the droppers run when the function returns, not when the object goes.
HandToObjectDropsNow ==
  /\ At("own")
  /\ place[cb] \in {"box", "held"}
  /\ place' = [place EXCEPT ![cb] = "freed"]
  /\ closure' = [closure EXCEPT ![cb] = Dropped(cb, kind)]
  /\ Next1
  /\ UNCHANGED <<shape, dropper, failed, error>>

\* callback_batons.push((baton, dropper))
HandToObject ==
  /\ At("own")
  /\ place[cb] \in {"box", "held"}
  /\ place' = [place EXCEPT ![cb] = "owner"]
  /\ dropper' = [dropper EXCEPT ![cb] = kind]
  /\ Next1
  /\ UNCHANGED <<shape, closure, failed, error>>

ReturnOk ==
  \/ At("ok") /\ Return("ok", "done") /\ UNCHANGED error
  \/ At("object") /\ Return("ok", "object") /\ UNCHANGED error

-----------------------------------------------------------------------------
(***************************************************************************)
(* C, the caller and the object.                                           *)
(***************************************************************************)
\* The callbacks whose batons C has, and the arguments it has pointers to.
Given == {c \in Callbacks : place[c] \notin {"none", "inner"}}

Stashes == \E i \in DOMAIN prog : prog[i].op = "stashed"

\* C calls a callback.  A FnOnce is moved out of its cell, and dropped when it
\* has run: no second call is made of it.
CallBack(c) ==
  /\ phase = "calling" /\ c \in Given /\ shape[c] # "arg"
  /\ shape[c] = "once" => closure[c] = "alive"
  /\ closure' = [closure EXCEPT ![c] = IF shape[c] = "once" THEN "dropped" ELSE @]
  /\ \/ failed' = failed
     \/ prog[pc] = Call /\ failed' = TRUE
  /\ UNCHANGED <<site, pc, phase, cells, error, result>>

\* A trampoline boxes what its callback returned: a window handler, credentials.
MakeInner(c) ==
  /\ phase \in {"calling", "object"} /\ place[c] = "inner"
  /\ place' = [place EXCEPT ![c] = "made"]
  /\ closure' = [closure EXCEPT ![c] = "alive"]
  /\ UNCHANGED <<site, pc, phase, shape, dropper, failed, error, result>>

\* The last call of such a handler, with the NULL window, which frees the box.
LastCall(c) ==
  /\ phase = "calling" /\ place[c] = "made" /\ Owns(shape[c])
  /\ place' = [place EXCEPT ![c] = "inner"]
  /\ closure' = [closure EXCEPT ![c] = Dropped(c, shape[c])]
  /\ \/ failed' = failed
     \/ prog[pc] = Call /\ failed' = TRUE
  /\ UNCHANGED <<site, pc, phase, shape, dropper, error, result>>

\* C returns an error of its own, or that of the callback unless the trampoline
\* kept it; if none, it has made the last calls.
LeaveC ==
  /\ phase = "calling"
  /\ \/ prog[pc] = Call /\ error' = "held"
     \/ /\ failed => Stashes
        /\ \A c \in Callbacks : place[c] = "made" => ~Owns(shape[c])
        /\ error' = "none"
  /\ phase' = "running"
  /\ pc' = pc + 1
  /\ UNCHANGED <<site, cells, closure, failed, result>>

\* The caller drops a closure it lent, which the object's type does not prevent.
CallerDrops(c) ==
  /\ phase = "object" /\ prog[pc].as = "untied"
  /\ c \in Given /\ place[c] # "made" /\ ~Owns(shape[c]) /\ closure[c] = "alive"
  /\ closure' = [closure EXCEPT ![c] = "caller"]
  /\ UNCHANGED <<site, pc, phase, cells, failed, error, result>>

\* Mutant: the object forgets its batons.
DropObjectForgets ==
  /\ phase = "object"
  /\ phase' = "done"
  /\ UNCHANGED <<site, pc, cells, closure, failed, error, result>>

\* Drop of WrapEditor, UpdateEditor, Report, AuthProvider, ...: the droppers run.
DropObject ==
  /\ phase = "object"
  /\ phase' = "done"
  /\ LET mine == {c \in Callbacks : place[c] = "owner"} IN
       /\ place' = [c \in Callbacks |-> IF c \in mine THEN "freed" ELSE place[c]]
       /\ closure' = [c \in Callbacks |->
                        IF c \in mine THEN Dropped(c, dropper[c]) ELSE closure[c]]
  /\ UNCHANGED <<site, pc, shape, dropper, failed, error, result>>

Finished == phase = "done" /\ UNCHANGED vars

Next ==
  \/ Put \/ Convert \/ EnterC \/ CheckError \/ ReturnStashed
  \/ FreeBox \/ HandToObject \/ ReturnOk
  \/ LeaveC \/ DropObject
  \/ \E c \in Callbacks : CallBack(c) \/ MakeInner(c) \/ LastCall(c) \/ CallerDrops(c)
  \/ Finished

Spec == Init /\ [][Next]_vars

-----------------------------------------------------------------------------
\* The values of the variables are of the kinds they are said to be.
TypeOK ==
  /\ site \in Sites
  /\ pc \in Nat \ {0}
  /\ phase \in {"running", "calling", "object", "done"}
  /\ place \in [Callbacks -> Places]
  /\ shape \in [Callbacks -> Shapes]
  /\ closure \in [Callbacks -> Closures]
  /\ dropper \in [Callbacks -> Shapes]
  /\ failed \in BOOLEAN
  /\ error \in {"none", "held", "adopted"}
  /\ result \in {"none", "ok", "err"}

\* While C may call back, what it and its trampolines read is there, is what they
\* expect, and leads to a closure that is alive: the arguments and batons of all
\* wrapper functions.
CallsDefined ==
  /\ Fitting(prog) /\ Lasting(prog)
  /\ phase \in {"calling", "object"}
  => \A c \in Given :
       /\ Fits(shape[c])
       /\ phase = "calling" => place[c] \in {"frame", "bare", "held", "box", "made"}
       /\ phase = "object" => place[c] \in {"box", "owner"}
       /\ closure[c] = "alive" \/ shape[c] = "once"

\* A box is freed on every way out of a wrapper function, or by the object that
\* it returned, and the closure in it is dropped with it: "Free the boxed
\* callbacks to prevent memory leak" (client.rs).
LeakFree ==
  /\ Balanced(prog) /\ Matching(prog)
  /\ phase = "done"
  => \A c \in Given :
       /\ place[c] \notin {"held", "box", "made", "owner"}
       /\ Owns(shape[c]) => closure[c] # "alive"

\* A wrapper function drops no closure that it was only lent, and none twice,
\* however C and the caller go about it.
ClosuresDroppedOnce ==
  Matching(prog) =>
    \A c \in Callbacks : closure[c] \notin {"stolen", "twice"}

\* The error of the C function is adopted, and what went wrong in a callback or in
\* C is what the caller is told.
ErrorsReturned ==
  /\ Adopting(prog)
  /\ phase \in {"object", "done"}
  => /\ error # "held"
     /\ error = "adopted" => result = "err"
     /\ failed => result = "err"
=============================================================================
