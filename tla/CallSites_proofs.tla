-------------------------- MODULE CallSites_proofs --------------------------
(***************************************************************************)
(* Proofs about CallSites, for every set of well-formed programs: a wrapper *)
(* function that keeps the rules of CallSteps gives C callbacks that can be *)
(* called, leaves no box behind, drops each closure once and returns every  *)
(* error; and every function finds the boxes it frees and comes to its end. *)
(***************************************************************************)
EXTENDS CallSites, TLAPS

(***************************************************************************)
(* The inductive invariant.                                                *)
(***************************************************************************)
InFunction == phase \in {"running", "calling"}

\* The steps that have been made.
Made(k) == k \in DOMAIN prog /\ k < pc

\* Where the function is fits what it is doing.
AtStep ==
  /\ pc \in DOMAIN prog
  /\ phase = "calling" => prog[pc].op = "call"
  /\ phase = "object" => prog[pc].op = "object"
  /\ InFunction => result = "none"
  /\ error = "adopted" => result = "err"

\* A callback that C has was put by a step of the function, and is where that step
\* put it or has left its cell.
PutByStep ==
  \A c \in Callbacks : place[c] # "none" =>
    \E j \in DOMAIN prog :
      /\ Made(j)
      /\ prog[j].op \in Puts /\ prog[j].cb = c /\ prog[j].as = shape[c]
      /\ place[c] \in Puts => place[c] = prog[j].op
      /\ place[c] = "made" => prog[j].op = "inner"

\* A step that ends a box leaves none, and only such a step does.
Ended(k) ==
  \/ prog[k].op \in {"free", "own"}
  \/ prog[k].op = "freeIfErr" /\ error # "none"

FreedByStep ==
  /\ \A k \in DOMAIN prog : Made(k) /\ Ended(k) =>
       place[prog[k].cb] # "box"
  /\ \A k \in DOMAIN prog : Made(k) /\ prog[k].op = "own" =>
       place[prog[k].cb] # "held"
  /\ InFunction =>
       \A c \in Callbacks : place[c] \in {"owner", "freed"} =>
         \E k \in DOMAIN prog :
           /\ Made(k) /\ Ended(k) /\ prog[k].cb = c
           /\ place[c] = "owner" <=> prog[k].op = "own"

\* Nothing of the frame is left when the function has returned.
FrameGone ==
  ~InFunction => \A c \in Callbacks : place[c] \notin {"frame", "held"}

\* A closure lives until the cell that owns it is dropped.
ClosureKept ==
  phase # "done" =>
    \A c \in Callbacks : closure[c] # "alive" =>
      \/ shape[c] = "once" /\ place[c] # "none"
      \/ place[c] \in {"freed", "inner"}
      \/ phase = "object" /\ prog[pc].as = "untied" /\ ~Owns(shape[c])

\* A cell is freed as what is in it.
FreedAsPut ==
  Matching(prog) =>
    \A c \in Callbacks :
      /\ place[c] = "owner" => (Owns(dropper[c]) <=> Owns(shape[c]))
      /\ place[c] = "freed" /\ Owns(shape[c]) => closure[c] # "alive"
      /\ closure[c] = "caller" => ~Owns(shape[c])
      /\ closure[c] \notin {"stolen", "twice"}

\* The error of C is there between the call and the check.
ErrorPending ==
  /\ phase = "running" =>
       \A m, i \in DOMAIN prog :
         Made(i) /\ m < i /\ prog[m].op = "call" /\ prog[i].op = "check" => error # "held"
  /\ phase = "running" /\ (error = "held" \/ failed) =>
       \E m \in DOMAIN prog : Made(m) /\ prog[m] = Call
  /\ phase = "calling" /\ failed => prog[pc] = Call
  /\ phase = "running" /\ failed =>
       error = "held" \/ \E k \in DOMAIN prog : ~Made(k) /\ prog[k].op = "stashed"

\* What an object keeps has not been freed.
ObjectKeeps ==
  phase = "object" /\ Lasting(prog) =>
    \A c \in Given : place[c] \in {"box", "owner"} /\ (prog[pc] = Tied \/ Owns(shape[c]))

\* No box is left but those that the object frees.
NoBoxLeft ==
  Balanced(prog) =>
    \A c \in Callbacks :
      /\ ~InFunction => place[c] # "box"
      /\ phase = "done" => place[c] # "owner"

-----------------------------------------------------------------------------
(***************************************************************************)
(* Programs and steps.                                                     *)
(***************************************************************************)
\* What the assumptions say of the program that runs.
LEMMA ProgramFacts ==
  ASSUME TypeOK
  PROVE  /\ prog \in Seq(Steps(Callbacks))
         /\ DOMAIN prog = 1 .. Len(prog)
         /\ Len(prog) \in Nat
         /\ WellFormed(prog)
BY ProgramType, ProgramsWellFormed DEF TypeOK, prog

\* The steps that name none.
LEMMA OpFacts ==
  /\ Try.op = "try" /\ Call.op = "call" /\ Tell.op = "call"
  /\ Check.op = "check" /\ Stashed.op = "stashed" /\ Ok.op = "ok"
  /\ Tied.op = "object" /\ Untied.op = "object" /\ Untied.as = "untied" /\ Tied.as = "tied"
BY DEF Step, Try, Call, Tell, Check, Stashed, Ok, Tied, Untied

\* A step that names a callback names one, and its shape.
LEMMA StepFacts ==
  ASSUME TypeOK, NEW i \in DOMAIN prog
  PROVE  /\ prog[i].op \in Puts \cup Frees =>
              prog[i].cb \in Callbacks /\ prog[i].as \in Shapes
         /\ prog[i] = Call => prog[i].op = "call"
         /\ prog[i].op = "object" => prog[i] = Tied \/ prog[i].as = "untied"
<1>1. prog[i] \in Steps(Callbacks)
  BY ProgramFacts
<1>2. CASE prog[i] \in [op : Puts \cup Frees, cb : Callbacks, as : Shapes]
  <2>1. prog[i].op # "call" /\ prog[i].op # "object"
    BY <1>2 DEF Puts, Frees
  <2> QED BY <1>2, <2>1, OpFacts
<1>3. CASE prog[i] \in {Try, Call, Tell, Check, Stashed, Ok, Tied, Untied}
  <2>1. prog[i].op \notin Puts \cup Frees
    BY <1>3, OpFacts DEF Puts, Frees
  <2> QED BY <1>3, <2>1, OpFacts
<1> QED
  BY <1>1, <1>2, <1>3 DEF Steps

\* The function that runs is the same from call to return.
LEMMA SameProgram == ASSUME [Next]_vars PROVE prog' = prog /\ site' = site
BY DEF Next, vars, prog, Put, Convert, EnterC, CheckError, ReturnStashed, FreeBox,
       HandToObject, ReturnOk, LeaveC, DropObject, CallBack, MakeInner, LastCall,
       CallerDrops, Finished, Next1, Return

\* A step that does not end the function has a next one.
LEMMA NextStep ==
  ASSUME TypeOK, AtStep, prog[pc].op \notin Ends
  PROVE  pc + 1 \in DOMAIN prog
BY ProgramFacts DEF AtStep, WellFormed, OneCall

-----------------------------------------------------------------------------
(***************************************************************************)
(* Types.                                                                  *)
(***************************************************************************)
LEMMA TypeInit == Init => TypeOK /\ AtStep
<1> SUFFICES ASSUME Init PROVE TypeOK /\ AtStep
  OBVIOUS
<1>1. TypeOK
  <2>1. "none" \in Places /\ "alive" \in Closures /\ "ref" \in Shapes
    BY DEF Places, Closures, Shapes
  <2>2. /\ place \in [Callbacks -> Places]
        /\ shape \in [Callbacks -> Shapes]
        /\ closure \in [Callbacks -> Closures]
        /\ dropper \in [Callbacks -> Shapes]
    BY <2>1 DEF Init
  <2>3. /\ pc \in Nat \ {0}
        /\ phase \in {"running", "calling", "object", "done"}
        /\ error \in {"none", "held", "adopted"}
        /\ result \in {"none", "ok", "err"}
    BY DEF Init
  <2> QED BY <2>2, <2>3 DEF Init, TypeOK
<1>2. 1 \in DOMAIN prog
  BY <1>1, ProgramFacts DEF WellFormed, OneCall
<1> QED BY <1>1, <1>2 DEF Init, AtStep, InFunction

\* A drop leaves a closure in one of its states, and one that was dropped is not alive.
LEMMA DropFacts ==
  ASSUME TypeOK, NEW c \in Callbacks, NEW s
  PROVE  /\ Dropped(c, s) \in Closures
         /\ ~Owns(s) => Dropped(c, s) = closure[c]
         /\ Owns(s) => Dropped(c, s) # "alive" /\ Dropped(c, s) # "caller"
         /\ Owns(s) /\ Owns(shape[c]) /\ closure[c] = "alive" => Dropped(c, s) = "dropped"
<1>1. closure[c] \in Closures
  BY DEF TypeOK
<1> QED BY <1>1 DEF Dropped, Closures

\* A return drops what is on the frame, and nothing else.
LEMMA ReturnFacts ==
  ASSUME TypeOK, NEW r \in {"ok", "err"}, NEW p \in {"object", "done"}, Return(r, p)
  PROVE  /\ result' = r /\ phase' = p
         /\ place' \in [Callbacks -> Places]
         /\ closure' \in [Callbacks -> Closures]
         /\ \A c \in Callbacks :
              IF place[c] \in {"frame", "held"}
                THEN place'[c] = "freed" /\ closure'[c] = Dropped(c, shape[c])
                ELSE place'[c] = place[c] /\ closure'[c] = closure[c]
         /\ UNCHANGED <<site, pc, shape, dropper, failed>>
<1>1. \A c \in Callbacks : place[c] \in Places /\ closure[c] \in Closures
  BY DEF TypeOK
<1>2. \A c \in Callbacks : Dropped(c, shape[c]) \in Closures
  BY DropFacts
<1>3. "freed" \in Places
  BY DEF Places
<1> QED BY <1>1, <1>2, <1>3 DEF Return

LEMMA TypeStep == ASSUME TypeOK, AtStep, [Next]_vars PROVE TypeOK' /\ AtStep'
<1> USE DEF TypeOK
<1>1. prog' = prog /\ site' = site
  BY SameProgram
<1>2. prog[pc].op \notin Ends => pc + 1 \in DOMAIN prog
  BY NextStep
<1>3. pc \in DOMAIN prog
  BY DEF AtStep
<1>4. /\ prog[pc].op \in Puts \cup Frees =>
           prog[pc].cb \in Callbacks /\ prog[pc].as \in Shapes
  BY <1>3, StepFacts
<1>5. Puts \subseteq Places /\ "owner" \in Places /\ "freed" \in Places
  BY DEF Puts, Places
<1> USE <1>1, <1>2, <1>3
<1>6. CASE Put
  BY <1>4, <1>5, <1>6 DEF Put, Next1, AtStep, InFunction, cb, kind, Puts, Ends
<1>7. ASSUME NEW r \in {"ok", "err"}, NEW p \in {"object", "done"}, Return(r, p),
             p = "object" => prog[pc].op = "object",
             error' \in {"none", "held", "adopted"},
             error' = "adopted" => r = "err" \/ error = "adopted",
             InFunction
      PROVE  TypeOK' /\ AtStep'
  BY <1>7, ReturnFacts DEF AtStep, InFunction
<1>8. CASE Convert
  <2>1. CASE Next1 /\ UNCHANGED <<cells, closure, failed, error>>
    BY <1>8, <2>1 DEF Convert, At, Next1, AtStep, InFunction, cells, Ends
  <2>2. CASE Return("err", "done") /\ UNCHANGED error
    BY <1>7, <1>8, <2>2 DEF Convert, At, InFunction
  <2> QED BY <1>8, <2>1, <2>2 DEF Convert
<1>9. CASE EnterC
  BY <1>9 DEF EnterC, At, AtStep, InFunction, cells
<1>10. CASE CheckError
  <2>1. CASE error = "held"
    BY <1>7, <1>10, <2>1 DEF CheckError, At, InFunction
  <2>2. CASE error # "held"
    BY <1>10, <2>2 DEF CheckError, At, Next1, AtStep, InFunction, cells, Ends
  <2> QED BY <2>1, <2>2
<1>11. CASE ReturnStashed
  <2>1. CASE failed
    BY <1>7, <1>11, <2>1 DEF ReturnStashed, At, InFunction
  <2>2. CASE ~failed
    BY <1>11, <2>2 DEF ReturnStashed, At, Next1, AtStep, InFunction, cells, Ends
  <2> QED BY <2>1, <2>2
<1>12. CASE FreeBox
  <2>1. prog[pc].op \in Frees /\ prog[pc].op \notin Ends
    BY <1>12 DEF FreeBox, Frees, Ends
  <2>2. cb \in Callbacks /\ Dropped(cb, kind) \in Closures
    BY <1>4, <2>1, DropFacts DEF cb
  <2> QED BY <1>5, <1>12, <2>1, <2>2 DEF FreeBox, Next1, AtStep, InFunction, cells, cb, kind
<1>13. CASE HandToObject
  <2>1. prog[pc].op \in Frees /\ prog[pc].op \notin Ends
    BY <1>13 DEF HandToObject, At, Frees, Ends
  <2>2. prog[pc].cb \in Callbacks /\ prog[pc].as \in Shapes
    BY <1>4, <2>1
  <2>3. TypeOK'
    BY <1>5, <1>13, <2>2 DEF HandToObject, At, Next1, cb, kind
  <2> QED BY <1>13, <2>1, <2>3 DEF HandToObject, At, Next1, AtStep, InFunction
<1>14. CASE ReturnOk
  BY <1>7, <1>14 DEF ReturnOk, At, InFunction
<1>15. CASE LeaveC
  BY <1>15 DEF LeaveC, AtStep, InFunction, cells, Ends
<1>16. CASE DropObject
  <2>1. \A c \in Callbacks : Dropped(c, dropper[c]) \in Closures
    BY DropFacts
  <2> QED BY <1>5, <1>16, <2>1 DEF DropObject, AtStep, InFunction
<1>17. ASSUME NEW c \in Callbacks,
              CallBack(c) \/ MakeInner(c) \/ LastCall(c) \/ CallerDrops(c)
       PROVE  TypeOK' /\ AtStep'
  <2>1. /\ {"alive", "dropped", "caller"} \subseteq Closures
        /\ {"inner", "made"} \subseteq Places
        /\ \A s : Dropped(c, s) \in Closures
    BY DropFacts DEF Closures, Places
  <2>2. CASE CallBack(c) \/ CallerDrops(c)
    BY <2>1, <2>2 DEF CallBack, CallerDrops, AtStep, InFunction, cells
  <2>3. CASE MakeInner(c) \/ LastCall(c)
    <3>1. \E x \in Places, y \in Closures :
            /\ place' = [place EXCEPT ![c] = x]
            /\ closure' = [closure EXCEPT ![c] = y]
      BY <2>1, <2>3 DEF MakeInner, LastCall
    <3>2. /\ UNCHANGED <<site, pc, phase, shape, dropper, error, result>>
          /\ failed' \in BOOLEAN
      BY <2>3 DEF MakeInner, LastCall
    <3> QED BY <3>1, <3>2 DEF AtStep, InFunction
  <2> QED BY <1>17, <2>2, <2>3
<1>18. CASE UNCHANGED vars
  BY <1>18 DEF vars, AtStep, InFunction
<1> QED
  BY <1>6, <1>8, <1>9, <1>10, <1>11, <1>12, <1>13, <1>14, <1>15, <1>16, <1>17, <1>18
  DEF Next, Finished

\* The variables of a wrapper function at work are of their kinds, whatever the
\* program, C, the callbacks and the caller do.
THEOREM TypeCorrect == Spec => []TypeOK
<1>1. Init => TypeOK /\ AtStep
  BY TypeInit
<1>2. TypeOK /\ AtStep /\ [Next]_vars => TypeOK' /\ AtStep'
  BY TypeStep
<1> QED BY <1>1, <1>2, PTL DEF Spec

-----------------------------------------------------------------------------
(***************************************************************************)
(* Cells: where they are, and the steps that put and freed them.           *)
(***************************************************************************)
Cells == PutByStep /\ FreedByStep /\ FrameGone

LEMMA CellsInit == Init => Cells
<1> SUFFICES ASSUME Init PROVE Cells
  OBVIOUS
<1>1. \A k \in DOMAIN prog : ~Made(k)
  BY TypeInit, ProgramFacts DEF Init, Made
<1> QED BY <1>1 DEF Init, Cells, PutByStep, FreedByStep, FrameGone, InFunction

\* The rules about frees: they come after the call, and after what they free, which
\* is not put again.
LEMMA FreeFacts ==
  ASSUME TypeOK, NEW k \in DOMAIN prog, prog[k].op \in Frees
  PROVE  /\ \A i \in DOMAIN prog : prog[i].op = "call" => i < k
         /\ \A i \in DOMAIN prog :
              prog[i].op \in Puts /\ prog[i].cb = prog[k].cb => i < k
         /\ k \in Nat
<1>1. \E i \in 1 .. k - 1 :
        /\ prog[i].op \in {"box", "held"}
        /\ prog[i].cb = prog[k].cb
  BY ProgramFacts DEF WellFormed, FreesOnce
<1>2. PICK i \in DOMAIN prog :
        prog[i].op \in Puts /\ prog[i].cb = prog[k].cb /\ i < k
  BY <1>1, ProgramFacts DEF Puts
<1>3. \A j \in DOMAIN prog :
        prog[j].op \in Puts /\ prog[j].cb = prog[k].cb => i = j
  BY <1>2, ProgramFacts DEF WellFormed, PutsOnce
<1>4. \A j \in DOMAIN prog : prog[j].op = "call" => j < k
  BY ProgramFacts DEF WellFormed, FreesOnce
<1> QED BY <1>2, <1>3, <1>4, ProgramFacts

\* What does not touch a cell, and makes no step that would.
LEMMA CellsQuiet ==
  ASSUME TypeOK, AtStep, Cells, prog' = prog,
         UNCHANGED <<place, shape, error>>,
         pc' = pc \/ (pc' = pc + 1 /\ prog[pc].op \notin Puts \cup Frees),
         InFunction' = InFunction
  PROVE  Cells'
<1> USE DEF Cells
<1>1. pc \in Nat
  BY DEF TypeOK
<1>2. \A k \in DOMAIN prog : Ended(k) => prog[k].op \in Frees
  BY DEF Ended, Frees
<1>3. \A k \in DOMAIN prog : prog[k].op \in Frees => k \in Nat
  BY ProgramFacts
<1>4. \A k \in DOMAIN prog : /\ Ended(k)' = Ended(k)
                             /\ Made(k) => Made(k)'
                             /\ Made(k)' => Made(k) \/ prog[k].op \notin Frees
  BY <1>1, ProgramFacts DEF Ended, Made
<1>5. PutByStep'
  BY <1>4 DEF PutByStep
<1>6. FreedByStep'
  BY <1>2, <1>4 DEF FreedByStep, Frees
<1>7. FrameGone'
  BY DEF FrameGone
<1> QED BY <1>5, <1>6, <1>7

\* A return.
LEMMA CellsReturn ==
  ASSUME TypeOK, Cells, prog' = prog,
         NEW r \in {"ok", "err"}, NEW p \in {"object", "done"}, Return(r, p),
         error' # "none" => error # "none"
  PROVE  Cells'
<1> USE ReturnFacts DEF Cells
<1>1. /\ pc' = pc /\ shape' = shape /\ ~InFunction'
      /\ \A c \in Callbacks : /\ place'[c] \notin {"frame", "held"}
                              /\ place'[c] = place[c] \/ place'[c] = "freed"
                              /\ place'[c] # "none" => place[c] # "none"
  BY DEF InFunction
<1>2. \A k \in DOMAIN prog : Made(k)' = Made(k) /\ (Ended(k)' => Ended(k))
  BY <1>1 DEF Made, Ended
<1>3. PutByStep'
  BY <1>1, <1>2 DEF PutByStep, Puts
<1>4. \A k \in DOMAIN prog : Ended(k) => prog[k].cb \in Callbacks
  BY StepFacts DEF Ended, Frees
<1>5. \A k \in DOMAIN prog : prog[k].op = "own" => prog[k].cb \in Callbacks
  BY StepFacts DEF Frees
<1>6. FreedByStep'
  BY <1>1, <1>2, <1>4, <1>5 DEF FreedByStep
<1>7. FrameGone'
  BY <1>1 DEF FrameGone
<1> QED BY <1>3, <1>6, <1>7

\* The end of one cell.
LEMMA CellsEnd ==
  ASSUME TypeOK, AtStep, Cells, prog' = prog, phase = "running",
         UNCHANGED <<phase, shape, error>>,
         pc' = pc + 1, prog[pc].op \in Frees,
         place[prog[pc].cb] \in {"box", "held"},
         prog[pc].op = "own" <=> place'[prog[pc].cb] = "owner",
         prog[pc].op # "own" => place'[prog[pc].cb] = "freed" /\ Ended(pc),
         \A c \in Callbacks \ {prog[pc].cb} : place'[c] = place[c]
  PROVE  Cells'
<1> USE DEF Cells
<1>1. /\ pc \in DOMAIN prog /\ pc \in Nat /\ prog[pc].cb \in Callbacks
      /\ place'[prog[pc].cb] \in {"owner", "freed"}
      /\ \A k \in DOMAIN prog : k \in Nat
  BY StepFacts, ProgramFacts DEF AtStep
<1>2. \A k \in DOMAIN prog : /\ Ended(k)' = Ended(k)
                             /\ Made(k) => Made(k)'
                             /\ Made(k)' => (Made(k) \/ k = pc)
                             /\ Ended(k) => prog[k].op \in Frees
                             /\ prog[k].op = "own" => Ended(k)
  BY <1>1 DEF Made, Ended, Frees
<1>3. \A k \in DOMAIN prog : Ended(k) => prog[k].cb \in Callbacks
  BY <1>2, StepFacts
<1>4. \A k \in DOMAIN prog : k = pc => (Made(k) /\ Ended(k))' /\ Ended(k)
  BY <1>1 DEF Made, Ended, Frees
<1>5. PutByStep'
  <2> SUFFICES ASSUME NEW c \in Callbacks, place'[c] # "none"
               PROVE  (\E j \in DOMAIN prog :
                         /\ Made(j)
                         /\ prog[j].op \in Puts /\ prog[j].cb = c
                         /\ prog[j].as = shape[c]
                         /\ place[c] \in Puts => place[c] = prog[j].op
                         /\ place[c] = "made" => prog[j].op = "inner")'
    BY DEF PutByStep
  <2>1. place[c] # "none" /\ (place'[c] \in Puts \cup {"made"} => place'[c] = place[c])
    BY <1>1 DEF Puts
  <2> QED BY <1>2, <2>1 DEF PutByStep
<1>6. FreedByStep'
  <2>1. \A k \in DOMAIN prog : (Made(k) /\ Ended(k))' => place'[prog[k].cb] # "box"
    BY <1>1, <1>2, <1>3 DEF FreedByStep
  <2>2. \A k \in DOMAIN prog :
          (Made(k) /\ prog[k].op = "own")' => place'[prog[k].cb] # "held"
    BY <1>1, <1>2, <1>3 DEF FreedByStep
  <2>3. ASSUME NEW c \in Callbacks, place'[c] \in {"owner", "freed"}
        PROVE  \E k \in DOMAIN prog :
                 /\ (Made(k) /\ Ended(k))' /\ prog[k].cb = c
                 /\ place'[c] = "owner" <=> prog[k].op = "own"
    <3>1. CASE c = prog[pc].cb
      BY <1>1, <1>4, <3>1
    <3>2. CASE c # prog[pc].cb
      BY <1>2, <2>3, <3>2 DEF FreedByStep, InFunction
    <3> QED BY <3>1, <3>2
  <2> QED BY <2>1, <2>2, <2>3 DEF FreedByStep
<1>7. FrameGone'
  BY DEF FrameGone, InFunction
<1> QED BY <1>5, <1>6, <1>7

\* A trampoline makes a box, or frees it.
LEMMA CellsInner ==
  ASSUME TypeOK, Cells, prog' = prog, UNCHANGED <<pc, shape, error>>,
         InFunction' = InFunction,
         NEW b \in Callbacks, place[b] \in {"inner", "made"},
         place'[b] \in {"inner", "made"},
         \A c \in Callbacks \ {b} : place'[c] = place[c]
  PROVE  Cells'
<1>1. \A k \in DOMAIN prog : /\ Made(k)' = Made(k) /\ Ended(k)' = Ended(k)
                             /\ Ended(k) => prog[k].cb \in Callbacks
                             /\ prog[k].op = "own" => prog[k].cb \in Callbacks
  BY StepFacts DEF Made, Ended, Frees
<1>2. PutByStep'
  <2>1. PICK j \in DOMAIN prog :
          /\ Made(j)
          /\ prog[j].op \in Puts /\ prog[j].cb = b /\ prog[j].as = shape[b]
          /\ prog[j].op = "inner"
    BY DEF Cells, PutByStep, Puts
  <2> SUFFICES ASSUME NEW c \in Callbacks, place'[c] # "none"
               PROVE  \E i \in DOMAIN prog :
                        /\ Made(i)'
                        /\ prog[i].op \in Puts /\ prog[i].cb = c
                        /\ prog[i].as = shape'[c]
                        /\ place'[c] \in Puts => place'[c] = prog[i].op
                        /\ place'[c] = "made" => prog[i].op = "inner"
    BY DEF PutByStep
  <2>2. CASE c = b
    BY <1>1, <2>1, <2>2 DEF Puts
  <2>3. CASE c # b
    BY <1>1, <2>3 DEF Cells, PutByStep
  <2> QED BY <2>2, <2>3
<1>3. FreedByStep'
  BY <1>1 DEF Cells, FreedByStep
<1>4. FrameGone'
  BY DEF Cells, FrameGone
<1> QED BY <1>2, <1>3, <1>4 DEF Cells

LEMMA CellsStep ==
  ASSUME TypeOK, AtStep, Cells, [Next]_vars
  PROVE  Cells'
<1> USE DEF TypeOK
<1>1. /\ prog' = prog /\ pc \in DOMAIN prog
      /\ DOMAIN prog = 1 .. Len(prog) /\ Len(prog) \in Nat
  BY SameProgram, ProgramFacts DEF AtStep
<1> USE <1>1
<1>2. CASE Put
  <2>1. /\ prog[pc].cb \in Callbacks
        /\ place' = [place EXCEPT ![prog[pc].cb] = prog[pc].op]
        /\ shape' = [shape EXCEPT ![prog[pc].cb] = prog[pc].as]
        /\ prog[pc].op \in Puts /\ pc' = pc + 1
        /\ phase = "running" /\ UNCHANGED <<phase, error>>
    BY <1>2, StepFacts DEF Put, Next1, cb, kind
  <2>2. \A k \in DOMAIN prog : /\ Ended(k)' = Ended(k)
                               /\ Made(k)' <=> Made(k) \/ k = pc
                               /\ Ended(k) => prog[k].op \in Frees
                               /\ Ended(k) => prog[k].cb \in Callbacks
    BY <2>1, StepFacts DEF Made, Ended, Frees
  <2>3. \A k \in DOMAIN prog :
          Made(k) /\ prog[k].op \in Frees => prog[k].cb # prog[pc].cb
    BY <2>1, FreeFacts DEF Made
  <2>4. prog[pc].op \notin Frees /\ prog[pc].op \notin {"owner", "freed"}
    BY <2>1 DEF Puts, Frees
  <2>5. PutByStep'
    <3> SUFFICES ASSUME NEW c \in Callbacks, place'[c] # "none"
                 PROVE  \E j \in DOMAIN prog :
                          /\ Made(j)'
                          /\ prog[j].op \in Puts /\ prog[j].cb = c
                          /\ prog[j].as = shape'[c]
                          /\ place'[c] \in Puts => place'[c] = prog[j].op
                          /\ place'[c] = "made" => prog[j].op = "inner"
      BY DEF Cells, PutByStep
    <3>1. CASE c = prog[pc].cb
      BY <2>1, <2>2, <3>1 DEF Puts
    <3>2. CASE c # prog[pc].cb
      BY <2>1, <2>2, <3>2 DEF Cells, PutByStep
    <3> QED BY <3>1, <3>2
  <2>6. FreedByStep'
    <3>1. \A k \in DOMAIN prog : (Made(k) /\ Ended(k))' => place'[prog[k].cb] # "box"
      BY <2>1, <2>2, <2>3, <2>4 DEF Cells, FreedByStep
    <3>2. \A k \in DOMAIN prog :
            (Made(k) /\ prog[k].op = "own")' => place'[prog[k].cb] # "held"
      <4>1. \A k \in DOMAIN prog :
              prog[k].op = "own" => prog[k].op \in Frees /\ prog[k].cb \in Callbacks
        BY StepFacts DEF Frees
      <4> QED BY <2>1, <2>2, <2>3, <2>4, <4>1 DEF Cells, FreedByStep
    <3>3. ASSUME NEW c \in Callbacks, place'[c] \in {"owner", "freed"}
          PROVE  \E k \in DOMAIN prog :
                   /\ (Made(k) /\ Ended(k))' /\ prog[k].cb = c
                   /\ place'[c] = "owner" <=> prog[k].op = "own"
      <4>1. place'[c] = place[c]
        BY <2>1, <2>4, <3>3
      <4> QED BY <2>1, <2>2, <3>3, <4>1 DEF Cells, FreedByStep, InFunction
    <3> QED BY <3>1, <3>2, <3>3 DEF FreedByStep
  <2>7. FrameGone'
    BY <2>1 DEF FrameGone, InFunction
  <2> QED BY <2>5, <2>6, <2>7 DEF Cells
<1>3. ASSUME prog[pc].op \notin Puts \cup Frees, Next1, UNCHANGED <<place, shape, error>>
      PROVE  Cells'
  BY <1>3, CellsQuiet DEF Next1, InFunction
<1>4. CASE Convert
  BY <1>3, <1>4, CellsReturn DEF Convert, At, cells, Puts, Frees
<1>5. CASE EnterC
  BY <1>5, CellsQuiet DEF EnterC, At, InFunction, cells
<1>6. CASE CheckError
  <2>1. CASE error = "held"
    BY <1>6, <2>1, CellsReturn DEF CheckError
  <2> QED BY <1>3, <1>6, <2>1 DEF CheckError, At, cells, Puts, Frees
<1>7. CASE ReturnStashed
  BY <1>3, <1>7, CellsReturn DEF ReturnStashed, At, cells, Puts, Frees
<1>8. CASE FreeBox
  <2>1. /\ prog[pc].op \in {"free", "freeIfErr"} /\ prog[pc].cb \in Callbacks
        /\ phase = "running" /\ Next1 /\ UNCHANGED error
    BY <1>8, StepFacts DEF FreeBox, Frees
  <2>2. CASE prog[pc].op = "free" \/ error = "held"
    <3>1. /\ place[prog[pc].cb] = "box"
          /\ place' = [place EXCEPT ![prog[pc].cb] = "freed"]
          /\ shape' = shape
      BY <1>8, <2>2 DEF FreeBox, cb
    <3> QED BY <2>1, <2>2, <3>1, CellsEnd DEF Next1, Ended, Frees
  <2>3. CASE ~(prog[pc].op = "free" \/ error = "held")
    <3>1. UNCHANGED <<place, shape, error, phase>> /\ pc' = pc + 1
      BY <1>8, <2>3 DEF FreeBox, cells, Next1
    <3>2. error # "adopted"
      BY <2>1 DEF AtStep, InFunction
    <3>3. ~Ended(pc)
      BY <2>1, <2>3, <3>2 DEF Ended
    <3>4. \A k \in DOMAIN prog : /\ Ended(k)' = Ended(k)
                                 /\ Made(k)' <=> (Made(k) \/ k = pc)
      BY <3>1 DEF Made, Ended
    <3>5. PutByStep'
      BY <3>1, <3>4 DEF Cells, PutByStep
    <3>6. FreedByStep'
      BY <2>1, <3>1, <3>3, <3>4 DEF Cells, FreedByStep, InFunction
    <3>7. FrameGone'
      BY <3>1 DEF Cells, FrameGone, InFunction
    <3> QED BY <3>5, <3>6, <3>7 DEF Cells
  <2> QED BY <2>2, <2>3
<1>9. CASE HandToObject
  <2>1. /\ prog[pc].op = "own" /\ prog[pc].cb \in Callbacks
        /\ phase = "running" /\ Next1
        /\ place[prog[pc].cb] \in {"box", "held"}
        /\ place' = [place EXCEPT ![prog[pc].cb] = "owner"]
        /\ UNCHANGED <<shape, error>>
    BY <1>9, StepFacts DEF HandToObject, At, Frees, cb
  <2> QED BY <2>1, CellsEnd DEF Next1, Frees
<1>10. CASE ReturnOk
  BY <1>10, CellsReturn DEF ReturnOk
<1>11. CASE LeaveC
  <2>1. /\ prog[pc].op = "call" /\ InFunction /\ InFunction' /\ pc' = pc + 1
        /\ UNCHANGED <<place, shape>>
    BY <1>11 DEF LeaveC, AtStep, InFunction, cells
  <2>2. \A k \in DOMAIN prog :
          /\ Made(k)' <=> (Made(k) \/ k = pc)
          /\ (Made(k) \/ k = pc) => prog[k].op \notin Frees
    BY <2>1, FreeFacts DEF Made, Frees
  <2>3. \A k \in DOMAIN prog : /\ Ended(k) => prog[k].op \in Frees
                               /\ Ended(k)' => prog[k].op \in Frees
                               /\ prog[k].op = "own" => prog[k].op \in Frees
    BY DEF Ended, Frees
  <2>4. PutByStep'
    BY <2>1, <2>2 DEF Cells, PutByStep
  <2>5. FreedByStep'
    BY <2>1, <2>2, <2>3 DEF Cells, FreedByStep
  <2>6. FrameGone'
    BY <2>1 DEF FrameGone
  <2> QED BY <2>4, <2>5, <2>6 DEF Cells
<1>12. CASE DropObject
  <2>1. /\ UNCHANGED <<pc, shape, error>> /\ ~InFunction /\ ~InFunction'
        /\ \A c \in Callbacks :
             /\ place'[c] \in {place[c], "freed"}
             /\ place'[c] # "none" => place[c] # "none"
    BY <1>12 DEF DropObject, InFunction
  <2>2. \A k \in DOMAIN prog : /\ Made(k)' = Made(k) /\ Ended(k)' = Ended(k)
                               /\ Ended(k) => prog[k].cb \in Callbacks
                               /\ prog[k].op = "own" => prog[k].cb \in Callbacks
    BY <2>1, StepFacts DEF Made, Ended, Frees
  <2>3. PutByStep'
    BY <2>1, <2>2 DEF Cells, PutByStep, Puts
  <2>4. FreedByStep'
    BY <2>1, <2>2 DEF Cells, FreedByStep
  <2>5. FrameGone'
    BY <2>1 DEF Cells, FrameGone
  <2> QED BY <2>3, <2>4, <2>5 DEF Cells
<1>13. CASE \E c \in Callbacks : CallBack(c) \/ CallerDrops(c)
  BY <1>13, CellsQuiet DEF CallBack, CallerDrops, InFunction, cells
<1>15. ASSUME NEW c \in Callbacks, MakeInner(c) \/ LastCall(c)
       PROVE  Cells'
  BY <1>15, CellsInner DEF MakeInner, LastCall, InFunction
<1>14. CASE UNCHANGED vars
  BY <1>14, CellsQuiet DEF vars, InFunction
<1> QED
  BY <1>2, <1>4, <1>5, <1>6, <1>7, <1>8, <1>9, <1>10, <1>11, <1>12, <1>13, <1>14, <1>15
  DEF Next, Finished

-----------------------------------------------------------------------------
(***************************************************************************)
(* Errors.                                                                 *)
(***************************************************************************)
\* There is one call, and what a trampoline kept is looked at after it.
LEMMA CallFacts ==
  ASSUME TypeOK
  PROVE  /\ \A i, j \in DOMAIN prog : prog[i].op = "call" /\ prog[j].op = "call" => i = j
         /\ \A i, k \in DOMAIN prog : prog[i].op = "call" /\ prog[k].op = "stashed" => i < k
         /\ \A i \in DOMAIN prog : prog[i].op \in Ends <=> i = Len(prog)
BY ProgramFacts DEF WellFormed, OneCall, StashesLate

LEMMA ErrorsInit == Init => ErrorPending
<1> SUFFICES ASSUME Init PROVE ErrorPending
  OBVIOUS
<1>1. \A k \in DOMAIN prog : ~Made(k)
  BY TypeInit, ProgramFacts DEF Init, Made
<1> QED BY <1>1 DEF Init, ErrorPending

LEMMA ErrorsStep ==
  ASSUME TypeOK, AtStep, ErrorPending, [Next]_vars
  PROVE  ErrorPending'
<1> USE DEF ErrorPending
<1>1. /\ prog' = prog /\ pc \in DOMAIN prog
      /\ DOMAIN prog = 1 .. Len(prog) /\ Len(prog) \in Nat
  BY SameProgram, ProgramFacts DEF AtStep
<1> USE <1>1
<1>2. pc' = pc + 1 =>
        \A k \in DOMAIN prog : Made(k)' <=> (Made(k) \/ k = pc)
  BY DEF Made
<1>3. ASSUME phase = "running", Next1, UNCHANGED <<failed, error>>,
             prog[pc].op = "check" => error # "held",
             prog[pc].op = "stashed" => ~failed
      PROVE  ErrorPending'
  <2>1. /\ phase' = "running" /\ failed' = failed /\ error' = error
        /\ \A k \in DOMAIN prog : Made(k)' <=> (Made(k) \/ k = pc)
    BY <1>2, <1>3 DEF Next1
  <2>2. \A m, i \in DOMAIN prog :
          Made(i)' /\ m < i /\ prog[m].op = "call" /\ prog[i].op = "check"
            => error' # "held"
    BY <1>3, <2>1
  <2>3. error' = "held" \/ failed' => \E m \in DOMAIN prog : Made(m)' /\ prog[m] = Call
    BY <1>3, <2>1
  <2>4. failed' =>
          error' = "held" \/ \E k \in DOMAIN prog : ~Made(k)' /\ prog[k].op = "stashed"
    BY <1>3, <2>1
  <2> QED BY <2>1, <2>2, <2>3, <2>4
<1>4. ASSUME phase' \in {"object", "done"} PROVE ErrorPending'
  BY <1>4
<1>5. CASE Put
  BY <1>3, <1>5 DEF Put, Puts
<1>6. CASE Convert
  BY <1>3, <1>4, <1>6 DEF Convert, At, Return
<1>7. CASE EnterC
  <2>1. /\ phase = "running" /\ prog[pc].op = "call" /\ failed' = failed
        /\ pc' = pc /\ phase' = "calling"
    BY <1>7 DEF EnterC, At
  <2>2. ~failed
    BY <2>1, CallFacts, StepFacts DEF Made
  <2> QED BY <2>1, <2>2
<1>8. CASE CheckError
  BY <1>3, <1>4, <1>8 DEF CheckError, At, Return
<1>9. CASE ReturnStashed
  BY <1>3, <1>4, <1>9 DEF ReturnStashed, At, Return
<1>10. CASE FreeBox
  BY <1>3, <1>10 DEF FreeBox
<1>11. CASE HandToObject
  BY <1>3, <1>11 DEF HandToObject, At
<1>12. CASE ReturnOk
  BY <1>4, <1>12 DEF ReturnOk, Return
<1>13. CASE LeaveC
  <2>1. /\ phase = "calling" /\ phase' = "running" /\ pc' = pc + 1 /\ failed' = failed
        /\ prog[pc].op = "call"
        /\ \/ prog[pc] = Call /\ error' = "held"
           \/ (failed => Stashes) /\ error' = "none"
    BY <1>13 DEF LeaveC, AtStep
  <2>2. \A m, i \in DOMAIN prog :
          Made(i)' /\ m < i /\ prog[m].op = "call" => prog[i].op # "check"
    BY <1>2, <2>1, CallFacts DEF Made
  <2>3. error' = "held" \/ failed' => \E m \in DOMAIN prog : Made(m)' /\ prog[m] = Call
    BY <1>2, <2>1
  <2>4. failed' =>
          error' = "held" \/ \E k \in DOMAIN prog : ~Made(k)' /\ prog[k].op = "stashed"
    BY <1>2, <2>1, CallFacts DEF Made, Stashes
  <2> QED BY <2>1, <2>2, <2>3, <2>4
<1>14. CASE DropObject
  BY <1>4, <1>14 DEF DropObject
<1>15. CASE \E c \in Callbacks : CallBack(c) \/ MakeInner(c) \/ LastCall(c) \/ CallerDrops(c)
  <2>1. CASE phase = "calling"
    BY <1>15, <2>1 DEF CallBack, MakeInner, LastCall, CallerDrops
  <2> QED BY <1>4, <1>15, <2>1 DEF CallBack, MakeInner, LastCall, CallerDrops
<1>16. CASE UNCHANGED vars
  BY <1>16 DEF vars, Made
<1> QED
  BY <1>5, <1>6, <1>7, <1>8, <1>9, <1>10, <1>11, <1>12, <1>13, <1>14, <1>15, <1>16
  DEF Next, Finished

\* A program that adopts errors leaves none when it gets to another way out.
LEMMA ErrorSeen ==
  ASSUME TypeOK, AtStep, ErrorPending, Adopting(prog), phase = "running",
         prog[pc].op \in Exits \ {"check"}
  PROVE  error # "held"
<1> SUFFICES ASSUME error = "held" PROVE FALSE
  OBVIOUS
<1>1. PICK m \in DOMAIN prog : Made(m) /\ prog[m] = Call
  BY DEF ErrorPending
<1>2. pc \in DOMAIN prog /\ m < pc
  BY <1>1 DEF Made, AtStep
<1>3. PICK k \in m + 1 .. pc : prog[k].op = "check"
  BY <1>1, <1>2 DEF Adopting
<1>4. k \in DOMAIN prog /\ m < k /\ k < pc
  BY <1>1, <1>2, <1>3, ProgramFacts
<1>5. prog[m].op = "call"
  BY <1>1, StepFacts
<1> QED BY <1>3, <1>4, <1>5 DEF ErrorPending, Made

LEMMA ReturnedStep ==
  ASSUME TypeOK, AtStep, ErrorPending, ErrorsReturned, [Next]_vars
  PROVE  ErrorsReturned'
<1>1. prog' = prog
  BY SameProgram
<1> SUFFICES ASSUME Adopting(prog), phase' \in {"object", "done"}
             PROVE  /\ error' # "held"
                    /\ error' = "adopted" => result' = "err"
                    /\ failed' => result' = "err"
  BY <1>1 DEF ErrorsReturned
<1>2. CASE Convert
  BY <1>2, ErrorSeen DEF Convert, At, Next1, Return, Exits
<1>3. CASE CheckError
  BY <1>3 DEF CheckError, At, Next1, Return
<1>4. CASE ReturnStashed
  BY <1>4, ErrorSeen DEF ReturnStashed, At, Next1, Return, Exits
<1>5. CASE ReturnOk
  <2>1. /\ phase = "running" /\ prog[pc].op \in Ends
        /\ error' = error /\ failed' = failed
    BY <1>5 DEF ReturnOk, At, Return, Ends
  <2>2. error # "held" /\ error # "adopted"
    BY <2>1, ErrorSeen DEF AtStep, InFunction, Exits, Ends
  <2>3. pc = Len(prog) /\ pc \in DOMAIN prog
    BY <2>1, CallFacts DEF AtStep
  <2>4. ~failed
    BY <2>1, <2>2, <2>3, ProgramFacts DEF ErrorPending, Made, Ends
  <2> QED BY <2>1, <2>2, <2>4
<1>6. CASE phase \in {"object", "done"}
  BY <1>6 DEF ErrorsReturned, Next, vars, Put, Convert, EnterC, CheckError, ReturnStashed,
       FreeBox, HandToObject, ReturnOk, LeaveC, DropObject, CallBack, MakeInner,
       LastCall, CallerDrops, Finished, At
<1>7. CASE phase \in {"running", "calling"}
  BY <1>2, <1>3, <1>4, <1>5, <1>7
  DEF Next, vars, Put, EnterC, FreeBox, HandToObject, LeaveC, DropObject, CallBack,
      MakeInner, LastCall, CallerDrops, Finished, At, Next1
<1> QED BY <1>6, <1>7 DEF TypeOK

-----------------------------------------------------------------------------
(***************************************************************************)
(* Closures.                                                               *)
(***************************************************************************)
Closed == ClosureKept /\ FreedAsPut

LEMMA ClosedInit == Init => Closed
BY DEF Init, Closed, ClosureKept, FreedAsPut

\* The cell of a callback was put as a shape that the frees of it respect.
LEMMA MatchFacts ==
  ASSUME TypeOK, Cells, Matching(prog), NEW c \in Callbacks, place[c] # "none"
  PROVE  /\ shape[c] # "once"
         /\ \A k \in DOMAIN prog :
              prog[k].op \in Frees /\ prog[k].cb = c =>
                (Owns(shape[c]) <=> Owns(prog[k].as))
<1>1. PICK j \in DOMAIN prog :
        prog[j].op \in Puts /\ prog[j].cb = c /\ prog[j].as = shape[c]
  BY DEF Cells, PutByStep
<1> QED BY <1>1 DEF Matching

\* Steps that touch neither cells nor closures.
LEMMA ClosedQuiet ==
  ASSUME Closed, prog' = prog, InFunction, InFunction',
         UNCHANGED <<place, shape, closure, dropper>>
  PROVE  Closed'
BY DEF Closed, ClosureKept, FreedAsPut, InFunction

LEMMA ClosedReturn ==
  ASSUME TypeOK, Cells, Closed, prog' = prog, InFunction,
         NEW r \in {"ok", "err"}, NEW p \in {"object", "done"}, Return(r, p)
  PROVE  Closed'
<1> USE ReturnFacts
<1>1. ClosureKept'
  <2> SUFFICES ASSUME NEW c \in Callbacks, closure'[c] # "alive",
                      place'[c] \notin {"freed", "inner"}
               PROVE  shape'[c] = "once" /\ place'[c] # "none"
    BY DEF ClosureKept
  <2> QED BY DEF Closed, ClosureKept, InFunction
<1>2. FreedAsPut'
  <2> SUFFICES ASSUME Matching(prog), NEW c \in Callbacks
               PROVE  (/\ place[c] = "owner" => (Owns(dropper[c]) <=> Owns(shape[c]))
                       /\ place[c] = "freed" /\ Owns(shape[c]) => closure[c] # "alive"
                       /\ closure[c] = "caller" => ~Owns(shape[c])
                       /\ closure[c] \notin {"stolen", "twice"})'
    BY DEF FreedAsPut
  <2>1. CASE place[c] \in {"frame", "held"}
    <3>1. closure[c] = "alive"
      BY <2>1, MatchFacts DEF Closed, ClosureKept, InFunction
    <3>2. closure'[c] = IF Owns(shape[c]) THEN "dropped" ELSE "alive"
      BY <2>1, <3>1, DropFacts
    <3> QED BY <2>1, <3>2
  <2>2. CASE place[c] \notin {"frame", "held"}
    BY <2>2 DEF Closed, FreedAsPut
  <2> QED BY <2>1, <2>2
<1> QED BY <1>1, <1>2 DEF Closed

LEMMA ClosedStep ==
  ASSUME TypeOK, AtStep, Cells, Closed, [Next]_vars
  PROVE  Closed'
<1> USE DEF TypeOK
<1>1. prog' = prog /\ pc \in DOMAIN prog
  BY SameProgram DEF AtStep
<1> USE <1>1
<1>2. CASE Put
  <2>1. /\ prog[pc].cb \in Callbacks
        /\ place' = [place EXCEPT ![prog[pc].cb] = prog[pc].op]
        /\ shape' = [shape EXCEPT ![prog[pc].cb] = prog[pc].as]
        /\ prog[pc].op \in Puts
        /\ phase = "running" /\ UNCHANGED <<phase, closure, dropper>>
    BY <1>2, StepFacts DEF Put, Next1, cb, kind
  <2>2. place[prog[pc].cb] = "none"
    <3>1. \A j \in DOMAIN prog :
            prog[j].op \in Puts /\ prog[j].cb = prog[pc].cb => j = pc
      BY <2>1, ProgramFacts DEF WellFormed, PutsOnce
    <3> QED BY <2>1, <3>1 DEF Cells, PutByStep, Made
  <2>3. closure[prog[pc].cb] = "alive"
    BY <2>1, <2>2 DEF Closed, ClosureKept
  <2>4. ClosureKept'
    BY <2>1, <2>3 DEF Closed, ClosureKept
  <2>5. FreedAsPut'
    BY <2>1, <2>3 DEF Closed, FreedAsPut, Puts
  <2> QED BY <2>4, <2>5 DEF Closed
<1>3. ASSUME phase = "running", Next1, UNCHANGED <<place, shape, closure, dropper>>
      PROVE  Closed'
  BY <1>3, ClosedQuiet DEF Next1, InFunction
<1>4. CASE Convert
  BY <1>3, <1>4, ClosedReturn DEF Convert, At, cells, InFunction
<1>5. CASE EnterC
  BY <1>5, ClosedQuiet DEF EnterC, At, cells, InFunction
<1>6. CASE CheckError
  BY <1>3, <1>6, ClosedReturn DEF CheckError, At, cells, InFunction
<1>7. CASE ReturnStashed
  BY <1>3, <1>7, ClosedReturn DEF ReturnStashed, At, cells, InFunction
<1>8. CASE FreeBox
  <2>1. CASE prog[pc].op = "free" \/ error = "held"
    <3> DEFINE c == prog[pc].cb
    <3>1. /\ prog[pc].op \in Frees /\ c \in Callbacks
          /\ place[c] = "box"
          /\ place' = [place EXCEPT ![c] = "freed"]
          /\ closure' = [closure EXCEPT ![c] = Dropped(c, prog[pc].as)]
          /\ phase = "running" /\ UNCHANGED <<phase, shape, dropper>>
      BY <1>8, <2>1, StepFacts DEF FreeBox, Next1, cb, kind, Frees
    <3>2. Matching(prog) =>
            /\ closure[c] = "alive"
            /\ closure'[c] = IF Owns(shape[c]) THEN "dropped" ELSE "alive"
      BY <3>1, MatchFacts, DropFacts DEF Closed, ClosureKept
    <3>3. ClosureKept'
      BY <3>1 DEF Closed, ClosureKept
    <3>4. FreedAsPut'
      BY <3>1, <3>2 DEF Closed, FreedAsPut
    <3> QED BY <3>3, <3>4 DEF Closed
  <2>2. CASE ~(prog[pc].op = "free" \/ error = "held")
    BY <1>3, <1>8, <2>2 DEF FreeBox, cells
  <2> QED BY <2>1, <2>2
<1>9. CASE HandToObject
  <2> DEFINE c == prog[pc].cb
  <2>1. /\ prog[pc].op \in Frees /\ c \in Callbacks
        /\ place[c] \in {"box", "held"}
        /\ place' = [place EXCEPT ![c] = "owner"]
        /\ dropper' = [dropper EXCEPT ![c] = prog[pc].as]
        /\ phase = "running" /\ UNCHANGED <<phase, shape, closure>>
    BY <1>9, StepFacts DEF HandToObject, At, Next1, cb, kind, Frees
  <2>2. Matching(prog) => (Owns(shape[c]) <=> Owns(dropper'[c]))
    BY <2>1, MatchFacts
  <2>3. ClosureKept'
    BY <2>1 DEF Closed, ClosureKept
  <2>4. FreedAsPut'
    BY <2>1, <2>2 DEF Closed, FreedAsPut
  <2> QED BY <2>3, <2>4 DEF Closed
<1>10. CASE ReturnOk
  BY <1>10, ClosedReturn DEF ReturnOk, At, InFunction
<1>11. CASE LeaveC
  BY <1>11, ClosedQuiet DEF LeaveC, cells, InFunction
<1>12. CASE DropObject
  <2>1. /\ phase = "object" /\ phase' = "done" /\ UNCHANGED <<shape, dropper>>
        /\ \A c \in Callbacks :
             IF place[c] = "owner"
               THEN place'[c] = "freed" /\ closure'[c] = Dropped(c, dropper[c])
               ELSE place'[c] = place[c] /\ closure'[c] = closure[c]
    BY <1>12 DEF DropObject
  <2>2. ASSUME Matching(prog), NEW c \in Callbacks
        PROVE  (/\ place[c] = "owner" => (Owns(dropper[c]) <=> Owns(shape[c]))
                /\ place[c] = "freed" /\ Owns(shape[c]) => closure[c] # "alive"
                /\ closure[c] = "caller" => ~Owns(shape[c])
                /\ closure[c] \notin {"stolen", "twice"})'
    <3>1. CASE place[c] = "owner"
      <4>1. Owns(dropper[c]) <=> Owns(shape[c])
        BY <2>2, <3>1 DEF Closed, FreedAsPut
      <4>2. Owns(shape[c]) => closure[c] = "alive"
        BY <2>1, <2>2, <3>1, MatchFacts DEF Closed, ClosureKept
      <4>3. closure'[c] = IF Owns(shape[c]) THEN "dropped" ELSE closure[c]
        BY <2>1, <3>1, <4>1, <4>2, DropFacts
      <4> QED BY <2>1, <2>2, <3>1, <4>3 DEF Closed, FreedAsPut
    <3>2. CASE place[c] # "owner"
      BY <2>1, <2>2, <3>2 DEF Closed, FreedAsPut
    <3> QED BY <3>1, <3>2
  <2> QED BY <2>1, <2>2 DEF Closed, ClosureKept, FreedAsPut
<1>13. ASSUME NEW c \in Callbacks, CallBack(c) PROVE Closed'
  <2>1. /\ phase = "calling" /\ place[c] # "none"
        /\ UNCHANGED <<phase, place, shape, dropper>>
        /\ closure' = [closure EXCEPT ![c] = IF shape[c] = "once" THEN "dropped" ELSE @]
    BY <1>13 DEF CallBack, cells, Given
  <2>2. ClosureKept'
    BY <2>1 DEF Closed, ClosureKept
  <2>3. FreedAsPut'
    BY <2>1 DEF Closed, FreedAsPut
  <2> QED BY <2>2, <2>3 DEF Closed
<1>14. ASSUME NEW c \in Callbacks, CallerDrops(c) PROVE Closed'
  <2>1. /\ phase = "object" /\ prog[pc].as = "untied" /\ ~Owns(shape[c])
        /\ UNCHANGED <<pc, phase, place, shape, dropper>>
        /\ closure[c] = "alive"
        /\ closure' = [closure EXCEPT ![c] = "caller"]
    BY <1>14 DEF CallerDrops, cells
  <2>2. ClosureKept'
    BY <2>1 DEF Closed, ClosureKept
  <2>3. FreedAsPut'
    BY <2>1 DEF Closed, FreedAsPut
  <2> QED BY <2>2, <2>3 DEF Closed
<1>15. CASE UNCHANGED vars
  BY <1>15 DEF vars, Closed, ClosureKept, FreedAsPut
<1>16. ASSUME NEW c \in Callbacks, MakeInner(c) PROVE Closed'
  <2>1. /\ place[c] = "inner" /\ UNCHANGED <<pc, phase, shape, dropper>>
        /\ place' = [place EXCEPT ![c] = "made"]
        /\ closure' = [closure EXCEPT ![c] = "alive"]
    BY <1>16 DEF MakeInner
  <2>2. ClosureKept'
    BY <2>1 DEF Closed, ClosureKept
  <2>3. FreedAsPut'
    BY <2>1 DEF Closed, FreedAsPut
  <2> QED BY <2>2, <2>3 DEF Closed
<1>17. ASSUME NEW c \in Callbacks, LastCall(c) PROVE Closed'
  <2>1. /\ phase = "calling" /\ place[c] = "made" /\ Owns(shape[c])
        /\ UNCHANGED <<pc, phase, shape, dropper>>
        /\ place' = [place EXCEPT ![c] = "inner"]
        /\ closure' = [closure EXCEPT ![c] = Dropped(c, shape[c])]
    BY <1>17 DEF LastCall
  <2>2. Matching(prog) => closure'[c] = "dropped"
    BY <2>1, MatchFacts, DropFacts DEF Closed, ClosureKept
  <2>3. ClosureKept'
    BY <2>1 DEF Closed, ClosureKept
  <2>4. FreedAsPut'
    BY <2>1, <2>2 DEF Closed, FreedAsPut
  <2> QED BY <2>3, <2>4 DEF Closed
<1> QED
  BY <1>2, <1>4, <1>5, <1>6, <1>7, <1>8, <1>9, <1>10, <1>11, <1>12, <1>13, <1>14, <1>15,
     <1>16, <1>17
  DEF Next, Finished

-----------------------------------------------------------------------------
(***************************************************************************)
(* Objects, and the boxes that are left when a function has returned.      *)
(***************************************************************************)
\* Whoever returns an object has all of it.
LEMMA KeepsStep ==
  ASSUME TypeOK, AtStep, Cells, ErrorPending, ObjectKeeps, [Next]_vars
  PROVE  ObjectKeeps'
<1>1. prog' = prog /\ pc \in DOMAIN prog
  BY SameProgram DEF AtStep
<1> USE <1>1
<1>2. CASE At("object") /\ Return("ok", "object") /\ UNCHANGED error
  <2>1. phase = "running" /\ prog[pc].op = "object" /\ pc' = pc /\ pc = Len(prog)
    BY <1>2, CallFacts DEF At, Return, Ends
  <2> SUFFICES ASSUME Lasting(prog), NEW c \in Callbacks, place'[c] \notin {"none", "inner"}
               PROVE  /\ place'[c] \in {"box", "owner"}
                      /\ prog[pc] = Tied \/ Owns(shape'[c])
    BY <2>1 DEF ObjectKeeps, Given
  <2>2. place[c] # "none" /\ shape' = shape
    BY <1>2, ReturnFacts
  <2>3. PICK j \in DOMAIN prog :
          /\ prog[j].op \in Puts /\ prog[j].cb = c /\ prog[j].as = shape[c]
          /\ place[c] \in Puts => place[c] = prog[j].op
          /\ place[c] = "made" => prog[j].op = "inner"
    BY <2>2 DEF Cells, PutByStep
  <2>4. /\ prog[j].op \in {"held", "box"}
        /\ prog[j].op = "held" =>
             \E k \in DOMAIN prog : prog[k].op = "own" /\ prog[k].cb = c
        /\ Owns(shape[c]) \/ prog[pc] = Tied
    BY <2>1, <2>3 DEF Lasting
  <2>5. \A k \in DOMAIN prog : prog[k].op # "object" => Made(k)
    BY <2>1, CallFacts, ProgramFacts DEF Made, Ends
  <2>6. place[c] # "held"
    BY <2>3, <2>4, <2>5 DEF Cells, FreedByStep, Puts
  <2>7. place[c] # "freed"
    <3> SUFFICES ASSUME place[c] = "freed" PROVE FALSE
      OBVIOUS
    <3>1. PICK k \in DOMAIN prog : Made(k) /\ Ended(k) /\ prog[k].op # "own"
      BY <2>1 DEF Cells, FreedByStep, InFunction
    <3>2. prog[k].op = "freeIfErr" /\ error # "none"
      BY <2>1, <3>1 DEF Ended, Lasting
    <3>3. error = "held"
      BY <2>1, <3>2 DEF TypeOK, AtStep, InFunction
    <3>4. /\ \E i \in k + 1 .. Len(prog) : prog[i].op = "check"
          /\ \E i \in 1 .. k - 1 : prog[i].op = "call"
      BY <3>2, ProgramFacts DEF WellFormed, FreesOnce
    <3>5. PICK m, i \in DOMAIN prog : m < i /\ prog[m].op = "call" /\ prog[i].op = "check"
      BY <3>4, ProgramFacts
    <3> QED BY <2>1, <2>5, <3>3, <3>5 DEF ErrorPending
  <2>8. place[c] \in {"box", "owner"}
    BY <2>2, <2>3, <2>4, <2>6, <2>7 DEF TypeOK, Places, Puts
  <2> QED BY <1>2, <2>2, <2>4, <2>8, ReturnFacts
<1>3. CASE phase' # "object"
  BY <1>3 DEF ObjectKeeps
<1>4. CASE phase = "object" /\ phase' = "object"
  <2>1. ASSUME NEW c \in Callbacks, MakeInner(c) PROVE ~Lasting(prog)
    <3>1. PICK j \in DOMAIN prog : prog[j].op = "inner"
      BY <2>1 DEF MakeInner, Cells, PutByStep, Puts
    <3>2. prog[pc].op = "object" /\ pc = Len(prog)
      BY <1>4, CallFacts DEF AtStep, Ends
    <3> QED BY <3>1, <3>2 DEF Lasting, Puts
  <2>2. CASE \E c \in Callbacks : MakeInner(c)
    BY <2>1, <2>2 DEF ObjectKeeps
  <2>3. CASE ~ \E c \in Callbacks : MakeInner(c)
    BY <1>4, <2>3 DEF ObjectKeeps, Given, Next, vars, Put, Convert, EnterC, CheckError,
       ReturnStashed, FreeBox, HandToObject, ReturnOk, LeaveC, DropObject, CallBack,
       LastCall, CallerDrops, Finished, At, cells
  <2> QED BY <2>2, <2>3
<1> QED
  BY <1>2, <1>3, <1>4
  DEF Next, vars, Put, Convert, EnterC, CheckError, ReturnStashed, FreeBox, HandToObject,
      ReturnOk, LeaveC, DropObject, CallBack, MakeInner, LastCall, CallerDrops,
      Finished, At, Next1, Return

LEMMA BoxesReturn ==
  ASSUME TypeOK, AtStep, Cells, prog' = prog, phase = "running",
         NEW r \in {"ok", "err"}, NEW p \in {"object", "done"}, Return(r, p),
         prog[pc].op \in Exits,
         prog[pc].op = "check" => error = "held",
         p = "done" => prog[pc].op # "object"
  PROVE  NoBoxLeft'
<1> SUFFICES ASSUME Balanced(prog), NEW c \in Callbacks
             PROVE  place'[c] # "box" /\ (p = "done" => place'[c] # "owner")
  BY ReturnFacts DEF NoBoxLeft
<1>1. pc \in DOMAIN prog /\ DOMAIN prog = 1 .. Len(prog) /\ Len(prog) \in Nat
  BY ProgramFacts DEF AtStep
<1>2. place'[c] \in {place[c], "freed"}
  BY ReturnFacts
<1>3. place[c] # "box"
  <2> SUFFICES ASSUME place[c] = "box" PROVE FALSE
    OBVIOUS
  <2>1. PICK j \in DOMAIN prog : Made(j) /\ prog[j].op = "box" /\ prog[j].cb = c
    BY DEF Cells, PutByStep, Puts
  <2>2. PICK k \in 1 .. pc - 1 :
          prog[k].op \in Frees /\ prog[k].cb = c /\ EndsAt(prog, k, pc)
    BY <1>1, <2>1 DEF Balanced, Made
  <2>3. k \in DOMAIN prog /\ Made(k)
    BY <1>1, <2>2 DEF Made
  <2>4. Ended(k)
    BY <2>2 DEF EndsAt, Ended
  <2> QED BY <2>2, <2>3, <2>4 DEF Cells, FreedByStep
<1>4. p = "done" => place[c] # "owner"
  <2> SUFFICES ASSUME p = "done", place[c] = "owner" PROVE FALSE
    OBVIOUS
  <2>1. PICK k \in DOMAIN prog : Made(k) /\ prog[k].op = "own"
    BY DEF Cells, FreedByStep, InFunction
  <2>2. prog[pc].op \in {"own", "object"}
    BY <1>1, <2>1, ProgramFacts DEF WellFormed, FreesOnce, Made
  <2> QED BY <2>2 DEF Exits, Ends
<1> QED BY <1>2, <1>3, <1>4

LEMMA BoxesStep ==
  ASSUME TypeOK, AtStep, Cells, NoBoxLeft, [Next]_vars
  PROVE  NoBoxLeft'
<1>1. prog' = prog
  BY SameProgram
<1>2. CASE InFunction'
  BY <1>1, <1>2 DEF NoBoxLeft, InFunction
<1>3. CASE Convert /\ ~InFunction'
  BY <1>1, <1>3, BoxesReturn DEF Convert, At, Next1, InFunction, Exits
<1>4. CASE CheckError /\ ~InFunction'
  BY <1>1, <1>4, BoxesReturn DEF CheckError, At, Next1, InFunction, Exits
<1>5. CASE ReturnStashed /\ ~InFunction'
  BY <1>1, <1>5, BoxesReturn DEF ReturnStashed, At, Next1, InFunction, Exits
<1>6. CASE ReturnOk
  BY <1>1, <1>6, BoxesReturn DEF ReturnOk, At, Exits, Ends
<1>7. CASE DropObject
  BY <1>1, <1>7 DEF DropObject, NoBoxLeft, InFunction
<1>8. CASE UNCHANGED <<phase, place>>
  BY <1>1, <1>8 DEF NoBoxLeft, InFunction
<1>9. ASSUME NEW c \in Callbacks, MakeInner(c) PROVE NoBoxLeft'
  BY <1>1, <1>9 DEF MakeInner, NoBoxLeft, InFunction, TypeOK
<1> QED
  BY <1>2, <1>3, <1>4, <1>5, <1>6, <1>7, <1>8, <1>9
  DEF Next, vars, Put, EnterC, FreeBox, HandToObject, LeaveC, CallBack, LastCall,
      CallerDrops, Finished, At, Next1, InFunction, cells

-----------------------------------------------------------------------------
(***************************************************************************)
(* The theorems.                                                           *)
(***************************************************************************)
SiteInv ==
  /\ TypeOK /\ AtStep /\ Cells /\ Closed
  /\ ErrorPending /\ ObjectKeeps /\ NoBoxLeft /\ ErrorsReturned

LEMMA Invariance == Spec => []SiteInv
<1>1. Init => SiteInv
  <2> SUFFICES ASSUME Init PROVE SiteInv
    OBVIOUS
  <2>1. ObjectKeeps /\ NoBoxLeft /\ ErrorsReturned
    BY DEF Init, ObjectKeeps, NoBoxLeft, ErrorsReturned, InFunction
  <2> QED BY <2>1, TypeInit, CellsInit, ClosedInit, ErrorsInit DEF SiteInv
<1>2. SiteInv /\ [Next]_vars => SiteInv'
  BY TypeStep, CellsStep, ClosedStep, ErrorsStep, KeepsStep, BoxesStep, ReturnedStep
  DEF SiteInv
<1> QED BY <1>1, <1>2, PTL DEF Spec

\* What C reads through the batons of a function that keeps to Fitting and Lasting is
\* there, and leads to closures that are alive, during the call and for as long as
\* the object that was returned.
THEOREM CallsCorrect == Spec => []CallsDefined
<1>1. SiteInv => CallsDefined
  <2> SUFFICES ASSUME SiteInv, Fitting(prog), Lasting(prog),
                      phase \in {"calling", "object"},
                      NEW c \in Callbacks, place[c] \notin {"none", "inner"}
               PROVE  /\ Fits(shape[c])
                      /\ phase = "calling" =>
                           place[c] \in {"frame", "bare", "held", "box", "made"}
                      /\ phase = "object" => place[c] \in {"box", "owner"}
                      /\ closure[c] = "alive" \/ shape[c] = "once"
    BY DEF CallsDefined, Given
  <2> USE DEF SiteInv
  <2>1. PICK j \in DOMAIN prog :
          /\ prog[j].op \in Puts /\ prog[j].as = shape[c]
          /\ place[c] \in Puts => place[c] = prog[j].op
    BY DEF Cells, PutByStep
  <2>2. Fits(shape[c]) /\ prog[j].op # "block"
    BY <2>1 DEF Fitting
  <2>3. CASE phase = "calling"
    <3>1. pc \in DOMAIN prog /\ prog[pc].op = "call"
      BY <2>3 DEF AtStep
    <3>2. \A k \in DOMAIN prog : Made(k) => ~Ended(k)
      BY <3>1, FreeFacts, ProgramFacts DEF Made, Ended, Frees
    <3>3. place[c] \notin {"owner", "freed"}
      BY <2>3, <3>2 DEF Cells, FreedByStep, InFunction
    <3>4. place[c] \in {"frame", "bare", "held", "box", "made"}
      BY <2>1, <2>2, <3>3 DEF TypeOK, Places, Puts
    <3> QED BY <2>2, <2>3, <3>3, <3>4 DEF Closed, ClosureKept
  <2>4. CASE phase = "object"
    <3>1. place[c] \in {"box", "owner"} /\ (prog[pc] = Tied \/ Owns(shape[c]))
      BY <2>4 DEF ObjectKeeps, Given
    <3>2. prog[pc] = Tied => prog[pc].as # "untied"
      BY OpFacts
    <3> QED BY <2>2, <2>4, <3>1, <3>2 DEF Closed, ClosureKept
  <2> QED BY <2>3, <2>4
<1> QED BY <1>1, Invariance, PTL

\* A function that keeps to Balanced and Matching, and the object it returns, leave
\* no box and no closure behind, on no way out.
THEOREM NothingLeaks == Spec => []LeakFree
<1>1. SiteInv => LeakFree
  <2> SUFFICES ASSUME SiteInv, Balanced(prog), Matching(prog), phase = "done",
                      NEW c \in Callbacks, place[c] \notin {"none", "inner"}
               PROVE  /\ place[c] \notin {"held", "box", "made", "owner"}
                      /\ Owns(shape[c]) => closure[c] # "alive"
    BY DEF LeakFree, Given
  <2> USE DEF SiteInv
  <2>1. place[c] \notin {"frame", "held", "box", "made", "owner"}
    BY DEF Cells, FrameGone, NoBoxLeft, InFunction, PutByStep, Balanced
  <2>2. CASE place[c] = "freed"
    BY <2>2 DEF Closed, FreedAsPut
  <2>3. CASE place[c] \in {"bare", "block"}
    <3>1. PICK j \in DOMAIN prog : prog[j].op = place[c] /\ prog[j].as = shape[c]
      BY <2>3 DEF Cells, PutByStep, Puts
    <3> QED BY <2>3, <3>1, ProgramFacts DEF WellFormed, PutsOnce
  <2> QED BY <2>1, <2>2, <2>3 DEF TypeOK, Places
<1> QED BY <1>1, Invariance, PTL

\* A function that keeps to Matching drops no closure it was lent, and none twice.
THEOREM DropsCorrect == Spec => []ClosuresDroppedOnce
<1>1. SiteInv => ClosuresDroppedOnce
  BY DEF SiteInv, Closed, FreedAsPut, ClosuresDroppedOnce
<1> QED BY <1>1, Invariance, PTL

\* A function that keeps to Adopting tells its caller of every error of C and of the
\* callbacks, and leaves no svn_error_t to nobody.
THEOREM ErrorsCorrect == Spec => []ErrorsReturned
<1>1. SiteInv => ErrorsReturned
  BY DEF SiteInv
<1> QED BY <1>1, Invariance, PTL

-----------------------------------------------------------------------------
(***************************************************************************)
(* No step of a function waits for something that will not come.           *)
(***************************************************************************)
\* What a step has put is somewhere, if only among what was freed.
PutStays ==
  \A k \in DOMAIN prog : Made(k) /\ prog[k].op \in Puts => place[prog[k].cb] # "none"

\* A Box::from_raw finds the box, and a dropper what it is handed; and C may return.
StepsFindTheirCells ==
  /\ phase = "running" =>
       /\ prog[pc].op = "free" \/ (prog[pc].op = "freeIfErr" /\ error = "held")
            => place[cb] = "box"
       /\ prog[pc].op = "own" => place[cb] \in {"box", "held"}
       /\ prog[pc].op \notin Ends => pc + 1 \in DOMAIN prog
  /\ phase = "calling" => prog[pc] = Call \/ ~failed

LEMMA StaysStep ==
  ASSUME TypeOK, AtStep, PutStays, [Next]_vars
  PROVE  PutStays'
<1>1. /\ prog' = prog /\ pc \in DOMAIN prog /\ pc \in Nat
      /\ \A k \in DOMAIN prog : k \in Nat
  BY SameProgram, ProgramFacts DEF AtStep
<1>2. \A k \in DOMAIN prog : prog[k].op \in Puts => prog[k].cb \in Callbacks
  BY StepFacts
<1>3. CASE Put
  <2>1. /\ place' = [place EXCEPT ![prog[pc].cb] = prog[pc].op]
        /\ prog[pc].op \in Puts /\ prog[pc].op # "none" /\ pc' = pc + 1
    BY <1>3 DEF Put, Next1, cb, Puts
  <2>2. \A k \in DOMAIN prog : Made(k)' => Made(k) \/ k = pc
    BY <1>1, <2>1 DEF Made
  <2> QED BY <1>1, <1>2, <2>1, <2>2 DEF PutStays, TypeOK
<1>4. CASE ~Put
  <2>1. \A c \in Callbacks : place[c] # "none" => place'[c] # "none"
    BY <1>4 DEF Next, vars, Convert, EnterC, CheckError, ReturnStashed, FreeBox,
       HandToObject, ReturnOk, LeaveC, DropObject, CallBack, MakeInner, LastCall,
       CallerDrops, Finished, Next1, Return, cells, TypeOK
  <2>2. pc' = pc \/ (pc' = pc + 1 /\ prog[pc].op \notin Puts)
    BY <1>4 DEF Next, vars, Convert, EnterC, CheckError, ReturnStashed, FreeBox,
       HandToObject, ReturnOk, LeaveC, DropObject, CallBack, MakeInner, LastCall,
       CallerDrops, Finished, Next1, Return, At, Puts, AtStep
  <2>3. \A k \in DOMAIN prog : Made(k)' /\ prog[k].op \in Puts => Made(k)
    BY <1>1, <2>2 DEF Made
  <2> QED BY <1>1, <1>2, <2>1, <2>3 DEF PutStays
<1> QED BY <1>3, <1>4

\* The box that a step frees, or hands to the object, has not been freed before: an
\* earlier FreeIfErr of it found no error, since with one the function has returned.
LEMMA BoxFound ==
  ASSUME SiteInv, PutStays, phase = "running", prog[pc].op \in Frees
  PROVE  /\ place[cb] \in {"box", "held"}
         /\ prog[pc].op # "own" => place[cb] = "box"
<1> USE DEF SiteInv
<1>1. /\ pc \in DOMAIN prog /\ cb \in Callbacks
      /\ DOMAIN prog = 1 .. Len(prog) /\ Len(prog) \in Nat
  BY StepFacts, ProgramFacts DEF AtStep, cb
<1>2. PICK i \in 1 .. pc - 1 :
        /\ prog[i].op = "box" \/ (prog[i].op = "held" /\ prog[pc].op = "own")
        /\ prog[i].cb = cb
  BY <1>1, ProgramFacts DEF WellFormed, FreesOnce, cb
<1>3. i \in DOMAIN prog /\ Made(i) /\ prog[i].op \in Puts
  BY <1>1, <1>2 DEF Made, Puts
<1>4. place[cb] # "none"
  BY <1>2, <1>3 DEF PutStays
<1>5. /\ place[cb] \in Puts => place[cb] = prog[i].op
      /\ place[cb] = "made" => prog[i].op = "inner"
  <2>1. PICK j \in DOMAIN prog :
          /\ prog[j].op \in Puts /\ prog[j].cb = cb
          /\ place[cb] \in Puts => place[cb] = prog[j].op
          /\ place[cb] = "made" => prog[j].op = "inner"
    BY <1>1, <1>4 DEF Cells, PutByStep
  <2>2. i = j
    BY <1>2, <1>3, <2>1, ProgramFacts DEF WellFormed, PutsOnce
  <2> QED BY <2>1, <2>2
<1>6. place[cb] \notin {"owner", "freed"}
  <2> SUFFICES ASSUME place[cb] \in {"owner", "freed"} PROVE FALSE
    OBVIOUS
  <2>1. PICK k \in DOMAIN prog : Made(k) /\ Ended(k) /\ prog[k].cb = cb
    BY <1>1 DEF Cells, FreedByStep, InFunction
  <2>2. k \in 1 .. pc - 1 /\ prog[k].op \in Frees
    BY <1>1, <2>1 DEF Made, Ended, Frees
  <2>3. /\ prog[k].op = "freeIfErr"
        /\ \E n \in k + 1 .. pc - 1 : prog[n].op = "check"
    BY <1>1, <2>1, <2>2, ProgramFacts DEF WellFormed, FreesOnce, cb
  <2>4. PICK n \in k + 1 .. pc - 1 : prog[n].op = "check"
    BY <2>3
  <2>5. PICK m \in 1 .. k - 1 : prog[m].op = "call"
    BY <2>1, <2>3, ProgramFacts DEF WellFormed, FreesOnce
  <2>6. n \in DOMAIN prog /\ Made(n) /\ m \in DOMAIN prog /\ m < n
    BY <1>1, <2>2, <2>4, <2>5 DEF Made
  <2>7. error # "held"
    BY <2>4, <2>5, <2>6 DEF ErrorPending
  <2>8. error # "adopted"
    BY DEF AtStep, InFunction
  <2> QED BY <2>1, <2>3, <2>7, <2>8 DEF Ended, TypeOK
<1> QED BY <1>1, <1>2, <1>4, <1>5, <1>6 DEF TypeOK, Places, Puts

\* No function frees a box twice, or one that is not there, whatever C returns, and
\* none gives the object a box that it has freed; each has a next step until it
\* returns; and an error of a callback meets a C function that can return one.
THEOREM CellsFound == Spec => []StepsFindTheirCells
<1>1. Init => PutStays
  <2> SUFFICES ASSUME Init PROVE PutStays
    OBVIOUS
  <2> QED BY TypeInit, ProgramFacts DEF Init, PutStays, Made
<1>2. SiteInv /\ PutStays /\ [Next]_vars => PutStays'
  BY StaysStep DEF SiteInv
<1>3. SiteInv /\ PutStays => StepsFindTheirCells
  <2> SUFFICES ASSUME SiteInv, PutStays PROVE StepsFindTheirCells
    OBVIOUS
  <2>1. phase = "running" /\ prog[pc].op \in {"free", "freeIfErr"} => place[cb] = "box"
    BY BoxFound DEF Frees
  <2>2. phase = "running" /\ prog[pc].op = "own" => place[cb] \in {"box", "held"}
    BY BoxFound DEF Frees
  <2>3. prog[pc].op \notin Ends => pc + 1 \in DOMAIN prog
    BY NextStep DEF SiteInv
  <2>4. phase = "calling" => prog[pc] = Call \/ ~failed
    BY DEF SiteInv, ErrorPending
  <2> QED BY <2>1, <2>2, <2>3, <2>4 DEF StepsFindTheirCells
<1> QED BY <1>1, <1>2, <1>3, Invariance, PTL DEF Spec

-----------------------------------------------------------------------------
(***************************************************************************)
(* The end of a function.                                                  *)
(***************************************************************************)
\* The steps that a function, and the object it returns, have left at most; what C
\* does between its call and its return is one.
Left ==
  CASE phase = "running" -> 2 * (Len(prog) - pc) + 3
    [] phase = "calling" -> 2 * (Len(prog) - pc) + 2
    [] phase = "object"  -> 1
    [] phase = "done"    -> 0

LeftBounded == Left \in 0 .. 2 * Len(prog) + 1

\* Every step is one fewer, but for those of the callbacks that C calls and of a caller
\* that lets go of its closures.
LeftShrinks ==
  \/ Left' < Left
  \/ Left' = Left /\ phase' = phase /\ phase # "running"

LEMMA BoundedLeft == ASSUME TypeOK, AtStep PROVE LeftBounded
BY ProgramFacts DEF LeftBounded, Left, TypeOK, AtStep

LEMMA ShrinksStep ==
  ASSUME TypeOK, AtStep, Next
  PROVE  LeftShrinks
<1>1. /\ prog' = prog /\ Len(prog) \in Nat /\ pc \in 1 .. Len(prog)
  BY SameProgram, ProgramFacts DEF AtStep
<1>2. CASE /\ phase = "running"
           /\ \/ phase' = phase /\ pc' = pc + 1
              \/ pc' = pc /\ phase' \in {"calling", "object", "done"}
  BY <1>1, <1>2 DEF LeftShrinks, Left
<1>3. CASE phase = "calling" /\ phase' = "running" /\ pc' = pc + 1
  BY <1>1, <1>3 DEF LeftShrinks, Left
<1>4. CASE phase = "object" /\ phase' = "done"
  BY <1>4 DEF LeftShrinks, Left
<1>5. CASE phase \in {"calling", "object", "done"} /\ phase' = phase /\ pc' = pc
  BY <1>1, <1>5 DEF LeftShrinks, Left
<1>6. CASE Put \/ Convert \/ EnterC \/ CheckError \/ ReturnStashed
           \/ FreeBox \/ HandToObject \/ ReturnOk
  BY <1>2, <1>6 DEF Put, Convert, EnterC, CheckError, ReturnStashed, FreeBox,
                    HandToObject, ReturnOk, At, Next1, Return
<1>7. CASE LeaveC
  BY <1>3, <1>7 DEF LeaveC
<1>8. CASE DropObject
  BY <1>4, <1>8 DEF DropObject
<1>9. CASE Finished \/ \E c \in Callbacks : CallBack(c) \/ MakeInner(c) \/ LastCall(c) \/ CallerDrops(c)
  BY <1>5, <1>9 DEF Finished, CallBack, MakeInner, LastCall, CallerDrops, vars
<1> QED BY <1>6, <1>7, <1>8, <1>9 DEF Next

\* A function takes at most two steps for each of its program's, besides what C does
\* while it has the call: with CellsFound, it returns if C does, on every way out.
THEOREM FunctionsEnd == Spec => []LeftBounded /\ [][LeftShrinks]_vars
<1>1. SiteInv => LeftBounded
  BY BoundedLeft DEF SiteInv
<1>2. SiteInv /\ [Next]_vars => [LeftShrinks]_vars
  BY ShrinksStep DEF SiteInv
<1> QED BY <1>1, <1>2, Invariance, PTL DEF Spec

=============================================================================
