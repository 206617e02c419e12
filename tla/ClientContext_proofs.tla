------------------------ MODULE ClientContext_proofs ------------------------
(***************************************************************************)
(* Proofs about ClientContext: the invariants of the run hold for every     *)
(* number of cells and every set of programs, and no step frees a cell that *)
(* is not its owner's, or loses one.                                       *)
(***************************************************************************)
EXTENDS ClientContext, TLAPS

-----------------------------------------------------------------------------
(***************************************************************************)
(* CellsOwned, piece by piece.                                             *)
(***************************************************************************)
Used(c) == layout[c] # Unused /\ c \notin freed

\* No cell is in two places.
Single ==
  /\ \A s, t \in Settings : field[s] = field[t] /\ field[s] # Null => s = t
  /\ \A s \in Settings : field[s] \notin lent
  /\ frame \notin lent
  /\ \A s \in Settings : frame # Null => field[s] # frame

\* The table of a baton, whose names are there unless one was set again.
Table(l) == l \in {"auth", "named"} \/ (l = "stale" /\ "again" \in program)

\* What is in a place is there, and is what the place is for.
Kept ==
  /\ \A c \in freed : layout[c] # Unused
  /\ \A s \in Settings : field[s] # Null => Used(field[s])
  /\ \A c \in lent : Used(c) /\ Table(layout[c])
  /\ frame # Null => Used(frame) /\ layout[frame] = "reference"
  /\ field["conflict"] # Null => layout[field["conflict"]] = "resolver"
  /\ field["cancel"] # Null =>
       \/ layout[field["cancel"]] = "boxed"
       \/ layout[field["cancel"]] = "closure" /\ "plain" \in program
  /\ field["auth"] # Null => Table(layout[field["auth"]])
  /\ field["config"] # Null => layout[field["config"]] = "config"

\* What is in no place was left by a commit that panicked.
Accounted ==
  \A c \in Cells :
    Used(c) =>
      \/ \E s \in Settings : field[s] = c
      \/ c \in lent
      \/ c = frame
      \/ layout[c] = "reference" /\ (pc = "dropped" \/ "catch" \in program)

\* A slot points to what has an owner.
Slotted ==
  /\ \A s \in {"conflict", "cancel", "config"} : slot[s] # Null => slot[s] = field[s]
  /\ slot["auth"] # Null =>
       \/ slot["auth"] = field["auth"]
       \/ slot["auth"] \in lent
       \/ "outlive" \in program
  /\ pc = "dropped" => slot["auth"] = Null
  /\ "catch" \notin program => slot["log_msg"] = frame /\ saved = Null

Inductive == TypeOK /\ Single /\ Kept /\ Accounted /\ Slotted

\* The pieces are all of CellsOwned.
LEMMA PiecesOwned ==
  ASSUME TypeOK, Single, Kept, Accounted
  PROVE  CellsOwned
<1> SUFFICES ASSUME NEW c \in Cells
             PROVE  /\ \A o, p \in Owners(c) : o = p
                    /\ Owners(c) # {} => layout[c] # Unused /\ c \notin freed
                    /\ layout[c] # Unused /\ c \notin freed /\ Owners(c) = {} =>
                         layout[c] = "reference"
                           /\ (pc = "dropped" \/ "catch" \in program)
  BY DEF CellsOwned
<1>c. c # Null
  BY NullNew
<1>1. \A o, p \in Owners(c) : o = p
  BY <1>c DEF Single, Owners, Settings
<1>2. Owners(c) # {} => layout[c] # Unused /\ c \notin freed
  BY <1>c DEF Kept, Owners, Used
<1>3. layout[c] # Unused /\ c \notin freed /\ Owners(c) = {} =>
        layout[c] = "reference" /\ (pc = "dropped" \/ "catch" \in program)
  BY DEF Accounted, Owners, Used
<1>. QED
  BY <1>1, <1>2, <1>3

LEMMA SlotsFollow ==
  ASSUME TypeOK, Kept, Slotted
  PROVE  SlotsDefined /\ LogMessageRestored
<1>1. LogMessageRestored
  BY DEF TypeOK, Slotted, LogMessageRestored
<1>2. ASSUME pc = "calling", NEW s \in Slots
      PROVE  Readable(s) \/ \E l \in program : Spoils[l] = s
  <2>1. CASE s = "conflict"
    BY <2>1 DEF Readable, Slotted, Kept, Used, Expects,
         conflict_resolver_callback, cancel_trampoline, log_msg_trampoline, Settings
  <2>2. CASE s = "cancel"
    <3>1. CASE "plain" \in program
      BY <2>2, <3>1 DEF Spoils, Liberties
    <3>2. CASE "plain" \notin program
      BY <2>2, <3>2 DEF Readable, Slotted, Kept, Used, Expects,
         conflict_resolver_callback, cancel_trampoline, log_msg_trampoline, Settings
    <3>. QED
      BY <3>1, <3>2
  <2>3. CASE s = "auth"
    <3>1. CASE "outlive" \in program \/ "again" \in program
      BY <2>3, <3>1 DEF Spoils, Liberties
    <3>2. CASE "outlive" \notin program /\ "again" \notin program
      BY <2>3, <3>2 DEF Readable, Slotted, Kept, Used, Expects, Table,
         conflict_resolver_callback, cancel_trampoline, log_msg_trampoline, Settings
    <3>. QED
      BY <3>1, <3>2
  <2>4. CASE s = "config"
    BY <2>4 DEF Readable, Slotted, Kept, Used, Expects,
         conflict_resolver_callback, cancel_trampoline, log_msg_trampoline, Settings
  <2>5. CASE s = "log_msg"
    <3>1. CASE "catch" \in program
      BY <2>5, <3>1 DEF Spoils, Liberties
    <3>2. CASE "catch" \notin program
      BY <2>5, <3>2 DEF Readable, Slotted, Kept, Used, Expects,
         conflict_resolver_callback, cancel_trampoline, log_msg_trampoline
    <3>. QED
      BY <3>1, <3>2
  <2>. QED
    BY <2>1, <2>2, <2>3, <2>4, <2>5 DEF Slots, Settings
<1>. QED
  BY <1>1, <1>2 DEF SlotsDefined

-----------------------------------------------------------------------------
(***************************************************************************)
(* The invariant is inductive.                                             *)
(***************************************************************************)
LEMMA InitInductive == Init => Inductive
<1> SUFFICES ASSUME Init PROVE Inductive
  OBVIOUS
<1>0. PICK c \in Cells :
        /\ layout = [x \in Cells |-> IF x = c THEN "config" ELSE Unused]
        /\ slot = [s \in Slots |-> IF s = "config" THEN c ELSE Null]
        /\ field = [s \in Settings |-> IF s = "config" THEN c ELSE Null]
  BY DEF Init
<1> USE <1>0, NullNew DEF Init, Settings, Slots
<1>1. TypeOK
  BY DEF TypeOK, Layouts, Tables, Unused
<1>2. Single /\ Kept /\ Accounted /\ Slotted
  BY DEF Single, Kept, Accounted, Slotted, Used, Unused
<1>. QED
  BY <1>1, <1>2 DEF Inductive

\* A callback's setter.
LEMMA ReplaceInductive ==
  ASSUME Inductive, NEW s \in {"conflict", "cancel"}, NEW c \in Cells, NEW l \in Layouts,
         NEW unwinds \in BOOLEAN, Replace(s, c, l, unwinds),
         s = "conflict" => l = "resolver",
         s = "cancel" => l = "boxed" \/ (l = "closure" /\ "plain" \in program)
  PROVE  Inductive'
<1> USE NullNew DEF Inductive, Replace, Fresh, Fill, Free, Settings, Slots
<1>1. TypeOK'
  BY DEF TypeOK
<1>2. Single'
  BY DEF TypeOK, Single, Kept, Used
<1>3. Kept'
  BY DEF TypeOK, Single, Kept, Used, Layouts, Tables, Unused, Table
<1>4. Accounted'
  BY DEF TypeOK, Single, Kept, Accounted, Used
<1>5. Slotted'
  BY DEF TypeOK, Slotted
<1>. QED
  BY <1>1, <1>2, <1>3, <1>4, <1>5

LEMMA ClearInductive ==
  ASSUME Inductive, NEW s \in {"conflict", "cancel"}, Clear(s)
  PROVE  Inductive'
<1> USE NullNew DEF Inductive, Clear, Free, Settings, Slots
<1>1. TypeOK'
  BY DEF TypeOK
<1>2. Single'
  BY DEF TypeOK, Single
<1>3. Kept'
  BY DEF TypeOK, Single, Kept, Used, Table
<1>4. Accounted'
  BY DEF TypeOK, Accounted, Used
<1>5. Slotted'
  BY DEF TypeOK, Slotted
<1>. QED
  BY <1>1, <1>2, <1>3, <1>4, <1>5

LEMMA AuthInductive ==
  ASSUME Inductive, NEW c \in Cells,
         open_auth(c) \/ set(c) \/ drop_auth(c) \/ set_auth(c) \/ set_auth_owned(c)
  PROVE  Inductive'
<1> USE NullNew DEF Inductive, Fresh, Fill, Free, Settings, Slots
<1>1. CASE open_auth(c)
  <2> USE <1>1 DEF open_auth
  <2>1. TypeOK'
    BY DEF TypeOK, Layouts, Tables
  <2>2. Single'
    BY DEF TypeOK, Single, Kept, Used
  <2>3. Kept'
    BY DEF TypeOK, Single, Kept, Used, Unused, Table
  <2>4. Accounted'
    BY DEF TypeOK, Accounted, Used
  <2>5. Slotted'
    BY DEF TypeOK, Slotted
  <2>. QED
    BY <2>1, <2>2, <2>3, <2>4, <2>5
<1>2. CASE drop_auth(c)
  <2> USE <1>2 DEF drop_auth
  <2>1. TypeOK'
    BY DEF TypeOK
  <2>2. Single'
    BY DEF TypeOK, Single
  <2>3. Kept'
    BY DEF TypeOK, Single, Kept, Used, Table
  <2>4. Accounted'
    BY DEF TypeOK, Accounted, Used
  <2>5. Slotted'
    BY DEF TypeOK, Slotted
  <2>. QED
    BY <2>1, <2>2, <2>3, <2>4, <2>5
<1>3. CASE set_auth(c)
  <2> USE <1>3 DEF set_auth
  <2>1. TypeOK' /\ Slotted'
    BY DEF TypeOK, Slotted
  <2>2. Single' /\ Kept' /\ Accounted'
    BY DEF Single, Kept, Accounted, Used, Table
  <2>. QED
    BY <2>1, <2>2
<1>4. CASE set_auth_owned(c)
  <2> USE <1>4 DEF set_auth_owned
  <2>1. TypeOK'
    BY DEF TypeOK
  <2>2. Single'
    BY DEF TypeOK, Single
  <2>3. Kept'
    BY DEF TypeOK, Single, Kept, Used, Table
  <2>4. Accounted'
    BY DEF TypeOK, Accounted, Used
  <2>5. Slotted'
    BY DEF TypeOK, Slotted
  <2>. QED
    BY <2>1, <2>2, <2>3, <2>4, <2>5
<1>5. CASE set(c)
  <2> USE <1>5 DEF set
  <2>1. TypeOK' /\ Slotted'
    BY DEF TypeOK, Slotted, Layouts, Tables
  <2>2. Single'
    BY DEF Single
  <2>3. Kept'
    BY DEF TypeOK, Single, Kept, Used, Unused, Table
  <2>4. Accounted'
    BY DEF TypeOK, Kept, Accounted, Used, Unused
  <2>. QED
    BY <2>1, <2>2, <2>3, <2>4
<1>. QED
  BY <1>1, <1>2, <1>3, <1>4, <1>5

LEMMA ConfigInductive ==
  ASSUME Inductive, NEW c \in Cells, set_config(c)
  PROVE  Inductive'
<1> USE NullNew DEF Inductive, set_config, Fresh, Fill, Free, Settings, Slots
<1>1. TypeOK'
  BY DEF TypeOK, Layouts, Tables
<1>2. Single'
  BY DEF TypeOK, Single, Kept, Used
<1>3. Kept'
  BY DEF TypeOK, Single, Kept, Used, Unused, Table
<1>4. Accounted'
  BY DEF TypeOK, Single, Accounted, Used
<1>5. Slotted'
  BY DEF TypeOK, Slotted
<1>. QED
  BY <1>1, <1>2, <1>3, <1>4, <1>5

LEMMA CommitInductive ==
  ASSUME Inductive, NEW c \in Cells, commit(c)
  PROVE  Inductive'
<1> USE NullNew DEF Inductive, commit, Fresh, Fill, Settings, Slots
<1>1. TypeOK'
  BY DEF TypeOK, Layouts, Tables
<1>2. Single'
  BY DEF TypeOK, Single, Kept, Used
<1>3. Kept'
  BY DEF TypeOK, Single, Kept, Used, Unused, Table
<1>4. Accounted'
  BY DEF TypeOK, Accounted, Used
<1>5. Slotted'
  BY DEF TypeOK, Slotted
<1>. QED
  BY <1>1, <1>2, <1>3, <1>4, <1>5

\* The fields are dropped and the slots emptied with the context.
LEMMA DropInductive ==
  ASSUME Inductive, frame' = Null, saved' = Null, pc' = "dropped",
         Free({field[s] : s \in Settings}),
         field' = [s \in Settings |-> Null], slot' = [s \in Slots |-> Null],
         UNCHANGED <<program, layout, lent>>
  PROVE  Inductive'
<1> USE NullNew DEF Inductive, Free, Settings, Slots
<1>1. TypeOK'
  BY DEF TypeOK
<1>2. Single'
  BY DEF TypeOK, Single
<1>3. Kept'
  BY DEF TypeOK, Single, Kept, Used, Table
<1>4. Accounted'
  BY DEF TypeOK, Kept, Accounted, Used
<1>5. Slotted'
  BY DEF TypeOK, Slotted
<1>. QED
  BY <1>1, <1>2, <1>3, <1>4, <1>5

LEMMA ReturnInductive ==
  ASSUME Inductive,
         operation \/ operation_returns \/ commit_calls \/ commit_panics
           \/ commit_returns \/ drop
  PROVE  Inductive'
<1>1. CASE operation \/ operation_returns \/ commit_calls
  BY <1>1 DEF Inductive, Table, operation, operation_returns, commit_calls, TypeOK, Single,
     Kept, Accounted, Slotted, Used, memory
<1>2. CASE commit_panics
  <2>1. CASE "catch" \in program
    <3> USE <1>2, <2>1, NullNew DEF commit_panics, Inductive, Settings
    <3>1. TypeOK' /\ Single' /\ Kept' /\ Slotted'
      BY DEF TypeOK, Single, Kept, Slotted, Used, Table
    <3>2. Accounted'
      BY DEF TypeOK, Kept, Accounted, Used
    <3>. QED
      BY <3>1, <3>2
  <2>2. CASE "catch" \notin program
    BY <1>2, <2>2, DropInductive DEF commit_panics
  <2>. QED
    BY <2>1, <2>2
<1>3. CASE commit_returns
  <2> USE <1>3, NullNew DEF commit_returns, Inductive, Settings, Slots, Free
  <2>1. TypeOK'
    BY DEF TypeOK
  <2>2. Single'
    BY DEF TypeOK, Single
  <2>3. Kept'
    BY DEF TypeOK, Single, Kept, Used, Table
  <2>4. Accounted'
    BY DEF TypeOK, Accounted, Used
  <2>5. Slotted'
    BY DEF TypeOK, Slotted
  <2>. QED
    BY <2>1, <2>2, <2>3, <2>4, <2>5
<1>4. CASE drop
  <2>1. frame' = Null
    BY <1>4 DEF drop, Inductive, TypeOK
  <2>2. CASE saved = Null
    BY <1>4, <2>1, <2>2, DropInductive DEF drop
  <2>3. CASE saved # Null
    <3> USE <1>4, <2>1, <2>3, NullNew DEF drop, Inductive, Settings, Slots, Free
    <3>0. "catch" \in program
      BY DEF Slotted
    <3>1. TypeOK' /\ Single'
      BY DEF TypeOK, Single
    <3>2. Kept'
      BY DEF TypeOK, Single, Kept, Used, Table
    <3>3. Accounted'
      BY DEF TypeOK, Kept, Accounted, Used
    <3>4. Slotted'
      BY <3>0 DEF TypeOK, Slotted
    <3>. QED
      BY <3>1, <3>2, <3>3, <3>4
  <2>. QED
    BY <2>2, <2>3
<1>. QED
  BY <1>1, <1>2, <1>3, <1>4

LEMMA StepInductive == Inductive /\ [Next]_vars => Inductive'
<1> SUFFICES ASSUME Inductive, [Next]_vars
             PROVE  Inductive'
  OBVIOUS
<1>1. ASSUME NEW c \in Cells, NEW unwinds \in BOOLEAN, set_conflict_resolver(c, unwinds)
      PROVE  Inductive'
  BY <1>1, ReplaceInductive DEF set_conflict_resolver, Layouts, Tables
<1>2. ASSUME NEW c \in Cells, NEW l \in Layouts, NEW unwinds \in BOOLEAN,
             set_cancel_handler(c, l, unwinds)
      PROVE  Inductive'
  BY <1>2, ReplaceInductive DEF set_cancel_handler
<1>3. CASE clear_conflict_resolver \/ clear_cancel_handler
  BY <1>3, ClearInductive DEF clear_conflict_resolver, clear_cancel_handler
<1>4. ASSUME NEW c \in Cells,
             open_auth(c) \/ set(c) \/ drop_auth(c) \/ set_auth(c) \/ set_auth_owned(c)
      PROVE  Inductive'
  BY <1>4, AuthInductive
<1>5. ASSUME NEW c \in Cells, set_config(c)
      PROVE  Inductive'
  BY <1>5, ConfigInductive
<1>6. ASSUME NEW c \in Cells, commit(c)
      PROVE  Inductive'
  BY <1>6, CommitInductive
<1>7. CASE operation \/ operation_returns \/ commit_calls \/ commit_panics
             \/ commit_returns \/ drop
  BY <1>7, ReturnInductive
<1>8. CASE UNCHANGED vars
  BY <1>8 DEF vars, Inductive, TypeOK, Single, Kept, Accounted, Slotted, Used, Table
<1>. QED
  BY <1>1, <1>2, <1>3, <1>4, <1>5, <1>6, <1>7, <1>8 DEF Next

-----------------------------------------------------------------------------
(***************************************************************************)
(* Steps: who frees a cell, and what becomes of it.                        *)
(***************************************************************************)
Held(c) ==
  \/ \E s \in Settings : field[s] = c
  \/ c \in lent
  \/ c = frame

\* What a step does to a cell.  Only one that has an owner is freed, by the step that
\* takes it from the owner; what is freed is not given to one, written or freed again.
\* An owner lets go of no cell but by freeing it, or handing it to another, except for
\* the box of a commit that panics.
CellFreed(c) ==
  /\ c \in freed' /\ c \notin freed => Held(c) /\ ~Held(c)'
  /\ c \in freed => c \in freed' /\ layout'[c] = layout[c] /\ ~Held(c)'
  /\ Held(c) /\ ~Held(c)' => c \in freed' \/ (c = frame /\ pc = "converting")

FreedByOwner == \A c \in Cells : CellFreed(c)

\* What has been freed is in no place.
FreedApart == \A c \in Cells : c \in freed => ~Held(c)

LEMMA FreedNotHeld == Kept => FreedApart
BY NullNew DEF Kept, FreedApart, Held, Used

\* It stays as it is: no step fills what is not fresh, but the table of a lent baton.
LEMMA FreedStays ==
  ASSUME TypeOK, Kept, [Next]_vars, NEW c \in Cells, c \in freed
  PROVE  c \in freed' /\ layout'[c] = layout[c]
<1>1. layout[c] # Unused /\ c \notin lent
  BY DEF Kept, Used
<1> USE <1>1 DEF TypeOK, Fresh, Fill, Free, memory
<1>2. ASSUME NEW s \in Settings, NEW x \in Cells, NEW l, NEW u, Replace(s, x, l, u)
      PROVE  c \in freed' /\ layout'[c] = layout[c]
  BY <1>2 DEF Replace
<1>3. ASSUME NEW x \in Cells,
             \/ open_auth(x) \/ set(x) \/ drop_auth(x) \/ set_auth(x) \/ set_auth_owned(x)
             \/ set_config(x) \/ commit(x)
      PROVE  c \in freed' /\ layout'[c] = layout[c]
  <2>1. CASE open_auth(x) \/ set(x) \/ commit(x)
    BY <2>1 DEF open_auth, set, commit
  <2>2. CASE drop_auth(x) \/ set_auth(x) \/ set_auth_owned(x)
    BY <2>2 DEF drop_auth, set_auth, set_auth_owned
  <2>3. CASE set_config(x)
    BY <2>3 DEF set_config
  <2>. QED
    BY <1>3, <2>1, <2>2, <2>3
<1>4. CASE clear_conflict_resolver \/ clear_cancel_handler
  BY <1>4 DEF clear_conflict_resolver, clear_cancel_handler, Clear
<1>5. CASE operation \/ operation_returns \/ commit_calls \/ commit_panics
             \/ commit_returns \/ drop \/ UNCHANGED vars
  BY <1>5 DEF operation, operation_returns, commit_calls, commit_panics, commit_returns,
     drop, vars
<1>. QED
  BY <1>2, <1>3, <1>4, <1>5 DEF Next, set_conflict_resolver, set_cancel_handler, Settings

\* What is freed was owned, and what is owned no more was freed.
LEMMA FreedWasHeld ==
  ASSUME TypeOK, Single, Kept, [Next]_vars, NEW c \in Cells
  PROVE  /\ c \in freed' /\ c \notin freed => Held(c)
         /\ Held(c) /\ ~Held(c)' => c \in freed' \/ (c = frame /\ pc = "converting")
<1> DEFINE Passed ==
      /\ c \in freed' /\ c \notin freed => Held(c)
      /\ Held(c) /\ ~Held(c)' => c \in freed' \/ (c = frame /\ pc = "converting")
<1> SUFFICES Passed
  OBVIOUS
<1>n. c # Null
  BY NullNew
<1> USE <1>n DEF TypeOK, Free, Held, Settings, memory
<1>1. ASSUME NEW s \in {"conflict", "cancel"}, NEW x \in Cells, NEW l, NEW u,
             Replace(s, x, l, u)
      PROVE  Passed
  BY <1>1 DEF Replace
<1>2. ASSUME NEW s \in {"conflict", "cancel"}, Clear(s)
      PROVE  Passed
  BY <1>2 DEF Clear
<1>3. ASSUME NEW x \in Cells, open_auth(x) \/ set(x) \/ set_auth(x)
      PROVE  Passed
  BY <1>3 DEF open_auth, set, set_auth
<1>4. ASSUME NEW x \in Cells, drop_auth(x) \/ set_auth_owned(x)
      PROVE  Passed
  BY <1>4 DEF drop_auth, set_auth_owned
<1>5. ASSUME NEW x \in Cells, set_config(x)
      PROVE  Passed
  BY <1>5 DEF set_config
\* A commit begins when there is none.
<1>6. ASSUME NEW x \in Cells, commit(x)
      PROVE  Passed
  BY <1>6 DEF commit
<1>7. CASE operation \/ operation_returns \/ commit_calls \/ UNCHANGED vars
  BY <1>7 DEF operation, operation_returns, commit_calls, vars
<1>8. CASE commit_panics \/ drop
  BY <1>8 DEF commit_panics, drop
<1>9. CASE commit_returns
  BY <1>9 DEF commit_returns
<1>. QED
  BY <1>1, <1>2, <1>3, <1>4, <1>5, <1>6, <1>7, <1>8, <1>9
     DEF Next, set_conflict_resolver, set_cancel_handler, clear_conflict_resolver,
         clear_cancel_handler

LEMMA FreedStep == Inductive /\ [Next]_vars => [FreedByOwner]_vars
<1> SUFFICES ASSUME Inductive, [Next]_vars, NEW c \in Cells
             PROVE  CellFreed(c)
  BY DEF FreedByOwner
<1>1. Kept'
  BY StepInductive DEF Inductive
<1>2. c \in freed' => ~Held(c)'
  <2>1. Kept' => FreedApart'
    BY FreedNotHeld, PTL
  <2>. QED
    BY <1>1, <2>1 DEF FreedApart
<1>3. c \in freed => c \in freed' /\ layout'[c] = layout[c]
  BY FreedStays DEF Inductive
<1>4. /\ c \in freed' /\ c \notin freed => Held(c)
      /\ Held(c) /\ ~Held(c)' => c \in freed' \/ (c = frame /\ pc = "converting")
  BY FreedWasHeld DEF Inductive
<1>. QED
  BY <1>2, <1>3, <1>4, Zenon DEF CellFreed

-----------------------------------------------------------------------------
(***************************************************************************)
(* The theorems.                                                           *)
(***************************************************************************)
LEMMA AlwaysInductive == Spec => []Inductive
<1>. QED
  BY InitInductive, StepInductive, PTL DEF Spec

\* The state of a context and of what it was handed has the types of the model, and a
\* commit has its box only while it runs.
THEOREM TypeCorrect == Spec => []TypeOK
<1>1. Inductive => TypeOK
  BY DEF Inductive
<1>. QED
  BY <1>1, AlwaysInductive, PTL

\* Whatever a program hands to a context, and in whatever order, C reads in every slot
\* what the binding has put there, except in those that the program's liberties spoil.
THEOREM SlotsAlwaysDefined == Spec => []SlotsDefined
<1>1. Inductive => SlotsDefined
  BY SlotsFollow DEF Inductive
<1>. QED
  BY <1>1, AlwaysInductive, PTL

\* No operation but the commit it was given for finds a log message callback.
THEOREM LogMessageAlwaysRestored == Spec => []LogMessageRestored
<1>1. Inductive => LogMessageRestored
  BY SlotsFollow DEF Inductive
<1>. QED
  BY <1>1, AlwaysInductive, PTL

\* Each value handed over is freed at most once, and none but the box of a commit that
\* panicked is lost.
THEOREM CellsAlwaysOwned == Spec => []CellsOwned
<1>1. Inductive => CellsOwned
  BY PiecesOwned DEF Inductive
<1>. QED
  BY <1>1, AlwaysInductive, PTL

\* And that is so of every step: a cell is freed by the step that takes it from its owner,
\* with what is in it unchanged from then on, and no step but a commit's panic lets go of
\* one that it does not free.
THEOREM FreedForGood == Spec => [][FreedByOwner]_vars
<1>. QED
  BY AlwaysInductive, FreedStep, PTL DEF Spec
=============================================================================
