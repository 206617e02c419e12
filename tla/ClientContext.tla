---------------------------- MODULE ClientContext ----------------------------
(***************************************************************************)
(* A client context (client.rs) is a C structure with slots that C reads    *)
(* during every operation: a callback with its baton, the authentication    *)
(* baton, the configuration.  What a slot points to is owned by a field of  *)
(* the Rust value, by the caller, or by the commit that is running.         *)
(***************************************************************************)

CONSTANTS
  Cells,     \* bound: the pieces of memory that a program hands to the context
  Null,      \* an empty slot, an Option that is None
  Programs   \* the sets of liberties that programs take

\* What the types allow a program to do:
\*   "plain"    give set_cancel_handler a closure that is not in a Box already
\*   "outlive"  drop an authentication baton that the context has borrowed
\*   "again"    make a setting of an authentication baton a second time
\*   "panics"   give a closure or resolver whose drop panics, and go on
\*   "catch"    go on with the context after a panic (catch_unwind)
Liberties == {"plain", "outlive", "again", "panics", "catch"}

Settings == {"conflict", "cancel", "auth", "config"}
Slots == Settings \cup {"log_msg"}

\* What is in a cell: a ConflictResolverBaton, the data of a closure, the same when
\* the closure is a Box<dyn FnMut>, a C object, or the box of a reference.  The table
\* of an authentication baton is empty, has a name in it, or one that was dropped.
Tables == {"auth", "named", "stale"}
Layouts == {"resolver", "closure", "boxed", "config", "reference"} \cup Tables

\* What a trampoline takes its baton for; a baton that is NULL it leaves alone.
conflict_resolver_callback == "resolver"
cancel_trampoline == "boxed"
log_msg_trampoline == "reference"

\* What the trampoline of a slot, or C itself, takes the cell for.
Expects(s) ==
  CASE s = "conflict" -> {conflict_resolver_callback}
    [] s = "cancel"   -> {cancel_trampoline}
    [] s = "auth"     -> {"auth", "named"}
    [] s = "config"   -> {"config"}
    [] s = "log_msg"  -> {log_msg_trampoline}

ASSUME NullNew == Null \notin Cells
ASSUME ProgramsTaken == Programs \subseteq SUBSET Liberties

VARIABLES
  program,  \* the liberties that this program takes
  slot,     \* slot[s]: what the C structure points to
  field,    \* field[s]: what the Rust value owns
  layout,   \* layout[c]: what is in cell c
  freed,    \* the cells that have been freed
  lent,     \* the authentication batons in variables of the caller
  frame,    \* the box that refers to the closure of the commit that runs
  saved,    \* the old content of the log message slot
  pc        \* "idle", or where the method that runs is; "dropped"

memory == <<layout, freed>>
vars == <<program, slot, field, layout, freed, lent, frame, saved, pc>>

Unused == "unused"
Fresh(c) == layout[c] = Unused
Fill(c, l) == layout' = [layout EXCEPT ![c] = l]

\* The cells among cs are given back.
Free(cs) == freed' = freed \cup (cs \ {Null})

Init ==
  /\ program \in Programs
  /\ \E c \in Cells :
       /\ layout = [x \in Cells |-> IF x = c THEN "config" ELSE Unused]
       /\ slot = [s \in Slots |-> IF s = "config" THEN c ELSE Null]
       /\ field = [s \in Settings |-> IF s = "config" THEN c ELSE Null]
  /\ freed = {}
  /\ lent = {}
  /\ frame = Null
  /\ saved = Null
  /\ pc = "idle"

-----------------------------------------------------------------------------
(***************************************************************************)
(* The setters.  The callbacks' empty the slot, replace the field, which    *)
(* drops the old value, and fill the slot.  When that drop panics, the new  *)
(* value is in the field and the slot is still empty.                      *)
(***************************************************************************)
Replace(s, c, l, unwinds) ==
  /\ pc = "idle"
  /\ Fresh(c)
  /\ unwinds => "panics" \in program /\ field[s] # Null
  /\ Fill(c, l)
  /\ Free({field[s]})
  /\ field' = [field EXCEPT ![s] = c]
  /\ slot' = [slot EXCEPT ![s] = IF unwinds THEN Null ELSE c]
  /\ UNCHANGED <<program, lent, frame, saved, pc>>

set_conflict_resolver(c, unwinds) == Replace("conflict", c, "resolver", unwinds)

\* `h.as_mut() as *mut _ as *mut c_void` is the address of the closure itself, which
\* is what cancel_trampoline takes it for only if the closure is a Box.
set_cancel_handler(c, l, unwinds) ==
  /\ l \in {"closure", "boxed"}
  /\ l = "closure" => "plain" \in program
  /\ Replace("cancel", c, l, unwinds)

Clear(s) ==
  /\ pc = "idle"
  /\ slot' = [slot EXCEPT ![s] = Null]
  /\ field' = [field EXCEPT ![s] = Null]
  /\ Free({field[s]})
  /\ UNCHANGED <<program, layout, lent, frame, saved, pc>>

clear_conflict_resolver == Clear("conflict")
clear_cancel_handler == Clear("cancel")

-----------------------------------------------------------------------------
(***************************************************************************)
(* Authentication and configuration: the slot is set, and what the field    *)
(* had is dropped after that.  A baton that is lent leaves the field alone. *)
(***************************************************************************)
open_auth(c) ==
  /\ pc # "dropped"
  /\ Fresh(c)
  /\ Fill(c, "auth")
  /\ lent' = lent \cup {c}
  /\ UNCHANGED <<program, slot, field, freed, frame, saved, pc>>

\* Mutant: the string of a name is dropped when its setting is made.
set_drops_name(c) ==
  /\ pc = "idle"
  /\ c \in lent
  /\ Fill(c, "stale")
  /\ UNCHANGED <<program, slot, field, freed, lent, frame, saved, pc>>

\* AuthBaton::set, with set_parameter: parameter_names keeps the string of the name,
\* which the table in C points to.  A second setting of one name replaces the string
\* that is kept; the entry in C goes on pointing to the first.
set(c) ==
  /\ pc = "idle"
  /\ c \in lent
  /\ layout[c] # "auth" => "again" \in program
  /\ Fill(c, IF layout[c] = "auth" THEN "named" ELSE "stale")
  /\ UNCHANGED <<program, slot, field, freed, lent, frame, saved, pc>>

\* The borrow of set_auth ends with it, and so does what set_auth_unchecked asks for.
drop_auth(c) ==
  /\ c \in lent
  /\ slot["auth"] = c /\ pc # "dropped" => "outlive" \in program
  /\ pc \in {"idle", "dropped"}
  /\ lent' = lent \ {c}
  /\ Free({c})
  /\ UNCHANGED <<program, slot, field, layout, frame, saved, pc>>

set_auth(c) ==
  /\ pc = "idle"
  /\ c \in lent
  /\ slot' = [slot EXCEPT !["auth"] = c]
  /\ UNCHANGED <<program, field, layout, freed, lent, frame, saved, pc>>

\* Mutant: the old baton is not dropped.
set_auth_owned_keeps(c) ==
  /\ pc = "idle"
  /\ c \in lent
  /\ lent' = lent \ {c}
  /\ slot' = [slot EXCEPT !["auth"] = c]
  /\ field' = [field EXCEPT !["auth"] = c]
  /\ UNCHANGED <<program, layout, freed, frame, saved, pc>>

set_auth_owned(c) ==
  /\ pc = "idle"
  /\ c \in lent
  /\ lent' = lent \ {c}
  /\ slot' = [slot EXCEPT !["auth"] = c]
  /\ Free({field["auth"]})
  /\ field' = [field EXCEPT !["auth"] = c]
  /\ UNCHANGED <<program, layout, frame, saved, pc>>

set_config(c) ==
  /\ pc = "idle"
  /\ Fresh(c)
  /\ Fill(c, "config")
  /\ slot' = [slot EXCEPT !["config"] = c]
  /\ Free({field["config"]})
  /\ field' = [field EXCEPT !["config"] = c]
  /\ UNCHANGED <<program, lent, frame, saved, pc>>

-----------------------------------------------------------------------------
(***************************************************************************)
(* Operations.  C reads any slot, any number of times, until it returns.    *)
(***************************************************************************)
operation ==
  /\ pc = "idle"
  /\ pc' = "calling"
  /\ UNCHANGED <<program, slot, field, memory, lent, frame, saved>>

operation_returns ==
  /\ pc = "calling"
  /\ frame = Null
  /\ pc' = "idle"
  /\ UNCHANGED <<program, slot, field, memory, lent, frame, saved>>

\* commit boxes a reference to the caller's closure, or to one on its frame.
commit(c) ==
  /\ pc = "idle"
  /\ Fresh(c)
  /\ Fill(c, "reference")
  /\ saved' = slot["log_msg"]
  /\ slot' = [slot EXCEPT !["log_msg"] = c]
  /\ frame' = c
  /\ pc' = "converting"
  /\ UNCHANGED <<program, field, freed, lent>>

commit_calls ==
  /\ pc = "converting"
  /\ pc' = "calling"
  /\ UNCHANGED <<program, slot, field, memory, lent, frame, saved>>

\* A target that canonicalize_path_or_url refuses, or a changelist with a NUL, is
\* unwrap()ped: the slot is not restored, and the box is left.  What it refers to is
\* gone with the call.  The context is dropped as well, unless the panic is caught.
commit_panics ==
  /\ pc = "converting"
  /\ frame' = Null
  /\ saved' = Null
  /\ IF "catch" \in program
       THEN /\ pc' = "idle"
            /\ UNCHANGED <<slot, field, freed>>
       ELSE /\ pc' = "dropped"
            /\ Free({field[s] : s \in Settings})
            /\ field' = [s \in Settings |-> Null]
            /\ slot' = [s \in Slots |-> Null]
  /\ UNCHANGED <<program, layout, lent>>

\* Mutant: the error of C is returned before anything is restored.
commit_returns_early ==
  /\ pc = "calling"
  /\ frame # Null
  /\ pc' = "idle"
  /\ UNCHANGED <<program, slot, field, memory, lent, frame, saved>>

\* Mutant: the slot is not restored.
commit_returns_unrestored ==
  /\ pc = "calling"
  /\ frame # Null
  /\ Free({frame})
  /\ frame' = Null
  /\ saved' = Null
  /\ pc' = "idle"
  /\ UNCHANGED <<program, slot, field, layout, lent>>

\* The error of C, if any, is looked at when all is restored and freed.
commit_returns ==
  /\ pc = "calling"
  /\ frame # Null
  /\ slot' = [slot EXCEPT !["log_msg"] = saved]
  /\ Free({frame})
  /\ frame' = Null
  /\ saved' = Null
  /\ pc' = "idle"
  /\ UNCHANGED <<program, field, layout, lent>>

\* The callbacks' slots are emptied, then the fields are dropped, and the structure
\* is destroyed with its pool.
drop ==
  /\ pc = "idle"
  /\ pc' = "dropped"
  /\ Free({field[s] : s \in Settings})
  /\ field' = [s \in Settings |-> Null]
  /\ slot' = [s \in Slots |-> Null]
  /\ UNCHANGED <<program, layout, lent, frame, saved>>

-----------------------------------------------------------------------------
Next ==
  \/ \E c \in Cells, unwinds \in BOOLEAN : set_conflict_resolver(c, unwinds)
  \/ \E c \in Cells, l \in Layouts, unwinds \in BOOLEAN :
       set_cancel_handler(c, l, unwinds)
  \/ clear_conflict_resolver
  \/ clear_cancel_handler
  \/ \E c \in Cells : open_auth(c)
  \/ \E c \in Cells : set(c)
  \/ \E c \in Cells : drop_auth(c)
  \/ \E c \in Cells : set_auth(c)
  \/ \E c \in Cells : set_auth_owned(c)
  \/ \E c \in Cells : set_config(c)
  \/ operation
  \/ operation_returns
  \/ \E c \in Cells : commit(c)
  \/ commit_calls
  \/ commit_panics
  \/ commit_returns
  \/ drop

Spec == Init /\ [][Next]_vars

-----------------------------------------------------------------------------
TypeOK ==
  /\ program \in Programs
  /\ slot \in [Slots -> Cells \cup {Null}]
  /\ field \in [Settings -> Cells \cup {Null}]
  /\ layout \in [Cells -> Layouts \cup {Unused}]
  /\ freed \subseteq Cells
  /\ lent \subseteq Cells
  /\ frame \in Cells \cup {Null}
  /\ saved \in Cells \cup {Null}
  /\ pc \in {"idle", "converting", "calling", "dropped"}
  /\ frame # Null => pc \in {"converting", "calling"}

\* C finds in slot s what it takes it for, and a log message closure that is running.
Readable(s) ==
  slot[s] # Null =>
    /\ slot[s] \notin freed
    /\ layout[slot[s]] \in Expects(s)
    /\ s = "log_msg" => slot[s] = frame

\* The slot that each liberty can leave dangling.
Spoils ==
  [l \in Liberties |->
     CASE l = "plain" -> "cancel"
       [] l \in {"outlive", "again"} -> "auth"
       [] l = "catch" -> "log_msg"
       [] OTHER -> ""]

\* However the setters, the operations and their failures follow each other, C reads
\* in every slot what the binding has put there and still keeps, except in the slots
\* that the liberties of the program spoil: the plain cancel handler, the baton that
\* is dropped while the context has it or was set up twice, and the commit that panics
\* and is caught.  A drop that panics spoils none (client.rs).
SlotsDefined ==
  pc = "calling" =>
    \A s \in Slots : Readable(s) \/ \E l \in program : Spoils[l] = s

\* The log message callback of one commit is not there for the next operation, which
\* would call it: the slot is restored on every way out that does not panic.
LogMessageRestored ==
  pc = "idle" /\ "catch" \notin program => slot["log_msg"] = Null

\* Who frees cell c.
Owners(c) ==
  {s \in Settings : field[s] = c}
    \cup (IF c \in lent THEN {"caller"} ELSE {})
    \cup (IF c = frame THEN {"commit"} ELSE {})

\* What the program has handed over is freed once: each cell has one owner until it
\* is freed, and none after, whichever setter replaces which value, borrowed or
\* owned; the only boxes that are lost are those of commits that panicked.
CellsOwned ==
  \A c \in Cells :
    /\ \A o, p \in Owners(c) : o = p
    /\ Owners(c) # {} => layout[c] # Unused /\ c \notin freed
    /\ layout[c] # Unused /\ c \notin freed /\ Owners(c) = {} =>
         layout[c] = "reference" /\ (pc = "dropped" \/ "catch" \in program)
=============================================================================
