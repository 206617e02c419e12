---------------------------- MODULE EditorBridge ----------------------------
(***************************************************************************)
(* Tree deltas across the boundary (delta.rs, ra.rs): an editor, the batons *)
(* its calls hand out, and the reporter that makes the C library drive it.  *)
(*                                                                         *)
(* WrapEditor is a vtable in a pool and a baton.  Over a Rust editor every *)
(* directory, file and text delta is a Box whose address is the baton, and *)
(* the vtable's close functions free it; over an editor of the C library   *)
(* the batons live in the editor's pool.  The driver is the C library,     *)
(* inside finish_report, or the Rust program, which holds the batons as    *)
(* WrapDirectoryEditor, WrapFileEditor and window handler values.          *)
(*                                                                         *)
(* svn_delta.h asks for an order of calls that the library keeps.  The     *)
(* types of the wrappers do not ask for it: liberties are the things they  *)
(* let a program do.                                                       *)
(***************************************************************************)
EXTENDS Naturals

CONSTANTS
  Batons,     \* the directories, files and text deltas a run may open
  NoBaton,    \* no parent
  Editors,    \* who implements the editor: "rust", "c"
  Programs,   \* sets of liberties: the programs a run is about
  MaxReports  \* bound: reports begun

ASSUME NoBatonFresh == NoBaton \notin Batons
ASSUME EditorKinds == Editors \subseteq {"rust", "c"}
ASSUME ReportBound == MaxReports \in Nat

\* What a program may do because the types allow it.
Liberties ==
  {"outlive",      \* drop the editor while pointers to it are in use
   "reuse",        \* keep a value after close(&mut self) or finish(&self)
   "closure",      \* apply_textdelta, not apply_textdelta_raw
   "dropValue",    \* drop a directory or file value that is not closed
   "dropHandler",  \* drop a handler value before the last window
   "dropReporter"} \* drop a reporter that is not finished

ASSUME LibertyKinds == Programs \subseteq SUBSET Liberties

VARIABLES
  liberties, \* those that the program takes
  maker,    \* who implements the editor, "none" before there is one
  editor,   \* "none", "live" or "dropped": the WrapEditor
  report,   \* the reporter: "none", "open", or "driving" in finish_report
  pending,  \* the reports the library has begun and not ended
  edit,     \* "idle", "driving", "closed" or "aborted"
  failed,   \* a call of the drive has returned an error
  box,      \* box[b]: "unused", "live" or "freed" memory
  kind,     \* kind[b]: "dir", "file", "delta", or "raw" for a handler value
  up,       \* up[b]: the baton b was opened from
  held      \* the batons the driver may still use

reporting == <<report, pending>>
heap == <<box, kind, up>>
wrapper == <<maker, editor>>
vars == <<liberties, maker, editor, report, pending, edit, failed, box, kind, up, held>>

Kinds == {"none", "dir", "file", "delta", "raw"}

May(l) == l \in liberties
EditorLive == editor = "live"
LibraryDrives == report = "driving"

\* The editor is being driven, by a driver that stops at the first error.
Driving == EditorLive /\ edit = "driving" /\ ~failed

\* A call on a freed baton is undefined: BatonsValid is about it.
Usable(b, k) == Driving /\ b \in held /\ kind[b] = k /\ box[b] = "live"

Below(b) == {c \in held : up[c] = b}

\* Directories are visited depth first; a file may stay open behind them.
Innermost(d) == \A c \in Below(d) : kind[c] # "dir"

Allocate(b, k, parent) ==
  /\ box[b] = "unused"
  /\ box' = [box EXCEPT ![b] = "live"]
  /\ kind' = [kind EXCEPT ![b] = k]
  /\ up' = [up EXCEPT ![b] = parent]
  /\ held' = held \cup {b}

\* The driver lets go of a closed baton, unless it is a value the program keeps.
Release(b) ==
  \/ held' = held \ {b}
  \/ May("reuse") /\ ~LibraryDrives /\ held' = held

Init ==
  /\ liberties \in Programs
  /\ maker = "none" /\ editor = "none" /\ report = "none" /\ pending = 0
  /\ edit = "idle" /\ failed = FALSE
  /\ box = [b \in Batons |-> "unused"]
  /\ kind = [b \in Batons |-> "none"]
  /\ up = [b \in Batons |-> NoBaton]
  /\ held = {}

-----------------------------------------------------------------------------
(***************************************************************************)
(* The editor, and the report that makes the library drive it.             *)
(***************************************************************************)
NewEditor(m) ==
  /\ editor = "none"
  /\ maker' = m /\ editor' = "live"
  /\ UNCHANGED <<reporting, edit, failed, heap, held>>

\* do_update, do_switch, diff: the reporter borrows the session, and so only one
\* is in scope; it does not borrow the editor.
DoUpdate ==
  /\ EditorLive /\ edit = "idle"
  /\ report = "none" /\ pending < MaxReports
  /\ report' = "open"
  /\ pending' = pending + 1
  /\ UNCHANGED <<wrapper, edit, failed, heap, held>>

\* do_status drops the reporter it was given.
DoStatus ==
  /\ May("dropReporter")
  /\ EditorLive /\ edit = "idle"
  /\ report = "none" /\ pending < MaxReports
  /\ pending' = pending + 1
  /\ UNCHANGED <<wrapper, report, edit, failed, heap, held>>

EndReport ==
  /\ report' = "none"
  /\ pending' = pending - 1

\* Mutant: the reporter is still open after an error.
FinishReportRetries ==
  /\ report = "open"
  /\ \/ report' = "driving" /\ edit' = "driving" /\ UNCHANGED pending
     \/ pending' = pending - 1 /\ UNCHANGED <<report, edit>>
  /\ UNCHANGED <<wrapper, failed, heap, held>>

\* Mutant: the library does not end a report that fails.
FinishReportForgets ==
  /\ report = "open"
  /\ \/ report' = "driving" /\ edit' = "driving" /\ UNCHANGED pending
     \/ report' = "none" /\ UNCHANGED <<pending, edit>>
  /\ UNCHANGED <<wrapper, failed, heap, held>>

\* finish_report drives the editor, or fails before its first call.
FinishReport ==
  /\ report = "open"
  /\ \/ report' = "driving" /\ edit' = "driving" /\ UNCHANGED pending
     \/ EndReport /\ UNCHANGED edit
  /\ UNCHANGED <<wrapper, failed, heap, held>>

FinishReturns ==
  /\ LibraryDrives /\ edit \in {"closed", "aborted"}
  /\ EndReport
  /\ UNCHANGED <<wrapper, edit, failed, heap, held>>

AbortReport ==
  /\ report = "open"
  /\ EndReport
  /\ UNCHANGED <<wrapper, edit, failed, heap, held>>

\* Drop for WrapReporter frees the batons of a Rust reporter, no more.
DropReporter ==
  /\ May("dropReporter")
  /\ report = "open"
  /\ report' = "none"
  /\ UNCHANGED <<wrapper, pending, edit, failed, heap, held>>

Unfinished == report # "none" \/ held # {} \/ edit = "driving"

\* Drop for WrapEditor: the boxed editor, and the pool with the batons of a C
\* editor.  A handler value has a pool of its own.
DropEditor ==
  /\ EditorLive
  /\ Unfinished => May("outlive")
  /\ editor' = "dropped"
  /\ box' = [b \in Batons |->
              IF maker = "c" /\ box[b] = "live" /\ kind[b] # "raw" THEN "freed" ELSE box[b]]
  /\ UNCHANGED <<maker, reporting, edit, failed, kind, up, held>>

-----------------------------------------------------------------------------
(***************************************************************************)
(* The drive.                                                              *)
(***************************************************************************)
ProgramDrives ==
  /\ EditorLive
  /\ report = "none" /\ edit = "idle"
  /\ edit' = "driving"
  /\ UNCHANGED <<wrapper, reporting, failed, heap, held>>

\* Any call that returns an error and hands out nothing.  The driver goes on to
\* abort the edit.
CallFails ==
  /\ Driving
  /\ failed' = TRUE
  /\ UNCHANGED <<wrapper, reporting, edit, heap, held>>

OpenRoot(b) ==
  /\ Driving
  /\ \A c \in Batons : kind[c] = "none"
  /\ Allocate(b, "dir", NoBaton)
  /\ UNCHANGED <<wrapper, reporting, edit, failed>>

\* add_directory, open_directory, add_file, open_file.
Enter(d, b, k) ==
  /\ Usable(d, "dir") /\ Innermost(d)
  /\ Allocate(b, k, d)
  /\ UNCHANGED <<wrapper, reporting, edit, failed>>

\* The C library, and the program through apply_textdelta_raw, hold a handler
\* until the last window.
ApplyTextdelta(f, b) ==
  /\ Usable(f, "file") /\ \A c \in Batons : up[c] # f
  /\ Allocate(b, IF LibraryDrives THEN "delta" ELSE "raw", f)
  /\ UNCHANGED <<wrapper, reporting, edit, failed>>

\* FileEditor::apply_textdelta of WrapFileEditor: the pool that it passes to a C
\* editor for the handler is gone when it returns the closure.
ApplyTextdeltaClosure(f, b) ==
  /\ May("closure") /\ ~LibraryDrives
  /\ Usable(f, "file") /\ \A c \in Batons : up[c] # f
  /\ box[b] = "unused"
  /\ box' = [box EXCEPT ![b] = IF maker = "c" THEN "freed" ELSE "live"]
  /\ kind' = [kind EXCEPT ![b] = "delta"]
  /\ up' = [up EXCEPT ![b] = f]
  /\ held' = held \cup {b}
  /\ UNCHANGED <<wrapper, reporting, edit, failed>>

\* Mutant: the closure is not freed.
LastWindowKeeps(w) ==
  /\ Usable(w, "delta") \/ Usable(w, "raw")
  /\ held' = held \ {w}
  /\ failed' \in {failed, TRUE}
  /\ UNCHANGED <<wrapper, reporting, edit, heap>>

\* The handler is called with no window: a boxed closure is freed, Ok or not.  The
\* handler of a C editor goes with the handler value that has its pool.
LastWindow(w) ==
  /\ Usable(w, "delta") \/ Usable(w, "raw")
  /\ Release(w)
  /\ box' = [box EXCEPT ![w] = IF maker = "rust" \/ w \notin held' THEN "freed" ELSE @]
  /\ failed' \in {failed, TRUE}
  /\ UNCHANGED <<wrapper, reporting, edit, kind, up>>

\* Mutant: the box is freed whatever the Rust editor returns.
CloseFrees(b, k) ==
  /\ Usable(b, k)
  /\ IF k = "dir" THEN Innermost(b) ELSE Below(b) = {}
  /\ box' = [box EXCEPT ![b] = IF maker = "rust" THEN "freed" ELSE @]
  /\ \/ Release(b) /\ UNCHANGED failed
     \/ failed' = TRUE /\ UNCHANGED held
  /\ UNCHANGED <<wrapper, reporting, edit, kind, up>>

\* close_file, close_directory: the box is freed if the Rust editor returns Ok.
Close(b, k) ==
  /\ Usable(b, k)
  /\ IF k = "dir" THEN Innermost(b) ELSE Below(b) = {}
  /\ \/ /\ box' = [box EXCEPT ![b] = IF maker = "rust" THEN "freed" ELSE @]
        /\ Release(b)
        /\ UNCHANGED failed
     \/ /\ failed' = TRUE
        /\ UNCHANGED <<box, held>>
  /\ UNCHANGED <<wrapper, reporting, edit, kind, up>>

\* An error of close_edit is a CallFails.
CloseEdit ==
  /\ Driving
  /\ held = {} \/ May("reuse")
  /\ edit' = "closed"
  /\ UNCHANGED <<wrapper, reporting, failed, heap, held>>

\* abort_edit: the library has no further use for its batons; the boxes that
\* are open stay allocated.
AbortEdit ==
  /\ EditorLive /\ edit = "driving"
  /\ edit' = "aborted"
  /\ failed' = TRUE
  /\ held' = IF LibraryDrives THEN {} ELSE held
  /\ UNCHANGED <<wrapper, reporting, heap>>

\* The program drops a value.  A handler value takes its pool with it: that is
\* where the handler of a C editor is, and not where a boxed closure is.
DropValue(b) ==
  /\ b \in held /\ ~LibraryDrives
  /\ \/ failed \/ box[b] = "freed"
     \/ May(IF kind[b] \in {"raw", "delta"} THEN "dropHandler" ELSE "dropValue")
     \/ May("reuse") /\ maker = "c"
  /\ held' = held \ {b}
  /\ box' = [box EXCEPT ![b] = IF maker = "c" /\ kind[b] = "raw" THEN "freed" ELSE @]
  /\ UNCHANGED <<wrapper, reporting, edit, failed, kind, up>>

Reporting ==
  \/ \E m \in Editors : NewEditor(m)
  \/ DoUpdate \/ DoStatus
  \/ FinishReport \/ FinishReturns \/ AbortReport
  \/ DropReporter \/ DropEditor

Editing ==
  \/ ProgramDrives \/ CallFails \/ CloseEdit \/ AbortEdit
  \/ \E b \in Batons :
       \/ OpenRoot(b) \/ LastWindow(b) \/ DropValue(b)
       \/ \E k \in {"dir", "file"} : Close(b, k)
       \/ \E d \in Batons :
            \/ \E k \in {"dir", "file"} : Enter(d, b, k)
            \/ ApplyTextdelta(d, b) \/ ApplyTextdeltaClosure(d, b)

Next == (Reporting \/ Editing) /\ UNCHANGED liberties

Spec == Init /\ [][Next]_vars

-----------------------------------------------------------------------------
TypeOK ==
  /\ liberties \in Programs
  /\ maker \in {"none"} \cup Editors
  /\ editor \in {"none", "live", "dropped"}
  /\ report \in {"none", "open", "driving"}
  /\ pending \in 0 .. MaxReports
  /\ edit \in {"idle", "driving", "closed", "aborted"}
  /\ failed \in BOOLEAN
  /\ box \in [Batons -> {"unused", "live", "freed"}]
  /\ kind \in [Batons -> Kinds]
  /\ up \in [Batons -> Batons \cup {NoBaton}]
  /\ held \subseteq Batons

\* A directory, file or text delta that the driver may still use, in the C
\* library or as a Rust value, has its memory.
BatonsValid == \A b \in held : box[b] = "live"

(***************************************************************************)
(* The vtable and the baton of an editor do not outlive the WrapEditor:    *)
(* while a report may call them, or directory and file values do, the      *)
(* editor has not been dropped.                                            *)
(***************************************************************************)
EditorPointersValid ==
  report # "none" \/ (\E b \in held : kind[b] \in {"dir", "file"}) => EditorLive

(***************************************************************************)
(* Everything a drive opens is freed by the time its driver forgets it,    *)
(* unless the drive failed.  What a C editor allocates goes with its pool. *)
(***************************************************************************)
NoLeak ==
  \A b \in Batons :
    box[b] = "live" /\ b \notin held =>
      failed \/ (maker = "c" /\ kind[b] # "raw" /\ EditorLive)

\* When no reporter borrows the session, so that the program may use it, the
\* library is not in the middle of a report on it.
SessionFree == report = "none" => pending = 0

-----------------------------------------------------------------------------
(***************************************************************************)
(* What the wrappers promise to a program depends on the liberties it      *)
(* takes, and on those named here only.                                    *)
(***************************************************************************)
Orderly == ~(May("outlive") \/ May("reuse") \/ May("closure"))
Tidy == ~(May("dropValue") \/ May("dropHandler"))

\* In the order svn_delta.h asks for, no drive by the library or the program,
\* failing or not, reaches a freed baton or a dropped editor.
DrivesValid == Orderly => BatonsValid /\ EditorPointersValid

\* If values are closed and handlers finished before they are dropped, a drive
\* that succeeds leaves nothing allocated.
DrivesFree == Tidy => NoLeak

\* If reporters are finished or aborted, no session is left with a report open.
ReportsEnd == ~May("dropReporter") => SessionFree
=============================================================================
