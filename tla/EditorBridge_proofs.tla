------------------------ MODULE EditorBridge_proofs ------------------------
(***************************************************************************)
(* Proofs about EditorBridge, for programs that take any liberties.  Each  *)
(* property names those that break it.                                     *)
(***************************************************************************)
EXTENDS EditorBridge, TLAPS

\* A program keeps its habits.
LEMMA SameProgram ==
  ASSUME [Next]_vars
  PROVE  /\ liberties' = liberties
         /\ Orderly' = Orderly /\ Tidy' = Tidy
<1>1. liberties' = liberties
  BY DEF Next, vars
<1> QED
  BY <1>1 DEF Orderly, Tidy, May

\* A reporter in scope has a report of its own.
ReportBegun == report # "none" => pending > 0

TypeInv == TypeOK /\ ReportBegun

-----------------------------------------------------------------------------
LEMMA TypeInit == Init => TypeInv
<1> SUFFICES ASSUME Init PROVE TypeInv
  OBVIOUS
<1>1. failed \in BOOLEAN
  BY Zenon DEF Init
<1>2. pending \in 0 .. MaxReports /\ ReportBegun
  BY ReportBound DEF Init, ReportBegun
<1>3. /\ box \in [Batons -> {"unused", "live", "freed"}]
      /\ kind \in [Batons -> Kinds]
      /\ up \in [Batons -> Batons \cup {NoBaton}]
  BY DEF Init, Kinds
<1> QED
  BY <1>1, <1>2, <1>3 DEF Init, TypeInv, TypeOK

\* One step per action.
LEMMA TypeStep == TypeInv /\ [Next]_vars => TypeInv'
<1> SUFFICES ASSUME TypeInv, [Next]_vars PROVE TypeInv'
  OBVIOUS
<1> USE SameProgram, ReportBound DEF TypeInv, TypeOK, ReportBegun, Kinds, wrapper, reporting, heap
<1>1. CASE UNCHANGED vars
  BY <1>1 DEF vars
<1>2. ASSUME NEW m \in Editors, NewEditor(m) PROVE TypeInv'
  BY <1>2 DEF NewEditor
<1>3. CASE DoUpdate
  BY <1>3 DEF DoUpdate
<1>4. CASE DoStatus
  BY <1>4 DEF DoStatus
<1>5. CASE FinishReport
  BY <1>5 DEF FinishReport, EndReport
<1>6. CASE FinishReturns
  BY <1>6 DEF FinishReturns, EndReport, LibraryDrives
<1>7. CASE AbortReport
  BY <1>7 DEF AbortReport, EndReport
<1>8. CASE DropReporter
  BY <1>8 DEF DropReporter
<1>9. CASE DropEditor
  BY <1>9 DEF DropEditor
<1>10. CASE ProgramDrives
  BY <1>10 DEF ProgramDrives
<1>11. CASE CallFails
  BY <1>11 DEF CallFails
<1>12. CASE CloseEdit
  BY <1>12 DEF CloseEdit
<1>13. CASE AbortEdit
  BY <1>13 DEF AbortEdit
<1>14. ASSUME NEW b \in Batons, OpenRoot(b) PROVE TypeInv'
  BY <1>14 DEF OpenRoot, Allocate
<1>15. ASSUME NEW b \in Batons, LastWindow(b) PROVE TypeInv'
  BY <1>15 DEF LastWindow, Release
<1>16. ASSUME NEW b \in Batons, DropValue(b) PROVE TypeInv'
  BY <1>16 DEF DropValue
<1>17. ASSUME NEW b \in Batons, NEW k \in {"dir", "file"}, Close(b, k) PROVE TypeInv'
  BY <1>17 DEF Close, Release
<1>18. ASSUME NEW b \in Batons, NEW d \in Batons, NEW k \in {"dir", "file"}, Enter(d, b, k)
       PROVE TypeInv'
  BY <1>18 DEF Enter, Allocate
<1>19. ASSUME NEW b \in Batons, NEW d \in Batons, ApplyTextdelta(d, b) PROVE TypeInv'
  BY <1>19 DEF ApplyTextdelta, Allocate
<1>20. ASSUME NEW b \in Batons, NEW d \in Batons, ApplyTextdeltaClosure(d, b) PROVE TypeInv'
  BY <1>20 DEF ApplyTextdeltaClosure
<1> QED
  BY <1>1, <1>2, <1>3, <1>4, <1>5, <1>6, <1>7, <1>8, <1>9, <1>10, <1>11, <1>12, <1>13,
     <1>14, <1>15, <1>16, <1>17, <1>18, <1>19, <1>20 DEF Next, Reporting, Editing

(***************************************************************************)
(* Type correctness, whatever the program does with its values: the        *)
(* library never ends a report it has not begun.                           *)
(***************************************************************************)
THEOREM TypeCorrect == Spec => []TypeOK
<1>1. TypeInv => TypeOK
  BY DEF TypeInv
<1> QED
  BY <1>1, TypeInit, TypeStep, PTL DEF Spec

-----------------------------------------------------------------------------
\* While anything is in use the editor is there.
InUse == Unfinished => EditorLive

DriveInv == TypeInv /\ (Orderly => BatonsValid /\ InUse)

LEMMA DriveInit == Init => DriveInv
<1>1. Init => BatonsValid /\ InUse
  BY DEF Init, BatonsValid, InUse, Unfinished
<1> QED
  BY <1>1, TypeInit DEF DriveInv

LEMMA DriveStep == DriveInv /\ [Next]_vars => DriveInv'
<1> SUFFICES ASSUME DriveInv, [Next]_vars, Orderly PROVE (BatonsValid /\ InUse)'
  BY TypeStep, SameProgram DEF DriveInv
<1>v. TypeInv /\ BatonsValid /\ InUse
  BY DEF DriveInv
<1> USE <1>v DEF TypeInv, TypeOK, BatonsValid, InUse, Unfinished, EditorLive,
            wrapper, reporting, heap
<1>0. ~May("outlive") /\ ~May("reuse") /\ ~May("closure")
  BY DEF Orderly
<1>1. CASE UNCHANGED vars
  BY <1>1 DEF vars
<1>2. ASSUME NEW m \in Editors, NewEditor(m) PROVE (BatonsValid /\ InUse)'
  BY <1>2 DEF NewEditor
<1>3. CASE DoUpdate \/ DoStatus
  BY <1>3 DEF DoUpdate, DoStatus
<1>4. CASE FinishReport \/ FinishReturns \/ AbortReport \/ DropReporter
  BY <1>4 DEF FinishReport, FinishReturns, AbortReport, DropReporter, EndReport
<1>5. CASE DropEditor
  \* The editor is dropped when nothing is held and nothing reports.
  BY <1>5, <1>0 DEF DropEditor
<1>6. CASE ProgramDrives \/ CallFails \/ CloseEdit \/ AbortEdit
  BY <1>6 DEF ProgramDrives, CallFails, CloseEdit, AbortEdit, Driving
<1>7. ASSUME NEW b \in Batons, OpenRoot(b) PROVE (BatonsValid /\ InUse)'
  BY <1>7 DEF OpenRoot, Allocate, Driving
<1>8. ASSUME NEW b \in Batons, LastWindow(b) PROVE (BatonsValid /\ InUse)'
  BY <1>8, <1>0 DEF LastWindow, Release
<1>9. ASSUME NEW b \in Batons, DropValue(b) PROVE (BatonsValid /\ InUse)'
  BY <1>9 DEF DropValue
<1>10. ASSUME NEW b \in Batons, NEW k \in {"dir", "file"}, Close(b, k)
       PROVE (BatonsValid /\ InUse)'
  BY <1>10, <1>0 DEF Close, Release
<1>11. ASSUME NEW b \in Batons, NEW d \in Batons, NEW k \in {"dir", "file"}, Enter(d, b, k)
       PROVE (BatonsValid /\ InUse)'
  BY <1>11 DEF Enter, Allocate, Usable, Driving
<1>12. ASSUME NEW b \in Batons, NEW d \in Batons, ApplyTextdelta(d, b)
       PROVE (BatonsValid /\ InUse)'
  BY <1>12 DEF ApplyTextdelta, Allocate, Usable, Driving
<1>13. ASSUME NEW b \in Batons, NEW d \in Batons, ApplyTextdeltaClosure(d, b)
       PROVE (BatonsValid /\ InUse)'
  BY <1>13, <1>0 DEF ApplyTextdeltaClosure
<1> QED
  BY <1>1, <1>2, <1>3, <1>4, <1>5, <1>6, <1>7, <1>8, <1>9, <1>10, <1>11, <1>12, <1>13
  DEF Next, Reporting, Editing

(***************************************************************************)
(* A program that keeps the editor while it is in use, does not touch a    *)
(* value it has closed and takes its handlers from apply_textdelta_raw,    *)
(* and a library that keeps svn_delta.h's order, never reach a freed       *)
(* baton or a dropped editor; leaks and lost reports do not matter.        *)
(***************************************************************************)
THEOREM DriveCorrect == Spec => []DrivesValid
<1>1. DriveInv => DrivesValid
  BY DEF DrivesValid, DriveInv, InUse, Unfinished, EditorPointersValid
<1> QED
  BY <1>1, DriveInit, DriveStep, PTL DEF Spec

-----------------------------------------------------------------------------
\* A C editor's pool holds its batons, handler values excepted.
PoolHolds ==
  \A b \in Batons :
    box[b] = "live" /\ maker = "c" /\ kind[b] # "raw" => EditorLive

Made == EditorLive => maker \in Editors

Freed == NoLeak /\ PoolHolds /\ Made

LeakInv == TypeInv /\ (Tidy => Freed)

LEMMA LeakInit == Init => LeakInv
<1> SUFFICES ASSUME Init PROVE Freed
  BY TypeInit DEF LeakInv
<1> QED
  BY DEF Init, Freed, NoLeak, PoolHolds, Made, EditorLive

LEMMA LeakStep == LeakInv /\ [Next]_vars => LeakInv'
<1> SUFFICES ASSUME LeakInv, [Next]_vars, Tidy PROVE Freed'
  BY TypeStep, SameProgram DEF LeakInv
<1>v. TypeInv /\ Freed
  BY DEF LeakInv
<1> USE <1>v, EditorKinds
    DEF TypeInv, TypeOK, Freed, NoLeak, PoolHolds, Made, EditorLive, wrapper, reporting, heap
<1>0. ~May("dropValue") /\ ~May("dropHandler")
  BY DEF Tidy
<1>1. CASE UNCHANGED vars
  BY <1>1 DEF vars
<1>2. ASSUME NEW m \in Editors, NewEditor(m) PROVE Freed'
  BY <1>2 DEF NewEditor
<1>3. CASE DoUpdate \/ DoStatus
  BY <1>3 DEF DoUpdate, DoStatus
<1>4. CASE FinishReport \/ FinishReturns \/ AbortReport \/ DropReporter
  BY <1>4 DEF FinishReport, FinishReturns, AbortReport, DropReporter, EndReport
<1>5. CASE DropEditor
  \* What is left of a C editor's allocations goes with its pool.
  BY <1>5 DEF DropEditor
<1>6. CASE ProgramDrives \/ CallFails \/ CloseEdit \/ AbortEdit
  BY <1>6 DEF ProgramDrives, CallFails, CloseEdit, AbortEdit
<1>7. ASSUME NEW b \in Batons, OpenRoot(b) PROVE Freed'
  BY <1>7 DEF OpenRoot, Allocate, Driving
<1>8. ASSUME NEW b \in Batons, LastWindow(b) PROVE Freed'
  BY <1>8 DEF LastWindow, Release, Usable, Driving
<1>9. ASSUME NEW b \in Batons, DropValue(b) PROVE Freed'
  BY <1>9, <1>0 DEF DropValue
<1>10. ASSUME NEW b \in Batons, NEW k \in {"dir", "file"}, Close(b, k) PROVE Freed'
  BY <1>10 DEF Close, Release, Usable, Driving
<1>11. ASSUME NEW b \in Batons, NEW d \in Batons, NEW k \in {"dir", "file"}, Enter(d, b, k)
       PROVE Freed'
  BY <1>11 DEF Enter, Allocate, Usable, Driving
<1>12. ASSUME NEW b \in Batons, NEW d \in Batons, ApplyTextdelta(d, b) PROVE Freed'
  BY <1>12 DEF ApplyTextdelta, Allocate, Usable, Driving
<1>13. ASSUME NEW b \in Batons, NEW d \in Batons, ApplyTextdeltaClosure(d, b) PROVE Freed'
  BY <1>13 DEF ApplyTextdeltaClosure, Usable, Driving
<1> QED
  BY <1>1, <1>2, <1>3, <1>4, <1>5, <1>6, <1>7, <1>8, <1>9, <1>10, <1>11, <1>12, <1>13
  DEF Next, Reporting, Editing

(***************************************************************************)
(* A drive that does not fail frees all it has opened, if the program      *)
(* closes its values and finishes its handlers before it drops them.       *)
(***************************************************************************)
THEOREM NothingLeaks == Spec => []DrivesFree
<1>1. LeakInv => DrivesFree
  BY DEF LeakInv, Freed, DrivesFree
<1> QED
  BY <1>1, LeakInit, LeakStep, PTL DEF Spec

-----------------------------------------------------------------------------
\* Every report that has been begun is the reporter's in scope.
Settled == SessionFree /\ pending <= 1

SettledInv == TypeInv /\ (~May("dropReporter") => Settled)

LEMMA SettledStep == SettledInv /\ [Next]_vars => SettledInv'
<1> SUFFICES ASSUME SettledInv, [Next]_vars, ~May("dropReporter") PROVE Settled'
  BY TypeStep, SameProgram DEF SettledInv, May
<1>v. TypeInv /\ Settled
  BY DEF SettledInv
<1> USE <1>v, ReportBound DEF TypeInv, TypeOK, ReportBegun, Settled, SessionFree, reporting
<1>1. CASE DoUpdate
  BY <1>1 DEF DoUpdate
<1>2. CASE DoStatus \/ DropReporter
  BY <1>2 DEF DoStatus, DropReporter
<1>3. CASE FinishReport \/ FinishReturns \/ AbortReport
  BY <1>3 DEF FinishReport, FinishReturns, AbortReport, EndReport, LibraryDrives
<1>4. CASE UNCHANGED <<report, pending>>
  BY <1>4
<1>5. ASSUME Editing PROVE UNCHANGED <<report, pending>>
  BY <1>5 DEF Editing, ProgramDrives, CallFails, CloseEdit, AbortEdit, OpenRoot, LastWindow,
              DropValue, Close, Enter, ApplyTextdelta, ApplyTextdeltaClosure
<1>6. ASSUME DropEditor \/ \E m \in Editors : NewEditor(m) PROVE UNCHANGED <<report, pending>>
  BY <1>6 DEF DropEditor, NewEditor
<1>7. ASSUME UNCHANGED vars PROVE UNCHANGED <<report, pending>>
  BY <1>7 DEF vars
<1> QED
  BY <1>1, <1>2, <1>3, <1>4, <1>5, <1>6, <1>7 DEF Next, Reporting

(***************************************************************************)
(* A program that finishes or aborts every reporter, and does not call     *)
(* do_status, never uses a session with a report open on it.               *)
(***************************************************************************)
THEOREM SessionCorrect == Spec => []ReportsEnd
<1>1. Init => SettledInv
  BY TypeInit DEF Init, SettledInv, Settled, SessionFree
<1>2. SettledInv => ReportsEnd
  BY DEF SettledInv, Settled, ReportsEnd
<1> QED
  BY <1>1, <1>2, SettledStep, PTL DEF Spec

-----------------------------------------------------------------------------
(***************************************************************************)
(* How drives end.                                                         *)
(***************************************************************************)
\* The library drives what it has begun to drive, and close_edit is the last call of a
\* drive: no call has failed before it, and the driver has nothing left to use.
Ending ==
  /\ report = "open" => edit = "idle"
  /\ LibraryDrives => edit # "idle"
  /\ edit = "closed" => ~failed /\ (Orderly => held = {})

LEMMA EndingStep == TypeInv /\ Ending /\ [Next]_vars => Ending'
<1> SUFFICES ASSUME TypeInv, Ending, [Next]_vars PROVE Ending'
  OBVIOUS
<1>o. Orderly' = Orderly
  BY SameProgram
<1> USE <1>o DEF Ending, LibraryDrives, wrapper, reporting, heap
<1>1. CASE UNCHANGED vars
  BY <1>1 DEF vars
<1>2. CASE \E m \in Editors : NewEditor(m)
  BY <1>2 DEF NewEditor
<1>3. CASE DoUpdate \/ DoStatus
  BY <1>3 DEF DoUpdate, DoStatus
<1>4. CASE FinishReport \/ FinishReturns \/ AbortReport \/ DropReporter
  BY <1>4 DEF FinishReport, FinishReturns, AbortReport, DropReporter, EndReport
<1>5. CASE DropEditor
  BY <1>5 DEF DropEditor
<1>6. CASE ProgramDrives \/ CallFails \/ AbortEdit
  BY <1>6 DEF ProgramDrives, CallFails, AbortEdit, Driving
<1>7. CASE CloseEdit
  BY <1>7 DEF CloseEdit, Driving, Orderly
<1>8. ASSUME NEW b \in Batons, DropValue(b) PROVE Ending'
  BY <1>8 DEF DropValue
\* Whatever opens, writes or closes needs an edit that is being driven.
<1>9. ASSUME Driving, UNCHANGED <<report, edit>> PROVE Ending'
  BY <1>9 DEF Driving
<1>10. ASSUME NEW b \in Batons,
              OpenRoot(b) \/ LastWindow(b) \/ \E k \in {"dir", "file"} : Close(b, k)
       PROVE  Ending'
  BY <1>9, <1>10 DEF OpenRoot, LastWindow, Close, Usable
<1>11. ASSUME NEW b \in Batons, NEW d \in Batons,
              \/ \E k \in {"dir", "file"} : Enter(d, b, k)
              \/ ApplyTextdelta(d, b) \/ ApplyTextdeltaClosure(d, b)
       PROVE  Ending'
  BY <1>9, <1>11 DEF Enter, ApplyTextdelta, ApplyTextdeltaClosure, Usable
<1> QED
  BY <1>1, <1>2, <1>3, <1>4, <1>5, <1>6, <1>7, <1>8, <1>10, <1>11
  DEF Next, Reporting, Editing

\* What a drive that was closed leaves: nothing that is still in use, and nothing that is
\* allocated but what goes with a C editor.
ClosedClean ==
  Orderly /\ Tidy /\ edit = "closed" =>
    \A b \in Batons : box[b] = "live" => maker = "c" /\ kind[b] # "raw" /\ EditorLive

\* finish_report can end: its drive has ended, or there is the editor to abort it on.
DriveCanEnd ==
  Orderly /\ LibraryDrives =>
    edit \in {"closed", "aborted"} \/ (edit = "driving" /\ EditorLive)

(***************************************************************************)
(* A drive by the library, which keeps the order of svn_delta.h, is never  *)
(* stuck in finish_report, and when close_edit was reached, all that the   *)
(* drive has opened is freed.                                              *)
(***************************************************************************)
THEOREM DrivesEnd == Spec => [](ClosedClean /\ DriveCanEnd)
<1>1. Init => Ending
  BY DEF Init, Ending, LibraryDrives
<1>2. Spec => [](DriveInv /\ LeakInv /\ Ending)
  BY <1>1, DriveInit, DriveStep, LeakInit, LeakStep, EndingStep, PTL DEF Spec, DriveInv
<1>3. DriveInv /\ LeakInv /\ Ending => ClosedClean
  BY DEF LeakInv, Freed, NoLeak, Ending, ClosedClean
<1>4. DriveInv /\ LeakInv /\ Ending => DriveCanEnd
  BY DEF DriveInv, InUse, Unfinished, TypeInv, TypeOK, Ending, LibraryDrives, DriveCanEnd
<1> QED
  BY <1>2, <1>3, <1>4, PTL
=============================================================================
