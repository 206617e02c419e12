---------------------------- MODULE ClientSites ----------------------------
(***************************************************************************)
(* The functions of a client context (client.rs) that give callbacks to C.  *)
(***************************************************************************)
EXTENDS CallSteps

-----------------------------------------------------------------------------
(***************************************************************************)
(* The baton is the address of a reference: in the options of the caller,   *)
(* or of the parameter itself.                                             *)
(***************************************************************************)
mkdir          == << Frame("commit", "ref"), Call, Check, Ok >>
delete         == << Frame("commit", "ref"), Call, Check, Ok >>
mkdir_multiple == << Frame("commit", "ref"), Call, Check, Ok >>
copy           == << Try, Frame("commit", "ref"), Call, Check, Ok >>
move_path      == << Try, Frame("commit", "ref"), Call, Check, Ok >>
patch          == << Try, Frame("patch", "ref"), Call, Check, Ok >>

log                == << Frame("receiver", "ref"), Call, Check, Ok >>
mergeinfo_log      == << Frame("receiver", "ref"), Call, Check, Ok >>
info               == << Try, Frame("receiver", "ref"), Call, Check, Ok >>
diff_summarize     == << Frame("summarize", "ref"), Call, Check, Ok >>
diff_summarize_peg == << Frame("summarize", "ref"), Call, Check, Ok >>
list               == << Frame("receiver", "ref"), Call, Check, Ok >>
get_changelists    == << Frame("receiver", "ref"), Call, Check, Ok >>

\* The trampoline keeps the error in WalkBaton, and lets C go on.
conflict_walk == << Try, Frame("callback", "ref"), Call, Check, Stashed, Ok >>

\* `receiver as *mut _` is the address of the closure: the cast drops the vtable.
\* The names of the changelists are dropped in the loop that makes the array of them.
blame        == << Try, Bare("receiver"), Call, Check, Ok >>
proplist_all == << Temp("changelists"), Bare("receiver"), Call, Check, Ok >>

-----------------------------------------------------------------------------
(***************************************************************************)
(* Boxes.                                                                  *)
(***************************************************************************)
proplist == << Try, Box("receiver", "ref"), Call, Free("receiver", "ref"), Check, Ok >>

status == << Try, Box("status", "ref"), Call, Free("status", "ref"), Check, Ok >>

commit ==
  << Box("log_msg", "ref"), Box("commit", "ref"), Call,
     Free("log_msg", "ref"), Free("commit", "ref"), Check, Ok >>

\* `ref mut cb` is a reference to the reference in the options, and it is boxed
\* where mkdir casts it.
import ==
  << Try, Box("filter", "thin"), Box("commit", "thin"), Try, Call,
     Free("filter", "ref"), Free("commit", "ref"), Check, Ok >>

propset_remote == << Box("commit", "thin"), Call, Check, Ok >>

-----------------------------------------------------------------------------
Functions ==
  [ mkdir |-> mkdir, delete |-> delete, mkdir_multiple |-> mkdir_multiple,
    copy |-> copy, move_path |-> move_path, patch |-> patch, log |-> log,
    mergeinfo_log |-> mergeinfo_log, info |-> info,
    diff_summarize |-> diff_summarize, diff_summarize_peg |-> diff_summarize_peg,
    list |-> list, get_changelists |-> get_changelists,
    conflict_walk |-> conflict_walk, blame |-> blame, proplist_all |-> proplist_all,
    proplist |-> proplist, status |-> status, commit |-> commit, import |-> import,
    propset_remote |-> propset_remote ]
=============================================================================
