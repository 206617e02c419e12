----------------------------- MODULE ReposSites -----------------------------
(***************************************************************************)
(* The functions of a repository (repos.rs) that give callbacks to C.       *)
(***************************************************************************)
EXTENDS CallSteps

-----------------------------------------------------------------------------
(***************************************************************************)
(* Boxes made in the argument list: no pointer to them is kept.             *)
(***************************************************************************)
load_fs ==
  << Try, Box("notify", "own"), Box("cancel", "own"), Call, Check, Ok >>
load_fs_revprops ==
  << Box("notify", "own"), Box("cancel", "own"), Call, Check, Ok >>
pack_fs == << Box("notify", "own"), Box("cancel", "own"), Call, Check, Ok >>
recover == << Box("notify", "own"), Box("cancel", "own"), Call, Check, Ok >>
hotcopy == << Box("notify", "own"), Box("cancel", "own"), Call, Check, Ok >>
freeze  == << Box("freeze", "own"), Call, Check, Ok >>

\* The callback is a reference to a closure, boxed without making it a dyn.
verify_fs ==
  << Box("notify", "own"), Box("verify", "thin"), Box("cancel", "own"),
     Call, Check, Ok >>

\* What is boxed is the address of the trampoline.
upgrade == << Box("notify", "thin"), Call, Check, Ok >>

fs_get_locks == << Box("authz", "own"), Call, Check, Ok >>

-----------------------------------------------------------------------------
(***************************************************************************)
(* Boxes freed after the call.                                             *)
(***************************************************************************)
dump ==
  << Box("notify", "own"), Box("filter", "own"), Box("cancel", "own"), Call,
     Free("notify", "own"), Free("filter", "own"), Free("cancel", "own"), Check, Ok >>

\* Mutant: the cancel baton is freed only when the load succeeds.
load_checks_first ==
  << Box("notify", "own"), Box("cancel", "own"), Call,
     Free("notify", "own"), Check, Free("cancel", "own"), Ok >>

load ==
  << Box("notify", "own"), Box("cancel", "own"), Call,
     Free("notify", "own"), Free("cancel", "own"), Check, Ok >>
Repos_recover ==
  << Box("notify", "own"), Box("cancel", "own"), Call,
     Free("notify", "own"), Free("cancel", "own"), Check, Ok >>

\* verify_callback is an Option<&dyn Fn>: a reference is boxed and a Box dropped.
verify ==
  << Box("notify", "own"), Box("verify", "ref"), Box("cancel", "own"), Call,
     Free("notify", "own"), Free("verify", "own"), Free("cancel", "own"), Check, Ok >>

\* Repos::open(path)? comes between the boxes and the call.
fs_pack ==
  << Box("notify", "own"), Box("cancel", "own"), Try, Call,
     Free("notify", "own"), Free("cancel", "own"), Check, Ok >>

get_logs == << Box("log", "ref"), Call, Free("log", "ref"), Check, Ok >>

-----------------------------------------------------------------------------
(***************************************************************************)
(* Batons on the frame.                                                    *)
(***************************************************************************)
check_revision_access == << Frame("authz", "ref"), Call, Check, Ok >>
get_file_revs          == << Frame("handler", "ref"), Call, Check, Ok >>
node_location_segments == << Frame("receiver", "ref"), Call, Check, Ok >>
fs_get_mergeinfo       == << Try, Frame("receiver", "ref"), Call, Check, Ok >>
list                   == << Frame("receiver", "ref"), Try, Call, Check, Ok >>

\* A structure with the reference that the trampoline reads.
fs_lock_many   == << Frame("callback", "ref"), Call, Check, Ok >>
fs_unlock_many == << Frame("callback", "ref"), Call, Check, Ok >>

\* The error of the callback is returned first, and that of C is dropped unseen.
history == << Try, Frame("history", "ref"), Call, Stashed, Check, Ok >>

-----------------------------------------------------------------------------
(***************************************************************************)
(* Objects that keep C's callbacks.                                        *)
(***************************************************************************)
\* The commit callback is a reference: it is dropped as a Box if the call fails, and
\* only the authz callback is given a dropper if it does not.
get_commit_editor ==
  << Try, Box("commit", "ref"), Box("authz", "own"), Call,
     FreeIfErr("commit", "own"), FreeIfErr("authz", "own"), Check,
     Own("authz", "own"), Untied >>

begin_report == << Box("authz", "own"), Call, Check, Own("authz", "own"), Tied >>

-----------------------------------------------------------------------------
Functions ==
  [ load_fs |-> load_fs, load_fs_revprops |-> load_fs_revprops, pack_fs |-> pack_fs,
    recover |-> recover, hotcopy |-> hotcopy, freeze |-> freeze,
    verify_fs |-> verify_fs, upgrade |-> upgrade, fs_get_locks |-> fs_get_locks,
    dump |-> dump, load |-> load, Repos_recover |-> Repos_recover, verify |-> verify,
    fs_pack |-> fs_pack, get_logs |-> get_logs,
    check_revision_access |-> check_revision_access, get_file_revs |-> get_file_revs,
    node_location_segments |-> node_location_segments,
    fs_get_mergeinfo |-> fs_get_mergeinfo, list |-> list, history |-> history,
    get_commit_editor |-> get_commit_editor, begin_report |-> begin_report,
    fs_lock_many |-> fs_lock_many, fs_unlock_many |-> fs_unlock_many ]
=============================================================================
