------------------------------ MODULE WcSites ------------------------------
(***************************************************************************)
(* The functions of a working copy (wc/mod.rs) and of an access baton       *)
(* (wc/adm.rs) that give callbacks to C.                                    *)
(* box_*_baton boxes a Box<dyn Fn> and box_*_baton_borrowed a &dyn Fn; each *)
(* has its own dropper.                                                    *)
(***************************************************************************)
EXTENDS CallSteps

-----------------------------------------------------------------------------
(***************************************************************************)
(* Callbacks that are lent for the call.                                   *)
(***************************************************************************)
crawl_revisions5 ==
  << Try, Box("notify", "ref"), Call, Free("notify", "ref"), Check, Ok >>
crop_tree == << Try, Box("cancel", "ref"), Call, Free("cancel", "ref"), Check, Ok >>
add_from_disk ==
  << Try, Box("notify", "ref"), Call, Free("notify", "ref"), Check, Ok >>
exclude ==
  << Try, Box("cancel", "ref"), Box("notify", "ref"), Call,
     Free("cancel", "ref"), Free("notify", "ref"), Check, Ok >>

adm_crawl_revisions ==
  << Try, Box("notify", "ref"), Call, Free("notify", "ref"), Check, Ok >>

\* The address of a reference, or of the closure for a generic trampoline.
get_changelists  == << Try, Frame("callback", "ref"), Call, Check, Ok >>
adm_relocate     == << Try, Frame("validator", "ref"), Call, Check, Ok >>
adm_walk_entries == << Try, Frame("callback", "ref"), Call, Check, Ok >>

\* These drop their cancel baton as a Box<dyn Fn>.
resolved_conflict ==
  << Try, Box("cancel", "ref"), Call, Free("cancel", "own"), Check, Ok >>
move_path ==
  << Try, Box("cancel", "ref"), Box("notify", "ref"), Call,
     Free("cancel", "own"), Free("notify", "ref"), Check, Ok >>
delete ==
  << Try, Box("cancel", "ref"), Box("notify", "ref"), Call,
     Free("cancel", "own"), Free("notify", "ref"), Check, Ok >>
prop_set ==
  << Try, Box("cancel", "ref"), Box("notify", "ref"), Call,
     Free("cancel", "own"), Free("notify", "ref"), Check, Ok >>

-----------------------------------------------------------------------------
(***************************************************************************)
(* Callbacks that are moved in.                                            *)
(***************************************************************************)
walk_status == << Try, Box("status", "own"), Call, Free("status", "own"), Check, Ok >>
add_repos_file ==
  << Try, Box("cancel", "own"), Call, Free("cancel", "own"), Check, Ok >>
merge_props ==
  << Try, Box("conflict", "own"), Box("cancel", "own"), Call,
     Free("conflict", "own"), Free("cancel", "own"), Check, Ok >>

\* The droppers are attached after the error check.
get_update_editor4 ==
  << Try, Box("fetch_dirents", "own"), Box("conflict", "own"), Box("external", "own"),
     Box("cancel", "own"), Box("notify", "own"), Call, Check,
     Own("fetch_dirents", "own"), Own("conflict", "own"), Own("external", "own"),
     Own("cancel", "own"), Own("notify", "own"), Tied >>
get_switch_editor == get_update_editor4

\* The table of C callbacks and a box of `&'s mut dyn DiffCallbacks` are Boxes until
\* the call has succeeded.
get_diff_editor ==
  << Try, Held("table", "own"), Held("callbacks", "ref"), Call, Check,
     Own("table", "own"), Own("callbacks", "ref"), Tied >>

\* The address of a reference to the DiffCallbacks, and a table on the frame.
diff == << Try, Arg("args"), Frame("callbacks", "ref"), Call, Check, Ok >>

-----------------------------------------------------------------------------
Functions ==
  [ crawl_revisions5 |-> crawl_revisions5, crop_tree |-> crop_tree,
    add_from_disk |-> add_from_disk, exclude |-> exclude,
    resolved_conflict |-> resolved_conflict, move_path |-> move_path,
    delete |-> delete, prop_set |-> prop_set, walk_status |-> walk_status,
    add_repos_file |-> add_repos_file, merge_props |-> merge_props,
    get_update_editor4 |-> get_update_editor4,
    get_switch_editor |-> get_switch_editor, get_diff_editor |-> get_diff_editor,
    get_changelists |-> get_changelists, diff |-> diff, adm_crawl_revisions |-> adm_crawl_revisions,
    adm_relocate |-> adm_relocate, adm_walk_entries |-> adm_walk_entries ]
=============================================================================
