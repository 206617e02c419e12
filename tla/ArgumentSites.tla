---------------------------- MODULE ArgumentSites ----------------------------
(***************************************************************************)
(* The functions of a client context (client.rs), and a few of sessions and *)
(* mergeinfo (ra.rs, mergeinfo.rs), that give C pointers to memory of their *)
(* own and no closure.  What lives on the frame, or in a pool that the      *)
(* function drops at its end, is one argument, "args".                      *)
(***************************************************************************)
EXTENDS CallSteps

-----------------------------------------------------------------------------
\* Paths and URLs are made canonical, and converted with `?`.
checkout              == Converted
switch                == Converted
add                   == Converted
vacuum                == Converted
cleanup               == Converted
cat                   == Converted
get_wc_root           == Converted
min_max_revisions     == Converted
url_from_path         == Converted
propget               == Converted
diff                  == Converted
resolved              == Converted
merge_sources         == Converted
merge_peg             == Converted
merge                 == Converted
get_merging_summary   == Converted
merge_reintegrate     == Converted
relocate              == Converted
revprop_set           == Converted
revprop_get           == Converted
revprop_list          == Converted
suggest_merge_sources == Converted
upgrade               == Converted

\* The options of the diff are parsed first; an error of that is returned.
diff_peg == Converted

\* An answer that is NULL is an error.
uuid_from_url  == << Try, Arg("args"), Call, Check, Try, Ok >>
uuid_from_path == << Try, Arg("args"), Call, Check, Try, Ok >>

\* These convert with unwrap().
update                 == Direct
lock                   == Direct
unlock                 == Direct
get_repos_root         == Direct
propget_with_inherited == Direct
propset                == Direct
resolve                == Direct
revert                 == Direct

-----------------------------------------------------------------------------
(***************************************************************************)
(* Memory that is gone when C reads it.                                    *)
(***************************************************************************)
\* `native_eol.map(|s| s.as_ptr())` drops the string in the closure.
export == << Try, Arg("args"), Temp("native_eol"), Call, Check, Ok >>

\* `for s in known_targets` drops each string in the loop that makes the array.
args_to_target_array == << Arg("args"), Temp("known_targets"), Call, Check, Ok >>

\* The strings of the list are dropped with the block that makes the array; propget
\* and its like return them from the block.
add_to_changelist       == << Arg("args"), Temp("changelists"), Call, Check, Ok >>
remove_from_changelists == << Arg("args"), Temp("changelists"), Call, Check, Ok >>

\* `if let Some(uuid) = uuid` moves the string into the block.
open == << Try, Arg("args"), Temp("uuid"), Call, Check, Ok >>

\* `Some(ptr) => &ptr` is the address of a variable of the match arm.
change_rev_prop2 == << Arg("args"), Temp("old_value"), Call, Check, Ok >>

\* `.map(|c| c.as_ptr())` drops the string in the closure.
inheritable == << Temp("path"), Call, Check, Ok >>

-----------------------------------------------------------------------------
(***************************************************************************)
(* The methods of a conflict and of its options.                            *)
(***************************************************************************)
prop_get_description                  == Asked
text_resolve_by_id                    == Asked
text_resolve                          == Asked
tree_resolve_by_id                    == Asked
tree_resolve                          == Asked
get_conflicted                        == Asked
get_repos_info                        == Asked
tree_get_description                  == Asked
tree_get_details                      == Asked
get_incoming_old_repos_location       == Asked
get_incoming_new_repos_location       == Asked
text_get_contents                     == Asked
get_moved_to_repos_relpath_candidates == Asked
set_moved_to_repos_relpath            == Asked
set_moved_to_abspath                  == Asked

\* The name of a property is converted with `?`.
prop_resolve_by_id       == Converted
prop_resolve_with_option == Converted
prop_get_propvals        == Converted

\* The candidates are converted after the call.
get_moved_to_abspath_candidates == << Call, Check, Try, Ok >>

\* The answer is a number.
prop_get_resolution == << Try, Arg("args"), Tell, Ok >>

-----------------------------------------------------------------------------
Functions ==
  [ checkout |-> checkout, switch |-> switch, add |-> add, vacuum |-> vacuum,
    cleanup |-> cleanup, cat |-> cat, get_wc_root |-> get_wc_root,
    min_max_revisions |-> min_max_revisions, url_from_path |-> url_from_path,
    propget |-> propget, diff |-> diff, resolved |-> resolved,
    merge_sources |-> merge_sources, merge_peg |-> merge_peg, merge |-> merge,
    get_merging_summary |-> get_merging_summary,
    merge_reintegrate |-> merge_reintegrate, relocate |-> relocate,
    revprop_set |-> revprop_set, revprop_get |-> revprop_get,
    revprop_list |-> revprop_list,
    suggest_merge_sources |-> suggest_merge_sources, upgrade |-> upgrade,
    diff_peg |-> diff_peg, uuid_from_url |-> uuid_from_url,
    uuid_from_path |-> uuid_from_path, update |-> update, lock |-> lock,
    unlock |-> unlock, get_repos_root |-> get_repos_root,
    propget_with_inherited |-> propget_with_inherited, propset |-> propset,
    resolve |-> resolve, revert |-> revert, export |-> export,
    args_to_target_array |-> args_to_target_array,
    add_to_changelist |-> add_to_changelist,
    remove_from_changelists |-> remove_from_changelists, open |-> open,
    change_rev_prop2 |-> change_rev_prop2, inheritable |-> inheritable,
    prop_get_description |-> prop_get_description,
    text_resolve_by_id |-> text_resolve_by_id, text_resolve |-> text_resolve,
    tree_resolve_by_id |-> tree_resolve_by_id, tree_resolve |-> tree_resolve,
    get_conflicted |-> get_conflicted, get_repos_info |-> get_repos_info,
    tree_get_description |-> tree_get_description,
    tree_get_details |-> tree_get_details,
    get_incoming_old_repos_location |-> get_incoming_old_repos_location,
    get_incoming_new_repos_location |-> get_incoming_new_repos_location,
    text_get_contents |-> text_get_contents, get_moved_to_repos_relpath_candidates
     |-> get_moved_to_repos_relpath_candidates,
    set_moved_to_repos_relpath |-> set_moved_to_repos_relpath,
    set_moved_to_abspath |-> set_moved_to_abspath,
    prop_resolve_by_id |-> prop_resolve_by_id,
    prop_resolve_with_option |-> prop_resolve_with_option,
    prop_get_propvals |-> prop_get_propvals,
    get_moved_to_abspath_candidates |-> get_moved_to_abspath_candidates,
    prop_get_resolution |-> prop_get_resolution ]
=============================================================================
