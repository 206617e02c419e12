----------------------------- MODULE WcArguments -----------------------------
(***************************************************************************)
(* The operations of working copies (wc/mod.rs) that give C only arguments. *)
(* Those of a Context have its name before theirs where a function of the   *)
(* module has the same name.                                                *)
(***************************************************************************)
EXTENDS CallSteps

-----------------------------------------------------------------------------
\* Paths are made absolute, and converted with `?`.
context_check_wc             == Converted
context_text_modified        == Converted
context_props_modified       == Converted
conflicted                   == Converted
context_ensure_adm           == Converted
locked                       == Converted
upgrade                      == Converted
relocate                     == Converted
context_add                  == Converted
context_get_actual_target    == Converted
get_pristine_props           == Converted
process_committed_queue      == Converted
acquire_write_lock           == Converted
release_write_lock           == Converted
add_lock                     == Converted
prop_get                     == Converted
prop_list                    == Converted
get_prop_diffs               == Converted
read_kind                    == Converted
is_wc_root                   == Converted
merge                        == Converted
context_revert               == Converted
context_copy                 == Converted
set_changelist               == Converted
check_root                   == Converted
restore                      == Converted
get_ignores                  == Converted
remove_from_revision_control == Converted
get_pristine_copy_path       == Converted
add                          == Converted
delete                       == Converted
revert                       == Converted
copy_or_move                 == Converted
resolve_conflict             == Converted
canonicalize_svn_prop        == Converted
transmit_text_deltas         == Converted
transmit_prop_deltas_file    == Converted
transmit_prop_deltas_dir     == Converted

\* The functions of the module make a context for the call.
text_modified     == Opened
props_modified    == Opened
check_wc          == Opened
ensure_adm        == Opened
get_actual_target == Opened
cleanup           == Opened

\* The answer is a boolean.
match_ignore_list == << Try, Arg("args"), Tell, Ok >>

\* A context is made for the call here too; an answer that is NULL is an error.
revision_status == << Try, Arg("args"), Try, Call, Check, Try, Ok >>

\* Each external is converted after the call.
parse_externals_description == << Try, Arg("args"), Call, Check, Try, Ok >>

get_default_ignores == Asked

\* The queue keeps the path and the checksum in its own pool, and the pointer to the
\* array of properties, which goes with the frame, until it is processed.
queue_committed == << Try, Arg("wcprop_changes"), Call, Check, Untied >>

-----------------------------------------------------------------------------
(***************************************************************************)
(* The methods of an access baton (wc/adm.rs), which is their receiver.     *)
(***************************************************************************)
\* Paths are made absolute, names converted with `?`; arrays and tables of
\* properties are in the pool of the call.
adm_prop_set                     == Converted
adm_prop_get                     == Converted
adm_prop_list                    == Converted
adm_add                          == Converted
adm_add_repos_file               == Converted
adm_delete                       == Converted
adm_copy                         == Converted
adm_has_binary_prop              == Converted
adm_text_modified                == Converted
adm_props_modified               == Converted
adm_is_wc_root                   == Converted
adm_conflicted                   == Converted
adm_get_ancestry                 == Converted
adm_get_prop_diffs               == Converted
adm_mark_missing_deleted         == Converted
adm_maybe_set_repos_root         == Converted
adm_add_lock                     == Converted
adm_remove_lock                  == Converted
adm_remove_from_revision_control == Converted
adm_resolved_conflict            == Converted
adm_revert                       == Converted
adm_set_changelist               == Converted
adm_crop_tree                    == Converted
adm_merge_prop_diffs             == Converted
adm_translated_file              == Converted
adm_entry                        == Converted
adm_status                       == Converted
adm_transmit_text_deltas         == Converted
adm_merge                        == Converted
adm_merge_props                  == Converted
adm_process_committed_queue      == Converted

\* C keeps pointers into the pool that it is given: it is the one of the queue.
adm_queue_committed == Converted

adm_entries_read == Asked

\* The entry is asked for first, and there may be none.
adm_transmit_prop_deltas == Opened

\* What C answers, an error if it cannot release a lock, is a value that nobody
\* takes.
adm_close == << Call, Ok >>

-----------------------------------------------------------------------------
Functions ==
  [ context_check_wc |-> context_check_wc,
    context_text_modified |-> context_text_modified,
    context_props_modified |-> context_props_modified, conflicted |-> conflicted,
    context_ensure_adm |-> context_ensure_adm, locked |-> locked,
    upgrade |-> upgrade, relocate |-> relocate, context_add |-> context_add,
    context_get_actual_target |-> context_get_actual_target,
    get_pristine_props |-> get_pristine_props,
    process_committed_queue |-> process_committed_queue,
    acquire_write_lock |-> acquire_write_lock,
    release_write_lock |-> release_write_lock, add_lock |-> add_lock,
    prop_get |-> prop_get, prop_list |-> prop_list,
    get_prop_diffs |-> get_prop_diffs, read_kind |-> read_kind,
    is_wc_root |-> is_wc_root, merge |-> merge, context_revert |-> context_revert,
    context_copy |-> context_copy, set_changelist |-> set_changelist,
    check_root |-> check_root, restore |-> restore, get_ignores |-> get_ignores,
    remove_from_revision_control |-> remove_from_revision_control,
    get_pristine_copy_path |-> get_pristine_copy_path, add |-> add,
    delete |-> delete, revert |-> revert, copy_or_move |-> copy_or_move,
    resolve_conflict |-> resolve_conflict,
    canonicalize_svn_prop |-> canonicalize_svn_prop,
    transmit_text_deltas |-> transmit_text_deltas,
    transmit_prop_deltas_file |-> transmit_prop_deltas_file,
    transmit_prop_deltas_dir |-> transmit_prop_deltas_dir,
    text_modified |-> text_modified, props_modified |-> props_modified,
    check_wc |-> check_wc, ensure_adm |-> ensure_adm,
    get_actual_target |-> get_actual_target, cleanup |-> cleanup,
    match_ignore_list |-> match_ignore_list, revision_status |-> revision_status,
    parse_externals_description |-> parse_externals_description,
    get_default_ignores |-> get_default_ignores,
    queue_committed |-> queue_committed, adm_prop_set |-> adm_prop_set,
    adm_prop_get |-> adm_prop_get, adm_prop_list |-> adm_prop_list,
    adm_add |-> adm_add, adm_add_repos_file |-> adm_add_repos_file,
    adm_delete |-> adm_delete, adm_copy |-> adm_copy,
    adm_has_binary_prop |-> adm_has_binary_prop,
    adm_text_modified |-> adm_text_modified,
    adm_props_modified |-> adm_props_modified, adm_is_wc_root |-> adm_is_wc_root,
    adm_conflicted |-> adm_conflicted, adm_get_ancestry |-> adm_get_ancestry,
    adm_get_prop_diffs |-> adm_get_prop_diffs,
    adm_mark_missing_deleted |-> adm_mark_missing_deleted,
    adm_maybe_set_repos_root |-> adm_maybe_set_repos_root,
    adm_add_lock |-> adm_add_lock, adm_remove_lock |-> adm_remove_lock,
    adm_remove_from_revision_control |-> adm_remove_from_revision_control,
    adm_resolved_conflict |-> adm_resolved_conflict, adm_revert |-> adm_revert,
    adm_set_changelist |-> adm_set_changelist, adm_crop_tree |-> adm_crop_tree,
    adm_merge_prop_diffs |-> adm_merge_prop_diffs,
    adm_translated_file |-> adm_translated_file, adm_entry |-> adm_entry,
    adm_status |-> adm_status,
    adm_transmit_text_deltas |-> adm_transmit_text_deltas,
    adm_merge |-> adm_merge, adm_merge_props |-> adm_merge_props,
    adm_process_committed_queue |-> adm_process_committed_queue,
    adm_queue_committed |-> adm_queue_committed,
    adm_entries_read |-> adm_entries_read,
    adm_transmit_prop_deltas |-> adm_transmit_prop_deltas, adm_close |-> adm_close ]
=============================================================================
