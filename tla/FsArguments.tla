----------------------------- MODULE FsArguments -----------------------------
(***************************************************************************)
(* The functions of filesystems, their roots and transactions (fs.rs) that  *)
(* give C only arguments.  Those of a Transaction or a TxnRoot that a Root  *)
(* has too begin with txn.                                                  *)
(***************************************************************************)
EXTENDS CallSteps

-----------------------------------------------------------------------------
\* Roots.  Paths and names are converted with `?`.
is_dir             == Converted
is_file            == Converted
file_length        == Converted
node_prop          == Converted
check_path         == Converted
contents_changed   == Converted
props_changed      == Converted
node_created_rev   == Converted
contents_different == Converted
props_different    == Converted
node_has_props     == Converted
node_origin_rev    == Converted
copied_from        == Converted
node_relation      == Converted

proplist == Direct

\* An answer that is NULL is an error.
node_created_path == << Try, Arg("args"), Call, Check, Try, Ok >>

\* Filesystems.
revision_prop   == Converted
change_rev_prop == Converted
purge_txn       == Converted

unlock == Direct

revision_proplist      == Asked
generate_lock_token    == Asked
info_format            == Asked
refresh_revision_props == Asked

\* So is one that is NULL, or a string that is no UTF-8.
info              == << Call, Check, Try, Ok >>
list_transactions == << Call, Check, Try, Ok >>

\* The filesystem is opened by its path first.
info_config_files == << Arg("args"), Try, Call, Check, Ok >>

\* The access context is asked for first, and must be there; it keeps the pointers to
\* the path and the token, which go with the frame.
access_add_lock_token == << Arg("args"), Try, Call, Check, Untied >>

\* Transactions and their roots.
change_prop               == Converted
change_prop_bytes         == Converted
change_props              == Converted
prop                      == Converted
repos_change_prop         == Converted
repos_change_props        == Converted
delete                    == Converted
copy                      == Converted
txn_check_path            == Converted
revision_link             == Converted
repos_change_node_prop    == Converted
repos_get_inherited_props == Converted

txn_proplist == Asked

-----------------------------------------------------------------------------
Functions ==
  [ is_dir |-> is_dir, is_file |-> is_file, file_length |-> file_length,
    node_prop |-> node_prop, check_path |-> check_path,
    contents_changed |-> contents_changed, props_changed |-> props_changed,
    node_created_rev |-> node_created_rev, contents_different |-> contents_different,
    props_different |-> props_different, node_has_props |-> node_has_props,
    node_origin_rev |-> node_origin_rev, copied_from |-> copied_from,
    node_relation |-> node_relation, proplist |-> proplist,
    node_created_path |-> node_created_path, revision_prop |-> revision_prop,
    change_rev_prop |-> change_rev_prop, purge_txn |-> purge_txn, unlock |-> unlock,
    revision_proplist |-> revision_proplist,
    generate_lock_token |-> generate_lock_token, info_format |-> info_format,
    refresh_revision_props |-> refresh_revision_props, info |-> info,
    list_transactions |-> list_transactions, info_config_files |-> info_config_files,
    access_add_lock_token |-> access_add_lock_token, change_prop |-> change_prop,
    change_prop_bytes |-> change_prop_bytes, change_props |-> change_props,
    prop |-> prop, repos_change_prop |-> repos_change_prop,
    repos_change_props |-> repos_change_props, delete |-> delete, copy |-> copy,
    txn_check_path |-> txn_check_path, revision_link |-> revision_link,
    repos_change_node_prop |-> repos_change_node_prop,
    repos_get_inherited_props |-> repos_get_inherited_props,
    txn_proplist |-> txn_proplist ]
=============================================================================
