---------------------------- MODULE ReposArguments ----------------------------
(***************************************************************************)
(* The functions of repositories (repos.rs) that give C only arguments.     *)
(***************************************************************************)
EXTENDS CallSteps

-----------------------------------------------------------------------------
dir_delta2      == Converted
replay          == Converted
rev_prop        == Converted
change_rev_prop == Converted

\* These convert with unwrap().
has_capability         == Direct
fs_unlock              == Direct
fs_get_inherited_props == Direct

capabilities == Asked
commit_txn   == Asked
rev_proplist == Asked

\* The answer is converted.
uuid == << Call, Check, Try, Ok >>

\* The repository keeps the pointer to the array, which goes with the frame.
remember_client_capabilities == << Arg("capabilities"), Call, Check, Untied >>

-----------------------------------------------------------------------------
Functions ==
  [ dir_delta2 |-> dir_delta2, replay |-> replay, rev_prop |-> rev_prop,
    change_rev_prop |-> change_rev_prop, has_capability |-> has_capability,
    fs_unlock |-> fs_unlock, fs_get_inherited_props |-> fs_get_inherited_props,
    capabilities |-> capabilities, commit_txn |-> commit_txn,
    rev_proplist |-> rev_proplist, uuid |-> uuid,
    remember_client_capabilities |-> remember_client_capabilities ]
=============================================================================
