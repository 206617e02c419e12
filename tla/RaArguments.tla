----------------------------- MODULE RaArguments -----------------------------
(***************************************************************************)
(* The queries of a session (ra.rs) that give C only arguments.             *)
(***************************************************************************)
EXTENDS CallSteps

-----------------------------------------------------------------------------
\* Paths and properties are converted with `?`.
get_file            == Converted
get_dir             == Converted
get_locations       == Converted
get_inherited_props == Converted

\* These convert with unwrap().
get_path_relative_to_session == Direct
change_revprop               == Direct
rev_prop                     == Direct
get_deleted_rev              == Direct
has_capability               == Direct
get_dir_props                == Direct

get_latest_revnum  == Asked
get_dated_revision == Asked

\* The revision is validated first.
rev_proplist == << Try, Call, Check, Ok >>

\* The one query that returns a string and no Result: the error is not looked at.
get_path_relative_to_root == << Arg("args"), Call, Ok >>

-----------------------------------------------------------------------------
Functions ==
  [ get_file |-> get_file, get_dir |-> get_dir, get_locations |-> get_locations,
    get_inherited_props |-> get_inherited_props,
    get_path_relative_to_session |-> get_path_relative_to_session,
    change_revprop |-> change_revprop, rev_prop |-> rev_prop,
    get_deleted_rev |-> get_deleted_rev, has_capability |-> has_capability,
    get_dir_props |-> get_dir_props, get_latest_revnum |-> get_latest_revnum,
    get_dated_revision |-> get_dated_revision, rev_proplist |-> rev_proplist,
    get_path_relative_to_root |-> get_path_relative_to_root ]
=============================================================================
