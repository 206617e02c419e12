--------------------------- MODULE MCObjectLives ---------------------------
EXTENDS ObjectLives

Fs     == INSTANCE FsObjects
Client == INSTANCE ClientObjects
Data   == INSTANCE DataObjects

Modules ==
  [fs |-> Fs!Functions, client |-> Client!Functions, data |-> Data!Functions]

\* Every function that returns a value with a pointer, as a pair of its module and
\* its name.
AllMakers == UNION {{m} \X DOMAIN Modules[m] : m \in DOMAIN Modules}

AllKinds == [f \in AllMakers |-> Modules[f[1]][f[2]]]

AllTypes == {AllKinds[f].gives : f \in AllMakers}

-----------------------------------------------------------------------------
(***************************************************************************)
(* The functions that break the rule.                                      *)
(***************************************************************************)
In(m, fs) == {m} \X fs

\* What the value points to is destroyed when the function returns.
Dead ==
  In("fs", {"file_checksum_force", "get_locks", "id"})
    \cup In("client",
           {"stat", "get_mergeinfo", "get_actual_target", "probe_try_opens"})
    \cup In("data", {"contents_checksum", "svndiff_from_streams", "file_checksum", "file_lock"})

\* The value has no lifetime, or one that is too long.
TooLong ==
  In("fs",
     {"file_contents", "get_file_delta_stream", "node_history", "apply_text",
      "apply_textdelta", "next_path_changed", "txn_apply_text", "repos_fs"})
    \cup In("client",
           {"text_get_resolution_options", "prop_get_resolution_options",
            "tree_get_resolution_options", "credentials", "next_credentials", "next",
            "adm_get_switch_editor"})
    \cup In("data",
           {"diff_mergeinfo_added", "diff_rangelist_added", "from_stringbuf",
            "stream_translated", "stream_translated_to_normal_form",
            "new_deltastream", "next_window", "depth_filter_editor", "open_root",
            "open_directory", "add_directory", "open_file", "add_file",
            "apply_textdelta_raw"})

\* The functions that break the rule are the ones above, and so every value that is
\* made with the others only is right in the sense of ValuesDefined.
Catalogue ==
  \A x \in live :
    /\ maker[x] \in Dead <=> What[maker[x]].memory = "dead"
    /\ maker[x] \in Dead \cup TooLong <=> ~Sound(What[maker[x]])

\* "That keeps every yielded FsPathChange valid for the iterator's lifetime, so they
\* may be collected" (fs.rs).
ChangesCollected ==
  \A x \in live : maker[x] = <<"fs", "next_path_changed">> => Defined(x)
=============================================================================
