---------------------------- MODULE MCCallSites ----------------------------
EXTENDS CallSites

Ra     == INSTANCE RaSites
Repos  == INSTANCE ReposSites
Client == INSTANCE ClientSites
Wc     == INSTANCE WcSites
Fs     == INSTANCE FsSites
Auth   == INSTANCE AuthSites
Args   == INSTANCE ArgumentSites

RaArgs    == INSTANCE RaArguments
ReposArgs == INSTANCE ReposArguments
WcArgs    == INSTANCE WcArguments
FsArgs    == INSTANCE FsArguments
ToolArgs  == INSTANCE ToolArguments

Modules ==
  [ ra |-> Ra!Functions, repos |-> Repos!Functions, client |-> Client!Functions,
    wc |-> Wc!Functions, fs |-> Fs!Functions, auth |-> Auth!Functions,
    args |-> Args!Functions, raArgs |-> RaArgs!Functions,
    reposArgs |-> ReposArgs!Functions, wcArgs |-> WcArgs!Functions,
    fsArgs |-> FsArgs!Functions, toolArgs |-> ToolArgs!Functions ]

\* Every wrapper function, as a pair of its module and its name.
AllSites == UNION {{m} \X DOMAIN Modules[m] : m \in DOMAIN Modules}

AllPrograms == [f \in AllSites |-> Modules[f[1]][f[2]]]

\* What they give to C.
AllCallbacks ==
  { "args", "authz", "callback", "callbacks", "cancel", "capabilities",
    "changelists", "commit", "conflict", "credentials", "delta", "diff", "dirent",
    "external",
    "fetch_dirents", "filter", "freeze", "handler", "history", "known_targets",
    "lock", "log", "log_msg", "native_eol", "notify", "old_value", "patch", "path",
    "processor", "prompt", "receiver", "reporter", "revfinish", "revstart",
    "segment", "status", "summarize", "table", "uuid", "validator", "verify",
    "warning", "wcprop_changes" }

-----------------------------------------------------------------------------
(***************************************************************************)
(* The functions that break a rule.                                        *)
(***************************************************************************)
In(m, fs) == {m} \X fs

\* Some way out leaves a box behind.
Leaky ==
  In("ra", {"get_commit_editor", "get_file_revs"})
    \cup In("repos",
           {"load_fs", "load_fs_revprops", "pack_fs", "recover", "hotcopy", "freeze",
            "verify_fs", "upgrade", "fs_get_locks", "fs_pack", "get_commit_editor",
            "begin_report"})
    \cup In("client", {"import", "propset_remote"})
    \cup In("wc", {"get_update_editor4", "get_switch_editor"})
    \cup In("auth",
           {"get_ssl_client_cert_pw_file_provider_boxed", "get_simple_provider_boxed",
            "get_username_prompt_provider"})

\* A closure that was lent is dropped, or one that was taken is dropped again.
Mismatched ==
  In("repos", {"verify", "get_commit_editor"})
    \cup In("wc", {"resolved_conflict", "move_path", "delete", "prop_set"})
    \cup In("fs", {"freeze"})

\* A trampoline reads a fat pointer where there is none, or C an argument that is gone.
Misread ==
  In("repos", {"verify_fs", "upgrade"})
    \cup In("client", {"blame", "proplist_all", "import", "propset_remote"})
    \cup In("fs", {"copy_dir_recursively", "stream_copy", "remove_dir"})
    \cup In("auth",
           {"get_ssl_server_trust_prompt_provider", "get_ssl_client_cert_prompt_provider",
            "get_ssl_client_cert_pw_file_provider", "get_simple_prompt_provider",
            "get_username_prompt_provider", "get_simple_provider",
            "get_ssl_client_cert_pw_file_provider_boxed", "get_simple_provider_boxed"})
    \cup In("args",
           {"export", "args_to_target_array", "add_to_changelist",
            "remove_from_changelists", "open", "change_rev_prop2", "inheritable"})

\* The object can outlive the closure, or the arguments that C keeps.
Outlived ==
  In("ra", {"get_commit_editor"})
    \cup In("repos", {"get_commit_editor"})
    \cup In("auth",
           {"get_ssl_server_trust_prompt_provider", "get_ssl_client_cert_prompt_provider",
            "get_ssl_client_cert_pw_file_provider", "get_simple_prompt_provider",
            "get_username_prompt_provider", "get_simple_provider"})
    \cup In("reposArgs", {"remember_client_capabilities"})
    \cup In("wcArgs", {"queue_committed"})
    \cup In("fsArgs", {"access_add_lock_token"})

\* The error of C can be dropped without being cleared.
Unadopted ==
  In("repos", {"history"})
    \cup In("fs", {"freeze"})
    \cup In("raArgs", {"get_path_relative_to_root"})
    \cup In("wcArgs", {"adm_close"})

\* The functions that break a rule are the ones above: every other one keeps all the
\* rules, and so is right in the sense of the properties of CallSites.
Catalogue ==
  /\ site \in Leaky <=> ~Balanced(prog)
  /\ site \in Mismatched <=> ~Matching(prog)
  /\ site \in Misread <=> ~Fitting(prog)
  /\ site \in Outlived <=> ~Lasting(prog)
  /\ site \in Unadopted <=> ~Adopting(prog)
=============================================================================
