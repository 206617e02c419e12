---------------------------- MODULE ClientObjects ----------------------------
(***************************************************************************)
(* The functions of clients, sessions and working copies (client.rs, ra.rs, *)
(* wc/mod.rs, wc/adm.rs) and of authentication (auth.rs) that return a      *)
(* value with a pointer into a pool.                                       *)
(***************************************************************************)
EXTENDS ObjectKinds

-----------------------------------------------------------------------------
\* Sessions.
new_callbacks    == New("Callbacks")
open_session     == Inside("Callbacks", "Session")
new_context      == New("Context")
open_raw_session == Inside("Context", "Session")

session_get_lock  == Kind("Session", "Lock", "own", "nothing", "parent")
session_get_locks == Kind("Session", "Lock", "own", "nothing", "parent")

\* The pool of the call goes with it: from_raw takes none, and the one that the
\* mergeinfo is given is new and empty.
stat          == Lost("Session", "Dirent")
get_mergeinfo == Lost("Session", "Mergeinfo")

-----------------------------------------------------------------------------
\* Clients.
mergeinfo_get_merged == Copied("Context", "Mergeinfo")
conflict_get         == Copied("Context", "Conflict")

\* An option is a pointer into the pool of the conflict, with no lifetime.
text_get_resolution_options == Bare("Conflict", "ConflictOption")
prop_get_resolution_options == Bare("Conflict", "ConflictOption")
tree_get_resolution_options == Bare("Conflict", "ConflictOption")

-----------------------------------------------------------------------------
\* Working copies.
new_wc_context                 == New("WcContext")
status                         == Copied("WcContext", "WcStatus")
dup_status                     == Copied("WcStatus", "WcStatus")
get_pristine_contents          == Copied("WcContext", "Stream")
get_pristine_contents_of_path  == New("Stream")
new_committed_queue            == New("CommittedQueue")
new_wc_lock                    == New("WcLock")
open_adm                       == New("Adm")
probe_try                      == View("Adm", "Adm")
\* A baton that C has to open first is in the pool of the call.
probe_try_opens                == Lost("Adm", "Adm")
\* The editor works on the working copy that the baton has locked.
adm_get_switch_editor          == Loose("Adm", "Editor")

\* The names are copied when the pool they are in is gone.
get_actual_target == Lost("", "Target")

-----------------------------------------------------------------------------
\* Authentication.  Credentials are in the pools of the iteration, and it reads the
\* baton; neither has a lifetime.
open_auth        == New("AuthBaton")
credentials      == Loose("AuthBaton", "IterState")
next_credentials == Bare("IterState", "Credentials")
next             == Bare("IterState", "Credentials")

-----------------------------------------------------------------------------
Functions ==
  [ new_callbacks |-> new_callbacks, open_session |-> open_session,
    new_context |-> new_context, open_raw_session |-> open_raw_session,
    session_get_lock |-> session_get_lock,
    session_get_locks |-> session_get_locks, stat |-> stat,
    get_mergeinfo |-> get_mergeinfo,
    mergeinfo_get_merged |-> mergeinfo_get_merged, conflict_get |-> conflict_get,
    text_get_resolution_options |-> text_get_resolution_options,
    prop_get_resolution_options |-> prop_get_resolution_options,
    tree_get_resolution_options |-> tree_get_resolution_options,
    new_wc_context |-> new_wc_context, status |-> status,
    get_actual_target |-> get_actual_target, dup_status |-> dup_status,
    get_pristine_contents |-> get_pristine_contents,
    get_pristine_contents_of_path |-> get_pristine_contents_of_path,
    new_committed_queue |-> new_committed_queue, new_wc_lock |-> new_wc_lock,
    open_adm |-> open_adm, probe_try |-> probe_try, open_auth |-> open_auth,
    credentials |-> credentials, next_credentials |-> next_credentials,
    next |-> next, probe_try_opens |-> probe_try_opens,
    adm_get_switch_editor |-> adm_get_switch_editor ]
=============================================================================
