----------------------------- MODULE FsObjects -----------------------------
(***************************************************************************)
(* The functions of repositories and filesystems (repos.rs, fs.rs, hash.rs) *)
(* that return a value with a pointer into a pool.                         *)
(***************************************************************************)
EXTENDS ObjectKinds

-----------------------------------------------------------------------------
\* Filesystems and revision roots.
create        == New("Fs")
open          == New("Fs")
\* Mutant: the lifetime is left out.
revision_root_untied == Loose("Fs", "Root")
revision_root == Inside("Fs", "Root")

\* Both find the filesystem behind the root, and have the lifetime of the root's own.
root_fs      == Kind("Root", "Fs", "own", "behind", "same")
closest_copy == Kind("Root", "Root", "own", "behind", "same")

\* What these return reads through the root, and has no lifetime.
file_contents         == Loose("Root", "Stream")
get_file_delta_stream == Loose("Root", "TxDeltaStream")
node_history          == Loose("Root", "NodeHistory")
apply_text            == Loose("Root", "Stream")
apply_textdelta       == Loose("Root", "Handler")

node_id == Copied("Root", "NodeId")
parse   == New("NodeId")

\* The change is copied into the pool of the iterator, and has the lifetime of the root.
paths_changed     == Inside("Root", "PathChangeIterator")
next_path_changed == Kind("PathChangeIterator", "FsPathChange", "parent", "nothing", "same")

dir_entries               == Copied("Root", "FsDirEntry")
dir_entries_optimal_order == Copied("Root", "FsDirEntry")
to_hashmap                == Part("FsDirEntry", "FsDirEntry")

\* The bytes are copied from a pool that was a temporary of the call before.
id == Lost("FsDirEntry", "Id")

\* The checksum is in the pool of with_tmp_pool.
file_checksum_force == Lost("Root", "Checksum")

-----------------------------------------------------------------------------
\* Locks.
lock     == Copied("Fs", "Lock")
get_lock == Copied("Fs", "Lock")
\* The callback keeps pointers to locks of a pool that goes with the call.
get_locks == Lost("Fs", "Lock")

-----------------------------------------------------------------------------
\* Transactions.
begin_txn      == Inside("Fs", "Transaction")
open_txn       == Inside("Fs", "Transaction")
txn_root       == Inside("Transaction", "TxnRoot")
txn_apply_text == Loose("TxnRoot", "Stream")

-----------------------------------------------------------------------------
\* Repositories.
create_with_config   == New("Repos")
open_repos           == New("Repos")
authz_read           == New("Authz")
authz_parse          == New("Authz")
fs_lock              == Copied("Repos", "Lock")
begin_txn_for_commit == Inside("Repos", "Transaction")
begin_txn_for_update == Inside("Repos", "Transaction")

\* The filesystem is the repository's; only the pool given with it is new.
repos_fs == Loose("Repos", "Fs")

-----------------------------------------------------------------------------
Functions ==
  [ create |-> create, open |-> open, revision_root |-> revision_root,
    root_fs |-> root_fs, closest_copy |-> closest_copy,
    file_contents |-> file_contents, get_file_delta_stream |-> get_file_delta_stream,
    node_history |-> node_history, apply_text |-> apply_text,
    apply_textdelta |-> apply_textdelta, node_id |-> node_id, parse |-> parse,
    paths_changed |-> paths_changed, next_path_changed |-> next_path_changed,
    dir_entries |-> dir_entries,
    dir_entries_optimal_order |-> dir_entries_optimal_order,
    to_hashmap |-> to_hashmap, id |-> id, file_checksum_force |-> file_checksum_force,
    lock |-> lock, get_lock |-> get_lock, get_locks |-> get_locks,
    begin_txn |-> begin_txn, open_txn |-> open_txn, txn_root |-> txn_root,
    txn_apply_text |-> txn_apply_text, create_with_config |-> create_with_config,
    open_repos |-> open_repos, authz_read |-> authz_read, authz_parse |-> authz_parse,
    fs_lock |-> fs_lock, begin_txn_for_commit |-> begin_txn_for_commit,
    begin_txn_for_update |-> begin_txn_for_update, repos_fs |-> repos_fs ]
=============================================================================
