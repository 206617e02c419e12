----------------------------- MODULE DataObjects -----------------------------
(***************************************************************************)
(* The functions of data in pools (mergeinfo.rs, diff.rs, config.rs, io.rs, *)
(* subst.rs, delta.rs, lib.rs) that return a value with a pointer into one. *)
(***************************************************************************)
EXTENDS ObjectKinds

-----------------------------------------------------------------------------
\* Mergeinfo.
parse_mergeinfo       == New("Mergeinfo")
remove_mergeinfo      == Copied("Mergeinfo", "Mergeinfo")
intersect_mergeinfo   == Copied("Mergeinfo", "Mergeinfo")
dup_mergeinfo         == Copied("Mergeinfo", "Mergeinfo")
inheritable_mergeinfo == Copied("Mergeinfo", "Mergeinfo")
new_catalog           == New("MergeinfoCatalog")
dup_catalog           == Copied("MergeinfoCatalog", "MergeinfoCatalog")

new_rangelist         == New("Rangelist")
remove_rangelist      == Copied("Rangelist", "Rangelist")
intersect_rangelist   == Copied("Rangelist", "Rangelist")
dup_rangelist         == Copied("Rangelist", "Rangelist")
inheritable_rangelist == Copied("Rangelist", "Rangelist")

\* A difference is two values.  C makes both in the pool that goes with the first;
\* the one that the second is given is new and empty.
diff_mergeinfo          == Copied("Mergeinfo", "DeletedMergeinfo")
diff_mergeinfo_added    == Bare("DeletedMergeinfo", "Mergeinfo")
diff_rangelist          == Copied("Rangelist", "DeletedRangelist")
diff_rangelist_added    == Bare("DeletedRangelist", "Rangelist")

-----------------------------------------------------------------------------
\* Diffs, patches and configuration.
file_diff        == New("Diff")
file_diff3       == New("Diff")
file_diff4       == New("Diff")
mem_string_diff  == New("Diff")
open_patch_file  == New("PatchFile")
next_patch       == View("PatchFile", "Patch")
hunks            == View("Patch", "DiffHunk")
get_config_hash  == New("ConfigHash")
get_config       == New("Config")
read_config      == New("Config")

-----------------------------------------------------------------------------
\* Streams and their translations: the new stream reads the old one.
new_stringbuf                    == New("StringBuf")
try_from_stringbuf               == New("StringBuf")
open_readonly                    == New("Stream")
open_writable                    == New("Stream")
open_unique                      == New("Stream")
stdin                            == New("Stream")
stderr                           == New("Stream")
stdout                           == New("Stream")
from_bytes                       == New("Stream")
from_stringbuf                   == Loose("StringBuf", "Stream")
stream_translated                == Loose("Stream", "Stream")
stream_translated_to_normal_form == Loose("Stream", "Stream")
stream_detranslated              == New("Stream")
read_specialfile                 == New("Stream")
create_specialfile               == New("Stream")

\* The pool of the checksum goes with the call.
contents_checksum    == Lost("Stream", "Checksum")
svndiff_from_streams == Lost("Stream", "Checksum")
file_checksum        == Lost("", "Checksum")

\* What a program holds of a lock is a file that is open in a pool: that of the call.
file_lock == Lost("", "FileLock")

-----------------------------------------------------------------------------
\* Text deltas.
new_window      == New("TxDeltaWindow")
from_parts      == New("TxDeltaWindow")
compose         == Copied("TxDeltaWindow", "TxDeltaWindow")
dup_window      == Copied("TxDeltaWindow", "TxDeltaWindow")
new_deltastream == Loose("Stream", "TxDeltaStream")
\* The window is put into a value that has a pool of its own, new and empty.
next_window     == Bare("TxDeltaStream", "TxDeltaWindow")

-----------------------------------------------------------------------------
\* Editors.  Directories and files are in the pool of the editor.
default_editor      == New("Editor")
depth_filter_editor == Loose("Editor", "Editor")
open_root           == Kind("Editor", "Directory", "parent", "parent", "same")
open_directory      == Kind("Directory", "Directory", "parent", "parent", "same")
add_directory       == Kind("Directory", "Directory", "parent", "parent", "same")
open_file           == Kind("Directory", "File", "parent", "parent", "same")
add_file            == Kind("Directory", "File", "parent", "parent", "same")
apply_textdelta_raw == Loose("File", "Handler")

-----------------------------------------------------------------------------
\* Values in a pool of the program, which they borrow, and copies.
new_pool             == New("Pool")
new_checksum_context == View("Pool", "ChecksumContext")
checksum             == View("Pool", "Checksum")
deserialize          == View("Pool", "Checksum")
new_ssl_server_trust == View("Pool", "SslServerTrustCredentials")
create_lock          == New("Lock")
dup_lock             == Copied("Lock", "Lock")

-----------------------------------------------------------------------------
Functions ==
  [ parse_mergeinfo |-> parse_mergeinfo, remove_mergeinfo |-> remove_mergeinfo,
    intersect_mergeinfo |-> intersect_mergeinfo, dup_mergeinfo |-> dup_mergeinfo,
    inheritable_mergeinfo |-> inheritable_mergeinfo, new_catalog |-> new_catalog,
    dup_catalog |-> dup_catalog, new_rangelist |-> new_rangelist,
    remove_rangelist |-> remove_rangelist,
    intersect_rangelist |-> intersect_rangelist, dup_rangelist |-> dup_rangelist,
    inheritable_rangelist |-> inheritable_rangelist,
    diff_mergeinfo |-> diff_mergeinfo,
    diff_mergeinfo_added |-> diff_mergeinfo_added,
    diff_rangelist |-> diff_rangelist,
    diff_rangelist_added |-> diff_rangelist_added, file_diff |-> file_diff,
    file_diff3 |-> file_diff3, file_diff4 |-> file_diff4,
    mem_string_diff |-> mem_string_diff, open_patch_file |-> open_patch_file,
    next_patch |-> next_patch, hunks |-> hunks,
    get_config_hash |-> get_config_hash, get_config |-> get_config,
    read_config |-> read_config, new_stringbuf |-> new_stringbuf,
    try_from_stringbuf |-> try_from_stringbuf, from_stringbuf |-> from_stringbuf,
    stream_translated |-> stream_translated,
    stream_translated_to_normal_form |-> stream_translated_to_normal_form,
    stream_detranslated |-> stream_detranslated,
    read_specialfile |-> read_specialfile,
    create_specialfile |-> create_specialfile,
    contents_checksum |-> contents_checksum, file_checksum |-> file_checksum,
    svndiff_from_streams |-> svndiff_from_streams, new_window |-> new_window,
    from_parts |-> from_parts, compose |-> compose, dup_window |-> dup_window,
    new_deltastream |-> new_deltastream, next_window |-> next_window,
    default_editor |-> default_editor,
    depth_filter_editor |-> depth_filter_editor, open_root |-> open_root,
    open_directory |-> open_directory, add_directory |-> add_directory,
    open_file |-> open_file, add_file |-> add_file,
    apply_textdelta_raw |-> apply_textdelta_raw, new_pool |-> new_pool,
    new_checksum_context |-> new_checksum_context, checksum |-> checksum,
    deserialize |-> deserialize, new_ssl_server_trust |-> new_ssl_server_trust,
    create_lock |-> create_lock, dup_lock |-> dup_lock,
    open_readonly |-> open_readonly, open_writable |-> open_writable,
    open_unique |-> open_unique, stdin |-> stdin, stderr |-> stderr,
    stdout |-> stdout, from_bytes |-> from_bytes, file_lock |-> file_lock ]
=============================================================================
