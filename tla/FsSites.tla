------------------------------ MODULE FsSites ------------------------------
(***************************************************************************)
(* The functions of a filesystem (fs.rs), and of the files, hashes,         *)
(* configurations, containers and path drivers (io.rs, hash.rs, config.rs,  *)
(* iter.rs, delta.rs), that give callbacks to C.                           *)
(***************************************************************************)
EXTENDS CallSteps

pack ==
  << Box("notify", "own"), Box("cancel", "own"), Call,
     Free("notify", "own"), Free("cancel", "own"), Check, Ok >>
verify ==
  << Box("notify", "own"), Box("cancel", "own"), Call,
     Free("notify", "own"), Free("cancel", "own"), Check, Ok >>
hotcopy ==
  << Box("notify", "own"), Box("cancel", "own"), Call,
     Free("notify", "own"), Free("cancel", "own"), Check, Ok >>
recover == << Box("cancel", "own"), Call, Free("cancel", "own"), Check, Ok >>

upgrade ==
  << Box("notify", "own"), Box("cancel", "own"), Call,
     Free("notify", "own"), Free("cancel", "own"), Check, Ok >>

\* The trampoline takes the FnOnce with ptr::read out of a wrapper that drops it
\* again; the callback's error is returned first.
freeze == << Frame("freeze", "once"), Call, Stashed, Check, Ok >>

\* A structure with the reference that the trampoline reads.
lock_many     == << Frame("callback", "ref"), Call, Check, Ok >>
unlock_many   == << Frame("callback", "ref"), Call, Check, Ok >>
get_mergeinfo == << Try, Frame("receiver", "ref"), Call, Check, Ok >>

\* The Box stays a Rust value.
try_process_file_contents == << Try, Held("processor", "own"), Call, Check, Ok >>

\* The Fs keeps the box, after C has been told.
set_warning_func ==
  << Box("warning", "own"), Tell, Own("warning", "own"), Tied >>

-----------------------------------------------------------------------------
(***************************************************************************)
(* Files: the address of a variable of an inner block, a reference to a     *)
(* closure that is no dyn.                                                 *)
(***************************************************************************)
copy_dir_recursively == << Block("cancel", "thin"), Call, Check, Ok >>
stream_copy          == << Block("cancel", "thin"), Call, Check, Ok >>
remove_dir           == << Block("cancel", "thin"), Call, Check, Ok >>

-----------------------------------------------------------------------------
(***************************************************************************)
(* Enumerations.                                                           *)
(***************************************************************************)
diff == << Box("diff", "own"), Call, Free("diff", "own"), Check, Ok >>

\* Generic trampolines that read the closure itself.
enumerate_sections == << Frame("callback", "ref"), Tell, Ok >>
enumerate          == << Try, Frame("callback", "ref"), Tell, Ok >>

iter_hash  == << Frame("callback", "ref"), Call, Check, Ok >>
iter_array == << Frame("callback", "ref"), Call, Check, Ok >>

path_driver == << Try, Held("callback", "own"), Call, Check, Ok >>

-----------------------------------------------------------------------------
Functions ==
  [ pack |-> pack, verify |-> verify, hotcopy |-> hotcopy, recover |-> recover,
    upgrade |-> upgrade, freeze |-> freeze, lock_many |-> lock_many,
    unlock_many |-> unlock_many, get_mergeinfo |-> get_mergeinfo,
    try_process_file_contents |-> try_process_file_contents,
    set_warning_func |-> set_warning_func,
    copy_dir_recursively |-> copy_dir_recursively, stream_copy |-> stream_copy,
    remove_dir |-> remove_dir, diff |-> diff,
    enumerate_sections |-> enumerate_sections, enumerate |-> enumerate,
    iter_hash |-> iter_hash, iter_array |-> iter_array,
    path_driver |-> path_driver ]
=============================================================================
