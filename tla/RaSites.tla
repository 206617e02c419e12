------------------------------ MODULE RaSites ------------------------------
(***************************************************************************)
(* The functions of a session (ra.rs) that give callbacks to C.             *)
(***************************************************************************)
EXTENDS CallSteps

get_log == << Box("log", "ref"), Call, Free("log", "ref"), Check, Ok >>

lock   == << Box("lock", "ref"), Call, Free("lock", "ref"), Check, Ok >>
unlock == << Box("lock", "ref"), Call, Free("lock", "ref"), Check, Ok >>

\* Each handler for the windows of a delta that the callback returns is boxed.
get_file_revs ==
  << Try, Box("handler", "ref"), Inner("delta", "own"), Call, Free("handler", "ref"),
     Check, Ok >>

list == << Frame("dirent", "ref"), Call, Check, Ok >>

get_location_segments == << Try, Frame("segment", "ref"), Call, Check, Ok >>

\* The address of ReplayRangeBaton, with those of both closures in it.
replay_range ==
  << Frame("revstart", "ref"), Frame("revfinish", "ref"), Call, Check, Ok >>

\* The dropper is attached after the error check; the editor's lifetime is that of
\* the session, not of the callback.
get_commit_editor ==
  << Box("commit", "ref"), Call, Check, Own("commit", "ref"), Untied >>

\* The reporter is the baton: R is 'static.
from_rust_reporter == << Box("reporter", "own"), Own("reporter", "own"), Tied >>

-----------------------------------------------------------------------------
Functions ==
  [ get_log |-> get_log, lock |-> lock, unlock |-> unlock,
    get_file_revs |-> get_file_revs, list |-> list,
    get_location_segments |-> get_location_segments, replay_range |-> replay_range,
    get_commit_editor |-> get_commit_editor,
    from_rust_reporter |-> from_rust_reporter ]
=============================================================================
