# A verification project for the Subversion bindings

The crate `subversion` (`src/src/`) is a Rust binding of the Subversion C
libraries.  Almost every function of it converts arguments, calls one C
function and converts the result.  What is its own, and what is easy to get
wrong, is the traffic across the boundary: Rust closures and boxes whose address
is handed to C as a *baton*, C objects in pools that Rust values point into,
trampolines (`extern "C"` functions) that turn one into the other, errors that
change owner on every crossing, editors that are driven from either side, and
one component with real threads.  The Rust compiler checks none of this: the
lifetimes in `unsafe` code are what the author wrote.  That is what these TLA+
modules are about.

Paths below are relative to the repository (`src/ra.rs` is `src/src/ra.rs` in
`PROJECT.json`).

## Inventory

| Component | Source | State it keeps | Operations | What is hard |
|---|---|---|---|---|
| Errors | `error.rs`, the trampolines of `lib.rs`, `ra.rs`, `fs.rs`, `client.rs` | `ptr`, `owns_ptr`, lifetime of each `Error`; the C chains and their pools | make, chain, view (`child`, `find_cause`, `purge_tracing`), copy, hand over (`into_raw`, `detach`), take over (`from_raw`), drop | ownership that moves both ways; views without a real lifetime; one clear frees a whole chain |
| Log iteration | `ra.rs` 338-370, 1347-1410; `client.rs` 1941-1970, 3628-3685 | worker thread, bounded channel, receiver, join handle, raw session pointer | `iter_logs`, `next`, drop, forget, the worker's retrieval | two threads, blocking on both ends of a channel, cancellation, a pointer shared without a lifetime |
| Delta editors | `delta.rs` | vtable in a pool, boxed directories, files and handlers as batons | open, add, close, text deltas, close or abort of the edit | drives from C or from Rust; boxes freed inside callbacks, only on success; values callable after `close(&mut self)` |
| Reporters | `ra.rs` 929-1083, 2437-2650 | vtable and baton of a report in progress | `do_update`, `do_switch`, `do_status`, `diff`, `finish_report`, `abort_report`, drop | the session is in the middle of a report until it ends; the editor is kept by C without a borrow |
| Streams | `io.rs`, `io/backend.rs`, `io/builder.rs` | boxed backends and writers, `needs_close`, layering of C streams | constructors, `close`, `disown`, `tee`, `compressed`, `checksummed`, functions that consume a stream, drop | who closes, once; layers without lifetimes; partial reads and writes |
| Client context | `client.rs` 2608-2785, 3257-3356; `auth.rs` 28-37, 341-393, 475-504 | slots for cancel, log message, conflict, configuration and authentication, the fields that own what they point to; the parameters of an authentication baton | setters, operations, `commit`, drop | a slot outlives what it points to; a baton of one shape read as another; save and restore around a call; a table in C of names that Rust keeps |
| Filesystem | `fs.rs`, `repos.rs` 1571-1650, 1735-1781 | the store of revisions and transactions; handles on them; roots, nodes, locks | `begin_txn`, `open_txn`, `apply_text`, `set_file_contents`, `commit`, `abort`, `purge_txn`, `change_rev_prop` | transactions that survive handles and processes, streams that survive the transaction; a commit that is made and returns an error; compare-and-set |
| Repositories | `repos.rs` | repository pool, commit editor, report | `get_commit_editor`, `begin_report`, dump, load, verify, pack, hot copy, authz | callback batons freed on some exits only |
| Session | `ra.rs` | session pool, callbacks | open, queries, replay, locks | callbacks kept by C as long as the session |
| Working copy, access batons | `wc/mod.rs`, `wc/adm.rs` | context, locks of directories, committed queue | status, update, diff, commit queue, locks | callback batons; sets of locks closed at drop |
| Authentication | `auth.rs` | providers, parameters, iteration state | `first_credentials`, `next`, `save` | state read back from C, prompts that call Rust |
| Conflicts, merge tracking, properties, hashes, configuration, iteration | `conflict.rs`, `mergeinfo.rs`, `merge.rs`, `props.rs`, `hash.rs`, `config.rs`, `iter.rs` | views over C containers | conversions, enumeration with a callback | lifetimes of views; early end of an enumeration |
| Text, paths, versions, initialisation | `subst.rs`, `utf.rs`, `time.rs`, `dirent.rs`, `uri.rs`, `path.rs`, `version.rs`, `init.rs`, ... | none, or a `Once` | conversions | nothing that changes |

How they interact.  A client or session call runs C code, which calls back
through trampolines into closures of the program; what a closure returns crosses
as an `svn_error_t` (Errors).  `iter_logs` runs such a call on a thread of its
own.  `do_update` gives C an editor (Delta editors) that it drives inside
`finish_report` (Reporters); an editor sends text deltas, which are made from
and written to Streams.  Commit editors of the session, the repository and
the filesystem are the same editors from the other side.

The hazards, each with its line and the properties that cover it, are in
`PROJECT.json`.

## Modules

| Module | What it is | Checked by | Proofs |
|---|---|---|---|
| `LogStream` | abstract: what an iterator over a log promises | as a property of `LogIterator` | - |
| `LogIterator` | caller thread, worker threads, channel; implements `LogStream` | `MCLogIterator` | `LogIterator_proofs` |
| `ErrorChain` | Rust handles on C errors | `MCErrorChain` | `ErrorChain_proofs` |
| `EditorBridge` | editors, batons and reporters, driven by C or by Rust | `MCEditorBridge` | `EditorBridge_proofs` |
| `Streams` | who frees what a stream points to | `MCStreams` | `Streams_proofs` |
| `StreamCopy` | the bytes that go through two streams | `MCStreamCopy` | `Streams_proofs` |
| `ClientContext` | the slots of a client context, what owns what they point to, and the operations that read them | `MCClientContext` | `ClientContext_proofs` |
| `RevisionStore` | abstract: what transactions promise to those who commit through them | as a property of `FsTransactions` | - |
| `FsTransactions` | transactions, handles, streams and a revision property, of several clients that can crash; implements `RevisionStore` | `MCFsTransactions` | `FsTransactions_proofs` |
| `CallSteps` | the steps by which a wrapper function gives a closure to C, and the rules for them | with `CallSites` | `CallSites_proofs` |
| `CallSites` | a wrapper function at work, with C, the callbacks, the caller and the object it returns | `MCCallSites` | `CallSites_proofs` |
| `ObjectKinds` | what a function that returns a pointer into a pool promises and does, and the rule for it | with `ObjectLives` | `ObjectLives_proofs` |
| `ObjectLives` | the values of a program, their pools, and what they borrow | `MCObjectLives` | `ObjectLives_proofs` |
| `FsObjects`, `ClientObjects`, `DataObjects` | the 129 functions that return such a value or copy from one, each as its kind | `MCObjectLives` | - |
| `RaSites`, `ReposSites`, `ClientSites`, `WcSites`, `FsSites`, `AuthSites` | 107 functions of the crate that give a callback to C, each as its steps | `MCCallSites` | - |
| `ArgumentSites`, `RaArguments`, `ReposArguments`, `WcArguments`, `FsArguments`, `ToolArguments` | 266 functions that give C only arguments, of the client and its conflicts, of sessions, repositories, working copies and their access batons, filesystems, and of files, merges, translation and options, each as its steps | `MCCallSites` | - |

### Liberties

Much of this code is safe Rust only if its caller keeps to an order that the
types do not ask for.  A module of this kind has a constant `Programs`, the set
of programs a run is about; a program is the set of *liberties* it takes, each of
them something the types let it do (use a view after its parent, drop an editor
a report still needs, close a stream under another).  The variable `liberties` is
chosen in `Init` and never changes, and an action that is a liberty has the guard
`May("...")`.  The properties are conditional: the condition of each names the
liberties that break it and no others, so that it also says what a program may do
without losing it.  The passing runs and the proofs cover every set of liberties, but of
a program that takes an excluded one they say nothing about that property, whether the
liberty is the program's own fault or the library takes it itself.  For three of them a
violation run shows what happens (`editor_closure`, `streams_hand`,
`object_lives_collected`).  The others are described below and under "What the types
allow", with no run of their own: the trampolines that return `as_mut_ptr()` (`ra.rs`
178 and 196, `client.rs` 108 and 598), the errors that lock callbacks adopt (`ra.rs`
220), the reporter that `do_status` drops (`ra.rs` 1069), the handler of
`set_cancel_handler` (`client.rs` 2715), a parameter that is set twice (`auth.rs` 475), and
streams of `apply_text` that are not closed (`fs.rs` 3423).

What the compiler does refuse (use after move, a drop while borrowed) is a plain
guard.

### LogIterator

`Session::iter_logs` and `Context::iter_logs` are the same program twice.
`worker[i]` is the control state of the spawned closure: `ConvertArguments` is
the start of `get_log`, which may panic on an interior NUL; `ReceiveEntry` the
call of the trampoline and `SendEntry` or `SendRefused` its `tx.send`;
`RetrievalReturns` the return of the C function with the outcome chosen for
it; `FinishQuietly` and `ReportFailure` the epilogue.  `chan` and `rx` are the
`sync_channel`, modelled from what the code relies on.  `held` is the iterator
whose lifetime borrows the session, so `EnterSession` and `CloseSession` need
none.  `DropReceiver` and `JoinWorker` are the two halves of `Drop`, and `Forget`
is `mem::forget`.

* `DropExcludes` is the safety comment of `iter_logs`: while the caller calls
  the session, after it drops it, and while another worker is in it, no worker is
  inside, except that of a forgotten iterator.  Forgetting an iterator really
  breaks the comment's claim (`the thread cannot outlive the borrow`).
* `ImplementsLogStream` is the refinement: entries once, in order, then the
  failure, then `None`, wherever the threads stand; in all but the `None` of a retrieval
  that was cancelled (below).
* `DropTerminates`, `NextReturns`, `ReaderReachesEnd` are the liveness of the
  two blocking ends.  Fairness: threads that can run are scheduled, and C
  retrievals return; the caller finishes a call it has begun, and nothing makes it
  begin one.  `ReaderReachesEnd` is about callers that keep asking (`Eager`).
* A cancellation by the caller's own callback has the code of the one that a dropped
  receiver provokes, and the worker swallows both: a log that was cut short ends
  like a complete one, against the doc of `set_cancel_handler` (`client.rs` 2713:
  "Operations will fail with an SVN_ERR_CANCELLED error if cancelled") and the comment at
  `client.rs` 3673, which speaks of those "caused by the iterator being dropped".
  `LogStream` demands the failure after a cancelled retrieval as after any other, so the
  code does not implement it there, and this one outcome is split off: what the
  refinement maps to `ended` of `LogStream` is `endedAsTold`, which a `None` after a
  cancelled retrieval does not set.  Over `ended` itself, TLC finds the missing failure in
  eight steps.  All else of such a retrieval is in the refinement, and `AllBeforeNone`, a
  part of `Delivery`, says that its entries come before that `None`.

Bounds: two iterators are enough for a worker to meet another; a channel of two
and three entries give an empty, a partly filled and a full channel, with an entry
or an error waiting outside (the code's channel has four places, which changes
none of that; the proofs are for every capacity).

### ErrorChain

`pool`, `causes`, `child` and `freed` are the C heap; `ptr`, `owns` and `life` the
Rust handles, with the lifetime the signatures really give (`LifeOfView`: a
view of an owning error is `'static`, because `child` returns `Error<'a>` of the
parent's parameter and not of its borrow).  `given` are the errors the C library
will clear.  `InCallback` keeps a lent error to the frame of its trampoline.

* `ChainsValid`, `ChainsOwned`, `ChainsCleared`: for callers that treat views
  as borrows and trampolines that hand errors over, nothing is read after it is
  freed, cleared twice, or leaked.
* All three exclude the trampolines that return `as_mut_ptr()` of an error they then
  drop (`ra.rs` 178 and 196, `client.rs` 108 and 598 do), and the programs that adopt a lent
  error, which is what the lock callbacks do.

Bounds: a chain that matters has at most two causes, and three handles are an
owner, a view of it and a view of the view; four nodes leave one for a second
chain.

### EditorBridge

One edit at a time on one editor.  `box[b]` is the memory of a directory, file or
text delta, `held` what the driver may still use, `up` the parent.  The driver is
the C library while `report = "driving"`, and the program otherwise.  `Close` frees
the box only if the Rust editor returned `Ok`; `LastWindow` frees a handler either
way; `ApplyTextdeltaClosure` is the trait method over a C editor, whose pool ends
with the call; `DropEditor` takes the pool of a C editor with all its batons.

* `DrivesValid`: no drive reaches a freed baton or a dropped editor, unless the
  program outlives an editor, reuses a closed value or takes the closure.
* `DrivesFree`: a drive that succeeds leaves nothing allocated, if values are
  closed and handlers finished.
* `ReportsEnd`: a session is never used in the middle of a report, if reporters
  are finished or aborted.
* A violation run: the closure of `apply_textdelta` (`BatonsValid`).  `do_status`, which
  drops its own reporter, is one of the programs that `ReportsEnd` excludes: that it leaves
  the session in a report is the code's, and no run shows it.

Bounds: four batons are a root, a directory, a file and its text delta, or two
open files, or a directory inside another; two reports are one after another, or
one left open.

### Streams and StreamCopy

`Streams`: `uses[s]` are the streams whose memory a call on `s` touches and
`closes[s]` those its close reaches, built by `Over`, `Disown` and `Tee`; `box`
is the baton of `from_backend` or `wrap_write`.  `Consume` stands for the C functions that
close the two streams they are given, Ok or not (`stream_copy`, and
`streams_contents_same` of `io.rs` 894), and `ReadToEnd` for those that read one to its
end and close it (`string_from_stream`, `contents_checksum`), which return before the
close when the reading fails.  `Closings` is what a close has closed when it returns: all it
reaches, or less if a layer fails before it closes what is under it.  The deprecated
`stream_contents_same` (`io.rs` 1530) disowns its streams and so changes nothing.  The
checksums of `checksummed` and
`contents_checksum`, whose pool is dropped at their return, are not modelled: it takes no
sequence of steps to reach one.

* `LayeredCallsDefined`: from the top and once, no call reaches freed memory.
* `KeptCloseOnce`: the close that a drop runs finds its box and its writer, as
  long as only the program closes the stream.
* `ClosedFree`: closed backends are freed.  One whose close, or whose `string_from_stream`,
  has failed before it reached the backend is not closed yet: the program must close it
  again, and one that does not takes the liberty `"unclosed"`.
* `ClosesOnce` fails when a `wrap_write` stream is handed to `stream_copy`.

`StreamCopy`: the two loops that move bytes, the library's, in which a short read
is the last, and the program's, over `io::Read` and `io::Write`.  `short` names
the ends that may do less than asked, as `io::Read` and `io::Write` may.

* `WholeComplete`: between ends that do all they are asked a copy that is `Ok` is
  complete; `NoHoles`: a copy by the library never leaves anything out in the
  middle, whatever the ends; `Terminates`: every copy ends.
* What `WholeComplete` excludes happens: when a backend returns fewer bytes than asked,
  `stream_copy` is `Ok` with part of the data, and a writer that takes less than given
  loses the rest in the same way (`Stream::write` ignores the length).  The run
  exercises both, and `NoHoles` bounds them.
* Fairness: the loop is one thread, so each of its steps is taken; errors are not
  fair.

Bounds: four streams are two layers over a tee, or a tee over two; thirteen bytes
in chunks of three are four full chunks and a partial one, each boundary and its
neighbours.

### ClientContext

The C structure has a `slot` for each thing that C reads during an operation, and the
Rust value a `field` for each that it owns; `layout[c]` is what is in a piece of memory.
`Replace` is the order of the callbacks' setters: the slot is emptied, the old value is
dropped, the slot is filled; `unwinds` is a drop of the old closure that panics between
the two.  `commit` is in three steps (the slot is saved and filled; the targets are
converted, which may panic; C runs, and all is restored).  `set` is a setting of an
authentication baton: the table in C gets the address of the name's string, which
`parameter_names` keeps; a second setting of the name drops the string that the table
points to, against the comment at `auth.rs` 478 ("Store the parameter name to ensure it
persists for the lifetime of the baton").

* `SlotsDefined`: whenever C is at work, each slot holds what the trampoline of the slot,
  or C, takes it for, alive and owned.  `Spoils` names the slot that each liberty costs;
  that one liberty does not spoil the slot of another is part of the property, and so is
  that a drop that panics (`"panics"`) spoils none.
* `LogMessageRestored`: the callback of one commit is never found by another operation,
  unless a panic of `commit` was caught (`"catch"`): its conversions `unwrap` between the
  save and the restore.
* `CellsOwned`: one owner for each value until it is freed, and none after.

Bounds: five values handed to a context are two callbacks, two batons, and the box of a
commit, or any other choice; four would do for every step, five let one slot be replaced
twice.  The proofs have no bound.

### RevisionStore and FsTransactions

A transaction is in the store, under a name, from `begin_txn` until it is committed,
aborted or purged.  A `Transaction` is a handle on it, which `commit` and `abort` consume
whether they succeed or not, and whose drop does nothing to the store, although the
comment in it says that "Pool drop will clean up transaction" (`fs.rs` 3057).  Clients are
programs, of one process each, with one change to commit: `phase` is how far a client is,
and `"unsure"` is after a commit that returned an error, or after `crash`, when the
process has ended and has started again: the store is all that is left, and the name of
the transaction if the client has written that down (`Transaction::name`).  With it, the
client opens the transaction again, or finds it gone, or purges it, as after a commit that
failed; without it, it has no way to know its transaction in `list_transactions`, and goes
no further unless it takes the liberty `"anew"` or `"share"`.  `commit` has three outcomes, because
`svn_fs_commit_txn` can commit and return an error (a post-commit hook that fails): the
revision is then dropped by `?`, in `Repos::commit_txn` as well, whose doc (1611-1618)
only speaks of conflicts.  `apply_text`, `write`, `close` and `drop_stream` are
the stream of a file's text: what was written is in the transaction when the stream is
closed, and `from_ptr` makes a stream whose drop does not close it.

`told[c]` is what the results that a client got let it believe is stored; a client that
starts again believes what it reads in its transaction, where the text of a stream that was
open is missing.

* `CommittedAsTold`: the revision that `commit` returns is the one before it with what the
  client was told, and nothing else.  It costs the property to drop a stream and not
  close it, to use it when the transaction is consumed, or to share a transaction.
* `CommittedOnce`: a client's change is in one revision at most, whatever fails and crashes,
  if the client goes on with the transaction it knows by name (open it again, see that it
  is gone, purge it) and does not make its change in a new one.
* `UpdatesCounted`: counters in a revision property lose no update if the old value is given
  to C, even when it was read from the cache (`refresh`).  `Repos::change_rev_prop`
  cannot give one.
* `StorePromised`: clients that take none of the liberties that cost the first two get a
  `RevisionStore`, in which a change is asked for, and becomes a revision as a whole or is
  given up; a restart costs the text of one file at most (`Lose`).  `Promise` is the refinement: `asked` is `told` until the client's change is
  made.

Fault model: commits that fail before or after they commit, aborts that fail, processes
that end and come back with the store, and with the name of their transaction or without.  Not modelled: conflicts as
such (a commit that is refused for one is one that fails), merges of a transaction with
revisions that it was not based on (the changes of a transaction replace texts), and copies.

Bounds (`FsTransactions.cfg`): two clients, each with one change; two transactions, so
that a client can try again or take over that of the other; two updates of the property,
one to be lost; two files, one write to each stream.  Three definitions of `MCFsTransactions` say
what the run leaves out: `Apart` has a behaviour with transactions or with the
property, which share no variable; `Narrow` has two files only in the change of one client
alone, since two clients meet in one; and `Programs` are those that take one liberty or
none.  Clients and paths are symmetric.

### CallSteps, CallSites and the functions

Some hundred functions do the same thing by hand: put a closure in a cell, give C
the address of the cell and a trampoline, check the error, free the cell.  Each
is a sequence of steps (`Box`, `Call`, `Free`, `Check`, ...) in the order its code has
them, with the *shape* of what is in the cell (a reference, a `Box<dyn Fn>`, a
`FnOnce`, an address with no vtable) and the shape as which it is freed.  The modules
`RaSites` to `AuthSites`, and the `...Arguments`, hold the programs; `CallSites` runs one:

* `Put`, `FreeBox`, `HandToObject` move the cell (`place`) and drop what is in it
  (`closure`); `Return` drops what is on the frame; `Convert` is a `?` on an argument.
* `EnterC`, `CallBack`, `LeaveC`: C calls any callback it was given, any number of times,
  with any outcome, and returns an error or not.
* `MakeInner`, `LastCall`: a trampoline boxes what its callback returned, and C has the box
  (`Inner`): the window handler of `Session::get_file_revs` (`ra.rs` 2072), which its last
  call, with the NULL window, frees (1991-1996), and the credentials of a username prompt
  (`auth.rs` 1528), which nothing frees.  C makes the last call of each handler before it
  returns without an error, and need not when it returns one.  These are the only boxes of
  the crate that a trampoline makes for C, outside the editors of `delta.rs`.
* `CheckError` and `ReturnStashed` are the two ways an error gets to the caller.
* `DropObject` runs the droppers of an object that was returned (an editor, a report,
  a provider), and `CallerDrops` is the caller that drops a closure it lent while such
  an object is alive, when the type of the object does not forbid it.

The rules are predicates on programs: `Balanced` (each box ends on every way out, and no
trampoline makes one that the function cannot free),
`Matching` (freed as what it was put as), `Fitting` (the trampoline reads what is
there), `Lasting` (the object does not outlive its callbacks), `Adopting` (the error of
C is adopted before any other way out).  `WellFormed` is what any program of the
language satisfies.  Each invariant has as its condition the rules it rests on:

* `CallsDefined` (from `Fitting` and `Lasting`): whenever C may call back, the cell is there
  and the closure is alive.
* `LeakFree` (`Balanced`, `Matching`): nothing boxed survives the function and its object.
* `ClosuresDroppedOnce` (`Matching`): no lent closure is dropped, and none twice.
* `ErrorsReturned` (`Adopting`): an error of C or of a callback is what the caller gets.
* `Catalogue`: the functions that break each rule are exactly those that
  `MCCallSites` lists, so that the four invariants hold of all the others as they
  stand:
  - `Leaky`: `repos::{load_fs, load_fs_revprops, pack_fs, recover, hotcopy, freeze,
    verify_fs, upgrade, fs_get_locks}` never free their boxes; `fs_pack` and `import` leave
    them when a conversion fails; the editors and reports of `ra`, `repos` and `wc` when C
    fails; `ra::get_file_revs` leaves that of a window handler when C or the handler fails
    before the NULL window; `propset_remote`, two boxed providers and
    `get_username_prompt_provider` always.
  - `Mismatched`: `wc::{resolved_conflict, move_path, delete, prop_set}`,
    `repos::{verify, get_commit_editor}` drop a closure they were lent, where
    `wc/mod.rs` speaks of "Borrowed versions for synchronous operations where callback
    lifetime is guaranteed"; `Fs::freeze` drops its `FnOnce` a second time.
  - `Misread`: `blame`, `proplist_all`, `import`, `propset_remote`, `verify_fs`, `upgrade`, the
    three functions of `io` with a cancel callback, and eight authentication providers
    give C an address that is not the fat pointer its trampoline reads; `proplist_all` and
    the seven functions of `ArgumentSites` that `Misread` names give it a pointer into a
    C string that was dropped where it was made.
  - `Outlived`: both commit editors and the providers that are not boxed; and three
    functions whose C keeps a pointer to an array or strings that go with the frame:
    `queue_committed` (the property changes of the item; "All temporaries ... are still
    alive here", says the code, which is true of the call and not of the queue),
    `remember_client_capabilities` and `access_add_lock_token`.
  - `Unadopted`: `repos::history` and `Fs::freeze` return the callback's error and drop C's;
    `Session::get_path_relative_to_root` and `Adm::close` look at no error.

Arguments are cells like the others, of the shape "arg": `Arg` is a string or an array
that lives on the frame until the function returns, `Temp` one that ends with the block it
is made in, while C is given its address.  C reads them and does not call them (the guard of
`CallBack`), and `Fitting` asks that they be there when it does.  Four shapes are
common: `Converted` (a conversion with `?`, then the call), `Direct` (with `unwrap()`),
`Asked` (no arguments) and `Opened` (a context is made for the call).  That C keeps the
properties of a queued commit, the capabilities and the lock tokens by pointer is the
contract of the C functions; such a call ends in an object that is `Untied`: the queue, the
repository, the access context.

Bounds: none but the set of functions; every outcome is explored.  What a program
leaves out: setters that keep a callback in a slot of a client context (`ClientContext`), functions
that are given to C without a baton, callbacks that the caller does not give (`None`: the
steps are guarded by the same test), unwinding out of a panic, and how the trampolines hand
errors over, which is `ErrorChain`'s subject.  The proofs are for every set of
well-formed programs and so for functions yet to be written.

### ObjectKinds, ObjectLives and the functions

Nearly every value of the bindings is a pointer into an APR pool, with or without the
pool itself.  What keeps the pool alive is a field of the value, or a field of another
value that the lifetime in its type borrows, and nothing checks that it is one or the
other.  `Kind` says of a function where the C object of its result is (`memory`: in a
pool of the result, in a shared one, in the parent's, in one dropped on the way out),
what that object points to (`uses`) and what the result's lifetime borrows (`tied`).
`FsObjects`, `ClientObjects` and `DataObjects` give each function its kind, named after
the usual ones: `New`, `Copied`, `Inside`, `View`, `Part`, and the three with a fault,
`Loose`, `Bare` and `Lost`.

`ObjectLives` is a program: `Construct` and `Derive` make values, `DropValue` drops one
that nothing borrows.  `pool` and `reach` are where a value is and what a use of it
reads; `ties` is all it borrows, the borrows of what it borrows included; a pool is there as
long as a live value holds it (`Holds`, `Allocated`).  `Sound` is the rule, on kinds:
what is not held is borrowed.

* `ValuesDefined`: a value that comes of functions which keep the rule reads no
  destroyed pool, whatever is dropped in whatever order.
* `Catalogue`: the functions that break it are those that `MCObjectLives` lists, so the
  other 89 are right.  `Dead`: the result's pool is gone on return (`ra::{stat,
  get_mergeinfo}`, `Fs::get_locks`, four checksums, an access baton that `Adm::probe_try` opens, although
  `wc/adm.rs` 227 says that it "lives in the parent's pool", and the lock of
  `io::file_lock`, which is in the pool of the call and so ends when it returns),
  or before they read it (`FsDirEntry::id`, `wc::get_actual_target`).  `TooLong`: no lifetime, or that of the
  grandparent (`Repos::fs`, what is read through a `Root`, conflict options, credentials,
  the editor of `Adm::get_switch_editor`,
  the second half of a mergeinfo difference, layered streams, windows of a delta
  stream, batons of C editors).
* `ChangesCollected`, from the documentation of `PathChangeIterator`, fails.

Bounds: four values are the longest chain that some function needs
(`create`, `revision_root`, `paths_changed`, `next`), so that every function of the
catalogue is called; one constructor call, because values of two constructors share
nothing (a function of two values is taken as a method of the first).  The proof
has neither bound.  Left out: values that exist only inside a callback, raw pointers, and
mutable borrows, which restrict programs further.

## Runs

| Run | Expect | Shows |
|---|---|---|
| `log_iterator` | pass | all of LogIterator's invariants, the refinement (but for the `None` of a cancelled retrieval) and liveness |
| `errors` | pass | ownership of chains for every set of liberties |
| `editor` | pass | drives, leaks and reports for every set of liberties |
| `editor_closure` | violation | a handler in a pool that is gone |
| `streams` | pass | calls, closes and frees of layered streams |
| `streams_hand` | violation | a box freed twice |
| `copy` | pass | every size around every chunk boundary, with short ends or not |
| `call_sites` | pass | every function that gives a callback to C, on every way through it; the catalogue of those that break a rule |
| `object_lives` | pass | every function that returns a pointer, one on the value of another, dropped in every order; the catalogue of those that break the rule |
| `object_lives_collected` | violation | changes collected from an iterator that is gone |
| `client_context` | pass | setters, settings, operations, commits and panics in any order: what C reads in each slot is there, and each value is freed once |
| `transactions` | pass | commits, aborts, crashes, streams and property updates of two clients; the refinement of `RevisionStore` |

`CHECK_DEADLOCK FALSE` is in a configuration when its system can come to an end
(a closed session, every node used, everything dropped).  Symmetry is used in runs
that have no liveness property (`StorePromised` is an initial condition and a step, which
permutations of the clients leave as they are).

Every property has a mutant of the code in `PROJECT.json`, kept next to the definition it
changes ("Mutant: ..."), that breaks it.

## Proofs

TLAPS proves the following for every value of the constants; the assumptions are the
`ASSUME`s of the modules (a positive capacity, natural bounds, model values that
are not elements of the sets they stand outside of, liberties among those
listed).  Bounds like `MaxEntries` are constants of the theorems too, so no
theorem depends on a small one.

| Theorem | Says | Argument |
|---|---|---|
| `LogIterator_proofs!TypeCorrect` | the channel is never over its capacity | types; every send is through `Enqueue` |
| `LogIterator_proofs!Exclusion` | `DropExcludes` | `Phase` ties `worker`, `rx` and `result`; `Borrow` says that a worker that is not done has an open receiver held by the caller, or was forgotten |
| `LogIterator_proofs!Refinement` | `ImplementsLogStream` | `Pipeline`: what was delivered followed by the channel is the prefix of the retrieval of length `sent`; each step of the two threads is then a step of `LogStream` or a stutter |
| `LogIterator_proofs!NoDeadlock` | a caller in `next()` or `drop` waits only for a worker that has exited or can go on | `ClosedToJoin`: `Drop` waits with the receiver closed, which refuses a send; `next()` waits with an empty channel, which has room |
| `LogIterator_proofs!WorkersEnd` | the steps of a worker are at most `2 * MaxEntries + 5` | `Left`, a number that every step of the worker makes smaller and no other step greater |
| `LogIterator_proofs!Delivery` | `DeliversInOrder`: what `next()` has returned is the beginning of the retrieval, and all that the worker sends of it, with its failure unless it was cancelled, after `None` (`AllBeforeNone`); `NothingTakenBack`: it only grows, and `None` is final | proved of `LogStream` (`StreamInv`), which has no threads, and carried to them by `Refinement` |
| `ErrorChain_proofs!TypeCorrect` | handles and heap are well formed | `MemoryOK`: pools are named by a node in them, causes share their node's pool, pointers lead to allocated nodes |
| `ErrorChain_proofs!OwnershipCorrect` | `ChainsValid`, `ChainsOwned`, `ChainsCleared` | they are inductive together only with `LivesOK` and `LentInFrame` (a lent error exists while its callback runs) on top of `MemoryOK` |
| `ErrorChain_proofs!ValidityCorrect`, `ClearingCorrect` | `ChainsValid`, `ChainsCleared` | parts of the same invariant |
| `ErrorChain_proofs!ChainsEnd` | `ChainsFinite`, `ChainsKept`: the walk over the causes of an error ends, and finds the same chain each time, whatever liberties are taken | only `Alloc` writes to the heap, a node above one that is there already (`HeapSteps`) |
| `EditorBridge_proofs!TypeCorrect` | the library ends no report that it has not begun | `ReportBegun` |
| `EditorBridge_proofs!DriveCorrect` | `DrivesValid` | `InUse`: while anything is in use the editor is there |
| `EditorBridge_proofs!NothingLeaks` | `DrivesFree` | `Freed`: what is live and not held is in the pool of an editor that lives, or the drive failed |
| `EditorBridge_proofs!SessionCorrect` | `ReportsEnd` | `Settled`: every report begun is the one in scope |
| `EditorBridge_proofs!DrivesEnd` | `DriveCanEnd`: `finish_report` can always come to its end; `ClosedClean`: an edit that was closed leaves nothing allocated but what a C editor's pool holds | `Ending`: an edit is closed by a driver that has met no error and holds nothing; with the invariants of `DriveCorrect` and `NothingLeaks` |
| `Streams_proofs!TypeCorrect` | only values that are held are usable | types |
| `Streams_proofs!CallsCorrect` | `LayeredCallsDefined` | `Fresh`: a stream not made yet is in no layer, so that what a close frees is used by nothing above it |
| `Streams_proofs!ClosesCorrect` | `KeptCloseOnce` | only the close of the stream itself frees the box of one that needs it |
| `Streams_proofs!NothingLeaks` | `ClosedFree` | `Owned`: a live box belongs to a held value that can still free it |
| `Streams_proofs!CopyTypeCorrect` | only bytes of the reader are written | types |
| `Streams_proofs!NothingSkipped` | `NoHoles` | what was written and the buffer are the first `pos` bytes until a short write ends the copy |
| `Streams_proofs!CopiesAll` | `WholeComplete` | the same, with `last` only at the end of the reader |
| `Streams_proofs!CopyComesToEnd` | a copy can go on until it is over, in at most `2 * MaxSize + 3` steps | `LastSeen`: only a chunk that the library read short is written when the end has been seen, so that no write takes that back; `StepsLeft`, a number that each step makes smaller |
| `ClientContext_proofs!TypeCorrect` | slots, fields and memory are of their types | types |
| `ClientContext_proofs!SlotsAlwaysDefined` | `SlotsDefined` | `Slotted`: what a slot points to has an owner, the field of the slot or the caller; with `Kept`: what is in a field is there, and is what the field is for |
| `ClientContext_proofs!LogMessageAlwaysRestored` | `LogMessageRestored` | the last part of `Slotted`: as long as no panic is caught, the slot is the box of the commit at work, and nothing is saved between commits |
| `ClientContext_proofs!CellsAlwaysOwned` | `CellsOwned` | `Accounted`: a live value is in a field, lent by the caller, in the commit at work, or was left by a panic; `Single`: in one of them |
| `ClientContext_proofs!FreedForGood` | `FreedByOwner`, of every step: what is freed is taken from its owner by that step, and stays as it is; what an owner lets go is freed, but for the box of a commit that panics | the same invariant before and after the step; `FreedStays`: only fresh memory and the table of a lent baton are written to; `FreedWasHeld`, action by action |
| `CallSites_proofs!TypeCorrect` | the state of a function at work | `AtStep`: the step it is at fits its phase |
| `CallSites_proofs!CallsCorrect` | `CallsDefined` | `Cells`: what C has was put by a step made, and is gone only by a step made; `ObjectKeeps` |
| `CallSites_proofs!NothingLeaks` | `LeakFree` | `Cells`, and `NoBoxLeft`: the step that ends a box comes before each way out |
| `CallSites_proofs!DropsCorrect` | `ClosuresDroppedOnce` | `ClosureKept`: a closure that is not alive has no cell left; `FreedAsPut` |
| `CallSites_proofs!ErrorsCorrect` | `ErrorsReturned` | `ErrorPending`: between the call and its check the error is there, and after it is not |
| `CallSites_proofs!CellsFound` | `StepsFindTheirCells`: no box is freed twice, and a function has a next step until it has returned | `PutStays`: what a step put is somewhere, if only among what was freed, and the rules place the step that ends it after the one that puts it |
| `CallSites_proofs!FunctionsEnd` | `LeftBounded`, `LeftShrinks`: a function makes at most two steps for each of its program's | `Left`, a number that each of its steps makes smaller, and that callbacks and caller leave as it is |
| `ObjectLives_proofs!TypeCorrect` | values and pools are of their types | types |
| `ObjectLives_proofs!ValuesCorrect` | `ValuesDefined` | `TiesLive`: what is borrowed is alive; `Kept`: what a ruled value reads is held by it or by what it borrows, which no drop undoes, while "held by somebody alive" is not inductive |
| `ObjectLives_proofs!DropsGoThrough` | `BorrowsOlder`, `NewestUnborrowed`: borrows have no cycle, and the newest value can be dropped | a value is made after all that it borrows, and borrows what they borrow (`OlderEnter`) |
| `ObjectLives_proofs!DestroyedForGood` | `PoolsStayDestroyed`: a pool that was destroyed is not held again by a value that is ruled | `Kept`: a ruled value reads pools that are held, so that a function that follows the rule finds none other to hand out |
| `FsTransactions_proofs!TypeCorrect` | `TypeOK`: among the rest, that `commit` finds a name for each revision | `Spent`: what became a revision is open no longer and did so once; so the revisions are fewer than the transactions begun as long as one is open (`RoomForOne`, a cardinality) |
| `FsTransactions_proofs!UpdatesAlwaysCounted` | `UpdatesCounted` | `Counted`: a count that was read is at most the one there is now |
| `FsTransactions_proofs!RevisionsForGood` | `RevisionsRecord`: each revision is the one before it with the changes of one transaction; `HistoryKept`: no step changes a revision, or the transaction that became one; for every set of liberties | `Spent`; a text goes into a transaction that is in the store, even from a stream that has outlived its handle (`StoresIntoOpen`) |
| `FsTransactions_proofs!CommitsOnce` | `CommittedOnce` | `Owned`: where nothing is shared, the transaction a client has, or knows by name, is its own, and is open while the client has it; `Settled`: a client whose change is a revision is at its end, or unsure with a name that leads to no open transaction |
| `FsTransactions_proofs!GoneOnesAreMade` | `GoneIsMade`: what a client may conclude when `open_txn` does not find the transaction whose `commit` returned an error | `Owned`: nobody else takes it from the store; `HistoryKept`: a revision stays one (`GoneStays`) |
| `FsTransactions_proofs!CommitsAsTold` | `CommittedAsTold` | `Within`: a stream is one into the transaction of its client's handle; `Agreed`: while a client is at work, what it was told is what the transaction changes, but for the file of the stream that it has; `Answered`: the revision of an answer stays the one that was made of what was told |
| `FsTransactions_proofs!TransactionsPromise` | `StorePromised` | the two invariants before it; `asked` is `told` until the client's transaction is a revision, and then nothing (`Asked`), `done` is who has made one (`Done`), and each action is a step of `RevisionStore` or a stutter |

Only model-checked: the liveness properties (`DropTerminates`, `NextReturns`,
`ReaderReachesEnd`, `Terminates`), which need fairness and `ENABLED`, out of the
prover's reach, and the two catalogues (`Catalogue` of `MCCallSites` and of
`MCObjectLives`), which have no parameter for a proof to be general about: they say which
of the functions listed keep the rules, and are wholly evaluated by TLC.  The rules
themselves are hypotheses of the theorems of `CallSites` and `ObjectLives`.  Every other
property of a run that passes is proved.  What fairness is applied to is proved as well,
for `DropTerminates` and `NextReturns` (`NoDeadlock`, `WorkersEnd`) and for `Terminates`
(`CopyComesToEnd`): who is waited for can take a step, by the guards of its actions
(`Ready`, `NeverIdle`), and has finitely many left.  `CellsFound` with `FunctionsEnd`,
`ChainsEnd`, `DropsGoThrough` and `DrivesEnd` say as much of the sequential parts, where no
run states a liveness property: there is a step to take, and where it is said, a bound.

Some theorems state what no run checks, because it follows from the invariants that the
proofs found: `Delivery`, `RevisionsForGood`, `GoneOnesAreMade`, `FreedForGood`,
`DestroyedForGood`, and the five named before.  They hold for every set
of liberties, unless the statement names those that it excludes.

There is no recursive operator in the project.

## What the types allow

Some of what the liberties reach contradicts a comment and is not a run of its own,
because the property it breaks is in the passing run with the liberty excluded:
a forgotten log iterator; `child()` and `find_cause()` of an owning error outliving it;
an editor dropped between `do_update` and `finish_report`; a directory or file
value used after `close`; a handler value dropped before `finish`; a stream over a
backend dropped without `close`, whose backend leaks; a short write.

Others were met while translating, and are where the definition that follows the code
says so:

* `client.rs` 2713 and 3673 speak of a cancelled log as one that fails; it ends like a
  complete one (`ImplementsLogStream`).
* `ra.rs` 178 and 196 and `client.rs` 108 and 598 return an error to C and free it
  (`ChainsValid`).
* `fs.rs` 3057 says that dropping a `Transaction` cleans it up; the store keeps it.
* `repos.rs` 1611-1618 documents `commit_txn` without the revision that is made and returned
  with an error (`CommittedOnce`).
* `auth.rs` 478 says that a parameter's name persists as long as the baton (`SlotsDefined`).
* `wc/adm.rs` 227 says that a probed baton lives in the pool of its parent (`Catalogue`).
* `merge.rs` 470-493, `mergeinfo_remove`, gives C a temporary for its output: the caller's
  mergeinfo is as before.  `ToolArguments` has its arguments; what it computes is data.
* `to_hashmap` of a mergeinfo drops `inheritable` of its ranges, and the marks of a backend
  are allocated with the size of an opaque structure: both are data, too.

## Plan

1. Done: `LogStream`, `LogIterator`, `ErrorChain`, `EditorBridge`, `Streams`,
   `StreamCopy`, `CallSites` and `ObjectLives` with their functions, and the proofs.
2. Done: `ClientContext`, with its proofs.
3. Done: `RevisionStore` and `FsTransactions`, with the proofs of its invariants and of the
   refinement.
4. Left: the iteration over credentials, the sets of access batons, the positions and
   marks of `BufferBackend`, and the conversions of merge ranges.

## Not modelled

Conversions of strings, numbers and enumerations, and the contents of property
lists, are data that no property tells apart.  What the C library does is external
and modelled from how the code uses it (`external` in the map).  A panic in an
`extern "C"` function aborts the process, after which there is nothing to say.
Memory exhaustion is out of scope, and so are threads the program itself makes: the
types of this crate are at most `Send`, so that such a thread has a value to itself
(what a boxed callback captured may still be shared: the cancel and progress callbacks of a
session are boxed without `Send`, and `iter_logs` takes the session's pointer to its worker,
`ra.rs` 2752; a model of it would be one of what the closures capture).

Also left out:

* the boxes that are open when the drive of an editor fails (`delta.rs` 1103): `abort_edit`
  has no list of them, so that each of them leaks; `DrivesFree` is about drives that succeed;
* the iteration over credentials of `auth.rs`, whose state is C's; the batons and their
  parameters are modelled;
* marks and positions of streams (`io.rs` 349), the contents of windows, and svndiff;
* sets of access batons: which batons are closed with which is up to C;
* `init.rs`: a `Once` and its result, which only one thread writes;
* conversions of paths, URIs, text, dates and versions.
