--------------------------- MODULE FsTransactions ---------------------------
(***************************************************************************)
(* Transactions of a filesystem (fs.rs, repos.rs).  A transaction is in the *)
(* store, under a name, until it is committed, aborted or purged; a         *)
(* Transaction of the binding is a handle to it, which commit and abort     *)
(* consume whether they succeed or not, and whose drop does nothing to the  *)
(* store.  Clients are programs with one change each to commit; they also   *)
(* count in a property of a revision.                                       *)
(*                                                                         *)
(* The store is that of libsvn_fs: its calls have their effect or return an *)
(* error; svn_fs_commit_txn can do both, when what follows the commit fails *)
(* (a post-commit hook, say).                                               *)
(***************************************************************************)
EXTENDS Naturals, Sequences

CONSTANTS
  Clients,     \* who commits
  Paths,       \* the files of the filesystem
  Texts,       \* what programs write to them
  Empty,       \* the text of a stream that nothing was written to
  Absent,      \* there is no such file
  Null,        \* an Option that is None
  MaxTxns,     \* bound: transactions that are begun
  MaxUpdates,  \* bound: updates of the property
  Programs     \* the sets of liberties that programs take

\* What the types and results allow a program to do:
\*   "unclosed"  drop the stream of apply_text and not close it
\*   "late"      go on with that stream when the transaction was consumed
\*   "anew"      make the change again after a commit that returned an error
\*   "share"     open or purge a transaction of another client, by its listed name
\*   "blind"     set the property with no old value to compare
Liberties == {"unclosed", "late", "anew", "share", "blind"}

Names == 1 .. MaxTxns
Contents == Texts \cup {Empty}
Phases == {"idle", "working", "unsure", "over"}

Trees == [Paths -> Contents \cup {Absent}]
Changes == UNION {[D -> Contents] : D \in SUBSET Paths}
Writes == [txn : Names, path : Paths, text : Contents]

ASSUME BoundsNat == MaxTxns \in Nat /\ MaxUpdates \in Nat
ASSUME TextsNew == Absent \notin Contents /\ Null \notin Names \cup Writes
ASSUME ProgramsTaken == Programs \subseteq SUBSET Liberties

VARIABLES
  program,  \* the liberties that the clients take
  revs,     \* revs[r]: the files of revision r - 1
  made,     \* made[r]: the transaction that became revision r
  begun,    \* the transactions that were begun: 1 .. begun are their names
  owner,    \* owner[n]: the client that began transaction n
  open,     \* the transactions in the store
  changes,  \* changes[n]: what transaction n changes
  prop,     \* the count in the property
  updates,  \* the updates that were reported as made
  handle,   \* handle[c]: the transaction that c has a Transaction of
  known,    \* known[c]: the name of the last one, from Transaction::name, or Null
  stream,   \* stream[c]: the stream of apply_text that c has
  told,     \* told[c]: the texts whose storing was reported to c
  phase,    \* phase[c]: how far c is with its change
  answer,   \* answer[c]: the revision that commit returned to c, or 0
  read      \* read[c]: the count that c has read, or Null

store == <<revs, made, begun, owner, open, changes>>
counts == <<prop, updates, read>>
vars == <<program, store, counts, handle, known, stream, told, phase, answer>>

Nothing == [p \in {} |-> Absent]
Put(d, p, t) == [q \in DOMAIN d \cup {p} |-> IF q = p THEN t ELSE d[q]]
Overlay(t, d) == [p \in Paths |-> IF p \in DOMAIN d THEN d[p] ELSE t[p]]
Set(f, c, v) == [f EXCEPT ![c] = v]

Init ==
  /\ program \in Programs
  /\ revs = << [p \in Paths |-> Absent] >>
  /\ made = << >>
  /\ begun = 0
  /\ owner = [n \in Names |-> Null]
  /\ open = {}
  /\ changes = [n \in Names |-> Nothing]
  /\ prop = 0
  /\ updates = 0
  /\ handle = [c \in Clients |-> Null]
  /\ known = [c \in Clients |-> Null]
  /\ stream = [c \in Clients |-> Null]
  /\ told = [c \in Clients |-> Nothing]
  /\ phase = [c \in Clients |-> "idle"]
  /\ answer = [c \in Clients |-> 0]
  /\ read = [c \in Clients |-> Null]

-----------------------------------------------------------------------------
(***************************************************************************)
(* Handles.                                                                *)
(***************************************************************************)
\* begin_txn, begin_txn_for_commit, begin_txn_for_update
begin_txn(c) ==
  /\ \/ phase[c] = "idle"
     \/ phase[c] = "unsure" /\ "anew" \in program
  /\ begun < MaxTxns
  /\ begun' = begun + 1
  /\ owner' = Set(owner, begun', c)
  /\ open' = open \cup {begun'}
  /\ handle' = Set(handle, c, begun')
  /\ known' = Set(known, c, begun')
  /\ told' = Set(told, c, Nothing)
  /\ phase' = Set(phase, c, "working")
  /\ UNCHANGED <<program, revs, made, changes, counts, stream, answer>>

\* Mutant: a transaction that is not there is begun.
open_txn_begins(c, n) ==
  /\ phase[c] = "unsure" /\ n = known[c]
  /\ n \notin open
  /\ begun < MaxTxns
  /\ begun' = begun + 1
  /\ owner' = Set(owner, begun', c)
  /\ open' = open \cup {begun'}
  /\ handle' = Set(handle, c, begun')
  /\ known' = Set(known, c, begun')
  /\ phase' = Set(phase, c, "working")
  /\ UNCHANGED <<program, revs, made, changes, counts, stream, told, answer>>

\* A client can open its transaction again, by the name it asked for.
open_txn(c, n) ==
  /\ phase[c] \in {"idle", "unsure"}
  /\ \/ phase[c] = "unsure" /\ n = known[c]
     \/ "share" \in program
  /\ IF n \in open
       THEN /\ handle' = Set(handle, c, n)
            /\ known' = Set(known, c, n)
            /\ phase' = Set(phase, c, "working")
       ELSE /\ phase' = Set(phase, c, "over")
            /\ UNCHANGED <<handle, known>>
  /\ UNCHANGED <<program, store, counts, stream, told, answer>>

\* What becomes of a client whose Transaction was consumed, or dropped.
Leave(c, p) ==
  /\ handle' = Set(handle, c, Null)
  /\ phase' = Set(phase, c, p)

\* Unless it is late with it, a client has done with its stream.
Working(c) == phase[c] = "working" /\ (stream[c] = Null \/ "late" \in program)

\* The handle is dropped: its pool goes, the transaction stays.
drop(c) ==
  /\ Working(c)
  /\ Leave(c, "idle")
  /\ told' = Set(told, c, Nothing)
  /\ UNCHANGED <<program, store, counts, known, stream, answer>>

\* Mutant: the handle is not consumed.
abort_borrows(c) ==
  /\ Working(c)
  /\ phase' = Set(phase, c, "idle")
  /\ told' = Set(told, c, Nothing)
  /\ open' = open \ {handle[c]}
  /\ UNCHANGED <<program, revs, made, begun, owner, changes, counts, handle, known,
                 stream, answer>>

\* C can refuse, or not find the transaction: it stays, and has no handle any more.
abort(c) ==
  /\ Working(c)
  /\ Leave(c, "idle")
  /\ told' = Set(told, c, Nothing)
  /\ \/ open' = open \ {handle[c]}
     \/ UNCHANGED open
  /\ UNCHANGED <<program, revs, made, begun, owner, changes, counts, known, stream,
                 answer>>

purge_txn(c, n) ==
  /\ \/ phase[c] = "unsure" /\ n = known[c]
     \/ "share" \in program
  /\ n \in open
  /\ open' = open \ {n}
  /\ IF phase[c] = "unsure" /\ n = known[c]
       THEN phase' = Set(phase, c, "idle") /\ told' = Set(told, c, Nothing)
       ELSE UNCHANGED <<phase, told>>
  /\ UNCHANGED <<program, revs, made, begun, owner, changes, counts, handle, known,
                 stream, answer>>

-----------------------------------------------------------------------------
(***************************************************************************)
(* Commits: Transaction::commit and Repos::commit_txn.                      *)
(***************************************************************************)
\* Transaction n becomes the next revision.
Append1(n) ==
  /\ n \in open
  /\ revs' = Append(revs, Overlay(revs[Len(revs)], changes[n]))
  /\ made' = Append(made, n)
  /\ open' = open \ {n}

\* Mutant: the error of C is not looked at.
commit_unchecked(c) ==
  /\ Working(c)
  /\ Leave(c, "over")
  /\ answer' = Set(answer, c, Len(revs))
  /\ UNCHANGED <<program, store, counts, known, stream, told>>

commit(c) ==
  /\ Working(c)
  /\ \/ /\ Append1(handle[c])
        /\ answer' = Set(answer, c, Len(revs))
        /\ Leave(c, "over")
        \* The error that follows a commit is returned, and not the new revision.
     \/ /\ Append1(handle[c])
        /\ Leave(c, "unsure")
        /\ UNCHANGED answer
        \* A conflict, a hook, or the transaction is not there.
     \/ /\ Leave(c, "unsure")
        /\ UNCHANGED <<revs, made, open, answer>>
  /\ UNCHANGED <<program, begun, owner, changes, counts, known, stream, told>>

\* The process of c ends, and is started again: the store is all that is left, and the
\* name of its transaction if c has written that down.  With it, c reads what it has
\* changed so far; a text in a stream that was not closed is not there.
crash(c) ==
  /\ phase[c] \in {"working", "unsure"}
  /\ Leave(c, "unsure")
  /\ stream' = Set(stream, c, Null)
  /\ \/ /\ known' = Set(known, c, Null)
        /\ told' = Set(told, c, Nothing)
     \/ /\ known[c] # Null
        /\ told' = Set(told, c, changes[known[c]])
        /\ UNCHANGED known
  /\ UNCHANGED <<program, store, counts, answer>>

-----------------------------------------------------------------------------
(***************************************************************************)
(* Changes, through TxnRoot.                                               *)
(***************************************************************************)
Store(n, p, t) == changes' = Set(changes, n, Put(changes[n], p, t))
Tell(c, p, t) == told' = Set(told, c, Put(told[c], p, t))

\* Mutant: the stream is not closed.
set_file_contents_unclosed(c, p, t) ==
  /\ phase[c] = "working"
  /\ handle[c] \in open
  /\ Tell(c, p, t)
  /\ UNCHANGED <<program, store, counts, handle, known, stream, phase, answer>>

\* apply_text, svn_stream_write and svn_stream_close; an error of one of them leaves
\* the old text.
set_file_contents(c, p, t) ==
  /\ phase[c] = "working"
  /\ handle[c] \in open
  /\ Store(handle[c], p, t)
  /\ Tell(c, p, t)
  /\ UNCHANGED <<program, revs, made, begun, owner, open, counts, handle, known,
                 stream, phase, answer>>

apply_text(c, p) ==
  /\ phase[c] = "working"
  /\ handle[c] \in open
  /\ stream[c] = Null
  /\ stream' = Set(stream, c, [txn |-> handle[c], path |-> p, text |-> Empty])
  /\ UNCHANGED <<program, store, counts, handle, known, told, phase, answer>>

\* Stream::write; C keeps the text until the stream is closed.
write(c, t) ==
  /\ stream[c] # Null
  /\ stream[c].text = Empty
  /\ stream' = [stream EXCEPT ![c].text = t]
  /\ IF stream[c].txn = handle[c] THEN Tell(c, stream[c].path, t) ELSE UNCHANGED told
  /\ UNCHANGED <<program, store, counts, handle, known, phase, answer>>

\* Stream::close: the text is the file's, if there still is the transaction.
close(c) ==
  /\ stream[c] # Null
  /\ stream' = Set(stream, c, Null)
  /\ LET s == stream[c] IN
       IF s.txn \in open
         THEN /\ Store(s.txn, s.path, s.text)
              /\ IF s.txn = handle[c] THEN Tell(c, s.path, s.text) ELSE UNCHANGED told
         ELSE UNCHANGED <<changes, told>>
  /\ UNCHANGED <<program, revs, made, begun, owner, open, counts, handle, known, phase,
                 answer>>

\* Stream (Drop): from_ptr has said that it needs no close.
drop_stream(c) ==
  /\ "unclosed" \in program
  /\ stream[c] # Null
  /\ stream' = Set(stream, c, Null)
  /\ UNCHANGED <<program, store, counts, handle, known, told, phase, answer>>

-----------------------------------------------------------------------------
(***************************************************************************)
(* A property of a revision, which every client adds one to.                *)
(***************************************************************************)
\* With no refresh, the filesystem answers from its cache.
revision_prop(c, refresh) ==
  /\ \E v \in 0 .. prop :
       /\ refresh => v = prop
       /\ read' = Set(read, c, v)
  /\ UNCHANGED <<program, store, prop, updates, handle, known, stream, told, phase,
                 answer>>

\* Mutant: the old value is not handed to C.
change_rev_prop_unconditional(c) ==
  /\ read[c] # Null
  /\ updates < MaxUpdates
  /\ prop' = read[c] + 1
  /\ updates' = updates + 1
  /\ read' = Set(read, c, Null)
  /\ UNCHANGED <<program, store, handle, known, stream, told, phase, answer>>

\* Fs::change_rev_prop with the old value: C compares and sets, or returns an error.
change_rev_prop(c) ==
  /\ read[c] # Null
  /\ updates < MaxUpdates
  /\ read' = Set(read, c, Null)
  /\ IF read[c] = prop
       THEN prop' = read[c] + 1 /\ updates' = updates + 1
       ELSE UNCHANGED <<prop, updates>>
  /\ UNCHANGED <<program, store, handle, known, stream, told, phase, answer>>

\* The same with None, and Repos::change_rev_prop.
change_rev_prop_blind(c) ==
  /\ "blind" \in program
  /\ read[c] # Null
  /\ updates < MaxUpdates
  /\ prop' = read[c] + 1
  /\ updates' = updates + 1
  /\ read' = Set(read, c, Null)
  /\ UNCHANGED <<program, store, handle, known, stream, told, phase, answer>>

-----------------------------------------------------------------------------
Next ==
  \E c \in Clients :
    \/ begin_txn(c)
    \/ \E n \in Names : open_txn(c, n)
    \/ drop(c)
    \/ abort(c)
    \/ \E n \in Names : purge_txn(c, n)
    \/ commit(c)
    \/ crash(c)
    \/ \E p \in Paths, t \in Texts : set_file_contents(c, p, t)
    \/ \E p \in Paths : apply_text(c, p)
    \/ \E t \in Texts : write(c, t)
    \/ close(c)
    \/ drop_stream(c)
    \/ \E refresh \in BOOLEAN : revision_prop(c, refresh)
    \/ change_rev_prop(c)
    \/ change_rev_prop_blind(c)

Spec == Init /\ [][Next]_vars

-----------------------------------------------------------------------------
TypeOK ==
  /\ program \in Programs
  /\ revs \in Seq(Trees)
  /\ made \in Seq(1 .. begun)
  /\ Len(revs) = Len(made) + 1
  /\ begun \in 0 .. MaxTxns
  /\ owner \in [Names -> Clients \cup {Null}]
  /\ open \subseteq 1 .. begun
  /\ changes \in [Names -> Changes]
  /\ prop \in 0 .. MaxUpdates /\ updates \in 0 .. MaxUpdates
  /\ handle \in [Clients -> Names \cup {Null}]
  /\ known \in [Clients -> Names \cup {Null}]
  /\ stream \in [Clients -> Writes \cup {Null}]
  /\ told \in [Clients -> Changes]
  /\ phase \in [Clients -> Phases]
  /\ answer \in [Clients -> 0 .. MaxTxns]
  /\ read \in [Clients -> 0 .. MaxUpdates \cup {Null}]
  /\ \A c \in Clients : handle[c] # Null <=> phase[c] = "working"

\* The revision that commit returns has the texts whose storing was reported to the
\* client, and nothing else that is new; unless a stream was not closed in time, or
\* two clients were at work on one transaction.
CommittedAsTold ==
  program \cap {"unclosed", "late", "share"} = {} =>
    \A c \in Clients : answer[c] # 0 =>
      LET r == answer[c] IN
        /\ r + 1 \in DOMAIN revs
        /\ revs[r + 1] = Overlay(revs[r], told[c])

\* A client's change is in one revision at most, although a commit that was made can
\* return an error and a process can end: a client that goes on with the transaction
\* it knows, and not with a new one, makes no second commit.
CommittedOnce ==
  program \cap {"anew", "share"} = {} =>
    \A r, s \in DOMAIN made : owner[made[r]] = owner[made[s]] => r = s

\* No update of the property is lost, even of clients that read it from the cache,
\* if all give the old value.
UpdatesCounted == "blind" \notin program => prop = updates

\* A program with no liberty but those that do not matter here gets what a
\* RevisionStore promises: the change of a client becomes a revision as a whole, as
\* it was told, and once.
Tame == program \cap (Liberties \ {"blind"}) = {}

Made(c) == \E r \in DOMAIN made : owner[made[r]] = c

Promise ==
  INSTANCE RevisionStore WITH
    Texts <- Contents,
    revs  <- IF Tame THEN revs ELSE << [p \in Paths |-> Absent] >>,
    asked <- [c \in Clients |-> IF Tame /\ ~Made(c) THEN told[c] ELSE Nothing],
    done  <- IF Tame THEN {c \in Clients : Made(c)} ELSE {}

StorePromised == Promise!Spec
=============================================================================
