------------------------ MODULE FsTransactions_proofs ------------------------
(***************************************************************************)
(* Proofs about FsTransactions, for every number of clients, transactions,  *)
(* files, texts and updates, and every set of liberties:                    *)
(*                                                                         *)
(*   types          no more revisions than transactions that were begun;    *)
(*   counts         no update of the property is lost;                      *)
(*   revisions      what they record, and that it stays;                    *)
(*   commits        a client's change is one revision at most, and a client  *)
(*                  that does not find its transaction again has it made;    *)
(*   answers        the revision that commit returns is what was told;      *)
(*   refinement     transactions implement RevisionStore.                   *)
(***************************************************************************)
EXTENDS FsTransactions, FiniteSetTheorems, SequenceTheorems, TLAPS

-----------------------------------------------------------------------------
(***************************************************************************)
(* Texts put in a change, and changes laid over a tree.                     *)
(***************************************************************************)
LEMMA NothingType == Nothing \in Changes
<1>1. Nothing \in [{} -> Contents]
  BY DEF Nothing
<1>. QED
  BY <1>1 DEF Changes

LEMMA PutType ==
  ASSUME NEW d \in Changes, NEW p \in Paths, NEW t \in Contents
  PROVE  Put(d, p, t) \in Changes
<1>1. PICK D \in SUBSET Paths : d \in [D -> Contents]
  BY DEF Changes
<1>2. Put(d, p, t) \in [D \cup {p} -> Contents]
  BY <1>1 DEF Put
<1>. QED
  BY <1>2 DEF Changes

LEMMA OverlayType ==
  ASSUME NEW t \in Trees, NEW d \in Changes
  PROVE  Overlay(t, d) \in Trees
<1>1. PICK D \in SUBSET Paths : d \in [D -> Contents]
  BY DEF Changes
<1>. QED
  BY <1>1 DEF Overlay, Trees

\* The last text put in a file is the one that counts.
LEMMA PutTwice ==
  ASSUME NEW d, NEW p, NEW s, NEW t
  PROVE  Put(Put(d, p, s), p, t) = Put(d, p, t)
BY DEF Put

LEMMA PutElsewhere ==
  ASSUME NEW d, NEW p, NEW q, NEW s, NEW t, p # q
  PROVE  Put(Put(d, p, s), q, t) = Put(Put(d, q, t), p, s)
BY DEF Put

\* Changes that differ in one file at most still do when a text is put in both.
LEMMA PutBoth ==
  ASSUME NEW d, NEW e, NEW q, NEW x, Put(d, q, x) = Put(e, q, x), NEW p, NEW t
  PROVE  Put(Put(d, p, t), q, x) = Put(Put(e, p, t), q, x)
<1>1. CASE p = q
  BY <1>1, PutTwice
<1>2. CASE p # q
  BY <1>2, PutElsewhere
<1>. QED
  BY <1>1, <1>2

\* And it does not matter which text that file would get.
LEMMA PutOther ==
  ASSUME NEW d, NEW e, NEW p, NEW s, Put(d, p, s) = Put(e, p, s), NEW t
  PROVE  Put(d, p, t) = Put(e, p, t)
BY PutTwice

-----------------------------------------------------------------------------
(***************************************************************************)
(* The parts of the inductive invariant.                                   *)
(***************************************************************************)
\* A transaction becomes a revision once, and is in the store no longer.
Spent ==
  /\ \A r, s \in DOMAIN made : made[r] = made[s] => r = s
  /\ \A r \in DOMAIN made : made[r] \notin open

\* A client's handle is on the transaction whose name it has; what is not begun is empty.
Named ==
  /\ \A c \in Clients : handle[c] # Null => handle[c] = known[c]
  /\ \A c \in Clients : known[c] # Null => known[c] <= begun
  /\ \A n \in Names : n > begun => changes[n] = Nothing

\* A count is that of some moment, when there were no more updates than now.
Counted ==
  /\ prop <= updates
  /\ \A c \in Clients : read[c] # Null => read[c] <= updates
  /\ "blind" \notin program => prop = updates

TypeInv == TypeOK /\ Spent /\ Named /\ Counted

\* If nothing is shared, the transaction that a client has, or knows by name, is its
\* own, and stays in the store as long as the client has it.
Owned ==
  "share" \notin program =>
    \A c \in Clients :
      /\ known[c] # Null => owner[known[c]] = c
      /\ handle[c] # Null => handle[c] \in open

\* A client whose change is a revision does not go on: it is at its end, or does not
\* know, but the name it has leads nowhere.
Settled ==
  program \cap {"anew", "share"} = {} =>
    \A c \in Clients : Made(c) =>
      /\ phase[c] \in {"unsure", "over"}
      /\ phase[c] = "unsure" => known[c] = Null \/ known[c] \notin open

\* A stream is one into the transaction of its client's handle.
Within ==
  program \cap {"late", "share"} = {} =>
    \A c \in Clients : stream[c] # Null =>
      phase[c] = "working" /\ stream[c].txn = handle[c]

\* What a client was told is what its transaction changes, but for the file of an
\* open stream, where it will be so when the stream is closed.
Agree(c) ==
  IF stream[c] = Null
    THEN told[c] = changes[known[c]]
    ELSE Put(told[c], stream[c].path, stream[c].text)
           = Put(changes[known[c]], stream[c].path, stream[c].text)

Careful == program \cap {"unclosed", "late", "share"} = {}

Agreed ==
  Careful =>
    \A c \in Clients :
      phase[c] = "working" \/ (phase[c] = "unsure" /\ known[c] # Null) => Agree(c)

\* A client that has its answer does nothing more.
Answered ==
  Careful =>
    \A c \in Clients : answer[c] # 0 =>
      /\ phase[c] = "over"
      /\ answer[c] + 1 \in DOMAIN revs
      /\ revs[answer[c] + 1] = Overlay(revs[answer[c]], told[c])

CommitInv == TypeInv /\ Owned /\ Settled /\ CommittedOnce
TellInv == TypeInv /\ Owned /\ Within /\ Agreed /\ Answered

-----------------------------------------------------------------------------
(***************************************************************************)
(* Types and counts.                                                       *)
(***************************************************************************)
LEMMA CountTo ==
  ASSUME NEW k \in Nat
  PROVE  IsFiniteSet(1 .. k) /\ Cardinality(1 .. k) = k
<1>1. 1 \in Int /\ k \in Int /\ ~(1 > k /\ k # 0) /\ k - 1 + 1 = k
  OBVIOUS
<1>2. IsFiniteSet(1 .. k)
  BY <1>1, FS_Interval, Zenon
<1>3. Cardinality(1 .. k) = IF 1 > k THEN 0 ELSE k - 1 + 1
  BY <1>1, FS_Interval, Zenon
<1>. QED
  BY <1>1, <1>2, <1>3

\* There are fewer revisions than transactions while one is in the store.
LEMMA RoomForOne ==
  ASSUME TypeOK, Spent, NEW n \in open
  PROVE  Len(made) < begun
<1>. DEFINE Others == (1 .. begun) \ {n}
<1>1. begun \in Nat /\ n \in 1 .. begun /\ made \in [1 .. Len(made) -> 1 .. begun]
  BY BoundsNat DEF TypeOK
<1>2. Len(made) \in Nat
  BY DEF TypeOK
<1>3. made \in Injection(1 .. Len(made), Others)
  BY <1>1, <1>2 DEF Spent, Injection, IsInjective
<1>4. IsFiniteSet(1 .. begun) /\ Cardinality(1 .. begun) = begun
  BY <1>1, CountTo, Zenon
<1>5. IsFiniteSet(Others) /\ Cardinality(Others) = begun - 1
  BY <1>1, <1>4, FS_RemoveElement
<1>. HIDE DEF Others
<1>6. Cardinality(1 .. Len(made)) <= Cardinality(Others)
  BY <1>3, <1>5, FS_Injection
<1>7. Cardinality(1 .. Len(made)) = Len(made)
  BY <1>2, CountTo, Zenon
<1>. QED
  BY <1>1, <1>2, <1>5, <1>6, <1>7

\* What a commit that is made does to the revisions.
LEMMA AppendType ==
  ASSUME TypeInv, NEW n, Append1(n)
  PROVE  /\ revs' \in Seq(Trees)
         /\ made' \in Seq(1 .. begun)
         /\ Len(made') = Len(made) + 1
         /\ Len(revs') = Len(revs) + 1
         /\ Len(revs) <= MaxTxns
         /\ made'[Len(made) + 1] = n
         /\ \A r \in 1 .. Len(made) : made'[r] = made[r]
         /\ \A r \in 1 .. Len(revs) : revs'[r] = revs[r]
         /\ revs'[Len(revs) + 1] = Overlay(revs[Len(revs)], changes[n])
<1>1. n \in 1 .. begun /\ begun \in Nat /\ begun <= MaxTxns /\ n \in Names
  BY BoundsNat DEF TypeInv, TypeOK, Append1, Names
<1>2. Len(made) < begun /\ Len(made) \in Nat /\ Len(revs) = Len(made) + 1
  BY RoomForOne DEF TypeInv, TypeOK, Append1
<1>3. revs[Len(revs)] \in Trees /\ changes[n] \in Changes
  BY <1>1, <1>2 DEF TypeInv, TypeOK
<1>. DEFINE t == Overlay(revs[Len(revs)], changes[n])
<1>4. t \in Trees
  BY <1>3, OverlayType
<1>5. revs \in Seq(Trees) /\ revs' = Append(revs, t)
  BY DEF TypeInv, TypeOK, Append1
<1>6. made \in Seq(1 .. begun) /\ made' = Append(made, n)
  BY DEF TypeInv, TypeOK, Append1
<1>. HIDE DEF t
<1>7. /\ revs' \in Seq(Trees)
      /\ Len(revs') = Len(revs) + 1
      /\ \A r \in 1 .. Len(revs) : revs'[r] = revs[r]
      /\ revs'[Len(revs) + 1] = t
  BY <1>4, <1>5, AppendProperties
<1>8. /\ made' \in Seq(1 .. begun)
      /\ Len(made') = Len(made) + 1
      /\ \A r \in 1 .. Len(made) : made'[r] = made[r]
      /\ made'[Len(made) + 1] = n
  BY <1>1, <1>6, AppendProperties
<1>9. Len(revs) <= MaxTxns
  BY <1>1, <1>2, BoundsNat
<1>. QED
  BY <1>7, <1>8, <1>9 DEF t

LEMMA TypeInit == Init => TypeInv
<1>. SUFFICES ASSUME Init PROVE TypeInv
  OBVIOUS
<1>1. [p \in Paths |-> Absent] \in Trees
  BY DEF Trees
<1>2. TypeOK
  BY <1>1, BoundsNat, TextsNew, NothingType DEF Init, TypeOK, Names, Phases
<1>3. Spent /\ Named
  BY DEF Init, Spent, Named
<1>4. Counted
  BY DEF Init, Counted
<1>. QED
  BY <1>2, <1>3, <1>4 DEF TypeInv

LEMMA TypeStep == TypeInv /\ [Next]_vars => TypeInv'
<1>. SUFFICES ASSUME TypeInv, [Next]_vars PROVE TypeInv'
  OBVIOUS
<1>. USE BoundsNat, TextsNew DEF TypeInv, TypeOK, Names, Phases, Set, store, counts
<1>a. ASSUME NEW c \in Clients, begin_txn(c) PROVE TypeInv'
  <2>. USE <1>a DEF begin_txn
  <2>1. TypeOK'
    BY NothingType
  <2>2. Spent'
    BY DEF Spent
  <2>3. Named' /\ Counted'
    BY DEF Named, Counted
  <2>. QED
    BY <2>1, <2>2, <2>3
<1>b. ASSUME NEW c \in Clients, NEW n \in Names, open_txn(c, n) PROVE TypeInv'
  <2>a. /\ handle' \in [Clients -> Names \cup {Null}]
        /\ known' \in [Clients -> Names \cup {Null}]
        /\ phase' \in [Clients -> Phases]
        /\ \A d \in Clients : handle'[d] # Null <=> phase'[d] = "working"
    <3>1. CASE n \in open
      <4>1. /\ handle' = [handle EXCEPT ![c] = n] /\ known' = [known EXCEPT ![c] = n]
            /\ phase' = [phase EXCEPT ![c] = "working"]
        BY <1>b, <3>1 DEF open_txn
      <4>2. n # Null
        OBVIOUS
      <4>. QED
        BY <4>1, <4>2
    <3>2. CASE n \notin open
      <4>1. UNCHANGED <<handle, known>> /\ phase' = [phase EXCEPT ![c] = "over"]
        BY <1>b, <3>2 DEF open_txn
      <4>2. phase[c] # "working"
        BY <1>b DEF open_txn
      <4>. QED
        BY <4>1, <4>2
    <3>. QED
      BY <3>1, <3>2
  <2>1. TypeOK'
    BY <1>b, <2>a DEF open_txn
  <2>2. Spent' /\ Counted'
    BY <1>b DEF open_txn, Spent, Counted
  <2>3. CASE n \in open
    <3>1. handle' = [handle EXCEPT ![c] = n] /\ known' = [known EXCEPT ![c] = n]
      BY <1>b, <2>3 DEF open_txn
    <3>2. begun' = begun /\ changes' = changes /\ n <= begun
      BY <1>b, <2>3 DEF open_txn
    <3>3. Named'
      BY <3>1, <3>2 DEF Named
    <3>. QED
      BY <2>1, <2>2, <3>3
  <2>4. CASE n \notin open
    <3>1. Named'
      BY <1>b, <2>4 DEF open_txn, Named
    <3>. QED
      BY <2>1, <2>2, <3>1
  <2>. QED
    BY <2>3, <2>4
<1>c. ASSUME NEW c \in Clients, drop(c) \/ abort(c) PROVE TypeInv'
  <2>1. /\ UNCHANGED <<program, revs, made, begun, owner, changes, counts, known, stream,
                      answer>>
        /\ open' \subseteq open
        /\ handle' = [handle EXCEPT ![c] = Null]
        /\ phase' = [phase EXCEPT ![c] = "idle"]
        /\ told' = [told EXCEPT ![c] = Nothing]
    BY <1>c DEF drop, abort, Leave
  <2>2. TypeOK'
    BY <2>1, NothingType
  <2>3. Spent'
    BY <2>1 DEF Spent
  <2>4. Named' /\ Counted'
    BY <2>1 DEF Named, Counted
  <2>. QED
    BY <2>2, <2>3, <2>4
<1>d. ASSUME NEW c \in Clients, NEW n \in Names, purge_txn(c, n) PROVE TypeInv'
  <2>1. TypeOK'
    BY <1>d, NothingType DEF purge_txn
  <2>2. Spent' /\ Named' /\ Counted'
    BY <1>d DEF purge_txn, Spent, Named, Counted
  <2>. QED
    BY <2>1, <2>2
<1>e. ASSUME NEW c \in Clients, commit(c) PROVE TypeInv'
  <2>1. CASE Append1(handle[c])
    <3>a. /\ revs' \in Seq(Trees) /\ made' \in Seq(1 .. begun)
          /\ Len(made') = Len(made) + 1 /\ Len(revs') = Len(revs) + 1
          /\ Len(revs) \in 0 .. MaxTxns
          /\ open' \subseteq open
      <4>1. /\ revs' \in Seq(Trees) /\ made' \in Seq(1 .. begun)
            /\ Len(made') = Len(made) + 1 /\ Len(revs') = Len(revs) + 1
            /\ Len(revs) <= MaxTxns
        BY <2>1, AppendType
      <4>2. Len(revs) \in Nat
        OBVIOUS
      <4>3. open' \subseteq open
        BY <2>1 DEF Append1
      <4>. QED
        BY <4>1, <4>2, <4>3
    <3>b. answer' \in [Clients -> 0 .. MaxTxns]
      BY <1>e, <3>a DEF commit, Append1
    <3>c. handle' = [handle EXCEPT ![c] = Null]
      BY <1>e DEF commit, Leave
    <3>d. phase' = [phase EXCEPT ![c] = "over"] \/ phase' = [phase EXCEPT ![c] = "unsure"]
      BY <1>e DEF commit, Leave
    <3>e. /\ phase' \in [Clients -> Phases]
          /\ \A d \in Clients : handle'[d] # Null <=> phase'[d] = "working"
      BY <3>c, <3>d
    <3>1. TypeOK'
      BY <1>e, <3>a, <3>b, <3>c, <3>e DEF commit
    <3>f. /\ DOMAIN made = 1 .. Len(made) /\ DOMAIN made' = 1 .. Len(made) + 1
          /\ \A r \in 1 .. Len(made) : made'[r] = made[r]
          /\ made'[Len(made) + 1] = handle[c]
          /\ handle[c] \in open /\ open' = open \ {handle[c]}
      BY <2>1, <3>a, AppendType DEF Append1
    <3>g. \A r \in 1 .. Len(made) : made[r] # handle[c] /\ made[r] \notin open
      BY <3>f DEF Spent
    <3>h. \A r \in DOMAIN made' : r \in 1 .. Len(made) \/ r = Len(made) + 1
      BY <3>f
    <3>2. Spent'
      BY <3>f, <3>g, <3>h DEF Spent
    <3>3. Named' /\ Counted'
      BY <1>e DEF commit, Leave, Named, Counted
    <3>. QED
      BY <3>1, <3>2, <3>3
  <2>2. CASE ~Append1(handle[c])
    <3>1. Leave(c, "unsure") /\ UNCHANGED <<revs, made, open, answer>>
      BY <1>e, <2>2 DEF commit
    <3>2. TypeOK'
      BY <1>e, <3>1 DEF commit, Leave, Working
    <3>3. Spent' /\ Named' /\ Counted'
      BY <1>e, <3>1 DEF commit, Leave, Spent, Named, Counted
    <3>. QED
      BY <3>2, <3>3
  <2>. QED
    BY <2>1, <2>2
<1>f. ASSUME NEW c \in Clients, crash(c) PROVE TypeInv'
  <2>a. told' \in [Clients -> Changes] /\ known' \in [Clients -> Names \cup {Null}]
    <3>1. CASE known' = [known EXCEPT ![c] = Null] /\ told' = [told EXCEPT ![c] = Nothing]
      BY <3>1, NothingType
    <3>2. CASE /\ known[c] # Null /\ known' = known
               /\ told' = [told EXCEPT ![c] = changes[known[c]]]
      <4>1. changes[known[c]] \in Changes
        BY <3>2
      <4>. QED
        BY <3>2, <4>1
    <3>. QED
      BY <1>f, <3>1, <3>2 DEF crash
  <2>1. TypeOK'
    BY <1>f, <2>a DEF crash, Leave
  <2>2. Spent' /\ Counted'
    BY <1>f DEF crash, Spent, Counted
  <2>3. Named'
    BY <1>f DEF crash, Leave, Named
  <2>. QED
    BY <2>1, <2>2, <2>3
<1>g. ASSUME NEW c \in Clients, NEW p \in Paths, NEW t \in Texts,
             set_file_contents(c, p, t)
      PROVE  TypeInv'
  <2>1. /\ Put(changes[handle[c]], p, t) \in Changes
        /\ Put(told[c], p, t) \in Changes
    BY <1>g, PutType DEF set_file_contents, Contents
  <2>2. TypeOK'
    BY <1>g, <2>1 DEF set_file_contents, Store, Tell
  <2>3. Spent' /\ Named' /\ Counted'
    BY <1>g DEF set_file_contents, Store, Spent, Named, Counted
  <2>. QED
    BY <2>2, <2>3
<1>h. ASSUME NEW c \in Clients, NEW p \in Paths, apply_text(c, p) PROVE TypeInv'
  <2>1. [txn |-> handle[c], path |-> p, text |-> Empty] \in Writes
    BY <1>h DEF apply_text, Writes, Contents
  <2>2. TypeOK'
    BY <1>h, <2>1 DEF apply_text
  <2>3. Spent' /\ Named' /\ Counted'
    BY <1>h DEF apply_text, Spent, Named, Counted
  <2>. QED
    BY <2>2, <2>3
<1>i. ASSUME NEW c \in Clients, NEW t \in Texts, write(c, t) PROVE TypeInv'
  <2>1. stream[c] \in Writes /\ t \in Contents
    BY <1>i DEF write, Contents
  <2>2. [stream[c] EXCEPT !.text = t] \in Writes /\ Put(told[c], stream[c].path, t) \in Changes
    BY <2>1, PutType DEF Writes
  <2>3. TypeOK'
    BY <1>i, <2>2 DEF write, Tell
  <2>4. Spent' /\ Named' /\ Counted'
    BY <1>i DEF write, Spent, Named, Counted
  <2>. QED
    BY <2>3, <2>4
<1>j. ASSUME NEW c \in Clients, close(c) PROVE TypeInv'
  <2>1. stream[c] \in Writes
    BY <1>j DEF close
  <2>2. /\ Put(changes[stream[c].txn], stream[c].path, stream[c].text) \in Changes
        /\ Put(told[c], stream[c].path, stream[c].text) \in Changes
    BY <2>1, PutType DEF Writes
  <2>a. stream[c].txn \in Names
    BY <2>1 DEF Writes
  <2>b. changes' \in [Names -> Changes] /\ told' \in [Clients -> Changes]
    <3>1. \/ changes' = changes
          \/ changes' = [changes EXCEPT ![stream[c].txn] =
                           Put(changes[stream[c].txn], stream[c].path, stream[c].text)]
      BY <1>j DEF close, Store
    <3>2. \/ told' = told
          \/ told' = [told EXCEPT ![c] = Put(told[c], stream[c].path, stream[c].text)]
      BY <1>j DEF close, Tell
    <3>3. changes \in [Names -> Changes] /\ told \in [Clients -> Changes]
      OBVIOUS
    <3>4. changes' \in [Names -> Changes]
      BY <2>2, <3>1, <3>3, Zenon
    <3>5. told' \in [Clients -> Changes]
      BY <2>2, <3>2, <3>3, Zenon
    <3>. QED
      BY <3>4, <3>5
  <2>c. stream' \in [Clients -> Writes \cup {Null}]
    BY <1>j DEF close
  <2>3. TypeOK'
    BY <1>j, <2>b, <2>c DEF close
  <2>4. Spent' /\ Counted'
    BY <1>j DEF close, Spent, Counted
  <2>d. ASSUME NEW n \in Names, n > begun PROVE changes'[n] = changes[n]
    <3>1. PICK m \in Names : m = stream[c].txn
      BY <2>a
    <3>2. m \in open => m # n
      BY <2>d
    <3>3. m \in open => changes' = [changes EXCEPT ![m] = Put(changes[m], stream[c].path, stream[c].text)]
      BY <1>j, <3>1 DEF close, Store
    <3>4. m \notin open => changes' = changes
      BY <1>j, <3>1 DEF close
    <3>. QED
      BY <3>2, <3>3, <3>4
  <2>5. Named'
    BY <1>j, <2>d DEF close, Named
  <2>. QED
    BY <2>3, <2>4, <2>5
<1>k. ASSUME NEW c \in Clients, drop_stream(c) PROVE TypeInv'
  BY <1>k DEF drop_stream, Spent, Named, Counted
<1>l. ASSUME NEW c \in Clients, NEW refresh \in BOOLEAN, revision_prop(c, refresh)
      PROVE  TypeInv'
  BY <1>l DEF revision_prop, Spent, Named, Counted
<1>m. ASSUME NEW c \in Clients, change_rev_prop(c) PROVE TypeInv'
  <2>1. Spent' /\ Named'
    BY <1>m DEF change_rev_prop, Spent, Named
  <2>2. read' = [read EXCEPT ![c] = Null] /\ read[c] \in 0 .. MaxUpdates /\ read[c] <= updates
    BY <1>m DEF change_rev_prop, Counted
  <2>3. Counted'
    BY <1>m, <2>2 DEF change_rev_prop, Counted
  <2>a. \/ UNCHANGED <<prop, updates>>
        \/ prop' = read[c] + 1 /\ updates' = updates + 1
    BY <1>m DEF change_rev_prop
  <2>b. updates < MaxUpdates /\ read[c] \in Nat /\ updates \in Nat /\ read[c] <= updates
    BY <1>m, <2>2 DEF change_rev_prop
  <2>4. prop' \in 0 .. MaxUpdates /\ updates' \in 0 .. MaxUpdates
    BY <2>a, <2>b
  <2>5. TypeOK'
    BY <1>m, <2>2, <2>4 DEF change_rev_prop
  <2>. QED
    BY <2>1, <2>3, <2>5
<1>n. ASSUME NEW c \in Clients, change_rev_prop_blind(c) PROVE TypeInv'
  <2>1. Spent' /\ Named'
    BY <1>n DEF change_rev_prop_blind, Spent, Named
  <2>2. read' = [read EXCEPT ![c] = Null] /\ read[c] \in 0 .. MaxUpdates /\ read[c] <= updates
    BY <1>n DEF change_rev_prop_blind, Counted
  <2>3. Counted'
    BY <1>n, <2>2 DEF change_rev_prop_blind, Counted
  <2>a. \/ UNCHANGED <<prop, updates>>
        \/ prop' = read[c] + 1 /\ updates' = updates + 1
    BY <1>n DEF change_rev_prop_blind
  <2>b. updates < MaxUpdates /\ read[c] \in Nat /\ updates \in Nat /\ read[c] <= updates
    BY <1>n, <2>2 DEF change_rev_prop_blind
  <2>4. prop' \in 0 .. MaxUpdates /\ updates' \in 0 .. MaxUpdates
    BY <2>a, <2>b
  <2>5. TypeOK'
    BY <1>n, <2>2, <2>4 DEF change_rev_prop_blind
  <2>. QED
    BY <2>1, <2>3, <2>5
<1>o. CASE UNCHANGED vars
  BY <1>o DEF vars, Spent, Named, Counted
<1>. QED
  BY <1>a, <1>b, <1>c, <1>d, <1>e, <1>f, <1>g, <1>h, <1>i, <1>j, <1>k, <1>l, <1>m,
     <1>n, <1>o DEF Next

LEMMA AlwaysTypeInv == Spec => []TypeInv
<1>. QED
  BY TypeInit, TypeStep, PTL DEF Spec

\* Every part of the state has its type: there are no more revisions than transactions
\* begun, and none is of one that was not begun.
THEOREM TypeCorrect == Spec => []TypeOK
<1>1. TypeInv => TypeOK
  BY DEF TypeInv
<1>. QED
  BY <1>1, AlwaysTypeInv, PTL

\* Clients that give the old value lose no update of the property, however stale the
\* value that they have read.
THEOREM UpdatesAlwaysCounted == Spec => []UpdatesCounted
<1>1. TypeInv => UpdatesCounted
  BY DEF TypeInv, Counted, UpdatesCounted
<1>. QED
  BY <1>1, AlwaysTypeInv, PTL

-----------------------------------------------------------------------------
(***************************************************************************)
(* Steps that begin, end or hand over no transaction.                       *)
(***************************************************************************)
FileStep(c) ==
  \/ \E p \in Paths, t \in Texts : set_file_contents(c, p, t)
  \/ \E p \in Paths : apply_text(c, p)
  \/ \E t \in Texts : write(c, t)
  \/ close(c)
  \/ drop_stream(c)

CountStep(c) ==
  \/ \E refresh \in BOOLEAN : revision_prop(c, refresh)
  \/ change_rev_prop(c)
  \/ change_rev_prop_blind(c)

\* A write into a file changes no revision, no name and no phase.
LEMMA FileStepKeeps ==
  ASSUME NEW c \in Clients, FileStep(c)
  PROVE  UNCHANGED <<program, revs, made, begun, owner, open, handle, known, phase, answer>>
<1>1. CASE \E p \in Paths, t \in Texts : set_file_contents(c, p, t)
  BY <1>1 DEF set_file_contents
<1>2. CASE \E p \in Paths : apply_text(c, p)
  BY <1>2 DEF apply_text, store
<1>3. CASE \E t \in Texts : write(c, t)
  BY <1>3 DEF write, store
<1>4. CASE close(c)
  BY <1>4 DEF close
<1>5. CASE drop_stream(c)
  BY <1>5 DEF drop_stream, store
<1>. QED
  BY <1>1, <1>2, <1>3, <1>4, <1>5 DEF FileStep

\* A count touches nothing of the transactions.
LEMMA CountStepKeeps ==
  ASSUME NEW c \in Clients, CountStep(c)
  PROVE  UNCHANGED <<program, store, handle, known, stream, told, phase, answer>>
<1>1. CASE \E refresh \in BOOLEAN : revision_prop(c, refresh)
  BY <1>1 DEF revision_prop
<1>2. CASE change_rev_prop(c)
  BY <1>2 DEF change_rev_prop
<1>3. CASE change_rev_prop_blind(c)
  BY <1>3 DEF change_rev_prop_blind
<1>. QED
  BY <1>1, <1>2, <1>3 DEF CountStep

LEMMA ProgramKept == [Next]_vars => program' = program
BY FileStepKeeps, CountStepKeeps
   DEF Next, FileStep, CountStep, vars, begin_txn, open_txn, drop, abort, purge_txn, commit, crash

\* A process that starts again has its name and what it finds under it, or nothing.
LEMMA CrashLeaves ==
  ASSUME TypeInv, NEW c \in Clients, crash(c)
  PROVE  /\ UNCHANGED <<program, store, counts, answer>>
         /\ phase[c] \in {"working", "unsure"}
         /\ phase' = [phase EXCEPT ![c] = "unsure"]
         /\ handle' = [handle EXCEPT ![c] = Null]
         /\ stream' = [stream EXCEPT ![c] = Null]
         /\ \/ /\ known' = [known EXCEPT ![c] = Null]
               /\ told' = [told EXCEPT ![c] = Nothing]
            \/ /\ known[c] \in Names /\ known' = known
               /\ told' = [told EXCEPT ![c] = changes[known[c]]]
BY DEF crash, Leave, Set, TypeInv, TypeOK

-----------------------------------------------------------------------------
(***************************************************************************)
(* Revisions: what they record, for good.                                   *)
(***************************************************************************)
\* Each revision is the one before with the changes of one transaction in their place.
RevisionsRecord ==
  /\ revs[1] = [p \in Paths |-> Absent]
  /\ \A r \in DOMAIN made : revs[r + 1] = Overlay(revs[r], changes[made[r]])

\* What a revision is, and whose transaction with which changes became it, stays so; and
\* that transaction is not in the store again.
HistoryKept ==
  /\ DOMAIN revs \subseteq DOMAIN revs' /\ DOMAIN made \subseteq DOMAIN made'
  /\ \A r \in DOMAIN revs : revs'[r] = revs[r]
  /\ \A r \in DOMAIN made :
       /\ made'[r] = made[r] /\ made[r] \notin open'
       /\ owner'[made[r]] = owner[made[r]]
       /\ changes'[made[r]] = changes[made[r]]

\* A text goes into a transaction that is in the store, whatever stream it comes from.
LEMMA StoresIntoOpen ==
  ASSUME TypeInv, NEW c \in Clients, FileStep(c), NEW n \in Names \ open
  PROVE  changes'[n] = changes[n]
<1>1. changes \in [Names -> Changes]
  BY DEF TypeInv, TypeOK
<1>2. CASE \E p \in Paths, t \in Texts : set_file_contents(c, p, t)
  BY <1>1, <1>2 DEF set_file_contents, Store, Set
<1>3. CASE close(c)
  BY <1>1, <1>3 DEF close, Store, Set
<1>4. CASE UNCHANGED changes
  BY <1>4
<1>. QED
  BY <1>2, <1>3, <1>4 DEF FileStep, apply_text, write, drop_stream, store

LEMMA HistoryStep ==
  ASSUME TypeInv, [Next]_vars
  PROVE  HistoryKept
<1>t. /\ begun \in Nat /\ begun <= MaxTxns /\ Names = 1 .. MaxTxns
      /\ DOMAIN made = 1 .. Len(made) /\ DOMAIN revs = 1 .. Len(revs)
      /\ Len(made) \in Nat /\ Len(revs) \in Nat
      /\ owner \in [Names -> Clients \cup {Null}]
      /\ \A r \in DOMAIN made : made[r] \notin open
  BY BoundsNat DEF TypeInv, TypeOK, Names, Spent
<1>u. \A r \in DOMAIN made : made[r] \in Names \ open /\ made[r] # begun + 1
  BY BoundsNat DEF TypeInv, TypeOK, Names, Spent
<1>a. ASSUME NEW c \in Clients, begin_txn(c) PROVE HistoryKept
  <2>1. /\ UNCHANGED <<revs, made, changes>>
        /\ owner' = [owner EXCEPT ![begun + 1] = c]
        /\ open' = open \cup {begun + 1}
    BY <1>a DEF begin_txn, Set
  <2>. QED
    BY <1>t, <1>u, <2>1 DEF HistoryKept
<1>b. ASSUME NEW c \in Clients,
             \/ drop(c) \/ abort(c) \/ crash(c) \/ CountStep(c)
             \/ \E n \in Names : open_txn(c, n) \/ purge_txn(c, n)
      PROVE  HistoryKept
  <2>1. UNCHANGED <<revs, made, owner, changes>> /\ open' \subseteq open
    BY <1>b, CountStepKeeps DEF drop, abort, crash, open_txn, purge_txn, store
  <2>. QED
    BY <1>t, <2>1 DEF HistoryKept
<1>c. ASSUME NEW c \in Clients, commit(c) PROVE HistoryKept
  <2>1. UNCHANGED <<owner, changes>>
    BY <1>c DEF commit
  <2>2. CASE UNCHANGED <<revs, made, open>>
    BY <1>t, <2>1, <2>2 DEF HistoryKept
  <2>3. CASE Append1(handle[c])
    <3>1. /\ \A r \in DOMAIN made : made'[r] = made[r]
          /\ \A r \in DOMAIN revs : revs'[r] = revs[r]
          /\ DOMAIN made \subseteq DOMAIN made' /\ DOMAIN revs \subseteq DOMAIN revs'
      BY <1>t, <2>3, AppendType
    <3>2. open' \subseteq open
      BY <2>3 DEF Append1
    <3>. QED
      BY <1>t, <2>1, <3>1, <3>2 DEF HistoryKept
  <2>. QED
    BY <1>c, <2>2, <2>3 DEF commit
<1>d. ASSUME NEW c \in Clients, FileStep(c) PROVE HistoryKept
  <2>1. UNCHANGED <<revs, made, owner, open>>
    BY <1>d, FileStepKeeps
  <2>2. \A r \in DOMAIN made : changes'[made[r]] = changes[made[r]]
    <3>1. \A n \in Names \ open : changes'[n] = changes[n]
      BY <1>d, StoresIntoOpen
    <3>. QED
      BY <1>u, <3>1
  <2>. QED
    BY <1>t, <2>1, <2>2 DEF HistoryKept
<1>e. CASE UNCHANGED vars
  BY <1>e, <1>t DEF HistoryKept, vars, store
<1>. QED
  BY <1>a, <1>b, <1>c, <1>d, <1>e DEF Next, FileStep, CountStep

LEMMA RecordStep ==
  ASSUME TypeInv, RevisionsRecord, [Next]_vars
  PROVE  RevisionsRecord'
<1>1. HistoryKept
  BY HistoryStep
<1>2. /\ Len(made) \in Nat /\ Len(revs) = Len(made) + 1
      /\ DOMAIN made = 1 .. Len(made) /\ DOMAIN revs = 1 .. Len(revs)
  BY DEF TypeInv, TypeOK
<1>3. revs'[1] = [p \in Paths |-> Absent]
  BY <1>1, <1>2 DEF HistoryKept, RevisionsRecord
<1>4. \A r \in DOMAIN made : revs'[r + 1] = Overlay(revs'[r], changes'[made'[r]])
  BY <1>1, <1>2 DEF HistoryKept, RevisionsRecord
<1>5. CASE made' = made
  BY <1>3, <1>4, <1>5 DEF RevisionsRecord, Overlay
<1>6. ASSUME NEW c \in Clients, commit(c), Append1(handle[c])
      PROVE  RevisionsRecord'
  <2>1. /\ DOMAIN made' = 1 .. Len(made) + 1
        /\ made'[Len(made) + 1] = handle[c]
        /\ revs'[Len(revs)] = revs[Len(revs)]
        /\ revs'[Len(revs) + 1] = Overlay(revs[Len(revs)], changes[handle[c]])
    BY <1>2, <1>6, AppendType
  <2>2. changes' = changes
    BY <1>6 DEF commit
  <2>3. LET r == Len(made) + 1
        IN  revs'[r + 1] = Overlay(revs'[r], changes'[made'[r]])
    BY <1>2, <2>1, <2>2
  <2>. QED
    BY <1>2, <1>3, <1>4, <2>1, <2>3 DEF RevisionsRecord, Overlay
<1>7. made' = made \/ \E c \in Clients : commit(c) /\ Append1(handle[c])
  BY FileStepKeeps, CountStepKeeps
     DEF Next, FileStep, CountStep, vars, store, begin_txn, open_txn, drop, abort,
         purge_txn, commit, crash
<1>. QED
  BY <1>5, <1>6, <1>7

\* Whatever liberties programs take, with streams that outlive their transactions and
\* transactions that are shared: a revision is the one before it with the changes of the
\* transaction that was committed, and neither is ever changed again.
THEOREM RevisionsForGood == Spec => []RevisionsRecord /\ [][HistoryKept]_vars
<1>1. Init => RevisionsRecord
  <2>. SUFFICES ASSUME Init PROVE RevisionsRecord
    OBVIOUS
  <2>1. revs = << [p \in Paths |-> Absent] >> /\ DOMAIN made = {}
    BY DEF Init
  <2>. QED
    BY <2>1 DEF RevisionsRecord
<1>2. TypeInv /\ RevisionsRecord /\ [Next]_vars => RevisionsRecord'
  BY RecordStep
<1>3. TypeInv /\ [Next]_vars => [HistoryKept]_vars
  BY HistoryStep
<1>. QED
  BY <1>1, <1>2, <1>3, AlwaysTypeInv, PTL DEF Spec

-----------------------------------------------------------------------------
(***************************************************************************)
(* Commits: whose a transaction is.                                        *)
(***************************************************************************)
\* Clients that share nothing know different names.
LEMMA NamesApart ==
  ASSUME TypeInv, Owned, "share" \notin program,
         NEW c \in Clients, NEW d \in Clients, c # d, known[c] # Null
  PROVE  known[c] # known[d]
BY DEF Owned

LEMMA OwnedInit == Init => Owned
BY DEF Init, Owned

LEMMA OwnedStep == TypeInv /\ Owned /\ [Next]_vars => Owned'
<1>. SUFFICES ASSUME TypeInv, Owned, [Next]_vars, "share" \notin program,
                     program' = program
              PROVE  Owned'
  BY ProgramKept DEF Owned
<1>t. /\ begun \in Nat /\ begun <= MaxTxns /\ Names = 1 .. MaxTxns
      /\ open \subseteq 1 .. begun
      /\ owner \in [Names -> Clients \cup {Null}]
      /\ handle \in [Clients -> Names \cup {Null}]
      /\ known \in [Clients -> Names \cup {Null}]
      /\ \A d \in Clients : handle[d] # Null => handle[d] = known[d]
      /\ \A d \in Clients : known[d] # Null => known[d] <= begun
      /\ \A d \in Clients : handle[d] # Null <=> phase[d] = "working"
  BY BoundsNat DEF TypeInv, TypeOK, Named, Names
<1>o. \A d \in Clients :
        /\ known[d] # Null => owner[known[d]] = d
        /\ handle[d] # Null => handle[d] \in open
  BY DEF Owned
<1>a. ASSUME NEW c \in Clients, begin_txn(c) PROVE Owned'
  <2>1. /\ begun + 1 \in Names
        /\ owner' = [owner EXCEPT ![begun + 1] = c]
        /\ open' = open \cup {begun + 1}
        /\ handle' = [handle EXCEPT ![c] = begun + 1]
        /\ known' = [known EXCEPT ![c] = begun + 1]
    BY <1>a, <1>t, BoundsNat DEF begin_txn, Set
  <2>. QED
    BY <1>t, <1>o, <2>1 DEF Owned
<1>b. ASSUME NEW c \in Clients, NEW n \in Names, open_txn(c, n) PROVE Owned'
  <2>1. n = known[c] /\ n # Null
    BY <1>b, TextsNew DEF open_txn
  <2>. QED
    BY <1>b, <1>t, <1>o, <2>1 DEF open_txn, Owned, Set, store
<1>c. ASSUME NEW c \in Clients, drop(c) \/ abort(c) \/ commit(c) PROVE Owned'
  <2>1. /\ UNCHANGED <<owner, known>>
        /\ handle' = [handle EXCEPT ![c] = Null]
        /\ open \ {handle[c]} \subseteq open'
        /\ handle[c] # Null
    BY <1>c, <1>t DEF drop, abort, commit, Leave, Working, Append1, Set, store
  <2>2. \A d \in Clients : d # c /\ handle[d] # Null => handle[d] # handle[c]
    BY <1>t, <1>o, <2>1
  <2>. QED
    BY <1>t, <1>o, <2>1, <2>2 DEF Owned
<1>d. ASSUME NEW c \in Clients, NEW n \in Names, purge_txn(c, n) PROVE Owned'
  <2>1. n = known[c] /\ n # Null /\ handle[c] = Null
    BY <1>d, <1>t, TextsNew DEF purge_txn
  <2>2. \A d \in Clients : handle[d] # Null => handle[d] # n
    BY <1>t, <1>o, <2>1
  <2>. QED
    BY <1>d, <1>t, <1>o, <2>2 DEF purge_txn, Owned
<1>e. ASSUME NEW c \in Clients, crash(c) PROVE Owned'
  BY <1>e, <1>t, <1>o, CrashLeaves DEF Owned, store
<1>f. ASSUME NEW c \in Clients, FileStep(c) \/ CountStep(c) PROVE Owned'
  BY <1>f, <1>o, FileStepKeeps, CountStepKeeps DEF Owned, store
<1>g. CASE UNCHANGED vars
  BY <1>g, <1>o DEF Owned, vars, store
<1>. QED
  BY <1>a, <1>b, <1>c, <1>d, <1>e, <1>f, <1>g DEF Next, FileStep, CountStep

\* Beginning a transaction makes it nobody's revision.
LEMMA MadeKept ==
  ASSUME TypeInv, made' = made,
         \/ owner' = owner
         \/ \E c : begun + 1 \in Names /\ owner' = [owner EXCEPT ![begun + 1] = c]
  PROVE  /\ \A r \in DOMAIN made : owner'[made'[r]] = owner[made[r]]
         /\ \A d \in Clients : Made(d)' <=> Made(d)
<1>1. \A r \in DOMAIN made : made[r] \in Names /\ made[r] # begun + 1
  BY BoundsNat DEF TypeInv, TypeOK, Names
<1>2. \A r \in DOMAIN made : owner'[made'[r]] = owner[made[r]]
  BY <1>1 DEF TypeInv, TypeOK
<1>. QED
  BY <1>2 DEF Made

\* A commit that is made makes one more revision, which is that of c.
LEMMA MadeGrows ==
  ASSUME TypeInv, Owned, "share" \notin program, NEW c \in Clients, commit(c),
         Append1(handle[c])
  PROVE  /\ DOMAIN made = 1 .. Len(made) /\ DOMAIN made' = 1 .. Len(made) + 1
         /\ \A r \in DOMAIN made : owner'[made'[r]] = owner[made[r]]
         /\ owner'[made'[Len(made) + 1]] = c
         /\ \A d \in Clients \ {c} : Made(d)' <=> Made(d)
         /\ Made(c)'
<1>1. /\ made \in Seq(1 .. begun) /\ made' \in Seq(1 .. begun)
      /\ Len(made') = Len(made) + 1
      /\ made'[Len(made) + 1] = handle[c]
      /\ \A r \in 1 .. Len(made) : made'[r] = made[r]
  BY AppendType DEF TypeInv, TypeOK
<1>2. DOMAIN made = 1 .. Len(made) /\ DOMAIN made' = 1 .. Len(made) + 1 /\ Len(made) \in Nat
  BY <1>1
<1>3. owner' = owner /\ owner[handle[c]] = c
  BY DEF commit, Working, Owned, TypeInv, TypeOK, Named
<1>4. \A r \in DOMAIN made : owner'[made'[r]] = owner[made[r]]
  BY <1>1, <1>2, <1>3
<1>5. owner'[made'[Len(made) + 1]] = c
  BY <1>1, <1>3
<1>6. \A r \in DOMAIN made' : r \in DOMAIN made \/ r = Len(made) + 1
  BY <1>2
<1>7. Len(made) + 1 \in DOMAIN made' /\ DOMAIN made \subseteq DOMAIN made'
  BY <1>2
<1>8. \A d \in Clients \ {c} : Made(d)' <=> Made(d)
  BY <1>4, <1>5, <1>6, <1>7 DEF Made
<1>9. Made(c)'
  BY <1>5, <1>7 DEF Made
<1>. QED
  BY <1>2, <1>4, <1>5, <1>8, <1>9

LEMMA SettledInit == Init => Settled /\ CommittedOnce
BY DEF Init, Settled, CommittedOnce, Made

LEMMA SettledStep ==
  TypeInv /\ Owned /\ Settled /\ CommittedOnce /\ [Next]_vars => (Settled /\ CommittedOnce)'
<1>. SUFFICES ASSUME TypeInv, Owned, Settled, CommittedOnce, [Next]_vars,
                     program \cap {"anew", "share"} = {}, program' = program
              PROVE  (Settled /\ CommittedOnce)'
  BY ProgramKept DEF Settled, CommittedOnce
<1>t. /\ begun \in Nat /\ begun <= MaxTxns /\ Names = 1 .. MaxTxns
      /\ open \subseteq 1 .. begun
      /\ handle \in [Clients -> Names \cup {Null}]
      /\ known \in [Clients -> Names \cup {Null}]
      /\ phase \in [Clients -> Phases]
      /\ \A d \in Clients : handle[d] # Null => handle[d] = known[d]
      /\ \A d \in Clients : known[d] # Null => known[d] <= begun
  BY BoundsNat DEF TypeInv, TypeOK, Named, Names
<1>s. \A d \in Clients : Made(d) =>
        /\ phase[d] \in {"unsure", "over"}
        /\ phase[d] = "unsure" => known[d] = Null \/ known[d] \notin open
  BY DEF Settled
\* A step that makes no revision: it is enough that no client goes on.
<1>k. ASSUME made' = made,
             \/ owner' = owner
             \/ \E c : begun + 1 \in Names /\ owner' = [owner EXCEPT ![begun + 1] = c],
             \A d \in Clients : Made(d) =>
               /\ phase'[d] \in {"unsure", "over"}
               /\ phase'[d] = "unsure" => known'[d] = Null \/ known'[d] \notin open'
      PROVE  (Settled /\ CommittedOnce)'
  <2>1. CommittedOnce'
    BY <1>k, MadeKept DEF CommittedOnce
  <2>2. Settled'
    BY <1>k, MadeKept DEF Settled
  <2>. QED
    BY <2>1, <2>2
<1>a. ASSUME NEW c \in Clients, begin_txn(c) PROVE (Settled /\ CommittedOnce)'
  <2>1. /\ made' = made
        /\ begun + 1 \in Names /\ owner' = [owner EXCEPT ![begun + 1] = c]
        /\ open' = open \cup {begun + 1}
        /\ known' = [known EXCEPT ![c] = begun + 1]
        /\ phase' = [phase EXCEPT ![c] = "working"]
        /\ phase[c] = "idle"
    BY <1>a, <1>t, BoundsNat DEF begin_txn, Set
  <2>2. \A d \in Clients : Made(d) =>
          d # c /\ (known[d] # Null => known[d] <= begun)
    BY <1>s, <1>t, <2>1
  <2>3. ASSUME NEW d \in Clients, Made(d)
        PROVE  /\ phase'[d] \in {"unsure", "over"}
               /\ phase'[d] = "unsure" => known'[d] = Null \/ known'[d] \notin open'
    <3>1. d # c /\ phase'[d] = phase[d] /\ known'[d] = known[d]
      BY <1>t, <2>1, <2>2, <2>3
    <3>2. known[d] = Null \/ known[d] # begun + 1
      BY <1>t, <2>2, <2>3
    <3>. QED
      BY <1>s, <2>1, <2>3, <3>1, <3>2
  <2>. QED
    BY <1>k, <2>1, <2>3
<1>b. ASSUME NEW c \in Clients, NEW n \in Names, open_txn(c, n)
      PROVE  (Settled /\ CommittedOnce)'
  <2>1. phase[c] = "unsure" /\ n = known[c] /\ n # Null
    BY <1>b, TextsNew DEF open_txn
  <2>2. UNCHANGED <<made, owner, open>>
    BY <1>b DEF open_txn, store
  <2>3. \A d \in Clients : d # c => phase'[d] = phase[d] /\ known'[d] = known[d]
    BY <1>b, <1>t DEF open_txn, Set
  <2>4. Made(c) => phase'[c] = "over"
    BY <1>b, <1>t, <1>s, <2>1 DEF open_txn, Set
  <2>. QED
    BY <1>k, <1>s, <2>2, <2>3, <2>4
<1>c. ASSUME NEW c \in Clients, drop(c) \/ abort(c) PROVE (Settled /\ CommittedOnce)'
  <2>1. /\ UNCHANGED <<made, owner, known>>
        /\ open' \subseteq open
        /\ phase' = [phase EXCEPT ![c] = "idle"]
        /\ phase[c] = "working"
    BY <1>c DEF drop, abort, Leave, Working, Set, store
  <2>. QED
    BY <1>k, <1>s, <1>t, <2>1
<1>d. ASSUME NEW c \in Clients, NEW n \in Names, purge_txn(c, n)
      PROVE  (Settled /\ CommittedOnce)'
  <2>1. /\ UNCHANGED <<made, owner, known>>
        /\ open' \subseteq open
        /\ phase' = [phase EXCEPT ![c] = "idle"]
        /\ phase[c] = "unsure" /\ n = known[c] /\ n # Null /\ n \in open
    BY <1>d, TextsNew DEF purge_txn, Set
  <2>. QED
    BY <1>k, <1>s, <1>t, <2>1
<1>e. ASSUME NEW c \in Clients, commit(c) PROVE (Settled /\ CommittedOnce)'
  <2>1. /\ UNCHANGED <<owner, known>>
        /\ \/ phase' = [phase EXCEPT ![c] = "over"]
           \/ phase' = [phase EXCEPT ![c] = "unsure"]
        /\ phase[c] = "working" /\ handle[c] = known[c]
    BY <1>e, <1>t DEF commit, Leave, Working, Set, TypeInv, TypeOK
  <2>2. ~Made(c)
    BY <1>s, <2>1
  <2>3. CASE Append1(handle[c])
    <3>1. open' = open \ {known[c]}
      BY <2>1, <2>3 DEF Append1
    <3>2. CommittedOnce'
      <4>1. ASSUME NEW r \in DOMAIN made', NEW s \in DOMAIN made',
                   owner'[made'[r]] = owner'[made'[s]], r # s
            PROVE  FALSE
        <5>1. r \in DOMAIN made \/ r = Len(made) + 1
          BY <1>e, <2>3, MadeGrows DEF TypeInv, TypeOK
        <5>2. s \in DOMAIN made \/ s = Len(made) + 1
          BY <1>e, <2>3, MadeGrows DEF TypeInv, TypeOK
        <5>3. CASE r \in DOMAIN made /\ s \in DOMAIN made
          BY <1>e, <2>3, <4>1, <5>3, MadeGrows DEF CommittedOnce
        <5>4. CASE r \in DOMAIN made /\ s = Len(made) + 1
          BY <1>e, <2>2, <2>3, <4>1, <5>4, MadeGrows DEF Made
        <5>5. CASE r = Len(made) + 1 /\ s \in DOMAIN made
          BY <1>e, <2>2, <2>3, <4>1, <5>5, MadeGrows DEF Made
        <5>. QED
          BY <4>1, <5>1, <5>2, <5>3, <5>4, <5>5
      <4>. QED
        BY <4>1 DEF CommittedOnce
    <3>3. ASSUME NEW d \in Clients, Made(d)'
          PROVE  /\ phase'[d] \in {"unsure", "over"}
                 /\ phase'[d] = "unsure" => known'[d] = Null \/ known'[d] \notin open'
      <4>1. CASE d = c
        BY <1>t, <2>1, <3>1, <4>1
      <4>2. CASE d # c
        <5>1. Made(d)
          BY <1>e, <2>3, <3>3, <4>2, MadeGrows
        <5>. QED
          BY <1>s, <1>t, <2>1, <3>1, <4>2, <5>1
      <4>. QED
        BY <4>1, <4>2
    <3>. QED
      BY <3>2, <3>3 DEF Settled
  <2>4. CASE ~Append1(handle[c])
    <3>1. UNCHANGED <<made, open>>
      BY <1>e, <2>4 DEF commit
    <3>. QED
      BY <1>k, <1>s, <1>t, <2>1, <2>2, <3>1
  <2>. QED
    BY <2>3, <2>4
<1>f. ASSUME NEW c \in Clients, crash(c) PROVE (Settled /\ CommittedOnce)'
  <2>1. /\ UNCHANGED <<made, owner, open>>
        /\ phase' = [phase EXCEPT ![c] = "unsure"]
        /\ phase[c] \in {"working", "unsure"}
        /\ known' = [known EXCEPT ![c] = Null] \/ known' = known
    BY <1>f, CrashLeaves DEF store
  \* A client that is made was unsure before the crash, with a name that leads nowhere.
  <2>2. ASSUME NEW d \in Clients, Made(d)
        PROVE  /\ phase'[d] \in {"unsure", "over"}
               /\ phase'[d] = "unsure" => known'[d] = Null \/ known'[d] \notin open'
    BY <1>s, <1>t, <2>1, <2>2
  <2>. QED
    BY <1>k, <2>1, <2>2
<1>g. ASSUME NEW c \in Clients, FileStep(c) \/ CountStep(c)
      PROVE  (Settled /\ CommittedOnce)'
  <2>1. UNCHANGED <<made, owner, open, phase, known>>
    BY <1>g, FileStepKeeps, CountStepKeeps DEF store
  <2>. QED
    BY <1>k, <1>s, <2>1
<1>h. CASE UNCHANGED vars
  <2>1. UNCHANGED <<made, owner, open, phase, known>>
    BY <1>h DEF vars, store
  <2>. QED
    BY <1>k, <1>s, <2>1
<1>. QED
  BY <1>a, <1>b, <1>c, <1>d, <1>e, <1>f, <1>g, <1>h DEF Next, FileStep, CountStep

LEMMA AlwaysCommitInv == Spec => []CommitInv
<1>1. Init => CommitInv
  BY TypeInit, OwnedInit, SettledInit DEF CommitInv
<1>2. CommitInv /\ [Next]_vars => CommitInv'
  BY TypeStep, OwnedStep, SettledStep DEF CommitInv
<1>. QED
  BY <1>1, <1>2, PTL DEF Spec

\* A client that goes on with the transaction it knows commits its change once, after
\* however many failures and crashes of however many clients.
THEOREM CommitsOnce == Spec => []CommittedOnce
<1>1. CommitInv => CommittedOnce
  BY DEF CommitInv
<1>. QED
  BY <1>1, AlwaysCommitInv, PTL

-----------------------------------------------------------------------------
(***************************************************************************)
(* What a client whose commit failed can find out.                          *)
(***************************************************************************)
Gone(n) == \E r \in DOMAIN made : made[r] = n

\* What a client knows.  Its transaction, if it asked to commit it and it is not in the
\* store, is a revision; a client that is over with its change has it in a revision; and
\* the one that commit has returned to it is of a transaction that it began.
Informed(c) ==
  /\ phase[c] = "unsure" /\ known[c] # Null /\ known[c] \notin open => Gone(known[c])
  /\ phase[c] = "over" => Made(c)
  /\ answer[c] # 0 => answer[c] \in DOMAIN made /\ owner[made[answer[c]]] = c

GoneIsMade == "share" \notin program => \A c \in Clients : Informed(c)

\* What has become a revision is one after any step.
LEMMA GoneStays ==
  ASSUME TypeInv, [Next]_vars
  PROVE  /\ \A n : Gone(n) => \E r \in DOMAIN made' : made'[r] = n
         /\ \A c \in Clients : Made(c) => Made(c)'
         /\ \A r \in DOMAIN made : r \in DOMAIN made' /\ owner'[made'[r]] = owner[made[r]]
<1>1. HistoryKept
  BY HistoryStep
<1>. QED
  BY <1>1 DEF HistoryKept, Gone, Made

LEMMA GoneStep == TypeInv /\ Owned /\ GoneIsMade /\ [Next]_vars => GoneIsMade'
<1>. SUFFICES ASSUME TypeInv, Owned, GoneIsMade, [Next]_vars, "share" \notin program,
                     program' = program, NEW d \in Clients
              PROVE  Informed(d)'
  BY ProgramKept DEF GoneIsMade
<1>t. /\ open \subseteq 1 .. begun
      /\ handle \in [Clients -> Names \cup {Null}]
      /\ known \in [Clients -> Names \cup {Null}]
      /\ phase \in [Clients -> Phases]
      /\ answer \in [Clients -> 0 .. MaxTxns]
      /\ handle[d] # Null => handle[d] = known[d]
      /\ handle[d] # Null => handle[d] \in open
      /\ known[d] # Null => owner[known[d]] = d
      /\ \A c \in Clients : phase[c] = "working" => handle[c] # Null
  BY DEF TypeInv, TypeOK, Named, Owned
<1>g. /\ phase[d] = "unsure" /\ known[d] # Null /\ known[d] \notin open => Gone(known[d])
      /\ phase[d] = "over" => Made(d)
      /\ answer[d] # 0 => answer[d] \in DOMAIN made /\ owner[made[answer[d]]] = d
  BY DEF GoneIsMade, Informed
\* No client is surer than before, and the transaction of d is not taken from the store.
<1>k. ASSUME answer'[d] = answer[d], phase'[d] = "over" => phase[d] = "over",
             phase'[d] = "unsure" /\ known'[d] # Null =>
               /\ phase[d] = "unsure" /\ known'[d] = known[d]
               /\ known[d] \in open => known[d] \in open'
      PROVE  Informed(d)'
  <2>1. ASSUME phase'[d] = "unsure", known'[d] # Null, known'[d] \notin open'
        PROVE  \E r \in DOMAIN made' : made'[r] = known'[d]
    <3>1. Gone(known[d]) /\ known'[d] = known[d]
      BY <1>g, <1>k, <2>1
    <3>. QED
      BY <3>1, GoneStays
  <2>2. phase'[d] = "over" => Made(d)'
    BY <1>g, <1>k, GoneStays
  <2>3. answer'[d] # 0 => answer'[d] \in DOMAIN made' /\ owner'[made'[answer'[d]]] = d
    BY <1>g, <1>k, GoneStays
  <2>. QED
    BY <2>1, <2>2, <2>3 DEF Informed, Gone
\* The transactions of two clients.
<1>n. ASSUME NEW c \in Clients, c # d, known[c] # Null
      PROVE  known[c] # known[d]
  BY <1>n, NamesApart
<1>1. ASSUME NEW c \in Clients, begin_txn(c) \/ crash(c) \/ drop(c) \/ abort(c)
      PROVE  Informed(d)'
  <2>1. CASE begin_txn(c)
    BY <1>k, <1>t, <2>1 DEF begin_txn, Set
  <2>2. CASE crash(c)
    <3>1. /\ UNCHANGED <<open, answer>>
          /\ phase[c] \in {"working", "unsure"}
          /\ phase' = [phase EXCEPT ![c] = "unsure"]
          /\ known' = [known EXCEPT ![c] = Null] \/ known' = known
      BY <2>2, CrashLeaves DEF store
    <3>2. CASE c # d \/ phase[c] = "unsure" \/ known'[d] = Null
      BY <1>k, <1>t, <3>1, <3>2
    \* It was at work on its transaction, which is in the store.
    <3>3. CASE c = d /\ phase[d] = "working" /\ known'[d] # Null
      <4>1. known'[d] \in open' /\ phase'[d] = "unsure"
        BY <1>t, <3>1, <3>3
      <4>. QED
        BY <1>g, <3>1, <4>1, GoneStays DEF Informed
    <3>. QED
      BY <3>1, <3>2, <3>3
  <2>3. CASE drop(c) \/ abort(c)
    <3>1. /\ answer' = answer /\ known' = known
          /\ phase' = [phase EXCEPT ![c] = "idle"]
          /\ open \ {handle[c]} \subseteq open'
          /\ handle[c] = known[c] /\ known[c] # Null
      BY <1>t, <2>3 DEF drop, abort, Leave, Working, Set, store, TypeInv, Named
    <3>. QED
      BY <1>k, <1>n, <1>t, <3>1
  <2>. QED
    BY <1>1, <2>1, <2>2, <2>3
<1>2. ASSUME NEW c \in Clients, NEW n \in Names, open_txn(c, n) PROVE Informed(d)'
  <2>1. /\ phase[c] = "unsure" /\ n = known[c] /\ n # Null
        /\ UNCHANGED <<made, owner, open, answer>>
    BY <1>2, TextsNew DEF open_txn, store
  <2>2. CASE c # d
    BY <1>2, <1>k, <1>t, <2>1, <2>2 DEF open_txn, Set
  <2>3. CASE c = d /\ n \in open
    BY <1>2, <1>k, <1>t, <2>1, <2>3 DEF open_txn, Set
  \* Not found: what is gone is a revision.
  <2>4. CASE c = d /\ n \notin open
    <3>1. phase' = [phase EXCEPT ![d] = "over"]
      BY <1>2, <2>4 DEF open_txn, Set
    <3>2. Gone(known[d]) /\ owner[known[d]] = d
      BY <1>g, <1>t, <2>1, <2>4
    <3>3. Made(d)
      BY <3>2 DEF Gone, Made
    <3>. QED
      BY <1>g, <1>t, <2>1, <3>1, <3>3, GoneStays DEF Informed
  <2>. QED
    BY <2>2, <2>3, <2>4
<1>3. ASSUME NEW c \in Clients, NEW n \in Names, purge_txn(c, n) PROVE Informed(d)'
  <2>1. /\ answer' = answer /\ known' = known
        /\ phase' = [phase EXCEPT ![c] = "idle"]
        /\ open' = open \ {n}
        /\ n = known[c] /\ known[c] # Null
    BY <1>3, TextsNew DEF purge_txn, Set
  <2>. QED
    BY <1>k, <1>n, <1>t, <2>1
<1>4. ASSUME NEW c \in Clients, commit(c) PROVE Informed(d)'
  <2>1. /\ known' = known
        /\ \/ phase' = [phase EXCEPT ![c] = "over"]
           \/ phase' = [phase EXCEPT ![c] = "unsure"]
        /\ answer' = answer \/ answer' = [answer EXCEPT ![c] = Len(revs)]
        /\ open \ {handle[c]} \subseteq open'
        /\ phase[c] = "working"
        /\ handle[c] = known[c] /\ known[c] # Null
    BY <1>4, <1>t DEF commit, Append1, Leave, Working, Set, TypeInv, Named
  <2>2. CASE c # d
    <3>1. answer'[d] = answer[d] /\ phase'[d] = phase[d]
      BY <1>t, <2>1, <2>2
    <3>2. known[d] \in open => known[d] \in open'
      BY <1>n, <2>1, <2>2
    <3>. QED
      BY <1>k, <2>1, <3>1, <3>2
  <2>3. CASE c = d /\ Append1(handle[c])
    <3>1. Made(d)' /\ Gone(known[d])'
      <4>1. DOMAIN made' = 1 .. Len(made) + 1 /\ Made(d)'
        BY <1>4, <2>3, MadeGrows
      <4>2. made'[Len(made) + 1] = handle[c]
        BY <2>3, AppendType
      <4>3. Len(made) \in Nat
        BY DEF TypeInv, TypeOK
      <4>4. Len(made) + 1 \in DOMAIN made'
        BY <4>1, <4>3
      <4>5. handle[c] = known'[d]
        BY <2>1, <2>3
      <4>. QED
        BY <4>1, <4>2, <4>4, <4>5 DEF Gone
    <3>2. Len(revs) = Len(made) + 1 /\ Len(made) \in Nat
      BY DEF TypeInv, TypeOK
    <3>3. Len(revs) \in DOMAIN made' /\ owner'[made'[Len(revs)]] = d
      BY <1>4, <2>3, <3>2, MadeGrows
    <3>4. CASE answer' = answer
      BY <1>g, <3>1, <3>4, GoneStays DEF Informed
    <3>5. CASE answer' = [answer EXCEPT ![c] = Len(revs)]
      BY <1>t, <2>3, <3>1, <3>3, <3>5 DEF Informed
    <3>. QED
      BY <2>1, <3>4, <3>5
  <2>4. CASE c = d /\ ~Append1(handle[c])
    <3>1. UNCHANGED <<open, answer>> /\ phase' = [phase EXCEPT ![c] = "unsure"]
      BY <1>4, <2>4 DEF commit, Leave, Set
    <3>2. known'[d] \in open' /\ phase'[d] = "unsure"
      BY <1>t, <2>1, <2>4, <3>1
    <3>. QED
      BY <1>g, <3>1, <3>2, GoneStays DEF Informed
  <2>. QED
    BY <2>2, <2>3, <2>4
<1>5. ASSUME NEW c \in Clients, FileStep(c) \/ CountStep(c) PROVE Informed(d)'
  <2>1. UNCHANGED <<phase, known, open, answer>>
    BY <1>5, FileStepKeeps, CountStepKeeps DEF store
  <2>. QED
    BY <1>k, <2>1
<1>6. CASE UNCHANGED vars
  <2>1. UNCHANGED <<phase, known, open, answer>>
    BY <1>6 DEF vars, store
  <2>. QED
    BY <1>k, <2>1
<1>. QED
  BY <1>1, <1>2, <1>3, <1>4, <1>5, <1>6 DEF Next, FileStep, CountStep

\* A client that shares nothing knows where it is: if it asks for its transaction after
\* a commit that failed, and does not find it, then its change was committed, whatever
\* became of the commit's answer; and a revision it was told of is its own.
THEOREM GoneOnesAreMade == Spec => []GoneIsMade
<1>1. Init => GoneIsMade
  BY DEF Init, GoneIsMade, Informed
<1>2. TypeInv /\ Owned /\ GoneIsMade /\ [Next]_vars => GoneIsMade'
  BY GoneStep
<1>3. CommitInv => TypeInv /\ Owned
  BY DEF CommitInv
<1>. QED
  BY <1>1, <1>2, <1>3, AlwaysCommitInv, PTL DEF Spec

-----------------------------------------------------------------------------
(***************************************************************************)
(* Answers: what clients were told.                                        *)
(***************************************************************************)
LEMMA WithinInit == Init => Within
BY DEF Init, Within

LEMMA WithinStep == TypeInv /\ Within /\ [Next]_vars => Within'
<1>. SUFFICES ASSUME TypeInv, Within, [Next]_vars, program \cap {"late", "share"} = {},
                     program' = program
              PROVE  Within'
  BY ProgramKept DEF Within
<1>t. /\ stream \in [Clients -> Writes \cup {Null}]
      /\ phase \in [Clients -> Phases]
      /\ handle \in [Clients -> Names \cup {Null}]
  BY DEF TypeInv, TypeOK
<1>w. \A d \in Clients : stream[d] # Null => phase[d] = "working" /\ stream[d].txn = handle[d]
  BY DEF Within
\* A step that opens no stream, of a client that has none afterwards.
<1>k. ASSUME NEW c \in Clients, stream'[c] = Null,
             \A d \in Clients \ {c} :
               stream'[d] = stream[d] /\ phase'[d] = phase[d] /\ handle'[d] = handle[d]
      PROVE  Within'
  BY <1>w, <1>k DEF Within
<1>a. ASSUME NEW c \in Clients, begin_txn(c) PROVE Within'
  <2>1. stream[c] = Null /\ stream' = stream
    BY <1>a, <1>w DEF begin_txn
  <2>. QED
    BY <1>a, <1>k, <1>t, <2>1 DEF begin_txn, Set
<1>b. ASSUME NEW c \in Clients, NEW n \in Names, open_txn(c, n) PROVE Within'
  <2>1. stream[c] = Null /\ stream' = stream
    BY <1>b, <1>w DEF open_txn
  <2>. QED
    BY <1>b, <1>k, <1>t, <2>1 DEF open_txn, Set
<1>c. ASSUME NEW c \in Clients, drop(c) \/ abort(c) \/ commit(c) PROVE Within'
  <2>1. stream[c] = Null /\ stream' = stream
    BY <1>c DEF drop, abort, commit, Working
  <2>2. handle' = [handle EXCEPT ![c] = Null] /\ \E p \in Phases : phase' = [phase EXCEPT ![c] = p]
    BY <1>c DEF drop, abort, commit, Leave, Set, Phases
  <2>. QED
    BY <1>k, <1>t, <2>1, <2>2
<1>d. ASSUME NEW c \in Clients, NEW n \in Names, purge_txn(c, n) PROVE Within'
  <2>1. stream[c] = Null /\ stream' = stream
    BY <1>d, <1>w DEF purge_txn
  <2>. QED
    BY <1>d, <1>k, <1>t, <2>1 DEF purge_txn, Set
<1>e. ASSUME NEW c \in Clients, crash(c) PROVE Within'
  BY <1>e, <1>k, <1>t DEF crash, Leave, Set
<1>f. ASSUME NEW c \in Clients, FileStep(c) PROVE Within'
  <2>k. UNCHANGED <<phase, handle>>
    BY <1>f, FileStepKeeps
  <2>1. CASE \E p \in Paths, t \in Texts : set_file_contents(c, p, t)
    BY <1>w, <2>k, <2>1 DEF set_file_contents, Within
  <2>2. ASSUME NEW p \in Paths, apply_text(c, p) PROVE Within'
    BY <1>t, <1>w, <2>k, <2>2 DEF apply_text, Within, Set
  <2>3. ASSUME NEW t \in Texts, write(c, t) PROVE Within'
    <3>1. stream[c] \in Writes /\ stream[c] # Null
      BY <1>t, <2>3 DEF write
    <3>2. stream' = [stream EXCEPT ![c] = [stream[c] EXCEPT !.text = t]]
      BY <2>3 DEF write
    <3>3. [stream[c] EXCEPT !.text = t].txn = stream[c].txn
      BY <3>1 DEF Writes
    <3>. QED
      BY <1>t, <1>w, <2>k, <3>1, <3>2, <3>3 DEF Within
  <2>4. CASE close(c) \/ drop_stream(c)
    <3>1. stream' = [stream EXCEPT ![c] = Null]
      BY <2>4 DEF close, drop_stream, Set
    <3>. QED
      BY <1>k, <1>t, <2>k, <3>1
  <2>. QED
    BY <1>f, <2>1, <2>2, <2>3, <2>4 DEF FileStep
<1>g. ASSUME NEW c \in Clients, CountStep(c) PROVE Within'
  BY <1>g, <1>w, CountStepKeeps DEF Within
<1>h. CASE UNCHANGED vars
  BY <1>h, <1>w DEF Within, vars
<1>. QED
  BY <1>a, <1>b, <1>c, <1>d, <1>e, <1>f, <1>g, <1>h DEF Next, FileStep, CountStep

\* A text that is stored by c, and told to it, is in the change it is making.
LEMMA AgreeStored ==
  ASSUME TypeInv, NEW c \in Clients, NEW p \in Paths, NEW t \in Contents, Agree(c),
         known[c] \in Names,
         UNCHANGED <<known, stream>>,
         changes' = [changes EXCEPT ![known[c]] = Put(changes[known[c]], p, t)],
         told' = [told EXCEPT ![c] = Put(told[c], p, t)]
  PROVE  Agree(c)'
<1>1. changes'[known'[c]] = Put(changes[known[c]], p, t) /\ told'[c] = Put(told[c], p, t)
  BY DEF TypeInv, TypeOK
<1>2. CASE stream[c] = Null
  BY <1>1, <1>2 DEF Agree
<1>3. CASE stream[c] # Null
  BY <1>1, <1>3, PutBoth DEF Agree
<1>. QED
  BY <1>2, <1>3

LEMMA AgreedInit == Init => Agreed /\ Answered
BY DEF Init, Agreed, Answered

\* The clients of which Agreed says something.
Underway(c) == phase[c] = "working" \/ (phase[c] = "unsure" /\ known[c] # Null)

LEMMA AgreedStep == TypeInv /\ Owned /\ Within /\ Agreed /\ [Next]_vars => Agreed'
<1>. SUFFICES ASSUME TypeInv, Owned, Within, Agreed, [Next]_vars, Careful,
                     program' = program
              PROVE  Agreed'
  BY ProgramKept DEF Agreed, Careful
<1>t. /\ begun \in Nat /\ begun <= MaxTxns /\ Names = 1 .. MaxTxns
      /\ changes \in [Names -> Changes]
      /\ handle \in [Clients -> Names \cup {Null}]
      /\ known \in [Clients -> Names \cup {Null}]
      /\ stream \in [Clients -> Writes \cup {Null}]
      /\ told \in [Clients -> Changes]
      /\ phase \in [Clients -> Phases]
      /\ \A d \in Clients : handle[d] # Null <=> phase[d] = "working"
      /\ \A d \in Clients : handle[d] # Null => handle[d] = known[d]
      /\ \A d \in Clients : known[d] # Null => known[d] <= begun
      /\ \A n \in Names : n > begun => changes[n] = Nothing
  BY BoundsNat DEF TypeInv, TypeOK, Named, Names
<1>w. \A d \in Clients : stream[d] # Null => phase[d] = "working" /\ stream[d].txn = handle[d]
  BY DEF Within, Careful
<1>n. "share" \notin program /\ "late" \notin program /\ "unclosed" \notin program
  BY DEF Careful
<1>u. \A d \in Clients : Underway(d) => Agree(d) /\ known[d] \in Names
  BY <1>t DEF Agreed, Underway
\* What is the same before and after is agreed on as before.
<1>s. ASSUME NEW d \in Clients, Underway(d), known'[d] = known[d],
             changes'[known[d]] = changes[known[d]],
             stream'[d] = stream[d], told'[d] = told[d]
      PROVE  Agree(d)'
  BY <1>s, <1>u DEF Agree
\* A step of c leaves the others as they were; so much for all but c.
<1>k. ASSUME NEW c \in Clients,
             \A d \in Clients \ {c} : Underway(d) => changes'[known[d]] = changes[known[d]],
             \A d \in Clients \ {c} :
               /\ known'[d] = known[d] /\ stream'[d] = stream[d]
               /\ told'[d] = told[d] /\ phase'[d] = phase[d],
             Underway(c)' => Agree(c)'
      PROVE  Agreed'
  <2>1. ASSUME NEW d \in Clients, d # c, Underway(d)' PROVE Agree(d)'
    <3>1. Underway(d)
      BY <1>k, <2>1 DEF Underway
    <3>. QED
      BY <1>k, <1>s, <2>1, <3>1
  <2>2. \A d \in Clients : Underway(d)' => Agree(d)'
    BY <1>k, <2>1
  <2>. QED
    BY <2>2 DEF Agreed, Underway
<1>a. ASSUME NEW c \in Clients, begin_txn(c) PROVE Agreed'
  <2>1. stream[c] = Null
    BY <1>a, <1>w DEF begin_txn
  <2>2. /\ begun + 1 \in Names
        /\ known' = [known EXCEPT ![c] = begun + 1]
        /\ told' = [told EXCEPT ![c] = Nothing]
        /\ phase' = [phase EXCEPT ![c] = "working"]
        /\ UNCHANGED <<changes, stream>>
    BY <1>a, <1>t, BoundsNat DEF begin_txn, Set
  <2>3. changes[begun + 1] = Nothing
    BY <1>t, <2>2
  <2>4. Agree(c)'
    BY <1>t, <2>1, <2>2, <2>3 DEF Agree
  <2>. QED
    BY <1>k, <1>t, <2>2, <2>4
<1>b. ASSUME NEW c \in Clients, NEW n \in Names, open_txn(c, n) PROVE Agreed'
  <2>1. phase[c] = "unsure" /\ n = known[c] /\ n # Null
    BY <1>b, <1>n, TextsNew DEF open_txn
  <2>2. known' = known /\ UNCHANGED <<changes, stream, told>>
    BY <1>b, <1>t, <2>1 DEF open_txn, Set, store
  <2>3. \A d \in Clients \ {c} : phase'[d] = phase[d]
    BY <1>b, <1>t DEF open_txn, Set
  <2>4. Agree(c)'
    BY <1>s, <2>1, <2>2 DEF Underway
  <2>. QED
    BY <1>k, <2>2, <2>3, <2>4
<1>c. ASSUME NEW c \in Clients, drop(c) \/ abort(c) PROVE Agreed'
  <2>1. /\ UNCHANGED <<changes, stream, known>>
        /\ phase' = [phase EXCEPT ![c] = "idle"]
        /\ told' = [told EXCEPT ![c] = Nothing]
    BY <1>c DEF drop, abort, Leave, Set, store
  <2>2. ~Underway(c)'
    BY <1>t, <2>1 DEF Underway
  <2>. QED
    BY <1>k, <1>t, <2>1, <2>2
<1>d. ASSUME NEW c \in Clients, NEW n \in Names, purge_txn(c, n) PROVE Agreed'
  <2>1. /\ UNCHANGED <<changes, stream, known>>
        /\ phase' = [phase EXCEPT ![c] = "idle"]
        /\ told' = [told EXCEPT ![c] = Nothing]
    BY <1>d, <1>n DEF purge_txn, Set
  <2>2. ~Underway(c)'
    BY <1>t, <2>1 DEF Underway
  <2>. QED
    BY <1>k, <1>t, <2>1, <2>2
<1>e. ASSUME NEW c \in Clients, commit(c) PROVE Agreed'
  <2>1. /\ UNCHANGED <<changes, stream, known, told>>
        /\ \E p \in Phases : phase' = [phase EXCEPT ![c] = p]
        /\ phase[c] = "working"
    BY <1>e DEF commit, Leave, Working, Set, Phases
  <2>2. Agree(c)'
    BY <1>s, <2>1 DEF Underway
  <2>. QED
    BY <1>k, <1>t, <2>1, <2>2
<1>f. ASSUME NEW c \in Clients, crash(c) PROVE Agreed'
  <2>1. /\ changes' = changes
        /\ stream' = [stream EXCEPT ![c] = Null]
        /\ phase' = [phase EXCEPT ![c] = "unsure"]
        /\ \/ /\ known' = [known EXCEPT ![c] = Null]
              /\ told' = [told EXCEPT ![c] = Nothing]
           \/ /\ known' = known
              /\ told' = [told EXCEPT ![c] = changes[known[c]]]
    BY <1>f, CrashLeaves DEF store
  <2>2. Underway(c)' => Agree(c)'
    BY <1>t, <2>1 DEF Underway, Agree
  <2>. QED
    BY <1>k, <1>t, <2>1, <2>2
<1>g. ASSUME NEW c \in Clients, FileStep(c) PROVE Agreed'
  <2>k. UNCHANGED <<phase, handle, known>>
    BY <1>g, FileStepKeeps
  \* The change of another client is not that which c is making.
  <2>n. ASSUME NEW d \in Clients \ {c}, Underway(d), handle[c] # Null
        PROVE  known[d] # handle[c]
    BY <1>n, <1>t, <1>u, <2>n, NamesApart
  <2>1. ASSUME NEW p \in Paths, NEW t \in Texts, set_file_contents(c, p, t)
        PROVE  Agreed'
    <3>1. phase[c] = "working" /\ handle[c] = known[c] /\ known[c] \in Names /\ handle[c] # Null
      BY <1>t, <2>1, TextsNew DEF set_file_contents
    <3>2. /\ changes' = [changes EXCEPT ![known[c]] = Put(changes[known[c]], p, t)]
          /\ told' = [told EXCEPT ![c] = Put(told[c], p, t)]
          /\ stream' = stream
      BY <2>1, <3>1 DEF set_file_contents, Store, Tell, Set
    <3>3. t \in Contents
      BY DEF Contents
    <3>4. Agree(c)
      BY <1>u, <3>1 DEF Underway
    <3>5. Agree(c)'
      BY <2>k, <3>1, <3>2, <3>3, <3>4, AgreeStored
    <3>6. \A d \in Clients \ {c} : Underway(d) => changes'[known[d]] = changes[known[d]]
      BY <1>t, <1>u, <2>n, <3>1, <3>2
    <3>. QED
      BY <1>k, <1>t, <2>k, <3>2, <3>5, <3>6
  <2>2. ASSUME NEW p \in Paths, apply_text(c, p) PROVE Agreed'
    <3>. DEFINE s == [txn |-> handle[c], path |-> p, text |-> Empty]
    <3>1. /\ stream' = [stream EXCEPT ![c] = s] /\ UNCHANGED <<changes, told>>
          /\ stream[c] = Null /\ phase[c] = "working"
      BY <2>2 DEF apply_text, Set, store
    <3>2. told[c] = changes[known[c]]
      BY <1>u, <3>1 DEF Underway, Agree
    <3>. HIDE DEF s
    <3>3. Agree(c)'
      BY <1>t, <2>k, <3>1, <3>2 DEF Agree
    <3>. QED
      BY <1>k, <1>t, <2>k, <3>1, <3>3
  <2>3. ASSUME NEW t \in Texts, write(c, t) PROVE Agreed'
    <3>1. stream[c] \in Writes /\ stream[c] # Null /\ stream[c].txn = handle[c]
      BY <1>t, <1>w, <2>3 DEF write
    <3>. DEFINE s == [stream[c] EXCEPT !.text = t]
                p == stream[c].path
    <3>2. s \in Writes /\ s.path = p /\ s.text = t
      BY <3>1 DEF Writes, Contents
    <3>3. /\ stream' = [stream EXCEPT ![c] = s]
          /\ told' = [told EXCEPT ![c] = Put(told[c], p, t)]
          /\ changes' = changes
      BY <2>3, <3>1 DEF write, Tell, Set, store
    <3>4. Put(told[c], p, stream[c].text) = Put(changes[known[c]], p, stream[c].text)
      BY <1>u, <1>w, <3>1 DEF Underway, Agree
    <3>5. Put(told[c], p, t) = Put(changes[known[c]], p, t)
      BY <3>4, PutOther
    <3>6. Put(Put(told[c], p, t), p, t) = Put(changes[known[c]], p, t)
      BY <3>5, PutTwice
    <3>. HIDE DEF s, p
    <3>7. s # Null
      BY <3>2, TextsNew
    <3>8. Agree(c)'
      BY <1>t, <2>k, <3>2, <3>3, <3>6, <3>7 DEF Agree
    <3>. QED
      BY <1>k, <1>t, <2>k, <3>3, <3>8
  <2>4. ASSUME close(c) PROVE Agreed'
    <3>1. /\ stream[c] \in Writes /\ stream[c] # Null
          /\ stream[c].txn = handle[c] /\ phase[c] = "working"
          /\ handle[c] = known[c] /\ known[c] \in Names /\ handle[c] # Null
      BY <1>t, <1>w, <2>4, TextsNew DEF close
    <3>2. handle[c] \in open
      BY <1>n, <3>1 DEF Owned
    <3>. DEFINE p == stream[c].path
                t == stream[c].text
    <3>3. /\ stream' = [stream EXCEPT ![c] = Null]
          /\ told' = [told EXCEPT ![c] = Put(told[c], p, t)]
          /\ changes' = [changes EXCEPT ![known[c]] = Put(changes[known[c]], p, t)]
      BY <2>4, <3>1, <3>2 DEF close, Store, Tell, Set
    <3>4. Put(told[c], p, t) = Put(changes[known[c]], p, t)
      BY <1>u, <3>1 DEF Underway, Agree
    <3>. HIDE DEF p, t
    <3>5. Agree(c)'
      BY <1>t, <2>k, <3>1, <3>3, <3>4 DEF Agree
    <3>6. \A d \in Clients \ {c} : Underway(d) => changes'[known[d]] = changes[known[d]]
      BY <1>t, <1>u, <2>n, <3>1, <3>3
    <3>. QED
      BY <1>k, <1>t, <2>k, <3>3, <3>5, <3>6
  <2>5. ~drop_stream(c)
    BY <1>n DEF drop_stream
  <2>. QED
    BY <1>g, <2>1, <2>2, <2>3, <2>4, <2>5 DEF FileStep
<1>h. ASSUME NEW c \in Clients, CountStep(c) PROVE Agreed'
  <2>1. UNCHANGED <<changes, known, stream, told, phase>>
    BY <1>h, CountStepKeeps DEF store
  <2>. QED
    BY <1>s, <2>1 DEF Agreed, Underway
<1>i. CASE UNCHANGED vars
  <2>1. UNCHANGED <<changes, known, stream, told, phase>>
    BY <1>i DEF vars, store
  <2>. QED
    BY <1>s, <2>1 DEF Agreed, Underway
<1>. QED
  BY <1>a, <1>b, <1>c, <1>d, <1>e, <1>f, <1>g, <1>h, <1>i DEF Next, FileStep, CountStep

LEMMA AnsweredStep ==
  TypeInv /\ Owned /\ Within /\ Agreed /\ Answered /\ [Next]_vars => Answered'
<1>. SUFFICES ASSUME TypeInv, Owned, Within, Agreed, Answered, [Next]_vars, Careful,
                     program' = program
              PROVE  Answered'
  BY ProgramKept DEF Answered, Careful
<1>t. /\ revs \in Seq(Trees) /\ Len(revs) \in Nat /\ Len(revs) >= 1
      /\ DOMAIN revs = 1 .. Len(revs)
      /\ phase \in [Clients -> Phases]
      /\ told \in [Clients -> Changes]
      /\ answer \in [Clients -> 0 .. MaxTxns] /\ \A d \in Clients : answer[d] \in Nat
      /\ stream \in [Clients -> Writes \cup {Null}]
  BY BoundsNat DEF TypeInv, TypeOK
<1>w. \A d \in Clients : stream[d] # Null => phase[d] = "working" /\ stream[d].txn = handle[d]
  BY DEF Within, Careful
<1>a. \A d \in Clients : answer[d] # 0 =>
        /\ phase[d] = "over"
        /\ answer[d] \in 1 .. Len(revs) /\ answer[d] + 1 \in 1 .. Len(revs)
        /\ revs[answer[d] + 1] = Overlay(revs[answer[d]], told[d])
  BY <1>t DEF Answered
\* A step that adds no revision, and is not that of a client that is over.
<1>k. ASSUME UNCHANGED <<revs, answer>>,
             \A d \in Clients : phase[d] = "over" => phase'[d] = "over" /\ told'[d] = told[d]
      PROVE  Answered'
  BY <1>a, <1>k, <1>t DEF Answered
<1>1. ASSUME NEW c \in Clients,
             \/ begin_txn(c) \/ drop(c) \/ abort(c) \/ crash(c)
             \/ \E n \in Names : open_txn(c, n) \/ purge_txn(c, n)
      PROVE  Answered'
  <2>1. CASE begin_txn(c)
    BY <1>k, <1>t, <2>1 DEF begin_txn, Set
  <2>2. CASE drop(c) \/ abort(c)
    BY <1>k, <1>t, <2>2 DEF drop, abort, Leave, Working, Set, store
  <2>3. CASE crash(c)
    <3>1. /\ UNCHANGED <<revs, answer>>
          /\ phase[c] # "over"
          /\ \A d \in Clients \ {c} : phase'[d] = phase[d] /\ told'[d] = told[d]
      BY <1>t, <2>3, CrashLeaves DEF store
    <3>. QED
      BY <1>k, <3>1
  <2>4. CASE \E n \in Names : open_txn(c, n)
    <3>1. /\ UNCHANGED <<revs, answer, told>>
          /\ phase[c] # "over"
          /\ \A d \in Clients \ {c} : phase'[d] = phase[d]
      BY <1>t, <2>4 DEF open_txn, Set, store
    <3>. QED
      BY <1>k, <3>1
  <2>5. CASE \E n \in Names : purge_txn(c, n)
    <3>1. /\ UNCHANGED <<revs, answer>>
          /\ phase[c] # "over"
          /\ \A d \in Clients \ {c} : phase'[d] = phase[d] /\ told'[d] = told[d]
      BY <1>t, <2>5 DEF purge_txn, Set, Careful
    <3>. QED
      BY <1>k, <3>1
  <2>. QED
    BY <1>1, <2>1, <2>2, <2>3, <2>4, <2>5
<1>2. ASSUME NEW c \in Clients, commit(c) PROVE Answered'
  <2>1. /\ phase[c] = "working" /\ stream[c] = Null
        /\ handle[c] = known[c] /\ UNCHANGED told
        /\ \A d \in Clients \ {c} : phase'[d] = phase[d]
    BY <1>2, <1>t DEF commit, Working, Careful, Leave, Set, TypeInv, TypeOK, Named
  <2>2. told[c] = changes[handle[c]] /\ answer[c] = 0
    BY <1>a, <2>1 DEF Agreed, Agree
  <2>3. CASE Append1(handle[c])
    <3>1. /\ DOMAIN revs' = 1 .. Len(revs) + 1
          /\ \A r \in 1 .. Len(revs) : revs'[r] = revs[r]
          /\ revs'[Len(revs) + 1] = Overlay(revs[Len(revs)], told[c])
      BY <2>2, <2>3, AppendType
    <3>2. \/ answer' = [answer EXCEPT ![c] = Len(revs)] /\ phase' = [phase EXCEPT ![c] = "over"]
          \/ answer' = answer
      BY <1>2, <1>t DEF commit, Leave, Set
    <3>3. ASSUME NEW d \in Clients, d # c, answer'[d] # 0
          PROVE  /\ phase'[d] = "over"
                 /\ answer'[d] + 1 \in DOMAIN revs'
                 /\ revs'[answer'[d] + 1] = Overlay(revs'[answer'[d]], told'[d])
      <4>1. answer'[d] = answer[d] /\ answer[d] \in Nat
        BY <1>t, <3>2, <3>3
      <4>. QED
        BY <1>a, <1>t, <2>1, <3>1, <3>3, <4>1
    <3>4. ASSUME answer'[c] # 0
          PROVE  /\ phase'[c] = "over"
                 /\ answer'[c] + 1 \in DOMAIN revs'
                 /\ revs'[answer'[c] + 1] = Overlay(revs'[answer'[c]], told'[c])
      <4>1. answer'[c] = Len(revs) /\ phase'[c] = "over"
        BY <1>t, <2>2, <3>2, <3>4
      <4>2. revs'[Len(revs)] = revs[Len(revs)] /\ told'[c] = told[c]
        BY <1>t, <2>1, <3>1
      <4>3. Len(revs) + 1 \in DOMAIN revs'
        BY <1>t, <3>1
      <4>. QED
        BY <3>1, <4>1, <4>2, <4>3
    <3>. QED
      BY <3>3, <3>4 DEF Answered
  <2>4. CASE ~Append1(handle[c])
    <3>1. UNCHANGED <<revs, answer>>
      BY <1>2, <2>4 DEF commit
    <3>. QED
      BY <1>k, <2>1, <3>1
  <2>. QED
    BY <2>3, <2>4
<1>3. ASSUME NEW c \in Clients, FileStep(c) PROVE Answered'
  <2>1. UNCHANGED <<revs, answer, phase>>
    BY <1>3, FileStepKeeps
  <2>2. CASE phase[c] = "working"
    <3>1. \A d \in Clients \ {c} : told'[d] = told[d]
      BY <1>3, <1>t DEF FileStep, set_file_contents, apply_text, write, close, drop_stream,
                        Tell, Set
    <3>. QED
      BY <1>k, <2>1, <2>2, <3>1
  <2>3. CASE phase[c] # "working"
    BY <1>3, <1>w, <2>3
       DEF FileStep, set_file_contents, apply_text, write, close, drop_stream
  <2>. QED
    BY <2>2, <2>3
<1>4. ASSUME NEW c \in Clients, CountStep(c) PROVE Answered'
  BY <1>4, <1>k, CountStepKeeps DEF store
<1>5. CASE UNCHANGED vars
  BY <1>5, <1>k DEF vars, store
<1>. QED
  BY <1>1, <1>2, <1>3, <1>4, <1>5 DEF Next, FileStep, CountStep

LEMMA AlwaysTellInv == Spec => []TellInv
<1>1. Init => TellInv
  BY TypeInit, OwnedInit, WithinInit, AgreedInit DEF TellInv
<1>2. TellInv /\ [Next]_vars => TellInv'
  BY TypeStep, OwnedStep, WithinStep, AgreedStep, AnsweredStep DEF TellInv
<1>. QED
  BY <1>1, <1>2, PTL DEF Spec

\* The revision that commit returns has what its client was told, and nothing else that
\* is new, however its writes were made and whatever the other clients do.
THEOREM CommitsAsTold == Spec => []CommittedAsTold
<1>1. TellInv => CommittedAsTold
  BY DEF TellInv, Answered, Careful, CommittedAsTold
<1>. QED
  BY <1>1, AlwaysTellInv, PTL

-----------------------------------------------------------------------------
(***************************************************************************)
(* Refinement.                                                             *)
(***************************************************************************)
\* What RevisionStore sees of a state.
Revisions == IF Tame THEN revs ELSE << [p \in Paths |-> Absent] >>
Asked == [c \in Clients |-> IF Tame /\ ~Made(c) THEN told[c] ELSE Nothing]
Done == IF Tame THEN {c \in Clients : Made(c)} ELSE {}

LEMMA TameMeans ==
  ASSUME program \in SUBSET Liberties
  PROVE  Tame <=> /\ Careful
                  /\ program \cap {"anew", "share"} = {}
                  /\ "share" \notin program
BY DEF Tame, Liberties, Careful

LEMMA PromiseInit == Init => Promise!Init
<1>. SUFFICES ASSUME Init PROVE Promise!Init
  OBVIOUS
<1>1. \A c \in Clients : ~Made(c)
  <2>1. DOMAIN made = {}
    BY DEF Init
  <2>. QED
    BY <2>1 DEF Made
<1>2. Revisions = << [p \in Paths |-> Absent] >>
  BY DEF Init, Revisions
<1>3. Asked = [c \in Clients |-> Nothing]
  BY <1>1 DEF Init, Asked
<1>4. Done = {}
  BY <1>1 DEF Done
<1>. QED
  BY <1>2, <1>3, <1>4 DEF Promise!Init, Promise!Nothing, Nothing, Revisions, Asked, Done

\* Nothing is asked by, and nothing more made for, a client that is done.
LEMMA PromiseStutter ==
  ASSUME UNCHANGED <<Revisions, Asked, Done>>
  PROVE  UNCHANGED Promise!storeVars
BY DEF Promise!storeVars, Revisions, Asked, Done

\* A change that agrees with another but for one file is that change with its own text
\* of the file, or without the file.
LEMMA PutBack ==
  ASSUME NEW d \in Changes, NEW e \in Changes, NEW p \in Paths, NEW x,
         Put(d, p, x) = Put(e, p, x), p \in DOMAIN e
  PROVE  e = Put(d, p, e[p]) /\ e[p] \in Contents
<1>1. PICK E \in SUBSET Paths : e \in [E -> Contents]
  BY DEF Changes
<1>2. e[p] \in Contents
  BY <1>1
<1>3. Put(d, p, e[p]) = Put(e, p, e[p])
  BY PutOther
<1>4. Put(e, p, e[p]) = e
  BY <1>1 DEF Put
<1>. QED
  BY <1>2, <1>3, <1>4

LEMMA PutUndone ==
  ASSUME NEW d \in Changes, NEW e \in Changes, NEW p \in Paths, NEW x,
         Put(d, p, x) = Put(e, p, x), p \notin DOMAIN e
  PROVE  e = Promise!Without(d, p)
<1>1. PICK E \in SUBSET Paths : e \in [E -> Contents]
  BY DEF Changes
<1>2. PICK D \in SUBSET Paths : d \in [D -> Contents]
  BY DEF Changes
<1>3. DOMAIN d \cup {p} = DOMAIN e \cup {p}
  BY DEF Put
<1>4. DOMAIN d \ {p} = DOMAIN e
  BY <1>3
<1>5. \A q \in DOMAIN e : d[q] = e[q]
  <2>1. ASSUME NEW q \in DOMAIN e PROVE d[q] = e[q]
    <3>1. q # p /\ q \in DOMAIN d
      BY <1>4, <2>1
    <3>2. Put(d, p, x)[q] = d[q] /\ Put(e, p, x)[q] = e[q]
      BY <2>1, <3>1 DEF Put
    <3>. QED
      BY <3>2
  <2>. QED
    BY <2>1
<1>. QED
  BY <1>1, <1>4, <1>5 DEF Promise!Without

LEMMA PromiseStep == CommitInv /\ TellInv /\ [Next]_vars => [Promise!Next]_(Promise!storeVars)
<1>. SUFFICES ASSUME CommitInv, TellInv, [Next]_vars, program' = program
              PROVE  [Promise!Next]_(Promise!storeVars)
  BY ProgramKept
<1>i. TypeInv /\ Owned /\ Settled /\ CommittedOnce /\ Within /\ Agreed /\ Answered
  BY DEF CommitInv, TellInv
<1>p. Tame' <=> Tame
  BY DEF Tame
<1>0. CASE ~Tame
  <2>1. UNCHANGED <<Revisions, Asked, Done>>
    BY <1>0, <1>p DEF Revisions, Asked, Done
  <2>. QED
    BY <2>1, PromiseStutter
<1>. SUFFICES ASSUME Tame PROVE [Promise!Next]_(Promise!storeVars)
  BY <1>0
<1>m. Careful /\ program \cap {"anew", "share"} = {} /\ "share" \notin program
  BY <1>i, TameMeans, ProgramsTaken DEF TypeInv, TypeOK
<1>t. /\ told \in [Clients -> Changes]
      /\ \A d \in Clients : handle[d] # Null <=> phase[d] = "working"
      /\ \A d \in Clients : handle[d] # Null => handle[d] = known[d]
  BY <1>i DEF TypeInv, TypeOK, Named
<1>w. \A d \in Clients : stream[d] # Null => phase[d] = "working" /\ stream[d].txn = handle[d]
  BY <1>i, <1>m DEF Within, Careful
<1>s. \A d \in Clients : Made(d) =>
        /\ phase[d] \in {"unsure", "over"}
        /\ phase[d] = "unsure" => known[d] = Null \/ known[d] \notin open
  BY <1>i, <1>m DEF Settled
\* Steps that make no revision.
<1>q. ASSUME UNCHANGED <<revs, told>>, \A d \in Clients : Made(d)' <=> Made(d)
      PROVE  [Promise!Next]_(Promise!storeVars)
  <2>1. UNCHANGED <<Revisions, Asked, Done>>
    BY <1>p, <1>q DEF Revisions, Asked, Done
  <2>. QED
    BY <2>1, PromiseStutter
<1>g. ASSUME NEW c \in Clients, revs' = revs, \A d \in Clients : Made(d)' <=> Made(d),
             told' = [told EXCEPT ![c] = Nothing]
      PROVE  [Promise!Next]_(Promise!storeVars)
  <2>1. Revisions' = Revisions /\ Done' = Done
    BY <1>p, <1>g DEF Revisions, Done
  <2>2. CASE Made(c)
    <3>1. Asked' = Asked
      BY <1>g, <1>p, <1>t, <2>2 DEF Asked
    <3>. QED
      BY <2>1, <3>1, PromiseStutter
  <2>3. CASE ~Made(c)
    <3>1. c \notin Done
      BY <2>3 DEF Done
    <3>2. Asked' = [Asked EXCEPT ![c] = Nothing]
      BY <1>g, <1>p, <1>t DEF Asked
    <3>3. Promise!GiveUp(c)
      BY <2>1, <3>1, <3>2
         DEF Promise!GiveUp, Promise!Nothing, Nothing, Revisions, Asked, Done
    <3>. QED
      BY <3>3 DEF Promise!Next
  <2>. QED
    BY <2>2, <2>3
<1>x. ASSUME NEW c \in Clients, NEW p \in Paths, NEW t \in Contents,
             revs' = revs, \A d \in Clients : Made(d)' <=> Made(d), ~Made(c),
             told' = [told EXCEPT ![c] = Put(told[c], p, t)]
      PROVE  [Promise!Next]_(Promise!storeVars)
  <2>1. Revisions' = Revisions /\ Done' = Done
    BY <1>p, <1>x DEF Revisions, Done
  <2>2. c \notin Done
    BY <1>x DEF Done
  <2>3. Asked' = [Asked EXCEPT ![c] = Put(Asked[c], p, t)]
    BY <1>x, <1>p, <1>t DEF Asked
  <2>4. Promise!Ask(c, p, t)
    BY <2>1, <2>2, <2>3 DEF Promise!Ask, Promise!Put, Put, Revisions, Asked, Done
  <2>. QED
    BY <2>4 DEF Promise!Next
<1>y. ASSUME NEW c \in Clients, NEW p \in Paths,
             revs' = revs, \A d \in Clients : Made(d)' <=> Made(d), ~Made(c),
             told' = [told EXCEPT ![c] = Promise!Without(told[c], p)]
      PROVE  [Promise!Next]_(Promise!storeVars)
  <2>1. Revisions' = Revisions /\ Done' = Done
    BY <1>p, <1>y DEF Revisions, Done
  <2>2. c \notin Done
    BY <1>y DEF Done
  <2>3. Asked' = [Asked EXCEPT ![c] = Promise!Without(Asked[c], p)]
    BY <1>y, <1>p, <1>t DEF Asked
  <2>4. Promise!Lose(c, p)
    BY <2>1, <2>2, <2>3 DEF Promise!Lose, Revisions, Asked, Done
  <2>. QED
    BY <2>4 DEF Promise!Next
<1>1. ASSUME NEW c \in Clients, begin_txn(c) PROVE [Promise!Next]_(Promise!storeVars)
  <2>1. /\ made' = made /\ revs' = revs
        /\ begun + 1 \in Names /\ owner' = [owner EXCEPT ![begun + 1] = c]
        /\ told' = [told EXCEPT ![c] = Nothing]
    BY <1>1, <1>i, BoundsNat DEF begin_txn, Set, TypeInv, TypeOK, Names
  <2>2. \A d \in Clients : Made(d)' <=> Made(d)
    BY <1>i, <2>1, MadeKept
  <2>. QED
    BY <1>g, <2>1, <2>2
<1>2. ASSUME NEW c \in Clients,
             drop(c) \/ abort(c) \/ \E n \in Names : purge_txn(c, n)
      PROVE  [Promise!Next]_(Promise!storeVars)
  <2>1. UNCHANGED <<revs, made, owner>> /\ told' = [told EXCEPT ![c] = Nothing]
    BY <1>2, <1>m DEF drop, abort, purge_txn, Set, store
  <2>2. \A d \in Clients : Made(d)' <=> Made(d)
    BY <1>i, <2>1, MadeKept
  <2>. QED
    BY <1>g, <2>1, <2>2
<1>c. ASSUME NEW c \in Clients, crash(c) PROVE [Promise!Next]_(Promise!storeVars)
  <2>1. /\ UNCHANGED <<revs, made, owner, changes>>
        /\ phase[c] \in {"working", "unsure"}
        /\ \/ told' = [told EXCEPT ![c] = Nothing]
           \/ known[c] \in Names /\ told' = [told EXCEPT ![c] = changes[known[c]]]
    BY <1>c, <1>i, CrashLeaves DEF store
  <2>2. \A d \in Clients : Made(d)' <=> Made(d)
    BY <1>i, <2>1, MadeKept
  <2>3. CASE told' = [told EXCEPT ![c] = Nothing]
    BY <1>g, <2>1, <2>2, <2>3
  <2>4. CASE known[c] \in Names /\ told' = [told EXCEPT ![c] = changes[known[c]]]
    <3>1. known[c] # Null /\ Agree(c)
      BY <1>i, <1>m, <2>1, <2>4, TextsNew DEF Agreed
    <3>2. CASE stream[c] = Null
      <4>1. told' = told
        BY <1>t, <2>4, <3>1, <3>2 DEF Agree
      <4>. QED
        BY <1>q, <2>1, <2>2, <4>1
    <3>3. CASE stream[c] # Null
      <4>1. ~Made(c)
        BY <1>s, <1>w, <3>3
      <4>. DEFINE p == stream[c].path
                  x == stream[c].text
                  e == changes[known[c]]
      <4>2. p \in Paths /\ x \in Contents
        BY <1>i, <3>3 DEF TypeInv, TypeOK, Writes
      <4>3. e \in Changes /\ told[c] \in Changes
        BY <1>i, <2>4 DEF TypeInv, TypeOK
      <4>4. Put(told[c], p, x) = Put(e, p, x)
        BY <3>1, <3>3 DEF Agree
      <4>. HIDE DEF p, x, e
      <4>5. told' = [told EXCEPT ![c] = e]
        BY <2>4 DEF e
      <4>6. CASE p \in DOMAIN e
        <5>1. e = Put(told[c], p, e[p]) /\ e[p] \in Contents
          BY <4>2, <4>3, <4>4, <4>6, PutBack
        <5>. QED
          BY <1>x, <2>1, <2>2, <4>1, <4>2, <4>5, <5>1
      <4>7. CASE p \notin DOMAIN e
        <5>1. e = Promise!Without(told[c], p)
          BY <4>2, <4>3, <4>4, <4>7, PutUndone
        <5>. QED
          BY <1>y, <2>1, <2>2, <4>1, <4>2, <4>5, <5>1
      <4>. QED
        BY <4>6, <4>7
    <3>. QED
      BY <3>2, <3>3
  <2>. QED
    BY <2>1, <2>3, <2>4
<1>3. ASSUME NEW c \in Clients, NEW n \in Names, open_txn(c, n)
      PROVE  [Promise!Next]_(Promise!storeVars)
  <2>1. UNCHANGED <<revs, made, owner, told>>
    BY <1>3 DEF open_txn, store
  <2>. QED
    BY <1>i, <1>q, <2>1, MadeKept
<1>4. ASSUME NEW c \in Clients, commit(c) PROVE [Promise!Next]_(Promise!storeVars)
  <2>1. /\ phase[c] = "working" /\ stream[c] = Null /\ told' = told
        /\ handle[c] = known[c]
    BY <1>4, <1>m, <1>t DEF commit, Working, Careful
  <2>2. ~Made(c)
    BY <1>s, <2>1
  <2>3. told[c] = changes[handle[c]]
    BY <1>i, <1>m, <2>1 DEF Agreed, Agree
  <2>4. CASE Append1(handle[c])
    <3>1. /\ \A d \in Clients \ {c} : Made(d)' <=> Made(d)
          /\ Made(c)'
      BY <1>4, <1>i, <1>m, <2>4, MadeGrows
    <3>2. c \notin Done
      BY <2>2 DEF Done
    <3>3. Done' = Done \cup {c}
      BY <1>p, <3>1 DEF Done
    <3>4. Asked' = [Asked EXCEPT ![c] = Nothing] /\ Asked[c] = told[c]
      BY <1>p, <2>1, <2>2, <3>1 DEF Asked
    <3>5. Revisions' = Append(Revisions, Overlay(Revisions[Len(Revisions)], Asked[c]))
      BY <1>p, <2>3, <2>4, <3>4 DEF Append1, Revisions
    <3>6. Promise!Commit(c)
      BY <3>2, <3>3, <3>4, <3>5
         DEF Promise!Commit, Promise!Overlay, Promise!Youngest, Promise!Nothing, Overlay,
             Nothing, Revisions, Asked, Done
    <3>. QED
      BY <3>6 DEF Promise!Next
  <2>5. CASE ~Append1(handle[c])
    <3>1. UNCHANGED <<revs, made, owner>>
      BY <1>4, <2>5 DEF commit
    <3>. QED
      BY <1>i, <1>q, <2>1, <3>1, MadeKept
  <2>. QED
    BY <2>4, <2>5
<1>5. ASSUME NEW c \in Clients, FileStep(c) PROVE [Promise!Next]_(Promise!storeVars)
  <2>1. UNCHANGED <<revs, made, owner>>
    BY <1>5, FileStepKeeps
  <2>2. \A d \in Clients : Made(d)' <=> Made(d)
    BY <1>i, <2>1, MadeKept
  <2>3. phase[c] = "working" => ~Made(c)
    BY <1>s
  <2>4. ASSUME NEW p \in Paths, NEW t \in Texts, set_file_contents(c, p, t)
        PROVE  [Promise!Next]_(Promise!storeVars)
    <3>1. t \in Contents
      BY DEF Contents
    <3>2. phase[c] = "working" /\ told' = [told EXCEPT ![c] = Put(told[c], p, t)]
      BY <2>4 DEF set_file_contents, Tell, Set
    <3>. QED
      BY <1>x, <2>1, <2>2, <2>3, <3>1, <3>2
  <2>5. CASE (\E p \in Paths : apply_text(c, p)) \/ drop_stream(c)
    BY <1>q, <2>1, <2>2, <2>5 DEF apply_text, drop_stream
  <2>6. ASSUME stream[c] # Null
        PROVE  stream[c].path \in Paths /\ stream[c].text \in Contents
    BY <1>i, <2>6 DEF TypeInv, TypeOK, Writes
  <2>7. ASSUME NEW t \in Texts, write(c, t) PROVE [Promise!Next]_(Promise!storeVars)
    <3>1. t \in Contents /\ stream[c] # Null
      BY <2>7 DEF Contents, write
    <3>2. \/ told' = told
          \/ told' = [told EXCEPT ![c] = Put(told[c], stream[c].path, t)]
      BY <2>7 DEF write, Tell, Set
    <3>. QED
      BY <1>q, <1>w, <1>x, <2>1, <2>2, <2>3, <2>6, <3>1, <3>2
  <2>8. CASE close(c)
    <3>1. stream[c] # Null
      BY <2>8 DEF close
    <3>2. \/ told' = told
          \/ told' = [told EXCEPT ![c] = Put(told[c], stream[c].path, stream[c].text)]
      BY <2>8 DEF close, Tell, Set
    <3>. QED
      BY <1>q, <1>w, <1>x, <2>1, <2>2, <2>3, <2>6, <3>1, <3>2
  <2>. QED
    BY <1>5, <2>4, <2>5, <2>7, <2>8 DEF FileStep
<1>6. ASSUME NEW c \in Clients, CountStep(c) PROVE [Promise!Next]_(Promise!storeVars)
  <2>1. UNCHANGED <<revs, made, owner, told>>
    BY <1>6, CountStepKeeps DEF store
  <2>. QED
    BY <1>i, <1>q, <2>1, MadeKept
<1>7. CASE UNCHANGED vars
  <2>1. UNCHANGED <<revs, made, owner, told>>
    BY <1>7 DEF vars, store
  <2>. QED
    BY <1>i, <1>q, <2>1, MadeKept
<1>. QED
  BY <1>1, <1>2, <1>c, <1>3, <1>4, <1>5, <1>6, <1>7 DEF Next, FileStep, CountStep

\* Transactions implement RevisionStore, for clients that take no liberty but "blind":
\* what they ask for becomes a revision as a whole, as they were told, and once.
THEOREM TransactionsPromise == Spec => StorePromised
<1>. QED
  BY PromiseInit, PromiseStep, AlwaysCommitInv, AlwaysTellInv, PTL
     DEF Spec, StorePromised, Promise!Spec
=============================================================================
