---------------------------- MODULE RevisionStore ----------------------------
(***************************************************************************)
(* What the transactions of a filesystem promise to the programs that       *)
(* commit through them: each client has one change to make, the texts it    *)
(* was told are stored; the change becomes the next revision, as a whole    *)
(* and once, or it is given up; and a revision is there for good.  A        *)
(* program that ends loses the text of a file at most, which it had not     *)
(* closed.                                                                 *)
(***************************************************************************)
EXTENDS Sequences

CONSTANTS
  Clients,   \* who commits
  Paths,     \* the files of the filesystem
  Texts,     \* their contents
  Absent     \* there is no such file

VARIABLES
  revs,   \* revs[r]: the files of revision r - 1
  asked,  \* asked[c]: the texts that c was told are stored
  done    \* the clients whose change is a revision

storeVars == <<revs, asked, done>>

Trees == [Paths -> Texts \cup {Absent}]
Nothing == [p \in {} |-> Absent]

\* The files of tree t, with those of change d in their place.
Overlay(t, d) == [p \in Paths |-> IF p \in DOMAIN d THEN d[p] ELSE t[p]]
Put(d, p, t) == [q \in DOMAIN d \cup {p} |-> IF q = p THEN t ELSE d[q]]
Without(d, p) == [q \in DOMAIN d \ {p} |-> d[q]]

Youngest(rs) == rs[Len(rs)]

Init ==
  /\ revs = << [p \in Paths |-> Absent] >>
  /\ asked = [c \in Clients |-> Nothing]
  /\ done = {}

Ask(c, p, t) ==
  /\ c \notin done
  /\ asked' = [asked EXCEPT ![c] = Put(@, p, t)]
  /\ UNCHANGED <<revs, done>>

\* The program of c ended before the text of p was stored.
Lose(c, p) ==
  /\ c \notin done
  /\ asked' = [asked EXCEPT ![c] = Without(@, p)]
  /\ UNCHANGED <<revs, done>>

GiveUp(c) ==
  /\ c \notin done
  /\ asked' = [asked EXCEPT ![c] = Nothing]
  /\ UNCHANGED <<revs, done>>

Commit(c) ==
  /\ c \notin done
  /\ revs' = Append(revs, Overlay(Youngest(revs), asked[c]))
  /\ asked' = [asked EXCEPT ![c] = Nothing]
  /\ done' = done \cup {c}

Next ==
  \E c \in Clients :
    \/ \E p \in Paths, t \in Texts : Ask(c, p, t)
    \/ \E p \in Paths : Lose(c, p)
    \/ GiveUp(c)
    \/ Commit(c)

Spec == Init /\ [][Next]_storeVars
=============================================================================
