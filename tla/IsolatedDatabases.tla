------------------------- MODULE IsolatedDatabases -------------------------
(***************************************************************************)
(* What a FlockDB pool promises its callers, without saying how: every     *)
(* database is a value of its own.  `committed' is what a restart finds,   *)
(* `working' is what a query sees, and `history' is the set of snapshots   *)
(* that can still be restored.  A fork copies the value its parent had;    *)
(* after that no step of one database touches another one, and none        *)
(* touches a database nobody has `open'.                                   *)
(*                                                                         *)
(* FlockPool is shown to implement this module.                            *)
(***************************************************************************)
EXTENDS Sequences

CONSTANTS Names,      \* the databases a pool may hold
          Contents,   \* what a database file may contain
          Blank       \* the content of a database nobody has written to

VARIABLES committed,  \* committed[d]: the snapshot a restart of d comes back to
          working,    \* working[d]: the content a query of d sees
          history,    \* every snapshot that can be restored
          open        \* the databases somebody has open

vars == <<committed, working, history, open>>

\* A snapshot is the sequence of contents committed on the way to it; the empty
\* sequence is the root every new database starts from.
Snapshots == Seq(Contents)

ContentOf(m) == IF m = <<>> THEN Blank ELSE m[Len(m)]

Init ==
    /\ committed = [d \in Names |-> <<>>]
    /\ working = [d \in Names |-> Blank]
    /\ history = {<<>>}
    /\ open = {}

\* Opening a database changes nothing a query sees.
Open(d) ==
    /\ d \notin open
    /\ open' = open \cup {d}
    /\ UNCHANGED <<committed, working, history>>

\* Statements run against d, and only d.
Work(d) ==
    /\ d \in open
    /\ \E v \in Contents : working' = [working EXCEPT ![d] = v]
    /\ UNCHANGED <<committed, history, open>>

\* A snapshot makes exactly the content in use durable, on top of what was.
Snapshot(d) ==
    LET m == Append(committed[d], working[d])
    IN  /\ d \in open
        /\ committed' = [committed EXCEPT ![d] = m]
        /\ history' = history \cup {m}
        /\ UNCHANGED <<working, open>>

\* A fork is born with everything its parent had, the parent's writes since its
\* last snapshot included, and takes over no database that held anything.
Fork(p, c) ==
    /\ p \in open
    /\ c \notin open
    /\ committed[c] = <<>>
    /\ working[p] = ContentOf(committed[p])
    /\ committed' = [committed EXCEPT ![c] = committed[p]]
    /\ working' = [working EXCEPT ![c] = working[p]]
    /\ UNCHANGED <<history, open>>

Restore(d, m) ==
    /\ d \in open
    /\ committed' = [committed EXCEPT ![d] = m]
    /\ working' = [working EXCEPT ![d] = ContentOf(m)]
    /\ UNCHANGED <<history, open>>

\* The databases in D are closed, or their process dies: each is back at the
\* snapshot it last committed, whole.
Lose(D) ==
    /\ open' = open \ D
    /\ working' = [d \in Names |-> IF d \in D THEN ContentOf(committed[d])
                                              ELSE working[d]]
    /\ UNCHANGED <<committed, history>>

Next ==
    \/ \E d \in Names : Open(d) \/ Work(d) \/ Snapshot(d)
    \/ \E p \in Names : \E c \in Names \ {p} : Fork(p, c)
    \/ \E d \in Names : \E m \in history : Restore(d, m)
    \/ \E D \in SUBSET open : Lose(D)

Spec == Init /\ [][Next]_vars
=============================================================================
