----------------------------- MODULE FlockPool -----------------------------
(***************************************************************************)
(* A pool of databases over one content-addressed store                    *)
(* (crates/flock-core: db.rs, store.rs, pool.rs, over the kernel's         *)
(* hydrate/persist).  Each database has a directory with a private log;    *)
(* pages and manifests are shared by all of them.                          *)
(*                                                                         *)
(* A handle is one live `Db'.  Its operations are split at every point     *)
(* where a crash or a step of another handle tells the states apart; the   *)
(* program counter names where a handle is in its operation.               *)
(*                                                                         *)
(* A manifest id is a hash over the whole chain of commits, so it is       *)
(* represented by that chain: the sequence of contents committed.  Page    *)
(* sets are abstracted to the content they make up.  substrate's commit,   *)
(* checkpoint and recover are external and modelled by what this code      *)
(* relies on.                                                              *)
(***************************************************************************)
EXTENDS Naturals, Sequences, FiniteSets

CONSTANTS
    Handles,     \* the `Db' values callers may hold at once
    Names,       \* the database names in use
    Contents,    \* what a DuckDB file may contain
    Blank,       \* the file DuckDB creates when it is handed no file
    MaxHistory,  \* bound: the longest chain of commits
    Exclusive,   \* whether callers use each name from one handle at a time;
                 \* nothing in the code enforces it
    CheckpointsFail \* whether writing a restored head to the log may fail

ASSUME PoolAssumption ==
    /\ Blank \in Contents
    /\ Names # {}
    /\ MaxHistory \in Nat
    /\ Exclusive \in BOOLEAN
    /\ CheckpointsFail \in BOOLEAN

VARIABLES
    \* durable, shared by the pool
    dirs,        \* names whose directory <root>/dbs/<name> exists
    walHead,     \* walHead[n]: the head that recovering n's log yields
    manifests,   \* manifests installed in <root>/cas/manifests
    cas,         \* contents all of whose pages are in <root>/cas/pages
    \* in memory, one per handle
    pc,          \* where the handle is
    name,        \* Db::name
    target,      \* the name a fork in progress creates; `name' otherwise
    head,        \* the pager's head
    scratch      \* what DuckDB's scratch file contains

durable == <<dirs, walHead, manifests, cas>>
vars == <<dirs, walHead, manifests, cas, pc, name, target, head, scratch>>

-----------------------------------------------------------------------------
(* Manifests and the kernel's view of them.                                *)

Manifests == Seq(Contents)

\* Faulty variant: the empty root becomes a file of no bytes, which DuckDB refuses.
HydratedEmptyFile(m) == IF m = <<>> THEN <<>> ELSE m[Len(m)]

\* A hydrated file: no file at all for the empty root, and DuckDB then makes one.
Hydrated(m) == IF m = <<>> THEN Blank ELSE m[Len(m)]

\* Manifest::parent.
Parent(m) == SubSeq(m, 1, Len(m) - 1)

\* The transaction persist() builds is empty: no chunk differs from head's pages.
Unchanged(h) == head[h] # <<>> /\ scratch[h] = Hydrated(head[h])

\* Every page the manifest resolves to can be read.
Readable(m) == m # <<>> => m[Len(m)] \in cas

Busy == {"persisting", "staged", "committed", "snapped",
         "forking", "forked", "rewound", "restored"}
Pcs == {"closed", "linked", "open"} \cup Busy

Live(h) == pc[h] \notin {"closed", "linked"}

\* The names a handle is using, the one it is about to create included.
Uses(h) == IF pc[h] = "closed" THEN {} ELSE {name[h], target[h]}

\* What a handle that is not open holds means nothing; the model keeps it fixed.
NoName == CHOOSE n \in Names : TRUE

Available(n) == Exclusive => \A h \in Handles : n \notin Uses(h)

-----------------------------------------------------------------------------
Init ==
    /\ dirs = {}
    /\ walHead = [n \in Names |-> <<>>]
    /\ manifests = {<<>>}
    /\ cas = {}
    /\ pc = [h \in Handles |-> "closed"]
    /\ name = [h \in Handles |-> NoName]
    /\ target = [h \in Handles |-> NoName]
    /\ head = [h \in Handles |-> <<>>]
    /\ scratch = [h \in Handles |-> Blank]

Goto(h, l) == pc' = [pc EXCEPT ![h] = l]

\* Flock::open: link_db_to_shared_cas creates the directory, or finds it there.
Open(h, n) ==
    /\ pc[h] = "closed"
    /\ Available(n)
    /\ dirs' = dirs \cup {n}
    /\ name' = [name EXCEPT ![h] = n]
    /\ target' = [target EXCEPT ![h] = n]
    /\ Goto(h, "linked")
    /\ UNCHANGED <<walHead, manifests, cas, head, scratch>>

\* Faulty variant: recovery finds the head but does not install its manifest.
OpenWithoutInstall(h) ==
    LET m == walHead[name[h]]
    IN  /\ pc[h] = "linked"
        /\ Readable(m)
        /\ head' = [head EXCEPT ![h] = m]
        /\ scratch' = [scratch EXCEPT ![h] = Hydrated(m)]
        /\ Goto(h, "open")
        /\ UNCHANGED <<dirs, walHead, manifests, cas, name, target>>

\* recover() re-derives the head from the log and installs it, and only then
\* does the kernel open and hydrate its scratch file from that head.
OpenRecover(h) ==
    LET m == walHead[name[h]]
    IN  /\ pc[h] = "linked"
        /\ Readable(m)
        /\ manifests' = manifests \cup {m}
        /\ head' = [head EXCEPT ![h] = m]
        /\ scratch' = [scratch EXCEPT ![h] = Hydrated(m)]
        /\ Goto(h, "open")
        /\ UNCHANGED <<dirs, walHead, cas, name, target>>

\* Dropping the handle, or an open that failed.  Nothing is written.
Close(h) ==
    /\ pc[h] \in {"linked", "open"}
    /\ Goto(h, "closed")
    /\ name' = [name EXCEPT ![h] = NoName]
    /\ target' = [target EXCEPT ![h] = NoName]
    /\ head' = [head EXCEPT ![h] = <<>>]
    /\ scratch' = [scratch EXCEPT ![h] = Blank]
    /\ UNCHANGED durable

\* The process dies, whatever each handle was in the middle of.
Crash ==
    /\ \E h \in Handles : pc[h] # "closed"
    /\ pc' = [h \in Handles |-> "closed"]
    /\ name' = [h \in Handles |-> NoName]
    /\ target' = [h \in Handles |-> NoName]
    /\ head' = [h \in Handles |-> <<>>]
    /\ scratch' = [h \in Handles |-> Blank]
    /\ UNCHANGED durable

\* A statement changes the scratch file and nothing else.
Execute(h, v) ==
    /\ pc[h] = "open"
    /\ scratch' = [scratch EXCEPT ![h] = v]
    /\ UNCHANGED <<dirs, walHead, manifests, cas, pc, name, target, head>>

-----------------------------------------------------------------------------
(* Db::snapshot, and the snapshot Db::fork begins with.                    *)

\* The bound on history is the model's, not the code's.
CanCommit(h) == Unchanged(h) \/ Len(head[h]) < MaxHistory

SnapshotBegin(h) ==
    /\ pc[h] = "open"
    /\ CanCommit(h)
    /\ Goto(h, "persisting")
    /\ UNCHANGED <<dirs, walHead, manifests, cas, name, target, head, scratch>>

\* Faulty variant: fork takes any name.
ForkBeginAdopting(h, n) ==
    /\ pc[h] = "open"
    /\ CanCommit(h)
    /\ Available(n)
    /\ target' = [target EXCEPT ![h] = n]
    /\ Goto(h, "persisting")
    /\ UNCHANGED <<dirs, walHead, manifests, cas, name, head, scratch>>

\* Faulty variant: fork branches from the parent's last snapshot.
ForkBeginFromHead(h, n) ==
    /\ pc[h] = "open"
    /\ n \notin dirs
    /\ Available(n)
    /\ target' = [target EXCEPT ![h] = n]
    /\ Goto(h, "snapped")
    /\ UNCHANGED <<dirs, walHead, manifests, cas, name, head, scratch>>

\* Fork refuses a name whose directory exists, and snapshots the parent first.
ForkBegin(h, n) ==
    /\ pc[h] = "open"
    /\ CanCommit(h)
    /\ n \notin dirs
    /\ Available(n)
    /\ target' = [target EXCEPT ![h] = n]
    /\ Goto(h, "persisting")
    /\ UNCHANGED <<dirs, walHead, manifests, cas, name, head, scratch>>

\* DuckDB folds its log into the file, and the changed pages go to the CAS.
WritePages(h) ==
    /\ pc[h] = "persisting"
    /\ ~Unchanged(h)
    /\ cas' = cas \cup {scratch[h]}
    /\ Goto(h, "staged")
    /\ UNCHANGED <<dirs, walHead, manifests, name, target, head, scratch>>

\* An empty transaction commits nothing and returns the head there is.
NothingToWrite(h) ==
    /\ pc[h] = "persisting"
    /\ Unchanged(h)
    /\ Goto(h, "snapped")
    /\ UNCHANGED <<dirs, walHead, manifests, cas, name, target, head, scratch>>

\* Faulty variant: the record is written before the pages are.
AppendCommitEarly(h) ==
    /\ pc[h] \in {"persisting", "staged"}
    /\ ~Unchanged(h)
    /\ walHead' = [walHead EXCEPT ![name[h]] = Append(head[h], scratch[h])]
    /\ Goto(h, "committed")
    /\ UNCHANGED <<dirs, manifests, cas, name, target, head, scratch>>

\* The commit point: the record is in the log.
AppendCommit(h) ==
    /\ pc[h] = "staged"
    /\ walHead' = [walHead EXCEPT ![name[h]] = Append(head[h], scratch[h])]
    /\ Goto(h, "committed")
    /\ UNCHANGED <<dirs, manifests, cas, name, target, head, scratch>>

\* The manifest is installed and becomes the head.
Install(h) ==
    LET m == Append(head[h], scratch[h])
    IN  /\ pc[h] = "committed"
        /\ manifests' = manifests \cup {m}
        /\ head' = [head EXCEPT ![h] = m]
        /\ Goto(h, "snapped")
        /\ UNCHANGED <<dirs, walHead, cas, name, target, scratch>>

\* The fold was refused, or pages or record could not be written.  Once the record is
\* in the log the snapshot goes on or the process dies: this takes substrate's commit
\* to leave no record behind when it returns an error.
SnapshotFail(h) ==
    /\ pc[h] \in {"persisting", "staged"}
    /\ target' = [target EXCEPT ![h] = name[h]]
    /\ Goto(h, "open")
    /\ UNCHANGED <<dirs, walHead, manifests, cas, name, head, scratch>>

SnapshotReturn(h) ==
    /\ pc[h] = "snapped"
    /\ target[h] = name[h]
    /\ Goto(h, "open")
    /\ UNCHANGED <<dirs, walHead, manifests, cas, name, target, head, scratch>>

-----------------------------------------------------------------------------
(* Db::fork, after the snapshot.                                           *)

\* The fork's directory appears; its log is empty, or was when this handle looked.
\* Recovering it and moving its in-memory head to the parent's leaves no trace.
ForkLink(h) ==
    /\ pc[h] = "snapped"
    /\ target[h] # name[h]
    /\ dirs' = dirs \cup {target[h]}
    /\ manifests' = manifests \cup {walHead[target[h]]}
    /\ Goto(h, "forking")
    /\ UNCHANGED <<walHead, cas, name, target, head, scratch>>

\* Faulty variant: the fork's position is never made durable.
ForkWithoutCheckpoint(h) ==
    /\ pc[h] = "forking"
    /\ Goto(h, "forked")
    /\ UNCHANGED <<dirs, walHead, manifests, cas, name, target, head, scratch>>

\* The checkpoint that makes the fork's position durable.
ForkCheckpoint(h) ==
    /\ pc[h] = "forking"
    /\ walHead' = [walHead EXCEPT ![target[h]] = head[h]]
    /\ Goto(h, "forked")
    /\ UNCHANGED <<dirs, manifests, cas, name, target, head, scratch>>

\* The fork's kernel opens and the caller has two handles.
ForkReturn(h, f) ==
    /\ pc[h] = "forked"
    /\ pc[f] = "closed"
    /\ pc' = [pc EXCEPT ![h] = "open", ![f] = "open"]
    /\ name' = [name EXCEPT ![f] = target[h]]
    /\ target' = [target EXCEPT ![f] = target[h], ![h] = name[h]]
    /\ head' = [head EXCEPT ![f] = head[h]]
    /\ scratch' = [scratch EXCEPT ![f] = Hydrated(head[h])]
    /\ UNCHANGED durable

\* An error on the way: the directory stays behind, with or without its head.
ForkFail(h) ==
    /\ pc[h] \in {"forking", "forked"}
    /\ target' = [target EXCEPT ![h] = name[h]]
    /\ Goto(h, "open")
    /\ UNCHANGED <<dirs, walHead, manifests, cas, name, head, scratch>>

-----------------------------------------------------------------------------
(* Db::restore.                                                            *)

\* A manifest the pool does not have is refused; otherwise the head moves.
RestoreRewind(h, m) ==
    /\ pc[h] = "open"
    /\ m \in manifests
    /\ head' = [head EXCEPT ![h] = m]
    /\ Goto(h, "rewound")
    /\ UNCHANGED <<dirs, walHead, manifests, cas, name, target, scratch>>

RestoreCheckpoint(h) ==
    /\ pc[h] = "rewound"
    /\ walHead' = [walHead EXCEPT ![name[h]] = head[h]]
    /\ Goto(h, "restored")
    /\ UNCHANGED <<dirs, manifests, cas, name, target, head, scratch>>

\* The kernel is rebuilt over the restored head...
RestoreRehydrate(h) ==
    /\ pc[h] = "restored"
    /\ scratch' = [scratch EXCEPT ![h] = Hydrated(head[h])]
    /\ Goto(h, "open")
    /\ UNCHANGED <<dirs, walHead, manifests, cas, name, target, head>>

\* ... or cannot be, or the log could not be written: the old one stays, over a
\* head that has already moved.
RestoreFail(h) ==
    /\ pc[h] = "restored" \/ (CheckpointsFail /\ pc[h] = "rewound")
    /\ Goto(h, "open")
    /\ UNCHANGED <<dirs, walHead, manifests, cas, name, target, head, scratch>>

-----------------------------------------------------------------------------
SnapshotStep(h) ==
    \/ SnapshotBegin(h) \/ WritePages(h) \/ NothingToWrite(h)
    \/ AppendCommit(h) \/ Install(h) \/ SnapshotFail(h) \/ SnapshotReturn(h)

ForkStep(h) ==
    \/ \E n \in Names : ForkBegin(h, n)
    \/ ForkLink(h) \/ ForkCheckpoint(h) \/ ForkFail(h)
    \/ \E f \in Handles : ForkReturn(h, f)

RestoreStep(h) ==
    \/ \E m \in manifests : RestoreRewind(h, m)
    \/ RestoreCheckpoint(h) \/ RestoreRehydrate(h) \/ RestoreFail(h)

HandleStep(h) ==
    \/ \E n \in Names : Open(h, n)
    \/ OpenRecover(h) \/ Close(h)
    \/ \E v \in Contents : Execute(h, v)
    \/ SnapshotStep(h) \/ ForkStep(h) \/ RestoreStep(h)

Next == Crash \/ \E h \in Handles : HandleStep(h)

Spec == Init /\ [][Next]_vars

-----------------------------------------------------------------------------
(* Properties.                                                             *)

TypeOK ==
    /\ dirs \in SUBSET Names
    /\ walHead \in [Names -> Manifests]
    /\ manifests \in SUBSET Manifests
    /\ cas \in SUBSET Contents
    /\ pc \in [Handles -> Pcs]
    /\ name \in [Handles -> Names]
    /\ target \in [Handles -> Names]
    /\ head \in [Handles -> Manifests]
    /\ scratch \in [Handles -> Contents]

\* Whatever a database's log would recover to, and whatever manifest is
\* installed, has its pages in the store: a crash at any point of a commit, a
\* fork or a restore leaves a database that opens, and any snapshot id ever
\* handed out can still be read (Db::snapshot, "there is no state in between").
NothingDangles ==
    /\ \A n \in Names : Readable(walHead[n])
    /\ \A m \in manifests : Readable(m)

\* A handle between operations is exactly where a restart would put it: once
\* snapshot, fork or restore has returned, what it did is durable, whatever
\* operations came before and however they ended, but for a restore whose
\* checkpoint failed.
RestIsDurable ==
    \A h \in Handles : pc[h] = "open" => walHead[name[h]] = head[h]

\* A snapshot that has returned is durable: a restart opens at it (the comment on
\* Db::ensure_durable).  What came before it may have failed.
SnapshotIsDurable ==
    [][\A h \in Handles : SnapshotReturn(h) => walHead[name[h]] = head[h]]_vars

\* The whole history of every installed manifest is installed, also when a crash
\* fell between the commit record and the installation: Db::sleep walks this
\* ancestry and fails on the first gap.
AncestryInstalled ==
    \A m \in manifests : m # <<>> => Parent(m) \in manifests

\* fork takes over no database that has committed anything: it refuses a
\* directory that exists.  That nobody fills one between the check and the link
\* is Exclusive's doing, and fork links a full one when it is FALSE.
NeverAdopts ==
    [][\A h \in Handles : ForkLink(h) => walHead[target[h]] = <<>>]_vars

-----------------------------------------------------------------------------
(* The inductive invariant: what holds in every state and makes the       *)
(* properties above hold after the next step too.                          *)

\* Whoever uses the names: pages come before the record that needs them, and a
\* handle's head is installed before anything is committed on top of it.
StoreInv ==
    /\ NothingDangles
    /\ AncestryInstalled
    /\ <<>> \in manifests
    /\ \A n \in Names : walHead[n] # <<>> => Parent(walHead[n]) \in manifests
    /\ \A h \in Handles : Live(h) => head[h] \in manifests
    /\ \A h \in Handles : pc[h] \in {"staged", "committed"} => scratch[h] \in cas

\* No two handles use one name, and a handle uses a second one only to fork to it.
NamesInv ==
    /\ \A g, h \in Handles : g # h => Uses(g) \cap Uses(h) = {}
    /\ \A h \in Handles :
         /\ pc[h] \in {"linked", "open", "rewound", "restored"} => target[h] = name[h]
         /\ pc[h] \in {"forking", "forked"} => target[h] # name[h]

\* The log of a name agrees with the handle that uses it.
LogAgrees(h) ==
    /\ pc[h] # "closed" => name[h] \in dirs
    /\ pc[h] \notin {"closed", "linked", "rewound", "committed"}
         => walHead[name[h]] = head[h]
    /\ pc[h] = "committed" => walHead[name[h]] = Append(head[h], scratch[h])
    /\ pc[h] = "rewound" => walHead[name[h]] \in manifests
    /\ pc[h] \in {"snapped", "forking", "forked"} => scratch[h] = Hydrated(head[h])
    /\ pc[h] \in {"persisting", "staged", "committed", "snapped"}
         /\ target[h] # name[h] => target[h] \notin dirs
    /\ pc[h] \in {"forking", "forked"} => target[h] \in dirs
    /\ pc[h] = "forking" => walHead[target[h]] = <<>>
    /\ pc[h] = "forked" => walHead[target[h]] = head[h]

LogInv ==
    /\ \A n \in Names : n \notin dirs => walHead[n] = <<>>
    /\ \A h \in Handles : LogAgrees(h)

\* What callers and the disk must do for a log and its handle to agree.
Sound == Exclusive /\ ~CheckpointsFail

SoundInv == Sound => NamesInv /\ LogInv

Inv == TypeOK /\ StoreInv /\ SoundInv

-----------------------------------------------------------------------------
(* What a pool promises, and that this one keeps it.                       *)

\* What the queries of a database see: its handle's scratch file (once a restore
\* is durable, what it is about to be) or, with no handle, what one would open to.
View(h) == IF pc[h] = "restored" THEN Hydrated(head[h]) ELSE scratch[h]

Serving(n) == {h \in Handles : Live(h) /\ name[h] = n}

Visible(n) == IF Serving(n) = {} THEN Hydrated(walHead[n])
                                 ELSE View(CHOOSE h \in Serving(n) : TRUE)

visible == [n \in Names |-> Visible(n)]

opened == {n \in Names : \E h \in Handles : Live(h) /\ name[h] = n}

restorable == manifests \cup {walHead[n] : n \in Names}

\* The pool behaves as a set of databases that share nothing: forks start from
\* everything the parent had, commits and restores touch one database that is
\* open, a crash falls back to the last commit of each, and a database nobody has
\* open changes in no other way than by being forked into.
Abstract == INSTANCE IsolatedDatabases WITH
    committed <- walHead, working <- visible, history <- restorable,
    open <- opened

IsolatedSpec == Abstract!Spec
=============================================================================
