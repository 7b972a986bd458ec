-------------------------- MODULE DurableSnapshots --------------------------
(***************************************************************************)
(* What one database promises whoever puts it to sleep, wakes it and loses *)
(* it, without saying how: a snapshot is what queries saw when it was      *)
(* taken, on top of the snapshots before it, and opening, waking and       *)
(* restoring show a snapshot again, byte for byte.  A restore that fails   *)
(* promises less: queries go on with what they saw, but the next snapshot  *)
(* may go on top of the one that was to be restored, and opening comes     *)
(* back to it.  Dying and forgetting take away only what nothing vouches   *)
(* for: the history of a wake token, and of what ensure_durable returned   *)
(* for, outlives the process, the cache and the pool.                      *)
(*                                                                         *)
(* There are no pages, page tables, uploads, staging stores or DuckDB logs *)
(* here.  Tiering is shown to implement this module.                       *)
(***************************************************************************)
EXTENDS Naturals, Sequences

CONSTANTS Contents,  \* what a database file may contain
          Blank      \* the content of a database without a snapshot

VARIABLES at,        \* where the database is open: "closed", "home" or "woken"
          head,      \* its snapshots on the way to the last, the contents of each
          working,   \* what a query sees
          saved,     \* the head that opening it at home comes back to
          snapshots, \* every snapshot that can still be read, with those before it
          tokens,    \* heads that can be woken
          vouched    \* heads that were said to be durable

vars == <<at, head, working, saved, snapshots, tokens, vouched>>

ContentOf(m) == IF m = <<>> THEN Blank ELSE m[Len(m)]

\* A snapshot and those before it.
History(m) == {SubSeq(m, 1, n) : n \in 1 .. Len(m)}

Show(place, m) == at' = place /\ head' = m /\ working' = ContentOf(m)

\* Snapshots may be lost, but not these nor those before them.
Keeps(M) ==
    /\ snapshots' \subseteq snapshots
    /\ UNION {History(m) : m \in M} \subseteq snapshots'

Init ==
    /\ at = "closed"
    /\ head = <<>>
    /\ working = Blank
    /\ saved = <<>>
    /\ snapshots = {}
    /\ tokens = {}
    /\ vouched = {}

Open ==
    /\ at = "closed"
    /\ Show("home", saved)
    /\ UNCHANGED <<saved, snapshots, tokens, vouched>>

Wake(m) ==
    /\ at = "closed"
    /\ Show("woken", m)
    /\ UNCHANGED <<saved, snapshots, tokens, vouched>>

Work(v) ==
    /\ at # "closed"
    /\ working' = v
    /\ UNCHANGED <<at, head, saved, snapshots, tokens, vouched>>

\* What queries see becomes the head; where nothing has changed it is the head already.
Snapshot(m) ==
    /\ at # "closed"
    /\ m # <<>>
    /\ ContentOf(m) = working
    /\ head' = m
    /\ saved' = IF at = "home" THEN m ELSE saved
    /\ snapshots' = snapshots \cup {m}
    /\ UNCHANGED <<at, working, tokens, vouched>>

\* The head goes back to a snapshot, and at home what opening comes back to with it.
Rewind(m) ==
    /\ at # "closed"
    /\ head' = m
    /\ saved' = IF at = "home" THEN m ELSE saved
    /\ UNCHANGED <<at, snapshots, tokens, vouched>>

Restore(m) == Rewind(m) /\ working' = ContentOf(m)

\* A restore that returns an error may have moved the head and shown nothing of it.
RestoreFail(m) == Rewind(m) /\ UNCHANGED working

\* ensure_durable returns.
Vouch ==
    /\ at = "woken"
    /\ vouched' = vouched \cup {head}
    /\ UNCHANGED <<at, head, working, saved, snapshots, tokens>>

\* sleep returns.
Sleep ==
    /\ at # "closed"
    /\ Show("closed", <<>>)
    /\ tokens' = tokens \cup {head}
    /\ Keeps(tokens \cup vouched \cup {saved, head})
    /\ UNCHANGED <<saved, vouched>>

\* A sleep drops the cache of a woken database.
Forget ==
    /\ at # "closed"
    /\ Keeps(tokens \cup vouched \cup {saved, head})
    /\ UNCHANGED <<at, head, working, saved, tokens, vouched>>

\* The handle is dropped, or its process dies.
Stop ==
    /\ at # "closed"
    /\ Show("closed", <<>>)
    /\ Keeps(tokens \cup vouched \cup {saved})
    /\ UNCHANGED <<saved, tokens, vouched>>

\* The pool is lost.
LoseHome ==
    /\ at = "closed"
    /\ saved' = <<>>
    /\ Keeps(tokens \cup vouched)
    /\ UNCHANGED <<at, head, working, tokens, vouched>>

Next ==
    \/ \E v \in Contents : Work(v)
    \/ Open \/ Stop \/ LoseHome
    \/ \E m \in tokens : Wake(m)
    \/ \E m \in {head, Append(head, working)} : Snapshot(m)
    \/ \E m \in snapshots : Restore(m) \/ RestoreFail(m)
    \/ Vouch \/ Sleep \/ Forget

Spec == Init /\ [][Next]_vars
=============================================================================
