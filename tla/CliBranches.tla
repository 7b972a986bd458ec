---------------------------- MODULE CliBranches ----------------------------
(***************************************************************************)
(* The pool directory as the `flock' command line keeps it                 *)
(* (crates/flock-cli: workspace.rs and cmd/): the HEAD file, the branch    *)
(* directories, the sleep records, the pool's page store and the tier.     *)
(*                                                                         *)
(* Every command is a process that runs alone (main.rs says the tool is    *)
(* for a single user), does one thing in several writes, and may die or    *)
(* fail between any two of them; what it has written is then all there,    *)
(* for it is the process that dies and not the machine.  A file that is    *)
(* written in place is first truncated, so that a process dying between    *)
(* leaves it torn.                                                         *)
(*                                                                         *)
(* A branch's log is represented by the manifest that opening it recovers, *)
(* and a manifest by its chain of commits, as in FlockPool; opening and    *)
(* committing are single steps here, FlockPool takes them apart, and so is *)
(* an upload, which Tiering takes apart.                                   *)
(***************************************************************************)
EXTENDS Naturals, Sequences, FiniteSets

CONSTANTS
    Branches,     \* branch names
    Main,         \* the branch a new pool starts on
    Tables,       \* table names; a database is the set of its tables
    None, Torn,   \* a file that is not there, and one cut off
    MaxHistory    \* bound: commits on the way to a manifest

ASSUME BranchesAssumption ==
    /\ Main \in Branches
    /\ None # Torn
    /\ {None, Torn} \cap (Branches \cup Seq(SUBSET Tables)) = {}
    /\ MaxHistory \in Nat

VARIABLES
    headFile,   \* <pool>/HEAD: a branch name, None or Torn
    dirs,       \* branches with a directory <pool>/dbs/<branch>
    log,        \* log[b]: the manifest opening b recovers; empty without a directory
    record,     \* <pool>/asleep/<branch>.json: the token's manifest, None or Torn
    local,      \* manifests whose pages and themselves are in <pool>/cas
    cold,       \* manifests whose pages and themselves are in the tier
    cut,        \* manifests of which a copy into <pool>/cas was cut off
    proc        \* the command that is running

branches == <<headFile, dirs, log, record>>
stores == <<local, cold, cut>>
durable == <<branches, stores>>
vars == <<durable, proc>>

-----------------------------------------------------------------------------
Contents == SUBSET Tables
Manifests == Seq(Contents)

ContentOf(m) == IF m = <<>> THEN {} ELSE m[Len(m)]

\* What a manifest needs of a store: it and everything it was committed on top of.
Ancestry(m) == {SubSeq(m, 1, n) : n \in 1..Len(m)}

\* Db::snapshot commits unless the head already holds exactly this content.
Committed(m, v) == IF m # <<>> /\ ContentOf(m) = v THEN m ELSE Append(m, v)

Pcs == {"idle", "select", "selecting", "import", "fork", "forked", "uploaded",
        "recording", "recorded", "fetched", "copying", "adopted", "reopened", "restored"}

Idle == [pc |-> "idle", branch |-> Main, from |-> Main, m |-> <<>>]

At(l) == proc.pc = l
Goto(l) == proc' = [proc EXCEPT !.pc = l]
Done == proc' = Idle

\* Workspace::branches: awake or asleep.
Known == dirs \cup {b \in Branches : record[b] # None}

IsAsleep(b) == record[b] # None

\* Workspace::read_sleep_record: the record is there and parses.
RecordReads(b) == record[b] \notin {None, Torn}

Exists == headFile # None

\* Workspace::resolve, for a branch named on the command line or in HEAD.
Resolves(b) == Exists /\ b \in Known /\ ~IsAsleep(b)

\* Flock::open: the directory is there afterwards, and the head can be read.
Openable(b) == log[b] = <<>> \/ log[b] \in local

\* What is put into the pool's store is there whole, whatever was there of it.
Put(m) ==
    /\ local' = local \cup {m}
    /\ cut' = cut \ {m}

Init ==
    /\ headFile = None
    /\ dirs = {}
    /\ log = [b \in Branches |-> <<>>]
    /\ record = [b \in Branches |-> None]
    /\ local = {}
    /\ cold = {}
    /\ cut = {}
    /\ proc = Idle

\* A command prints an error, or its process dies: what it wrote stays.
Stop ==
    /\ ~At("idle")
    /\ Done
    /\ UNCHANGED durable

-----------------------------------------------------------------------------
(* HEAD: written in place, by import in a new pool, fork and checkout.     *)

SetHead ==
    /\ At("select")
    /\ headFile' = Torn
    /\ Goto("selecting")
    /\ UNCHANGED <<dirs, log, record, local, cold, cut>>

WriteHead ==
    /\ At("selecting")
    /\ headFile' = proc.branch
    /\ Done
    /\ UNCHANGED <<dirs, log, record, local, cold, cut>>

\* A sleeping branch may be checked out.
Checkout(b) ==
    /\ At("idle")
    /\ Exists
    /\ b \in Known
    /\ proc' = [Idle EXCEPT !.pc = "select", !.branch = b]
    /\ UNCHANGED durable

-----------------------------------------------------------------------------
(* import and sql.                                                         *)

\* The branch need not exist: opening it makes its directory.  In a new pool it is
\* Main unless the command names another.
ImportOpen(b) ==
    /\ At("idle")
    /\ ~IsAsleep(b)
    /\ Openable(b)
    /\ dirs' = dirs \cup {b}
    /\ proc' = [Idle EXCEPT !.pc = "import", !.branch = b]
    /\ UNCHANGED <<headFile, log, record, local, cold, cut>>

\* A table that is there is refused.  Otherwise it is created and committed, and a
\* new pool gets its HEAD only then.
ImportCommit(t) ==
    LET b == proc.branch
        m == Append(log[b], ContentOf(log[b]) \cup {t})
    IN  /\ At("import")
        /\ t \notin ContentOf(log[b])
        /\ Len(m) <= MaxHistory
        /\ log' = [log EXCEPT ![b] = m]
        /\ Put(m)
        /\ IF Exists THEN Done ELSE Goto("select")
        /\ UNCHANGED <<headFile, dirs, record, cold>>

\* Any statement, and the snapshot that follows even a query.
Sql(b, v) ==
    LET m == Committed(log[b], v)
    IN  /\ At("idle")
        /\ Resolves(b)
        /\ Openable(b)
        /\ Len(m) <= MaxHistory
        /\ log' = [log EXCEPT ![b] = m]
        /\ Put(m)
        /\ UNCHANGED <<headFile, dirs, record, cold, proc>>

-----------------------------------------------------------------------------
(* branch.                                                                 *)

\* Faulty variant: the fork is checked out before it is made.
ForkBeginChecksOut(p, c) ==
    /\ At("idle")
    /\ Resolves(p)
    /\ c \notin Known
    /\ headFile' = c
    /\ proc' = [Idle EXCEPT !.pc = "fork", !.branch = c, !.from = p]
    /\ UNCHANGED <<dirs, log, record, local, cold, cut>>

\* The parent is opened and snapshotted.  Only a directory makes a name taken.
ForkBegin(p, c) ==
    LET m == Committed(log[p], ContentOf(log[p]))
    IN  /\ At("idle")
        /\ Resolves(p)
        /\ Openable(p)
        /\ c \notin dirs
        /\ Len(m) <= MaxHistory
        /\ log' = [log EXCEPT ![p] = m]
        /\ Put(m)
        /\ proc' = [Idle EXCEPT !.pc = "fork", !.branch = c, !.from = p]
        /\ UNCHANGED <<headFile, dirs, record, cold>>

ForkLink ==
    /\ At("fork")
    /\ dirs' = dirs \cup {proc.branch}
    /\ Goto("forked")
    /\ UNCHANGED <<headFile, log, record, local, cold, cut>>

\* The fork's position is durable; the fork is checked out unless told otherwise.
ForkRecord(checkout) ==
    /\ At("forked")
    /\ log' = [log EXCEPT ![proc.branch] = log[proc.from]]
    /\ IF checkout THEN Goto("select") ELSE Done
    /\ UNCHANGED <<headFile, dirs, record, local, cold, cut>>

-----------------------------------------------------------------------------
(* sleep.                                                                  *)

\* Faulty variant: only the head is uploaded, not what it was committed on.
UploadedHead(m) == {m}

\* What Db::sleep uploads: the head with its whole ancestry.
Uploaded(m) == Ancestry(m)

\* Db::sleep snapshots, then reads the whole ancestry from the pool and uploads it.
SleepUpload(b) ==
    LET m == Committed(log[b], ContentOf(log[b]))
    IN  /\ At("idle")
        /\ Resolves(b)
        /\ Openable(b)
        /\ Len(m) <= MaxHistory
        /\ Ancestry(m) \subseteq local \cup {m}
        /\ log' = [log EXCEPT ![b] = m]
        /\ Put(m)
        /\ cold' = cold \cup Uploaded(m)
        /\ proc' = [Idle EXCEPT !.pc = "uploaded", !.branch = b, !.m = m]
        /\ UNCHANGED <<headFile, dirs, record>>

\* The record is created empty and then filled.
RecordCreate ==
    /\ At("uploaded")
    /\ record' = [record EXCEPT ![proc.branch] = Torn]
    /\ Goto("recording")
    /\ UNCHANGED <<headFile, dirs, log, local, cold, cut>>

RecordWrite ==
    /\ At("recording")
    /\ record' = [record EXCEPT ![proc.branch] = proc.m]
    /\ Goto("recorded")
    /\ UNCHANGED <<headFile, dirs, log, local, cold, cut>>

\* remove_dir_all deletes one file after another: the log loses records...
RemoveSome ==
    /\ At("recorded")
    /\ \E m \in Ancestry(log[proc.branch]) \cup {<<>>} :
           log' = [log EXCEPT ![proc.branch] = m]
    /\ UNCHANGED <<headFile, dirs, record, local, cold, cut, proc>>

\* Faulty variant: the directory goes before the record is there.
RemoveEarly ==
    /\ At("recording")
    /\ dirs' = dirs \ {proc.branch}
    /\ log' = [log EXCEPT ![proc.branch] = <<>>]
    /\ UNCHANGED <<headFile, record, local, cold, cut, proc>>

\* ... and then the directory is gone.
RemoveDir ==
    /\ At("recorded")
    /\ dirs' = dirs \ {proc.branch}
    /\ log' = [log EXCEPT ![proc.branch] = <<>>]
    /\ Done
    /\ UNCHANGED <<headFile, record, local, cold, cut>>

-----------------------------------------------------------------------------
(* wake.                                                                   *)

\* Faulty variant: a record that cannot be read is taken for a token.
WakeFetchUnread(b) ==
    /\ At("idle")
    /\ Exists
    /\ IsAsleep(b)
    /\ proc' = [Idle EXCEPT !.pc = "fetched", !.branch = b, !.m = record[b]]
    /\ UNCHANGED durable

\* A record that cannot be read is an error.  Otherwise the head's manifest and
\* every page of it are fetched from the tier into a cache of their own.
WakeFetch(b) ==
    /\ At("idle")
    /\ Exists
    /\ RecordReads(b)
    /\ record[b] \in cold
    /\ proc' = [Idle EXCEPT !.pc = "fetched", !.branch = b, !.m = record[b]]
    /\ UNCHANGED durable

\* copy_tree copies what was fetched into the pool's store, in place, and skips what
\* is there.
WakeCopy ==
    /\ At("fetched")
    /\ IF proc.m \in local \cup cut
       THEN /\ Goto("adopted")
            /\ UNCHANGED cut
       ELSE /\ Goto("copying")
            /\ cut' = cut \cup {proc.m}
    /\ UNCHANGED <<branches, local, cold>>

WakeAdopt ==
    /\ At("copying")
    /\ Put(proc.m)
    /\ Goto("adopted")
    /\ UNCHANGED <<branches, cold>>

\* The branch is opened again, over whatever a removal cut short has left of it.
WakeOpen ==
    /\ At("adopted")
    /\ Openable(proc.branch)
    /\ dirs' = dirs \cup {proc.branch}
    /\ Goto("reopened")
    /\ UNCHANGED <<headFile, log, record, local, cold, cut>>

\* Db::restore reads the manifest and every page of it.
WakeRestore ==
    /\ At("reopened")
    /\ proc.m \in local
    /\ log' = [log EXCEPT ![proc.branch] = proc.m]
    /\ Goto("restored")
    /\ UNCHANGED <<headFile, dirs, record, local, cold, cut>>

WakeForget ==
    /\ At("restored")
    /\ record' = [record EXCEPT ![proc.branch] = None]
    /\ Done
    /\ UNCHANGED <<headFile, dirs, log, local, cold, cut>>

\* Not a command: between commands the user reclaims the pages no awake branch
\* has in its ancestry, whole or cut off, as the tests do after a sleep.
Reclaim ==
    LET live == UNION {Ancestry(log[b]) : b \in dirs}
    IN  /\ At("idle")
        /\ local' = local \cap live
        /\ cut' = cut \cap live
        /\ <<local, cut>>' # <<local, cut>>
        /\ UNCHANGED <<branches, cold, proc>>

-----------------------------------------------------------------------------
SleepStep == RecordCreate \/ RecordWrite \/ RemoveSome \/ RemoveDir
WakeStep == WakeCopy \/ WakeAdopt \/ WakeOpen \/ WakeRestore \/ WakeForget

Next ==
    \/ Stop \/ Reclaim \/ SetHead \/ WriteHead
    \/ \E b \in Branches : Checkout(b) \/ ImportOpen(b) \/ SleepUpload(b) \/ WakeFetch(b)
    \/ \E t \in Tables : ImportCommit(t)
    \/ \E b \in Branches : \E v \in Contents : Sql(b, v)
    \/ \E p \in Branches : \E c \in Branches : ForkBegin(p, c)
    \/ ForkLink
    \/ \E checkout \in BOOLEAN : ForkRecord(checkout)
    \/ SleepStep \/ WakeStep

Spec == Init /\ [][Next]_vars

-----------------------------------------------------------------------------
(* Properties.                                                             *)

TypeOK ==
    /\ headFile \in Branches \cup {None, Torn}
    /\ dirs \in SUBSET Branches
    /\ log \in [Branches -> Manifests]
    /\ record \in [Branches -> Manifests \cup {None, Torn}]
    /\ local \in SUBSET Manifests
    /\ cold \in SUBSET Manifests
    /\ cut \in SUBSET Manifests
    /\ proc \in [pc : Pcs, branch : Branches, from : Branches, m : Manifests]

\* What a branch holds: what its sleep record names or, with no readable one, what
\* opening its directory recovers.
Value(b) == IF RecordReads(b) THEN record[b]
            ELSE IF b \in dirs THEN log[b] ELSE None

value == [b \in Branches |-> Value(b)]

sleeping == {b \in Branches : IsAsleep(b)}

\* Wherever a command dies, each branch still holds what the last command that
\* changed it committed: sleep and wake move a branch without changing it, and no
\* command touches a branch it was not told to (tier.rs: "the reverse order has a
\* window in which a crash loses the branch").
Promise == INSTANCE NamedBranches WITH Unborn <- None, asleep <- sleeping

NamedBranchesSpec == Promise!Spec

\* Whatever dies and is reclaimed, what a branch holds can be read.  The record of a
\* sleeping one names a manifest the tier has, with the ancestry its restores need; one
\* that has a directory and no record opens from the pool.  One whose record is torn no
\* command opens and none wakes, for it counts as asleep: it is whole on both sides, so
\* that it is back once the record is deleted by hand (workspace.rs, when the record
\* cannot be written: "Nothing was dropped: the database is still in the tier, and still
\* local").
NothingIsDropped ==
    \A b \in Branches :
        /\ RecordReads(b) => Ancestry(record[b]) \subseteq cold
        /\ b \in dirs /\ ~RecordReads(b) => Openable(b)
        /\ record[b] = Torn => b \in dirs /\ Ancestry(log[b]) \subseteq cold

\* A HEAD that names a branch names one that is there, asleep or awake, at every
\* step of every command: a command without --branch finds its branch.
HeadNamesABranch == headFile \in Branches => headFile \in Known

\* A fork that was made holds what its parent holds, under the name it was given: the
\* name was no branch's, awake or asleep (branch.rs: Db::fork "refuses a name that is
\* taken").
ForkArrives ==
    [][\A c \in BOOLEAN : ForkRecord(c) => value'[proc.branch] = value[proc.from]]_vars

\* A wake that got past the copying has the whole database in the pool, so that it can
\* finish, also when it repeats one that failed: a file that is already there "has the
\* right bytes in it by construction" (tier.rs, copy_tree).
AdoptedIsWhole == At("adopted") => proc.m \in local
=============================================================================
