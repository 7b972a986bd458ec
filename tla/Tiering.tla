------------------------------- MODULE Tiering -------------------------------
(***************************************************************************)
(* One database between its pool and object storage (crates/flock-core:    *)
(* Db::snapshot, restore, sleep, ensure_durable and Flock::wake, over the  *)
(* kernel's fold, persist and hydrate).                                    *)
(*                                                                         *)
(* A local database is durable in its pool's store and log.  Sleep copies  *)
(* its head's whole ancestry through a staging store into the bucket and   *)
(* hands back a token; wake opens a token over a cache whose commits are   *)
(* only queued for the bucket.  substrate's TieredStore is external: it    *)
(* uploads the pages it saw being put and were not uploaded yet, reads     *)
(* through to the bucket, and deletes its local copy once none are left.   *)
(*                                                                         *)
(* A manifest is represented by the chain of page tables committed on the  *)
(* way to it, and a page by its bytes.                                     *)
(***************************************************************************)
EXTENDS Paging

CONSTANTS DbFiles,     \* the files the statements of the callers lead to
          Blank,        \* the file DuckDB makes when it is handed none
          MaxManifests, \* bound: the manifests that are stored anywhere
          MaxVouched    \* bound: tokens and acknowledgements given

ASSUME TieringAssumption ==
    /\ DbFiles \subseteq Files
    /\ Blank \in DbFiles
    /\ <<>> \notin DbFiles
    /\ MaxManifests \in Nat
    /\ MaxVouched \in Nat

VARIABLES
    \* the pool's disk
    home,     \* [pages, manifests]: the pool's content-addressed store
    homeLog,  \* the head that opening the database recovers
    \* the bucket
    bucket,   \* [pages, manifests]: what is confirmed in object storage
    \* the process
    pc,       \* where the handle is
    mode,     \* which Store the handle is on: "local" or "tiered"
    head,     \* the pager's head
    file,     \* what queries see: DuckDB's main file with its log applied
    pending,  \* pages a tiered store has seen put and not uploaded
    staged,   \* manifests a tiered store holds and the bucket may not
    \* the callers
    tokens,   \* wake tokens handed out, as the manifests they name
    durable   \* manifests ensure_durable has vouched for

process == <<pc, mode, head, file, pending, staged>>
vars == <<home, homeLog, bucket, process, tokens, durable>>

-----------------------------------------------------------------------------
NoPages == [p \in {} |-> <<>>]

\* PageStore::resolve.
Resolve(m) == IF m = <<>> THEN NoPages ELSE m[Len(m)]

\* The head and everything it was committed on: parents and overlay bases.
Ancestry(m) == {SubSeq(m, 1, n) : n \in 1..Len(m)}

PagesOf(M) == UNION {{Resolve(m)[p] : p \in DOMAIN Resolve(m)} : m \in M}

EmptyStore == [pages |-> {}, manifests |-> {}]

Holds(s, M) == M \subseteq s.manifests /\ PagesOf(M) \subseteq s.pages

Stored == home.manifests \cup bucket.manifests \cup staged

\* Faulty variant: no bytes at all become a file, which DuckDB refuses.
FileOfBytes(m) == Hydrated(Resolve(m))

\* hydrate: no bytes at all are no file, and DuckDB makes one; a table that does not
\* lie as persist lays it gives no file but an error.
FileOf(m) == IF Resolve(m) = NoPages THEN Blank
             ELSE IF WellLaid(Resolve(m)) THEN Hydrated(Resolve(m)) ELSE <<>>

\* What the handle can read: the pool's store or, for a woken database, its cache
\* with the bucket behind it.
Source == IF mode = "local" THEN home
          ELSE [pages |-> bucket.pages \cup pending,
                manifests |-> bucket.manifests \cup staged]

Readable(m) == Holds(Source, IF m = <<>> THEN {} ELSE {m})

Process(l, s, m) ==
    /\ pc' = l
    /\ mode' = s
    /\ head' = m
    /\ file' = FileOf(m)

\* Dropping a handle, or its process dying: its scratch file, and what a woken
\* database's cache or a staging store had not uploaded, are gone.
Closed ==
    /\ Process("closed", "local", <<>>)
    /\ pending' = {}
    /\ staged' = {}

Init ==
    /\ home = EmptyStore
    /\ homeLog = <<>>
    /\ bucket = EmptyStore
    /\ pc = "closed"
    /\ mode = "local"
    /\ head = <<>>
    /\ file = Blank
    /\ pending = {}
    /\ staged = {}
    /\ tokens = {}
    /\ durable = {}

Stop ==
    /\ pc # "closed"
    /\ Closed
    /\ UNCHANGED <<home, homeLog, bucket, tokens, durable>>

\* The machine and its pool are lost; what is left is what the bucket holds.
LoseHome ==
    /\ pc = "closed"
    /\ home # EmptyStore
    /\ home' = EmptyStore
    /\ homeLog' = <<>>
    /\ UNCHANGED <<bucket, process, tokens, durable>>

-----------------------------------------------------------------------------
(* A handle and its statements.                                            *)

\* Flock::open: recover, then hydrate.
Open ==
    /\ pc = "closed"
    /\ homeLog # <<>> => Holds(home, {homeLog}) /\ WellLaid(Resolve(homeLog))
    /\ Process("open", "local", homeLog)
    /\ UNCHANGED <<home, homeLog, bucket, pending, staged, tokens, durable>>

\* Flock::wake: the token's manifest and every page of it come from the bucket.
Wake(m) ==
    /\ pc = "closed"
    /\ m \in tokens
    /\ Holds(bucket, {m})
    /\ WellLaid(Resolve(m))
    /\ Process("open", "tiered", m)
    /\ UNCHANGED <<home, homeLog, bucket, pending, staged, tokens, durable>>

\* A statement changes what queries see; DuckDB may keep it in its log for as long as
\* it is not told to fold it into the main file.
Execute(f) ==
    /\ pc = "open"
    /\ file' = f
    /\ UNCHANGED <<home, homeLog, bucket, pc, mode, head, pending, staged, tokens, durable>>

\* Faulty variant: the rewind of a local database is not recorded in its log.
RestoreUnrecorded(m) ==
    /\ pc = "open"
    /\ m \in Source.manifests
    /\ Readable(m)
    /\ WellLaid(Resolve(m))
    /\ Process("open", mode, m)
    /\ UNCHANGED <<home, homeLog, bucket, pending, staged, tokens, durable>>

\* rewind_to: the store's head moves, and in a local database's log with it.
Rewind(m) ==
    /\ pc = "open"
    /\ m \in Source.manifests
    /\ homeLog' = IF mode = "local" THEN m ELSE homeLog
    /\ head' = m
    /\ UNCHANGED <<home, bucket, pc, mode, pending, staged, tokens, durable>>

\* Db::restore: the head moves, and the kernel is rebuilt over it...
Restore(m) ==
    /\ Rewind(m)
    /\ Readable(m)
    /\ WellLaid(Resolve(m))
    /\ file' = FileOf(m)

\* ... or cannot be: the head has moved, and the kernel and the file it had stay.
RestoreFail(m) ==
    /\ Rewind(m)
    /\ file' = file

-----------------------------------------------------------------------------
(* The checkpoint that snapshot and sleep begin with.                      *)

\* CHECKPOINT folds DuckDB's log into its main file; a log that is not empty
\* afterwards is an error, and nothing is committed.
Folded == file

\* Faulty variant: the cache holds on to the newest manifest only.
CachedNewest(m) == {m}

\* A woken database's cache keeps what it commits, uploaded or not.
Cached(m) == staged \cup {m}

\* persist and the store's commit: into the pool's store and log, or into the cache
\* of a woken database, where new pages are queued for upload.
Checkpoint ==
    LET old == Resolve(head)
        f == Folded
        m == IF NothingChanged(old, f) THEN head ELSE Append(head, Persisted(old, f))
        put == {Chunk(f, p) : p \in Written(old, f)}
    IN  /\ Cardinality(Stored \cup {m}) <= MaxManifests
        /\ head' = m
        /\ IF mode = "local"
           THEN /\ home' = [pages |-> home.pages \cup put,
                            manifests |-> home.manifests \cup {m}]
                /\ homeLog' = m
                /\ UNCHANGED <<pending, staged>>
           ELSE /\ pending' = pending \cup put
                /\ staged' = Cached(m)
                /\ UNCHANGED <<home, homeLog>>

Snapshot ==
    /\ pc = "open"
    /\ Checkpoint
    /\ UNCHANGED <<bucket, pc, mode, file, tokens, durable>>

\* The background uploader, or the flush of a sleep or an ensure_durable: one page.
Upload(page) ==
    /\ page \in pending
    /\ bucket' = [bucket EXCEPT !.pages = @ \cup {page}]
    /\ pending' = pending \ {page}
    /\ UNCHANGED <<home, homeLog, pc, mode, head, file, staged, tokens, durable>>

\* Faulty variant: the manifests do not wait for the pages.
EnsureUnflushed ==
    /\ pc = "open"
    /\ mode = "tiered"
    /\ Cardinality(tokens) + Cardinality(durable) < MaxVouched
    /\ bucket' = [bucket EXCEPT !.manifests = @ \cup Ancestry(head)]
    /\ durable' = durable \cup {head}
    /\ UNCHANGED <<home, homeLog, process, tokens>>

\* Db::ensure_durable returns: all pages are flushed, then the head's manifests.  On
\* a local database it does nothing.
EnsureDurable ==
    /\ pc = "open"
    /\ mode = "tiered"
    /\ pending = {}
    /\ Cardinality(tokens) + Cardinality(durable) < MaxVouched
    /\ bucket' = [bucket EXCEPT !.manifests = @ \cup Ancestry(head)]
    /\ durable' = durable \cup {head}
    /\ UNCHANGED <<home, homeLog, process, tokens>>

-----------------------------------------------------------------------------
(* Db::sleep consumes the handle; if any of it fails the handle is closed. *)

SleepBegin ==
    /\ pc = "open"
    /\ Checkpoint
    /\ pc' = "stage"
    /\ UNCHANGED <<bucket, mode, file, tokens, durable>>

\* Faulty variant: the store is opened over pages it never saw being put.
StageInPlace ==
    /\ pc = "stage"
    /\ Holds(Source, Ancestry(head))
    /\ staged' = Ancestry(head)
    /\ pending' = {}
    /\ pc' = "flush"
    /\ UNCHANGED <<home, homeLog, bucket, mode, head, file, tokens, durable>>

\* The walk over the head's ancestry: every manifest, and every page any of them can
\* see, is read from the source and put through a staging store of its own.
Stage ==
    /\ pc = "stage"
    /\ Holds(Source, Ancestry(head))
    /\ staged' = Ancestry(head)
    /\ pending' = PagesOf(Ancestry(head))
    /\ pc' = "flush"
    /\ UNCHANGED <<home, homeLog, bucket, mode, head, file, tokens, durable>>

\* TieredStore::sleep: with all pages flushed the manifests go up, the staging copy is
\* dropped, and the token is handed back.
SleepReturn ==
    /\ pc = "flush"
    /\ pending = {}
    /\ Cardinality(tokens) + Cardinality(durable) < MaxVouched
    /\ bucket' = [bucket EXCEPT !.manifests = @ \cup staged]
    /\ tokens' = tokens \cup {head}
    /\ Closed
    /\ UNCHANGED <<home, homeLog, durable>>

-----------------------------------------------------------------------------
Next ==
    \/ Stop \/ LoseHome \/ Open \/ Snapshot \/ EnsureDurable
    \/ SleepBegin \/ Stage \/ SleepReturn
    \/ \E m \in tokens : Wake(m)
    \/ \E f \in DbFiles : Execute(f)
    \/ \E m \in Source.manifests : Restore(m) \/ RestoreFail(m)
    \/ \E page \in pending : Upload(page)

Spec == Init /\ [][Next]_vars

-----------------------------------------------------------------------------
(* Properties.                                                             *)

IsTable(t) == /\ \A p \in DOMAIN t : p \in Nat /\ t[p] \in Files
              /\ t = [p \in DOMAIN t |-> t[p]]

IsManifest(m) == \A n \in 1..Len(m) : IsTable(m[n])

TypeOK ==
    /\ \A s \in {home, bucket} :
         s.pages \subseteq Files /\ \A m \in s.manifests : IsManifest(m)
    /\ IsManifest(homeLog) /\ IsManifest(head)
    /\ pc \in {"closed", "open", "stage", "flush"}
    /\ mode \in {"local", "tiered"}
    /\ file \in DbFiles
    /\ pending \subseteq Files
    /\ \A m \in staged \cup tokens \cup durable : IsManifest(m)

\* Every token that was handed out wakes, and every snapshot in its history can still
\* be restored, whatever died during the sleep and whatever was lost since: the
\* bucket holds the closure (Db::sleep, "a sleep that loses data is a bug").
TokenComplete == \A m \in tokens : Holds(bucket, Ancestry(m))

\* What ensure_durable vouched for is in the bucket with its whole history.
DurableInBucket == \A m \in durable : Holds(bucket, Ancestry(m))

\* A snapshot holds exactly what queries saw when it was taken, statements still in
\* DuckDB's own log included and nothing left of a longer file before it.
SnapshotIsWhatQueriesSaw ==
    [][Snapshot \/ SleepBegin => FileOf(head') = file]_vars

\* A live handle can read the whole history of its head: restores of earlier
\* snapshots and the walk of a sleep find every manifest and page, also on a woken
\* database whose commits are not uploaded yet, and after a flush has begun.
HistoryReadable == pc # "closed" => Holds(Source, Ancestry(head))

\* Where the database is open, its pool's store or a cache over the bucket.
Place == IF pc = "closed" THEN "closed" ELSE IF mode = "local" THEN "home" ELSE "woken"

\* The files that manifests, and those they were committed on, hydrate to.
FilesOf(m) == [n \in 1..Len(m) |-> Hydrated(m[n])]
Histories(M) == {FilesOf(m) : m \in M}

\* From the outside a database is its snapshots: cut into pages, put into overlays,
\* uploaded in the background, walked by a sleep and read back by a wake or a restore,
\* each is still the bytes queries saw, and neither a death nor the loss of the pool
\* takes away one in the history of a token or of what was made durable.
Promise ==
    INSTANCE DurableSnapshots WITH
        Contents <- DbFiles,
        at <- Place,
        head <- FilesOf(head),
        working <- file,
        saved <- FilesOf(homeLog),
        snapshots <- Histories(Stored),
        tokens <- Histories(tokens),
        vouched <- Histories(durable)

SnapshotsSpec == Promise!Spec
=============================================================================
