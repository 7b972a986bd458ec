# FlockDB in TLA+

Specifications of FlockDB, the TLC runs that check them on small instances, and
the TLAPS proofs of what holds for every instance. Paths below are relative to
the repository.

## 1. The system

FlockDB puts DuckDB on a content-addressed page store (substrate, a dependency).
A database is a *head*: the id of an immutable manifest, a hash over the whole
chain of commits under it. A fork is a second head over the same pages.

| Component | State | Operations | What is hard | What makes it correct |
| --- | --- | --- | --- | --- |
| **flock-core** `db.rs`, `store.rs`, `pool.rs`: a pool of databases | a directory and log for each name; pages and manifests shared by all; in each handle the head and DuckDB's scratch file | open, execute, snapshot, fork, restore, drop | every operation is several durable steps, and a crash or another handle can come between two; failures after a head has moved | isolation of databases, nothing a log names is missing, what returned is durable |
| **flock-core** `db.rs` sleep, wake, ensure_durable | staging store, bucket, upload queue, wake token | sleep, wake, ensure_durable | order of uploading and deleting; commits in no log | a sleeping database can be woken whole, with its history |
| **flock-kernel** `paging.rs`, `duck.rs` | the scratch file | hydrate, persist, fold of DuckDB's own log | a file that shrinks, holes, an empty database | file to pages to file is the identity |
| **flock-sync** `source.rs`, `replica.rs`; **flock-core** `replica.rs` | the primary's log and CHECKPOINT marker; the follower's durable head, in-memory position and the manifest its queries see | catch_up, restore_to, apply, refresh, open | the log is read while the primary writes; shipments are repeated, reordered, lost, altered; restarts | the follower equals the primary at some commit, moves forward, and arrives |
| **flock-vfs** `tiered.rs` | fault gates (striped mutexes), a prefetch's workers and cursor; the cache is substrate's | read_page, prefetch | threads that fault one page; errors and panics under a gate | each page is filled once, by one thread; everyone returns |
| **flock-vfs** `read.rs`, `ffi.rs`; DuckDB extension `flock_file_system.cpp`; spike `faultshim` | a handle's cursor | open, serve_read, pread, read, seek | boundaries of pages and file, pages and lengths that lie, width of integers | the right bytes, or an error |
| **flockd** `scheduler.rs` | a warm set for each database; what each recording source has seen | prewarm, observe, record | concurrent wakes learn from each other; a bounded set | a second wake faults nothing; the bound is honest |
| **flock-cli** `workspace.rs`, `cmd/` | HEAD, sleep records, branch directories | import, sql, branch, checkout, sleep, wake | several files changed without a transaction, by a process that can die between two | no death of a process loses a branch |
| Python bindings, result streams, choice of page source | handles | conversions | - | - |

How they interact: the CLI and the bindings call flock-core; flock-core hands the
kernel a `PageStore` whose `commit` is substrate's commit protocol; the kernel
hydrates its scratch file from the head when it opens and persists it at a
snapshot. flock-sync only reads the primary's log and pages, and drives the
follower's own store. flockd warms a `PageSource` through flock-vfs, and DuckDB's
extension reads through the same source. Nothing calls back upwards; what is
shared is the page store on disk, the log that a follower reads, the gates and
the warm sets.

The hazards of this code, each at its line and with the properties that would
catch it, are the list `hazards` of `PROJECT.json`; the seven with a note instead
of a property are explained in sections 4 and 7.

## 2. The modules

| Module | Models | |
| --- | --- | --- |
| `IsolatedDatabases` | what a pool promises | abstract specification |
| `FlockPool` | pool, local databases, kernel steps | implements `IsolatedDatabases` |
| `Paging` | `persist` and `hydrate` as functions | used by `Tiering` |
| `DurableSnapshots` | what a database that sleeps, wakes and dies promises | abstract specification |
| `Tiering` | one database between its pool and object storage | EXTENDS `Paging`, implements `DurableSnapshots` |
| `NamedBranches` | what the command line promises about branches | abstract specification |
| `CliBranches` | HEAD, sleep records, branch directories and stores, command by command | implements `NamedBranches` |
| `ReadReplica` | what a follower promises | abstract specification |
| `WalShipping` | primary's log, source, replica, read replica | implements `ReadReplica` |
| `FaultGates` | read_page and prefetch over the page cache | |
| `ServeRead` | serve_read with its three callers | |
| `WakeScheduler` | warm sets, recorders, prewarm and observe; takes from `FaultGates` what a prefetch leaves | |
| `FlockPoolProofs`, `PagingProofs`, `TieringProofs`, `CliBranchesProofs`, `WalShippingProofs`, `FaultGatesProofs`, `ServeReadProofs`, `WakeSchedulerProofs` | theorems about the module each is named after | |
| `MCFlockPool`, `MCFaultGates`, `MCTiering`, `MCCliBranches` | instances for TLC | |

Three modules look at a database from three distances. `FlockPool` takes a local
commit apart and lets a page be a content; `Tiering` makes a commit one step and
takes pages, uploads and the two stores apart; `CliBranches` makes an upload one
step too and takes the files around the databases apart. What one takes for a
step is what the one before shows to be one: `Tiering`'s `Snapshot` is
`IsolatedDatabases`' commit, and `CliBranches`' `SleepUpload` stands on
`TokenComplete`.

An operator whose comment begins with "Faulty variant" is what a mistake in the
code would look like. It is part of no specification; each is there because one
of the properties fails when it replaces the definition that follows it.

### FlockPool

`dirs`, `walHead`, `manifests` and `cas` are on disk; `pc`, `name`, `target`,
`head` and `scratch` belong to a handle (a `Db`) and vanish with a crash. A
manifest is the sequence of contents committed on the way to it, as its id hashes
that chain; the pages of a content are present or absent together.

An operation is split where a crash or another handle can tell the difference:

* `Flock::open_with`: `Open` (the directory, `pool.rs`) and `OpenRecover` (the log
  is replayed, its head installed, then the kernel hydrates).
* `Db::snapshot`: `SnapshotBegin`, `WritePages` (pages to the store) or
  `NothingToWrite` (an empty transaction), `AppendCommit` (the commit point),
  `Install`, `SnapshotReturn`, with `SnapshotFail` from before the commit point only
  (section 7 says what that takes for granted).
* `Db::fork`: `ForkBegin` (name check), the snapshot's steps, `ForkLink`
  (directory, empty log), `ForkCheckpoint`, `ForkReturn` or `ForkFail`.
* `Db::restore`: `RestoreRewind` (head in memory), `RestoreCheckpoint`,
  `RestoreRehydrate` or `RestoreFail`.
* `Execute`, `Close` (drop) and `Crash`.

Two constants describe the surroundings. `Exclusive` says that callers use a name
from one handle at a time; nothing in the code enforces it. `CheckpointsFail`
says whether the checkpoint of a restore may fail. Properties other than the
store's own hold when the first is TRUE and the second FALSE (`Sound`); section 4
says what happens otherwise.

`IsolatedDatabases` says what callers get: a committed snapshot and a working
content for each name, the snapshots that can be restored and the databases
somebody has open; forking copies the value, no other step touches two databases
or one nobody has open, and losing a process falls back to the last commit. The
refinement maps `committed` to `walHead`, `working` to what the live handle of a
name shows (or what opening the log would), `history` to the manifests installed
or in a log and `open` to the names of the live handles.

### WalShipping

`log` is the primary's records with the index as LSN, `marker` the CHECKPOINT
file. A transaction logs its page changes and then a commit; the set of LSNs of
the changes stands for them and the LSN of the commit for its timestamp, so a
manifest is the sequence of pairs of both and differs when base, changes or time
differ, as a hash would. `PrimaryRestore` is `Db::restore` on the primary: the
one thing that moves a head without a commit.

A poll is `resume_after` (`Begin`, then `SearchMarker` and `SearchLog` or
`FollowerUnknown`), then `shipments_from`, whose three reads are three steps
(`ReadMarkerLsn`, `ReadStartHead`, `ReadRecords`), then one `ApplyNext` a shipment
until `CatchUpReturn`, `RestoreReturn` or a refusal (`ApplyRefused`). `PollFail`
ends a poll at any of them. `Deliver` is a shipment carried by the caller, of any
commit ever made, in any order and any number of times; with `Altering` its
timestamp may differ, which stands for every alteration the page hashes do not
catch. `Replica::apply` has four outcomes, `AlreadyPresent`, `OutOfOrder`,
`Advance` and `Diverge`; its other errors change nothing. `TornReads` says whether
the primary may checkpoint between the three reads of one `shipments_from`.

`ReadReplica` knows no log: a primary that commits on its head or moves it back to
an earlier commit, and a follower that takes one commit at a time, each on the
one it was made on, and lets its queries catch up with it. The refinement maps
`committed` to the manifests of the log's commits and the follower's two
manifests to themselves.

### FaultGates

A thread is a reader or a prefetch's worker. `read_page` is `Request` (or `Claim`
for a worker), `Acquire`, then `Hit`, or `Miss`, `Fetch` and `Rename`; each way
out drops the gate (`Leave`). The tier can fail (`FetchFail`) and the pager panic
(`Panic`), which ends the thread and leaves the gate free, as poison is ignored.
The cache is external: fills go to a temporary file named by the content, as the
comment on `fault_gates` describes, and `RenameLost` is a rename that finds its
file gone. A content is filled behind one gate when all its pages share one
(`OneGate`), and the properties of safety are stated of those; the run has contents
of both sorts.

### WakeScheduler

A wake has its own source and cache: `Wake`, perhaps `Wrap` (a recorder),
`PrewarmCopy` under the lock and `PrewarmFetch` outside it, or `ServeCold`; then
`ReadBegin` and `ReadEnd` by any number of threads, `TakeTrace` while they read,
`Observe`, `Sleep`. `learned`, `promised` and `faulted` are history variables.

### Paging and Tiering

`Paging` has a file as a sequence of bytes and a manifest's pages as a function
from page numbers. `Written` and `Removed` are what `persist` puts and removes,
`Persisted` what its commit leaves, `WellLaid` the layout `hydrate` insists on and
`Hydrated` the file it writes.

In `Tiering`, `home` and `bucket` are stores (pages and manifests), `homeLog` the
head a local open recovers. A handle has its `mode` (local or tiered), `head` and
`file` (what queries see), and in `pending` and `staged` what a tiered store has not
uploaded. `Checkpoint` is `Db::checkpoint`: fold, persist,
commit. `Snapshot` is that alone; `Upload` is the background uploader or a flush,
page by page; `EnsureDurable`, `SleepBegin`, `Stage` and `SleepReturn` follow
`ensure_durable` and `sleep`. `Rewind` is the first half of `Db::restore`, which
moves the head and records it when local; then the kernel is rebuilt over it
(`Restore`), or cannot be (`RestoreFail`), which leaves the old file over the moved
head for the next snapshot to commit. `Stop` drops or kills a handle at any point,
`LoseHome` loses the machine. `tokens` and `durable` remember what callers have
been told.

`DurableSnapshots` has neither pages nor stores: a head is the sequence of the
file contents snapshotted on the way to it, and a database shows the last of them
until somebody works on it. A restore that fails moves the head and leaves what it
shows. Sleeping, dying and losing the pool may take snapshots
away, but none in the history of a token, of an acknowledgement, of what an open
at home comes back to or of a live head. The refinement hydrates every table
(`FilesOf`): `saved` is `homeLog`, `snapshots` all manifests stored anywhere
(`Stored`), `vouched` is `durable`.

### CliBranches

The files are `headFile`, `dirs`, `log` (what opening a branch recovers),
`record` (the sleep record) and the stores `local`, `cold` and `cut`; `proc` is
the running command. A command is a sequence of steps, one for each write another
command could later meet: checkout is `Checkout`, `SetHead`, `WriteHead`; import is
`ImportOpen`, `ImportCommit` and those two; branch is `ForkBegin`, `ForkLink`,
`ForkRecord` and those two; sleep is `SleepUpload`, `RecordCreate`, `RecordWrite`,
`RemoveSome` any number of times, `RemoveDir`; wake is `WakeFetch`, `WakeCopy`,
`WakeAdopt`, `WakeOpen`, `WakeRestore`, `WakeForget`. `Stop` is an error or a death
between any two of them. A file that is written in place is `Torn` in between.
`Reclaim` is the user's garbage collection, as the tests do it after a sleep. A
death is the process's: what was written is there afterwards. A fork may take the
name of a sleeping branch, as in the code.

Being asleep is decided by the record's being there, readable or not, as in
`is_asleep`. `NothingIsDropped` has a case for each: what a readable record names is
in the tier, a branch without one opens from the pool, and one behind a torn record,
which no command reaches, is whole on both sides.

`NamedBranches` says what a user gets: names with values that only commits and
forks change, and names that are asleep and take no command but a wake. The
refinement maps the value of a branch to its readable sleep record or, without
one, to what its directory recovers.

### ServeRead

`Fault` is one turn of `serve_read`'s loop, `Return` its end and what each caller
does then: the positional Read calls again until it has everything, the
sequential one moves the cursor. A byte is its position in the file or `Junk`, so
that a byte of the wrong place is told from the right one. A page comes as it is,
not at all, with bytes too many or too few, as the fuzz target of the repository
makes them; within one call a page that is asked for twice answers alike, as it
does there. Offsets are u64 and i64 cut to `MaxU64` and `MaxI64`, with the casts
of the C ABI (`Signed`). Behind the faultshim pages were verified when they were
fetched, so only a failure remains.

## 3. The runs

| Run | Shows | Bounds |
| --- | --- | --- |
| `pool` | `TypeOK`, `NothingDangles`, `RestIsDurable`, `AncestryInstalled`, `NeverAdopts`, refinement of `IsolatedDatabases` | 2 handles, 3 names, 2 contents, chains of 2 commits |
| `tiering` | `TypeOK`, `TokenComplete`, `DurableInBucket`, `HistoryReadable`, `SnapshotIsWhatQueriesSaw`, refinement of `DurableSnapshots` | 3 files of 1, 3 and 4 bytes, pages of 2 bytes, 3 manifests anywhere, 2 tokens or acknowledgements |
| `cli` | `TypeOK`, `NothingIsDropped`, `HeadNamesABranch`, refinement of `NamedBranches` | 3 branches, 1 table, chains of 2 commits |
| `cli_cut_copy` | **violated**: `AdoptedIsWhole` when a copy stops half-way | same |
| `cli_fork_asleep` | **violated**: `ForkArrives` when a fork takes a sleeping branch's name | same |
| `shipping` | `TypeOK`, `FollowsPrimary`, `AppliedIsHead`, `MonotoneView`, `RestoreIsExact`, refinement of `ReadReplica` | a log of 7 records, with and without inline checkpoint records |
| `shipping_live` | `Converges`, torn reads and alterations included | a log of 5 |
| `shipping_torn` | **violated**: `FollowsPrimary` under torn reads | a log of 6 |
| `gates` | `TypeOK`, `RenameFindsItsFile`, `FetchedOnce`, `PrefetchWarms`, `ReadsReturn`, `PrefetchReturns` | 1 reader of 2 reads, 2 prefetches of up to 4 pages by 2 workers, 2 gates, a failure, a panic; one pair of equal pages behind one gate, one behind two |
| `gates_alike` | **violated**: `NoLostRename` when equal pages have different gates | 2 readers of 1 read |
| `serve_read` | `TypeOK`, `InBounds`, `RightBytes`, `ReadIsExact`, `CursorFollowsTheBytes`, `ReadsReturn` | 5 bytes in pages of 2, claimed lengths 3, 5, 7 and 8, requests of up to 5 bytes at every offset of 4 bits |
| `scheduler` | `TypeOK`, `SaturationIsHonest`, `SecondWakeIsWarm`, `TraceMissesNothing` | 2 wakes of 1 database, 2 pages, room for 1 |

Why these bounds are enough. *Pool*: an interference needs two handles and a
fork's name; the third name lets a fork and its parent both exist while another is
made; a chain of two has a head, a parent and the root, so restores go back and
sideways; two contents tell a change from none. *Tiering*: a short page, a short
last page and an exact multiple let a file grow, shrink to and past a boundary,
and share pages; three manifests are a head with a parent and one commit after a
wake or a restore; two tokens or acknowledgements are a sleep after a sleep, or
either of sleep and `ensure_durable` on top of the other. *Cli*: a fork, its parent and a bystander (awake or asleep); a chain of two tells
a head from its ancestry. *Shipping*: seven records hold three transactions, or
two around a checkpoint record, so a commit can be below, between and above
checkpoints and a follower behind, at or past each; the torn read needs six.
*Gates*: two threads on a page, a third that works beside them, fewer gates than
pages so that different pages share one, more pages than workers, and equal pages on
both sides of what the gates separate. *ServeRead*: a
request crosses two page boundaries and ends on, before and after the file's end
and a boundary; claimed lengths are short, right, long, and one past `MaxI64`;
offsets reach the sign bit and the largest value. *Scheduler*: two wakes are
needed to learn behind each other's back, two pages for one place make the bound
bite, and one database is enough because databases share nothing but the lock.
Every bound is in a guard (`MaxHistory`, `MaxManifests`, `MaxVouched`, `MaxLog`,
`MaxReads`, `MaxPrefetches`, `MaxFailures`, `MaxPanics`) or the range of a request
(`MaxRead`), never a constraint that cuts behaviours after the fact; handles are
symmetric in `pool` and the branches other than the first in `cli`, and nothing is
symmetric in a run with liveness.

Deadlock is not checked in the `gates` runs, where bounded readers run out of
reads; in the others some step is always possible.

## 4. Disagreements with the repository's own words

Four are the subject of a run that is expected to fail:

1. `shipments_from` reads marker, marker and log; a checkpoint between them makes
   it ship commits on the wrong base, and a fresh follower arrives where the primary
   never was (`shipping_torn`). Nothing in the crate says the primary has to be
   quiet while its log is read.
2. Gates are by page number, temporary files by content: equal pages behind
   different gates lose a rename (`gates_alike`). All-zero pages would do.
3. `copy_tree` copies in place and skips what exists, by construction right
   (`tier.rs` 222-223). A copy cut off by a death or a full disk leaves a short file
   under a content's name; the next wake skips it (`cli_cut_copy`). Its reads then
   fail, and so does every later wake of that branch, until the file is deleted.
4. A name whose branch sleeps can be forked to, because only a directory makes a
   name taken, while `branch.rs` 19-21 says a taken name is refused. The fork is then
   behind the sleep record: no command but `wake` accepts it, and that restores the
   sleeper over it (`cli_fork_asleep`). No commit of the sleeper is lost:
   `NamedBranchesSpec` and `NothingIsDropped` hold, with such forks in their run.

Others show in the models when a constant is set the other way, or a property is
replaced by what the documentation says:

5. `fork` checks its name and links it later (`db.rs` 368 and 382). Used from two
   handles (`Exclusive` FALSE), it can take over a database that has just been
   filled, which its comment calls the dangerous option: `NeverAdopts` fails. With
   one handle a name, as in the run, it shows the check of the name and no more.
6. A failed checkpoint of `restore` (`CheckpointsFail` TRUE) leaves the head moved
   in memory; a snapshot with nothing to write then returns a head the log does not
   have: `SnapshotIsDurable` fails. It takes a scratch file equal to the restored
   content, so it is narrow.
7. `apply` compares manifests after its commit, so on `Diverged` the follower has
   advanced, against the text of the error (`Altering` TRUE,
   `DivergedDoesNotAdvance` fails). It then refuses every later shipment.
8. `restore_to` returns Ok when the follower is past its target, against its
   documentation (`RestoreReachesTarget` fails).

Met while modelling:

9. The sleep record is written in place. Torn, it makes a branch whose directory is
   whole unusable: it counts as asleep, and cannot be woken. When only the process
   died nothing is lost (`NothingIsDropped`), and the way out is to delete the record
   by hand. The record is not synced either (`workspace.rs` 193), so a machine that
   goes down may keep the removal of the directory and lose the record: the pages are
   in the tier, and what names them is gone. No model has that.
10. A first import that dies between its snapshot and writing HEAD leaves a pool
    with data that every other command takes for no pool; repeating the import fails
    because the table exists, and does not write HEAD. An import of another
    table does. `NamedBranches` and `HeadNamesABranch` allow it: nothing the tool says
    relates a pool's data to its HEAD.
11. `store.rs` 38-40 and 206-209 say that a woken database's snapshot pushes to
    object storage, or waits for it, before it returns; `db.rs` 302-308 and the code
    say it does not. `Tiering` follows the code, and `DurableInBucket` is a promise
    of `ensure_durable` only.
12. The documentation of `start_head` (`source.rs` 61-65) is not true of a primary
    that is itself a fork or was restored, where a fresh follower gets
    `FollowerUnknown`.
13. `paging.rs` 158-162 says flock-core writes the head record after `persist`
    returns, but the commit inside `persist` is that record.
14. The Python bindings let go of the interpreter lock around a query so that other
    threads go on, but `name` and `__repr__` wait for the handle's mutex with that
    lock held: one of them, during a query on the same handle, stops every Python
    thread until the query ends. It is no deadlock, as the mutex is let go of before
    the interpreter lock is taken again.

## 5. Fairness

Safety runs assume none. `Converges` assumes that a poll once begun goes on
(`WF` of `PollStep`), that the caller keeps catching up (`SF` of `BeginCatchUp`;
polling is what `catch_up` is documented for), and that reads and commits of a
catch-up, which may fail any number of times, do not fail for ever at the same
point (`SF` of each). Its conclusion leaves out a follower that is stranded,
whose head is in the log no more, because a checkpoint removed it or because it
diverged: the crate says the first has to be re-seeded, and the second refuses all
that comes. The primary is only assumed quiet where the property says so. In
`FaultGates` threads run (`WF` of `ReadStep` and `Claim` for each, and of
`PrefetchReturn`): scheduling by the operating system and blocking calls that
return or fail. A thread that waits for a gate needs no strong fairness because
reads are bounded; for an unbounded stream of readers the fairness of
`std::sync::Mutex` would have to be assumed, which its documentation does not
promise. Nothing obliges a reader to read or a thread to panic. In `ServeRead` a
call that is being served goes on (`WF` of `Serving`): a page source answers, with
a page or an error. Nothing obliges anyone to call. That the loop ends is then the
code's doing: a page is refused unless it brings the loop forward.

## 6. What is proved

For every set of handles, names, contents, branches, tables, threads, pages and
files, every page size and every bound:

| Theorem | Assuming | Argument |
| --- | --- | --- |
| `PoolTypeOK` | - | inductive as it stands |
| `PoolStoreInv`, hence `PoolNothingDangles`, `PoolAncestryInstalled` | - | `StoreInv` adds that heads are installed, that the parent of what a log names is, and that pages of a commit in progress are in the store: without it the record or the installation could name something new |
| `PoolSoundInv`, hence `PoolRestIsDurable` | `Sound` | `NamesInv`: uses of names are disjoint. `LogInv`: at each program counter, what the log of the handle's name holds. Neither is inductive without the other: a log is only stable because nobody else uses the name |
| `PoolImplementsIsolatedDatabases` | `Sound` | from both: each step is a step of `IsolatedDatabases` or changes nothing it shows; the commit record is where a snapshot happens, the checkpoint where a fork or restore does |
| `PagingRoundTrip`, `NothingToPersist` | - | persisting leaves exactly the file's pages whatever was there (`PersistedIsTheFile`); they lie well and end where the file does (`PagesLieWell`); byte i is byte i mod page size of page i div page size (`ChunkHolds`, `FewerPages`) |
| `TieringInvariant`, hence `TieringTokenComplete`, `TieringDurableInBucket`, `TieringHistoryReadable`, `TieringTypeOK` | - | `Complete`: every manifest of a store has its history in that store, which holds of the pool, of the bucket with what waits for it, and of the bucket alone because manifests go up after all pages; `CheckpointHolds` and `AncestryArrives` say what keeps a store complete |
| `TieringSnapshotIsWhatQueriesSaw` | - | stored tables are ones that hydrate to a file (`ChainsType`), then `PagingRoundTrip` |
| `TieringImplementsSnapshots` | - | hydrating commutes with committing (`FilesOfAppend`, `CheckpointAddsTheFile`) and with going back (`HistoryOfFiles`); from the invariant, what a token, an acknowledgement, the pool's log or a live head needs is in what each step leaves (`AncestriesStored`, `AncestriesKept`). An upload shows nothing, the walk of a sleep may only forget, a failed restore leaves what is shown |
| `BranchesInvariant`, hence `BranchesTypeOK`, `BranchesAreNotDropped`, `BranchesHeadIsNamed` | - | `SoundBranch` (what a sleeping branch needs is in the tier, what an awake one needs in the pool; a torn record has a directory) with what each command knows of its branch while it runs (`SleepHas`, `WakeHas`, ...): a removal is safe because the record was written, and that because the upload came before |
| `BranchesKeepTheirPromise` | - | from it: creating the record is where a branch falls asleep, deleting it where it wakes, and all other steps of both change nothing `NamedBranches` shows |
| `ShippingInvariant`, hence `ShippingFollowsPrimary`, `ShippingAppliedIsHead` | no torn reads, no alteration | `LogShape`, `FoldAgrees` (folding from the marker reproduces each commit above it and ends at the primary's head) and `PollAgrees` (what a poll has read belongs to one checkpoint, what it has queued replays to what it claims) |
| `ShippingViewInvariant`, hence `ShippingTypeOK`, `ShippingMonotoneView` | - | what the queries see is in the history of the head (`Behind`), because `apply` only ever adds one commit to the head: torn polls and altered shipments take the follower to the wrong place, but never back |
| `ShippingRestoreInvariant`, hence `ShippingRestoreIsExact` | no torn reads, no alteration | `TargetSettled` (no commit is added within the target while a restore runs), `ResumesAtHead` (a poll begins where the follower is, or at the start) and `RestorePlaced` (the follower is at a position of the log with all queued shipments above it, and every commit from there to the target queued) |
| `ShippingImplementsReadReplica` | no torn reads, no alteration | from `ShippingInvariant`: a shipment that is applied is a commit of the primary whose parent is the follower's head; all other steps of polls, and lost or repeated shipments, change nothing `ReadReplica` shows |
| `GatesInvariant`, hence `GatesRenamesFindTheirFiles`, `GatesFetchedOnce` | - | `GatesExclude` (a gate is locked exactly by the thread under it), `FillIsAlone` (what a lookup found still holds, for a content behind one gate), `FetchedIsPlaced` (counts) |
| `GatesTypeOK` | - | inductive as it stands |
| `GatesPrefetchInvariant`, hence `GatesPrefetchWarms` | - | `ClaimedIsSettled` (a claimed page is in the cache, was given up, or is being read by a worker) and `FirstWorkerGoesOn` (the first worker is there to claim the rest, unless it panicked) |
| `ServeReadInvariant`, hence `ServeReadTypeOK`, `ServeReadInBounds`, `ServeReadRightBytes`, `ServeReadIsExact`, `ServeReadCursorFollows` | - | `Calling` (the loop stands where the bytes of the call so far end, and wants what is left) and `Asked`; one turn adds the next bytes of the file, or bytes past its end (`FaultBytes`), and refuses no page that is what it should be (`NormalServes`) |
| `SchedulerInvariant`, hence `SchedulerSecondWakeIsWarm`, `SchedulerNothingForgotten` | - | `WarmIsLearned` (an unsaturated set has all that was learned) and `PromiseHeld` (a promised page is in the plan and then in the cache) |
| `SchedulerTraceMissesNothing` | - | `RecordedFirst`: a recorder notes a page before it reads it, so a trace taken in the middle of a read has it |
| `SchedulerSetsFill`, hence `SchedulerTypeOK`, `SchedulerSaturationIsHonest` | - | learning fills a set from the smallest page up to its cap, so one that left a page out is full (`SmallestFills`; every set of pages has a first, `FirstPage`) |

The assumptions are those section 4 shows to be necessary: dropping one makes the
property false. The named `ASSUME`s on constants say that bounds are naturals, that
a page size is not 0, that the blank content is a content, and the like.

Only model-checked: liveness (`Converges`, `ReadsReturn` of both modules,
`PrefetchReturns`). Liveness under fairness and `ENABLED` are out of the prover's
reach, and so would be what a recursive definition computes on every input.
`NeverAdopts` is only model-checked too: under `Sound` it is the check of a name, and
without it false (section 4). `NothingForgotten` is only proved, and in no run.

## 7. Assumed, not modelled, planned

Taken from substrate, whose code is not here: recovery drops the uncommitted tail
of a log; the CHECKPOINT marker is replaced atomically and holds the LSN of the
last record it covers; segments that are deleted hold only such records; a
checkpoint may or may not leave a record in the log; no two commits are equal
in base, changes and time; the page cache verifies what it fetches; a tiered store
uploads the pages it saw being put, reads through to the bucket, and uploads
manifests when asked and not before; a file put into a store replaces whatever was
there of it. A commit that returns an error has left no record in the log:
`store.rs` 194-198 passes the error on, so one that failed after its record, while
installing, would leave an open handle behind its own log, and `RestIsDurable` would
not hold of it.

A checkpoint that fails inside a restore is `FlockPool`'s `CheckpointsFail` and is
left out of `Tiering`, where a restore fails only in rebuilding its kernel.

In `CliBranches` processes die and the machine does not, so that files survive
in the order they were written (section 4, 9). It runs one command at a time, as
`main.rs` 30-32 says the tool is for: a second process that commits to a branch
between sleep's snapshot and its `remove_dir_all` would lose that commit. The
garbage collection of a pool is substrate's and no command calls it; `Reclaim`
has the use the tests make of it, and a follower's pages are never collected in
`WalShipping`. In `ServeRead` a page answers alike for the whole of one call.

Not modelled: export and query, which change no durable state; result streams,
which are a materialised value; the choice of a page source by build and
environment; the Python bindings, which put one mutex around a `Db`; the counters
of hits and misses; tests, benches, spikes other than the faultshim, and scripts.

Planned: two processes at one pool for the case the tool leaves out, and what the
abstract specifications imply by themselves.
