---------------------------- MODULE WalShipping ----------------------------
(***************************************************************************)
(* Log shipping (crates/flock-sync, and flock-core's ReadReplica on top):  *)
(* a primary's log, the WalSource that reads it while the primary is       *)
(* running, and one follower that polls it or is handed shipments.         *)
(*                                                                         *)
(* The position of a record in `log' is its LSN.  A transaction logs one   *)
(* "write" record and then a "commit"; the LSN of the write stands for the *)
(* page changes, that of the commit for its timestamp.  A manifest is the  *)
(* chain of commits under it, each a pair of the two, so applying other    *)
(* writes, at another time or to another base gives another manifest.      *)
(*                                                                         *)
(* A poll reads the CHECKPOINT marker and the log in several separate      *)
(* steps.  Records a checkpoint made superfluous are kept: segments that   *)
(* are deleted hold only records no consistent read of the marker uses.    *)
(***************************************************************************)
EXTENDS Naturals, Sequences

CONSTANTS
    MaxLog,             \* bound: the longest log
    CheckpointRecords,  \* whether a checkpoint also leaves a record in the log:
                        \* a set of possible answers, the code allows both
    TornReads,          \* whether the primary may checkpoint between the reads
                        \* of one WalSource::shipments_from
    Altering            \* whether a shipment may be altered on its way

ASSUME ShippingAssumption ==
    /\ MaxLog \in Nat
    /\ CheckpointRecords \subseteq BOOLEAN
    /\ TornReads \in BOOLEAN
    /\ Altering \in BOOLEAN

VARIABLES
    \* the primary, durable
    log,      \* its records, in LSN order
    marker,   \* what the CHECKPOINT file holds; LSN 0 is the absent file
    pHead,    \* the primary's head
    \* the follower
    head,     \* its durable head, from which it recovers
    applied,  \* Replica::applied_lsn, in memory; 0 is None
    visible,  \* the manifest the SQL engine was hydrated from
    \* a poll in progress
    pc,
    bound,    \* restore_to's target, or Unbounded for catch_up
    from,     \* what resume_after answered
    cp,       \* the checkpoint's LSN, as this poll read it
    base,     \* the checkpoint's manifest, as this poll read it
    queue     \* shipments still to apply

primary == <<log, marker, pHead>>
replica == <<head, applied, visible>>
poll == <<pc, bound, from, cp, base, queue>>
vars == <<primary, replica, poll>>

-----------------------------------------------------------------------------
(* Records, manifests and shipments.                                       *)

LSN == 1 .. MaxLog
Unbounded == MaxLog + 1

Commit(w, at) == [writes |-> w, at |-> at]
Manifests == Seq([writes : SUBSET LSN, at : 0 .. MaxLog])

WriteRecord == [kind |-> "write", manifest |-> <<>>]
CommitRecord(m) == [kind |-> "commit", manifest |-> m]
CheckpointRecord(m) == [kind |-> "checkpoint", manifest |-> m]
Records == [kind : {"write", "commit", "checkpoint"}, manifest : Manifests]

Shipments == [base : Manifests, manifest : Manifests, lsn : LSN,
              writes : SUBSET LSN, at : 0 .. MaxLog]

Commits == {i \in 1 .. Len(log) : log[i].kind = "commit"}

\* Everything the primary has ever been at.
Committed == {<<>>} \cup {log[i].manifest : i \in Commits}

\* Commits above l, and the last of a set of LSNs.
CommitsAbove(l) == {i \in Commits : i > l}
Latest(S) == CHOOSE i \in S : \A j \in S : j <= i
Earliest(S) == CHOOSE s \in S : \A r \in S : s.lsn <= r.lsn

\* The folding of the log: records up to LSN l are skipped, b is the manifest
\* under the first commit after them, and a commit takes the writes since the
\* last commit or checkpoint record.
Marks(l, i) == {j \in l + 1 .. i - 1 : log[j].kind # "write"}

BaseOf(l, b, i) ==
    IF Marks(l, i) = {} THEN b ELSE log[Latest(Marks(l, i))].manifest

PendingAt(l, i) == {j \in l + 1 .. i - 1 : \A k \in j .. i - 1 : log[k].kind = "write"}

ShipmentAt(l, b, i) ==
    [base |-> BaseOf(l, b, i), manifest |-> log[i].manifest, lsn |-> i,
     writes |-> PendingAt(l, i), at |-> i]

\* Faulty variant: records the checkpoint already covers are folded again.
ShipmentsFoldingAll(l, b, f) == {ShipmentAt(0, b, i) : i \in {j \in Commits : j >= f}}

ShipmentsFrom(l, b, f) == {ShipmentAt(l, b, i) : i \in {j \in CommitsAbove(l) : j >= f}}

-----------------------------------------------------------------------------
Init ==
    /\ log = <<>>
    /\ marker = [manifest |-> <<>>, lsn |-> 0]
    /\ pHead = <<>>
    /\ head = <<>>
    /\ applied = 0
    /\ visible = <<>>
    /\ pc = "idle"
    /\ bound = 0
    /\ from = 0
    /\ cp = 0
    /\ base = <<>>
    /\ queue = {}

-----------------------------------------------------------------------------
(* The primary (external: substrate's log, driven by snapshot and restore). *)

InTransaction == log # <<>> /\ log[Len(log)].kind = "write"

LogWrite ==
    /\ ~InTransaction
    /\ Len(log) + 2 <= MaxLog
    /\ log' = Append(log, WriteRecord)
    /\ UNCHANGED <<marker, pHead, replica, poll>>

LogCommit ==
    LET m == Append(pHead, Commit({Len(log)}, Len(log) + 1))
    IN  /\ InTransaction
        /\ log' = Append(log, CommitRecord(m))
        /\ pHead' = m
        /\ UNCHANGED <<marker, replica, poll>>

\* The primary dies in the middle of a transaction and recovery drops its tail.
PrimaryCrash ==
    /\ InTransaction
    /\ log' = SubSeq(log, 1, Len(log) - 1)
    /\ UNCHANGED <<marker, pHead, replica, poll>>

\* Faulty variant: a marker with the LSN the next record will get.
PrimaryRestoreAhead(m, recorded) ==
    /\ ~InTransaction
    /\ m \in Committed
    /\ TornReads \/ pc \notin {"base", "log"}
    /\ recorded => Len(log) < MaxLog
    /\ log' = IF recorded THEN Append(log, CheckpointRecord(m)) ELSE log
    /\ marker' = [manifest |-> m, lsn |-> Len(log) + 1]
    /\ pHead' = m
    /\ UNCHANGED <<replica, poll>>

\* Db::restore: the head is rewound and a checkpoint makes that durable.
PrimaryRestore(m, recorded) ==
    /\ ~InTransaction
    /\ m \in Committed
    /\ TornReads \/ pc \notin {"base", "log"}
    /\ recorded => Len(log) < MaxLog
    /\ log' = IF recorded THEN Append(log, CheckpointRecord(m)) ELSE log
    /\ marker' = [manifest |-> m, lsn |-> Len(log')]
    /\ pHead' = m
    /\ UNCHANGED <<replica, poll>>

-----------------------------------------------------------------------------
(* WalSource, as catch_up and restore_to use it.                           *)

Goto(l) == pc' = l

\* Faulty variant: resume_after looks for the head in the log only.
BeginSearching(target) ==
    /\ pc = "idle"
    /\ bound' = target
    /\ Goto("search")
    /\ UNCHANGED <<primary, replica, from, cp, base, queue>>

\* resume_after begins with start_head: a follower there streams from 0.
Begin(target) ==
    /\ pc = "idle"
    /\ bound' = target
    /\ IF head = marker.manifest
       THEN from' = 0 /\ Goto("mark")
       ELSE from' = from /\ Goto("search")
    /\ UNCHANGED <<primary, replica, cp, base, queue>>

BeginCatchUp == Begin(Unbounded)

BeginRestore(target) == Begin(target)

\* Otherwise it is looked for in the log, from the checkpoint read now.
SearchMarker ==
    /\ pc = "search"
    /\ cp' = marker.lsn
    /\ Goto("find")
    /\ UNCHANGED <<primary, replica, bound, from, base, queue>>

Found == {i \in CommitsAbove(cp) : log[i].manifest = head}

SearchLog ==
    /\ pc = "find"
    /\ \E i \in Found : from' = i + 1
    /\ Goto("mark")
    /\ UNCHANGED <<primary, replica, bound, cp, base, queue>>

Idle == pc' = "idle" /\ bound' = 0 /\ from' = 0 /\ cp' = 0 /\ base' = <<>> /\ queue' = {}

\* Faulty variant: a follower nobody knows starts again from the checkpoint.
ReseedInPlace ==
    /\ pc = "find"
    /\ Found = {}
    /\ head' = marker.manifest
    /\ visible' = marker.manifest
    /\ Idle
    /\ UNCHANGED <<primary, applied>>

\* SyncError::FollowerUnknown.
FollowerUnknown ==
    /\ pc = "find"
    /\ Found = {}
    /\ Idle
    /\ UNCHANGED <<primary, replica>>

\* shipments_from reads the marker for its LSN, again for its manifest, and
\* then the records.
ReadMarkerLsn ==
    /\ pc = "mark"
    /\ cp' = marker.lsn
    /\ Goto("base")
    /\ UNCHANGED <<primary, replica, bound, from, base, queue>>

ReadStartHead ==
    /\ pc = "base"
    /\ base' = marker.manifest
    /\ Goto("log")
    /\ UNCHANGED <<primary, replica, bound, from, cp, queue>>

ReadRecords ==
    /\ pc = "log"
    /\ queue' = ShipmentsFrom(cp, base, from)
    /\ Goto("apply")
    /\ UNCHANGED <<primary, replica, bound, from, cp, base>>

\* Any of these reads, or a commit of the follower's, can fail.
PollFail ==
    /\ pc # "idle"
    /\ Idle
    /\ UNCHANGED <<primary, replica>>

-----------------------------------------------------------------------------
(* Replica::apply.                                                         *)

\* What the follower's own commit would produce: substrate does not look at
\* the manifest the shipment claims.
Derived(s) == Append(head, Commit(s.writes, s.at))

\* A duplicate changes nothing but the in-memory position.
AlreadyPresent(s) ==
    /\ head = s.manifest
    /\ applied' = IF s.lsn > applied THEN s.lsn ELSE applied
    /\ UNCHANGED <<head, visible>>

\* Faulty variant: the position moves although the commit was refused.
OutOfOrderCounted(s) ==
    /\ head \notin {s.base, s.manifest}
    /\ applied' = s.lsn
    /\ UNCHANGED <<head, visible>>

\* SyncError::OutOfOrder: a gap, or another primary's log.
OutOfOrder(s) ==
    /\ head \notin {s.base, s.manifest}
    /\ UNCHANGED replica

\* Faulty variant: what a shipment claims is installed, whatever it is based on.
AdvanceClaimed(s) ==
    /\ head # s.manifest
    /\ head' = s.manifest
    /\ applied' = s.lsn
    /\ UNCHANGED visible

Advance(s) ==
    /\ head = s.base
    /\ Derived(s) = s.manifest
    /\ head' = Derived(s)
    /\ applied' = s.lsn
    /\ UNCHANGED visible

\* SyncError::Diverged: the manifests are compared when the commit has happened.
Diverge(s) ==
    /\ head = s.base
    /\ head # s.manifest
    /\ Derived(s) # s.manifest
    /\ head' = Derived(s)
    /\ UNCHANGED <<applied, visible>>

-----------------------------------------------------------------------------
(* The follower.                                                           *)

\* Faulty variant: restore_to stops before its target, not after it.
DueBefore(s) == queue # {} /\ s = Earliest(queue) /\ s.lsn < bound

\* The next shipment of a poll is within the target.
Due(s) == queue # {} /\ s = Earliest(queue) /\ s.lsn <= bound

ApplyNext ==
    /\ pc = "apply"
    /\ \E s \in queue :
         /\ Due(s)
         /\ AlreadyPresent(s) \/ Advance(s)
         /\ queue' = queue \ {s}
    /\ UNCHANGED <<primary, pc, bound, from, cp, base>>

ApplyRefused ==
    /\ pc = "apply"
    /\ \E s \in queue : Due(s) /\ (OutOfOrder(s) \/ Diverge(s))
    /\ Idle
    /\ UNCHANGED primary

Exhausted == pc = "apply" /\ \A s \in queue : ~Due(s)

CatchUpReturn ==
    /\ Exhausted
    /\ bound = Unbounded
    /\ Idle
    /\ UNCHANGED <<primary, replica>>

\* ReadReplica::restore_to shows what it restored.
RestoreReturn ==
    /\ Exhausted
    /\ bound # Unbounded
    /\ visible' = head
    /\ Idle
    /\ UNCHANGED <<primary, head, applied>>

\* A shipment the caller carried here, of whatever commit, however often and
\* in whatever order.
Deliver(s) ==
    /\ pc = "idle"
    /\ AlreadyPresent(s) \/ Advance(s) \/ OutOfOrder(s) \/ Diverge(s)
    /\ UNCHANGED <<primary, poll>>

\* What a source shipped of commit i when it was in the log.
Shipped(i) ==
    LET m == log[i].manifest
    IN  [base |-> SubSeq(m, 1, Len(m) - 1), manifest |-> m, lsn |-> i,
         writes |-> m[Len(m)].writes, at |-> m[Len(m)].at]

\* The same, with its timestamp altered in transit.
Altered(i) == [Shipped(i) EXCEPT !.at = 0]

DeliverShipped == \E i \in Commits : Deliver(Shipped(i))

DeliverAltered == Altering /\ \E i \in Commits : Deliver(Altered(i))

\* ReadReplica::refresh; a replica that opens hydrates from its head too.
Refresh ==
    /\ pc = "idle"
    /\ visible' = head
    /\ UNCHANGED <<primary, head, applied, poll>>

\* The follower stops, whatever it was doing, and recovers its head.
Reopen ==
    /\ visible' = head
    /\ applied' = 0
    /\ Idle
    /\ UNCHANGED <<primary, head>>

-----------------------------------------------------------------------------
PrimaryStep ==
    \/ LogWrite \/ LogCommit \/ PrimaryCrash
    \/ \E m \in Committed, recorded \in CheckpointRecords : PrimaryRestore(m, recorded)

PollStep ==
    \/ SearchMarker \/ SearchLog \/ FollowerUnknown
    \/ ReadMarkerLsn \/ ReadStartHead \/ ReadRecords
    \/ ApplyNext \/ ApplyRefused \/ CatchUpReturn \/ RestoreReturn

FollowerStep ==
    \/ BeginCatchUp \/ PollStep
    \/ \E t \in 1 .. Len(log) : BeginRestore(t)
    \/ DeliverShipped \/ DeliverAltered \/ Refresh

Failure == PollFail \/ Reopen

Next == PrimaryStep \/ FollowerStep \/ Failure

Spec == Init /\ [][Next]_vars

CatchUp(A) == bound = Unbounded /\ A

\* A poll once begun goes on, and the follower keeps catching up.  Reads and
\* commits may fail for ever, but not always at the same point: a step that
\* catch_up comes to again and again succeeds.
FairSpec ==
    /\ Spec
    /\ WF_vars(PollStep)
    /\ SF_vars(BeginCatchUp)
    /\ SF_vars(CatchUp(SearchMarker))
    /\ SF_vars(CatchUp(SearchLog))
    /\ SF_vars(CatchUp(ReadMarkerLsn))
    /\ SF_vars(CatchUp(ReadStartHead))
    /\ SF_vars(CatchUp(ReadRecords))
    /\ SF_vars(CatchUp(ApplyNext))

-----------------------------------------------------------------------------
(* Properties.                                                             *)

TypeOK ==
    /\ log \in Seq(Records) /\ Len(log) <= MaxLog
    /\ marker \in [manifest : Manifests, lsn : 0 .. Len(log)]
    /\ {pHead, head, visible, base} \subseteq Manifests
    /\ applied \in 0 .. MaxLog
    /\ pc \in {"idle", "search", "find", "mark", "base", "log", "apply"}
    /\ bound \in 0 .. Unbounded
    /\ from \in 0 .. Unbounded
    /\ cp \in 0 .. MaxLog
    /\ queue \subseteq Shipments

\* The follower is, and shows, a state the primary committed: the same manifest,
\* so the same bytes, whatever is polled, delivered twice, reordered, lost or
\* interrupted while the primary commits, crashes and restores.
FollowsPrimary == {head, visible} \subseteq Committed

\* The in-memory position is the follower's: it names the commit it is at, also
\* after duplicates, refused shipments and failed polls (Replica::applied_lsn).
AppliedIsHead == applied # 0 => applied \in Commits /\ log[applied].manifest = head

\* One manifest is in the history of the other.
Behind(v, h) == Len(v) <= Len(h) /\ \A i \in 1 .. Len(v) : v[i] = h[i]

\* What queries see only ever moves forward along one history, across polls,
\* restores, refreshes and restarts of the follower and restores of the primary
\* ("a self-consistent, monotonically advancing view").
MonotoneView == [][Behind(visible, visible')]_visible

\* A follower is a read replica of its primary: it goes through the primary's own
\* commits one by one, skips none and never goes back, although it learns of them by
\* polls that fail, shipments that come twice or in the wrong order, and a log whose
\* tail a crash takes away and a checkpoint hides.
Replica ==
    INSTANCE ReadReplica WITH
        committed <- Committed, Entries <- {Commit({i}, i + 1) : i \in LSN}

ReplicaSpec == Replica!Spec

\* The commits of the available log up to LSN t: manifest_at(t) is the last one's.
Upto(t) == {i \in CommitsAbove(marker.lsn) : i <= t}

PastTarget == \E i \in Commits : i > bound /\ log[i].manifest = head

\* restore_to applies nothing beyond its target and, unless the follower was past
\* it already, leaves it at the primary's manifest as of the target.
RestoreIsExact ==
    [][/\ ApplyNext /\ head' # head => applied' <= bound
       /\ RestoreReturn /\ Upto(bound) # {} /\ ~PastTarget
            => head = log[Latest(Upto(bound))].manifest]_vars

\* restore_to as it is documented: the head is manifest_at(target) on return.
RestoreReachesTarget ==
    [][RestoreReturn /\ Upto(bound) # {} => head = log[Latest(Upto(bound))].manifest]_vars

\* A commit that turns out to differ from the primary's leaves the follower
\* where it was ("The replica has NOT advanced").
DivergedDoesNotAdvance ==
    [][\A i \in Commits : Diverge(Altered(i)) => head' = head]_vars

\* The follower's head is no longer in the log: it has to be re-seeded.
Stranded ==
    /\ head # marker.manifest
    /\ \A i \in CommitsAbove(marker.lsn) : log[i].manifest # head

\* Once the primary is quiet, a follower that keeps catching up reaches the
\* primary's head and stays there, unless a checkpoint (or a divergence) strands
\* it: however polls, restores, deliveries, failures and restarts interleave.
PrimaryQuiet == <>[][FALSE]_primary

Converges == PrimaryQuiet => <>[](Stranded \/ head = pHead)

-----------------------------------------------------------------------------
(* The inductive invariant behind FollowsPrimary and AppliedIsHead.        *)

\* Replaying the shipment on its base produces the manifest it claims.
Honest(s) == s.manifest = Append(s.base, Commit(s.writes, s.at))

\* A commit follows its write, and nothing else follows one; it leaves something
\* committed.
LogShape ==
    /\ \A i \in 1 .. Len(log) - 1 : log[i].kind = "write" <=> log[i + 1].kind = "commit"
    /\ 1 \notin Commits
    /\ \A i \in Commits : log[i].manifest # <<>>
    /\ marker.lsn # 0 => log[marker.lsn].kind # "write"
    /\ InTransaction => Len(log) < MaxLog

\* Folding from the marker there is reproduces every commit above it, and ends
\* where the primary is.
FoldAgrees ==
    /\ pHead = BaseOf(marker.lsn, marker.manifest, Len(log) + 1)
    /\ \A i \in CommitsAbove(marker.lsn) :
         log[i].manifest = Append(BaseOf(marker.lsn, marker.manifest, i), Commit({i - 1}, i))
    /\ {marker.manifest, pHead} \subseteq Committed

\* What a poll has read is of one checkpoint, and what it has still to apply was
\* committed and will be recognised.
PollAgrees ==
    /\ pc \in {"base", "log"} => cp = marker.lsn
    /\ pc = "log" => base = marker.manifest
    /\ \A s \in queue : Honest(s) /\ s.lsn \in Commits /\ s.manifest = log[s.lsn].manifest

ShippingInv ==
    TypeOK /\ LogShape /\ FoldAgrees /\ PollAgrees /\ FollowsPrimary /\ AppliedIsHead

\* Behind MonotoneView: the engine was hydrated from a state the head has grown
\* out of.
ViewInv == TypeOK /\ LogShape /\ Behind(visible, head)

-----------------------------------------------------------------------------
(* The inductive invariant behind RestoreIsExact.                          *)

\* What happens to the log during a restore adds no commit within its target: at
\* most an open transaction's write is lost.
TargetSettled ==
    bound # Unbounded =>
        bound <= Len(log) \/ (bound = Len(log) + 1 /\ ~InTransaction)

\* What resume_after answered is the place after the follower's head, or the start.
ResumesAtHead ==
    pc \in {"mark", "base", "log"} =>
        from = 0 \/ \E i \in Commits : from = i + 1 /\ log[i].manifest = head

\* The follower is at p, and what is left to apply is all that lies between there
\* and the target.
PlacedAt(p) ==
    /\ p = marker.lsn \/ (p \in Commits /\ log[p].manifest = head)
    /\ \A s \in queue : p < s.lsn
    /\ \A i \in Upto(bound) : i <= p \/ \E s \in queue : s.lsn = i

RestorePlaced ==
    /\ \A s, r \in queue : s.lsn = r.lsn => s = r
    /\ pc = "apply" /\ bound # Unbounded /\ Upto(bound) # {} =>
        \E p \in 0 .. Len(log) : PlacedAt(p)

RestoreInv == ShippingInv /\ TargetSettled /\ ResumesAtHead /\ RestorePlaced
=============================================================================
