------------------------- MODULE WalShippingProofs -------------------------
(***************************************************************************)
(* Proofs about WalShipping for any log length: while no checkpoint falls  *)
(* between the reads of one poll and shipments arrive as they were sent,   *)
(* the follower is always at a manifest the primary committed, and knows   *)
(* which one.  The invariant says that folding the log from the marker     *)
(* reproduces the primary's own commits.                                   *)
(***************************************************************************)
EXTENDS WalShipping, WellFoundedInduction, TLAPS

USE ShippingAssumption

\* The two ways for a shipment to be wrong that the code does not exclude.
Sound == ~TornReads /\ ~Altering

-----------------------------------------------------------------------------
(* The log.                                                                *)

\* Appending a record leaves the others where they are.
LEMMA Appended ==
    ASSUME NEW S, NEW s \in Seq(S), NEW r \in S
    PROVE  /\ Append(s, r) \in Seq(S)
           /\ Len(Append(s, r)) = Len(s) + 1
           /\ \A i \in 1 .. Len(s) : Append(s, r)[i] = s[i]
           /\ Append(s, r)[Len(s) + 1] = r
    OBVIOUS

\* So does dropping the last.
LEMMA Dropped ==
    ASSUME NEW S, NEW s \in Seq(S), s # <<>>
    PROVE  /\ SubSeq(s, 1, Len(s) - 1) \in Seq(S)
           /\ Len(SubSeq(s, 1, Len(s) - 1)) = Len(s) - 1
           /\ \A i \in 1 .. Len(s) - 1 : SubSeq(s, 1, Len(s) - 1)[i] = s[i]
<1>1. PICK n \in Nat : Len(s) = n + 1
    <2>1. Len(s) \in Nat /\ Len(s) # 0
        OBVIOUS
    <2>2. Len(s) - 1 \in Nat /\ Len(s) = (Len(s) - 1) + 1
        BY <2>1
    <2> QED BY <2>2
<1>2. Len(SubSeq(s, 1, Len(s) - 1)) = Len(s) - 1
    BY <1>1
<1>3. \A i \in 1 .. Len(s) - 1 : SubSeq(s, 1, Len(s) - 1)[i] = s[i]
    BY <1>1
<1>4. SubSeq(s, 1, Len(s) - 1) \in Seq(S)
    BY <1>1
<1> QED BY <1>2, <1>3, <1>4

\* A nonempty sequence is its front with its last element appended.
LEMMA FrontAndLast ==
    ASSUME NEW S, NEW s \in Seq(S), s # <<>>
    PROVE  s = Append(SubSeq(s, 1, Len(s) - 1), s[Len(s)])
<1> DEFINE d == SubSeq(s, 1, Len(s) - 1)
           a == Append(d, s[Len(s)])
<1>1. Len(s) \in Nat \ {0} /\ s[Len(s)] \in S
    OBVIOUS
<1>2. d \in Seq(S) /\ Len(d) = Len(s) - 1 /\ \A i \in 1 .. Len(d) : d[i] = s[i]
    BY Dropped
<1> HIDE DEF d
<1>3. /\ a \in Seq(S) /\ Len(a) = Len(s)
      /\ \A i \in 1 .. Len(d) : a[i] = d[i]
      /\ a[Len(d) + 1] = s[Len(s)]
    BY <1>1, <1>2
<1>4. \A i \in 1 .. Len(s) : a[i] = s[i]
    BY <1>1, <1>2, <1>3
<1> HIDE DEF a
<1>5. a = s
    BY <1>3, <1>4
<1> QED BY <1>5 DEF a, d

\* The latest of a set of LSNs, where there is one.
LEMMA LatestIs ==
    ASSUME NEW S \in SUBSET Nat, NEW i \in S, \A j \in S : j <= i
    PROVE  Latest(S) = i
<1>1. Latest(S) \in S /\ \A j \in S : j <= Latest(S)
    BY DEF Latest
<1>2. /\ Latest(S) \in Nat /\ i \in Nat
      /\ i <= Latest(S) /\ Latest(S) <= i
    BY <1>1
<1> QED BY <1>2

\* A set of naturals that is not empty has a smallest element.
LEMMA LeastExists ==
    ASSUME NEW S \in SUBSET Nat, S # {}
    PROVE  \E i \in S : \A j \in S : i <= j
<1> DEFINE R == OpToRel(<, Nat)
<1>1. \A i \in Nat, j \in Nat : j < i => <<j, i>> \in R
    <2>1. R = {p \in Nat \X Nat : p[1] < p[2]}
        BY DEF OpToRel
    <2> HIDE DEF R
    <2> QED BY <2>1
<1>2. IsWellFoundedOn(R, Nat)
    BY NatLessThanWellFounded
<1> HIDE DEF R
<1>3. PICK i \in S : \A j \in S : <<j, i>> \notin R
    BY <1>2, WFMin
<1>4. ASSUME NEW j \in S PROVE i <= j
    <2>1. i \in Nat /\ j \in Nat /\ ~(j < i)
        BY <1>1, <1>3
    <2> QED BY <2>1
<1> QED BY <1>4

\* And, where it is bounded, a latest.
LEMMA LatestExists ==
    ASSUME NEW n \in Nat, NEW S \in SUBSET (0 .. n), S # {}
    PROVE  Latest(S) \in S /\ \A j \in S : j <= Latest(S)
<1> DEFINE D == {n - j : j \in S}
<1>1. D \in SUBSET Nat /\ D # {}
    <2>1. \A j \in 0 .. n : n - j \in Nat
        OBVIOUS
    <2>2. \A j \in S : n - j \in Nat
        BY <2>1
    <2> QED BY <2>2
<1> HIDE DEF D
<1>2. PICK d \in D : \A e \in D : d <= e
    BY <1>1, LeastExists
<1>3. PICK k \in S : d = n - k
    BY DEF D
<1>4. ASSUME NEW j \in S PROVE j <= k
    <2>1. d <= n - j /\ j \in 0 .. n /\ k \in 0 .. n
        BY <1>2 DEF D
    <2> QED BY <1>3, <2>1
<1> QED BY <1>4, LatestIs

\* A mark at i - 1 is the latest before i, a write there is none, and at the
\* checkpoint itself there is none left.
LEMMA FoldOverMark ==
    ASSUME TypeOK, NEW l \in Nat, NEW b, NEW i \in 2 .. Len(log) + 1,
           l < i - 1, log[i - 1].kind # "write"
    PROVE  BaseOf(l, b, i) = log[i - 1].manifest
<1>1. Marks(l, i) \in SUBSET Nat /\ i - 1 \in Marks(l, i) /\ \A j \in Marks(l, i) : j <= i - 1
    BY DEF Marks, TypeOK
<1>2. Latest(Marks(l, i)) = i - 1
    BY <1>1, LatestIs
<1> QED BY <1>1, <1>2 DEF BaseOf

\* A write does not move the fold: after it the base is what it was under it.
LEMMA FoldOverWrite ==
    ASSUME TypeOK, NEW l \in Nat, NEW b, NEW i \in 2 .. Len(log) + 1,
           log[i - 1].kind = "write"
    PROVE  BaseOf(l, b, i) = BaseOf(l, b, i - 1)
<1>1. Marks(l, i) = Marks(l, i - 1)
    BY DEF Marks, TypeOK
<1> QED BY <1>1 DEF BaseOf

\* Right above the marker the base is the marker's manifest.
LEMMA FoldAtCheckpoint ==
    ASSUME NEW l \in Nat, NEW b
    PROVE  BaseOf(l, b, l + 1) = b
<1>1. Marks(l, l + 1) = {}
    BY DEF Marks
<1> QED BY <1>1 DEF BaseOf

\* A change of the log from i on does not change the fold up to i.
LEMMA FoldKept ==
    ASSUME NEW l \in Nat, NEW b, NEW i \in Nat, \A j \in 1 .. i - 1 : log'[j] = log[j],
           Marks(l, i) = {} \/ \E k \in Marks(l, i) : \A j \in Marks(l, i) : j <= k
    PROVE  BaseOf(l, b, i)' = BaseOf(l, b, i)
<1>1. Marks(l, i)' = Marks(l, i)
    BY DEF Marks
<1>2. CASE Marks(l, i) = {}
    BY <1>1, <1>2 DEF BaseOf
<1>3. CASE \E k \in Marks(l, i) : \A j \in Marks(l, i) : j <= k
    <2>1. PICK k \in Marks(l, i) : \A j \in Marks(l, i) : j <= k
        BY <1>3
    <2>2. Marks(l, i) \in SUBSET Nat /\ k \in 1 .. i - 1
        BY DEF Marks
    <2>3. Latest(Marks(l, i)) = k
        BY <2>1, <2>2, LatestIs
    <2>4. BaseOf(l, b, i)' = log'[k].manifest
        BY <1>1, <2>1, <2>3 DEF BaseOf, Latest
    <2>5. BaseOf(l, b, i) = log[k].manifest
        BY <2>1, <2>3 DEF BaseOf
    <2> QED BY <2>2, <2>4, <2>5
<1> QED BY <1>2, <1>3

-----------------------------------------------------------------------------
(* What a step of the primary keeps.                                       *)

\* The parts of the type invariant about the log.
LEMMA LogType ==
    ASSUME TypeOK
    PROVE  /\ log \in Seq(Records) /\ Len(log) \in 0 .. MaxLog
           /\ marker.lsn \in 0 .. Len(log) /\ marker.manifest \in Manifests
           /\ \A i \in 1 .. Len(log) : log[i] \in Records /\ log[i].manifest \in Manifests
<1>1. log \in Seq(Records) /\ Len(log) \in 0 .. MaxLog
    BY DEF TypeOK
<1>2. \A i \in 1 .. Len(log) : log[i] \in Records
    BY <1>1
<1>3. \A r \in Records : r.manifest \in Manifests
    BY DEF Records
<1> QED BY <1>1, <1>2, <1>3 DEF TypeOK

\* No commit disappears from the log.
LogKept == \A i \in Commits : i \in Commits' /\ log'[i] = log[i]

\* Appending a record leaves every commit committed.
LEMMA AppendKeeps ==
    ASSUME TypeOK, NEW r \in Records, log' = Append(log, r)
    PROVE  /\ LogKept
           /\ Commits' = Commits \cup {i \in {Len(log) + 1} : r.kind = "commit"}
<1>1. /\ Len(log') = Len(log) + 1 /\ Len(log) \in Nat
      /\ \A i \in 1 .. Len(log) : log'[i] = log[i]
      /\ log'[Len(log) + 1] = r
    BY Appended DEF TypeOK
<1> QED BY <1>1 DEF LogKept, Commits

\* Dropping a trailing write loses no commit.
LEMMA DropKeeps ==
    ASSUME TypeOK, InTransaction, log' = SubSeq(log, 1, Len(log) - 1)
    PROVE  LogKept /\ Commits' = Commits
<1>1. /\ Len(log') = Len(log) - 1 /\ Len(log) \in Nat
      /\ \A i \in 1 .. Len(log) - 1 : log'[i] = log[i]
      /\ log[Len(log)].kind = "write"
    BY Dropped DEF TypeOK, InTransaction
<1> QED BY <1>1 DEF LogKept, Commits

\* What was committed stays so while the commits stay.
LEMMA KeptCommitted ==
    ASSUME LogKept
    PROVE  Committed \subseteq Committed'
BY DEF LogKept, Committed

\* What the follower knows of the log stays true.
LEMMA KeptFollower ==
    ASSUME LogKept, UNCHANGED replica, UNCHANGED queue,
           FollowsPrimary, AppliedIsHead, PollAgrees
    PROVE  /\ FollowsPrimary'
           /\ AppliedIsHead'
           /\ \A s \in queue' : Honest(s) /\ s.lsn \in Commits' /\ s.manifest = log'[s.lsn].manifest
<1>1. FollowsPrimary'
    BY KeptCommitted DEF FollowsPrimary, replica
<1>2. AppliedIsHead'
    BY DEF AppliedIsHead, replica, LogKept
<1>3. \A s \in queue' : Honest(s) /\ s.lsn \in Commits' /\ s.manifest = log'[s.lsn].manifest
    BY DEF PollAgrees, LogKept
<1> QED BY <1>1, <1>2, <1>3

-----------------------------------------------------------------------------
(* What a poll ships.                                                      *)

\* A commit that follows the checkpoint has its write right before it.
LEMMA WriteBefore ==
    ASSUME TypeOK, LogShape, NEW i \in CommitsAbove(marker.lsn)
    PROVE  /\ i \in 1 .. Len(log) /\ marker.lsn < i - 1 /\ i - 1 \in 1 .. Len(log) - 1
           /\ log[i - 1].kind = "write"
           /\ i - 2 # marker.lsn => marker.lsn < i - 2 /\ log[i - 2].kind # "write"
<1>1. marker.lsn \in 0 .. Len(log) /\ Len(log) \in Nat
    BY DEF TypeOK
<1>2. i \in 1 .. Len(log) /\ i # 1 /\ i > marker.lsn /\ log[i].kind = "commit"
    BY DEF CommitsAbove, Commits, LogShape
<1>3. i - 1 \in 1 .. Len(log) - 1 /\ log[i - 1].kind = "write"
    <2>1. i - 1 \in 1 .. Len(log) - 1 /\ (i - 1) + 1 = i
        BY <1>1, <1>2
    <2>2. log[i - 1].kind = "write" <=> log[(i - 1) + 1].kind = "commit"
        BY <2>1 DEF LogShape
    <2> QED BY <1>2, <2>1, <2>2
<1>4. marker.lsn < i - 1
    BY <1>1, <1>2, <1>3 DEF LogShape
<1>5. ASSUME i - 2 # marker.lsn PROVE marker.lsn < i - 2 /\ log[i - 2].kind # "write"
    <2>1. marker.lsn < i - 2 /\ i - 2 \in 1 .. Len(log) - 1 /\ (i - 2) + 1 = i - 1
        BY <1>1, <1>2, <1>3, <1>4, <1>5
    <2>2. log[i - 2].kind = "write" <=> log[(i - 2) + 1].kind = "commit"
        BY <2>1 DEF LogShape
    <2> QED BY <1>3, <2>1, <2>2
<1> QED BY <1>2, <1>3, <1>4, <1>5

\* A commit takes exactly the write before it.
LEMMA PendingIsWrite ==
    ASSUME TypeOK, LogShape, NEW i \in CommitsAbove(marker.lsn)
    PROVE  PendingAt(marker.lsn, i) = {i - 1}
<1>1. /\ i \in 1 .. Len(log) /\ marker.lsn < i - 1 /\ i - 1 \in 1 .. Len(log) - 1
      /\ log[i - 1].kind = "write" /\ marker.lsn \in Nat
    BY WriteBefore DEF TypeOK
<1>2. i - 1 \in PendingAt(marker.lsn, i)
    BY <1>1 DEF PendingAt
<1>3. ASSUME NEW j \in PendingAt(marker.lsn, i), j # i - 1 PROVE FALSE
    <2>1. j \in Nat /\ marker.lsn < j /\ j <= i - 2 /\ \A k \in j .. i - 1 : log[k].kind = "write"
        BY <1>1, <1>3 DEF PendingAt
    <2>2. j \in 1 .. Len(log) - 1 /\ log[j].kind = "write" /\ log[j + 1].kind = "write"
        BY <1>1, <2>1
    <2>3. log[j + 1].kind = "commit"
        BY <2>2 DEF LogShape
    <2> QED BY <2>2, <2>3
<1> QED BY <1>2, <1>3

\* The fold has a last mark, or none, under every commit, and a type.
LEMMA BaseUnderCommit ==
    ASSUME TypeOK, LogShape, NEW i \in CommitsAbove(marker.lsn)
    PROVE  /\ BaseOf(marker.lsn, marker.manifest, i) \in Manifests
           /\ \/ Marks(marker.lsn, i) = {}
              \/ \E k \in Marks(marker.lsn, i) : \A j \in Marks(marker.lsn, i) : j <= k
<1>1. /\ i \in 1 .. Len(log) /\ marker.lsn < i - 1 /\ i - 1 \in 1 .. Len(log) - 1
      /\ log[i - 1].kind = "write" /\ marker.lsn \in Nat
      /\ i - 2 # marker.lsn => marker.lsn < i - 2 /\ log[i - 2].kind # "write"
    BY WriteBefore DEF TypeOK
<1>2. BaseOf(marker.lsn, marker.manifest, i) = BaseOf(marker.lsn, marker.manifest, i - 1)
    <2>1. i \in 2 .. Len(log) + 1
        BY <1>1
    <2> QED BY <1>1, <2>1, FoldOverWrite
<1>3. CASE i - 2 = marker.lsn
    <2>1. Marks(marker.lsn, i) = {}
        BY <1>1, <1>3 DEF Marks
    <2>2. BaseOf(marker.lsn, marker.manifest, i) = marker.manifest
        BY <2>1 DEF BaseOf
    <2> QED BY <2>1, <2>2 DEF TypeOK
<1>4. CASE i - 2 # marker.lsn
    <2>1. /\ i - 2 \in 1 .. Len(log) /\ marker.lsn < (i - 1) - 1 /\ i - 1 \in 2 .. Len(log) + 1
          /\ (i - 1) - 1 = i - 2
        BY <1>1, <1>4
    <2>2. BaseOf(marker.lsn, marker.manifest, i - 1) = log[i - 2].manifest
        BY <1>1, <1>4, <2>1, FoldOverMark
    <2>3. log[i - 2].manifest \in Manifests
        BY <2>1, LogType
    <2>4. i - 2 \in Marks(marker.lsn, i) /\ \A j \in Marks(marker.lsn, i) : j <= i - 2
        BY <1>1, <1>4, <2>1 DEF Marks
    <2> QED BY <1>2, <2>2, <2>3, <2>4
<1> QED BY <1>3, <1>4

\* So what is shipped from one consistent reading of the marker is honest.
LEMMA ShippedHonestly ==
    ASSUME TypeOK, LogShape, FoldAgrees, NEW f \in Nat,
           NEW s \in ShipmentsFrom(marker.lsn, marker.manifest, f)
    PROVE  /\ s \in Shipments
           /\ Honest(s) /\ s.lsn \in Commits /\ s.manifest = log[s.lsn].manifest
<1>1. PICK i \in CommitsAbove(marker.lsn) : s = ShipmentAt(marker.lsn, marker.manifest, i)
    BY DEF ShipmentsFrom
<1>2. i \in 2 .. Len(log) /\ i \in Commits /\ Len(log) \in 0 .. MaxLog
    BY WriteBefore, LogType DEF CommitsAbove
<1>3. /\ PendingAt(marker.lsn, i) = {i - 1}
      /\ BaseOf(marker.lsn, marker.manifest, i) \in Manifests
    BY PendingIsWrite, BaseUnderCommit
<1>4. log[i].manifest \in Manifests
    BY <1>2, LogType
<1>5. log[i].manifest = Append(BaseOf(marker.lsn, marker.manifest, i), Commit({i - 1}, i))
    BY DEF FoldAgrees
<1>6. s = [base |-> BaseOf(marker.lsn, marker.manifest, i), manifest |-> log[i].manifest,
           lsn |-> i, writes |-> {i - 1}, at |-> i]
    BY <1>1, <1>3 DEF ShipmentAt
<1>7. s \in Shipments
    BY <1>2, <1>3, <1>4, <1>6 DEF Shipments, LSN
<1>8. Honest(s)
    BY <1>5, <1>6 DEF Honest
<1> QED BY <1>2, <1>6, <1>7, <1>8

\* Whatever marker is read for it, and if its two halves are of different ones, the
\* fold has a type.
LEMMA BaseTyped ==
    ASSUME TypeOK, NEW l \in Nat, NEW b \in Manifests, NEW i \in 1 .. Len(log)
    PROVE  BaseOf(l, b, i) \in Manifests
<1>1. Marks(l, i) \in SUBSET (0 .. i) /\ Marks(l, i) \in SUBSET (1 .. Len(log)) /\ i \in Nat
    BY LogType DEF Marks
<1>2. CASE Marks(l, i) = {}
    BY <1>2 DEF BaseOf
<1>3. CASE Marks(l, i) # {}
    <2>1. Latest(Marks(l, i)) \in 1 .. Len(log)
        BY <1>1, <1>3, LatestExists
    <2> QED BY <1>3, <2>1, LogType DEF BaseOf
<1> QED BY <1>2, <1>3

\* So have the shipments of a poll.
LEMMA ShipmentsTyped ==
    ASSUME TypeOK, NEW l \in Nat, NEW b \in Manifests, NEW f
    PROVE  ShipmentsFrom(l, b, f) \subseteq Shipments
<1> SUFFICES ASSUME NEW i \in Commits
             PROVE  ShipmentAt(l, b, i) \in Shipments
    BY DEF ShipmentsFrom, CommitsAbove
<1>1. i \in 1 .. Len(log) /\ Len(log) \in 0 .. MaxLog
    BY LogType DEF Commits
<1>2. log[i].manifest \in Manifests /\ BaseOf(l, b, i) \in Manifests
    BY <1>1, LogType, BaseTyped
<1>3. i \in LSN /\ i \in 0 .. MaxLog /\ PendingAt(l, i) \in SUBSET LSN
    BY <1>1 DEF LSN, PendingAt
<1> QED BY <1>2, <1>3 DEF ShipmentAt, Shipments

\* A shipment taken from the log as it was committed is honest too.
LEMMA DeliveredHonestly ==
    ASSUME TypeOK, LogShape, NEW i \in Commits
    PROVE  LET s == Shipped(i)
           IN  s \in Shipments /\ Honest(s) /\ s.lsn = i /\ s.manifest = log[i].manifest
<1> DEFINE m == log[i].manifest
           E == [writes : SUBSET LSN, at : 0 .. MaxLog]
<1>1. i \in 1 .. Len(log) /\ Len(log) \in 0 .. MaxLog /\ i \in LSN
    BY LogType DEF Commits, LSN
<1>2. m \in Seq(E) /\ m # <<>>
    BY <1>1, LogType DEF Manifests, LogShape
<1> HIDE DEF m, E
<1>3. m = Append(SubSeq(m, 1, Len(m) - 1), m[Len(m)]) /\ SubSeq(m, 1, Len(m) - 1) \in Seq(E)
    BY <1>2, FrontAndLast, Dropped
<1>4. m[Len(m)] \in E
    <2>1. Len(m) \in 1 .. Len(m)
        BY <1>2
    <2>2. \A k \in 1 .. Len(m) : m[k] \in E
        BY <1>2
    <2> QED BY <2>1, <2>2
<1>5. m[Len(m)] = Commit(m[Len(m)].writes, m[Len(m)].at)
    BY <1>4 DEF Commit, E
<1>6. Shipped(i) = [base |-> SubSeq(m, 1, Len(m) - 1), manifest |-> m, lsn |-> i,
                    writes |-> m[Len(m)].writes, at |-> m[Len(m)].at]
    BY DEF Shipped, m
<1>7. Shipped(i) \in Shipments
    BY <1>1, <1>2, <1>3, <1>4, <1>6 DEF Shipments, Manifests, E
<1>8. Honest(Shipped(i))
    BY <1>3, <1>5, <1>6 DEF Honest
<1> QED BY <1>6, <1>7, <1>8 DEF m

\* An altered one still has a type.
LEMMA AlteredTyped ==
    ASSUME TypeOK, LogShape, NEW i \in Commits
    PROVE  Altered(i) \in Shipments
<1>1. PICK s \in Shipments : s = Shipped(i)
    BY DeliveredHonestly
<1>2. [s EXCEPT !.at = 0] \in Shipments
    BY DEF Shipments
<1> QED BY <1>1, <1>2 DEF Altered

-----------------------------------------------------------------------------
(* The invariant is kept by the primary.                                   *)

\* Keeping the commits, and what is under them, keeps the fold under them.
LEMMA CommitsStillAgree ==
    ASSUME TypeOK, LogShape, FoldAgrees, LogKept,
           \A j \in 1 .. Len(log) - 1 : log'[j] = log[j],
           NEW l \in Nat, NEW b, l = marker.lsn, b = marker.manifest,
           NEW i \in CommitsAbove(l)
    PROVE  log'[i].manifest = Append(BaseOf(l, b, i)', Commit({i - 1}, i))
<1>1. /\ i \in 1 .. Len(log) /\ i \in Commits /\ Len(log) \in Nat
      /\ \A j \in 1 .. i - 1 : log'[j] = log[j]
    BY LogType DEF CommitsAbove, Commits
<1>2. \/ Marks(l, i) = {}
      \/ \E k \in Marks(l, i) : \A j \in Marks(l, i) : j <= k
    BY BaseUnderCommit
<1>3. BaseOf(l, b, i)' = BaseOf(l, b, i)
    BY <1>1, <1>2, FoldKept
<1> QED BY <1>1, <1>3 DEF FoldAgrees, LogKept

\* FoldAgrees of the next state, from its parts with the marker named.
LEMMA FoldAgreesNext ==
    ASSUME NEW l, NEW b, NEW n, marker'.lsn = l, marker'.manifest = b, Len(log') + 1 = n,
           pHead' = BaseOf(l, b, n)',
           \A i \in CommitsAbove(l)' :
               log'[i].manifest = Append(BaseOf(l, b, i)', Commit({i - 1}, i)),
           {b, pHead'} \subseteq Committed'
    PROVE  FoldAgrees'
<1>1. (pHead = BaseOf(marker.lsn, marker.manifest, Len(log) + 1))'
    BY DEF BaseOf, Marks
<1>2. (\A i \in CommitsAbove(marker.lsn) :
         log[i].manifest = Append(BaseOf(marker.lsn, marker.manifest, i), Commit({i - 1}, i)))'
    BY DEF BaseOf, Marks, CommitsAbove
<1> QED BY <1>1, <1>2 DEF FoldAgrees

\* Writing a transaction's pages to the log keeps the invariant.
LEMMA LogWriteKeeps ==
    ASSUME TypeOK, LogShape, LogWrite
    PROVE  /\ TypeOK' /\ LogShape' /\ LogKept
           /\ ShippingInv => ShippingInv'
<1>0. PICK n \in Nat, l \in Nat, b \in Manifests : n = Len(log) /\ l = marker.lsn /\ b = marker.manifest
    BY LogType
<1>1. /\ n \in 0 .. MaxLog /\ n + 2 <= MaxLog /\ WriteRecord \in Records
      /\ l \in 0 .. n /\ marker.manifest \in Manifests
    BY <1>0, LogType DEF LogWrite, WriteRecord, Records, Manifests
<1>2. /\ log' \in Seq(Records) /\ Len(log') = n + 1
      /\ \A i \in 1 .. n : log'[i] = log[i]
      /\ log'[n + 1] = WriteRecord /\ log'[n + 1].kind = "write"
    BY <1>0, <1>1, Appended, LogType DEF LogWrite, WriteRecord
<1>3. LogKept /\ Commits' = Commits
    BY <1>1, AppendKeeps DEF LogWrite, WriteRecord
<1>4. UNCHANGED <<marker, pHead, replica, poll>> /\ (n # 0 => log[n].kind # "write")
    BY <1>0, <1>1 DEF LogWrite, InTransaction
<1>5. TypeOK'
    BY <1>0, <1>1, <1>2, <1>4 DEF TypeOK, replica, poll
<1>6. LogShape'
    <2>1. \A i \in 1 .. n : log'[i].kind = "write" <=> log'[i + 1].kind = "commit"
        <3> SUFFICES ASSUME NEW i \in 1 .. n
                     PROVE  log'[i].kind = "write" <=> log'[i + 1].kind = "commit"
            OBVIOUS
        <3>1. CASE i = n
            BY <1>1, <1>2, <1>4, <3>1
        <3>2. CASE i # n
            <4>1. i \in 1 .. n - 1 /\ i + 1 \in 1 .. n
                BY <1>1, <3>2
            <4> QED BY <1>0, <1>2, <4>1 DEF LogShape
        <3> QED BY <3>1, <3>2
    <2>2. 1 \notin Commits'
        BY <1>3 DEF LogShape
    <2>3. marker'.lsn # 0 => log'[marker'.lsn].kind # "write"
        BY <1>0, <1>1, <1>2, <1>4 DEF LogShape
    <2>4. InTransaction' => Len(log') < MaxLog
        BY <1>1, <1>2
    <2>5. \A i \in Commits' : log'[i].manifest # <<>>
        BY <1>3 DEF LogShape, LogKept
    <2> QED BY <1>1, <1>2, <2>1, <2>2, <2>3, <2>4, <2>5 DEF LogShape
<1>7. ShippingInv => FoldAgrees'
    <2> SUFFICES ASSUME ShippingInv PROVE FoldAgrees'
        OBVIOUS
    <2> USE DEF ShippingInv
    <2>1. CommitsAbove(l)' = CommitsAbove(l)
        BY <1>3 DEF CommitsAbove
    <2>2. \A i \in CommitsAbove(l) :
            log'[i].manifest = Append(BaseOf(l, b, i)', Commit({i - 1}, i))
        <3>1. \A j \in 1 .. Len(log) - 1 : log'[j] = log[j]
            BY <1>0, <1>2
        <3>2. TypeOK /\ LogShape /\ FoldAgrees
            OBVIOUS
        <3> QED BY <1>0, <1>3, <3>1, <3>2, CommitsStillAgree
    <2>3. BaseOf(l, b, n + 2)' = pHead
        <3>1. BaseOf(l, b, n + 2)' = BaseOf(l, b, n + 1)'
            <4>1. (n + 2 \in 2 .. Len(log) + 1 /\ log[(n + 2) - 1].kind = "write")'
                BY <1>1, <1>2
            <4>2. (Marks(l, n + 2) = Marks(l, n + 1))'
                BY <1>1, <1>2 DEF Marks
            <4> QED BY <4>2 DEF BaseOf
        <3>2. \/ Marks(l, n + 1) = {}
              \/ \E k \in Marks(l, n + 1) : \A j \in Marks(l, n + 1) : j <= k
            <4>1. CASE n = l
                BY <1>1, <4>1 DEF Marks
            <4>2. CASE n # l
                <5>1. n \in Marks(l, n + 1) /\ \A j \in Marks(l, n + 1) : j <= n
                    BY <1>1, <1>4, <4>2 DEF Marks
                <5> QED BY <5>1
            <4> QED BY <4>1, <4>2
        <3>3. BaseOf(l, b, n + 1)' = BaseOf(l, b, n + 1)
            <4>1. n + 1 \in Nat /\ \A j \in 1 .. (n + 1) - 1 : log'[j] = log[j]
                BY <1>1, <1>2
            <4> QED BY <3>2, <4>1, FoldKept
        <3> QED BY <1>0, <3>1, <3>3 DEF FoldAgrees
    <2>4. {b, pHead'} \subseteq Committed'
        BY <1>0, <1>3, <1>4, KeptCommitted DEF FoldAgrees
    <2>6. Len(log') + 1 = n + 2
        BY <1>2
    <2>7. marker'.lsn = l /\ marker'.manifest = b /\ pHead' = BaseOf(l, b, n + 2)'
        BY <1>0, <1>4, <2>3
    <2>8. \A i \in CommitsAbove(l)' :
            log'[i].manifest = Append(BaseOf(l, b, i)', Commit({i - 1}, i))
        BY <2>1, <2>2
    <2> HIDE DEF ShippingInv
    <2> QED BY <2>4, <2>6, <2>7, <2>8, FoldAgreesNext
<1>8. ShippingInv => FollowsPrimary' /\ AppliedIsHead' /\ PollAgrees'
    BY <1>3, <1>4, KeptFollower DEF poll, PollAgrees, ShippingInv
<1> QED BY <1>3, <1>5, <1>6, <1>7, <1>8 DEF ShippingInv

\* The fold has a last mark, or none, at the end of the log too.
LEMMA LastMark ==
    ASSUME TypeOK, LogShape, NEW l \in Nat, l = marker.lsn, NEW n \in Nat, n = Len(log), InTransaction
    PROVE  /\ l < n /\ n # 0 /\ log[n].kind = "write" /\ n < MaxLog
           /\ Marks(l, n + 1) = Marks(l, n)
           /\ n - 1 # l => l < n - 1 /\ log[n - 1].kind # "write"
           /\ Marks(l, n) = {} \/ \E k \in Marks(l, n) : \A j \in Marks(l, n) : j <= k
<1>1. l \in 0 .. n /\ n # 0 /\ log[n].kind = "write" /\ n < MaxLog
    BY LogType DEF InTransaction, LogShape
<1>2. l < n
    BY <1>1 DEF LogShape
<1>3. Marks(l, n + 1) = Marks(l, n)
    BY <1>1 DEF Marks
<1>4. ASSUME n - 1 # l PROVE l < n - 1 /\ log[n - 1].kind # "write"
    <2>1. l < n - 1 /\ n - 1 \in 1 .. Len(log) - 1 /\ (n - 1) + 1 = n
        BY <1>1, <1>2, <1>4
    <2>2. log[n - 1].kind = "write" <=> log[(n - 1) + 1].kind = "commit"
        BY <2>1 DEF LogShape
    <2> QED BY <1>1, <2>1, <2>2
<1>5. Marks(l, n) = {} \/ \E k \in Marks(l, n) : \A j \in Marks(l, n) : j <= k
    <2>1. CASE n - 1 = l
        BY <1>1, <2>1 DEF Marks
    <2>2. CASE n - 1 # l
        <3>1. n - 1 \in Marks(l, n) /\ \A j \in Marks(l, n) : j <= n - 1
            BY <1>1, <1>4, <2>2 DEF Marks
        <3> QED BY <3>1
    <2> QED BY <2>1, <2>2
<1> QED BY <1>1, <1>2, <1>3, <1>4, <1>5

\* Committing what was written keeps the invariant: the new commit extends the fold.
LEMMA LogCommitKeeps ==
    ASSUME TypeOK, LogShape, LogCommit
    PROVE  /\ TypeOK' /\ LogShape' /\ LogKept
           /\ ShippingInv => ShippingInv'
<1>0. PICK n, l, b, m :
          /\ n \in Nat /\ l \in Nat
          /\ n = Len(log) /\ l = marker.lsn /\ b = marker.manifest
          /\ m = Append(pHead, Commit({n}, n + 1))
    <2>1. Len(log) \in Nat /\ marker.lsn \in Nat
        BY LogType
    <2> QED BY <2>1
<1>1. /\ n \in 1 .. MaxLog - 1 /\ l \in 0 .. n - 1 /\ marker.manifest \in Manifests
      /\ log[n].kind = "write" /\ Marks(l, n + 1) = Marks(l, n)
      /\ Marks(l, n) = {} \/ \E k \in Marks(l, n) : \A j \in Marks(l, n) : j <= k
    <2>1. TypeOK /\ LogShape /\ InTransaction
        BY DEF LogCommit
    <2>2. /\ l < n /\ n # 0 /\ log[n].kind = "write" /\ n < MaxLog
          /\ Marks(l, n + 1) = Marks(l, n)
          /\ Marks(l, n) = {} \/ \E k \in Marks(l, n) : \A j \in Marks(l, n) : j <= k
        BY <1>0, <2>1, LastMark
    <2>3. n \in 1 .. MaxLog - 1 /\ l \in 0 .. n - 1
        BY <1>0, <2>2
    <2> QED BY <2>1, <2>2, <2>3, LogType
<1>2. /\ m \in Manifests /\ m # <<>> /\ CommitRecord(m) \in Records
      /\ CommitRecord(m).kind = "commit" /\ CommitRecord(m).manifest = m
    <2>1. Commit({n}, n + 1) \in [writes : SUBSET LSN, at : 0 .. MaxLog]
        BY <1>1 DEF Commit, LSN
    <2>2. pHead \in Manifests
        BY DEF TypeOK
    <2>3. m \in Manifests /\ m # <<>>
        <3>1. \A S : \A s \in Seq(S), e \in S : Append(s, e) \in Seq(S) /\ Append(s, e) # <<>>
            OBVIOUS
        <3> QED BY <1>0, <2>1, <2>2, <3>1 DEF Manifests
    <2> QED BY <2>3 DEF CommitRecord, Records
<1>3. /\ log' = Append(log, CommitRecord(m)) /\ pHead' = m
      /\ UNCHANGED <<marker, replica, poll>>
    BY <1>0 DEF LogCommit
<1>4. /\ log' \in Seq(Records) /\ Len(log') = n + 1
      /\ \A i \in 1 .. n : log'[i] = log[i]
      /\ log'[n + 1] = CommitRecord(m)
    BY <1>0, <1>2, <1>3, Appended, LogType
<1>5. LogKept /\ Commits' = Commits \cup {n + 1}
    <2>1. LogKept /\ Commits' = Commits \cup {i \in {n + 1} : CommitRecord(m).kind = "commit"}
        BY <1>0, <1>2, <1>3, AppendKeeps
    <2> QED BY <1>2, <2>1
<1>6. TypeOK'
    BY <1>0, <1>1, <1>2, <1>3, <1>4 DEF TypeOK, replica, poll
<1>7. LogShape'
    <2>1. \A i \in 1 .. n : log'[i].kind = "write" <=> log'[i + 1].kind = "commit"
        <3> SUFFICES ASSUME NEW i \in 1 .. n
                     PROVE  log'[i].kind = "write" <=> log'[i + 1].kind = "commit"
            OBVIOUS
        <3>1. CASE i = n
            BY <1>1, <1>2, <1>4, <3>1
        <3>2. CASE i # n
            <4>1. i \in 1 .. n - 1 /\ i + 1 \in 1 .. n
                BY <1>1, <3>2
            <4> QED BY <1>0, <1>4, <4>1 DEF LogShape
        <3> QED BY <3>1, <3>2
    <2>2. 1 \notin Commits'
        BY <1>1, <1>5 DEF LogShape
    <2>3. marker'.lsn # 0 => log'[marker'.lsn].kind # "write"
        BY <1>0, <1>1, <1>3, <1>4 DEF LogShape
    <2>4. ~InTransaction'
        BY <1>1, <1>2, <1>4 DEF InTransaction
    <2>5. \A i \in Commits' : log'[i].manifest # <<>>
        BY <1>2, <1>4, <1>5 DEF LogShape, LogKept
    <2> QED BY <1>1, <1>4, <2>1, <2>2, <2>3, <2>4, <2>5 DEF LogShape
<1>8. ShippingInv => FoldAgrees'
    <2> SUFFICES ASSUME ShippingInv PROVE FoldAgrees'
        OBVIOUS
    <2> USE DEF ShippingInv
    <2>1. CommitsAbove(l)' = CommitsAbove(l) \cup {n + 1}
        BY <1>1, <1>5 DEF CommitsAbove
    <2>2. ASSUME NEW i \in CommitsAbove(l)
          PROVE  log'[i].manifest = Append(BaseOf(l, b, i)', Commit({i - 1}, i))
        <3>1. \A j \in 1 .. Len(log) - 1 : log'[j] = log[j]
            BY <1>0, <1>4
        <3>2. TypeOK /\ LogShape /\ FoldAgrees
            OBVIOUS
        <3> QED BY <1>0, <1>5, <3>1, <3>2, CommitsStillAgree
    <2>3. log'[n + 1].manifest = Append(BaseOf(l, b, n + 1)', Commit({n}, n + 1))
        <3>1. n + 1 \in Nat /\ \A j \in 1 .. (n + 1) - 1 : log'[j] = log[j]
            BY <1>1, <1>4
        <3>2. BaseOf(l, b, n + 1)' = BaseOf(l, b, n + 1)
            BY <1>1, <3>1, FoldKept
        <3>3. BaseOf(l, b, n + 1) = pHead
            BY <1>0 DEF FoldAgrees
        <3> QED BY <1>0, <1>2, <1>4, <3>2, <3>3
    <2>4. \A i \in CommitsAbove(l)' :
            log'[i].manifest = Append(BaseOf(l, b, i)', Commit({i - 1}, i))
        <3>1. (n + 1) - 1 = n
            BY <1>1
        <3> QED BY <2>1, <2>2, <2>3, <3>1
    <2>5. BaseOf(l, b, n + 2)' = pHead'
        <3>1. /\ n + 2 \in 2 .. Len(log') + 1 /\ l < (n + 2) - 1
              /\ log'[(n + 2) - 1].kind # "write" /\ log'[(n + 2) - 1].manifest = m
            BY <1>1, <1>2, <1>4
        <3>2. (BaseOf(l, b, n + 2) = log[(n + 2) - 1].manifest)'
            <4>1. Marks(l, n + 2)' \in SUBSET Nat /\ n + 1 \in Marks(l, n + 2)'
                  /\ \A j \in Marks(l, n + 2)' : j <= n + 1
                BY <1>1, <1>2, <1>4 DEF Marks
            <4>2. Latest(Marks(l, n + 2)') = n + 1
                BY <4>1, LatestIs
            <4>3. (n + 2) - 1 = n + 1
                BY <1>1
            <4> QED BY <4>1, <4>2, <4>3 DEF BaseOf, Latest
        <3> QED BY <1>3, <3>1, <3>2
    <2>6. {b, pHead'} \subseteq Committed'
        <3>1. b \in Committed'
            BY <1>0, <1>5, KeptCommitted DEF FoldAgrees
        <3>2. pHead' \in Committed'
            BY <1>2, <1>3, <1>4, <1>5 DEF Committed
        <3> QED BY <3>1, <3>2
    <2>8. Len(log') + 1 = n + 2
        BY <1>0, <1>4
    <2>9. marker'.lsn = l /\ marker'.manifest = b
        BY <1>0, <1>3
    <2> QED BY <2>4, <2>5, <2>6, <2>8, <2>9, FoldAgreesNext
<1>9. ShippingInv => FollowsPrimary' /\ AppliedIsHead' /\ PollAgrees'
    BY <1>3, <1>5, KeptFollower DEF poll, PollAgrees, ShippingInv
<1> QED BY <1>5, <1>6, <1>7, <1>8, <1>9 DEF ShippingInv

\* A crash of the primary, which drops an open transaction, keeps the invariant.
LEMMA PrimaryCrashKeeps ==
    ASSUME TypeOK, LogShape, PrimaryCrash
    PROVE  /\ TypeOK' /\ LogShape' /\ LogKept
           /\ ShippingInv => ShippingInv'
<1>0. PICK n \in Nat, l \in Nat, b \in Manifests :
          n = Len(log) /\ l = marker.lsn /\ b = marker.manifest
    BY LogType
<1>1. /\ n \in 1 .. MaxLog - 1 /\ l \in 0 .. n - 1 /\ marker.manifest \in Manifests
      /\ log[n].kind = "write" /\ Marks(l, n + 1) = Marks(l, n)
      /\ Marks(l, n) = {} \/ \E k \in Marks(l, n) : \A j \in Marks(l, n) : j <= k
    <2>1. TypeOK /\ LogShape /\ InTransaction
        BY DEF PrimaryCrash
    <2>2. /\ l < n /\ n # 0 /\ log[n].kind = "write" /\ n < MaxLog
          /\ Marks(l, n + 1) = Marks(l, n)
          /\ Marks(l, n) = {} \/ \E k \in Marks(l, n) : \A j \in Marks(l, n) : j <= k
        BY <1>0, <2>1, LastMark
    <2>3. n \in 1 .. MaxLog - 1 /\ l \in 0 .. n - 1
        BY <2>2
    <2> QED BY <2>1, <2>2, <2>3, LogType
<1>2. /\ log' = SubSeq(log, 1, Len(log) - 1) /\ log # <<>>
      /\ UNCHANGED <<marker, pHead, replica, poll>>
    BY DEF PrimaryCrash, InTransaction
<1>3. /\ log' \in Seq(Records) /\ Len(log') = n - 1
      /\ \A i \in 1 .. n - 1 : log'[i] = log[i]
    BY <1>0, <1>2, Dropped, LogType
<1>4. LogKept /\ Commits' = Commits
    BY <1>2, DropKeeps DEF PrimaryCrash
<1>5. TypeOK'
    BY <1>0, <1>1, <1>2, <1>3 DEF TypeOK, replica, poll
<1>6. LogShape'
    <2>1. \A i \in 1 .. n - 2 : log'[i].kind = "write" <=> log'[i + 1].kind = "commit"
        <3> SUFFICES ASSUME NEW i \in 1 .. n - 2
                     PROVE  log'[i].kind = "write" <=> log'[i + 1].kind = "commit"
            OBVIOUS
        <3>1. i \in 1 .. n - 1 /\ i + 1 \in 1 .. n - 1
            BY <1>1
        <3> QED BY <1>0, <1>3, <3>1 DEF LogShape
    <2>2. 1 \notin Commits'
        BY <1>4 DEF LogShape
    <2>3. marker'.lsn # 0 => log'[marker'.lsn].kind # "write"
        BY <1>0, <1>1, <1>2, <1>3 DEF LogShape
    <2>4. Len(log') < MaxLog /\ Len(log') - 1 = n - 2
        BY <1>1, <1>3
    <2>5. \A i \in Commits' : log'[i].manifest # <<>>
        BY <1>4 DEF LogShape, LogKept
    <2> QED BY <2>1, <2>2, <2>3, <2>4, <2>5 DEF LogShape
<1>7. ShippingInv => FoldAgrees'
    <2> SUFFICES ASSUME ShippingInv PROVE FoldAgrees'
        OBVIOUS
    <2> USE DEF ShippingInv
    <2>1. CommitsAbove(l)' = CommitsAbove(l)
        BY <1>4 DEF CommitsAbove
    <2>2. \A i \in CommitsAbove(l) :
            log'[i].manifest = Append(BaseOf(l, b, i)', Commit({i - 1}, i))
        <3>1. \A j \in 1 .. Len(log) - 1 : log'[j] = log[j]
            BY <1>0, <1>3
        <3>2. TypeOK /\ LogShape /\ FoldAgrees
            OBVIOUS
        <3> QED BY <1>0, <1>4, <3>1, <3>2, CommitsStillAgree
    <2>3. BaseOf(l, b, n)' = pHead
        <3>1. BaseOf(l, b, n + 1) = BaseOf(l, b, n)
            BY <1>1 DEF BaseOf
        <3>2. BaseOf(l, b, n)' = BaseOf(l, b, n)
            BY <1>1, <1>3, FoldKept
        <3> QED BY <1>0, <3>1, <3>2 DEF FoldAgrees
    <2>4. {b, pHead'} \subseteq Committed'
        BY <1>0, <1>2, <1>4, KeptCommitted DEF FoldAgrees
    <2>6. Len(log') + 1 = n
        BY <1>1, <1>3
    <2>7. marker'.lsn = l /\ marker'.manifest = b /\ pHead' = BaseOf(l, b, n)'
        BY <1>0, <1>2, <2>3
    <2>8. \A i \in CommitsAbove(l)' :
            log'[i].manifest = Append(BaseOf(l, b, i)', Commit({i - 1}, i))
        BY <2>1, <2>2
    <2> QED BY <2>4, <2>6, <2>7, <2>8, FoldAgreesNext
<1>8. ShippingInv => FollowsPrimary' /\ AppliedIsHead' /\ PollAgrees'
    BY <1>2, <1>4, KeptFollower DEF poll, PollAgrees, ShippingInv
<1> QED BY <1>4, <1>5, <1>6, <1>7, <1>8 DEF ShippingInv

\* A restore's checkpoint, with its record in the log or without, keeps the invariant.
LEMMA PrimaryRestoreKeeps ==
    ASSUME TypeOK, LogShape, NEW m \in Committed, NEW recorded \in CheckpointRecords,
           PrimaryRestore(m, recorded)
    PROVE  /\ TypeOK' /\ LogShape' /\ LogKept
           /\ Sound /\ ShippingInv => ShippingInv'
<1>0. PICK n \in Nat, l \in Nat : n = Len(log) /\ l = Len(log')
    <2>1. Len(log) \in Nat /\ Len(Append(log, CheckpointRecord(m))) \in Nat
        BY LogType
    <2> QED BY <2>1 DEF PrimaryRestore
<1>1. n \in 0 .. MaxLog /\ log \in Seq(Records) /\ (n # 0 => log[n].kind # "write")
    BY <1>0, LogType DEF PrimaryRestore, InTransaction
<1>2. m \in Manifests /\ CheckpointRecord(m) \in Records /\ CheckpointRecord(m).kind = "checkpoint"
    <2>1. CASE m = <<>>
        BY <2>1 DEF Manifests, CheckpointRecord, Records
    <2>2. CASE m # <<>>
        <3>1. PICK i \in 1 .. Len(log) : m = log[i].manifest
            BY <2>2 DEF Committed, Commits
        <3>2. m \in Manifests
            BY <3>1, LogType
        <3> QED BY <3>2 DEF CheckpointRecord, Records
    <2> QED BY <2>1, <2>2
<1>3. /\ marker' = [manifest |-> m, lsn |-> l] /\ pHead' = m /\ UNCHANGED <<replica, poll>>
      /\ Sound => pc \notin {"base", "log"}
    BY <1>0 DEF PrimaryRestore, Sound
<1>4. /\ log' \in Seq(Records) /\ l \in n .. MaxLog /\ l \in n .. n + 1
      /\ \A i \in 1 .. n : log'[i] = log[i]
      /\ l # n => log'[l].kind = "checkpoint"
      /\ LogKept /\ Commits' = Commits
    <2>1. CASE recorded
        <3>1. log' = Append(log, CheckpointRecord(m)) /\ n < MaxLog
            BY <1>0, <2>1 DEF PrimaryRestore
        <3>2. /\ log' \in Seq(Records) /\ l = n + 1
              /\ \A i \in 1 .. n : log'[i] = log[i]
              /\ log'[n + 1] = CheckpointRecord(m)
            BY <1>0, <1>1, <1>2, <3>1, Appended
        <3>3. LogKept /\ Commits' = Commits
            BY <1>2, <3>1, AppendKeeps
        <3>4. l \in n .. MaxLog /\ l \in n .. n + 1
            BY <1>1, <3>1, <3>2
        <3>5. log'[l].kind = "checkpoint"
            BY <1>2, <3>2
        <3> QED BY <3>2, <3>3, <3>4, <3>5
    <2>2. CASE ~recorded
        <3>1. log' = log
            BY <2>2 DEF PrimaryRestore
        <3>2. l = n
            BY <1>0, <3>1
        <3>3. LogKept /\ Commits' = Commits
            BY <3>1 DEF LogKept, Commits
        <3> QED BY <1>1, <3>1, <3>2, <3>3
    <2> QED BY <2>1, <2>2
<1>5. TypeOK'
    <2>1. marker' \in [manifest : Manifests, lsn : 0 .. Len(log')]
        BY <1>0, <1>2, <1>3, <1>4
    <2> QED BY <1>0, <1>2, <1>3, <1>4, <2>1 DEF TypeOK, replica, poll
<1>6. LogShape'
    <2>1. ASSUME NEW i \in 1 .. l - 1
          PROVE  log'[i].kind = "write" <=> log'[i + 1].kind = "commit"
        <3>1. CASE i = n
            <4>1. i + 1 = l /\ i \in 1 .. n
                BY <1>4, <3>1
            <4> QED BY <1>1, <1>4, <3>1, <4>1
        <3>2. CASE i # n
            <4>1. i \in 1 .. n - 1 /\ i + 1 \in 1 .. n
                BY <1>4, <3>2
            <4> QED BY <1>0, <1>4, <4>1 DEF LogShape
        <3> QED BY <3>1, <3>2
    <2>2. l # 0 => log'[l].kind # "write"
        BY <1>1, <1>4
    <2>3. ~InTransaction'
        BY <1>0, <2>2 DEF InTransaction
    <2>4. marker'.lsn = l /\ 1 \notin Commits'
        BY <1>3, <1>4 DEF LogShape
    <2>5. \A i \in Commits' : log'[i].manifest # <<>>
        BY <1>4 DEF LogShape, LogKept
    <2> QED BY <1>0, <2>1, <2>2, <2>3, <2>4, <2>5 DEF LogShape
<1>7. FoldAgrees'
    <2>1. \A i \in CommitsAbove(l)' :
            log'[i].manifest = Append(BaseOf(l, m, i)', Commit({i - 1}, i))
        <3>1. CommitsAbove(l)' = {}
            BY <1>0, <1>4 DEF CommitsAbove, Commits
        <3> QED BY <3>1
    <2>2. BaseOf(l, m, l + 1)' = m
        <3>1. Marks(l, l + 1)' = {}
            BY DEF Marks
        <3> QED BY <3>1 DEF BaseOf
    <2>3. m \in Committed'
        BY <1>4, KeptCommitted
    <2>5. /\ marker'.lsn = l /\ marker'.manifest = m /\ Len(log') + 1 = l + 1
          /\ pHead' = BaseOf(l, m, l + 1)' /\ {m, pHead'} \subseteq Committed'
        BY <1>0, <1>3, <2>2, <2>3
    <2> QED BY <2>1, <2>5, FoldAgreesNext
<1>8. Sound /\ ShippingInv => FollowsPrimary' /\ AppliedIsHead' /\ PollAgrees'
    BY <1>3, <1>4, KeptFollower DEF poll, PollAgrees, ShippingInv
<1> QED BY <1>4, <1>5, <1>6, <1>7, <1>8 DEF ShippingInv

\* No step of the primary takes a commit out of the log or spoils its shape, and
\* while no poll is torn none spoils the invariant.
LEMMA PrimaryKeeps ==
    ASSUME TypeOK, LogShape, PrimaryStep
    PROVE  /\ TypeOK' /\ LogShape' /\ LogKept /\ UNCHANGED <<replica, poll>>
           /\ Sound /\ ShippingInv => ShippingInv'
<1>1. UNCHANGED <<replica, poll>>
    BY DEF PrimaryStep, LogWrite, LogCommit, PrimaryCrash, PrimaryRestore
<1>2. CASE LogWrite
    BY <1>1, <1>2, LogWriteKeeps
<1>3. CASE LogCommit
    BY <1>1, <1>3, LogCommitKeeps
<1>4. CASE PrimaryCrash
    BY <1>1, <1>4, PrimaryCrashKeeps
<1>5. ASSUME NEW m \in Committed, NEW recorded \in CheckpointRecords, PrimaryRestore(m, recorded)
      PROVE  /\ TypeOK' /\ LogShape' /\ LogKept
             /\ Sound /\ ShippingInv => ShippingInv'
    BY <1>5, PrimaryRestoreKeeps
<1> QED BY <1>1, <1>2, <1>3, <1>4, <1>5 DEF PrimaryStep

-----------------------------------------------------------------------------
(* The invariant is kept by the follower.                                  *)

\* The invariant depends on the primary only through its log and marker.
LEMMA PrimaryUnchanged ==
    ASSUME ShippingInv, UNCHANGED primary
    PROVE  LogShape' /\ FoldAgrees' /\ Commits' = Commits /\ Committed' = Committed
<1>1. LogShape'
    BY DEF ShippingInv, LogShape, InTransaction, Commits, primary
<1>2. FoldAgrees'
    <2>1. log' = log /\ marker' = marker /\ pHead' = pHead
        BY DEF primary
    <2>2. PICK l, b, n : l = marker.lsn /\ b = marker.manifest /\ n = Len(log) + 1
        OBVIOUS
    <2>3. \A i : BaseOf(l, b, i)' = BaseOf(l, b, i)
        BY <2>1 DEF BaseOf, Marks
    <2>4. /\ CommitsAbove(l)' = CommitsAbove(l)
          /\ Commits' = Commits /\ Committed' = Committed
        BY <2>1 DEF CommitsAbove, Commits, Committed
    <2>5. /\ pHead' = BaseOf(l, b, n)' /\ {b, pHead'} \subseteq Committed'
          /\ \A i \in CommitsAbove(l)' :
               log'[i].manifest = Append(BaseOf(l, b, i)', Commit({i - 1}, i))
        BY <2>1, <2>2, <2>3, <2>4 DEF ShippingInv, FoldAgrees
    <2>6. marker'.lsn = l /\ marker'.manifest = b /\ Len(log') + 1 = n
        BY <2>1, <2>2
    <2> QED BY <2>5, <2>6, FoldAgreesNext
<1>3. Commits' = Commits /\ Committed' = Committed
    BY DEF Commits, Committed, primary
<1> QED BY <1>1, <1>2, <1>3

\* Growing is transitive.
LEMMA BehindGrows ==
    ASSUME NEW S, NEW v \in Seq(S), NEW h \in Seq(S), NEW g \in Seq(S),
           Behind(v, h), Behind(h, g)
    PROVE  Behind(v, g)
<1>1. Len(v) \in Nat /\ Len(h) \in Nat /\ Len(g) \in Nat
    OBVIOUS
<1>2. 1 .. Len(v) \subseteq 1 .. Len(h)
    BY <1>1 DEF Behind
<1> QED BY <1>1, <1>2 DEF Behind

\* Whatever is applied, the head only grows, and the engine is not told.
LEMMA ApplyGrows ==
    ASSUME TypeOK, NEW s \in Shipments,
           AlreadyPresent(s) \/ Advance(s) \/ OutOfOrder(s) \/ Diverge(s)
    PROVE  /\ head' \in Manifests /\ Behind(head, head')
           /\ visible' = visible /\ applied' \in 0 .. MaxLog
<1>1. /\ head \in Manifests /\ applied \in 0 .. MaxLog /\ s.lsn \in 0 .. MaxLog
      /\ s.writes \in SUBSET LSN /\ s.at \in 0 .. MaxLog
    BY DEF TypeOK, Shipments, LSN
<1>2. Behind(head, head)
    BY <1>1 DEF Behind, Manifests
<1>3. Derived(s) \in Manifests /\ Behind(head, Derived(s))
    <2>1. Commit(s.writes, s.at) \in [writes : SUBSET LSN, at : 0 .. MaxLog]
        BY <1>1 DEF Commit
    <2>2. \A S : \A h \in Seq(S), e \in S : Append(h, e) \in Seq(S) /\ Behind(h, Append(h, e))
        BY Appended DEF Behind
    <2> QED BY <1>1, <2>1, <2>2 DEF Derived, Manifests
<1>4. head' = head \/ head' = Derived(s)
    BY DEF AlreadyPresent, Advance, OutOfOrder, Diverge, replica
<1>5. visible' = visible /\ applied' \in 0 .. MaxLog
    BY <1>1 DEF AlreadyPresent, Advance, OutOfOrder, Diverge, replica
<1> QED BY <1>1, <1>2, <1>3, <1>4, <1>5

\* Steps of a poll that leave the follower where it is.
LEMMA ReadingKeeps ==
    ASSUME ShippingInv, UNCHANGED <<primary, head>>, visible' \in {visible, head},
           applied' \in {applied, 0},
           TypeOK', PollAgrees'
    PROVE  ShippingInv'
<1>1. FollowsPrimary' /\ AppliedIsHead'
    BY PrimaryUnchanged DEF ShippingInv, FollowsPrimary, AppliedIsHead, primary
<1> QED BY <1>1, PrimaryUnchanged DEF ShippingInv

\* Applying an honest shipment leaves the follower where it is or takes it to
\* the commit the shipment is of: it cannot diverge.
LEMMA HonestApply ==
    ASSUME ShippingInv, UNCHANGED primary,
           NEW s \in Shipments, Honest(s), s.lsn \in Commits, s.manifest = log[s.lsn].manifest,
           AlreadyPresent(s) \/ Advance(s) \/ OutOfOrder(s) \/ Diverge(s)
    PROVE  FollowsPrimary' /\ AppliedIsHead'
<1> USE DEF ShippingInv
<1>1. /\ s.manifest \in Manifests /\ s.lsn \in 1 .. MaxLog /\ s.manifest \in Committed
      /\ head \in Manifests /\ applied \in 0 .. MaxLog
    BY DEF Shipments, LSN, Committed, TypeOK
<1>2. /\ log' = log /\ Commits' = Commits /\ Committed' = Committed
    BY PrimaryUnchanged DEF primary
<1>3. CASE AlreadyPresent(s)
    BY <1>1, <1>2, <1>3 DEF AlreadyPresent, FollowsPrimary, AppliedIsHead
<1>4. CASE Advance(s)
    BY <1>1, <1>2, <1>4 DEF Advance, FollowsPrimary, AppliedIsHead
<1>5. CASE OutOfOrder(s)
    BY <1>1, <1>2, <1>5 DEF OutOfOrder, replica, FollowsPrimary, AppliedIsHead
<1>6. ~Diverge(s)
    BY DEF Diverge, Derived, Honest
<1> QED BY <1>3, <1>4, <1>5, <1>6

\* No step of the follower spoils the types, and if one changes what the engine
\* shows, it is to the head.
LEMMA FollowerTypes ==
    ASSUME TypeOK, LogShape, FollowerStep \/ Failure
    PROVE  TypeOK' /\ UNCHANGED primary /\ Behind(head, head') /\ visible' \in {visible, head'}
<1>0. /\ log \in Seq(Records) /\ Len(log) \in 0 .. MaxLog /\ marker.lsn \in 0 .. Len(log)
      /\ marker.manifest \in Manifests
    BY LogType
<1> DEFINE Typed(A) == A => /\ TypeOK' /\ UNCHANGED primary /\ Behind(head, head')
                            /\ visible' \in {visible, head'}
<1>1. Behind(head, head)
    BY DEF TypeOK, Behind, Manifests
<1>2. ASSUME NEW t \in (1 .. Len(log)) \cup {Unbounded}, Begin(t)
      PROVE  TypeOK' /\ UNCHANGED <<primary, replica>>
    BY <1>0, <1>2 DEF Begin, TypeOK, Goto, primary, replica, Unbounded
<1>3. SearchMarker => TypeOK' /\ UNCHANGED <<primary, replica>>
    BY <1>0 DEF SearchMarker, TypeOK, Goto, primary, replica
<1>4. SearchLog => TypeOK' /\ UNCHANGED <<primary, replica>>
    <2>1. \A i \in Found : i + 1 \in 0 .. Unbounded
        BY <1>0 DEF Found, CommitsAbove, Commits, Unbounded
    <2> QED BY <1>0, <2>1 DEF SearchLog, TypeOK, Goto, primary, replica
<1>5. ASSUME Idle, UNCHANGED primary, head' \in Manifests, visible' \in {visible, head'},
             applied' \in 0 .. MaxLog
      PROVE  TypeOK'
    BY <1>0, <1>5 DEF Idle, TypeOK, primary, Manifests, Unbounded
<1>6. FollowerUnknown \/ CatchUpReturn \/ PollFail => TypeOK' /\ UNCHANGED <<primary, replica>>
    <2> SUFFICES ASSUME FollowerUnknown \/ CatchUpReturn \/ PollFail
                 PROVE  TypeOK' /\ UNCHANGED <<primary, replica>>
        OBVIOUS
    <2>1. Idle /\ UNCHANGED <<primary, replica>>
        BY DEF FollowerUnknown, CatchUpReturn, PollFail
    <2> QED BY <1>5, <2>1 DEF replica, TypeOK
<1>7. ReadMarkerLsn => TypeOK' /\ UNCHANGED <<primary, replica>>
    BY <1>0 DEF ReadMarkerLsn, TypeOK, Goto, primary, replica
<1>8. ReadStartHead => TypeOK' /\ UNCHANGED <<primary, replica>>
    BY <1>0 DEF ReadStartHead, TypeOK, Goto, primary, replica
<1>9. ReadRecords => TypeOK' /\ UNCHANGED <<primary, replica>>
    <2>1. cp \in Nat /\ base \in Manifests
        BY DEF TypeOK
    <2>2. ShipmentsFrom(cp, base, from) \subseteq Shipments
        BY <2>1, ShipmentsTyped
    <2> QED BY <1>0, <2>2 DEF ReadRecords, TypeOK, Goto, primary, replica
<1>10. Typed(ApplyNext)
    <2> SUFFICES ASSUME ApplyNext
                 PROVE  /\ TypeOK' /\ UNCHANGED primary /\ Behind(head, head')
                        /\ visible' \in {visible, head'}
        OBVIOUS
    <2>1. PICK s \in queue : (AlreadyPresent(s) \/ Advance(s)) /\ queue' = queue \ {s}
        BY DEF ApplyNext
    <2>2. UNCHANGED <<primary, pc, bound, from, cp, base>>
        BY DEF ApplyNext
    <2>3. s \in Shipments
        BY DEF TypeOK
    <2>4. /\ head' \in Manifests /\ Behind(head, head')
          /\ visible' = visible /\ applied' \in 0 .. MaxLog
        BY <2>1, <2>3, ApplyGrows
    <2> QED BY <1>0, <2>1, <2>2, <2>4 DEF TypeOK, primary
<1>11. Typed(ApplyRefused)
    <2> SUFFICES ASSUME ApplyRefused
                 PROVE  /\ TypeOK' /\ UNCHANGED primary /\ Behind(head, head')
                        /\ visible' \in {visible, head'}
        OBVIOUS
    <2>1. PICK s \in queue : OutOfOrder(s) \/ Diverge(s)
        BY DEF ApplyRefused
    <2>2. UNCHANGED primary /\ Idle /\ s \in Shipments
        BY DEF ApplyRefused, TypeOK
    <2>3. /\ head' \in Manifests /\ Behind(head, head')
          /\ visible' = visible /\ applied' \in 0 .. MaxLog
        BY <2>1, <2>2, ApplyGrows
    <2> QED BY <1>5, <2>2, <2>3
<1>12. RestoreReturn \/ Reopen => TypeOK' /\ UNCHANGED <<primary, head>> /\ visible' = head
    <2> SUFFICES ASSUME RestoreReturn \/ Reopen
                 PROVE  TypeOK' /\ UNCHANGED <<primary, head>> /\ visible' = head
        OBVIOUS
    <2>1. Idle /\ UNCHANGED <<primary, head>> /\ visible' = head /\ applied' \in {applied, 0}
        BY DEF RestoreReturn, Reopen
    <2> QED BY <1>5, <2>1 DEF TypeOK
<1>13. Refresh => TypeOK' /\ UNCHANGED <<primary, head>> /\ visible' = head
    BY <1>0 DEF Refresh, TypeOK, primary, poll
<1>14. Typed(DeliverShipped \/ DeliverAltered)
    <2> SUFFICES ASSUME DeliverShipped \/ DeliverAltered
                 PROVE  /\ TypeOK' /\ UNCHANGED primary /\ Behind(head, head')
                        /\ visible' \in {visible, head'}
        OBVIOUS
    <2>1. PICK i \in Commits : Deliver(Shipped(i)) \/ Deliver(Altered(i))
        BY DEF DeliverShipped, DeliverAltered
    <2>2. PICK s \in Shipments : Deliver(s)
        BY <2>1, DeliveredHonestly, AlteredTyped
    <2>3. /\ AlreadyPresent(s) \/ Advance(s) \/ OutOfOrder(s) \/ Diverge(s)
          /\ UNCHANGED <<primary, poll>>
        BY <2>2 DEF Deliver
    <2>4. /\ head' \in Manifests /\ Behind(head, head')
          /\ visible' = visible /\ applied' \in 0 .. MaxLog
        BY <2>3, ApplyGrows
    <2> QED BY <1>0, <2>3, <2>4 DEF TypeOK, primary, poll
<1>15. TypeOK' /\ UNCHANGED <<primary, replica>>
          => /\ TypeOK' /\ UNCHANGED primary /\ Behind(head, head')
             /\ visible' \in {visible, head'}
    BY <1>1 DEF replica
<1>16. TypeOK' /\ UNCHANGED <<primary, head>> /\ visible' = head
          => /\ TypeOK' /\ UNCHANGED primary /\ Behind(head, head')
             /\ visible' \in {visible, head'}
    BY <1>1
<1> QED BY <1>2, <1>3, <1>4, <1>6, <1>7, <1>8, <1>9, <1>10, <1>11, <1>12, <1>13, <1>14, <1>15, <1>16
        DEF FollowerStep, PollStep, Failure, BeginCatchUp, BeginRestore

\* Every step of the follower keeps the invariant.
LEMMA FollowerKeeps ==
    ASSUME Sound, ShippingInv, FollowerStep \/ Failure
    PROVE  ShippingInv'
<1> USE DEF ShippingInv
<1>0. /\ UNCHANGED primary /\ TypeOK' /\ Commits' = Commits /\ Committed' = Committed
      /\ log' = log /\ marker' = marker
    BY FollowerTypes, PrimaryUnchanged DEF primary
<1>1. ASSUME UNCHANGED queue, pc' \notin {"base", "log"} PROVE PollAgrees'
    BY <1>0, <1>1 DEF PollAgrees
<1>2. ASSUME Idle PROVE PollAgrees'
    BY <1>2 DEF PollAgrees, Idle
<1>3. ASSUME UNCHANGED replica, PollAgrees' PROVE ShippingInv'
    BY <1>0, <1>3, ReadingKeeps DEF replica
<1>4. ASSUME NEW t, Begin(t) PROVE ShippingInv'
    <2>1. UNCHANGED <<replica, queue>> /\ pc' \notin {"base", "log"}
        BY <1>4 DEF Begin, Goto
    <2> QED BY <1>1, <1>3, <2>1
<1>5. CASE SearchMarker \/ SearchLog
    <2>1. UNCHANGED <<replica, queue>> /\ pc' \notin {"base", "log"}
        BY <1>5 DEF SearchMarker, SearchLog, Goto
    <2> QED BY <1>1, <1>3, <2>1
<1>6. CASE FollowerUnknown \/ CatchUpReturn \/ PollFail
    <2>1. Idle /\ UNCHANGED replica
        BY <1>6 DEF FollowerUnknown, CatchUpReturn, PollFail
    <2> QED BY <1>2, <1>3, <2>1
<1>7. CASE ReadMarkerLsn
    <2>1. PollAgrees' /\ UNCHANGED replica
        BY <1>0, <1>7 DEF ReadMarkerLsn, PollAgrees, Goto
    <2> QED BY <1>3, <2>1
<1>8. CASE ReadStartHead
    <2>1. PollAgrees' /\ UNCHANGED replica
        BY <1>0, <1>8 DEF ReadStartHead, PollAgrees, Goto
    <2> QED BY <1>3, <2>1
<1>9. CASE ReadRecords
    <2>1. queue' = ShipmentsFrom(marker.lsn, marker.manifest, from) /\ from \in Nat
        BY <1>9 DEF ReadRecords, PollAgrees, TypeOK, Unbounded
    <2>2. \A s \in queue' : Honest(s) /\ s.lsn \in Commits /\ s.manifest = log[s.lsn].manifest
        BY <2>1, ShippedHonestly
    <2>3. PollAgrees' /\ UNCHANGED replica
        BY <1>0, <1>9, <2>2 DEF ReadRecords, PollAgrees, Goto
    <2> QED BY <1>3, <2>3
<1>10. ASSUME NEW s \in Shipments, Honest(s), s.lsn \in Commits, s.manifest = log[s.lsn].manifest,
              AlreadyPresent(s) \/ Advance(s) \/ OutOfOrder(s) \/ Diverge(s),
              PollAgrees'
       PROVE  ShippingInv'
    BY <1>0, <1>10, HonestApply, PrimaryUnchanged
<1>11. CASE ApplyNext
    <2>1. PICK s \in queue : (AlreadyPresent(s) \/ Advance(s)) /\ queue' = queue \ {s}
        BY <1>11 DEF ApplyNext
    <2>2. s \in Shipments /\ Honest(s) /\ s.lsn \in Commits /\ s.manifest = log[s.lsn].manifest
        BY DEF TypeOK, PollAgrees
    <2>3. PollAgrees'
        BY <1>0, <1>11, <2>1 DEF ApplyNext, PollAgrees
    <2> QED BY <1>10, <2>1, <2>2, <2>3
<1>12. CASE ApplyRefused
    <2>1. PICK s \in queue : OutOfOrder(s) \/ Diverge(s)
        BY <1>12 DEF ApplyRefused
    <2>2. s \in Shipments /\ Honest(s) /\ s.lsn \in Commits /\ s.manifest = log[s.lsn].manifest
        BY DEF TypeOK, PollAgrees
    <2>3. PollAgrees'
        BY <1>2, <1>12 DEF ApplyRefused
    <2> QED BY <1>10, <2>1, <2>2, <2>3
<1>13. CASE RestoreReturn \/ Reopen
    <2>1. Idle /\ UNCHANGED head /\ visible' = head /\ applied' \in {applied, 0}
        BY <1>13 DEF RestoreReturn, Reopen
    <2> QED BY <1>0, <1>2, <2>1, ReadingKeeps
<1>14. CASE Refresh
    <2>1. PollAgrees' /\ UNCHANGED <<head, applied>> /\ visible' = head
        BY <1>0, <1>14 DEF Refresh, PollAgrees, poll
    <2> QED BY <1>0, <2>1, ReadingKeeps
<1>15. CASE DeliverShipped
    <2>1. PICK i \in Commits : Deliver(Shipped(i))
        BY <1>15 DEF DeliverShipped
    <2>2. PICK s : s = Shipped(i)
        OBVIOUS
    <2>3. s \in Shipments /\ Honest(s) /\ s.lsn \in Commits /\ s.manifest = log[s.lsn].manifest
        BY <2>2, DeliveredHonestly
    <2>4. AlreadyPresent(s) \/ Advance(s) \/ OutOfOrder(s) \/ Diverge(s)
        BY <2>1, <2>2 DEF Deliver
    <2>5. PollAgrees'
        BY <1>0, <2>1 DEF Deliver, PollAgrees, poll
    <2> QED BY <1>10, <2>3, <2>4, <2>5
<1>16. ~DeliverAltered
    BY DEF DeliverAltered, Sound
<1> QED BY <1>4, <1>5, <1>6, <1>7, <1>8, <1>9, <1>11, <1>12, <1>13, <1>14, <1>15, <1>16
        DEF FollowerStep, PollStep, Failure, BeginCatchUp, BeginRestore

-----------------------------------------------------------------------------
(* The theorems.                                                           *)

\* Every step keeps the shape of the log and moves the view, if at all, to the head.
LEMMA ViewStep ==
    ASSUME ViewInv, [Next]_vars
    PROVE  ViewInv' /\ Behind(visible, visible')
<1>1. TypeOK /\ LogShape /\ Behind(visible, head)
    BY DEF ViewInv
<1>2. /\ TypeOK' /\ LogShape'
      /\ Behind(head, head') /\ visible' \in {visible, head'}
    <2>1. Behind(head, head)
        BY <1>1 DEF TypeOK, Behind, Manifests
    <2>2. CASE PrimaryStep
        BY <1>1, <2>1, <2>2, PrimaryKeeps DEF replica
    <2>3. CASE FollowerStep \/ Failure
        <3>1. TypeOK' /\ UNCHANGED primary /\ Behind(head, head') /\ visible' \in {visible, head'}
            BY <1>1, <2>3, FollowerTypes
        <3> QED BY <1>1, <3>1 DEF LogShape, InTransaction, Commits, primary
    <2>4. CASE UNCHANGED vars
        BY <1>1, <2>1, <2>4 DEF vars, primary, replica, poll, TypeOK, LogShape, InTransaction, Commits
    <2> QED BY <2>2, <2>3, <2>4 DEF Next
<1>3. /\ visible \in Manifests /\ visible' \in Manifests
      /\ head \in Manifests /\ head' \in Manifests
    BY <1>1, <1>2 DEF TypeOK
<1>4. Behind(visible, head') /\ Behind(head', head') /\ Behind(visible, visible)
    <2>1. Behind(head', head') /\ Behind(visible, visible)
        BY <1>3 DEF Behind, Manifests
    <2> QED BY <1>1, <1>2, <1>3, <2>1, BehindGrows DEF Manifests
<1>5. Behind(visible, visible') /\ Behind(visible', head')
    BY <1>2, <1>4
<1> QED BY <1>2, <1>5 DEF ViewInv

\* Whatever is torn, altered, refused or lost, the state is well formed and the engine
\* shows a state that the follower's head has grown out of.
THEOREM ShippingViewInvariant ==
    Spec => []ViewInv
<1>1. Init => ViewInv
    <2> SUFFICES ASSUME Init PROVE ViewInv
        OBVIOUS
    <2>1. TypeOK
        BY DEF Init, TypeOK, Manifests, Unbounded
    <2>2. LogShape
        BY DEF Init, LogShape, InTransaction, Commits
    <2>3. Behind(visible, head)
        BY DEF Init, Behind
    <2> QED BY <2>1, <2>2, <2>3 DEF ViewInv
<1>2. ViewInv /\ [Next]_vars => ViewInv'
    BY ViewStep
<1> QED BY <1>1, <1>2, PTL DEF Spec

\* Every variable keeps its type.
THEOREM ShippingTypeOK ==
    Spec => []TypeOK
<1>1. ViewInv => TypeOK
    BY DEF ViewInv
<1> QED BY <1>1, ShippingViewInvariant, PTL

\* What queries see only moves forward, along one history: also when a poll is torn by
\* a checkpoint or a shipment altered.
THEOREM ShippingMonotoneView ==
    Spec => MonotoneView
<1>1. ViewInv /\ [Next]_vars => [Behind(visible, visible')]_visible
    BY ViewStep
<1> QED BY <1>1, ShippingViewInvariant, PTL DEF Spec, MonotoneView

\* Folding the log reproduces the primary's commits, and what polls and callers
\* hand to the follower is what the primary committed.
THEOREM ShippingInvariant ==
    ASSUME Sound
    PROVE  Spec => []ShippingInv
<1>1. Init => ShippingInv
    <2> SUFFICES ASSUME Init PROVE ShippingInv
        OBVIOUS
    <2>1. Commits = {} /\ Committed = {<<>>}
        BY DEF Init, Commits, Committed
    <2>2. TypeOK
        BY DEF Init, TypeOK, Manifests, Unbounded
    <2>3. LogShape
        BY <2>1 DEF Init, LogShape, InTransaction
    <2>4. Marks(0, 1) = {}
        BY DEF Marks
    <2>5. FoldAgrees
        BY <2>1, <2>4 DEF Init, FoldAgrees, BaseOf, CommitsAbove
    <2>6. PollAgrees /\ FollowsPrimary /\ AppliedIsHead
        BY <2>1 DEF Init, PollAgrees, FollowsPrimary, AppliedIsHead
    <2> QED BY <2>2, <2>3, <2>5, <2>6 DEF ShippingInv
<1>2. ShippingInv /\ [Next]_vars => ShippingInv'
    <2> SUFFICES ASSUME ShippingInv, [Next]_vars PROVE ShippingInv'
        OBVIOUS
    <2>1. CASE PrimaryStep
        BY <2>1, PrimaryKeeps DEF ShippingInv
    <2>2. CASE FollowerStep \/ Failure
        BY <2>2, FollowerKeeps
    <2>3. CASE UNCHANGED vars
        <3>1. UNCHANGED <<primary, head>> /\ visible' = visible /\ applied' = applied
            BY <2>3 DEF vars, replica
        <3>2. TypeOK'
            BY <2>3 DEF ShippingInv, TypeOK, vars, primary, replica, poll
        <3>3. PollAgrees'
            BY <2>3 DEF ShippingInv, PollAgrees, Commits, vars, primary, replica, poll
        <3> QED BY <3>1, <3>2, <3>3, ReadingKeeps
    <2> QED BY <2>1, <2>2, <2>3 DEF Next
<1> QED BY <1>1, <1>2, PTL DEF Spec

\* The follower is, and shows, only what the primary committed.
THEOREM ShippingFollowsPrimary ==
    ASSUME Sound
    PROVE  Spec => []FollowsPrimary
<1>1. ShippingInv => FollowsPrimary
    BY DEF ShippingInv
<1> QED BY <1>1, ShippingInvariant, PTL

\* The position it keeps in memory is that of its durable head.
THEOREM ShippingAppliedIsHead ==
    ASSUME Sound
    PROVE  Spec => []AppliedIsHead
<1>1. ShippingInv => AppliedIsHead
    BY DEF ShippingInv
<1> QED BY <1>1, ShippingInvariant, PTL

-----------------------------------------------------------------------------
(* A restore is exact.                                                     *)

\* What a step of the primary does to the commits a poll can see: nothing, or it adds
\* one after an open write, or a checkpoint puts them all behind the marker.
LEMMA CommitsAfter ==
    ASSUME TypeOK, LogShape, PrimaryStep
    PROVE  \/ marker' = marker /\ Commits' = Commits
           \/ marker' = marker /\ InTransaction /\ Commits' = Commits \cup {Len(log) + 1}
           \/ CommitsAbove(marker.lsn)' = {}
<1>1. CASE LogWrite
    <2>1. WriteRecord \in Records /\ WriteRecord.kind = "write"
        BY DEF WriteRecord, Records, Manifests
    <2>2. log' = Append(log, WriteRecord) /\ marker' = marker
        BY <1>1 DEF LogWrite
    <2> QED BY <2>1, <2>2, AppendKeeps
<1>2. CASE LogCommit
    <2>1. PICK m : log' = Append(log, CommitRecord(m))
        BY <1>2 DEF LogCommit
    <2>2. InTransaction /\ marker' = marker
        BY <1>2 DEF LogCommit
    <2>3. /\ Len(log') = Len(log) + 1 /\ Len(log) \in Nat
          /\ \A i \in 1 .. Len(log) : log'[i] = log[i]
          /\ log'[Len(log) + 1] = CommitRecord(m)
        BY <2>1, LogType
    <2>4. Commits' = Commits \cup {Len(log) + 1}
        BY <2>3 DEF Commits, CommitRecord
    <2> QED BY <2>2, <2>4
<1>3. CASE PrimaryCrash
    BY <1>3, DropKeeps DEF PrimaryCrash
<1>4. CASE \E m \in Committed, recorded \in CheckpointRecords : PrimaryRestore(m, recorded)
    <2>1. marker'.lsn = Len(log')
        BY <1>4 DEF PrimaryRestore
    <2>2. Len(log') \in Nat
        BY PrimaryKeeps, LogType DEF TypeOK
    <2> QED BY <2>1, <2>2 DEF CommitsAbove, Commits
<1> QED BY <1>1, <1>2, <1>3, <1>4 DEF PrimaryStep

\* A step of the primary leaves a restore's target where it is, within the log or,
\* with the write of a lost transaction, right above it.
LEMMA TargetStays ==
    ASSUME TypeOK, LogShape, TargetSettled, PrimaryStep
    PROVE  TargetSettled'
<1>0. PICK n \in Nat : n = Len(log) /\ log \in Seq(Records)
    BY LogType
<1>1. bound' = bound /\ bound \in Nat
    BY PrimaryKeeps DEF poll, TypeOK, Unbounded
<1>2. CASE LogWrite
    <2>1. Len(log') = n + 1
        BY <1>0, <1>2 DEF LogWrite
    <2> QED BY <1>0, <1>1, <2>1 DEF TargetSettled
<1>3. CASE LogCommit
    <2>1. Len(log') = n + 1 /\ InTransaction
        BY <1>0, <1>3 DEF LogCommit
    <2> QED BY <1>0, <1>1, <2>1 DEF TargetSettled
<1>4. CASE PrimaryCrash
    <2>1. log # <<>> /\ log[n].kind = "write" /\ log' = SubSeq(log, 1, Len(log) - 1) /\ n # 0
        BY <1>0, <1>4 DEF PrimaryCrash, InTransaction
    <2>2. Len(log') = n - 1 /\ \A i \in 1 .. n - 1 : log'[i] = log[i]
        BY <1>0, <2>1, Dropped
    <2>3. ~InTransaction'
        <3>1. CASE n = 1
            BY <2>2, <3>1, PrimaryKeeps DEF InTransaction, TypeOK
        <3>2. CASE n # 1
            <4>1. n - 1 \in 1 .. Len(log) - 1 /\ (n - 1) + 1 = n
                BY <1>0, <2>1, <3>2
            <4>2. log[n - 1].kind # "write"
                <5>1. log[n - 1].kind = "write" <=> log[(n - 1) + 1].kind = "commit"
                    BY <4>1 DEF LogShape
                <5> QED BY <2>1, <4>1, <5>1
            <4> QED BY <1>0, <2>2, <4>1, <4>2 DEF InTransaction
        <3> QED BY <3>1, <3>2
    <2>4. bound # Unbounded => bound <= n
        BY <1>0, <1>4 DEF TargetSettled, PrimaryCrash
    <2> QED BY <1>0, <1>1, <2>1, <2>2, <2>3, <2>4 DEF TargetSettled
<1>5. CASE \E m \in Committed, recorded \in CheckpointRecords : PrimaryRestore(m, recorded)
    <2>1. log' = log \/ Len(log') = n + 1
        BY <1>0, <1>5 DEF PrimaryRestore
    <2> QED BY <1>0, <1>1, <2>1 DEF TargetSettled, InTransaction
<1> QED BY <1>2, <1>3, <1>4, <1>5 DEF PrimaryStep

\* So the commits a restore is after stay the same, or a checkpoint takes them away.
LEMMA UptoStays ==
    ASSUME TypeOK, LogShape, TargetSettled, PrimaryStep, bound # Unbounded, Upto(bound)' # {}
    PROVE  Upto(bound)' = Upto(bound) /\ marker' = marker
<1>1. bound' = bound /\ bound \in Nat /\ Len(log) \in Nat
    BY PrimaryKeeps, LogType DEF poll, TypeOK, Unbounded
<1>2. CommitsAbove(marker.lsn)' # {}
    BY DEF Upto
<1>3. CASE marker' = marker /\ Commits' = Commits
    BY <1>1, <1>3 DEF Upto, CommitsAbove
<1>4. CASE marker' = marker /\ InTransaction /\ Commits' = Commits \cup {Len(log) + 1}
    <2>1. bound <= Len(log)
        BY <1>4 DEF TargetSettled
    <2> QED BY <1>1, <1>4, <2>1 DEF Upto, CommitsAbove
<1> QED BY <1>2, <1>3, <1>4, CommitsAfter

\* The place a restore has come to is not lost when the primary goes on.
LEMMA PlaceKept ==
    ASSUME TypeOK, LogShape, TargetSettled, RestorePlaced, PrimaryStep
    PROVE  RestorePlaced'
<1>1. UNCHANGED <<head, pc, bound, queue>> /\ LogKept
    BY PrimaryKeeps DEF replica, poll
<1>2. ASSUME pc = "apply", bound # Unbounded, Upto(bound)' # {}
      PROVE  \E p \in 0 .. Len(log') : PlacedAt(p)'
    <2>1. Upto(bound)' = Upto(bound) /\ marker' = marker
        BY <1>2, UptoStays
    <2>2. PICK p \in 0 .. Len(log) : PlacedAt(p)
        BY <1>2, <2>1 DEF RestorePlaced
    <2>3. PlacedAt(p)'
        BY <1>1, <2>1, <2>2 DEF PlacedAt, LogKept
    <2>4. p \in 0 .. Len(log')
        <3>1. CASE p = marker.lsn
            BY <2>1, <3>1, PrimaryKeeps, LogType DEF TypeOK
        <3>2. CASE p \in Commits
            BY <1>1, <3>2 DEF LogKept, Commits
        <3> QED BY <2>2, <3>1, <3>2 DEF PlacedAt
    <2> QED BY <2>3, <2>4
<1>3. \A s, r \in queue' : s.lsn = r.lsn => s = r
    BY <1>1 DEF RestorePlaced
<1>4. Unbounded' = Unbounded
    BY DEF Unbounded
<1> QED BY <1>1, <1>2, <1>3, <1>4 DEF RestorePlaced

\* The next shipment comes before all that are left.
LEMMA EarliestFirst ==
    ASSUME TypeOK, RestorePlaced, queue # {}
    PROVE  /\ Earliest(queue) \in queue
           /\ \A r \in queue : Earliest(queue).lsn <= r.lsn
           /\ \A r \in queue \ {Earliest(queue)} : Earliest(queue).lsn < r.lsn
<1> DEFINE L == {s.lsn : s \in queue}
<1>1. \A s \in queue : s.lsn \in Nat
    BY DEF TypeOK, Shipments, LSN
<1>2. PICK l \in L : \A k \in L : l <= k
    <2>1. L \in SUBSET Nat /\ L # {}
        BY <1>1
    <2> HIDE DEF L
    <2> QED BY <2>1, LeastExists
<1>3. \E s \in queue : \A r \in queue : s.lsn <= r.lsn
    BY <1>2
<1>4. Earliest(queue) \in queue /\ \A r \in queue : Earliest(queue).lsn <= r.lsn
    BY <1>3 DEF Earliest
<1> HIDE DEF L
<1>5. ASSUME NEW e \in queue, \A r \in queue : e.lsn <= r.lsn
      PROVE  \A r \in queue \ {e} : e.lsn < r.lsn
    BY <1>1, <1>5 DEF RestorePlaced
<1> QED BY <1>4, <1>5

\* What a poll reads begins where resume_after put it and leaves nothing out.
LEMMA ReadingPlaces ==
    ASSUME ShippingInv, ResumesAtHead, ReadRecords
    PROVE  RestorePlaced'
<1> USE DEF ShippingInv
<1>1. /\ queue' = ShipmentsFrom(marker.lsn, marker.manifest, from) /\ from \in Nat
      /\ UNCHANGED <<primary, replica, bound>> /\ pc = "log"
    BY DEF ReadRecords, PollAgrees, TypeOK, Unbounded
<1>2. /\ log' = log /\ marker' = marker /\ head' = head /\ bound' = bound /\ Commits' = Commits
    BY <1>1, PrimaryUnchanged DEF primary, replica
<1>3. \A s \in queue' : s.lsn \in CommitsAbove(marker.lsn) /\ s.lsn >= from
                        /\ s = ShipmentAt(marker.lsn, marker.manifest, s.lsn)
    BY <1>1 DEF ShipmentsFrom, ShipmentAt
<1>4. ASSUME NEW i \in CommitsAbove(marker.lsn), i >= from PROVE \E s \in queue' : s.lsn = i
    <2>1. ShipmentAt(marker.lsn, marker.manifest, i) \in queue'
        BY <1>1, <1>4 DEF ShipmentsFrom
    <2>2. ShipmentAt(marker.lsn, marker.manifest, i).lsn = i
        BY DEF ShipmentAt
    <2> QED BY <2>1, <2>2
<1>5. \A s, r \in queue' : s.lsn = r.lsn => s = r
    BY <1>3
<1>6. marker.lsn \in 0 .. Len(log) /\ Len(log) \in Nat /\ Commits \subseteq 1 .. Len(log)
    BY LogType DEF Commits
<1>7. Upto(bound)' \subseteq CommitsAbove(marker.lsn)
    BY <1>2 DEF Upto, CommitsAbove
<1>8. \E p \in 0 .. Len(log') : PlacedAt(p)'
    <2>1. CASE from = 0
        <3>1. PlacedAt(marker.lsn)'
            <4>1. \A s \in queue' : marker.lsn < s.lsn
                BY <1>3, <1>6 DEF CommitsAbove
            <4>2. \A i \in Upto(bound)' : \E s \in queue' : s.lsn = i
                <5>1. \A i \in CommitsAbove(marker.lsn) : i >= from
                    BY <1>6, <2>1 DEF CommitsAbove
                <5> QED BY <1>4, <1>7, <5>1
            <4> QED BY <1>2, <4>1, <4>2 DEF PlacedAt
        <3> QED BY <1>2, <1>6, <3>1
    <2>2. CASE from # 0
        <3>1. PICK p \in Commits : from = p + 1 /\ log[p].manifest = head
            BY <1>1, <2>2 DEF ResumesAtHead
        <3>2. \A s \in queue' : p < s.lsn
            <4>1. \A i \in Commits : i >= p + 1 => p < i
                BY <1>6
            <4> QED BY <1>3, <3>1, <4>1 DEF CommitsAbove
        <3>3. \A i \in Upto(bound)' : i <= p \/ \E s \in queue' : s.lsn = i
            <4> SUFFICES ASSUME NEW i \in CommitsAbove(marker.lsn), ~(i <= p)
                         PROVE  \E s \in queue' : s.lsn = i
                BY <1>7
            <4>1. i >= from
                BY <1>6, <3>1 DEF CommitsAbove
            <4> QED BY <1>4, <4>1
        <3>4. PlacedAt(p)'
            BY <1>2, <3>1, <3>2, <3>3 DEF PlacedAt
        <3> QED BY <1>2, <1>6, <3>1, <3>4
    <2> QED BY <2>1, <2>2
<1> QED BY <1>5, <1>8 DEF RestorePlaced

\* Applying the next shipment takes the follower to the commit it is of.
LEMMA ApplyingPlaces ==
    ASSUME ShippingInv, RestorePlaced, ApplyNext
    PROVE  RestorePlaced'
<1> USE DEF ShippingInv
<1>1. PICK s \in queue : /\ s = Earliest(queue) /\ queue' = queue \ {s}
                         /\ AlreadyPresent(s) \/ Advance(s)
    BY DEF ApplyNext, Due
<1>2. /\ log' = log /\ marker' = marker /\ bound' = bound /\ Commits' = Commits /\ pc = "apply"
    BY PrimaryUnchanged DEF ApplyNext, primary
<1>3. \A r \in queue' : s.lsn < r.lsn
    BY <1>1, EarliestFirst
<1>4. s.lsn \in Commits /\ log[s.lsn].manifest = head' /\ s.lsn \in 0 .. Len(log)
    <2>1. s.lsn \in Commits /\ s.manifest = log[s.lsn].manifest
        BY DEF PollAgrees
    <2>2. head' = s.manifest
        BY <1>1 DEF AlreadyPresent, Advance
    <2> QED BY <2>1, <2>2 DEF Commits
<1>5. ASSUME bound # Unbounded, Upto(bound) # {}
      PROVE  \E p \in 0 .. Len(log') : PlacedAt(p)'
    <2>1. PICK p \in 0 .. Len(log) : PlacedAt(p)
        BY <1>2, <1>5 DEF RestorePlaced
    <2>2. ASSUME NEW i \in Upto(bound) PROVE i <= s.lsn \/ \E r \in queue' : r.lsn = i
        <3>1. CASE i <= p
            <4>1. p < s.lsn /\ i \in Nat
                BY <2>1 DEF PlacedAt, Upto, CommitsAbove, Commits
            <4> QED BY <1>4, <3>1, <4>1
        <3>2. CASE ~(i <= p)
            <4>1. PICK r \in queue : r.lsn = i
                BY <2>1, <3>2 DEF PlacedAt
            <4> QED BY <1>1, <1>4, <4>1
        <3> QED BY <3>1, <3>2
    <2>3. Upto(bound)' = Upto(bound)
        BY <1>2 DEF Upto, CommitsAbove
    <2>4. PlacedAt(s.lsn)'
        BY <1>2, <1>3, <1>4, <2>2, <2>3 DEF PlacedAt
    <2> QED BY <1>2, <1>4, <2>4
<1>6. \A r, q \in queue' : r.lsn = q.lsn => r = q
    BY <1>1 DEF RestorePlaced
<1>7. Upto(bound)' = Upto(bound) /\ Unbounded' = Unbounded
    BY <1>2 DEF Upto, CommitsAbove, Unbounded
<1> QED BY <1>2, <1>5, <1>6, <1>7 DEF RestorePlaced

\* Every step of the follower keeps what is known of a restore.
LEMMA RestoringKeeps ==
    ASSUME ShippingInv, TargetSettled, ResumesAtHead, RestorePlaced, FollowerStep \/ Failure
    PROVE  TargetSettled' /\ ResumesAtHead' /\ RestorePlaced'
<1>0. /\ TypeOK' /\ log' = log /\ marker' = marker /\ Commits' = Commits
      /\ Len(log) \in 0 .. MaxLog
    BY FollowerTypes, PrimaryUnchanged, LogType DEF ShippingInv, primary
<1>1. ASSUME bound' = bound \/ bound' \in 0 .. Len(log) \/ bound' = Unbounded
      PROVE  TargetSettled'
    BY <1>0, <1>1 DEF TargetSettled, InTransaction, Unbounded
<1>2. ASSUME pc' # "apply", queue' = queue \/ queue' = {}
      PROVE  RestorePlaced'
    BY <1>2 DEF RestorePlaced
<1>3. ASSUME Idle
      PROVE  TargetSettled' /\ ResumesAtHead' /\ RestorePlaced'
    <2>1. bound' \in 0 .. Len(log) /\ pc' = "idle" /\ queue' = {}
        BY <1>0, <1>3 DEF Idle
    <2> QED BY <1>1, <1>2, <2>1 DEF ResumesAtHead
<1>4. ASSUME NEW t \in (1 .. Len(log)) \cup {Unbounded}, Begin(t)
      PROVE  TargetSettled' /\ ResumesAtHead' /\ RestorePlaced'
    <2>1. /\ bound' \in 0 .. Len(log) \/ bound' = Unbounded
          /\ queue' = queue /\ pc' # "apply" /\ (pc' = "search" \/ from' = 0)
        BY <1>0, <1>4 DEF Begin, Goto
    <2>2. ResumesAtHead'
        BY <1>0, <2>1 DEF ResumesAtHead
    <2> QED BY <1>1, <1>2, <2>1, <2>2
<1>5. CASE SearchMarker
    <2>1. bound' = bound /\ queue' = queue /\ pc' = "find"
        BY <1>5 DEF SearchMarker, Goto
    <2> QED BY <1>1, <1>2, <2>1 DEF ResumesAtHead
<1>6. CASE SearchLog
    <2>1. /\ bound' = bound /\ queue' = queue /\ pc' = "mark" /\ head' = head
          /\ \E i \in Found : from' = i + 1
        BY <1>6 DEF SearchLog, Goto, replica
    <2>2. ResumesAtHead'
        BY <1>0, <2>1 DEF ResumesAtHead, Found, CommitsAbove
    <2> QED BY <1>1, <1>2, <2>1, <2>2
<1>7. CASE ReadMarkerLsn \/ ReadStartHead
    <2>1. /\ bound' = bound /\ queue' = queue /\ pc' # "apply" /\ head' = head
          /\ from' = from /\ pc \in {"mark", "base"}
        BY <1>7 DEF ReadMarkerLsn, ReadStartHead, Goto, replica
    <2>2. ResumesAtHead'
        BY <1>0, <2>1 DEF ResumesAtHead
    <2> QED BY <1>1, <1>2, <2>1, <2>2
<1>8. CASE ReadRecords
    <2>1. bound' = bound /\ pc' = "apply"
        BY <1>8 DEF ReadRecords, Goto
    <2> QED BY <1>1, <1>8, <2>1, ReadingPlaces DEF ResumesAtHead
<1>9. CASE ApplyNext
    <2>1. bound' = bound /\ pc' = "apply"
        BY <1>9 DEF ApplyNext
    <2> QED BY <1>1, <1>9, <2>1, ApplyingPlaces DEF ResumesAtHead
<1>10. CASE \/ FollowerUnknown \/ ApplyRefused \/ CatchUpReturn \/ RestoreReturn
            \/ PollFail \/ Reopen
    BY <1>3, <1>10 DEF FollowerUnknown, ApplyRefused, CatchUpReturn, RestoreReturn, PollFail, Reopen
<1>11. CASE DeliverShipped \/ DeliverAltered \/ Refresh
    <2>1. pc = "idle" /\ UNCHANGED poll
        BY <1>11 DEF DeliverShipped, DeliverAltered, Deliver, Refresh
    <2>2. bound' = bound /\ queue' = queue /\ pc' = "idle"
        BY <2>1 DEF poll
    <2> QED BY <1>1, <1>2, <2>2 DEF ResumesAtHead
<1> QED BY <1>4, <1>5, <1>6, <1>7, <1>8, <1>9, <1>10, <1>11
        DEF FollowerStep, PollStep, Failure, BeginCatchUp, BeginRestore

\* While no poll is torn and no shipment altered, a restore always knows how far it is.
THEOREM ShippingRestoreInvariant ==
    ASSUME Sound
    PROVE  Spec => []RestoreInv
<1> DEFINE Restoring == TargetSettled /\ ResumesAtHead /\ RestorePlaced
<1>1. Init => Restoring
    BY DEF Init, TargetSettled, ResumesAtHead, RestorePlaced, Unbounded, InTransaction
<1>2. ShippingInv /\ Restoring /\ [Next]_vars => Restoring'
    <2> SUFFICES ASSUME ShippingInv, Restoring, [Next]_vars PROVE Restoring'
        OBVIOUS
    <2>1. CASE PrimaryStep
        <3>1. TargetSettled'
            BY <2>1, TargetStays DEF ShippingInv
        <3>2. UNCHANGED <<pc, from, head>> /\ LogKept
            BY <2>1, PrimaryKeeps DEF ShippingInv, replica, poll
        <3>3. ResumesAtHead'
            BY <3>2 DEF ResumesAtHead, LogKept
        <3>4. RestorePlaced'
            BY <2>1, PlaceKept DEF ShippingInv
        <3> QED BY <3>1, <3>3, <3>4
    <2>2. CASE FollowerStep \/ Failure
        BY <2>2, RestoringKeeps
    <2>3. CASE UNCHANGED vars
        <3>1. /\ UNCHANGED <<log, marker, head, pc, bound, from, queue>> /\ Commits' = Commits
            BY <2>3 DEF vars, primary, replica, poll, Commits
        <3>2. Upto(bound)' = Upto(bound) /\ Unbounded' = Unbounded /\ InTransaction' = InTransaction
            BY <3>1 DEF Upto, CommitsAbove, Unbounded, InTransaction
        <3>3. \A p : PlacedAt(p)' <=> PlacedAt(p)
            BY <3>1, <3>2 DEF PlacedAt
        <3> QED BY <3>1, <3>2, <3>3 DEF TargetSettled, ResumesAtHead, RestorePlaced
    <2> QED BY <2>1, <2>2, <2>3 DEF Next
<1>3. ShippingInv /\ Restoring => RestoreInv
    BY DEF RestoreInv
<1> HIDE DEF Restoring
<1> QED BY <1>1, <1>2, <1>3, ShippingInvariant, PTL DEF Spec

\* A restore that has nothing left to apply is at the last commit up to its target, or
\* was past the target before.
LEMMA ReturnIsExact ==
    ASSUME RestoreInv, RestoreReturn, Upto(bound) # {}, ~PastTarget
    PROVE  head = log[Latest(Upto(bound))].manifest
<1> USE DEF RestoreInv, ShippingInv
<1>1. bound # Unbounded /\ pc = "apply" /\ \A s \in queue : ~Due(s)
    BY DEF RestoreReturn, Exhausted
<1>2. PICK p \in 0 .. Len(log) : PlacedAt(p)
    BY <1>1 DEF RestorePlaced
<1>3. bound \in Nat /\ marker.lsn \in Nat /\ Len(log) \in Nat /\ Upto(bound) \in SUBSET Nat
    BY LogType DEF TypeOK, Unbounded, Upto, CommitsAbove, Commits
<1>4. \A s \in queue : s.lsn \in Nat /\ bound < s.lsn
    <2> SUFFICES ASSUME NEW s \in queue PROVE s.lsn \in Nat /\ bound < s.lsn
        OBVIOUS
    <2>1. \A r \in queue : r.lsn \in Nat
        BY DEF TypeOK, Shipments, LSN
    <2>2. Earliest(queue) \in queue /\ Earliest(queue).lsn <= s.lsn
        BY EarliestFirst
    <2>3. ~(Earliest(queue).lsn <= bound)
        BY <1>1, <2>2 DEF Due
    <2> QED BY <1>3, <2>1, <2>2, <2>3
<1>5. \A i \in Upto(bound) : i <= p
    <2> SUFFICES ASSUME NEW i \in Upto(bound) PROVE i <= p
        OBVIOUS
    <2>1. i <= bound /\ i \in Nat
        BY <1>3 DEF Upto
    <2>2. \A s \in queue : s.lsn # i
        BY <1>3, <1>4, <2>1
    <2> QED BY <1>2, <2>2 DEF PlacedAt
<1>6. p > marker.lsn
    <2>1. PICK i \in Upto(bound) : TRUE
        OBVIOUS
    <2>2. i > marker.lsn /\ i \in Nat /\ i <= p
        BY <1>3, <1>5, <2>1 DEF Upto, CommitsAbove
    <2> QED BY <1>3, <2>2
<1>7. p \in Commits /\ log[p].manifest = head
    BY <1>2, <1>3, <1>6 DEF PlacedAt
<1>8. p <= bound
    BY <1>3, <1>7 DEF PastTarget
<1>9. p \in Upto(bound)
    BY <1>6, <1>7, <1>8 DEF Upto, CommitsAbove
<1>10. Latest(Upto(bound)) = p
    BY <1>3, <1>5, <1>9, LatestIs
<1> QED BY <1>7, <1>10

\* restore_to applies nothing beyond its target, and returns at the primary's manifest as
\* of the target, whatever the primary commits, loses or restores in the meantime.
THEOREM ShippingRestoreIsExact ==
    ASSUME Sound
    PROVE  Spec => RestoreIsExact
<1>1. RestoreInv /\ [Next]_vars =>
        [/\ ApplyNext /\ head' # head => applied' <= bound
         /\ RestoreReturn /\ Upto(bound) # {} /\ ~PastTarget
              => head = log[Latest(Upto(bound))].manifest]_vars
    <2>1. ASSUME ApplyNext, head' # head PROVE applied' <= bound
        <3>1. PICK s \in queue : Due(s) /\ Advance(s)
            BY <2>1 DEF ApplyNext, AlreadyPresent
        <3> QED BY <3>1 DEF Due, Advance
    <2> QED BY <2>1, ReturnIsExact
<1> QED BY <1>1, ShippingRestoreInvariant, PTL DEF Spec, RestoreIsExact

-----------------------------------------------------------------------------
(* A follower is a read replica.                                           *)

\* What was appended to can be had back.
LEMMA ParentOf ==
    ASSUME NEW S, NEW h \in Seq(S), NEW e \in S
    PROVE  Append(h, e) # <<>> /\ SubSeq(Append(h, e), 1, Len(Append(h, e)) - 1) = h
<1> DEFINE m == Append(h, e)
           d == SubSeq(m, 1, Len(m) - 1)
<1>1. m \in Seq(S) /\ m # <<>> /\ Len(m) = Len(h) + 1 /\ \A i \in 1 .. Len(h) : m[i] = h[i]
    BY Appended
<1> HIDE DEF m
<1>2. d \in Seq(S) /\ Len(d) = Len(m) - 1 /\ \A i \in 1 .. Len(m) - 1 : d[i] = m[i]
    BY <1>1, Dropped
<1>3. Len(d) = Len(h) /\ \A i \in 1 .. Len(h) : d[i] = h[i]
    <2>1. Len(h) \in Nat
        OBVIOUS
    <2>2. Len(m) - 1 = Len(h)
        BY <1>1, <2>1
    <2> QED BY <1>1, <1>2, <2>2
<1> HIDE DEF d
<1>4. d = h
    BY <1>2, <1>3
<1> QED BY <1>1, <1>4 DEF m, d

\* The primary commits on top of its head or goes back to what it committed; the rest
\* of what it does is not noticed.
LEMMA PrimaryIsReplicated ==
    ASSUME ShippingInv, PrimaryStep
    PROVE  [Replica!Next]_(Replica!vars)
<1> USE DEF ShippingInv
<1>0. UNCHANGED <<head, visible>>
    BY PrimaryKeeps DEF replica
<1>1. ASSUME Commits' = Commits, LogKept PROVE Committed' = Committed
    BY <1>1 DEF LogKept, Committed
<1>2. CASE LogWrite \/ PrimaryCrash
    <2>1. Commits' = Commits
        <3>1. WriteRecord \in Records /\ WriteRecord.kind = "write"
            BY DEF WriteRecord, Records, Manifests
        <3> QED BY <1>2, <3>1, AppendKeeps, DropKeeps DEF LogWrite, PrimaryCrash
    <2>2. Committed' = Committed /\ pHead' = pHead
        BY <1>1, <1>2, <2>1, PrimaryKeeps DEF LogWrite, PrimaryCrash
    <2> QED BY <1>0, <2>2 DEF Replica!vars
<1>3. CASE LogCommit
    <2>1. PICK n, m : /\ n \in Nat /\ n = Len(log) /\ m = Append(pHead, Commit({n}, n + 1))
                     /\ log' = Append(log, CommitRecord(m)) /\ pHead' = m
        <3>1. Len(log) \in Nat
            BY LogType
        <3> QED BY <1>3, <3>1 DEF LogCommit
    <2>2. n \in LSN
        BY <1>3, <2>1, LogType DEF LogCommit, InTransaction, LSN
    <2>3. /\ Len(log') = n + 1 /\ \A i \in 1 .. n : log'[i] = log[i]
          /\ log'[n + 1] = CommitRecord(m)
        BY <2>1, LogType
    <2>4. Commits' = Commits \cup {n + 1} /\ \A i \in Commits : log'[i] = log[i] /\ i # n + 1
        BY <2>1, <2>3 DEF Commits, CommitRecord
    <2>5. Committed' = Committed \cup {m}
        <3>1. log'[n + 1].manifest = m
            BY <2>3 DEF CommitRecord
        <3> QED BY <2>4, <3>1 DEF Committed
    <2>6. Replica!Commit(Commit({n}, n + 1))
        BY <1>0, <2>1, <2>5 DEF Replica!Commit
    <2> QED BY <2>2, <2>6 DEF Replica!Next
<1>4. CASE \E m \in Committed, recorded \in CheckpointRecords : PrimaryRestore(m, recorded)
    <2>1. PICK m \in Committed, recorded \in CheckpointRecords : PrimaryRestore(m, recorded)
        BY <1>4
    <2>2. m \in Manifests
        <3>1. \A i \in Commits : log[i].manifest \in Manifests
            BY LogType DEF Commits
        <3>2. <<>> \in Manifests
            BY DEF Manifests
        <3> QED BY <3>1, <3>2 DEF Committed
    <2>3. Commits' = Commits
        <3>1. CheckpointRecord(m) \in Records /\ CheckpointRecord(m).kind = "checkpoint"
            BY <2>2 DEF CheckpointRecord, Records
        <3>2. log' = log => Commits' = Commits
            BY DEF Commits
        <3> QED BY <2>1, <3>1, <3>2, AppendKeeps DEF PrimaryRestore
    <2>4. Committed' = Committed
        BY <1>1, <1>4, <2>3, PrimaryKeeps DEF PrimaryStep
    <2>5. Replica!Rewind(m)
        BY <1>0, <2>1, <2>4 DEF Replica!Rewind, PrimaryRestore
    <2> QED BY <2>5 DEF Replica!Next
<1> QED BY <1>2, <1>3, <1>4 DEF PrimaryStep

\* Applying an honest shipment is a step to the next commit, or none.
LEMMA ApplyIsReplicated ==
    ASSUME ShippingInv, UNCHANGED primary,
           NEW s \in Shipments, Honest(s), s.lsn \in Commits, s.manifest = log[s.lsn].manifest,
           AlreadyPresent(s) \/ Advance(s) \/ OutOfOrder(s) \/ Diverge(s)
    PROVE  [Replica!Next]_(Replica!vars)
<1>1. Committed' = Committed /\ pHead' = pHead
    BY PrimaryUnchanged DEF primary
<1>2. CASE AlreadyPresent(s) \/ OutOfOrder(s)
    BY <1>1, <1>2 DEF AlreadyPresent, OutOfOrder, replica, Replica!vars
<1>3. CASE Advance(s)
    <2>1. /\ s.manifest = Append(head, Commit(s.writes, s.at)) /\ head' = s.manifest
          /\ visible' = visible /\ s.manifest \in Committed
        BY <1>3 DEF Advance, Derived, Committed
    <2>2. s.manifest # <<>> /\ SubSeq(s.manifest, 1, Len(s.manifest) - 1) = head
        <3>1. Commit(s.writes, s.at) \in [writes : SUBSET LSN, at : 0 .. MaxLog]
            BY DEF Commit, Shipments
        <3>2. head \in Seq([writes : SUBSET LSN, at : 0 .. MaxLog])
            BY DEF ShippingInv, TypeOK, Manifests
        <3> QED BY <2>1, <3>1, <3>2, ParentOf
    <2>3. Replica!Advance(s.manifest)
        BY <1>1, <2>1, <2>2 DEF Replica!Advance, Replica!Parent
    <2> QED BY <2>1, <2>3 DEF Replica!Next
<1>4. ~Diverge(s)
    BY DEF Diverge, Derived, Honest
<1> QED BY <1>2, <1>3, <1>4

\* So is every step of the follower: a commit further, a view brought up to date, or
\* nothing to be seen.
LEMMA FollowerIsReplicated ==
    ASSUME Sound, ShippingInv, FollowerStep \/ Failure
    PROVE  [Replica!Next]_(Replica!vars)
<1>0. UNCHANGED primary /\ Committed' = Committed /\ pHead' = pHead
    BY FollowerTypes, PrimaryUnchanged DEF ShippingInv, primary
<1>1. ASSUME UNCHANGED replica PROVE [Replica!Next]_(Replica!vars)
    BY <1>0, <1>1 DEF replica, Replica!vars
<1>2. ASSUME head' = head, visible' = head PROVE [Replica!Next]_(Replica!vars)
    <2>1. Replica!Show
        BY <1>0, <1>2 DEF Replica!Show
    <2> QED BY <2>1 DEF Replica!Next
<1>3. ASSUME NEW t, Begin(t) PROVE UNCHANGED replica
    BY <1>3 DEF Begin
<1>4. CASE \/ SearchMarker \/ SearchLog \/ FollowerUnknown \/ ReadMarkerLsn \/ ReadStartHead
           \/ ReadRecords \/ CatchUpReturn \/ PollFail
    BY <1>1, <1>4 DEF SearchMarker, SearchLog, FollowerUnknown, ReadMarkerLsn, ReadStartHead,
                      ReadRecords, CatchUpReturn, PollFail
<1>5. CASE RestoreReturn \/ Refresh \/ Reopen
    BY <1>2, <1>5 DEF RestoreReturn, Refresh, Reopen
<1>6. CASE ApplyNext \/ ApplyRefused
    <2>1. PICK s \in queue : AlreadyPresent(s) \/ Advance(s) \/ OutOfOrder(s) \/ Diverge(s)
        BY <1>6 DEF ApplyNext, ApplyRefused
    <2>2. s \in Shipments /\ Honest(s) /\ s.lsn \in Commits /\ s.manifest = log[s.lsn].manifest
        BY DEF ShippingInv, TypeOK, PollAgrees
    <2> QED BY <1>0, <2>1, <2>2, ApplyIsReplicated
<1>7. CASE DeliverShipped
    <2>1. PICK i, s : i \in Commits /\ Deliver(s) /\ s = Shipped(i)
        BY <1>7 DEF DeliverShipped
    <2>2. s \in Shipments /\ Honest(s) /\ s.lsn \in Commits /\ s.manifest = log[s.lsn].manifest
        BY <2>1, DeliveredHonestly DEF ShippingInv
    <2> QED BY <1>0, <2>1, <2>2, ApplyIsReplicated DEF Deliver
<1>8. ~DeliverAltered
    BY DEF DeliverAltered, Sound
<1> QED BY <1>1, <1>3, <1>4, <1>5, <1>6, <1>7, <1>8
        DEF FollowerStep, PollStep, Failure, BeginCatchUp, BeginRestore

\* Log shipping implements a read replica, while no poll is torn and no shipment altered.
THEOREM ShippingImplementsReadReplica ==
    ASSUME Sound
    PROVE  Spec => ReplicaSpec
<1>1. Init => Replica!Init
    BY DEF Init, Replica!Init, Committed, Commits
<1>2. ShippingInv /\ [Next]_vars => [Replica!Next]_(Replica!vars)
    <2>1. UNCHANGED vars => UNCHANGED Replica!vars
        BY DEF vars, primary, replica, Replica!vars, Committed, Commits
    <2> QED BY <2>1, PrimaryIsReplicated, FollowerIsReplicated DEF Next
<1> QED BY <1>1, <1>2, ShippingInvariant, PTL DEF Spec, ReplicaSpec, Replica!Spec
=============================================================================
