--------------------------- MODULE TieringProofs ---------------------------
(***************************************************************************)
(* What sleep, wake and ensure_durable promise, for any files, page size   *)
(* and bounds, whatever dies and whatever pool is lost: a token wakes with *)
(* its whole history, and a snapshot is what queries saw.                  *)
(***************************************************************************)
EXTENDS Tiering, PagingProofs

USE TieringAssumption

-----------------------------------------------------------------------------
(* Manifests.                                                              *)

\* The page tables that persist commits: they lie well and hold a file.
Tables == {t \in UNION {[D -> Files] : D \in SUBSET Nat} :
              DOMAIN t # {} /\ WellLaid(t) /\ Hydrated(t) \in DbFiles}

Chains == Seq(Tables)

\* A table of these is a function from page numbers to pages.
LEMMA TableType ==
    ASSUME NEW t \in Tables
    PROVE  /\ DOMAIN t \subseteq Nat /\ DOMAIN t # {} /\ \A p \in DOMAIN t : t[p] \in Files
           /\ t = [p \in DOMAIN t |-> t[p]] /\ IsTable(t) /\ t # NoPages
<1>1. PICK D \in SUBSET Nat : t \in [D -> Files]
    BY DEF Tables
<1> QED
    BY <1>1 DEF Tables, IsTable, NoPages

\* What a chain resolves to is its last table, or no pages.
LEMMA ResolveType ==
    ASSUME NEW m \in Chains
    PROVE  /\ IsManifest(m)
           /\ m # <<>> => Resolve(m) \in Tables
           /\ m = <<>> => Resolve(m) = NoPages
           /\ DOMAIN Resolve(m) \subseteq Nat
           /\ Resolve(m) = [p \in DOMAIN Resolve(m) |-> Resolve(m)[p]]
           /\ \A p \in DOMAIN Resolve(m) : Resolve(m)[p] \in Files
<1>1. \A n \in 1..Len(m) : m[n] \in Tables
    BY ElementOfSeq DEF Chains
<1>2. IsManifest(m)
    BY <1>1, TableType DEF IsManifest
<1>3. CASE m = <<>>
    BY <1>2, <1>3 DEF Resolve, NoPages
<1>4. CASE m # <<>>
  <2>1. Len(m) \in 1..Len(m)
      BY <1>4, EmptySeq DEF Chains
  <2>2. Resolve(m) \in Tables
      BY <1>1, <1>4, <2>1 DEF Resolve
  <2> QED
      BY <1>2, <1>4, <2>2, TableType
<1> QED
    BY <1>3, <1>4

\* Opening a chain of these gives one of the files.
LEMMA FileOfType ==
    ASSUME NEW m \in Chains
    PROVE  FileOf(m) \in DbFiles
<1>1. CASE m = <<>>
    BY <1>1, ResolveType DEF FileOf
<1>2. CASE m # <<>>
  <2>1. Resolve(m) \in Tables /\ Resolve(m) # NoPages
      BY <1>2, ResolveType, TableType
  <2> QED
      BY <2>1 DEF FileOf, Tables
<1> QED
    BY <1>1, <1>2

\* What a checkpoint leaves the head at, and what it puts into the store.
HeadAfter(m, f) == IF NothingChanged(Resolve(m), f) THEN m
                   ELSE Append(m, Persisted(Resolve(m), f))

Put(m, f) == {Chunk(f, p) : p \in Written(Resolve(m), f)}

\* A checkpoint commits the file it folded, and only that.
LEMMA CheckpointIsTheFile ==
    ASSUME NEW m \in Chains, NEW f \in DbFiles
    PROVE  /\ Persisted(Resolve(m), f) \in Tables
           /\ HeadAfter(m, f) \in Chains /\ FileOf(HeadAfter(m, f)) = f
<1> DEFINE old == Resolve(m)
           new == Persisted(old, f)
<1>1. f \in Files /\ f # <<>>
    OBVIOUS
<1>2. DOMAIN old \subseteq Nat /\ old = [p \in DOMAIN old |-> old[p]]
    BY ResolveType
<1>3. new = [p \in PageNos(f) |-> Chunk(f, p)]
    BY <1>1, <1>2, PersistedIsTheFile
<1>4. WellLaid(new) /\ Hydrated(new) = f
    BY <1>1, <1>2, PagingRoundTrip
<1>5. 0 \in PageNos(f) /\ PageNos(f) \in SUBSET Nat
    BY <1>1, PageCountFits DEF PageNos
<1>6. new \in [PageNos(f) -> Files]
    BY <1>1, <1>3, ChunkHolds
<1>7. DOMAIN new # {}
    BY <1>3, <1>5
<1>8. new \in Tables
    BY <1>4, <1>5, <1>6, <1>7 DEF Tables
<1>9. new # NoPages
    BY <1>8, TableType
<1>10. CASE NothingChanged(old, f)
  <2>1. new = old
      BY <1>1, <1>2, <1>10, NothingToPersist
  <2> HIDE DEF new, old
  <2>2. FileOf(m) = f
      BY <1>4, <1>9, <2>1 DEF FileOf, old
  <2> QED
      BY <1>8, <1>10, <2>2 DEF HeadAfter, old, new
<1>11. CASE ~NothingChanged(old, f)
  <2> HIDE DEF new
  <2>1. HeadAfter(m, f) = Append(m, new)
      BY <1>11 DEF HeadAfter, new
  <2>2. /\ Append(m, new) \in Chains /\ Append(m, new) # <<>>
        /\ Append(m, new)[Len(Append(m, new))] = new
      BY <1>8, AppendProperties DEF Chains
  <2>3. Resolve(Append(m, new)) = new
      BY <2>2 DEF Resolve
  <2> QED
      BY <1>4, <1>8, <1>9, <2>1, <2>2, <2>3 DEF FileOf, new
<1> QED
    BY <1>10, <1>11

-----------------------------------------------------------------------------
(* Ancestries.                                                             *)

\* A chain's ancestors are chains, with it the last of them.
LEMMA AncestryType ==
    ASSUME NEW m \in Chains
    PROVE  /\ Ancestry(m) \subseteq Chains
           /\ m # <<>> => m \in Ancestry(m)
<1>1. ASSUME NEW n \in 1..Len(m) PROVE SubSeq(m, 1, n) \in Chains
    BY <1>1, SubSeqProperties, ElementOfSeq, LenProperties DEF Chains
<1>2. ASSUME m # <<>> PROVE SubSeq(m, 1, Len(m)) = m /\ Len(m) \in 1..Len(m)
    BY <1>2, SubSeqFull, EmptySeq DEF Chains
<1> QED
    BY <1>1, <1>2 DEF Ancestry

\* An ancestor's ancestors are ancestors.
LEMMA AncestryOfAncestor ==
    ASSUME NEW m \in Chains, NEW a \in Ancestry(m)
    PROVE  Ancestry(a) \subseteq Ancestry(m)
<1>1. PICK n \in 1..Len(m) : a = SubSeq(m, 1, n)
    BY DEF Ancestry
<1>2. Len(m) \in Nat /\ Len(a) = n /\ n \in Nat
    BY <1>1, SubSeqProperties, ElementOfSeq, LenProperties DEF Chains
<1>3. ASSUME NEW k \in 1..Len(a) PROVE SubSeq(a, 1, k) = SubSeq(m, 1, k) /\ k \in 1..Len(m)
  <2>1. a \in Seq(Tables) /\ m \in Seq(Tables)
      BY AncestryType DEF Chains
  <2>2. /\ 1 \in 1..Len(m) /\ n \in 1..Len(m)
        /\ 1 \in 1..(n - 1 + 1) /\ k \in 1..(n - 1 + 1)
      BY <1>2
  <2>3. SubSeq(SubSeq(m, 1, n), 1, k) = SubSeq(m, 1 + 1 - 1, 1 + k - 1)
      BY <2>1, <2>2, SubSeqOfSubSeq
  <2> QED
      BY <1>1, <1>2, <2>3
<1> QED
    BY <1>3 DEF Ancestry

\* One more commit adds itself and nothing else.
LEMMA AncestryOfAppend ==
    ASSUME NEW m \in Chains, NEW t \in Tables
    PROVE  Ancestry(Append(m, t)) = Ancestry(m) \cup {Append(m, t)}
<1> DEFINE a == Append(m, t)
<1>1. a \in Chains /\ Len(a) = Len(m) + 1 /\ Len(m) \in Nat /\ a # <<>>
    BY AppendProperties, LenProperties DEF Chains
<1>2. SubSeq(a, 1, Len(a)) = a
    BY <1>1, SubSeqFull DEF Chains
<1>3. ASSUME NEW n \in 1..Len(m) PROVE SubSeq(a, 1, n) = SubSeq(m, 1, n)
  <2>1. a = m \o <<t>> /\ <<t>> \in Seq(Tables)
      BY AppendIsConcat DEF Chains
  <2>2. 1 \in 1..Len(m) /\ n \in 1..Len(m)
      BY <1>1
  <2> QED
      BY <2>1, <2>2, SubSeqOfConcat1 DEF Chains
<1> HIDE DEF a
<1>4. 1..Len(a) = (1..Len(m)) \cup {Len(a)}
    BY <1>1
<1>5. Ancestry(a) = Ancestry(m) \cup {a}
    BY <1>2, <1>3, <1>4 DEF Ancestry
<1> QED
    BY <1>5 DEF a

-----------------------------------------------------------------------------
(* Stores.                                                                 *)

\* Every manifest in a store can be read with its history from that store.
Complete(s) == \A m \in s.manifests : Holds(s, Ancestry(m))

\* More pages and manifests take nothing away.
LEMMA HoldsGrows ==
    ASSUME NEW s, NEW u, s.pages \subseteq u.pages, s.manifests \subseteq u.manifests,
           NEW M, Holds(s, M), NEW L, L \subseteq M
    PROVE  Holds(u, L)
    BY DEF Holds, PagesOf

\* A store that takes a checkpoint's pages and manifest holds its history.
LEMMA CheckpointHolds ==
    ASSUME NEW s, NEW u, NEW m \in Chains, NEW f \in DbFiles,
           Complete(s), Holds(s, Ancestry(m)),
           u.pages = s.pages \cup Put(m, f),
           u.manifests = s.manifests \cup {HeadAfter(m, f)}
    PROVE  Complete(u) /\ Holds(u, Ancestry(HeadAfter(m, f)))
<1>1. s.pages \subseteq u.pages /\ s.manifests \subseteq u.manifests
    OBVIOUS
<1>2. Holds(u, Ancestry(HeadAfter(m, f)))
  <2>1. CASE NothingChanged(Resolve(m), f)
      BY <1>1, <2>1, HoldsGrows DEF HeadAfter
  <2>2. CASE ~NothingChanged(Resolve(m), f)
    <3> DEFINE new == Persisted(Resolve(m), f)
               a == Append(m, new)
    <3>1. a = HeadAfter(m, f)
        BY <2>2 DEF HeadAfter
    <3>2. new \in Tables
        BY CheckpointIsTheFile
    <3>3. a \in Chains /\ a # <<>> /\ Resolve(a) = new
      <4> HIDE DEF new
      <4>1. a \in Chains /\ a # <<>> /\ a[Len(a)] = new
          BY <3>2, AppendProperties DEF Chains
      <4> QED
          BY <4>1 DEF Resolve
    <3> HIDE DEF a
    <3>4. Ancestry(a) = Ancestry(m) \cup {a}
        BY <3>2, AncestryOfAppend DEF a
    <3>5. \A p \in DOMAIN new : new[p] \in Put(m, f) \/
              (p \in DOMAIN Resolve(m) /\ new[p] = Resolve(m)[p])
        BY DEF Persisted, Put
    <3>6. ASSUME NEW p \in DOMAIN Resolve(m) PROVE Resolve(m)[p] \in s.pages
      <4>1. m # <<>>
          BY <3>6, ResolveType DEF NoPages
      <4>2. m \in Ancestry(m)
          BY <4>1, AncestryType
      <4> QED
          BY <3>6, <4>2 DEF Holds, PagesOf
    <3>7. \A p \in DOMAIN new : new[p] \in u.pages
        BY <3>5, <3>6
    <3> HIDE DEF new
    <3>8. Holds(u, {a})
        BY <3>1, <3>3, <3>7 DEF Holds, PagesOf
    <3>9. Holds(u, Ancestry(m))
        BY <1>1, HoldsGrows
    <3>10. Holds(u, Ancestry(a))
        BY <3>4, <3>8, <3>9 DEF Holds, PagesOf
    <3> QED
        BY <3>1, <3>10
  <2> QED
      BY <2>1, <2>2
<1>3. ASSUME NEW n \in u.manifests PROVE Holds(u, Ancestry(n))
  <2>1. CASE n \in s.manifests
      BY <1>1, <2>1, HoldsGrows DEF Complete
  <2>2. CASE n = HeadAfter(m, f)
      BY <1>2, <2>2
  <2> QED
      BY <2>1, <2>2
<1> QED
    BY <1>2, <1>3 DEF Complete

\* A store that is handed a whole ancestry it has the pages of holds all it did and that.
LEMMA AncestryArrives ==
    ASSUME NEW s, NEW u, NEW m \in Chains, Complete(s),
           s.pages \subseteq u.pages, PagesOf(Ancestry(m)) \subseteq u.pages,
           u.manifests = s.manifests \cup Ancestry(m)
    PROVE  Complete(u) /\ Holds(u, Ancestry(m))
<1>1. Holds(u, Ancestry(m))
    BY DEF Holds
<1>2. ASSUME NEW n \in u.manifests PROVE Holds(u, Ancestry(n))
  <2>1. CASE n \in s.manifests
      BY <2>1, HoldsGrows DEF Complete
  <2>2. CASE n \in Ancestry(m)
      BY <1>1, <2>2, AncestryOfAncestor, HoldsGrows
  <2> QED
      BY <2>1, <2>2
<1> QED
    BY <1>1, <1>2 DEF Complete

-----------------------------------------------------------------------------
(* The invariant.                                                          *)

Stores == [pages : SUBSET Files, manifests : SUBSET Chains]

ChainsType ==
    /\ home \in Stores /\ bucket \in Stores
    /\ homeLog \in Chains /\ head \in Chains
    /\ pc \in {"closed", "open", "stage", "flush"}
    /\ mode \in {"local", "tiered"}
    /\ file \in DbFiles
    /\ pending \subseteq Files
    /\ staged \subseteq Chains /\ tokens \subseteq Chains /\ durable \subseteq Chains

\* What can be read through a tiered store, uploaded or not.
Remote == [pages |-> bucket.pages \cup pending,
           manifests |-> bucket.manifests \cup staged]

\* Every store is complete, also the bucket by itself: manifests follow their pages.
KeptInv ==
    /\ Complete(home) /\ Holds(home, Ancestry(homeLog))
    /\ Complete(bucket)
    /\ Complete(Remote)

ProcessInv ==
    /\ pc = "closed" => mode = "local"
    /\ mode = "local" /\ pc # "flush" => pending = {} /\ staged = {}
    /\ pc = "flush" => staged = Ancestry(head) /\ Holds(Remote, Ancestry(head))

TieringInv ==
    /\ ChainsType
    /\ KeptInv
    /\ ProcessInv
    /\ TokenComplete /\ DurableInBucket /\ HistoryReadable

\* What a chain promises of its file, for every manifest that can be opened.
LEMMA ProcessType ==
    ASSUME NEW l, NEW d, NEW m \in Chains, Process(l, d, m)
    PROVE  head' \in Chains /\ file' \in DbFiles
    BY FileOfType DEF Process

\* A handle that is dropped or dies leaves the stores and the callers' tokens complete.
LEMMA StopKeeps ==
    ASSUME TieringInv, Stop \/ LoseHome
    PROVE  TieringInv'
<1> USE DEF TieringInv
<1>1. <<>> \in Chains /\ Ancestry(<<>>) = {}
    BY DEF Chains, Ancestry
<1>2. CASE Stop
  <2>1. /\ pc' = "closed" /\ mode' = "local" /\ head' = <<>>
        /\ pending' = {} /\ staged' = {}
        /\ UNCHANGED <<home, homeLog, bucket, tokens, durable>>
      BY <1>2 DEF Stop, Closed, Process
  <2>2. ChainsType'
      BY <1>1, <1>2, <2>1, ProcessType DEF Stop, Closed, ChainsType
  <2>3. Complete(Remote)'
      BY <2>1 DEF KeptInv, Complete, Holds, Remote
  <2>4. KeptInv' /\ ProcessInv'
      BY <2>1, <2>3 DEF KeptInv, ProcessInv
  <2> QED
      BY <2>1, <2>2, <2>4 DEF TokenComplete, DurableInBucket, HistoryReadable
<1>3. CASE LoseHome
  <2>1. /\ pc = "closed" /\ home' = EmptyStore /\ homeLog' = <<>>
        /\ UNCHANGED <<bucket, pc, mode, head, file, pending, staged, tokens, durable>>
      BY <1>3 DEF LoseHome, process
  <2>2. ChainsType'
      BY <1>1, <2>1 DEF ChainsType, EmptyStore, Stores
  <2>3. Complete(home)' /\ Holds(home, Ancestry(homeLog))'
      BY <1>1, <2>1 DEF Complete, EmptyStore, Holds, PagesOf
  <2>4. KeptInv' /\ ProcessInv'
      BY <2>1, <2>3 DEF KeptInv, ProcessInv, Remote
  <2> QED
      BY <2>1, <2>2, <2>4 DEF TokenComplete, DurableInBucket, HistoryReadable
<1> QED
    BY <1>2, <1>3

\* A handle opens, wakes or is rewound only over a history it can read, also by a
\* restore that fails after its rewind.
LEMMA OpenKeeps ==
    ASSUME TieringInv,
           \/ Open \/ \E m \in tokens : Wake(m)
           \/ \E m \in Source.manifests : Restore(m) \/ RestoreFail(m)
    PROVE  TieringInv'
<1> USE DEF TieringInv
<1>1. CASE Open
  <2>1. /\ pc = "closed" /\ pc' = "open" /\ mode' = "local" /\ head' = homeLog
        /\ Process("open", "local", homeLog)
        /\ UNCHANGED <<home, homeLog, bucket, pending, staged, tokens, durable>>
      BY <1>1 DEF Open, Process
  <2>2. ChainsType'
      BY <2>1, ProcessType DEF ChainsType
  <2>3. KeptInv' /\ ProcessInv'
      BY <2>1 DEF KeptInv, ProcessInv, Remote
  <2>4. HistoryReadable'
      BY <2>1 DEF HistoryReadable, Source, KeptInv
  <2> QED
      BY <2>1, <2>2, <2>3, <2>4 DEF TokenComplete, DurableInBucket
<1>2. ASSUME NEW m \in tokens, Wake(m) PROVE TieringInv'
  <2>1. /\ pc = "closed" /\ pc' = "open" /\ mode' = "tiered" /\ head' = m
        /\ Process("open", "tiered", m)
        /\ UNCHANGED <<home, homeLog, bucket, pending, staged, tokens, durable>>
      BY <1>2 DEF Wake, Process
  <2>2. ChainsType'
      BY <2>1, ProcessType DEF ChainsType
  <2>3. KeptInv' /\ ProcessInv'
      BY <2>1 DEF KeptInv, ProcessInv, Remote
  <2>4. HistoryReadable'
      BY <2>1 DEF HistoryReadable, Source, TokenComplete, Holds
  <2> QED
      BY <2>1, <2>2, <2>3, <2>4 DEF TokenComplete, DurableInBucket
<1>3. ASSUME NEW m \in Source.manifests, Restore(m) \/ RestoreFail(m) PROVE TieringInv'
  <2>1. /\ pc = "open" /\ head' = m
        /\ homeLog' = IF mode = "local" THEN m ELSE homeLog
        /\ file' \in {FileOf(m), file}
        /\ UNCHANGED <<home, bucket, pc, mode, pending, staged, tokens, durable>>
      BY <1>3 DEF Restore, RestoreFail, Rewind
  <2>2. m \in Chains
      BY DEF Source, ChainsType, Stores
  <2>3. ChainsType'
      BY <2>1, <2>2, FileOfType DEF ChainsType
  <2>4. Holds(Source, Ancestry(m))
      BY DEF Source, KeptInv, Complete, Remote
  <2>5. Source' = Source
      BY <2>1 DEF Source
  <2>6. mode = "local" => Source = home
      BY DEF Source
  <2>7. Holds(home, Ancestry(homeLog))'
      BY <2>1, <2>4, <2>6 DEF KeptInv
  <2>8. KeptInv' /\ ProcessInv'
      BY <2>1, <2>7 DEF KeptInv, ProcessInv, Remote
  <2>9. HistoryReadable'
      BY <2>1, <2>4, <2>5 DEF HistoryReadable
  <2> QED
      BY <2>1, <2>3, <2>8, <2>9 DEF TokenComplete, DurableInBucket
<1> QED
    BY <1>1, <1>2, <1>3

\* What the checkpoint that begins a snapshot or a sleep does to head and stores.
LEMMA CheckpointSteps ==
    ASSUME Checkpoint
    PROVE  /\ head' = HeadAfter(head, file)
           /\ mode = "local" =>
                /\ home' = [pages |-> home.pages \cup Put(head, file),
                            manifests |-> home.manifests \cup {head'}]
                /\ homeLog' = head'
                /\ UNCHANGED <<pending, staged>>
           /\ mode # "local" =>
                /\ pending' = pending \cup Put(head, file)
                /\ staged' = staged \cup {head'}
                /\ UNCHANGED <<home, homeLog>>
    BY DEF Checkpoint, HeadAfter, Put, Folded, Cached

\* The pages of a file are pages.
LEMMA PutType ==
    ASSUME NEW m \in Chains, NEW f \in DbFiles
    PROVE  Put(m, f) \subseteq Files
<1>1. f \in Files /\ f # <<>>
    OBVIOUS
<1>2. \A p \in PageNos(f) : Chunk(f, p) \in Files
    BY <1>1, ChunkHolds
<1> QED
    BY <1>2 DEF Put, Written

\* A checkpoint leaves every store complete and the new head's history readable.
LEMMA CheckpointKeeps ==
    ASSUME TieringInv, Checkpoint, pc = "open", pc' \in {"open", "stage"},
           UNCHANGED <<bucket, mode, file, tokens, durable>>
    PROVE  TieringInv'
<1> USE DEF TieringInv
<1>1. /\ head \in Chains /\ file \in DbFiles /\ head' = HeadAfter(head, file)
      /\ head' \in Chains
    BY CheckpointSteps, CheckpointIsTheFile DEF ChainsType
<1>2. Put(head, file) \subseteq Files
    BY <1>1, PutType
<1>3. CASE mode = "local"
  <2>1. /\ home' = [pages |-> home.pages \cup Put(head, file),
                    manifests |-> home.manifests \cup {head'}]
        /\ homeLog' = head' /\ UNCHANGED <<pending, staged>>
      BY <1>3, CheckpointSteps
  <2>2. Holds(home, Ancestry(head))
      BY <1>3 DEF HistoryReadable, Source
  <2>3. home'.pages = home.pages \cup Put(head, file)
        /\ home'.manifests = home.manifests \cup {HeadAfter(head, file)}
      BY <1>1, <2>1
  <2>4. Complete(home') /\ Holds(home', Ancestry(head'))
      BY <1>1, <2>2, <2>3, CheckpointHolds DEF KeptInv
  <2>5. ChainsType'
    <3>1. home' \in Stores
        BY <1>1, <1>2, <2>1 DEF ChainsType, Stores
    <3> QED
        BY <1>1, <2>1, <3>1 DEF ChainsType
  <2>6. KeptInv'
      BY <2>1, <2>4 DEF KeptInv, Remote, Complete
  <2>7. ProcessInv'
      BY <1>3, <2>1 DEF ProcessInv
  <2>8. HistoryReadable'
      BY <1>3, <2>4 DEF HistoryReadable, Source
  <2> QED
      BY <2>5, <2>6, <2>7, <2>8 DEF TokenComplete, DurableInBucket
<1>4. CASE mode = "tiered"
  <2>1. /\ pending' = pending \cup Put(head, file) /\ staged' = staged \cup {head'}
        /\ UNCHANGED <<home, homeLog>>
      BY <1>4, CheckpointSteps
  <2>2. Holds(Remote, Ancestry(head))
      BY <1>4 DEF HistoryReadable, Source, Remote
  <2>3. Remote'.pages = Remote.pages \cup Put(head, file)
        /\ Remote'.manifests = Remote.manifests \cup {HeadAfter(head, file)}
      BY <1>1, <2>1 DEF Remote
  <2>4. Complete(Remote') /\ Holds(Remote', Ancestry(head'))
      BY <1>1, <2>2, <2>3, CheckpointHolds DEF KeptInv
  <2>5. ChainsType'
      BY <1>1, <1>2, <2>1 DEF ChainsType
  <2>6. KeptInv'
      BY <2>1, <2>4 DEF KeptInv, Complete
  <2>7. ProcessInv'
      BY <1>4 DEF ProcessInv
  <2>8. HistoryReadable'
      BY <1>4, <2>4 DEF HistoryReadable, Source, Remote
  <2> QED
      BY <2>5, <2>6, <2>7, <2>8 DEF TokenComplete, DurableInBucket
<1> QED
    BY <1>3, <1>4 DEF ChainsType

\* A page that reaches the bucket was readable before and is after.
LEMMA UploadKeeps ==
    ASSUME TieringInv, NEW page \in pending, Upload(page)
    PROVE  TieringInv'
<1> USE DEF TieringInv
<1>1. /\ bucket' = [bucket EXCEPT !.pages = @ \cup {page}] /\ pending' = pending \ {page}
      /\ UNCHANGED <<home, homeLog, pc, mode, head, file, staged, tokens, durable>>
    BY DEF Upload
<1>2. bucket'.pages = bucket.pages \cup {page} /\ bucket'.manifests = bucket.manifests
      /\ bucket' \in Stores
    BY <1>1 DEF ChainsType, Stores
<1>3. ChainsType'
    BY <1>1, <1>2 DEF ChainsType
<1>4. Remote' = Remote
    BY <1>1, <1>2 DEF Remote
<1>5. \A m \in Chains : Holds(bucket, Ancestry(m)) => Holds(bucket', Ancestry(m))
    BY <1>2, HoldsGrows
<1>6. Complete(bucket')
    BY <1>2, <1>5 DEF KeptInv, Complete, ChainsType, Stores
<1>7. KeptInv' /\ ProcessInv'
  <2>1. KeptInv'
      BY <1>1, <1>4, <1>6 DEF KeptInv
  <2>2. ProcessInv'
      BY <1>1, <1>4 DEF ProcessInv
  <2> QED
      BY <2>1, <2>2
<1>8. TokenComplete' /\ DurableInBucket'
    BY <1>1, <1>5 DEF TokenComplete, DurableInBucket, ChainsType
<1>9. HistoryReadable'
    BY <1>1, <1>4 DEF HistoryReadable, Source, Remote
<1> QED
    BY <1>3, <1>7, <1>8, <1>9

\* A bucket that gets a manifest's whole ancestry after its pages stays complete, and
\* all that was vouched for stays there.
LEMMA BucketKeeps ==
    ASSUME TieringInv, NEW m \in Chains, PagesOf(Ancestry(m)) \subseteq bucket.pages,
           bucket' = [bucket EXCEPT !.manifests = @ \cup Ancestry(m)]
    PROVE  /\ bucket' \in Stores /\ Complete(bucket') /\ Holds(bucket', Ancestry(m))
           /\ \A n \in Chains : Holds(bucket, Ancestry(n)) => Holds(bucket', Ancestry(n))
<1> USE DEF TieringInv
<1>1. bucket'.pages = bucket.pages /\ bucket'.manifests = bucket.manifests \cup Ancestry(m)
      /\ bucket' \in Stores
    BY AncestryType DEF ChainsType, Stores
<1>2. Complete(bucket') /\ Holds(bucket', Ancestry(m))
    BY <1>1, AncestryArrives DEF KeptInv
<1>3. ASSUME NEW n \in Chains, Holds(bucket, Ancestry(n))
      PROVE  Holds(bucket', Ancestry(n))
  <2>1. bucket.pages \subseteq bucket'.pages /\ bucket.manifests \subseteq bucket'.manifests
      BY <1>1
  <2> QED
      BY <1>3, <2>1, HoldsGrows
<1> QED
    BY <1>1, <1>2, <1>3

\* What ensure_durable vouches for is in the bucket: nothing was pending.
LEMMA EnsureKeeps ==
    ASSUME TieringInv, EnsureDurable
    PROVE  TieringInv'
<1> USE DEF TieringInv
<1>1. /\ pc = "open" /\ mode = "tiered" /\ pending = {}
      /\ bucket' = [bucket EXCEPT !.manifests = @ \cup Ancestry(head)]
      /\ durable' = durable \cup {head}
      /\ UNCHANGED <<home, homeLog, pc, mode, head, file, pending, staged, tokens>>
    BY DEF EnsureDurable, process
<1>2. head \in Chains
    BY DEF ChainsType
<1>3. Holds(Remote, Ancestry(head))
    BY <1>1 DEF HistoryReadable, Source, Remote
<1>4. PagesOf(Ancestry(head)) \subseteq bucket.pages
    BY <1>1, <1>3 DEF Holds, Remote
<1>5. /\ bucket' \in Stores /\ Complete(bucket') /\ Holds(bucket', Ancestry(head))
      /\ \A n \in Chains : Holds(bucket, Ancestry(n)) => Holds(bucket', Ancestry(n))
    BY <1>1, <1>2, <1>4, BucketKeeps
<1>6. ChainsType'
    BY <1>1, <1>2, <1>5 DEF ChainsType
<1>7. /\ Remote'.pages = Remote.pages
      /\ Remote'.manifests = Remote.manifests \cup Ancestry(head)
    BY <1>1 DEF Remote, ChainsType, Stores
<1>8. PagesOf(Ancestry(head)) \subseteq Remote'.pages /\ Remote.pages \subseteq Remote'.pages
    BY <1>3, <1>7 DEF Holds
<1>9. Complete(Remote') /\ Holds(Remote', Ancestry(head))
    BY <1>2, <1>7, <1>8, AncestryArrives DEF KeptInv
<1>10. KeptInv'
    BY <1>1, <1>5, <1>9 DEF KeptInv, Complete
<1>11. ProcessInv'
    BY <1>1 DEF ProcessInv
<1>12. TokenComplete' /\ DurableInBucket'
    BY <1>1, <1>5 DEF TokenComplete, DurableInBucket, ChainsType
<1>13. HistoryReadable'
    BY <1>1, <1>9 DEF HistoryReadable, Source, Remote
<1> QED
    BY <1>6, <1>10, <1>11, <1>12, <1>13

\* The walk of a sleep puts the whole ancestry of the head through the staging store.
LEMMA StageKeeps ==
    ASSUME TieringInv, Stage
    PROVE  TieringInv'
<1> USE DEF TieringInv
<1>1. /\ pc = "stage" /\ pc' = "flush" /\ Holds(Source, Ancestry(head))
      /\ staged' = Ancestry(head) /\ pending' = PagesOf(Ancestry(head))
      /\ UNCHANGED <<home, homeLog, bucket, mode, head, file, tokens, durable>>
    BY DEF Stage
<1>2. head \in Chains /\ Ancestry(head) \subseteq Chains
    BY AncestryType DEF ChainsType
<1>3. PagesOf(Ancestry(head)) \subseteq Files
  <2>1. Source.pages \subseteq Files
      BY DEF Source, ChainsType, Stores
  <2> QED
      BY <1>1, <2>1 DEF Holds
<1>4. ChainsType'
    BY <1>1, <1>2, <1>3 DEF ChainsType
<1>5. /\ bucket.pages \subseteq Remote'.pages
      /\ PagesOf(Ancestry(head)) \subseteq Remote'.pages
      /\ Remote'.manifests = bucket.manifests \cup Ancestry(head)
    BY <1>1 DEF Remote
<1>6. Complete(Remote') /\ Holds(Remote', Ancestry(head))
    BY <1>2, <1>5, AncestryArrives DEF KeptInv
<1>7. KeptInv'
    BY <1>1, <1>6 DEF KeptInv, Complete
<1>8. ProcessInv'
    BY <1>1, <1>6 DEF ProcessInv
<1>9. HistoryReadable'
  <2>1. CASE mode = "local"
      BY <1>1, <2>1 DEF HistoryReadable, Source
  <2>2. CASE mode # "local"
      BY <1>1, <1>6, <2>2 DEF HistoryReadable, Source, Remote
  <2> QED
      BY <2>1, <2>2
<1> QED
    BY <1>1, <1>4, <1>7, <1>8, <1>9 DEF TokenComplete, DurableInBucket

\* A sleep hands out its token once the bucket has all of it.
LEMMA SleepKeeps ==
    ASSUME TieringInv, SleepReturn
    PROVE  TieringInv'
<1> USE DEF TieringInv
<1>1. /\ pc = "flush" /\ pending = {}
      /\ bucket' = [bucket EXCEPT !.manifests = @ \cup staged]
      /\ tokens' = tokens \cup {head}
      /\ Process("closed", "local", <<>>) /\ pending' = {} /\ staged' = {}
      /\ UNCHANGED <<home, homeLog, durable>>
    BY DEF SleepReturn, Closed
<1>2. head \in Chains /\ <<>> \in Chains
    BY DEF ChainsType, Chains
<1>3. staged = Ancestry(head) /\ PagesOf(Ancestry(head)) \subseteq bucket.pages
    BY <1>1 DEF ProcessInv, Holds, Remote
<1>4. /\ bucket' \in Stores /\ Complete(bucket') /\ Holds(bucket', Ancestry(head))
      /\ \A n \in Chains : Holds(bucket, Ancestry(n)) => Holds(bucket', Ancestry(n))
    BY <1>1, <1>2, <1>3, BucketKeeps
<1>5. /\ head' \in Chains /\ file' \in DbFiles
      /\ pc' = "closed" /\ mode' = "local"
    BY <1>1, <1>2, ProcessType DEF Process
<1>6. ChainsType'
    BY <1>1, <1>2, <1>4, <1>5 DEF ChainsType
<1>7. Complete(Remote')
    BY <1>1, <1>4 DEF Remote, Complete, Holds
<1>8. KeptInv' /\ ProcessInv'
    BY <1>1, <1>4, <1>5, <1>7 DEF KeptInv, ProcessInv, Complete
<1>9. TokenComplete' /\ DurableInBucket' /\ HistoryReadable'
    BY <1>1, <1>4, <1>5 DEF TokenComplete, DurableInBucket, HistoryReadable, ChainsType
<1> QED
    BY <1>6, <1>8, <1>9

-----------------------------------------------------------------------------
(* Nothing that was promised is lost.                                      *)

\* The invariant holds whatever is committed, uploaded, lost and woken in what order.
THEOREM TieringInvariant == Spec => []TieringInv
<1>1. Init => TieringInv
  <2> SUFFICES ASSUME Init PROVE TieringInv
      OBVIOUS
  <2>1. <<>> \in Chains /\ Ancestry(<<>>) = {}
      BY DEF Chains, Ancestry
  <2>2. ChainsType
      BY <2>1 DEF Init, ChainsType, Stores, EmptyStore
  <2>3. KeptInv
      BY <2>1 DEF Init, KeptInv, EmptyStore, Complete, Holds, PagesOf, Remote
  <2> QED
      BY <2>2, <2>3 DEF Init, TieringInv, ProcessInv, TokenComplete, DurableInBucket,
                        HistoryReadable
<1>2. TieringInv /\ [Next]_vars => TieringInv'
  <2>1. ASSUME TieringInv, NEW f \in DbFiles, Execute(f) PROVE TieringInv'
      BY <2>1 DEF Execute, TieringInv, ChainsType, KeptInv, ProcessInv, TokenComplete,
                  DurableInBucket, HistoryReadable, Complete, Remote, Source
  <2>2. ASSUME TieringInv, Snapshot \/ SleepBegin PROVE TieringInv'
      BY <2>2, CheckpointKeeps DEF Snapshot, SleepBegin
  <2>3. ASSUME TieringInv, UNCHANGED vars PROVE TieringInv'
      BY <2>3 DEF vars, process, TieringInv, ChainsType, KeptInv, ProcessInv,
                  TokenComplete, DurableInBucket, HistoryReadable, Complete, Remote, Source
  <2>4. ASSUME TieringInv, Next PROVE TieringInv'
      BY <2>1, <2>2, <2>4, StopKeeps, OpenKeeps, UploadKeeps, EnsureKeeps, StageKeeps,
         SleepKeeps DEF Next
  <2> QED
      BY <2>3, <2>4
<1> QED
    BY <1>1, <1>2, PTL DEF Spec

\* Every variable keeps its type: what is stored are page tables, what is open is a file.
THEOREM TieringTypeOK == Spec => []TypeOK
<1>1. ASSUME ChainsType PROVE TypeOK
  <2>1. \A m \in Chains : IsManifest(m)
      BY ResolveType
  <2>2. \A s \in {home, bucket} : s.pages \subseteq Files /\ s.manifests \subseteq Chains
      BY <1>1 DEF ChainsType, Stores
  <2> QED
      BY <1>1, <2>1, <2>2 DEF ChainsType, TypeOK
<1>2. TieringInv => TypeOK
    BY <1>1 DEF TieringInv
<1> QED
    BY <1>2, TieringInvariant, PTL

\* Every token handed out wakes with its whole history (Db::sleep, TieredStore).
THEOREM TieringTokenComplete == Spec => []TokenComplete
<1>1. TieringInv => TokenComplete
    BY DEF TieringInv
<1> QED
    BY <1>1, TieringInvariant, PTL

\* What Db::ensure_durable returned for is in the bucket with its whole history.
THEOREM TieringDurableInBucket == Spec => []DurableInBucket
<1>1. TieringInv => DurableInBucket
    BY DEF TieringInv
<1> QED
    BY <1>1, TieringInvariant, PTL

\* A live handle reads the whole history of its head, woken or not, flushed or not
\* (Db::restore, and the walk of Db::sleep).
THEOREM TieringHistoryReadable == Spec => []HistoryReadable
<1>1. TieringInv => HistoryReadable
    BY DEF TieringInv
<1> QED
    BY <1>1, TieringInvariant, PTL

\* A snapshot holds the file queries saw, for every file, page size and manifest before
\* it (Db::snapshot, the kernel's checkpoint and persist).
THEOREM TieringSnapshotIsWhatQueriesSaw == Spec => SnapshotIsWhatQueriesSaw
<1>1. ASSUME TieringInv, Snapshot \/ SleepBegin PROVE FileOf(head') = file
  <2>1. Checkpoint
      BY <1>1 DEF Snapshot, SleepBegin
  <2>2. head' = HeadAfter(head, file)
      BY <2>1, CheckpointSteps
  <2>3. head \in Chains /\ file \in DbFiles
      BY <1>1 DEF TieringInv, ChainsType
  <2> QED
      BY <2>2, <2>3, CheckpointIsTheFile
<1>2. TieringInv => [Snapshot \/ SleepBegin => FileOf(head') = file]_vars
    BY <1>1
<1> QED
    BY <1>2, TieringInvariant, PTL DEF SnapshotIsWhatQueriesSaw

-----------------------------------------------------------------------------
(* From the outside a database is its snapshots.                           *)

\* A chain's tables hydrate to one file each.
LEMMA FilesOfType ==
    ASSUME NEW m \in Chains
    PROVE  /\ FilesOf(m) \in Seq(DbFiles) /\ Len(FilesOf(m)) = Len(m) /\ Len(m) \in Nat
           /\ \A n \in 1..Len(m) : m[n] \in Tables /\ FilesOf(m)[n] = Hydrated(m[n])
<1>1. Len(m) \in Nat /\ \A n \in 1..Len(m) : m[n] \in Tables
    BY ElementOfSeq, LenProperties DEF Chains
<1>2. \A n \in 1..Len(m) : Hydrated(m[n]) \in DbFiles
    BY <1>1 DEF Tables
<1>3. FilesOf(m) \in [1..Len(m) -> DbFiles]
    BY <1>2 DEF FilesOf
<1>4. FilesOf(m) \in Seq(DbFiles)
    BY <1>1, <1>3
<1>5. Len(FilesOf(m)) = Len(m)
    BY <1>1, <1>3, <1>4, LenProperties
<1> QED
    BY <1>1, <1>4, <1>5 DEF FilesOf

\* What opening a chain gives is the last of its files, or the blank one.
LEMMA ContentOfFiles ==
    ASSUME NEW m \in Chains
    PROVE  Promise!ContentOf(FilesOf(m)) = FileOf(m)
<1>1. CASE m = <<>>
  <2>1. FilesOf(m) = <<>>
      BY <1>1, FilesOfType, EmptySeq DEF Chains
  <2> QED
      BY <1>1, <2>1, ResolveType DEF FileOf, Promise!ContentOf
<1>2. CASE m # <<>>
  <2>1. Len(m) \in 1..Len(m) /\ FilesOf(m) # <<>>
      BY <1>2, FilesOfType, EmptySeq DEF Chains
  <2>2. m[Len(m)] \in Tables /\ FilesOf(m)[Len(FilesOf(m))] = Hydrated(m[Len(m)])
      BY <2>1, FilesOfType
  <2>3. WellLaid(m[Len(m)]) /\ m[Len(m)] # NoPages
      BY <2>2, TableType DEF Tables
  <2> QED
      BY <1>2, <2>1, <2>2, <2>3 DEF FileOf, Resolve, Promise!ContentOf
<1> QED
    BY <1>1, <1>2

\* One more commit is one more file.
LEMMA FilesOfAppend ==
    ASSUME NEW m \in Chains, NEW t \in Tables
    PROVE  FilesOf(Append(m, t)) = Append(FilesOf(m), Hydrated(t))
<1> DEFINE a == Append(m, t)
           b == Append(FilesOf(m), Hydrated(t))
<1>1. /\ a \in Chains /\ Len(a) = Len(m) + 1 /\ a[Len(a)] = t
      /\ \A n \in 1..Len(m) : a[n] = m[n]
    BY AppendProperties, LenProperties DEF Chains
<1>2. Hydrated(t) \in DbFiles /\ FilesOf(m) \in Seq(DbFiles) /\ Len(FilesOf(m)) = Len(m)
    BY FilesOfType DEF Tables
<1>3. /\ b \in Seq(DbFiles) /\ Len(b) = Len(m) + 1 /\ b[Len(m) + 1] = Hydrated(t)
      /\ \A n \in 1..Len(m) : b[n] = FilesOf(m)[n]
    BY <1>2, AppendProperties, FilesOfType
<1> HIDE DEF a, b
<1>4. /\ FilesOf(a) \in Seq(DbFiles) /\ Len(FilesOf(a)) = Len(m) + 1 /\ Len(m) \in Nat
      /\ \A n \in 1..Len(a) : FilesOf(a)[n] = Hydrated(a[n])
      /\ \A n \in 1..Len(m) : FilesOf(m)[n] = Hydrated(m[n])
    BY <1>1, FilesOfType
<1>5. ASSUME NEW n \in 1..Len(FilesOf(a)) PROVE FilesOf(a)[n] = b[n]
  <2>1. CASE n \in 1..Len(m)
      BY <1>1, <1>3, <1>4, <2>1
  <2>2. CASE n = Len(m) + 1
      BY <1>1, <1>3, <1>4, <2>2
  <2> QED
      BY <1>4, <2>1, <2>2
<1>6. FilesOf(a) = b
    BY <1>3, <1>4, <1>5, SeqEqual
<1> QED
    BY <1>6 DEF a, b

\* The history of the files is the files of the ancestry.
LEMMA HistoryOfFiles ==
    ASSUME NEW m \in Chains
    PROVE  Promise!History(FilesOf(m)) = Histories(Ancestry(m))
<1>1. Len(m) \in Nat /\ Len(FilesOf(m)) = Len(m)
    BY FilesOfType
<1>2. ASSUME NEW n \in 1..Len(m)
      PROVE  FilesOf(SubSeq(m, 1, n)) = SubSeq(FilesOf(m), 1, n)
  <2> DEFINE a == SubSeq(m, 1, n)
             b == SubSeq(FilesOf(m), 1, n)
  <2>1. a \in Chains /\ Len(a) = n /\ \A k \in 1..n : a[k] = m[k]
      BY <1>1, SubSeqProperties, ElementOfSeq DEF Chains
  <2>2. \A k \in 1..n : FilesOf(m)[k] \in DbFiles
      BY <1>1, FilesOfType, ElementOfSeq
  <2>3. b \in Seq(DbFiles) /\ Len(b) = n /\ \A k \in 1..n : b[k] = FilesOf(m)[k]
      BY <1>1, <2>2, FilesOfType, SubSeqProperties
  <2> HIDE DEF a, b
  <2>4. /\ FilesOf(a) \in Seq(DbFiles) /\ Len(FilesOf(a)) = n
        /\ \A k \in 1..n : FilesOf(a)[k] = Hydrated(a[k])
      BY <2>1, FilesOfType
  <2>5. \A k \in 1..n : FilesOf(a)[k] = b[k]
      BY <1>1, <2>1, <2>3, <2>4, FilesOfType
  <2>6. FilesOf(a) = b
      BY <2>3, <2>4, <2>5, SeqEqual
  <2> QED
      BY <2>6 DEF a, b
<1> QED
    BY <1>1, <1>2 DEF Promise!History, Histories, Ancestry

\* What a handle opens shows outside as the files of its head.
LEMMA ProcessShows ==
    ASSUME NEW l, NEW d, NEW m \in Chains, Process(l, d, m)
    PROVE  Promise!Show(Place', FilesOf(m))
    BY ContentOfFiles DEF Process, Promise!Show

\* A handle that is gone shows nothing.
LEMMA ClosedShows ==
    ASSUME Closed
    PROVE  /\ Promise!Show("closed", <<>>)
           /\ Place' = "closed" /\ pending' = {} /\ staged' = {}
<1>1. Process("closed", "local", <<>>) /\ pending' = {} /\ staged' = {}
    BY DEF Closed
<1>2. Place' = "closed"
    BY <1>1 DEF Place, Process
<1>3. <<>> \in Chains /\ FilesOf(<<>>) = <<>>
    BY FilesOfType, EmptySeq DEF Chains
<1>4. Promise!Show(Place', FilesOf(<<>>))
    BY <1>1, <1>3, ProcessShows
<1> QED
    BY <1>1, <1>2, <1>3, <1>4

\* Where everything that has to outlive a step is stored.
LEMMA AncestriesStored ==
    ASSUME TieringInv
    PROVE  /\ \A m \in tokens \cup durable : m \in Chains /\ Ancestry(m) \subseteq bucket.manifests
           /\ homeLog \in Chains /\ Ancestry(homeLog) \subseteq home.manifests
           /\ head \in Chains /\ (pc # "closed" => Ancestry(head) \subseteq Source.manifests)
           /\ Source.manifests \subseteq Stored /\ Stored \subseteq Chains
<1> USE DEF TieringInv
<1>1. \A m \in tokens \cup durable : m \in Chains /\ Ancestry(m) \subseteq bucket.manifests
    BY DEF ChainsType, TokenComplete, DurableInBucket, Holds
<1>2. homeLog \in Chains /\ Ancestry(homeLog) \subseteq home.manifests /\ head \in Chains
    BY DEF ChainsType, KeptInv, Holds
<1>3. pc # "closed" => Ancestry(head) \subseteq Source.manifests
    BY DEF HistoryReadable, Holds
<1>4. Source.manifests \subseteq Stored /\ Stored \subseteq Chains
    BY DEF Source, Stored, ChainsType, Stores
<1> QED
    BY <1>1, <1>2, <1>3, <1>4

\* What a step leaves stored with its ancestry can still be read with its history.
LEMMA AncestriesKept ==
    ASSUME Stored' \subseteq Stored, NEW H,
           \A h \in H : \E m \in Chains : h = FilesOf(m) /\ Ancestry(m) \subseteq Stored'
    PROVE  Promise!Keeps(H)
<1>1. Histories(Stored') \subseteq Histories(Stored)
    BY DEF Histories
<1>2. ASSUME NEW h \in H PROVE Promise!History(h) \subseteq Histories(Stored')
  <2>1. PICK m \in Chains : h = FilesOf(m) /\ Ancestry(m) \subseteq Stored'
      OBVIOUS
  <2>2. Promise!History(h) = Histories(Ancestry(m))
      BY <2>1, HistoryOfFiles
  <2> QED
      BY <2>1, <2>2 DEF Histories
<1>3. UNION {Promise!History(h) : h \in H} \subseteq Histories(Stored')
    BY <1>2
<1>4. Histories(Stored)' = Histories(Stored')
    BY DEF Histories
<1> QED
    BY <1>1, <1>3, <1>4 DEF Promise!Keeps

\* A checkpoint adds the file it folded, or was at it already.
LEMMA CheckpointAddsTheFile ==
    ASSUME NEW m \in Chains, NEW f \in DbFiles
    PROVE  /\ FilesOf(HeadAfter(m, f)) \in {FilesOf(m), Append(FilesOf(m), f)}
           /\ FilesOf(HeadAfter(m, f)) # <<>>
           /\ Promise!ContentOf(FilesOf(HeadAfter(m, f))) = f
<1> DEFINE old == Resolve(m)
           new == Persisted(old, f)
           a == HeadAfter(m, f)
<1>1. new \in Tables /\ a \in Chains /\ FileOf(a) = f /\ f \in Files /\ f # <<>>
    BY CheckpointIsTheFile
<1>2. DOMAIN old \subseteq Nat /\ old = [p \in DOMAIN old |-> old[p]]
    BY ResolveType
<1>3. Promise!ContentOf(FilesOf(a)) = f
    BY <1>1, ContentOfFiles
<1>4. Hydrated(new) = f
    BY <1>1, <1>2, PagingRoundTrip
<1>5. a \in {m, Append(m, new)} /\ a # <<>>
  <2>1. CASE NothingChanged(old, f)
    <3>1. new = old
        BY <1>1, <1>2, <2>1, NothingToPersist
    <3>2. m # <<>>
        BY <1>1, <3>1, ResolveType, TableType
    <3> QED
        BY <2>1, <3>2 DEF HeadAfter
  <2>2. CASE ~NothingChanged(old, f)
    <3> HIDE DEF new
    <3>1. Append(m, new) # <<>>
        BY <1>1, AppendProperties DEF Chains
    <3> QED
        BY <2>2, <3>1 DEF HeadAfter, new
  <2> QED
      BY <2>1, <2>2
<1> HIDE DEF new, a
<1>6. FilesOf(a) \in {FilesOf(m), Append(FilesOf(m), f)}
    BY <1>1, <1>4, <1>5, FilesOfAppend
<1>7. FilesOf(a) # <<>>
    BY <1>1, <1>5, FilesOfType, EmptySeq DEF Chains
<1> QED
    BY <1>3, <1>6, <1>7 DEF a

\* Opening, waking and restoring show a snapshot, a restore that fails rewinds to one,
\* and statements work on what is shown.
LEMMA OpensPromised ==
    ASSUME TieringInv,
           \/ Open \/ \E m \in tokens : Wake(m)
           \/ \E m \in Source.manifests : Restore(m) \/ RestoreFail(m)
           \/ \E f \in DbFiles : Execute(f)
    PROVE  Promise!Next
<1>0. /\ \A m \in tokens \cup durable : m \in Chains /\ Ancestry(m) \subseteq bucket.manifests
      /\ homeLog \in Chains /\ Source.manifests \subseteq Stored /\ Stored \subseteq Chains
    BY AncestriesStored
<1>1. CASE Open
  <2>1. /\ Place = "closed" /\ Place' = "home" /\ Promise!Show(Place', FilesOf(homeLog))
        /\ UNCHANGED <<home, homeLog, bucket, staged, tokens, durable>>
      BY <1>0, <1>1, ProcessShows DEF Open, Process, Place
  <2>2. Promise!Open
      BY <2>1 DEF Promise!Open, Stored, Histories
  <2> QED
      BY <2>2 DEF Promise!Next
<1>2. ASSUME NEW m \in tokens, Wake(m) PROVE Promise!Next
  <2>1. /\ Place = "closed" /\ Place' = "woken" /\ Promise!Show(Place', FilesOf(m))
        /\ UNCHANGED <<home, homeLog, bucket, staged, tokens, durable>>
      BY <1>0, <1>2, ProcessShows DEF Wake, Process, Place
  <2>2. Promise!Wake(FilesOf(m))
      BY <2>1 DEF Promise!Wake, Stored, Histories
  <2>3. FilesOf(m) \in Histories(tokens)
      BY DEF Histories
  <2> QED
      BY <2>2, <2>3 DEF Promise!Next
<1>3. ASSUME NEW m \in Source.manifests, Restore(m) \/ RestoreFail(m) PROVE Promise!Next
  <2>1. /\ Rewind(m) /\ Place # "closed" /\ Place' = Place /\ head' = m
        /\ homeLog' = IF Place = "home" THEN m ELSE homeLog
        /\ UNCHANGED <<home, bucket, staged, tokens, durable>>
      BY <1>3 DEF Restore, RestoreFail, Rewind, Place
  <2>2. FilesOf(homeLog') = IF Place = "home" THEN FilesOf(m) ELSE FilesOf(homeLog)
      BY <2>1
  <2>3. Promise!Rewind(FilesOf(m))
      BY <2>1, <2>2 DEF Promise!Rewind, Stored, Histories
  <2>4. FilesOf(m) \in Histories(Stored)
      BY <1>0 DEF Histories
  <2>5. CASE Restore(m)
    <3>1. file' = Promise!ContentOf(FilesOf(m))
        BY <1>0, <2>5, ContentOfFiles DEF Restore
    <3>2. Promise!Restore(FilesOf(m))
        BY <2>3, <3>1 DEF Promise!Restore
    <3> QED
        BY <2>4, <3>2 DEF Promise!Next
  <2>6. CASE RestoreFail(m)
    <3>1. Promise!RestoreFail(FilesOf(m))
        BY <2>3, <2>6 DEF RestoreFail, Promise!RestoreFail
    <3> QED
        BY <2>4, <3>1 DEF Promise!Next
  <2> QED
      BY <1>3, <2>5, <2>6
<1>4. ASSUME NEW f \in DbFiles, Execute(f) PROVE Promise!Next
  <2>1. /\ Place # "closed" /\ Place' = Place /\ file' = f
        /\ UNCHANGED <<home, homeLog, bucket, head, staged, tokens, durable>>
      BY <1>4 DEF Execute, Place
  <2>2. Promise!Work(f)
      BY <2>1 DEF Promise!Work, Stored, Histories
  <2> QED
      BY <2>2 DEF Promise!Next
<1> QED
    BY <1>1, <1>2, <1>3, <1>4

\* A checkpoint makes a snapshot of what queries see.
LEMMA CheckpointPromised ==
    ASSUME TieringInv, Snapshot \/ SleepBegin
    PROVE  Promise!Next
<1>1. /\ Checkpoint /\ Place # "closed" /\ Place' = Place
      /\ UNCHANGED <<bucket, mode, file, tokens, durable>>
    BY DEF Snapshot, SleepBegin, Place
<1>2. head \in Chains /\ file \in DbFiles /\ head' = HeadAfter(head, file)
    BY <1>1, CheckpointSteps DEF TieringInv, ChainsType
<1>3. Stored' = Stored \cup {head'} /\ homeLog' = IF Place = "home" THEN head' ELSE homeLog
  <2>1. CASE mode = "local"
    <3>1. /\ home'.manifests = home.manifests \cup {head'}
          /\ homeLog' = head' /\ staged' = staged
        BY <1>1, <2>1, CheckpointSteps
    <3> QED
        BY <1>1, <2>1, <3>1 DEF Stored, Place
  <2>2. CASE mode # "local"
    <3>1. staged' = staged \cup {head'} /\ UNCHANGED <<home, homeLog>>
        BY <1>1, <2>2, CheckpointSteps
    <3> QED
        BY <1>1, <2>2, <3>1 DEF Stored, Place
  <2> QED
      BY <2>1, <2>2
<1>4. /\ FilesOf(head') \in {FilesOf(head), Append(FilesOf(head), file)}
      /\ FilesOf(head') # <<>> /\ Promise!ContentOf(FilesOf(head')) = file
    BY <1>2, CheckpointAddsTheFile
<1>5. Histories(Stored)' = Histories(Stored) \cup {FilesOf(head')}
    BY <1>3 DEF Histories
<1>6. FilesOf(homeLog') = IF Place = "home" THEN FilesOf(head') ELSE FilesOf(homeLog)
    BY <1>3
<1>7. Promise!Snapshot(FilesOf(head'))
    BY <1>1, <1>4, <1>5, <1>6 DEF Promise!Snapshot, Histories
<1> QED
    BY <1>4, <1>7 DEF Promise!Next

\* Uploading shows nothing; vouching for the head makes it one of those that last.
LEMMA FlushPromised ==
    ASSUME TieringInv, EnsureDurable \/ \E page \in pending : Upload(page)
    PROVE  [Promise!Next]_(Promise!vars)
<1>1. CASE EnsureDurable
  <2>1. /\ Place = "woken" /\ pc # "closed" /\ durable' = durable \cup {head}
        /\ bucket'.manifests = bucket.manifests \cup Ancestry(head)
        /\ UNCHANGED <<home, homeLog, head, file, staged, tokens, Place>>
    <3>1. bucket' = [bucket EXCEPT !.manifests = @ \cup Ancestry(head)]
        BY <1>1 DEF EnsureDurable
    <3>2. bucket'.manifests = bucket.manifests \cup Ancestry(head)
        BY <3>1 DEF TieringInv, ChainsType, Stores
    <3> QED
        BY <1>1, <3>2 DEF EnsureDurable, process, Place
  <2>2. Stored' = Stored
      BY <2>1, AncestriesStored DEF Stored
  <2>3. Histories(durable)' = Histories(durable) \cup {FilesOf(head)}
      BY <2>1 DEF Histories
  <2>4. Promise!Vouch
      BY <2>1, <2>2, <2>3 DEF Promise!Vouch, Histories
  <2> QED
      BY <2>4 DEF Promise!Next
<1>2. ASSUME NEW page \in pending, Upload(page) PROVE UNCHANGED Promise!vars
  <2>1. bucket' = [bucket EXCEPT !.pages = @ \cup {page}]
        /\ UNCHANGED <<home, homeLog, head, file, staged, tokens, durable, Place>>
      BY <1>2 DEF Upload, Place
  <2>2. bucket'.manifests = bucket.manifests
      BY <2>1 DEF TieringInv, ChainsType, Stores
  <2> QED
      BY <2>1, <2>2 DEF Promise!vars, Stored, Histories
<1> QED
    BY <1>1, <1>2

\* The walk of a sleep forgets what the cache held beside the head's ancestry, and its
\* end nothing at all.
LEMMA SleepPromised ==
    ASSUME TieringInv, Stage \/ SleepReturn
    PROVE  Promise!Next
<1>0. /\ \A m \in tokens \cup durable : m \in Chains /\ Ancestry(m) \subseteq bucket.manifests
      /\ homeLog \in Chains /\ Ancestry(homeLog) \subseteq home.manifests /\ head \in Chains
      /\ Ancestry(head) \subseteq Stored
    BY AncestriesStored DEF Stage, SleepReturn
<1> DEFINE H == Histories(tokens) \cup Histories(durable) \cup {FilesOf(homeLog), FilesOf(head)}
<1>1. ASSUME Stored' \subseteq Stored, bucket.manifests \subseteq Stored',
             home.manifests \subseteq Stored', Ancestry(head) \subseteq Stored'
      PROVE  Promise!Keeps(H)
  <2>1. \A h \in H : \E m \in Chains : h = FilesOf(m) /\ Ancestry(m) \subseteq Stored'
      BY <1>0, <1>1 DEF Histories
  <2> HIDE DEF H
  <2> QED
      BY <1>1, <2>1, AncestriesKept
<1>2. CASE Stage
  <2>1. /\ Place # "closed" /\ staged' = Ancestry(head)
        /\ UNCHANGED <<home, homeLog, bucket, head, file, tokens, durable, Place>>
      BY <1>2 DEF Stage, Place
  <2>2. Promise!Keeps(H)
      BY <1>0, <1>1, <2>1 DEF Stored
  <2>3. Promise!Forget
      BY <2>1, <2>2 DEF Promise!Forget, Histories
  <2> QED
      BY <2>3 DEF Promise!Next
<1>3. CASE SleepReturn
  <2>1. /\ Place # "closed" /\ Closed /\ tokens' = tokens \cup {head}
        /\ staged = Ancestry(head)
        /\ bucket'.manifests = bucket.manifests \cup Ancestry(head)
        /\ UNCHANGED <<home, homeLog, durable>>
    <3>1. bucket' = [bucket EXCEPT !.manifests = @ \cup Ancestry(head)]
          /\ staged = Ancestry(head)
        BY <1>3 DEF SleepReturn, TieringInv, ProcessInv
    <3>2. bucket'.manifests = bucket.manifests \cup Ancestry(head)
        BY <3>1 DEF TieringInv, ChainsType, Stores
    <3> QED
        BY <1>3, <3>1, <3>2 DEF SleepReturn, Place
  <2>2. Promise!Show("closed", <<>>) /\ staged' = {}
      BY <2>1, ClosedShows
  <2>3. Stored' = Stored
      BY <2>1, <2>2 DEF Stored
  <2>4. Promise!Keeps(H)
      BY <1>0, <1>1, <2>3 DEF Stored
  <2>5. Histories(tokens)' = Histories(tokens) \cup {FilesOf(head)}
      BY <2>1 DEF Histories
  <2>6. Promise!Sleep
      BY <2>1, <2>2, <2>4, <2>5 DEF Promise!Sleep, Histories
  <2> QED
      BY <2>6 DEF Promise!Next
<1> QED
    BY <1>2, <1>3

\* Dying, and losing the pool, leave what tokens and acknowledgements vouch for.
LEMMA LossPromised ==
    ASSUME TieringInv, Stop \/ LoseHome
    PROVE  Promise!Next
<1>0. /\ \A m \in tokens \cup durable : m \in Chains /\ Ancestry(m) \subseteq bucket.manifests
      /\ homeLog \in Chains /\ Ancestry(homeLog) \subseteq home.manifests
    BY AncestriesStored
<1>1. CASE Stop
  <2>1. /\ Place # "closed" /\ Closed
        /\ UNCHANGED <<home, homeLog, bucket, tokens, durable>>
      BY <1>1 DEF Stop, Place
  <2>2. Promise!Show("closed", <<>>) /\ staged' = {}
      BY <2>1, ClosedShows
  <2> DEFINE H == Histories(tokens) \cup Histories(durable) \cup {FilesOf(homeLog)}
  <2>3. \A h \in H : \E m \in Chains : h = FilesOf(m) /\ Ancestry(m) \subseteq Stored'
      BY <1>0, <2>1 DEF Histories, Stored
  <2>4. Stored' \subseteq Stored
      BY <2>1, <2>2 DEF Stored
  <2>5. Promise!Keeps(H)
    <3> HIDE DEF H
    <3> QED
        BY <2>3, <2>4, AncestriesKept
  <2>6. Promise!Stop
      BY <2>1, <2>2, <2>5 DEF Promise!Stop, Histories
  <2> QED
      BY <2>6 DEF Promise!Next
<1>2. CASE LoseHome
  <2>1. /\ Place = "closed" /\ home'.manifests = {} /\ homeLog' = <<>>
        /\ UNCHANGED <<bucket, head, file, staged, tokens, durable, Place>>
      BY <1>2 DEF LoseHome, EmptyStore, process, Place
  <2>2. FilesOf(homeLog') = <<>>
      BY <2>1, FilesOfType, EmptySeq DEF Chains
  <2> DEFINE H == Histories(tokens) \cup Histories(durable)
  <2>3. \A h \in H : \E m \in Chains : h = FilesOf(m) /\ Ancestry(m) \subseteq Stored'
      BY <1>0, <2>1 DEF Histories, Stored
  <2>4. Stored' \subseteq Stored
      BY <2>1 DEF Stored
  <2>5. Promise!Keeps(H)
    <3> HIDE DEF H
    <3> QED
        BY <2>3, <2>4, AncestriesKept
  <2>6. Promise!LoseHome
      BY <2>1, <2>2, <2>5 DEF Promise!LoseHome, Histories
  <2> QED
      BY <2>6 DEF Promise!Next
<1> QED
    BY <1>1, <1>2

\* Pages, page tables, uploads, staging stores and DuckDB's log are not to be seen: to
\* its callers a database is its snapshots, and what Db::sleep handed a token for or
\* Db::ensure_durable returned for is there again, bytes and history.
THEOREM TieringImplementsSnapshots == Spec => SnapshotsSpec
<1>1. Init => Promise!Init
  <2>1. <<>> \in Chains /\ FilesOf(<<>>) = <<>>
      BY FilesOfType, EmptySeq DEF Chains
  <2> QED
      BY <2>1 DEF Init, EmptyStore, Place, Stored, Histories, Promise!Init
<1>2. TieringInv /\ [Next]_vars => [Promise!Next]_(Promise!vars)
  <2>1. UNCHANGED vars => UNCHANGED Promise!vars
      BY DEF vars, process, Place, Stored, Histories, Promise!vars
  <2> QED
      BY <2>1, OpensPromised, CheckpointPromised, FlushPromised, SleepPromised, LossPromised
         DEF Next
<1> QED
    BY <1>1, <1>2, TieringInvariant, PTL DEF Spec, SnapshotsSpec, Promise!Spec

=============================================================================
