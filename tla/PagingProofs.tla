---------------------------- MODULE PagingProofs ----------------------------
(***************************************************************************)
(* Persisting a file and hydrating the result gives the file back, for any *)
(* page size and whatever pages were there before.                         *)
(***************************************************************************)
EXTENDS Paging, FiniteSetTheorems, SequenceTheorems, TLAPS

USE PagingAssumption

\* A quotient and its remainder make up the number.
LEMMA Quotient ==
    ASSUME NEW n \in Nat, NEW d \in Nat \ {0}
    PROVE  /\ n \div d \in Nat /\ n % d \in 0..(d - 1)
           /\ n = (n \div d) * d + (n % d)
OBVIOUS

\* Of two multiples of the page size the smaller is one of fewer pages.
LEMMA FewerPages ==
    ASSUME NEW a \in Nat, NEW b \in Nat
    PROVE  a * PageSize < b * PageSize <=> a < b
<1>1. CASE a < b
  <2>1. a + 1 <= b
      BY <1>1
  <2>2. (a + 1) * PageSize <= b * PageSize
      BY <2>1
  <2>3. (a + 1) * PageSize = a * PageSize + PageSize
      OBVIOUS
  <2> DEFINE x == a * PageSize
             y == b * PageSize
  <2>4. x \in Nat /\ y \in Nat
      OBVIOUS
  <2>5. x + PageSize <= y
      BY <2>2, <2>3
  <2> HIDE DEF x, y
  <2>6. x < y
      BY <2>4, <2>5
  <2> QED
      BY <1>1, <2>6 DEF x, y
<1>2. CASE ~(a < b)
  <2>1. b * PageSize <= a * PageSize
      BY <1>2
  <2> DEFINE x == a * PageSize
             y == b * PageSize
  <2>2. x \in Nat /\ y \in Nat /\ y <= x
      BY <2>1
  <2> HIDE DEF x, y
  <2>3. ~(x < y)
      BY <2>2
  <2> QED
      BY <1>2, <2>3 DEF x, y
<1> QED
    BY <1>1, <1>2

\* The pages of a file are as many as it takes (bytes.chunks).
LEMMA PageCountFits ==
    ASSUME NEW f \in Files, f # <<>>
    PROVE  /\ PageCount(f) \in Nat \ {0}
           /\ (PageCount(f) - 1) * PageSize < Len(f)
           /\ Len(f) <= PageCount(f) * PageSize
<1> DEFINE n == Len(f) + PageSize - 1
           q == n \div PageSize
           s == q * PageSize
<1>1. Len(f) \in Nat \ {0} /\ n \in Nat
    BY EmptySeq DEF Files
<1>2. q \in Nat /\ n % PageSize \in 0..(PageSize - 1) /\ n = s + (n % PageSize)
  <2> HIDE DEF n
  <2> QED
      BY <1>1, Quotient
<1>3. s \in Nat /\ Len(f) <= s /\ s - PageSize < Len(f)
  <2>1. s \in Nat
      BY <1>2
  <2> DEFINE r == n % PageSize
  <2>2. r \in 0..(PageSize - 1) /\ Len(f) + PageSize - 1 = s + r
      BY <1>2
  <2> HIDE DEF s, r
  <2> QED
      BY <1>1, <2>1, <2>2
<1>4. q # 0
  <2>1. q = 0 => s = 0
      OBVIOUS
  <2> HIDE DEF s, q
  <2> QED
      BY <1>1, <1>3, <2>1
<1>5. (q - 1) * PageSize = s - PageSize
  <2> HIDE DEF q
  <2> QED
      BY <1>2 DEF s
<1>6. PageCount(f) = q
    BY DEF PageCount
<1> QED
    BY <1>2, <1>3, <1>4, <1>5, <1>6

\* An empty file has no pages.
LEMMA NoPagesOfNothing == PageCount(<<>>) = 0
<1>1. PageSize - 1 = ((PageSize - 1) \div PageSize) * PageSize + ((PageSize - 1) % PageSize)
      /\ (PageSize - 1) \div PageSize \in Nat
      /\ (PageSize - 1) % PageSize \in 0..(PageSize - 1)
    BY Quotient
<1> DEFINE q == (PageSize - 1) \div PageSize
<1>2. ASSUME q # 0 PROVE FALSE
  <2>1. PageSize <= q * PageSize
      BY <1>1, <1>2
  <2> QED
      BY <1>1, <2>1
<1> QED
    BY <1>2, EmptySeq DEF PageCount

\* What page p of a file holds: full but for the last, which ends where the file does.
LEMMA ChunkHolds ==
    ASSUME NEW f \in Files, f # <<>>, NEW p \in PageNos(f)
    PROVE  /\ Chunk(f, p) \in Files
           /\ Len(Chunk(f, p)) \in 1..PageSize
           /\ p < PageCount(f) - 1 => Len(Chunk(f, p)) = PageSize
           /\ p = PageCount(f) - 1 => p * PageSize + Len(Chunk(f, p)) = Len(f)
           /\ \A i \in 1..Len(Chunk(f, p)) : Chunk(f, p)[i] = f[p * PageSize + i]
<1> DEFINE s == p * PageSize
           e == EndOf(f, p)
<1>1. p \in Nat /\ s \in Nat /\ Len(f) \in Nat \ {0}
    BY PageCountFits, EmptySeq DEF PageNos, Files
<1>2. s < Len(f)
  <2>1. p <= PageCount(f) - 1 /\ PageCount(f) - 1 \in Nat
      BY PageCountFits DEF PageNos
  <2>2. ~((PageCount(f) - 1) * PageSize < p * PageSize)
      BY <1>1, <2>1, FewerPages
  <2> DEFINE l == (PageCount(f) - 1) * PageSize
  <2>3. l \in Nat /\ l < Len(f) /\ ~(l < s)
      BY <2>1, <2>2, PageCountFits
  <2> HIDE DEF l, s
  <2> QED
      BY <1>1, <2>3
<1>3. (p + 1) * PageSize = s + PageSize
    BY <1>1
<1>4. e = IF s + PageSize < Len(f) THEN s + PageSize ELSE Len(f)
    BY <1>3 DEF EndOf
<1>5. p < PageCount(f) - 1 => s + PageSize < Len(f)
  <2> SUFFICES ASSUME p < PageCount(f) - 1 PROVE s + PageSize < Len(f)
      OBVIOUS
  <2> DEFINE l == (PageCount(f) - 1) * PageSize
  <2>1. PageCount(f) - 1 \in Nat /\ p + 1 \in Nat /\ p + 1 <= PageCount(f) - 1
      BY <1>1, PageCountFits
  <2>2. l \in Nat /\ l < Len(f)
      BY <2>1, PageCountFits
  <2>3. ~(l < (p + 1) * PageSize)
      BY <2>1, FewerPages
  <2>4. ~(l < s + PageSize)
      BY <1>3, <2>3
  <2> HIDE DEF l, s
  <2> QED
      BY <1>1, <2>2, <2>4
<1>6. p = PageCount(f) - 1 => Len(f) <= s + PageSize
  <2> SUFFICES ASSUME p = PageCount(f) - 1 PROVE Len(f) <= s + PageSize
      OBVIOUS
  <2>1. p + 1 = PageCount(f)
      BY <1>1, PageCountFits
  <2> QED
      BY <1>3, <2>1, PageCountFits
<1> HIDE DEF s, e
<1>7. e \in (s + 1)..Len(f) /\ e <= s + PageSize
    BY <1>1, <1>2, <1>4
<1>8. Chunk(f, p) = SubSeq(f, s + 1, e)
    BY DEF Chunk, s, e
<1>9. /\ Chunk(f, p) \in Seq(Bytes) /\ Len(Chunk(f, p)) = e - s
      /\ \A i \in 1..(e - s) : Chunk(f, p)[i] = f[s + i]
  <2>1. \A i \in (s + 1)..e : f[i] \in Bytes
      BY <1>1, <1>7, ElementOfSeq DEF Files
  <2> QED
      BY <1>1, <1>7, <1>8, <2>1, SubSeqProperties
<1> QED
  <2>1. p < PageCount(f) - 1 => Len(Chunk(f, p)) = PageSize
      BY <1>1, <1>4, <1>5, <1>9
  <2>2. p = PageCount(f) - 1 => s + Len(Chunk(f, p)) = Len(f)
      BY <1>1, <1>4, <1>6, <1>9
  <2> QED
      BY <1>1, <1>7, <1>9, <2>1, <2>2 DEF s, Files

\* Persisting leaves exactly the pages of the file, whatever was there before.
LEMMA PersistedIsTheFile ==
    ASSUME NEW old, NEW f \in Files, DOMAIN old \subseteq Nat
    PROVE  Persisted(old, f) = [p \in PageNos(f) |-> Chunk(f, p)]
<1>1. PageCount(f) \in Nat
    BY PageCountFits, NoPagesOfNothing
<1>2. (DOMAIN old \ Removed(old, f)) \cup Written(old, f) = PageNos(f)
    BY <1>1 DEF Removed, Written, PageNos
<1>3. \A p \in PageNos(f) : p \notin Written(old, f) => old[p] = Chunk(f, p)
    BY DEF Written
<1> QED
    BY <1>2, <1>3 DEF Persisted

\* The pages of a file lie as hydrate expects them, and end where the file does.
LEMMA PagesLieWell ==
    ASSUME NEW f \in Files, f # <<>>, NEW t, t = [p \in PageNos(f) |-> Chunk(f, p)]
    PROVE  /\ LastPage(t) = PageCount(f) - 1
           /\ WellLaid(t)
           /\ FileLen(t) = Len(f)
<1>1. PageCount(f) \in Nat \ {0}
    BY PageCountFits
<1>2. DOMAIN t = 0..(PageCount(f) - 1)
    BY DEF PageNos
<1>3. LastPage(t) = PageCount(f) - 1
    BY <1>1, <1>2, FS_Interval DEF LastPage
<1>4. \A p \in 0..(PageCount(f) - 1) : t[p] = Chunk(f, p) /\ p \in PageNos(f)
    BY DEF PageNos
<1>5. \A p \in 0..(PageCount(f) - 2) : Len(t[p]) = PageSize
    BY <1>1, <1>4, ChunkHolds
<1>6. WellLaid(t)
  <2>1. LastPage(t) - 1 = PageCount(f) - 2
      BY <1>1, <1>3
  <2>2. DOMAIN t = 0..LastPage(t)
      BY <1>2, <1>3
  <2> QED
      BY <1>5, <2>1, <2>2 DEF WellLaid
<1>7. PageCount(f) - 1 \in PageNos(f) /\ DOMAIN t # {}
    BY <1>1, <1>2 DEF PageNos
<1>8. LastPage(t) * PageSize + Len(t[LastPage(t)]) = Len(f)
    BY <1>3, <1>4, <1>7, ChunkHolds
<1> QED
    BY <1>3, <1>6, <1>7, <1>8 DEF FileLen

\* Whatever pages a manifest had, persisting a file and hydrating the manifest that is
\* committed gives the file back, byte for byte (persist and hydrate; a file that shrank
\* leaves nothing of itself, a page that did not change is not written again).
THEOREM PagingRoundTrip ==
    ASSUME NEW old, DOMAIN old \subseteq Nat, NEW f \in Files, f # <<>>
    PROVE  WellLaid(Persisted(old, f)) /\ Hydrated(Persisted(old, f)) = f
<1>1. PICK t : t = [p \in PageNos(f) |-> Chunk(f, p)]
    OBVIOUS
<1>2. Persisted(old, f) = t
    BY <1>1, PersistedIsTheFile
<1>3. WellLaid(t) /\ FileLen(t) = Len(f)
    BY <1>1, PagesLieWell
<1>4. ASSUME NEW i \in 1..Len(f)
      PROVE  t[(i - 1) \div PageSize][((i - 1) % PageSize) + 1] = f[i]
  <2> DEFINE q == (i - 1) \div PageSize
             r == (i - 1) % PageSize
             s == q * PageSize
  <2>1. i - 1 \in Nat /\ Len(f) \in Nat /\ i - 1 < Len(f)
      BY EmptySeq DEF Files
  <2>2. q \in Nat /\ r \in 0..(PageSize - 1) /\ i - 1 = s + r
      BY <2>1, Quotient
  <2>3. s \in Nat
      BY <2>2
  <2>4. q \in PageNos(f)
    <3> DEFINE l == PageCount(f) * PageSize
    <3>1. PageCount(f) \in Nat /\ l \in Nat /\ Len(f) <= l
        BY PageCountFits
    <3>2. s < l
      <4> HIDE DEF l, s, r, q
      <4> QED
          BY <2>1, <2>2, <2>3, <3>1
    <3>3. q < PageCount(f)
        BY <2>2, <3>1, <3>2, FewerPages
    <3> HIDE DEF q
    <3> QED
        BY <2>2, <3>1, <3>3 DEF PageNos
  <2>5. PageCount(f) - 1 \in Nat
      BY PageCountFits
  <2> HIDE DEF q
  <2>6. r + 1 \in 1..Len(Chunk(f, q))
    <3>1. q <= PageCount(f) - 1
        BY <2>2, <2>4, <2>5 DEF PageNos
    <3>2. CASE q < PageCount(f) - 1
      <4>1. Len(Chunk(f, q)) = PageSize
          BY <2>4, <3>2, ChunkHolds
      <4> HIDE DEF r
      <4> QED
          BY <2>2, <4>1
    <3>3. CASE q = PageCount(f) - 1
      <4>1. s + Len(Chunk(f, q)) = Len(f) /\ Len(Chunk(f, q)) \in Nat
          BY <2>4, <3>3, ChunkHolds
      <4> HIDE DEF r, s
      <4> QED
          BY <2>1, <2>2, <2>3, <4>1
    <3> QED
        BY <2>2, <2>5, <3>1, <3>2, <3>3
  <2>7. Chunk(f, q)[r + 1] = f[s + (r + 1)]
      BY <2>4, <2>6, ChunkHolds
  <2>8. s + (r + 1) = i
    <3> HIDE DEF s, r
    <3> QED
        BY <2>1, <2>2, <2>3
  <2>9. t[q] = Chunk(f, q)
      BY <1>1, <2>4
  <2> QED
      BY <2>7, <2>8, <2>9 DEF q
<1>5. Hydrated(t) = [i \in 1..Len(f) |-> f[i]]
    BY <1>3, <1>4 DEF Hydrated
<1>6. f = [i \in 1..Len(f) |-> f[i]]
    BY LenProperties DEF Files
<1> QED
    BY <1>2, <1>3, <1>5, <1>6

\* A commit with nothing to write is one that would have changed nothing: what persist
\* skips is what hydrating the head would give anyway.
THEOREM NothingToPersist ==
    ASSUME NEW old, DOMAIN old \subseteq Nat, old = [p \in DOMAIN old |-> old[p]],
           NEW f \in Files, NothingChanged(old, f)
    PROVE  Persisted(old, f) = old
    BY DEF NothingChanged, Persisted

=============================================================================
