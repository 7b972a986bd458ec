------------------------------- MODULE Paging -------------------------------
(***************************************************************************)
(* A DuckDB file as pages and back (crates/flock-kernel/src/paging.rs).    *)
(*                                                                         *)
(* Logical page p holds the bytes [p * PageSize, (p+1) * PageSize) of the  *)
(* file; the last page may be short.  A page table maps the page numbers a *)
(* manifest resolves to, overlays included, to the bytes of those pages.   *)
(***************************************************************************)
EXTENDS Integers, Sequences, FiniteSets

CONSTANTS Bytes,     \* what a byte may be
          PageSize   \* PageStore::page_size

ASSUME PagingAssumption == PageSize \in Nat \ {0}

Files == Seq(Bytes)

\* bytes.chunks(page_size).len()
PageCount(f) == (Len(f) + PageSize - 1) \div PageSize

PageNos(f) == 0..(PageCount(f) - 1)

EndOf(f, p) == IF (p + 1) * PageSize < Len(f) THEN (p + 1) * PageSize ELSE Len(f)

Chunk(f, p) == SubSeq(f, p * PageSize + 1, EndOf(f, p))

-----------------------------------------------------------------------------
(* persist: file to pages.                                                 *)

\* Pages that are new or differ enter the transaction; the others do not.
Written(old, f) == {p \in PageNos(f) : p \in DOMAIN old => old[p] # Chunk(f, p)}

\* Faulty variant: pages past the new end are left in place.
RemovedNone(old, f) == {}

\* The file shrank: pages past its new end are removed.
Removed(old, f) == {p \in DOMAIN old : p >= PageCount(f)}

\* An empty transaction commits nothing.
NothingChanged(old, f) == Written(old, f) = {} /\ Removed(old, f) = {}

\* The page table of the manifest persist commits.
Persisted(old, f) ==
    [p \in (DOMAIN old \ Removed(old, f)) \cup Written(old, f) |->
        IF p \in Written(old, f) THEN Chunk(f, p) ELSE old[p]]

-----------------------------------------------------------------------------
(* hydrate: pages to file.                                                 *)

\* Pages are numbered from 0, so a table without holes ends at its size.
LastPage(table) == Cardinality(DOMAIN table) - 1

\* Each page has to start where the ones before it end.  No table persist wrote
\* fails this; any other is refused as CorruptLayout.
WellLaid(table) ==
    /\ DOMAIN table = 0..LastPage(table)
    /\ \A p \in 0..(LastPage(table) - 1) : Len(table[p]) = PageSize

FileLen(table) == IF DOMAIN table = {} THEN 0
                  ELSE LastPage(table) * PageSize + Len(table[LastPage(table)])

\* The pages one after the other: byte i comes from page i \div PageSize.  No byte
\* at all means no file, and DuckDB then makes one.
Hydrated(table) ==
    [i \in 1..FileLen(table) |->
        table[(i - 1) \div PageSize][((i - 1) % PageSize) + 1]]
=============================================================================
