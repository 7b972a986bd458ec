----------------------------- MODULE FaultGates -----------------------------
(***************************************************************************)
(* Faulting pages of a woken database into the local cache                 *)
(* (crates/flock-vfs/src/tiered.rs): any number of readers call            *)
(* `read_page', and one caller at a time runs `prefetch', whose workers    *)
(* call `read_page' too.                                                   *)
(*                                                                         *)
(* The cache is substrate's and external.  What this code relies on (the   *)
(* comment on `fault_gates') is modelled: it is keyed by content, a miss   *)
(* is fetched from the tier and streamed to a temporary file named by the  *)
(* content, and the file is then renamed into place.                       *)
(***************************************************************************)
EXTENDS Integers, Sequences, FiniteSets

CONSTANTS
    Readers,      \* threads that serve reads of the database
    Fanout,       \* PREFETCH_FANOUT: the most workers of one prefetch
    Pages,        \* page numbers of the database
    Contents,     \* what a page may hold: the keys of the cache
    ContentOf,    \* the content of each page, fixed by the manifest woken
    Stripes,      \* FAULT_STRIPES: how many gates there are
    Batches,      \* the page lists callers prefetch
    MaxReads,     \* bound: reads of one reader
    MaxPrefetches,\* bound: prefetches
    MaxFailures,  \* bound: failures of the tier
    MaxPanics     \* bound: panics of a thread inside the pager

Workers == 1 .. Fanout
Threads == Readers \cup Workers
Gates == 0 .. Stripes - 1

ASSUME GatesAssumption ==
    /\ Fanout \in Nat \ {0}
    /\ Stripes \in Nat \ {0}
    /\ Pages \subseteq Nat
    /\ ContentOf \in [Pages -> Contents]
    /\ Batches \subseteq Seq(Pages)
    /\ Readers \cap Workers = {}
    /\ {MaxReads, MaxPrefetches, MaxFailures, MaxPanics} \subseteq Nat

VARIABLES
    \* the cache directory
    cache,       \* contents in place
    temps,       \* contents with a temporary file
    \* the source
    held,        \* fault_gates: those locked
    pc,          \* where each thread is in read_page, or in a worker's loop
    page,        \* the page it reads
    result,      \* how its last read ended
    \* the prefetch in progress
    prefetching, \* whether there is one
    batch,       \* the pages it was asked for
    cursor,      \* how many of them workers have claimed
    dropped,     \* pages whose warm failed, the error dropped
    \* history and bounds
    fetched,     \* fetched[c]: how many times the tier delivered c
    reads, prefetches, failures, panics

cacheVars == <<cache, temps, fetched>>
prefetchVars == <<prefetching, batch, cursor, prefetches>>
counters == <<reads, failures, panics>>
vars == <<cache, temps, held, pc, page, result, prefetching, batch, cursor,
          dropped, fetched, reads, prefetches, failures, panics>>

TypeOK ==
    /\ cache \subseteq Contents
    /\ temps \subseteq Contents
    /\ held \subseteq Gates
    /\ pc \in [Threads -> {"idle", "claim", "gate", "lookup", "fetch", "rename"}]
    /\ page \in [Threads -> Pages]
    /\ result \in [Threads -> {"none", "ok", "fault", "enoent", "panic"}]
    /\ prefetching \in BOOLEAN
    /\ batch \in Seq(Pages)
    /\ cursor \in Nat
    /\ dropped \subseteq Pages
    /\ fetched \in [Contents -> Nat]
    /\ reads \in [Readers -> 0 .. MaxReads]
    /\ prefetches \in 0 .. MaxPrefetches
    /\ failures \in 0 .. MaxFailures
    /\ panics \in 0 .. MaxPanics

Init ==
    /\ cache = {}
    /\ temps = {}
    /\ held = {}
    /\ pc = [t \in Threads |-> "idle"]
    /\ \E p \in Pages : page = [t \in Threads |-> p]
    /\ result = [t \in Threads |-> "none"]
    /\ prefetching = FALSE
    /\ batch = <<>>
    /\ cursor = 0
    /\ dropped = {}
    /\ fetched = [c \in Contents |-> 0]
    /\ reads = [t \in Readers |-> 0]
    /\ prefetches = 0
    /\ failures = 0
    /\ panics = 0

-----------------------------------------------------------------------------
(* read_page.                                                              *)

\* Faulty variant: one gate too many for the pages the cache confuses.
StripeOfOneMore(p) == p % (Stripes + 1)

\* The gate that guards a page.
StripeOf(p) == p % Stripes

Content(t) == ContentOf[page[t]]

Holding(t) == pc[t] \in {"lookup", "fetch", "rename"}

\* Faulty variant: an early return that forgets its guard.
LeaveLocked(t, outcome) ==
    /\ held' = held
    /\ pc' = [pc EXCEPT ![t] = IF t \in Workers THEN "claim" ELSE "idle"]
    /\ result' = [result EXCEPT ![t] = outcome]
    /\ dropped' = IF t \in Workers /\ outcome # "ok"
                  THEN dropped \cup {page[t]} ELSE dropped

\* A thread leaves read_page: its guard is dropped, and a worker, which
\* ignores the outcome but for what stayed cold, goes on to the next page.
Leave(t, outcome) ==
    /\ held' = held \ {StripeOf(page[t])}
    /\ pc' = [pc EXCEPT ![t] = IF t \in Workers THEN "claim" ELSE "idle"]
    /\ result' = [result EXCEPT ![t] = outcome]
    /\ dropped' = IF t \in Workers /\ outcome # "ok"
                  THEN dropped \cup {page[t]} ELSE dropped

\* A reader's next read_page.
Request(t, p) ==
    /\ pc[t] = "idle"
    /\ reads[t] < MaxReads
    /\ reads' = [reads EXCEPT ![t] = @ + 1]
    /\ page' = [page EXCEPT ![t] = p]
    /\ pc' = [pc EXCEPT ![t] = "gate"]
    /\ UNCHANGED <<cacheVars, held, result, prefetchVars, dropped, failures, panics>>

\* Faulty variant: the guard is bound to `_' and so dropped at once.
AcquireDropped(t) ==
    /\ pc[t] = "gate"
    /\ StripeOf(page[t]) \notin held
    /\ pc' = [pc EXCEPT ![t] = "lookup"]
    /\ UNCHANGED <<cacheVars, held, page, result, prefetchVars, dropped, counters>>

\* The gate is locked, poisoned or not.
Acquire(t) ==
    /\ pc[t] = "gate"
    /\ StripeOf(page[t]) \notin held
    /\ held' = held \cup {StripeOf(page[t])}
    /\ pc' = [pc EXCEPT ![t] = "lookup"]
    /\ UNCHANGED <<cacheVars, page, result, prefetchVars, dropped, counters>>

Hit(t) ==
    /\ pc[t] = "lookup"
    /\ Content(t) \in cache
    /\ Leave(t, "ok")
    /\ UNCHANGED <<cacheVars, page, prefetchVars, counters>>

\* Faulty variant: a thread that missed before it waited does not look again.
MissUnchecked(t) ==
    /\ pc[t] = "lookup"
    /\ pc' = [pc EXCEPT ![t] = "fetch"]
    /\ UNCHANGED <<cacheVars, held, page, result, prefetchVars, dropped, counters>>

Miss(t) ==
    /\ pc[t] = "lookup"
    /\ Content(t) \notin cache
    /\ pc' = [pc EXCEPT ![t] = "fetch"]
    /\ UNCHANGED <<cacheVars, held, page, result, prefetchVars, dropped, counters>>

\* The tier delivers, the content is verified and streamed to its temporary
\* file, which a writer creates or truncates.
Fetch(t) ==
    /\ pc[t] = "fetch"
    /\ fetched' = [fetched EXCEPT ![Content(t)] = @ + 1]
    /\ temps' = temps \cup {Content(t)}
    /\ pc' = [pc EXCEPT ![t] = "rename"]
    /\ UNCHANGED <<cache, held, page, result, prefetchVars, dropped, counters>>

\* The tier fails, or delivers what does not verify.
FetchFail(t) ==
    /\ pc[t] = "fetch"
    /\ failures < MaxFailures
    /\ failures' = failures + 1
    /\ Leave(t, "fault")
    /\ UNCHANGED <<cacheVars, page, prefetchVars, reads, panics>>

Rename(t) ==
    /\ pc[t] = "rename"
    /\ Content(t) \in temps
    /\ temps' = temps \ {Content(t)}
    /\ cache' = cache \cup {Content(t)}
    /\ Leave(t, "ok")
    /\ UNCHANGED <<fetched, page, prefetchVars, counters>>

\* Another writer has moved the temporary file away.
RenameLost(t) ==
    /\ pc[t] = "rename"
    /\ Content(t) \notin temps
    /\ Leave(t, "enoent")
    /\ UNCHANGED <<cacheVars, page, prefetchVars, counters>>

\* The pager panics: the gate is poisoned, which the next holder ignores, and
\* a temporary file may be left behind.  A worker's thread ends with it.
Panic(t) ==
    /\ Holding(t)
    /\ panics < MaxPanics
    /\ panics' = panics + 1
    /\ held' = held \ {StripeOf(page[t])}
    /\ pc' = [pc EXCEPT ![t] = "idle"]
    /\ result' = [result EXCEPT ![t] = "panic"]
    /\ dropped' = IF t \in Workers THEN dropped \cup {page[t]} ELSE dropped
    /\ UNCHANGED <<cacheVars, page, prefetchVars, reads, failures>>

ReadStep(t) ==
    Acquire(t) \/ Hit(t) \/ Miss(t) \/ Fetch(t) \/ FetchFail(t)
               \/ Rename(t) \/ RenameLost(t)

-----------------------------------------------------------------------------
(* prefetch.                                                               *)

\* One worker a page, at most Fanout of them; an empty list spawns none.
StartPrefetch(b) ==
    /\ ~prefetching
    /\ prefetches < MaxPrefetches
    /\ prefetches' = prefetches + 1
    /\ prefetching' = TRUE
    /\ batch' = b
    /\ cursor' = 0
    /\ dropped' = {}
    /\ pc' = [t \in Threads |-> IF t \in Workers /\ t <= Len(b) THEN "claim" ELSE pc[t]]
    /\ result' = [t \in Threads |-> IF t \in Workers THEN "none" ELSE result[t]]
    /\ UNCHANGED <<cacheVars, held, page, counters>>

\* Faulty variant: a worker goes round again when no page is left.
ClaimForever(w) ==
    /\ pc[w] = "claim"
    /\ cursor < Len(batch)
    /\ cursor' = cursor + 1
    /\ page' = [page EXCEPT ![w] = batch[cursor + 1]]
    /\ pc' = [pc EXCEPT ![w] = "gate"]
    /\ UNCHANGED <<cacheVars, held, result, prefetching, batch, prefetches, dropped, counters>>

\* A worker takes the next page, or ends when none is left.
Claim(w) ==
    /\ pc[w] = "claim"
    /\ cursor' = cursor + 1
    /\ IF cursor < Len(batch)
       THEN /\ page' = [page EXCEPT ![w] = batch[cursor + 1]]
            /\ pc' = [pc EXCEPT ![w] = "gate"]
       ELSE /\ pc' = [pc EXCEPT ![w] = "idle"]
            /\ UNCHANGED page
    /\ UNCHANGED <<cacheVars, held, result, prefetching, batch, prefetches, dropped, counters>>

\* Faulty variant: the caller returns once every page has been claimed.
PrefetchReturnDetached ==
    /\ prefetching
    /\ cursor >= Len(batch)
    /\ prefetching' = FALSE
    /\ UNCHANGED <<cacheVars, held, pc, page, result, batch, cursor, prefetches, dropped, counters>>

\* The scope has joined its workers; it hands on their panic, if there is one.
PrefetchReturn ==
    /\ prefetching
    /\ \A w \in Workers : pc[w] = "idle"
    /\ prefetching' = FALSE
    /\ UNCHANGED <<cacheVars, held, pc, page, result, batch, cursor, prefetches, dropped, counters>>

-----------------------------------------------------------------------------
Next ==
    \/ \E t \in Readers, p \in Pages : Request(t, p)
    \/ \E t \in Threads : ReadStep(t) \/ Panic(t)
    \/ \E b \in Batches : StartPrefetch(b)
    \/ \E w \in Workers : Claim(w)
    \/ PrefetchReturn

Spec == Init /\ [][Next]_vars

\* Threads run: each one's enabled step is eventually taken.  Nothing obliges
\* a reader to read, a caller to prefetch, or a thread to panic.
Fairness ==
    /\ \A t \in Threads : WF_vars(ReadStep(t))
    /\ \A w \in Workers : WF_vars(Claim(w))
    /\ WF_vars(PrefetchReturn)

FairSpec == Spec /\ Fairness

-----------------------------------------------------------------------------
(* What the gates are for.                                                 *)

\* The gate is chosen by page number and the temporary file by content.  They agree on
\* a content when no two of the pages that hold it take different gates.
OneGate(c) ==
    \A p, q \in Pages : ContentOf[p] = c /\ ContentOf[q] = c => StripeOf(p) = StripeOf(q)

\* No read fails because another thread moved its temporary file away (the comment on
\* `fault_gates').
NoLostRename == \A t \in Threads : result[t] # "enoent"

\* Two threads never fill one content behind one gate at once: a thread that has
\* streamed it to its temporary file finds the file there when it comes to rename it.
RenameFindsItsFile ==
    \A t \in Threads : pc[t] = "rename" /\ OneGate(Content(t)) => Content(t) \in temps

\* The tier delivers a content behind one gate once however many threads race for it,
\* and again only for a thread that panicked before it was in place
\* (tests/concurrent_faults.rs).
FetchedOnce == \A c \in Contents : OneGate(c) => fetched[c] <= 1 + panics

\* When prefetch returns, the warm is finished: each page asked for is in the
\* cache, was dropped with its error, or was left by a worker that panicked.
PrefetchWarms ==
    [][prefetching /\ ~prefetching' =>
        \/ \E w \in Workers : result[w] = "panic"
        \/ \A i \in 1 .. Len(batch) : ContentOf[batch[i]] \in cache \/ batch[i] \in dropped]_vars

\* A read in progress ends, whatever fails meanwhile: no gate stays locked.
ReadsReturn == \A t \in Readers : pc[t] # "idle" ~> pc[t] = "idle"

\* A prefetch in progress ends.
PrefetchReturns == prefetching ~> ~prefetching

-----------------------------------------------------------------------------
(* The strengthening that makes the first two inductive.                   *)

\* A gate is locked exactly by the thread that works under it.
GatesExclude ==
    /\ \A t \in Threads : Holding(t) => StripeOf(page[t]) \in held
    /\ \A t, u \in Threads :
          Holding(t) /\ Holding(u) /\ StripeOf(page[t]) = StripeOf(page[u]) => t = u

\* Behind one gate, a thread past its lookup still finds what the lookup found.
FillIsAlone ==
    \A t \in Threads :
        pc[t] \in {"fetch", "rename"} /\ OneGate(Content(t)) => Content(t) \notin cache

\* Behind one gate, nothing is fetched before it is needed.
FetchedIsPlaced ==
    \A c \in Contents :
        OneGate(c) /\ c \notin cache /\ (\A t \in Threads : pc[t] = "rename" => Content(t) # c)
            => fetched[c] <= panics

\* Between prefetches no worker runs.
WorkersJoined == ~prefetching => \A w \in Workers : pc[w] = "idle"

GatesInv ==
    /\ TypeOK
    /\ WorkersJoined
    /\ GatesExclude
    /\ FillIsAlone
    /\ FetchedIsPlaced
    /\ FetchedOnce
    /\ RenameFindsItsFile

-----------------------------------------------------------------------------
(* The invariant behind PrefetchWarms; it needs no assumption on the gates. *)

\* A thread is at a page from its claim or request until it leaves read_page.
AtPage(t) == pc[t] \in {"gate", "lookup", "fetch", "rename"}

\* A page a worker has claimed is in the cache, was given up, or is being read.
ClaimedIsSettled ==
    \A i \in 1 .. Len(batch) : i <= cursor =>
        \/ ContentOf[batch[i]] \in cache
        \/ batch[i] \in dropped
        \/ \E w \in Workers : AtPage(w) /\ page[w] = batch[i]

\* The first worker, which only an empty list does without, goes on while pages
\* are left to claim.
FirstWorkerGoesOn == cursor < Len(batch) => pc[1] # "idle" \/ result[1] = "panic"

PrefetchInv == TypeOK /\ ClaimedIsSettled /\ FirstWorkerGoesOn

=============================================================================
