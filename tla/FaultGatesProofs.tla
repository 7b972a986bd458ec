-------------------------- MODULE FaultGatesProofs --------------------------
(***************************************************************************)
(* The gates of FaultGates do their work, for any readers, workers, pages  *)
(* and bounds, on every content whose pages all take one gate.             *)
(***************************************************************************)
EXTENDS FaultGates, TLAPS

\* Every page has a gate.
LEMMA StripeIsGate ==
    ASSUME NEW p \in Pages
    PROVE  StripeOf(p) \in Gates
<1>1. p \in Nat /\ Stripes \in Nat \ {0}
    BY GatesAssumption
<1> QED
    BY <1>1 DEF StripeOf, Gates

\* Two threads that work on one content behind one gate are one thread: this is what
\* the gate is for.
LEMMA FillersAgree ==
    ASSUME TypeOK, GatesExclude, NEW t \in Threads, NEW u \in Threads,
           Holding(t), Holding(u), Content(t) = Content(u), OneGate(Content(t))
    PROVE  t = u
<1>1. page[t] \in Pages /\ page[u] \in Pages
    BY DEF TypeOK
<1>2. StripeOf(page[t]) = StripeOf(page[u])
    BY <1>1 DEF OneGate, Content
<1> QED
    BY <1>2 DEF GatesExclude

\* The contents of pages are contents.
LEMMA ContentType ==
    ASSUME TypeOK, NEW t \in Threads
    PROVE  page[t] \in Pages /\ Content(t) \in Contents
BY GatesAssumption DEF TypeOK, Content

-----------------------------------------------------------------------------
(* Initially.                                                              *)

\* A cold cache with no thread in it satisfies the invariant.
LEMMA GatesInit ==
    ASSUME Init
    PROVE  GatesInv
<1> USE GatesAssumption
<1>0. PICK p \in Pages : page = [t \in Threads |-> p]
    BY DEF Init
<1>1. TypeOK
  <2>1. MaxReads \in Nat /\ MaxPrefetches \in Nat /\ MaxFailures \in Nat /\ MaxPanics \in Nat
      OBVIOUS
  <2>2. 0 \in 0 .. MaxReads /\ 0 \in 0 .. MaxPrefetches /\ 0 \in 0 .. MaxFailures
            /\ 0 \in 0 .. MaxPanics
      BY <2>1
  <2>3. batch \in Seq(Pages) /\ cursor \in Nat /\ fetched \in [Contents -> Nat]
      BY DEF Init
  <2>4. page \in [Threads -> Pages] /\ reads \in [Readers -> 0 .. MaxReads]
      BY <1>0, <2>2 DEF Init
  <2> QED
      BY <2>2, <2>3, <2>4 DEF Init, TypeOK
<1>2. GatesExclude /\ FillIsAlone /\ RenameFindsItsFile /\ WorkersJoined
    BY DEF Init, GatesExclude, FillIsAlone, RenameFindsItsFile, WorkersJoined, Holding, Threads
<1>3. FetchedIsPlaced /\ FetchedOnce
    BY DEF Init, FetchedIsPlaced, FetchedOnce
<1> QED
    BY <1>1, <1>2, <1>3 DEF GatesInv

-----------------------------------------------------------------------------
(* The steps of read_page.                                                 *)

\* A thread that lets its gate go leaves the other gates as they were.
LEMMA ReleaseKeeps ==
    ASSUME TypeOK, GatesExclude, NEW t \in Threads, Holding(t),
           NEW after \in {"claim", "idle"},
           pc' = [pc EXCEPT ![t] = after],
           held' = held \ {StripeOf(page[t])}, page' = page
    PROVE  /\ GatesExclude'
           /\ \A u \in Threads : Holding(u)' => Holding(u) /\ u # t
           /\ \A u \in Threads : u # t => pc'[u] = pc[u]
<1>1. \A u \in Threads : u # t => pc'[u] = pc[u]
    BY DEF TypeOK
<1>2. \A u \in Threads : Holding(u)' => Holding(u) /\ u # t
    BY DEF Holding, TypeOK
<1>3. ASSUME NEW u \in Threads, Holding(u)'
      PROVE  StripeOf(page[u]) \in held'
  <2>1. Holding(u) /\ u # t
      BY <1>2, <1>3
  <2>2. StripeOf(page[u]) \in held /\ StripeOf(page[u]) # StripeOf(page[t])
      BY <2>1 DEF GatesExclude
  <2> QED
      BY <2>2
<1>4. ASSUME NEW u \in Threads, NEW v \in Threads, Holding(u)', Holding(v)',
             StripeOf(page[u]) = StripeOf(page[v])
      PROVE  u = v
    BY <1>2, <1>4 DEF GatesExclude
<1>5. GatesExclude'
    BY <1>3, <1>4 DEF GatesExclude, StripeOf
<1> QED
    BY <1>1, <1>2, <1>5

\* Between prefetches it is no worker that reads, so a reader's step leaves
\* the workers idle.
LEMMA WorkersStayJoined ==
    ASSUME TypeOK, WorkersJoined, NEW t \in Threads, pc[t] # "idle",
           NEW after, pc' = [pc EXCEPT ![t] = after],
           prefetching' = prefetching
    PROVE  WorkersJoined'
<1>1. t \in Workers => prefetching
    BY DEF WorkersJoined
<1>2. \A w \in Workers : w # t => pc'[w] = pc[w]
    BY DEF TypeOK, Threads
<1> QED
    BY <1>1, <1>2 DEF WorkersJoined

\* Leaving read_page other than by placing a page keeps the invariant.
LEMMA LeaveKeeps ==
    ASSUME GatesInv, NEW t \in Threads, Holding(t),
           pc[t] # "rename" \/ ~OneGate(Content(t)),
           UNCHANGED <<cacheVars, page, prefetchVars, reads, panics>>,
           failures' \in 0 .. MaxFailures,
           NEW outcome \in {"ok", "fault", "enoent"}, Leave(t, outcome)
    PROVE  GatesInv'
<1> USE DEF GatesInv, cacheVars, prefetchVars
<1> DEFINE after == IF t \in Workers THEN "claim" ELSE "idle"
<1>1. /\ page[t] \in Pages
      /\ pc' = [pc EXCEPT ![t] = after] /\ after \in {"claim", "idle"}
    BY ContentType DEF Leave
<1> HIDE DEF after
<1>2. /\ GatesExclude'
      /\ \A u \in Threads : Holding(u)' => Holding(u) /\ u # t
      /\ \A u \in Threads : u # t => pc'[u] = pc[u]
    BY <1>1, ReleaseKeeps DEF Leave
<1>3. TypeOK'
    BY <1>1 DEF TypeOK, Leave
<1>4. FillIsAlone' /\ RenameFindsItsFile'
    BY <1>2 DEF FillIsAlone, RenameFindsItsFile, Holding, Content
<1>5. FetchedIsPlaced'
    BY <1>2 DEF FetchedIsPlaced, Content
<1>6. WorkersJoined'
    BY <1>1, WorkersStayJoined DEF Holding
<1>7. FetchedOnce'
    BY DEF FetchedOnce
<1> QED
    BY <1>2, <1>3, <1>4, <1>5, <1>6, <1>7

\* Asking for a page touches nothing a gate guards.
LEMMA RequestKeeps ==
    ASSUME GatesInv, NEW t \in Readers, NEW p \in Pages, Request(t, p)
    PROVE  GatesInv'
<1> USE DEF GatesInv, Request, cacheVars, prefetchVars
<1>0. t \in Threads /\ t \notin Workers
    BY GatesAssumption DEF Threads
<1>1. \A u \in Threads : u # t => pc'[u] = pc[u] /\ page'[u] = page[u]
    BY DEF TypeOK
<1>2. pc'[t] = "gate"
    BY <1>0 DEF TypeOK
<1>3. TypeOK'
  <2>1. reads[t] + 1 \in 0 .. MaxReads
      BY GatesAssumption DEF TypeOK
  <2> QED
      BY <1>0, <2>1 DEF TypeOK
<1>4. GatesExclude' /\ FillIsAlone' /\ RenameFindsItsFile'
    BY <1>1, <1>2 DEF GatesExclude, FillIsAlone, RenameFindsItsFile, Holding, Content, StripeOf
<1>5. FetchedIsPlaced'
  <2>1. ASSUME NEW u \in Threads, pc[u] = "rename"
        PROVE  pc'[u] = "rename" /\ Content(u)' = Content(u)
      BY <1>1, <2>1 DEF Content
  <2> QED
      BY <2>1 DEF FetchedIsPlaced
<1>6. WorkersJoined'
    BY <1>0, <1>1 DEF WorkersJoined, Threads
<1>7. FetchedOnce'
    BY DEF FetchedOnce
<1> QED
    BY <1>3, <1>4, <1>5, <1>6, <1>7

\* A thread takes a gate only when no other has it.
LEMMA AcquireKeeps ==
    ASSUME GatesInv, NEW t \in Threads, Acquire(t)
    PROVE  GatesInv'
<1> USE DEF GatesInv, Acquire, cacheVars, prefetchVars, counters
<1>1. \A u \in Threads : u # t => pc'[u] = pc[u]
    BY DEF TypeOK
<1>2. pc'[t] = "lookup" /\ page[t] \in Pages /\ StripeOf(page[t]) \in Gates
    BY StripeIsGate DEF TypeOK
<1>3. TypeOK'
    BY <1>2 DEF TypeOK
<1>4. \A u \in Threads : Holding(u) => StripeOf(page[u]) # StripeOf(page[t])
    BY DEF GatesExclude
<1>5. \A u \in Threads : u # t => (Holding(u)' <=> Holding(u))
    BY <1>1 DEF Holding
<1>6. ASSUME NEW u \in Threads, Holding(u)'
      PROVE  StripeOf(page[u]) \in held'
    BY <1>5, <1>6 DEF GatesExclude
<1>7. ASSUME NEW u \in Threads, NEW v \in Threads, Holding(u)', Holding(v)',
             StripeOf(page[u]) = StripeOf(page[v])
      PROVE  u = v
    BY <1>4, <1>5, <1>7 DEF GatesExclude
<1>8. GatesExclude'
    BY <1>6, <1>7 DEF GatesExclude, StripeOf
<1>9. FillIsAlone' /\ RenameFindsItsFile' /\ FetchedIsPlaced'
    BY <1>1, <1>2 DEF FillIsAlone, RenameFindsItsFile, FetchedIsPlaced, Content
<1>10. WorkersJoined'
    BY WorkersStayJoined
<1>11. FetchedOnce'
    BY DEF FetchedOnce
<1> QED
    BY <1>3, <1>8, <1>9, <1>10, <1>11

\* A thread that moves on under its gate leaves the gates as they were.
LEMMA HoldKeeps ==
    ASSUME TypeOK, GatesExclude, NEW t \in Threads, Holding(t),
           NEW after \in {"fetch", "rename"},
           pc' = [pc EXCEPT ![t] = after], held' = held, page' = page
    PROVE  /\ GatesExclude'
           /\ pc'[t] = after
           /\ \A u \in Threads : u # t => pc'[u] = pc[u]
<1>1. pc'[t] = after /\ \A u \in Threads : u # t => pc'[u] = pc[u]
    BY DEF TypeOK
<1>2. \A u \in Threads : Holding(u)' => Holding(u)
    BY <1>1 DEF Holding
<1> QED
    BY <1>1, <1>2 DEF GatesExclude, StripeOf

\* What a lookup misses stays missing until its thread fills it.
LEMMA MissKeeps ==
    ASSUME GatesInv, NEW t \in Threads, Miss(t)
    PROVE  GatesInv'
<1> USE DEF GatesInv, Miss, cacheVars, prefetchVars, counters
<1>1. /\ GatesExclude'
      /\ pc'[t] = "fetch"
      /\ \A u \in Threads : u # t => pc'[u] = pc[u]
    BY HoldKeeps DEF Holding
<1>2. TypeOK'
    BY DEF TypeOK
<1>3. FillIsAlone' /\ RenameFindsItsFile' /\ FetchedIsPlaced'
    BY <1>1 DEF FillIsAlone, RenameFindsItsFile, FetchedIsPlaced, Content
<1>4. WorkersJoined'
    BY WorkersStayJoined
<1>5. FetchedOnce'
    BY DEF FetchedOnce
<1> QED
    BY <1>1, <1>2, <1>3, <1>4, <1>5

\* The tier is asked only for what is neither in place nor on its way.
LEMMA FetchKeeps ==
    ASSUME GatesInv, NEW t \in Threads, Fetch(t)
    PROVE  GatesInv'
<1> USE DEF GatesInv, Fetch, prefetchVars, counters
<1>1. /\ GatesExclude'
      /\ pc'[t] = "rename"
      /\ \A u \in Threads : u # t => pc'[u] = pc[u]
    BY HoldKeeps DEF Holding
<1>2. PICK c \in Contents : c = Content(t)
    BY ContentType
<1>3. fetched[c] \in Nat /\ panics \in Nat
      /\ fetched' = [fetched EXCEPT ![c] = fetched[c] + 1]
      /\ temps' = temps \cup {c}
    BY <1>2, GatesAssumption DEF TypeOK
<1>4. TypeOK'
    BY <1>3 DEF TypeOK
<1>5. Content(t)' = c /\ (OneGate(c) => c \notin cache)
    BY <1>2 DEF FillIsAlone, Content
<1>6. FillIsAlone' /\ RenameFindsItsFile'
    BY <1>1, <1>3, <1>5 DEF FillIsAlone, RenameFindsItsFile, Content
<1>7. ASSUME OneGate(c) PROVE fetched[c] <= panics
  <2>1. \A u \in Threads : pc[u] = "rename" => Content(u) # c
      BY <1>2, <1>7, FillersAgree DEF Holding
  <2> QED
      BY <1>5, <1>7, <2>1 DEF FetchedIsPlaced
<1>8. FetchedIsPlaced'
  <2>1. ASSUME NEW d \in Contents, OneGate(d), d \notin cache,
               \A u \in Threads : pc'[u] = "rename" => Content(u)' # d
        PROVE  fetched'[d] <= panics
    <3>1. d # c
        BY <1>1, <1>5, <2>1
    <3>2. \A u \in Threads : pc[u] = "rename" => Content(u) # d
        BY <1>1, <2>1 DEF Content
    <3>3. fetched'[d] = fetched[d]
        BY <1>3, <3>1 DEF TypeOK
    <3> QED
        BY <2>1, <3>2, <3>3 DEF FetchedIsPlaced
  <2> QED
      BY <2>1 DEF FetchedIsPlaced
<1>9. FetchedOnce'
  <2>1. OneGate(c) => fetched'[c] <= 1 + panics
      BY <1>3, <1>7 DEF TypeOK
  <2>2. \A d \in Contents : d # c => fetched'[d] = fetched[d]
      BY <1>3 DEF TypeOK
  <2> QED
      BY <2>1, <2>2 DEF FetchedOnce
<1>10. WorkersJoined'
    BY WorkersStayJoined
<1> QED
    BY <1>1, <1>4, <1>6, <1>8, <1>9, <1>10

\* A page goes into place under a name that, behind one gate, no other thread was using.
LEMMA RenameKeeps ==
    ASSUME GatesInv, NEW t \in Threads, Rename(t)
    PROVE  GatesInv'
<1> USE DEF GatesInv, Rename, prefetchVars, counters
<1> DEFINE after == IF t \in Workers THEN "claim" ELSE "idle"
<1>1. pc' = [pc EXCEPT ![t] = after] /\ after \in {"claim", "idle"}
    BY DEF Leave
<1> HIDE DEF after
<1>2. /\ GatesExclude'
      /\ \A u \in Threads : Holding(u)' => Holding(u) /\ u # t
      /\ \A u \in Threads : u # t => pc'[u] = pc[u]
    BY <1>1, ReleaseKeeps DEF Leave, Holding
<1>3. PICK c \in Contents : c = Content(t) /\ page[t] \in Pages
    BY ContentType
<1>4. TypeOK'
    BY <1>1, <1>3 DEF TypeOK, Leave
<1>5. FillIsAlone' /\ RenameFindsItsFile'
  <2>1. ASSUME NEW u \in Threads, Holding(u)', OneGate(Content(u))
        PROVE  Content(u) # c
      BY <1>2, <1>3, <2>1, FillersAgree DEF Holding
  <2> QED
      BY <1>2, <1>3, <2>1 DEF FillIsAlone, RenameFindsItsFile, Holding, Content
<1>6. FetchedIsPlaced'
  <2>1. ASSUME NEW d \in Contents, OneGate(d), d \notin cache',
               \A u \in Threads : pc'[u] = "rename" => Content(u)' # d
        PROVE  fetched[d] <= panics
    <3>1. d # c /\ d \notin cache
        BY <1>3, <2>1
    <3>2. \A u \in Threads : pc[u] = "rename" => Content(u) # d
        BY <1>2, <1>3, <2>1, <3>1 DEF Content
    <3> QED
        BY <2>1, <3>1, <3>2 DEF FetchedIsPlaced
  <2> QED
      BY <2>1 DEF FetchedIsPlaced
<1>7. WorkersJoined'
    BY <1>1, WorkersStayJoined
<1>8. FetchedOnce'
    BY DEF FetchedOnce
<1> QED
    BY <1>2, <1>4, <1>5, <1>6, <1>7, <1>8

\* A panic frees its gate and may cost one more fetch of its page.
LEMMA PanicKeeps ==
    ASSUME GatesInv, NEW t \in Threads, Panic(t)
    PROVE  GatesInv'
<1> USE DEF GatesInv, Panic, cacheVars, prefetchVars
<1>1. /\ GatesExclude'
      /\ \A u \in Threads : Holding(u)' => Holding(u) /\ u # t
      /\ \A u \in Threads : u # t => pc'[u] = pc[u]
    BY ReleaseKeeps
<1>2. page[t] \in Pages /\ panics \in Nat /\ panics' = panics + 1 /\ panics' \in 0 .. MaxPanics
    BY ContentType, GatesAssumption DEF TypeOK
<1>3. TypeOK'
    BY <1>2 DEF TypeOK
<1>4. FillIsAlone' /\ RenameFindsItsFile'
    BY <1>1 DEF FillIsAlone, RenameFindsItsFile, Holding, Content
<1>5. FetchedIsPlaced' /\ FetchedOnce'
  <2>1. \A c \in Contents : fetched[c] \in Nat /\ (OneGate(c) => fetched[c] <= 1 + panics)
      BY DEF FetchedOnce, TypeOK
  <2>2. \A c \in Contents : OneGate(c) => fetched[c] <= panics' /\ fetched[c] <= 1 + panics'
      BY <1>2, <2>1
  <2> QED
      BY <2>2 DEF FetchedIsPlaced, FetchedOnce
<1>6. WorkersJoined'
    BY WorkersStayJoined DEF Holding
<1> QED
    BY <1>1, <1>3, <1>4, <1>5, <1>6

-----------------------------------------------------------------------------
(* The steps of prefetch.                                                  *)

\* Workers are spawned where none is running.
LEMMA StartPrefetchKeeps ==
    ASSUME GatesInv, NEW b \in Batches, StartPrefetch(b)
    PROVE  GatesInv'
<1> USE DEF GatesInv, StartPrefetch, cacheVars, counters
<1>1. \A u \in Threads : pc'[u] = pc[u] \/ (pc[u] = "idle" /\ pc'[u] = "claim")
    BY DEF WorkersJoined
<1>2. \A u \in Threads : Holding(u)' => Holding(u) /\ pc'[u] = pc[u]
    BY <1>1 DEF Holding
<1>3. TypeOK'
  <2>1. prefetches + 1 \in 0 .. MaxPrefetches
      BY GatesAssumption DEF TypeOK
  <2>2. b \in Seq(Pages)
      BY GatesAssumption
  <2>3. pc' \in [Threads -> {"idle", "claim", "gate", "lookup", "fetch", "rename"}]
      BY DEF TypeOK
  <2>4. result' \in [Threads -> {"none", "ok", "fault", "enoent", "panic"}]
      BY DEF TypeOK
  <2> QED
      BY <2>1, <2>2, <2>3, <2>4 DEF TypeOK
<1>4. GatesExclude' /\ FillIsAlone' /\ RenameFindsItsFile'
    BY <1>2 DEF GatesExclude, FillIsAlone, RenameFindsItsFile, Holding, Content, StripeOf
<1>5. FetchedIsPlaced'
    BY <1>1 DEF FetchedIsPlaced, Content
<1>6. WorkersJoined' /\ FetchedOnce'
    BY DEF WorkersJoined, FetchedOnce
<1> QED
    BY <1>3, <1>4, <1>5, <1>6

\* Claiming a page touches nothing a gate guards.
LEMMA ClaimKeeps ==
    ASSUME GatesInv, NEW w \in Workers, Claim(w)
    PROVE  GatesInv'
<1> USE DEF GatesInv, Claim, cacheVars, counters
<1>0. w \in Threads
    BY DEF Threads
<1>1. /\ \A u \in Threads : u # w => pc'[u] = pc[u] /\ page'[u] = page[u]
      /\ pc'[w] \in {"gate", "idle"}
    BY <1>0 DEF TypeOK
<1>2. \A u \in Threads : Holding(u)' => Holding(u) /\ u # w
    BY <1>1 DEF Holding
<1>3. TypeOK'
  <2>1. cursor < Len(batch) => batch[cursor + 1] \in Pages
      BY DEF TypeOK
  <2>2. cursor + 1 \in Nat
      BY DEF TypeOK
  <2>3. page' \in [Threads -> Pages]
      BY <2>1 DEF TypeOK
  <2> QED
      BY <2>2, <2>3 DEF TypeOK
<1>4. GatesExclude' /\ FillIsAlone' /\ RenameFindsItsFile'
    BY <1>1, <1>2 DEF GatesExclude, FillIsAlone, RenameFindsItsFile, Holding, Content, StripeOf
<1>5. FetchedIsPlaced'
  <2>1. ASSUME NEW u \in Threads, pc[u] = "rename"
        PROVE  pc'[u] = "rename" /\ Content(u)' = Content(u)
      BY <1>1, <2>1 DEF Content
  <2> QED
      BY <2>1 DEF FetchedIsPlaced
<1>6. WorkersJoined'
    BY <1>1 DEF WorkersJoined, Threads
<1>7. FetchedOnce'
    BY DEF FetchedOnce
<1> QED
    BY <1>3, <1>4, <1>5, <1>6, <1>7

\* The scope returns with every worker joined, and a stutter changes nothing.
LEMMA ReturnKeeps ==
    ASSUME GatesInv, PrefetchReturn \/ UNCHANGED vars
    PROVE  GatesInv'
<1> USE DEF GatesInv, cacheVars, counters
<1>1. CASE PrefetchReturn
  <2> USE <1>1 DEF PrefetchReturn
  <2>1. TypeOK' /\ WorkersJoined'
      BY DEF TypeOK, WorkersJoined
  <2>2. GatesExclude' /\ FillIsAlone' /\ RenameFindsItsFile'
      BY DEF GatesExclude, FillIsAlone, RenameFindsItsFile, Holding, Content, StripeOf
  <2>3. FetchedIsPlaced' /\ FetchedOnce'
      BY DEF FetchedIsPlaced, FetchedOnce, Content
  <2> QED
      BY <2>1, <2>2, <2>3
<1>2. CASE UNCHANGED vars
  <2> USE <1>2 DEF vars
  <2>1. TypeOK' /\ WorkersJoined'
      BY DEF TypeOK, WorkersJoined
  <2>2. GatesExclude' /\ FillIsAlone' /\ RenameFindsItsFile'
      BY DEF GatesExclude, FillIsAlone, RenameFindsItsFile, Holding, Content, StripeOf
  <2>3. FetchedIsPlaced' /\ FetchedOnce'
      BY DEF FetchedIsPlaced, FetchedOnce, Content
  <2> QED
      BY <2>1, <2>2, <2>3
<1> QED
    BY <1>1, <1>2

-----------------------------------------------------------------------------
(* The theorems.                                                           *)

\* The gates exclude, and behind one gate a filler is alone and the tier is asked once
\* for what is not in place (read_page, prefetch).
THEOREM GatesInvariant == Spec => []GatesInv
<1>1. Init => GatesInv
    BY GatesInit
<1>2. GatesInv /\ [Next]_vars => GatesInv'
  <2> SUFFICES ASSUME GatesInv, [Next]_vars
               PROVE  GatesInv'
      OBVIOUS
  <2>1. CASE \E t \in Readers, p \in Pages : Request(t, p)
      BY <2>1, RequestKeeps
  <2>2. ASSUME NEW t \in Threads, ReadStep(t)
        PROVE  GatesInv'
    <3>1. CASE Acquire(t)
        BY <3>1, AcquireKeeps
    <3>2. CASE Hit(t)
      <4>1. failures' \in 0 .. MaxFailures
          BY <3>2 DEF Hit, counters, GatesInv, TypeOK
      <4> QED
          BY <3>2, <4>1, LeaveKeeps DEF Hit, Holding, counters
    <3>3. CASE Miss(t)
        BY <3>3, MissKeeps
    <3>4. CASE Fetch(t)
        BY <3>4, FetchKeeps
    <3>5. CASE FetchFail(t)
      <4>1. failures' \in 0 .. MaxFailures
          BY <3>5, GatesAssumption DEF FetchFail, GatesInv, TypeOK
      <4> QED
          BY <3>5, <4>1, LeaveKeeps DEF FetchFail, Holding
    <3>6. CASE Rename(t)
        BY <3>6, RenameKeeps
    <3>7. CASE RenameLost(t)
      <4>1. ~OneGate(Content(t)) /\ failures' \in 0 .. MaxFailures
          BY <3>7 DEF RenameLost, counters, GatesInv, RenameFindsItsFile, TypeOK
      <4> QED
          BY <3>7, <4>1, LeaveKeeps DEF RenameLost, Holding, counters
    <3> QED
        BY <2>2, <3>1, <3>2, <3>3, <3>4, <3>5, <3>6, <3>7 DEF ReadStep
  <2>3. CASE \E t \in Threads : Panic(t)
      BY <2>3, PanicKeeps
  <2>4. CASE \E b \in Batches : StartPrefetch(b)
      BY <2>4, StartPrefetchKeeps
  <2>5. CASE \E w \in Workers : Claim(w)
      BY <2>5, ClaimKeeps
  <2>6. CASE PrefetchReturn \/ UNCHANGED vars
      BY <2>6, ReturnKeeps
  <2> QED
      BY <2>1, <2>2, <2>3, <2>4, <2>5, <2>6 DEF Next
<1> QED
    BY <1>1, <1>2, PTL DEF Spec

\* Behind one gate no thread's temporary file is moved away by another (read_page).
THEOREM GatesRenamesFindTheirFiles == Spec => []RenameFindsItsFile
<1>1. GatesInv => RenameFindsItsFile
    BY DEF GatesInv
<1> QED
    BY <1>1, GatesInvariant, PTL

\* The tier delivers a content behind one gate once, and again only after a panic.
THEOREM GatesFetchedOnce == Spec => []FetchedOnce
<1>1. GatesInv => FetchedOnce
    BY DEF GatesInv
<1> QED
    BY <1>1, GatesInvariant, PTL

-----------------------------------------------------------------------------
(* What prefetch leaves behind, whatever the gates do.                     *)

\* A thread's step keeps the types, if it is by the gates or past them.
LEMMA StepTypes ==
    ASSUME TypeOK, [Next]_vars
    PROVE  TypeOK'
<1> USE GatesAssumption DEF TypeOK, cacheVars, prefetchVars, counters
<1>1. ASSUME NEW t \in Readers, NEW p \in Pages, Request(t, p)
      PROVE  TypeOK'
  <2>1. reads[t] + 1 \in 0 .. MaxReads /\ t \in Threads
      BY <1>1 DEF Request, Threads
  <2> QED
      BY <1>1, <2>1 DEF Request
<1>2. ASSUME NEW t \in Threads, NEW outcome \in {"ok", "fault", "enoent"},
             Leave(t, outcome)
      PROVE  /\ held' \subseteq Gates /\ dropped' \subseteq Pages
             /\ pc' \in [Threads -> {"idle", "claim", "gate", "lookup", "fetch", "rename"}]
             /\ result' \in [Threads -> {"none", "ok", "fault", "enoent", "panic"}]
    BY <1>2 DEF Leave
<1>3. ASSUME NEW t \in Threads, ReadStep(t)
      PROVE  TypeOK'
  <2>1. CASE Acquire(t)
    <3>1. StripeOf(page[t]) \in Gates
        BY StripeIsGate
    <3> QED
        BY <2>1, <3>1 DEF Acquire
  <2>2. CASE Hit(t)
      BY <1>2, <2>2 DEF Hit
  <2>3. CASE Miss(t)
      BY <2>3 DEF Miss
  <2>4. CASE Fetch(t)
    <3>1. Content(t) \in Contents
        BY ContentType
    <3> QED
        BY <2>4, <3>1 DEF Fetch
  <2>5. CASE FetchFail(t)
    <3>1. failures' \in 0 .. MaxFailures
        BY <2>5 DEF FetchFail
    <3> QED
        BY <1>2, <2>5, <3>1 DEF FetchFail
  <2>6. CASE Rename(t)
    <3>1. Content(t) \in Contents
        BY ContentType
    <3> QED
        BY <1>2, <2>6, <3>1 DEF Rename
  <2>7. CASE RenameLost(t)
      BY <1>2, <2>7 DEF RenameLost
  <2> QED
      BY <1>3, <2>1, <2>2, <2>3, <2>4, <2>5, <2>6, <2>7 DEF ReadStep
<1>4. ASSUME NEW t \in Threads, Panic(t)
      PROVE  TypeOK'
  <2>1. panics' \in 0 .. MaxPanics /\ page[t] \in Pages
      BY <1>4 DEF Panic
  <2> QED
      BY <1>4, <2>1 DEF Panic
<1>5. ASSUME NEW b \in Batches, StartPrefetch(b)
      PROVE  TypeOK'
  <2>1. prefetches' \in 0 .. MaxPrefetches /\ b \in Seq(Pages)
      BY <1>5 DEF StartPrefetch
  <2>2. pc' \in [Threads -> {"idle", "claim", "gate", "lookup", "fetch", "rename"}]
      BY <1>5 DEF StartPrefetch
  <2>3. result' \in [Threads -> {"none", "ok", "fault", "enoent", "panic"}]
      BY <1>5 DEF StartPrefetch
  <2> QED
      BY <1>5, <2>1, <2>2, <2>3 DEF StartPrefetch
<1>6. ASSUME NEW w \in Workers, Claim(w)
      PROVE  TypeOK'
  <2>1. cursor < Len(batch) => batch[cursor + 1] \in Pages
      OBVIOUS
  <2>2. cursor' \in Nat
      BY <1>6 DEF Claim
  <2>3. page' \in [Threads -> Pages]
      BY <1>6, <2>1 DEF Claim
  <2>4. pc' \in [Threads -> {"idle", "claim", "gate", "lookup", "fetch", "rename"}]
      BY <1>6 DEF Claim
  <2> QED
      BY <1>6, <2>2, <2>3, <2>4 DEF Claim
<1>7. CASE PrefetchReturn
    BY <1>7 DEF PrefetchReturn
<1>8. CASE UNCHANGED vars
    BY <1>8 DEF vars
<1> QED
    BY <1>1, <1>3, <1>4, <1>5, <1>6, <1>7, <1>8 DEF Next

\* The state keeps its types: every page finds a gate, every worker a page.
THEOREM GatesTypeOK == Spec => []TypeOK
<1>1. Init => TypeOK
    BY GatesInit DEF GatesInv
<1>2. TypeOK /\ [Next]_vars => TypeOK'
    BY StepTypes
<1> QED
    BY <1>1, <1>2, PTL DEF Spec

\* A step that claims nothing keeps claimed pages settled if a worker leaves its
\* page only for the cache or the list of what was dropped.
LEMMA StepSettles ==
    ASSUME ClaimedIsSettled, UNCHANGED <<batch, cursor>>,
           cache \subseteq cache', dropped \subseteq dropped',
           \A w \in Workers : AtPage(w) =>
               \/ AtPage(w)' /\ page'[w] = page[w]
               \/ ContentOf[page[w]] \in cache' \/ page[w] \in dropped'
    PROVE  ClaimedIsSettled'
<1> SUFFICES ASSUME NEW i \in 1 .. Len(batch), i <= cursor
             PROVE  \/ ContentOf[batch[i]] \in cache'
                    \/ batch[i] \in dropped'
                    \/ \E w \in Workers : AtPage(w)' /\ page'[w] = batch[i]
    BY DEF ClaimedIsSettled
<1>1. CASE ContentOf[batch[i]] \in cache \/ batch[i] \in dropped
    BY <1>1
<1>2. CASE \E w \in Workers : AtPage(w) /\ page[w] = batch[i]
    BY <1>2
<1> QED
    BY <1>1, <1>2 DEF ClaimedIsSettled

\* A thread in read_page, or one that panics there, keeps what prefetch relies on.
LEMMA ReadingSettles ==
    ASSUME PrefetchInv, NEW t \in Threads, ReadStep(t) \/ Panic(t)
    PROVE  ClaimedIsSettled' /\ FirstWorkerGoesOn'
<1> USE DEF PrefetchInv, cacheVars, prefetchVars, counters
<1>1. /\ UNCHANGED <<batch, cursor, page>> /\ cache \subseteq cache'
      /\ pc[t] \notin {"idle", "claim"} /\ page[t] \in Pages
      /\ \A u \in Threads \ {t} : pc'[u] = pc[u] /\ result'[u] = result[u]
  <2>1. \A outcome \in {"ok", "fault", "enoent"} : Leave(t, outcome) =>
            \A u \in Threads \ {t} : pc'[u] = pc[u] /\ result'[u] = result[u]
      BY DEF Leave, TypeOK
  <2>2. ReadStep(t) => \A u \in Threads \ {t} : pc'[u] = pc[u] /\ result'[u] = result[u]
      BY <2>1 DEF ReadStep, Acquire, Hit, Miss, Fetch, FetchFail, Rename, RenameLost, TypeOK
  <2>3. Panic(t) => \A u \in Threads \ {t} : pc'[u] = pc[u] /\ result'[u] = result[u]
      BY DEF Panic, TypeOK
  <2>4. UNCHANGED <<batch, cursor, page>> /\ cache \subseteq cache'
      BY DEF ReadStep, Acquire, Hit, Miss, Fetch, FetchFail, Rename, RenameLost, Panic
  <2>5. pc[t] \notin {"idle", "claim"}
      BY DEF ReadStep, Acquire, Hit, Miss, Fetch, FetchFail, Rename, RenameLost, Panic, Holding
  <2> QED
      BY <2>2, <2>3, <2>4, <2>5 DEF TypeOK
<1>2. /\ dropped \subseteq dropped'
      /\ \/ AtPage(t)'
         \/ t \in Workers => ContentOf[page[t]] \in cache' \/ page[t] \in dropped'
  <2>1. CASE Acquire(t) \/ Miss(t) \/ Fetch(t)
      BY <2>1 DEF Acquire, Miss, Fetch, AtPage, TypeOK
  <2>2. CASE Hit(t)
      BY <2>2 DEF Hit, Leave, Content
  <2>3. CASE FetchFail(t) \/ RenameLost(t)
      BY <2>3 DEF FetchFail, RenameLost, Leave
  <2>4. CASE Rename(t)
      BY <2>4 DEF Rename, Leave, Content
  <2>5. CASE Panic(t)
      BY <2>5 DEF Panic
  <2> QED
      BY <2>1, <2>2, <2>3, <2>4, <2>5 DEF ReadStep
<1>3. ClaimedIsSettled'
  <2>1. \A w \in Workers \ {t} : AtPage(w) => AtPage(w)'
      BY <1>1 DEF AtPage, Threads
  <2> QED
      BY <1>1, <1>2, <2>1, StepSettles
<1>4. FirstWorkerGoesOn'
  <2>1. 1 \in Workers /\ 1 \in Threads
      BY GatesAssumption DEF Workers, Threads
  <2>2. t = 1 => pc'[1] # "idle" \/ result'[1] = "panic"
    <3>1. \A outcome \in {"ok", "fault", "enoent"} : Leave(1, outcome) => pc'[1] # "idle"
        BY <2>1 DEF Leave, TypeOK
    <3>2. ReadStep(1) => pc'[1] # "idle"
        BY <2>1, <3>1 DEF ReadStep, Acquire, Hit, Miss, Fetch, FetchFail, Rename, RenameLost,
                          TypeOK
    <3>3. Panic(1) => result'[1] = "panic"
        BY <2>1 DEF Panic, TypeOK
    <3> QED
        BY <3>2, <3>3
  <2> QED
      BY <1>1, <2>1, <2>2 DEF FirstWorkerGoesOn
<1> QED
    BY <1>3, <1>4

\* A worker that claims a page is at it; one that finds none left is done.
LEMMA ClaimSettles ==
    ASSUME PrefetchInv, NEW w \in Workers, Claim(w)
    PROVE  ClaimedIsSettled' /\ FirstWorkerGoesOn'
<1> USE DEF PrefetchInv, cacheVars, counters
<1>1. /\ UNCHANGED <<batch, cache, dropped, result>> /\ cursor' = cursor + 1 /\ cursor \in Nat
      /\ Len(batch) \in Nat /\ pc[w] = "claim" /\ w \in Threads
      /\ \A u \in Workers \ {w} : u \in Threads /\ pc'[u] = pc[u] /\ page'[u] = page[u]
    BY DEF Claim, TypeOK, Threads
<1>2. cursor < Len(batch) => pc'[w] = "gate" /\ page'[w] = batch[cursor + 1]
    BY <1>1 DEF Claim, TypeOK
<1>3. ClaimedIsSettled'
  <2> SUFFICES ASSUME NEW i \in 1 .. Len(batch), i <= cursor + 1
               PROVE  \/ ContentOf[batch[i]] \in cache
                      \/ batch[i] \in dropped
                      \/ \E u \in Workers : AtPage(u)' /\ page'[u] = batch[i]
      BY <1>1 DEF ClaimedIsSettled
  <2>1. CASE i <= cursor
    <3>1. CASE \E u \in Workers : AtPage(u) /\ page[u] = batch[i]
      <4>1. PICK u \in Workers : AtPage(u) /\ page[u] = batch[i]
          BY <3>1
      <4>2. u # w /\ AtPage(u)' /\ page'[u] = batch[i]
          BY <1>1, <4>1 DEF AtPage
      <4> QED
          BY <4>2
    <3> QED
        BY <2>1, <3>1 DEF ClaimedIsSettled
  <2>2. CASE i = cursor + 1
    <3>1. cursor < Len(batch)
        BY <1>1, <2>2
    <3> QED
        BY <1>2, <2>2, <3>1 DEF AtPage
  <2> QED
      BY <1>1, <2>1, <2>2
<1>4. FirstWorkerGoesOn'
  <2>1. 1 \in Workers
      BY GatesAssumption DEF Workers
  <2>2. CASE w = 1
      BY <1>1, <1>2, <2>2 DEF FirstWorkerGoesOn
  <2>3. CASE w # 1
      BY <1>1, <2>1, <2>3 DEF FirstWorkerGoesOn
  <2> QED
      BY <2>2, <2>3
<1> QED
    BY <1>3, <1>4

\* What holds of every state while prefetches come and go.
THEOREM GatesPrefetchInvariant == Spec => []PrefetchInv
<1>1. Init => PrefetchInv
  <2> SUFFICES ASSUME Init PROVE PrefetchInv
      OBVIOUS
  <2>1. TypeOK
      BY GatesInit DEF GatesInv
  <2>2. ClaimedIsSettled /\ FirstWorkerGoesOn
      BY DEF Init, ClaimedIsSettled, FirstWorkerGoesOn
  <2> QED
      BY <2>1, <2>2 DEF PrefetchInv
<1>2. PrefetchInv /\ [Next]_vars => PrefetchInv'
  <2> SUFFICES ASSUME PrefetchInv, [Next]_vars PROVE ClaimedIsSettled' /\ FirstWorkerGoesOn'
      BY StepTypes DEF PrefetchInv
  <2> USE DEF PrefetchInv
  <2>1. ASSUME NEW t \in Readers, NEW p \in Pages, Request(t, p)
        PROVE  ClaimedIsSettled' /\ FirstWorkerGoesOn'
    <3>1. /\ UNCHANGED <<batch, cursor, cache, dropped, result>>
          /\ \A w \in Workers : pc'[w] = pc[w] /\ page'[w] = page[w]
        BY <2>1, GatesAssumption DEF Request, TypeOK, Threads, cacheVars, prefetchVars
    <3>2. 1 \in Workers
        BY GatesAssumption DEF Workers
    <3> QED
        BY <3>1, <3>2, StepSettles DEF AtPage, FirstWorkerGoesOn
  <2>2. ASSUME NEW t \in Threads, ReadStep(t) \/ Panic(t)
        PROVE  ClaimedIsSettled' /\ FirstWorkerGoesOn'
      BY <2>2, ReadingSettles
  <2>3. ASSUME NEW b \in Batches, StartPrefetch(b)
        PROVE  ClaimedIsSettled' /\ FirstWorkerGoesOn'
    <3>1. batch' = b /\ cursor' = 0 /\ Len(b) \in Nat
        BY <2>3, GatesAssumption DEF StartPrefetch
    <3>2. 0 < Len(b) => pc'[1] = "claim"
      <4>1. 1 \in Workers /\ 1 \in Threads
          BY GatesAssumption DEF Workers, Threads
      <4> QED
          BY <2>3, <3>1, <4>1 DEF StartPrefetch
    <3> QED
        BY <3>1, <3>2 DEF ClaimedIsSettled, FirstWorkerGoesOn
  <2>4. ASSUME NEW w \in Workers, Claim(w)
        PROVE  ClaimedIsSettled' /\ FirstWorkerGoesOn'
      BY <2>4, ClaimSettles
  <2>5. ASSUME PrefetchReturn \/ UNCHANGED vars
        PROVE  ClaimedIsSettled' /\ FirstWorkerGoesOn'
    <3>1. UNCHANGED <<batch, cursor, cache, dropped, result, pc, page>>
        BY <2>5 DEF PrefetchReturn, vars, cacheVars, counters
    <3> QED
        BY <3>1 DEF ClaimedIsSettled, FirstWorkerGoesOn, AtPage
  <2> QED
      BY <2>1, <2>2, <2>3, <2>4, <2>5 DEF Next
<1> QED
    BY <1>1, <1>2, PTL DEF Spec

\* When prefetch returns each of its pages is in the cache or was given up with its
\* error, unless a worker panicked; readers may race it and the tier may fail.
THEOREM GatesPrefetchWarms == Spec => PrefetchWarms
<1>1. PrefetchInv /\ [Next]_vars =>
        [prefetching /\ ~prefetching' =>
            \/ \E w \in Workers : result[w] = "panic"
            \/ \A i \in 1 .. Len(batch) :
                   ContentOf[batch[i]] \in cache \/ batch[i] \in dropped]_vars
  <2> SUFFICES ASSUME PrefetchInv, [Next]_vars, prefetching, ~prefetching',
                      \A w \in Workers : result[w] # "panic",
                      NEW i \in 1 .. Len(batch)
               PROVE  ContentOf[batch[i]] \in cache \/ batch[i] \in dropped
      OBVIOUS
  <2>1. PrefetchReturn
    <3>1. prefetching' # prefetching
        OBVIOUS
    <3> QED
        BY <3>1 DEF Next, Request, ReadStep, Acquire, Hit, Miss, Fetch, FetchFail, Rename,
                    RenameLost, Panic, StartPrefetch, Claim, vars, prefetchVars
  <2>2. \A w \in Workers : pc[w] = "idle"
      BY <2>1 DEF PrefetchReturn
  <2>3. 1 \in Workers
      BY GatesAssumption DEF Workers
  <2>4. cursor >= Len(batch) /\ cursor \in Nat /\ Len(batch) \in Nat
      BY <2>2, <2>3 DEF PrefetchInv, FirstWorkerGoesOn, TypeOK
  <2>5. i <= cursor
      BY <2>4
  <2> QED
      BY <2>2, <2>5 DEF PrefetchInv, ClaimedIsSettled, AtPage
<1> QED
    BY <1>1, GatesPrefetchInvariant, PTL DEF Spec, PrefetchWarms

=============================================================================
