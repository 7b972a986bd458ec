------------------------ MODULE WakeSchedulerProofs ------------------------
(***************************************************************************)
(* The promise of WakeScheduler, for any databases, pages, cap and wakes:  *)
(* a query after a prewarm does not fetch again what had been learned.     *)
(***************************************************************************)
EXTENDS WakeScheduler, FiniteSetTheorems, WellFoundedInduction, TLAPS

\* A trace that does not saturate a set is learned whole (WarmSet::learn).
LEMMA LearnsAll ==
    ASSUME NEW set \in SUBSET Pages, NEW pages \in SUBSET Pages,
           ~Saturates(set, pages)
    PROVE  Learn(set, pages) = set \cup pages
<1> DEFINE new == pages \ set
<1>1. IsFiniteSet(set) /\ IsFiniteSet(new) /\ IsFiniteSet(set \cup pages)
  <2>1. IsFiniteSet(Pages) /\ set \subseteq Pages /\ new \subseteq Pages
            /\ set \cup pages \subseteq Pages
      BY SchedulerAssumption
  <2> QED
      BY <2>1, FS_Subset
<1>2. /\ Cardinality(set) \in Nat /\ Cardinality(new) \in Nat
      /\ Cardinality(set \cup pages) \in Nat
    BY <1>1, FS_CardinalityType
<1>3. Cardinality(set \cup pages) = Cardinality(set) + Cardinality(new)
  <2>1. set \cup pages = set \cup new /\ set \cap new = {}
      OBVIOUS
  <2>2. Cardinality(set \cup new)
            = Cardinality(set) + Cardinality(new) - Cardinality(set \cap new)
      BY <1>1, FS_Union
  <2>3. Cardinality(set \cap new) = 0
      BY <2>1, FS_EmptySet
  <2> QED
      BY <1>2, <2>1, <2>2, <2>3
<1>4. Cardinality(new) <= Cap - Cardinality(set)
    BY <1>2, <1>3, SchedulerAssumption DEF Saturates
<1>5. ASSUME NEW p \in new
      PROVE  Cardinality({q \in new : q < p}) < Cap - Cardinality(set)
  <2> DEFINE below == {q \in new : q < p}
  <2>1. p \in Nat
      BY SchedulerAssumption
  <2>2. below \subseteq new \ {p}
      BY <2>1
  <2>3. IsFiniteSet(new \ {p}) /\ Cardinality(new \ {p}) = Cardinality(new) - 1
      BY <1>1, FS_RemoveElement
  <2>4. Cardinality(below) <= Cardinality(new \ {p}) /\ IsFiniteSet(below)
      BY <2>2, <2>3, FS_Subset
  <2>5. Cardinality(below) \in Nat
      BY <2>4, FS_CardinalityType
  <2> QED
      BY <1>2, <1>4, <2>3, <2>4, <2>5, SchedulerAssumption
<1>6. Smallest(new, Cap - Cardinality(set)) = new
    BY <1>5 DEF Smallest
<1> QED
    BY <1>6 DEF Learn

\* Learning keeps what there was and takes from the trace alone.
LEMMA LearnBounds ==
    ASSUME NEW set \in SUBSET Pages, NEW pages \in SUBSET Pages
    PROVE  set \subseteq Learn(set, pages) /\ Learn(set, pages) \subseteq set \cup pages
BY DEF Learn, Smallest

-----------------------------------------------------------------------------
\* Before anything is woken nothing is promised.
LEMMA SchedulerInit ==
    ASSUME Init
    PROVE  SchedulerInv
<1>1. Types
  <2>1. [s \in Wakes |-> {}] \in [Wakes -> SUBSET Pages]
      OBVIOUS
  <2>2. {plan, resident, touched, pending, trace, promised, faulted}
            \subseteq [Wakes -> SUBSET Pages]
      BY <2>1 DEF Init
  <2>3. phase \in [Wakes -> Phases]
      BY DEF Init, Phases
  <2> QED
      BY <2>2, <2>3 DEF Init, Types
<1>2. WarmIsLearned /\ PromiseHeld /\ SecondWakeIsWarm
    BY DEF Init, WarmIsLearned, PromiseHeld, SecondWakeIsWarm
<1> QED
    BY <1>1, <1>2 DEF SchedulerInv

\* The per-wake functions and what they hold.
LEMMA SourceTypes ==
    ASSUME Types
    PROVE  /\ plan \in [Wakes -> SUBSET Pages] /\ resident \in [Wakes -> SUBSET Pages]
           /\ touched \in [Wakes -> SUBSET Pages] /\ pending \in [Wakes -> SUBSET Pages]
           /\ trace \in [Wakes -> SUBSET Pages] /\ promised \in [Wakes -> SUBSET Pages]
           /\ faulted \in [Wakes -> SUBSET Pages]
BY DEF Types

\* What PromiseHeld and SecondWakeIsWarm say of one wake.
Kept(s) ==
    /\ phase[s] \in {"asleep", "woken"} => promised[s] = {}
    /\ phase[s] = "prewarming" /\ ~saturated[db[s]] => promised[s] \subseteq plan[s]
    /\ phase[s] \in {"serving", "observing"} /\ ~saturated[db[s]]
           => promised[s] \subseteq resident[s]
    /\ phase[s] \notin {"serving", "observing"} => faulted[s] = {} /\ pending[s] = {}
    /\ faulted[s] \cap promised[s] = {} \/ saturated[db[s]]

\* The invariant, one wake at a time.
LEMMA KeptByAll ==
    /\ SchedulerInv <=> Types /\ WarmIsLearned /\ \A s \in Wakes : Kept(s)
    /\ SchedulerInv' <=> Types' /\ WarmIsLearned' /\ \A s \in Wakes : Kept(s)'
BY DEF SchedulerInv, PromiseHeld, SecondWakeIsWarm, Kept

\* The steps that leave the scheduler's memory alone keep the promise of the
\* wake that takes them; no step touches the source of another wake.
LEMMA SourceStepKeeps ==
    ASSUME SchedulerInv, NEW s \in Wakes,
           \/ Wake(s) \/ Wrap(s) \/ ServeCold(s) \/ PrewarmCopy(s) \/ PrewarmFetch(s)
           \/ (\E p \in Pages : ReadBegin(s, p) \/ ReadEnd(s, p))
           \/ TakeTrace(s) \/ Sleep(s)
    PROVE  SchedulerInv'
<1> USE DEF memory, source, Move, Phases
<1>1. /\ Types /\ WarmIsLearned
      /\ \A u \in Wakes : Kept(u)
      /\ phase \in [Wakes -> Phases] /\ db \in [Wakes -> Dbs]
      /\ plan \in [Wakes -> SUBSET Pages] /\ resident \in [Wakes -> SUBSET Pages]
      /\ touched \in [Wakes -> SUBSET Pages] /\ pending \in [Wakes -> SUBSET Pages]
      /\ trace \in [Wakes -> SUBSET Pages] /\ promised \in [Wakes -> SUBSET Pages]
      /\ faulted \in [Wakes -> SUBSET Pages] /\ recording \in [Wakes -> BOOLEAN]
      /\ warm \in [Dbs -> SUBSET Pages] /\ learned \in [Dbs -> SUBSET Pages]
    BY KeptByAll, SourceTypes DEF Types
<1>2. UNCHANGED <<memory, db>>
    BY DEF Wake, Wrap, ServeCold, PrewarmCopy, PrewarmFetch, ReadBegin, ReadEnd, TakeTrace, Sleep
<1>3. WarmIsLearned'
    BY <1>1, <1>2 DEF WarmIsLearned
<1>4. CASE Wake(s) \/ Wrap(s) \/ ServeCold(s)
  <2>1. Types'
      BY <1>1, <1>4 DEF Wake, Wrap, ServeCold, Types
  <2>2. \A u \in Wakes : Kept(u)'
      BY <1>1, <1>4 DEF Wake, Wrap, ServeCold, Kept
  <2> QED
      BY <1>3, <2>1, <2>2, KeptByAll
<1>5. CASE PrewarmCopy(s)
  <2>1. learned[db[s]] \subseteq Pages /\ warm[db[s]] \subseteq Pages
      BY <1>1
  <2>2. Types'
      BY <1>1, <1>5, <2>1 DEF PrewarmCopy, Types
  <2>3. ~saturated[db[s]] => learned[db[s]] \subseteq warm[db[s]]
      BY <1>1 DEF WarmIsLearned
  <2>4. \A u \in Wakes : Kept(u)'
      BY <1>1, <1>5, <2>3 DEF PrewarmCopy, Kept
  <2> QED
      BY <1>3, <2>2, <2>4, KeptByAll
<1>6. CASE PrewarmFetch(s)
  <2>1. PICK failed \in SUBSET plan[s] :
            /\ promised' = [promised EXCEPT ![s] = @ \ failed]
            /\ resident' = [resident EXCEPT ![s] = plan[s] \ failed]
      BY <1>6 DEF PrewarmFetch
  <2>2. Types'
      BY <1>1, <1>6, <2>1 DEF PrewarmFetch, Types
  <2>3. \A u \in Wakes : Kept(u)'
      BY <1>1, <1>6, <2>1 DEF PrewarmFetch, Kept
  <2> QED
      BY <1>3, <2>2, <2>3, KeptByAll
<1>7. CASE \E p \in Pages : ReadBegin(s, p)
  <2>1. Types'
      BY <1>1, <1>7 DEF ReadBegin, Types
  <2>2. \A u \in Wakes : Kept(u)'
      BY <1>1, <1>7 DEF ReadBegin, Kept
  <2> QED
      BY <1>3, <2>1, <2>2, KeptByAll
<1>8. ASSUME NEW p \in Pages, ReadEnd(s, p)
      PROVE  SchedulerInv'
  <2>1. phase[s] \in {"serving", "observing"}
      BY <1>1, <1>8 DEF ReadEnd, Kept
  <2>2. Types'
      BY <1>1, <1>8 DEF ReadEnd, Types
  <2>3. \A u \in Wakes : u # s => Kept(u)'
      BY <1>1, <1>8 DEF ReadEnd, Kept
  <2>4. Kept(s)'
    <3>1. CASE p \in resident[s]
        BY <1>1, <1>8, <2>1, <3>1 DEF ReadEnd, Kept
    <3>2. CASE p \notin resident[s]
      <4>1. p \notin promised[s] \/ saturated[db[s]]
          BY <1>1, <2>1, <3>2 DEF Kept
      <4> QED
          BY <1>1, <1>8, <2>1, <3>2, <4>1 DEF ReadEnd, Kept
    <3> QED
        BY <3>1, <3>2
  <2> QED
      BY <1>3, <2>2, <2>3, <2>4, KeptByAll
<1>9. CASE TakeTrace(s)
  <2>1. Types'
      BY <1>1, <1>9 DEF TakeTrace, Types
  <2>2. \A u \in Wakes : Kept(u)'
      BY <1>1, <1>9 DEF TakeTrace, Kept
  <2> QED
      BY <1>3, <2>1, <2>2, KeptByAll
<1>10. CASE Sleep(s)
  <2>1. Types'
      BY <1>1, <1>10 DEF Sleep, Types
  <2>2. \A u \in Wakes : Kept(u)'
      BY <1>1, <1>10 DEF Sleep, Kept
  <2> QED
      BY <1>3, <2>1, <2>2, KeptByAll
<1> QED
    BY <1>4, <1>5, <1>6, <1>7, <1>8, <1>9, <1>10

\* Observing a trace learns all of it or saturates the set, and takes back no
\* promise.
LEMMA ObserveKeeps ==
    ASSUME SchedulerInv, NEW s \in Wakes, Observe(s)
    PROVE  SchedulerInv'
<1> USE DEF Move, Phases
<1>1. /\ Types /\ WarmIsLearned /\ \A u \in Wakes : Kept(u)
      /\ trace \in [Wakes -> SUBSET Pages] /\ db \in [Wakes -> Dbs]
      /\ phase \in [Wakes -> Phases]
      /\ warm \in [Dbs -> SUBSET Pages] /\ learned \in [Dbs -> SUBSET Pages]
      /\ saturated \in [Dbs -> BOOLEAN]
    BY KeptByAll, SourceTypes DEF Types
<1>2. PICK d \in Dbs : d = db[s]
    BY <1>1
<1>3. PICK T \in SUBSET Pages : T = trace[s]
    BY <1>1
<1>4. PICK W \in SUBSET Pages : W = warm[d]
    BY <1>1
<1>5. /\ W \subseteq Learn(W, T) /\ Learn(W, T) \subseteq W \cup T
      /\ ~Saturates(W, T) => Learn(W, T) = W \cup T
    BY LearnsAll, LearnBounds
<1>6. /\ warm' = [warm EXCEPT ![d] = Learn(W, T)]
      /\ learned' = [learned EXCEPT ![d] = learned[d] \cup T]
      /\ saturated' = [saturated EXCEPT ![d] = saturated[d] \/ Saturates(W, T)]
      /\ trace' = [trace EXCEPT ![s] = {}]
      /\ UNCHANGED <<db, recording, plan, resident, touched, pending, promised, faulted>>
    BY <1>2, <1>3, <1>4 DEF Observe
<1>7. Types'
  <2>1. warm' \in [Dbs -> SUBSET Pages] /\ learned' \in [Dbs -> SUBSET Pages]
      BY <1>1, <1>5, <1>6
  <2>2. trace' \in [Wakes -> SUBSET Pages] /\ phase' \in [Wakes -> Phases]
      BY <1>1, <1>6 DEF Observe
  <2>3. saturated' \in [Dbs -> BOOLEAN]
      BY <1>1, <1>6 DEF Saturates
  <2> QED
      BY <1>1, <1>6, <2>1, <2>2, <2>3 DEF Types
<1>8. \A e \in Dbs : ~saturated'[e] => ~saturated[e]
    BY <1>1, <1>6
<1>9. WarmIsLearned'
  <2>1. ASSUME NEW e \in Dbs, e # d
        PROVE  warm'[e] = warm[e] /\ learned'[e] = learned[e] /\ saturated'[e] = saturated[e]
      BY <1>1, <1>6, <2>1
  <2>2. warm'[d] = Learn(W, T) /\ learned'[d] = learned[d] \cup T
      BY <1>1, <1>6
  <2>3. ~saturated'[d] => ~Saturates(W, T) /\ ~saturated[d]
      BY <1>1, <1>6
  <2>4. W \subseteq learned[d] /\ (~saturated[d] => learned[d] \subseteq W)
      BY <1>1, <1>4 DEF WarmIsLearned
  <2>5. warm'[d] \subseteq learned'[d] /\ (~saturated'[d] => learned'[d] \subseteq warm'[d])
      BY <1>5, <2>2, <2>3, <2>4
  <2> QED
      BY <1>1, <2>1, <2>5 DEF WarmIsLearned
<1>10. ASSUME NEW u \in Wakes
       PROVE  Kept(u)'
  <2>1. \/ phase'[u] = phase[u]
        \/ phase[u] = "observing" /\ phase'[u] = "serving"
      BY <1>1 DEF Observe
  <2>2. db[u] \in Dbs /\ (~saturated'[db[u]] => ~saturated[db[u]])
      BY <1>1, <1>8
  <2> QED
      BY <1>1, <1>6, <2>1, <2>2 DEF Kept
<1> QED
    BY <1>7, <1>9, <1>10, KeptByAll

-----------------------------------------------------------------------------
\* The scheduler keeps its sets, and each wake its promise (prewarm, observe).
THEOREM SchedulerInvariant == Spec => []SchedulerInv
<1>1. Init => SchedulerInv
    BY SchedulerInit
<1>2. SchedulerInv /\ [Next]_vars => SchedulerInv'
  <2>1. ASSUME SchedulerInv, Next
        PROVE  SchedulerInv'
      BY <2>1, SourceStepKeeps, ObserveKeeps DEF Next
  <2>2. ASSUME SchedulerInv, UNCHANGED vars
        PROVE  SchedulerInv'
      BY <2>2 DEF vars, memory, source, SchedulerInv, Types, WarmIsLearned, PromiseHeld,
                  SecondWakeIsWarm
  <2> QED
      BY <2>1, <2>2
<1> QED
    BY <1>1, <1>2, PTL DEF Spec

\* A query after a prewarm fetches nothing that had been learned, unless the
\* tier refused it to the prewarm or the set was saturated.
THEOREM SchedulerSecondWakeIsWarm == Spec => []SecondWakeIsWarm
<1>1. SchedulerInv => SecondWakeIsWarm
    BY DEF SchedulerInv
<1> QED
    BY <1>1, SchedulerInvariant, PTL

\* Learning never costs a page its place (WarmSet::learn).
THEOREM SchedulerNothingForgotten == Spec => NothingForgotten
<1>1. SchedulerInv /\ [Next]_vars => [\A d \in Dbs : warm[d] \subseteq warm'[d]]_warm
  <2>1. ASSUME SchedulerInv, NEW s \in Wakes, Observe(s)
        PROVE  \A d \in Dbs : warm[d] \subseteq warm'[d]
    <3>1. /\ warm \in [Dbs -> SUBSET Pages] /\ trace[s] \in SUBSET Pages
          /\ warm' = [warm EXCEPT ![db[s]] = Learn(@, trace[s])]
        BY <2>1, SourceTypes DEF SchedulerInv, Types, Observe
    <3>2. \A d \in Dbs : warm[d] \subseteq Learn(warm[d], trace[s])
        BY <3>1, LearnBounds
    <3> QED
        BY <3>1, <3>2
  <2>2. ASSUME NEW s \in Wakes,
               \/ Wake(s) \/ Wrap(s) \/ ServeCold(s) \/ PrewarmCopy(s) \/ PrewarmFetch(s)
               \/ (\E p \in Pages : ReadBegin(s, p) \/ ReadEnd(s, p))
               \/ TakeTrace(s) \/ Sleep(s)
        PROVE  warm' = warm
      BY <2>2 DEF memory, Wake, Wrap, ServeCold, PrewarmCopy, PrewarmFetch, ReadBegin,
                  ReadEnd, TakeTrace, Sleep
  <2>3. UNCHANGED vars => warm' = warm
      BY DEF vars, memory
  <2> QED
      BY <2>1, <2>2, <2>3 DEF Next
<1> QED
    BY <1>1, SchedulerInvariant, PTL DEF Spec, NothingForgotten

-----------------------------------------------------------------------------
(* The cap and what is said when it is reached.                            *)

\* A set of page numbers that is not empty has a smallest one.
LEMMA FirstPage ==
    ASSUME NEW S \in SUBSET Nat, S # {}
    PROVE  \E x \in S : \A y \in S : x <= y
<1> DEFINE R == OpToRel(<, Nat)
<1>1. IsWellFoundedOn(R, Nat)
    BY NatLessThanWellFounded
<1>2. \E x \in S : \A y \in S : <<y, x>> \notin R
  <2> HIDE DEF R
  <2> QED
    BY <1>1, WFMin
<1>3. \A x \in Nat, y \in Nat : y < x => <<y, x>> \in R
  <2>1. R = {ss \in Nat \X Nat : ss[1] < ss[2]}
      BY DEF OpToRel
  <2> HIDE DEF R
  <2> QED
      BY <2>1
<1> HIDE DEF R
<1>4. PICK x \in S : \A y \in S : <<y, x>> \notin R
    BY <1>2
<1>5. ASSUME NEW y \in S
      PROVE  x <= y
  <2>1. x \in Nat /\ y \in Nat /\ ~(y < x)
      BY <1>3, <1>4
  <2> QED
      BY <2>1
<1> QED
    BY <1>5

\* Where pages are left out, they are the largest, and all the room is used: with room
\* for k pages, the k smallest are taken, or all there are.
LEMMA SmallestFills ==
    ASSUME NEW S \in SUBSET Pages, NEW k \in Nat
    PROVE  /\ IsFiniteSet(Smallest(S, k))
           /\ Cardinality(Smallest(S, k)) <= k
           /\ Smallest(S, k) # S => Cardinality(Smallest(S, k)) = k
<1> DEFINE T == Smallest(S, k)
           below(p) == {q \in S : q < p}
<1>1. /\ IsFiniteSet(S) /\ S \subseteq Nat /\ T \subseteq S
      /\ IsFiniteSet(T) /\ Cardinality(T) \in Nat
  <2>1. IsFiniteSet(Pages) /\ Pages \subseteq Nat
      BY SchedulerAssumption
  <2>2. T \subseteq S
      BY DEF Smallest
  <2>3. IsFiniteSet(S)
      BY <2>1, FS_Subset
  <2>4. IsFiniteSet(T)
      BY <2>2, <2>3, FS_Subset
  <2> QED
      BY <2>1, <2>2, <2>3, <2>4, FS_CardinalityType
<1>2. ASSUME NEW p \in S
      PROVE  /\ IsFiniteSet(below(p)) /\ Cardinality(below(p)) \in Nat
             /\ below(p) \subseteq S
             /\ \A q \in S : q \in below(p) <=> q < p
  <2>1. below(p) \subseteq S
      OBVIOUS
  <2> QED
      BY <1>1, <2>1, FS_Subset, FS_CardinalityType
<1>3. \A p \in S : p \in T <=> Cardinality(below(p)) < k
    BY DEF Smallest
<1> HIDE DEF T, below
<1>4. ASSUME NEW a \in S, NEW b \in S, a < b
      PROVE  Cardinality(below(a)) < Cardinality(below(b))
  <2>1. a \in Nat /\ b \in Nat
      BY <1>1
  <2>2. a \notin below(a) /\ \A q \in below(a) : q \in S /\ q < a
    <3>1. /\ below(a) \subseteq S
          /\ \A q \in S : q \in below(a) <=> q < a
        BY <1>2
    <3>2. ~(a < a)
        BY <2>1
    <3>3. a \notin below(a)
        BY <3>1, <3>2
    <3>4. ASSUME NEW q \in below(a)
          PROVE  q \in S /\ q < a
        BY <3>1
    <3> QED
        BY <3>3, <3>4
  <2>3. /\ IsFiniteSet(below(a) \cup {a})
        /\ Cardinality(below(a) \cup {a}) = Cardinality(below(a)) + 1
      BY <1>2, <2>2, FS_AddElement
  <2>4. ASSUME NEW q \in below(a) \cup {a}
        PROVE  q \in below(b)
    <3>1. q \in S /\ q \in Nat /\ q <= a
      <4>1. CASE q = a
          BY <2>1, <4>1
      <4>2. CASE q \in below(a)
        <5>1. q \in S /\ q \in Nat /\ q < a
            BY <1>1, <2>2, <4>2
        <5> QED
            BY <2>1, <5>1
      <4> QED
          BY <4>1, <4>2
    <3>2. q < b
        BY <1>4, <2>1, <3>1
    <3> QED
        BY <1>2, <3>1, <3>2
  <2>5. Cardinality(below(a) \cup {a}) <= Cardinality(below(b))
      BY <1>2, <2>4, FS_Subset
  <2> QED
      BY <1>2, <2>3, <2>5
<1>5. Cardinality(T) <= k
  <2> SUFFICES ASSUME Cardinality(T) > k
               PROVE  FALSE
      BY <1>1
  <2> DEFINE rank == [p \in T |-> Cardinality(below(p))]
  <2>1. \A p \in T : p \in S /\ Cardinality(below(p)) \in 0..(k - 1)
      BY <1>1, <1>2, <1>3
  <2>2. rank \in [T -> 0..(k - 1)]
      BY <2>1
  <2>3. IsFiniteSet(0..(k - 1)) /\ Cardinality(0..(k - 1)) = k
      BY FS_Interval
  <2>4. PICK x \in T, y \in T : x # y /\ rank[x] = rank[y]
    <3> HIDE DEF rank
    <3> QED
      BY <1>1, <2>2, <2>3, FS_PigeonHole
  <2>5. x \in S /\ y \in S /\ (x < y \/ y < x)
      BY <1>1, <2>1, <2>4
  <2>6. Cardinality(below(x)) = Cardinality(below(y)) /\ Cardinality(below(x)) \in Int
      BY <1>2, <2>4, <2>5
  <2> QED
      BY <1>4, <2>5, <2>6
<1>6. ASSUME T # S
      PROVE  Cardinality(T) >= k
  <2>1. S \ T # {} /\ S \ T \in SUBSET Nat
      BY <1>1, <1>6
  <2>2. PICK p \in S \ T : \A q \in S \ T : p <= q
      BY <2>1, FirstPage
  <2>3. ASSUME NEW q \in below(p)
        PROVE  q \in T
    <3>1. q \in S /\ q < p /\ q \in Nat /\ p \in Nat
        BY <1>1, <1>2
    <3> QED
        BY <2>2, <3>1
  <2>4. Cardinality(below(p)) <= Cardinality(T)
      BY <1>1, <2>3, FS_Subset
  <2>5. Cardinality(below(p)) >= k
      BY <1>2, <1>3, <2>2
  <2> QED
      BY <1>1, <1>2, <2>2, <2>4, <2>5
<1> QED
    BY <1>1, <1>5, <1>6 DEF T

\* Learning stays within the cap, fills the set before it leaves a page out, and
\* changes nothing in a full set.
LEMMA LearnFills ==
    ASSUME NEW W \in SUBSET Pages, NEW T \in SUBSET Pages, Cardinality(W) <= Cap
    PROVE  /\ Cardinality(Learn(W, T)) <= Cap
           /\ Saturates(W, T) => Cardinality(Learn(W, T)) = Cap /\ Learn(W, T) # W \cup T
           /\ Cardinality(W) = Cap => Learn(W, T) = W
<1> DEFINE new == T \ W
           room == Cap - Cardinality(W)
           N == Smallest(new, room)
<1>1. IsFiniteSet(W) /\ IsFiniteSet(new) /\ new \in SUBSET Pages
    BY SchedulerAssumption, FS_Subset
<1>2. Cardinality(W) \in Nat /\ Cardinality(new) \in Nat /\ room \in Nat /\ Cap \in Nat
    BY <1>1, SchedulerAssumption, FS_CardinalityType
<1>3. /\ IsFiniteSet(N) /\ Cardinality(N) \in Nat
      /\ Cardinality(N) <= room
      /\ N # new => Cardinality(N) = room
      /\ N \subseteq new
  <2>1. N \subseteq new
      BY DEF Smallest
  <2> HIDE DEF new, room
  <2> QED
      BY <1>1, <1>2, <2>1, SmallestFills, FS_CardinalityType
<1>4. Learn(W, T) = W \cup N
    BY DEF Learn
<1>5. \A X \in {N, new} : Cardinality(W \cup X) = Cardinality(W) + Cardinality(X)
  <2> SUFFICES ASSUME NEW X \in {N, new}
               PROVE  Cardinality(W \cup X) = Cardinality(W) + Cardinality(X)
      OBVIOUS
  <2>1. IsFiniteSet(X) /\ W \cap X = {} /\ Cardinality(X) \in Nat
      BY <1>1, <1>2, <1>3
  <2>2. Cardinality(W \cup X) = Cardinality(W) + Cardinality(X) - Cardinality({})
      BY <1>1, <2>1, FS_Union
  <2> QED
      BY <1>2, <2>1, <2>2, FS_EmptySet
<1>6. W \cup T = W \cup new
    OBVIOUS
<1>7. Cardinality(N) = 0 => N = {}
    BY <1>3, FS_EmptySet
<1>8. Cardinality(Learn(W, T)) = Cardinality(W) + Cardinality(N)
    BY <1>4, <1>5
<1>9. Cardinality(W \cup T) = Cardinality(W) + Cardinality(new)
    BY <1>5, <1>6
<1>10. Cardinality(Learn(W, T)) <= Cap
    BY <1>2, <1>3, <1>8
<1>11. ASSUME Saturates(W, T)
       PROVE  Cardinality(Learn(W, T)) = Cap /\ Learn(W, T) # W \cup T
  <2>1. Cardinality(W) + Cardinality(new) > Cap
      BY <1>9, <1>11 DEF Saturates
  <2>2. Cardinality(N) # Cardinality(new)
      BY <1>2, <1>3, <2>1
  <2>3. Cardinality(N) = room
      BY <1>3, <2>2
  <2>4. Cardinality(Learn(W, T)) = Cap
    <3> HIDE DEF N, new
    <3> QED
        BY <1>2, <1>8, <2>3
  <2>5. Cardinality(W \cup T) # Cap
    <3> HIDE DEF N, new
    <3> QED
        BY <1>2, <1>9, <2>1
  <2> QED
      BY <2>4, <2>5
<1>12. ASSUME Cardinality(W) = Cap
       PROVE  Learn(W, T) = W
  <2>1. Cardinality(N) = 0
      BY <1>2, <1>3, <1>12
  <2> QED
      BY <1>4, <1>7, <2>1
<1> QED
    BY <1>10, <1>11, <1>12

\* A set keeps within the cap, and a saturated one is full and has a page missing.
SetsFill ==
    \A d \in Dbs :
        /\ Cardinality(warm[d]) <= Cap
        /\ saturated[d] => Cardinality(warm[d]) = Cap /\ learned[d] # warm[d]

\* No step but observe changes a warm set, and observe keeps it so.
LEMMA SetsFillKept ==
    ASSUME SchedulerInv, SetsFill, [Next]_vars
    PROVE  SetsFill'
<1>1. ASSUME UNCHANGED memory
      PROVE  SetsFill'
    BY <1>1 DEF SetsFill, memory
<1>2. ASSUME NEW s \in Wakes, Observe(s)
      PROVE  SetsFill'
  <2>1. PICK d \in Dbs : d = db[s]
      BY DEF SchedulerInv, Types
  <2>2. PICK T \in SUBSET Pages : T = trace[s]
      BY SourceTypes DEF SchedulerInv
  <2>3. PICK W \in SUBSET Pages : W = warm[d]
      BY DEF SchedulerInv, Types
  <2>4. /\ warm' = [warm EXCEPT ![d] = Learn(W, T)]
        /\ learned' = [learned EXCEPT ![d] = learned[d] \cup T]
        /\ saturated' = [saturated EXCEPT ![d] = saturated[d] \/ Saturates(W, T)]
      BY <1>2, <2>1, <2>2, <2>3 DEF Observe
  <2>5. /\ warm \in [Dbs -> SUBSET Pages] /\ learned \in [Dbs -> SUBSET Pages]
        /\ saturated \in [Dbs -> BOOLEAN]
      BY DEF SchedulerInv, Types
  <2>6. ASSUME NEW e \in Dbs, e # d
        PROVE  warm'[e] = warm[e] /\ learned'[e] = learned[e] /\ saturated'[e] = saturated[e]
      BY <2>4, <2>5, <2>6
  <2>7. /\ warm'[d] = Learn(W, T) /\ learned'[d] = learned[d] \cup T
        /\ saturated'[d] => saturated[d] \/ Saturates(W, T)
      BY <2>4, <2>5
  <2>8. Cardinality(W) <= Cap /\ (saturated[d] => Cardinality(W) = Cap /\ learned[d] # W)
      BY <2>3 DEF SetsFill
  <2>9. W \subseteq learned[d]
      BY <2>3 DEF SchedulerInv, WarmIsLearned
  <2>10. /\ Cardinality(Learn(W, T)) <= Cap
         /\ Saturates(W, T) => Cardinality(Learn(W, T)) = Cap /\ Learn(W, T) # W \cup T
         /\ Cardinality(W) = Cap => Learn(W, T) = W
         /\ Learn(W, T) \subseteq W \cup T
      BY <2>8, LearnFills, LearnBounds
  <2>11. /\ Cardinality(warm'[d]) <= Cap
         /\ saturated'[d] => Cardinality(warm'[d]) = Cap /\ learned'[d] # warm'[d]
    <3>1. CASE Saturates(W, T)
        BY <2>7, <2>9, <2>10, <3>1
    <3>2. CASE ~Saturates(W, T)
        BY <2>7, <2>8, <2>9, <2>10, <3>2
    <3> QED
        BY <3>1, <3>2
  <2> QED
      BY <2>6, <2>11 DEF SetsFill
<1>3. ASSUME NEW s \in Wakes,
             \/ Wake(s) \/ Wrap(s) \/ ServeCold(s) \/ PrewarmCopy(s) \/ PrewarmFetch(s)
             \/ (\E p \in Pages : ReadBegin(s, p) \/ ReadEnd(s, p))
             \/ TakeTrace(s) \/ Sleep(s)
      PROVE  UNCHANGED memory
    BY <1>3 DEF Wake, Wrap, ServeCold, PrewarmCopy, PrewarmFetch, ReadBegin, ReadEnd,
                TakeTrace, Sleep
<1>4. CASE UNCHANGED vars
    BY <1>1, <1>4 DEF vars
<1> QED
    BY <1>1, <1>2, <1>3, <1>4 DEF Next

\* Warm sets are full before anything is left out, whoever observes what and when.
THEOREM SchedulerSetsFill == Spec => []SetsFill
<1>1. Init => SetsFill
  <2>1. Cardinality({}) <= Cap
      BY FS_EmptySet, SchedulerAssumption
  <2> QED
      BY <2>1 DEF Init, SetsFill
<1>2. SchedulerInv /\ SetsFill /\ [Next]_vars => SetsFill'
    BY SetsFillKept
<1> QED
    BY <1>1, <1>2, SchedulerInvariant, PTL DEF Spec

\* Every variable keeps its type, and no set grows past WARM_SET_CAP.
THEOREM SchedulerTypeOK == Spec => []TypeOK
<1>1. SchedulerInv /\ SetsFill => TypeOK
    BY DEF SchedulerInv, SetsFill, TypeOK
<1> QED
    BY <1>1, SchedulerInvariant, SchedulerSetsFill, PTL

\* Saturation is reported exactly when a page a query touched was left out
\* (WarmSet::saturated).
THEOREM SchedulerSaturationIsHonest == Spec => []SaturationIsHonest
<1>1. SchedulerInv /\ SetsFill => SaturationIsHonest
  <2> SUFFICES ASSUME SchedulerInv, SetsFill, NEW d \in Dbs
               PROVE  saturated[d] <=> learned[d] # warm[d]
      BY DEF SaturationIsHonest
  <2>1. saturated[d] \in BOOLEAN
      BY DEF SchedulerInv, Types
  <2>2. ~saturated[d] => learned[d] = warm[d]
      BY DEF SchedulerInv, WarmIsLearned
  <2> QED
      BY <2>1, <2>2 DEF SetsFill
<1> QED
    BY <1>1, SchedulerInvariant, SchedulerSetsFill, PTL

-----------------------------------------------------------------------------
(* What a recorder notes.                                                  *)

\* A recorder has each page before a thread of the query asks its source for it,
\* prewarm's list before it is fetched included.
LEMMA RecordedFirstKept ==
    ASSUME SchedulerInv, RecordedFirst, [Next]_vars
    PROVE  RecordedFirst'
<1> USE DEF Move, source
<1>1. /\ pending \in [Wakes -> SUBSET Pages] /\ touched \in [Wakes -> SUBSET Pages]
      /\ recording \in [Wakes -> BOOLEAN] /\ phase \in [Wakes -> Phases]
    BY SourceTypes DEF SchedulerInv, Types
<1>2. ASSUME NEW s \in Wakes, phase[s] \notin {"serving", "observing"}
      PROVE  pending[s] = {}
    BY <1>2 DEF SchedulerInv, PromiseHeld
<1>3. ASSUME NEW s \in Wakes,
             \/ Wake(s) \/ ServeCold(s) \/ PrewarmCopy(s) \/ TakeTrace(s) \/ Observe(s)
             \/ UNCHANGED vars
      PROVE  RecordedFirst'
  <2>1. UNCHANGED <<recording, pending, touched>>
      BY <1>3 DEF Wake, ServeCold, PrewarmCopy, TakeTrace, Observe, vars
  <2> QED
      BY <2>1 DEF RecordedFirst
<1>4. ASSUME NEW s \in Wakes, Wrap(s)
      PROVE  RecordedFirst'
  <2>1. /\ pending[s] = {} /\ UNCHANGED <<pending, touched>>
        /\ \A u \in Wakes \ {s} : recording'[u] = recording[u]
      BY <1>1, <1>4 DEF Wrap
  <2> QED
      BY <2>1 DEF RecordedFirst
<1>5. ASSUME NEW s \in Wakes, PrewarmFetch(s)
      PROVE  RecordedFirst'
  <2>1. /\ pending[s] = {} /\ UNCHANGED <<pending, recording>>
        /\ \A u \in Wakes \ {s} : touched'[u] = touched[u]
      BY <1>1, <1>2, <1>5 DEF PrewarmFetch
  <2> QED
      BY <2>1 DEF RecordedFirst
<1>6. ASSUME NEW s \in Wakes, NEW p \in Pages, ReadBegin(s, p)
      PROVE  RecordedFirst'
  <2>1. /\ UNCHANGED recording /\ pending'[s] = pending[s] \cup {p}
        /\ recording[s] => touched'[s] = touched[s] \cup {p}
        /\ \A u \in Wakes \ {s} : pending'[u] = pending[u] /\ touched'[u] = touched[u]
      BY <1>1, <1>6 DEF ReadBegin
  <2> QED
      BY <2>1 DEF RecordedFirst
<1>7. ASSUME NEW s \in Wakes, NEW p \in Pages, ReadEnd(s, p)
      PROVE  RecordedFirst'
  <2>1. /\ UNCHANGED <<recording, touched>>
        /\ \A u \in Wakes : pending'[u] \subseteq pending[u]
      BY <1>1, <1>7 DEF ReadEnd
  <2> QED
      BY <2>1 DEF RecordedFirst
<1>8. ASSUME NEW s \in Wakes, Sleep(s)
      PROVE  RecordedFirst'
  <2>1. /\ pending[s] = {} /\ UNCHANGED pending
        /\ \A u \in Wakes \ {s} : touched'[u] = touched[u] /\ recording'[u] = recording[u]
      BY <1>1, <1>8 DEF Sleep
  <2> QED
      BY <2>1 DEF RecordedFirst
<1>9. CASE UNCHANGED vars
    BY <1>9 DEF RecordedFirst, vars
<1> QED
    BY <1>3, <1>4, <1>5, <1>6, <1>7, <1>8, <1>9 DEF Next

\* A trace taken while the query is being recorded has every page the query has
\* had to fetch, in the middle of a read too (RecordingSource::read_page).
THEOREM SchedulerTraceMissesNothing == Spec => TraceMissesNothing
<1>1. Init => RecordedFirst
    BY DEF Init, RecordedFirst
<1>2. SchedulerInv /\ RecordedFirst /\ [Next]_vars => RecordedFirst'
    BY RecordedFirstKept
<1>3. Spec => []RecordedFirst
    BY <1>1, <1>2, SchedulerInvariant, PTL DEF Spec
<1>4. ASSUME SchedulerInv, RecordedFirst, [Next]_vars
      PROVE  [\A s \in Wakes :
                 recording[s] => (faulted'[s] \ faulted[s]) \subseteq touched[s]]_faulted
  <2>1. faulted \in [Wakes -> SUBSET Pages]
      BY <1>4, SourceTypes DEF SchedulerInv
  <2>2. ASSUME NEW s \in Wakes, NEW p \in Pages, ReadEnd(s, p)
        PROVE  \A u \in Wakes :
                  recording[u] => (faulted'[u] \ faulted[u]) \subseteq touched[u]
    <3>1. /\ p \in pending[s]
          /\ faulted'[s] \subseteq faulted[s] \cup {p}
          /\ \A u \in Wakes \ {s} : faulted'[u] = faulted[u]
        BY <2>1, <2>2 DEF ReadEnd
    <3> QED
        BY <1>4, <3>1 DEF RecordedFirst
  <2>3. ASSUME NEW s \in Wakes, Sleep(s)
        PROVE  \A u \in Wakes : faulted'[u] \subseteq faulted[u]
      BY <2>1, <2>3 DEF Sleep
  <2>4. ASSUME NEW s \in Wakes,
               \/ Wake(s) \/ Wrap(s) \/ ServeCold(s) \/ PrewarmCopy(s) \/ PrewarmFetch(s)
               \/ \E p \in Pages : ReadBegin(s, p)
               \/ TakeTrace(s) \/ Observe(s)
        PROVE  UNCHANGED faulted
      BY <2>4 DEF source, Wake, Wrap, ServeCold, PrewarmCopy, PrewarmFetch, ReadBegin,
                  TakeTrace, Observe
  <2>5. UNCHANGED vars => UNCHANGED faulted
      BY DEF vars, source
  <2> QED
      BY <1>4, <2>2, <2>3, <2>4, <2>5 DEF Next
<1> QED
    BY <1>3, <1>4, SchedulerInvariant, PTL DEF Spec, TraceMissesNothing

=============================================================================
