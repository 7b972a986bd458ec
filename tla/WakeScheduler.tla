--------------------------- MODULE WakeScheduler ---------------------------
(***************************************************************************)
(* Learning which pages to warm (crates/flockd/src/scheduler.rs).  Several *)
(* wakes share one WakeScheduler.  Each has a source of its own, over a    *)
(* fresh cache, and may wrap it in a RecordingSource before or after it    *)
(* prewarms; its query then reads pages, from several threads if it likes, *)
(* and its trace is observed, once or more.                                *)
(*                                                                         *)
(* What one prefetch does to the cache is the subject of FaultGates: when  *)
(* it returns, a page is resident or was dropped with its error.           *)
(***************************************************************************)
EXTENDS Integers, FiniteSets

CONSTANTS
    Wakes,       \* the databases woken at once, by whichever source
    Dbs,         \* DbId
    Pages,       \* page numbers
    Cap          \* WARM_SET_CAP

ASSUME SchedulerAssumption ==
    /\ Pages \subseteq Nat
    /\ IsFiniteSet(Pages)
    /\ Cap \in Nat

VARIABLES
    warm,        \* WakeScheduler::warm: the pages of each database's WarmSet
    saturated,   \* WarmSet::saturated
    phase,       \* where each wake is
    db,          \* the database it woke
    recording,   \* whether its source is wrapped
    plan,        \* the pages prewarm copied under the lock
    resident,    \* its cache
    touched,     \* RecordingSource::touched
    pending,     \* pages recorded, or to be, that a thread is now reading
    trace,       \* the sorted copy of `touched' to be observed
    \* history
    learned,     \* every page ever observed of a database
    promised,    \* pages learned when the wake's prewarm made its copy, less
                 \* those the tier refused it
    faulted      \* pages the wake's query had to fetch

memory == <<warm, saturated, learned>>
source == <<recording, plan, resident, touched, pending, trace, promised, faulted>>
vars == <<memory, phase, db, source>>

Phases == {"asleep", "woken", "prewarming", "serving", "observing"}

Types ==
    /\ warm \in [Dbs -> SUBSET Pages]
    /\ saturated \in [Dbs -> BOOLEAN]
    /\ learned \in [Dbs -> SUBSET Pages]
    /\ phase \in [Wakes -> Phases]
    /\ db \in [Wakes -> Dbs]
    /\ recording \in [Wakes -> BOOLEAN]
    /\ {plan, resident, touched, pending, trace, promised, faulted}
           \subseteq [Wakes -> SUBSET Pages]

TypeOK == Types /\ \A d \in Dbs : Cardinality(warm[d]) <= Cap

Init ==
    /\ warm = [d \in Dbs |-> {}]
    /\ saturated = [d \in Dbs |-> FALSE]
    /\ learned = [d \in Dbs |-> {}]
    /\ phase = [s \in Wakes |-> "asleep"]
    /\ db \in [Wakes -> Dbs]
    /\ recording = [s \in Wakes |-> FALSE]
    /\ plan = [s \in Wakes |-> {}]
    /\ resident = [s \in Wakes |-> {}]
    /\ touched = [s \in Wakes |-> {}]
    /\ pending = [s \in Wakes |-> {}]
    /\ trace = [s \in Wakes |-> {}]
    /\ promised = [s \in Wakes |-> {}]
    /\ faulted = [s \in Wakes |-> {}]

Move(s, from, to) == phase[s] = from /\ phase' = [phase EXCEPT ![s] = to]

\* Faulty variant: one page too many.
SmallestAndOne(new, room) == {p \in new : Cardinality({q \in new : q < p}) <= room}

\* As many of `new' as there is room for, the smallest first.
Smallest(new, room) == {p \in new : Cardinality({q \in new : q < p}) < room}

\* Faulty variant: the page that fills the set is taken for one too many.
SaturatesEarly(set, pages) == Cardinality(set \cup pages) >= Cap

\* Pages are dropped only when the set is full and a page is not in it.
Saturates(set, pages) == Cardinality(set \cup pages) > Cap

\* A trace is sorted, so its smallest new pages are inserted until the set is full.
Learn(set, pages) == set \cup Smallest(pages \ set, Cap - Cardinality(set))

-----------------------------------------------------------------------------
Wake(s) ==
    /\ Move(s, "asleep", "woken")
    /\ UNCHANGED <<memory, db, source>>

\* RecordingSource::new around the source, before the prewarm or after it.
Wrap(s) ==
    /\ phase[s] \in {"woken", "serving"}
    /\ pending[s] = {}
    /\ ~recording[s]
    /\ recording' = [recording EXCEPT ![s] = TRUE]
    /\ UNCHANGED <<memory, phase, db, plan, resident, touched, pending, trace, promised, faulted>>

\* prewarm's copy of the set, under the lock; nothing for an unknown database.
PrewarmCopy(s) ==
    /\ Move(s, "woken", "prewarming")
    /\ plan' = [plan EXCEPT ![s] = warm[db[s]]]
    /\ promised' = [promised EXCEPT ![s] = learned[db[s]]]
    /\ UNCHANGED <<memory, db, recording, resident, touched, pending, trace, faulted>>

\* A query may also be served without a prewarm.
ServeCold(s) ==
    /\ Move(s, "woken", "serving")
    /\ UNCHANGED <<memory, db, source>>

\* Faulty variant: the query is served before the pages are in.
PrewarmFetchDetached(s) ==
    /\ Move(s, "prewarming", "serving")
    /\ plan' = [plan EXCEPT ![s] = {}]
    /\ touched' = IF recording[s] THEN [touched EXCEPT ![s] = plan[s]] ELSE touched
    /\ UNCHANGED <<memory, db, recording, resident, pending, trace, promised, faulted>>

\* The prefetch, outside the lock; a recorder notes the whole list first.
PrewarmFetch(s) ==
    /\ Move(s, "prewarming", "serving")
    /\ plan' = [plan EXCEPT ![s] = {}]
    /\ touched' = IF recording[s] THEN [touched EXCEPT ![s] = plan[s]] ELSE touched
    /\ \E failed \in SUBSET plan[s] :
          /\ promised' = [promised EXCEPT ![s] = @ \ failed]
          /\ resident' = [resident EXCEPT ![s] = plan[s] \ failed]
    /\ UNCHANGED <<memory, db, recording, pending, trace, faulted>>

\* Faulty variant: a read goes past the recorder.
ReadBeginUnrecorded(s, p) ==
    /\ phase[s] \in {"serving", "observing"}
    /\ p \notin pending[s]
    /\ pending' = [pending EXCEPT ![s] = @ \cup {p}]
    /\ UNCHANGED <<memory, phase, db, recording, plan, resident, touched, trace, promised, faulted>>

\* A thread of the query reads a page: the recorder notes it first.
ReadBegin(s, p) ==
    /\ phase[s] \in {"serving", "observing"}
    /\ p \notin pending[s]
    /\ pending' = [pending EXCEPT ![s] = @ \cup {p}]
    /\ touched' = IF recording[s] THEN [touched EXCEPT ![s] = @ \cup {p}] ELSE touched
    /\ UNCHANGED <<memory, phase, db, recording, plan, resident, trace, promised, faulted>>

\* The inner read: a hit, or a fetch that may fail.
ReadEnd(s, p) ==
    /\ p \in pending[s]
    /\ pending' = [pending EXCEPT ![s] = @ \ {p}]
    /\ \/ /\ p \in resident[s]
          /\ UNCHANGED <<resident, faulted>>
       \/ /\ p \notin resident[s]
          /\ faulted' = [faulted EXCEPT ![s] = @ \cup {p}]
          /\ \/ resident' = [resident EXCEPT ![s] = @ \cup {p}]
             \/ UNCHANGED resident
    /\ UNCHANGED <<memory, phase, db, recording, plan, touched, trace, promised>>

\* RecordingSource::touched, while other threads may still be reading.
TakeTrace(s) ==
    /\ recording[s]
    /\ Move(s, "serving", "observing")
    /\ trace' = [trace EXCEPT ![s] = touched[s]]
    /\ UNCHANGED <<memory, db, recording, plan, resident, touched, pending, promised, faulted>>

\* observe, under the lock; the caller may later take another trace.
Observe(s) ==
    /\ Move(s, "observing", "serving")
    /\ LET d == db[s] IN
       /\ warm' = [warm EXCEPT ![d] = Learn(@, trace[s])]
       /\ saturated' = [saturated EXCEPT ![d] = @ \/ Saturates(warm[d], trace[s])]
       /\ learned' = [learned EXCEPT ![d] = @ \cup trace[s]]
    /\ trace' = [trace EXCEPT ![s] = {}]
    /\ UNCHANGED <<db, recording, plan, resident, touched, pending, promised, faulted>>

\* The source is dropped with its recorder, and the database wakes again with
\* another, over a fresh cache.
Sleep(s) ==
    /\ pending[s] = {}
    /\ Move(s, "serving", "asleep")
    /\ recording' = [recording EXCEPT ![s] = FALSE]
    /\ plan' = [plan EXCEPT ![s] = {}]
    /\ resident' = [resident EXCEPT ![s] = {}]
    /\ touched' = [touched EXCEPT ![s] = {}]
    /\ trace' = [trace EXCEPT ![s] = {}]
    /\ promised' = [promised EXCEPT ![s] = {}]
    /\ faulted' = [faulted EXCEPT ![s] = {}]
    /\ UNCHANGED <<memory, db, pending>>

Next ==
    \E s \in Wakes :
        \/ Wake(s) \/ Wrap(s) \/ ServeCold(s)
        \/ PrewarmCopy(s) \/ PrewarmFetch(s)
        \/ \E p \in Pages : ReadBegin(s, p) \/ ReadEnd(s, p)
        \/ TakeTrace(s) \/ Observe(s) \/ Sleep(s)

Spec == Init /\ [][Next]_vars

-----------------------------------------------------------------------------
(* What the scheduler promises.                                            *)

\* The cap is observable: a set says it is saturated exactly when it has had
\* to leave out a page a query touched (WarmSet::saturated, WARM_SET_CAP).
SaturationIsHonest == \A d \in Dbs : saturated[d] <=> learned[d] # warm[d]

\* Learning never costs a page its place, whatever is learned after it and by
\* whom, so that warming a stable workload converges (WarmSet::learn).
NothingForgotten == [][\A d \in Dbs : warm[d] \subseteq warm'[d]]_warm

\* A query served after a prewarm fetches no page that had been learned when
\* the prewarm made its copy, but those the tier refused the prewarm, unless
\* the set was saturated (tests/wake_warm.rs: zero new faults).
SecondWakeIsWarm ==
    \A s \in Wakes :
        faulted[s] \cap promised[s] = {} \/ saturated[db[s]]

\* A recorded query's trace has every page the query fetched while it was
\* recorded, even when it is taken in the middle of reads (RecordingSource).
TraceMissesNothing ==
    [][\A s \in Wakes :
          recording[s] => (faulted'[s] \ faulted[s]) \subseteq touched[s]]_faulted

-----------------------------------------------------------------------------
(* The strengthening that makes SecondWakeIsWarm inductive.                *)

\* A set that is not saturated has all that was learned.
WarmIsLearned ==
    \A d \in Dbs :
        /\ warm[d] \subseteq learned[d]
        /\ ~saturated[d] => learned[d] \subseteq warm[d]

\* A page promised is in the plan until the prefetch, and then in the cache.
PromiseHeld ==
    \A s \in Wakes :
        /\ phase[s] \in {"asleep", "woken"} => promised[s] = {}
        /\ phase[s] = "prewarming" /\ ~saturated[db[s]] => promised[s] \subseteq plan[s]
        /\ phase[s] \in {"serving", "observing"} /\ ~saturated[db[s]]
               => promised[s] \subseteq resident[s]
        /\ phase[s] \notin {"serving", "observing"} => faulted[s] = {} /\ pending[s] = {}

SchedulerInv == Types /\ WarmIsLearned /\ PromiseHeld /\ SecondWakeIsWarm

\* What a thread is reading through a recorder, the recorder has: the source of
\* TraceMissesNothing.
RecordedFirst == \A s \in Wakes : recording[s] => pending[s] \subseteq touched[s]

=============================================================================
