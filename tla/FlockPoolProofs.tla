-------------------------- MODULE FlockPoolProofs --------------------------
(***************************************************************************)
(* Theorems about FlockPool, for any number of handles, names and contents *)
(* and any bound on the history.                                           *)
(***************************************************************************)
EXTENDS FlockPool, TLAPS

USE PoolAssumption

\* A commit's parent is the manifest it was committed on.
LEMMA ParentOfCommit ==
    ASSUME NEW m \in Manifests, NEW c \in Contents
    PROVE  /\ Append(m, c) \in Manifests
           /\ Append(m, c) # <<>>
           /\ Append(m, c)[Len(Append(m, c))] = c
           /\ Parent(Append(m, c)) = m
  BY DEF Manifests, Parent

\* What the kernel opens is always some content.
LEMMA HydratedType ==
    ASSUME NEW m \in Manifests
    PROVE  Hydrated(m) \in Contents
  BY DEF Manifests, Hydrated

\* The name of a closed handle is a name.
LEMMA NoNameType == NoName \in Names
  BY DEF NoName

-----------------------------------------------------------------------------
(* Types.                                                                  *)

\* The state is well formed in every behaviour of the pool.
THEOREM PoolTypeOK == Spec => []TypeOK
<1>1. Init => TypeOK
  BY NoNameType DEF Init, TypeOK, Manifests, Pcs
<1>2. TypeOK /\ [Next]_vars => TypeOK'
  <2> SUFFICES ASSUME TypeOK, [Next]_vars PROVE TypeOK'
    OBVIOUS
  <2> USE DEF TypeOK, Goto
  <2>1. CASE Crash
    BY <2>1, NoNameType DEF Crash, durable, Manifests, Pcs
  <2>2. ASSUME NEW h \in Handles, HandleStep(h) PROVE TypeOK'
    <3>1. ASSUME NEW n \in Names, Open(h, n) PROVE TypeOK'
      BY <3>1 DEF Open, Pcs
    <3>2. CASE OpenRecover(h)
      BY <3>2, HydratedType DEF OpenRecover, Pcs
    <3>3. CASE Close(h)
      BY <3>3, NoNameType DEF Close, durable, Manifests, Pcs
    <3>4. ASSUME NEW v \in Contents, Execute(h, v) PROVE TypeOK'
      BY <3>4 DEF Execute
    <3>5. CASE SnapshotStep(h)
      <4>1. CASE SnapshotBegin(h)
        BY <4>1 DEF SnapshotBegin, Pcs, Busy
      <4>2. CASE WritePages(h)
        BY <4>2 DEF WritePages, Pcs, Busy
      <4>3. CASE NothingToWrite(h)
        BY <4>3 DEF NothingToWrite, Pcs, Busy
      <4>4. CASE AppendCommit(h)
        BY <4>4, ParentOfCommit DEF AppendCommit, Pcs, Busy
      <4>5. CASE Install(h)
        <5>1. Append(head[h], scratch[h]) \in Manifests
          BY ParentOfCommit
        <5>2. manifests' \in SUBSET Manifests
          BY <4>5, <5>1 DEF Install
        <5>3. head' \in [Handles -> Manifests]
          BY <4>5, <5>1 DEF Install
        <5>4. pc' \in [Handles -> Pcs]
          BY <4>5 DEF Install, Pcs, Busy
        <5> QED
          BY <4>5, <5>2, <5>3, <5>4 DEF Install
      <4>6. CASE SnapshotFail(h)
        BY <4>6 DEF SnapshotFail, Pcs
      <4>7. CASE SnapshotReturn(h)
        BY <4>7 DEF SnapshotReturn, Pcs
      <4> QED
        BY <3>5, <4>1, <4>2, <4>3, <4>4, <4>5, <4>6, <4>7 DEF SnapshotStep
    <3>6. CASE ForkStep(h)
      <4>1. ASSUME NEW n \in Names, ForkBegin(h, n) PROVE TypeOK'
        BY <4>1 DEF ForkBegin, Pcs, Busy
      <4>2. CASE ForkLink(h)
        BY <4>2 DEF ForkLink, Pcs, Busy
      <4>3. CASE ForkCheckpoint(h)
        BY <4>3 DEF ForkCheckpoint, Pcs, Busy
      <4>4. CASE ForkFail(h)
        BY <4>4 DEF ForkFail, Pcs
      <4>5. ASSUME NEW f \in Handles, ForkReturn(h, f) PROVE TypeOK'
        BY <4>5, HydratedType DEF ForkReturn, durable, Pcs
      <4> QED
        BY <3>6, <4>1, <4>2, <4>3, <4>4, <4>5 DEF ForkStep
    <3>7. CASE RestoreStep(h)
      <4>1. ASSUME NEW m \in manifests, RestoreRewind(h, m) PROVE TypeOK'
        BY <4>1 DEF RestoreRewind, Pcs, Busy
      <4>2. CASE RestoreCheckpoint(h)
        BY <4>2 DEF RestoreCheckpoint, Pcs, Busy
      <4>3. CASE RestoreRehydrate(h)
        BY <4>3, HydratedType DEF RestoreRehydrate, Pcs
      <4>4. CASE RestoreFail(h)
        BY <4>4 DEF RestoreFail, Pcs
      <4> QED
        BY <3>7, <4>1, <4>2, <4>3, <4>4 DEF RestoreStep
    <3> QED
      BY <2>2, <3>1, <3>2, <3>3, <3>4, <3>5, <3>6, <3>7 DEF HandleStep
  <2>3. CASE UNCHANGED vars
    BY <2>3 DEF vars
  <2> QED
    BY <2>1, <2>2, <2>3 DEF Next
<1> QED
  BY <1>1, <1>2, PTL DEF Spec

-----------------------------------------------------------------------------
(* The store: what a manifest or a log refers to is there.                 *)

\* No step installs a manifest before its pages, or without its ancestry.
LEMMA StoreInvStep ==
    TypeOK /\ StoreInv /\ [Next]_vars => StoreInv'
<1> SUFFICES ASSUME TypeOK, StoreInv, [Next]_vars PROVE StoreInv'
  OBVIOUS
<1> USE DEF TypeOK, StoreInv, NothingDangles, AncestryInstalled, Readable, Live, Goto
<1>1. CASE Crash
  BY <1>1 DEF Crash, durable
<1>2. ASSUME NEW h \in Handles, HandleStep(h) PROVE StoreInv'
  <2>1. ASSUME NEW n \in Names, Open(h, n) PROVE StoreInv'
    BY <2>1 DEF Open
  <2>2. CASE OpenRecover(h)
    BY <2>2 DEF OpenRecover
  <2>3. CASE Close(h)
    BY <2>3 DEF durable, Close
  <2>4. ASSUME NEW v \in Contents, Execute(h, v) PROVE StoreInv'
    BY <2>4 DEF Execute
  <2>5. CASE SnapshotStep(h)
    <3>1. CASE SnapshotBegin(h)
      BY <3>1 DEF SnapshotBegin
    <3>2. CASE WritePages(h)
      BY <3>2 DEF WritePages
    <3>3. CASE NothingToWrite(h)
      BY <3>3 DEF NothingToWrite
    <3>4. CASE AppendCommit(h)
      BY ParentOfCommit, <3>4 DEF AppendCommit
    <3>5. CASE Install(h)
      <4> DEFINE m == Append(head[h], scratch[h])
      <4>1. /\ pc[h] = "committed"
            /\ manifests' = manifests \cup {m}
            /\ head' = [head EXCEPT ![h] = m]
            /\ pc' = [pc EXCEPT ![h] = "snapped"]
            /\ UNCHANGED <<walHead, cas, scratch>>
        BY <3>5 DEF Install
      <4>2. /\ m # <<>> /\ m[Len(m)] = scratch[h] /\ Parent(m) = head[h]
            /\ scratch[h] \in cas /\ head[h] \in manifests
        BY <4>1, ParentOfCommit
      <4> HIDE DEF m
      <4>3. NothingDangles'
        BY <4>1, <4>2
      <4>4. AncestryInstalled'
        BY <4>1, <4>2
      <4>5. \A g \in Handles : (Live(g) => head[g] \in manifests)'
        BY <4>1
      <4> QED
        BY <4>1, <4>3, <4>4, <4>5
    <3>6. CASE SnapshotFail(h)
      BY <3>6 DEF SnapshotFail
    <3>7. CASE SnapshotReturn(h)
      BY <3>7 DEF SnapshotReturn
    <3> QED
      BY <2>5, <3>1, <3>2, <3>3, <3>4, <3>5, <3>6, <3>7 DEF SnapshotStep
  <2>6. CASE ForkStep(h)
    <3>1. ASSUME NEW n \in Names, ForkBegin(h, n) PROVE StoreInv'
      BY <3>1 DEF ForkBegin
    <3>2. CASE ForkLink(h)
      BY <3>2 DEF ForkLink
    <3>3. CASE ForkCheckpoint(h)
      BY <3>3 DEF ForkCheckpoint
    <3>4. CASE ForkFail(h)
      BY <3>4 DEF ForkFail
    <3>5. ASSUME NEW f \in Handles, ForkReturn(h, f) PROVE StoreInv'
      BY <3>5 DEF durable, ForkReturn
    <3> QED
      BY <2>6, <3>1, <3>2, <3>3, <3>4, <3>5 DEF ForkStep
  <2>7. CASE RestoreStep(h)
    <3>1. ASSUME NEW m \in manifests, RestoreRewind(h, m) PROVE StoreInv'
      BY <3>1 DEF RestoreRewind
    <3>2. CASE RestoreCheckpoint(h)
      BY <3>2 DEF RestoreCheckpoint
    <3>3. CASE RestoreRehydrate(h)
      BY <3>3 DEF RestoreRehydrate
    <3>4. CASE RestoreFail(h)
      BY <3>4 DEF RestoreFail
    <3> QED
      BY <2>7, <3>1, <3>2, <3>3, <3>4 DEF RestoreStep
  <2> QED
    BY <1>2, <2>1, <2>2, <2>3, <2>4, <2>5, <2>6, <2>7 DEF HandleStep
<1>3. CASE UNCHANGED vars
  BY <1>3 DEF vars
<1> QED
  BY <1>1, <1>2, <1>3 DEF Next

\* Every log recovers to, and every installed manifest resolves to, pages that
\* are in the store, and no installed manifest has a gap in its history.
THEOREM PoolStoreInv == Spec => []StoreInv
<1>1. Init => StoreInv
  BY DEF Init, StoreInv, NothingDangles, AncestryInstalled, Readable, Live
<1> QED
  BY <1>1, StoreInvStep, PoolTypeOK, PTL DEF Spec

\* A crash at any point leaves databases that open and snapshots that restore.
THEOREM PoolNothingDangles == Spec => []NothingDangles
  BY PoolStoreInv, PTL DEF StoreInv

\* Db::sleep finds every ancestor of every installed manifest.
THEOREM PoolAncestryInstalled == Spec => []AncestryInstalled
  BY PoolStoreInv, PTL DEF StoreInv

-----------------------------------------------------------------------------
(* The log: what a restart finds, when each name has one user at a time.   *)

\* Two handles that use a name are one, when names are used exclusively.
LEMMA Apart ==
    ASSUME NamesInv, NEW g \in Handles, NEW h \in Handles, g # h,
           pc[g] # "closed", pc[h] # "closed"
    PROVE  /\ name[g] # name[h]   /\ name[g] # target[h]
           /\ target[g] # name[h] /\ target[g] # target[h]
  BY DEF NamesInv, Uses

\* No step gives two handles one name, when names are used exclusively.
LEMMA NamesInvStep ==
    Exclusive /\ TypeOK /\ NamesInv /\ [Next]_vars => NamesInv'
<1> SUFFICES ASSUME Exclusive, TypeOK, NamesInv, [Next]_vars PROVE NamesInv'
  OBVIOUS
<1> USE DEF TypeOK, NamesInv, Uses, Busy, Pcs, Goto
<1>1. CASE Crash
  BY <1>1 DEF Crash, durable
<1>2. ASSUME NEW h \in Handles, HandleStep(h) PROVE NamesInv'
  <2>1. ASSUME NEW n \in Names, Open(h, n) PROVE NamesInv'
    BY <2>1 DEF Available, Open
  <2>2. CASE OpenRecover(h)
    BY <2>2 DEF OpenRecover
  <2>3. CASE Close(h)
    BY <2>3 DEF durable, Close
  <2>4. ASSUME NEW v \in Contents, Execute(h, v) PROVE NamesInv'
    BY <2>4 DEF Execute
  <2>5. CASE SnapshotStep(h)
    <3>1. CASE SnapshotBegin(h)
      BY <3>1 DEF SnapshotBegin
    <3>2. CASE WritePages(h)
      BY <3>2 DEF WritePages
    <3>3. CASE NothingToWrite(h)
      BY <3>3 DEF NothingToWrite
    <3>4. CASE AppendCommit(h)
      BY <3>4 DEF AppendCommit
    <3>5. CASE Install(h)
      <4>1. /\ UNCHANGED <<name, target>>
            /\ pc[h] = "committed" /\ pc'[h] = "snapped"
            /\ \A g \in Handles \ {h} : pc'[g] = pc[g]
        BY <3>5 DEF Install
      <4>2. \A g \in Handles : Uses(g)' = Uses(g)
        BY <4>1
      <4>3. \A g \in Handles :
              /\ pc'[g] \in {"linked", "open", "rewound", "restored"} => target'[g] = name'[g]
              /\ pc'[g] \in {"forking", "forked"} => target'[g] # name'[g]
        BY <4>1
      <4> HIDE DEF Uses, TypeOK, Busy, Pcs
      <4> QED
        BY <4>2, <4>3
    <3>6. CASE SnapshotFail(h)
      <4>1. /\ name' = name
            /\ target' = [target EXCEPT ![h] = name[h]]
            /\ pc[h] \in {"persisting", "staged"} /\ pc' = [pc EXCEPT ![h] = "open"]
        BY <3>6 DEF SnapshotFail
      <4>2. \A g \in Handles : Uses(g)' \subseteq Uses(g)
        BY <4>1
      <4>3. \A g \in Handles :
              /\ pc'[g] \in {"linked", "open", "rewound", "restored"} => target'[g] = name'[g]
              /\ pc'[g] \in {"forking", "forked"} => target'[g] # name'[g]
        BY <4>1
      <4> HIDE DEF Uses, TypeOK, Busy, Pcs
      <4> QED
        BY <4>2, <4>3
    <3>7. CASE SnapshotReturn(h)
      BY <3>7 DEF SnapshotReturn
    <3> QED
      BY <2>5, <3>1, <3>2, <3>3, <3>4, <3>5, <3>6, <3>7 DEF SnapshotStep
  <2>6. CASE ForkStep(h)
    <3>1. ASSUME NEW n \in Names, ForkBegin(h, n) PROVE NamesInv'
      BY <3>1 DEF Available, ForkBegin
    <3>2. CASE ForkLink(h)
      BY <3>2 DEF ForkLink
    <3>3. CASE ForkCheckpoint(h)
      BY <3>3 DEF ForkCheckpoint
    <3>4. CASE ForkFail(h)
      BY <3>4 DEF ForkFail
    <3>5. ASSUME NEW f \in Handles, ForkReturn(h, f) PROVE NamesInv'
      <4>1. ASSUME NEW g \in Handles \ {h, f}
            PROVE  Uses(g)' = Uses(g) /\ Uses(g) \cap Uses(h) = {}
        BY <3>5 DEF ForkReturn
      <4>2. Uses(h)' = {name[h]} /\ Uses(f)' = {target[h]} /\ Uses(h) = {name[h], target[h]}
        BY <3>5 DEF ForkReturn
      <4>3. name[h] # target[h] /\ target[h] \in Names
        BY <3>5 DEF ForkReturn
      <4>4. ASSUME NEW x \in Handles, NEW y \in Handles, x # y
            PROVE  Uses(x)' \cap Uses(y)' = {}
        <5> HIDE DEF Uses
        <5>1. CASE x \notin {h, f} /\ y \notin {h, f}
          BY <4>1, <4>4, <5>1
        <5>2. CASE x \in {h, f} /\ y \in {h, f}
          BY <4>2, <4>3, <4>4, <5>2
        <5>3. CASE x \in {h, f} /\ y \notin {h, f}
          BY <4>1, <4>2, <5>3
        <5>4. CASE x \notin {h, f} /\ y \in {h, f}
          BY <4>1, <4>2, <5>4
        <5> QED
          BY <5>1, <5>2, <5>3, <5>4
      <4>5. ASSUME NEW g \in Handles
            PROVE  (/\ pc[g] \in {"linked", "open", "rewound", "restored"} => target[g] = name[g]
                    /\ pc[g] \in {"forking", "forked"} => target[g] # name[g])'
        BY <3>5 DEF ForkReturn
      <4> QED
        BY <4>4, <4>5
    <3> QED
      BY <2>6, <3>1, <3>2, <3>3, <3>4, <3>5 DEF ForkStep
  <2>7. CASE RestoreStep(h)
    <3>1. ASSUME NEW m \in manifests, RestoreRewind(h, m) PROVE NamesInv'
      BY <3>1 DEF RestoreRewind
    <3>2. CASE RestoreCheckpoint(h)
      BY <3>2 DEF RestoreCheckpoint
    <3>3. CASE RestoreRehydrate(h)
      BY <3>3 DEF RestoreRehydrate
    <3>4. CASE RestoreFail(h)
      BY <3>4 DEF RestoreFail
    <3> QED
      BY <2>7, <3>1, <3>2, <3>3, <3>4 DEF RestoreStep
  <2> QED
    BY <1>2, <2>1, <2>2, <2>3, <2>4, <2>5, <2>6, <2>7 DEF HandleStep
<1>3. CASE UNCHANGED vars
  BY <1>3 DEF vars
<1> QED
  BY <1>1, <1>2, <1>3 DEF Next

\* No step parts a log from the handle that writes it.
LEMMA LogInvStep ==
    Sound /\ TypeOK /\ StoreInv /\ NamesInv /\ LogInv /\ [Next]_vars => LogInv'
<1> SUFFICES ASSUME Exclusive, ~CheckpointsFail, TypeOK, StoreInv, NamesInv, LogInv, [Next]_vars
             PROVE  LogInv'
  BY DEF Sound
<1> USE DEF TypeOK, NamesInv, LogInv, LogAgrees, Uses, Busy, Pcs, Goto
<1>1. CASE Crash
  BY <1>1 DEF Crash, durable
<1>2. ASSUME NEW h \in Handles, HandleStep(h) PROVE LogInv'
  <2>1. ASSUME NEW n \in Names, Open(h, n) PROVE LogInv'
    BY <2>1 DEF Available, Open
  <2>2. CASE OpenRecover(h)
    <4>1. LogAgrees(h)'
      BY <2>2 DEF OpenRecover
    <4>2. ASSUME NEW g \in Handles \ {h} PROVE LogAgrees(g)'
      <5>1. pc[g] # "closed" => /\ name[g] # name[h]   /\ name[g] # target[h]
                               /\ target[g] # name[h] /\ target[g] # target[h]
        BY <2>2, Apart DEF OpenRecover
      <5>2. LogAgrees(g)
        BY DEF LogInv
      <5> HIDE DEF NamesInv, LogInv
      <5> QED
        BY <2>2, <5>1, <5>2 DEF OpenRecover
    <4>3. (\A n \in Names : n \notin dirs => walHead[n] = <<>>)'
      BY <2>2 DEF OpenRecover
    <4> QED
      BY <4>1, <4>2, <4>3 DEF LogInv
  <2>3. CASE Close(h)
    BY <2>3 DEF durable, Close
  <2>4. ASSUME NEW v \in Contents, Execute(h, v) PROVE LogInv'
    BY <2>4 DEF Execute
  <2>5. CASE SnapshotStep(h)
    <3>1. CASE SnapshotBegin(h)
      BY <3>1 DEF SnapshotBegin
    <3>2. CASE WritePages(h)
      BY <3>2 DEF WritePages
    <3>3. CASE NothingToWrite(h)
      BY <3>3 DEF Unchanged, NothingToWrite
    <3>4. CASE AppendCommit(h)
      <4>1. LogAgrees(h)'
        BY <3>4 DEF AppendCommit
      <4>2. ASSUME NEW g \in Handles \ {h} PROVE LogAgrees(g)'
        <5>1. pc[g] # "closed" => /\ name[g] # name[h]   /\ name[g] # target[h]
                                 /\ target[g] # name[h] /\ target[g] # target[h]
          BY <3>4, Apart DEF AppendCommit
        <5>2. LogAgrees(g)
          BY DEF LogInv
        <5> HIDE DEF NamesInv, LogInv
        <5> QED
          BY <3>4, <5>1, <5>2 DEF AppendCommit
      <4>3. (\A n \in Names : n \notin dirs => walHead[n] = <<>>)'
        BY <3>4 DEF AppendCommit
      <4> QED
        BY <4>1, <4>2, <4>3 DEF LogInv
    <3>5. CASE Install(h)
      <4>1. LogAgrees(h)'
        BY ParentOfCommit, <3>5 DEF Install, Hydrated
      <4>2. ASSUME NEW g \in Handles \ {h} PROVE LogAgrees(g)'
        <5>1. pc[g] # "closed" => /\ name[g] # name[h]   /\ name[g] # target[h]
                                 /\ target[g] # name[h] /\ target[g] # target[h]
          BY <3>5, Apart DEF Install
        <5>2. LogAgrees(g)
          BY DEF LogInv
        <5> HIDE DEF NamesInv, LogInv
        <5> QED
          BY <3>5, <5>1, <5>2 DEF Install
      <4>3. (\A n \in Names : n \notin dirs => walHead[n] = <<>>)'
        BY <3>5 DEF Install
      <4> QED
        BY <4>1, <4>2, <4>3 DEF LogInv
    <3>6. CASE SnapshotFail(h)
      BY <3>6 DEF SnapshotFail
    <3>7. CASE SnapshotReturn(h)
      BY <3>7 DEF SnapshotReturn
    <3> QED
      BY <2>5, <3>1, <3>2, <3>3, <3>4, <3>5, <3>6, <3>7 DEF SnapshotStep
  <2>6. CASE ForkStep(h)
    <3>1. ASSUME NEW n \in Names, ForkBegin(h, n) PROVE LogInv'
      BY <3>1 DEF Available, ForkBegin
    <3>2. CASE ForkLink(h)
      <4>1. LogAgrees(h)'
        BY <3>2 DEF ForkLink
      <4>2. ASSUME NEW g \in Handles \ {h} PROVE LogAgrees(g)'
        <5>1. pc[g] # "closed" => /\ name[g] # name[h]   /\ name[g] # target[h]
                                 /\ target[g] # name[h] /\ target[g] # target[h]
          BY <3>2, Apart DEF ForkLink
        <5>2. LogAgrees(g)
          BY DEF LogInv
        <5> HIDE DEF NamesInv, LogInv
        <5> QED
          BY <3>2, <5>1, <5>2 DEF ForkLink
      <4>3. (\A n \in Names : n \notin dirs => walHead[n] = <<>>)'
        BY <3>2 DEF ForkLink
      <4> QED
        BY <4>1, <4>2, <4>3 DEF LogInv
    <3>3. CASE ForkCheckpoint(h)
      <4>1. LogAgrees(h)'
        BY <3>3 DEF ForkCheckpoint
      <4>2. ASSUME NEW g \in Handles \ {h} PROVE LogAgrees(g)'
        <5>1. pc[g] # "closed" => /\ name[g] # name[h]   /\ name[g] # target[h]
                                 /\ target[g] # name[h] /\ target[g] # target[h]
          BY <3>3, Apart DEF ForkCheckpoint
        <5>2. LogAgrees(g)
          BY DEF LogInv
        <5> HIDE DEF NamesInv, LogInv
        <5> QED
          BY <3>3, <5>1, <5>2 DEF ForkCheckpoint
      <4>3. (\A n \in Names : n \notin dirs => walHead[n] = <<>>)'
        BY <3>3 DEF ForkCheckpoint
      <4> QED
        BY <4>1, <4>2, <4>3 DEF LogInv
    <3>4. CASE ForkFail(h)
      BY <3>4 DEF ForkFail
    <3>5. ASSUME NEW f \in Handles, ForkReturn(h, f) PROVE LogInv'
      <4>1. /\ LogAgrees(h)' /\ LogAgrees(f)'
        BY <3>5 DEF durable, ForkReturn
      <4>2. ASSUME NEW g \in Handles \ {h, f} PROVE LogAgrees(g)'
        BY <3>5 DEF durable, ForkReturn
      <4> QED
        BY <3>5, <4>1, <4>2 DEF durable, ForkReturn
    <3> QED
      BY <2>6, <3>1, <3>2, <3>3, <3>4, <3>5 DEF ForkStep
  <2>7. CASE RestoreStep(h)
    <3>1. ASSUME NEW m \in manifests, RestoreRewind(h, m) PROVE LogInv'
      BY <3>1 DEF RestoreRewind, StoreInv, Live
    <3>2. CASE RestoreCheckpoint(h)
      <4>1. LogAgrees(h)'
        BY <3>2 DEF RestoreCheckpoint
      <4>2. ASSUME NEW g \in Handles \ {h} PROVE LogAgrees(g)'
        <5>1. pc[g] # "closed" => /\ name[g] # name[h]   /\ name[g] # target[h]
                                 /\ target[g] # name[h] /\ target[g] # target[h]
          BY <3>2, Apart DEF RestoreCheckpoint
        <5>2. LogAgrees(g)
          BY DEF LogInv
        <5> HIDE DEF NamesInv, LogInv
        <5> QED
          BY <3>2, <5>1, <5>2 DEF RestoreCheckpoint
      <4>3. (\A n \in Names : n \notin dirs => walHead[n] = <<>>)'
        BY <3>2 DEF RestoreCheckpoint
      <4> QED
        BY <4>1, <4>2, <4>3 DEF LogInv
    <3>3. CASE RestoreRehydrate(h)
      BY <3>3 DEF RestoreRehydrate
    <3>4. CASE RestoreFail(h)
      BY <3>4 DEF RestoreFail
    <3> QED
      BY <2>7, <3>1, <3>2, <3>3, <3>4 DEF RestoreStep
  <2> QED
    BY <1>2, <2>1, <2>2, <2>3, <2>4, <2>5, <2>6, <2>7 DEF HandleStep
<1>3. CASE UNCHANGED vars
  BY <1>3 DEF vars
<1> QED
  BY <1>1, <1>2, <1>3 DEF Next

\* With one user per name and a log that can be written, every log agrees with the handle that writes it.
THEOREM PoolSoundInv == Spec => []SoundInv
<1>1. Init => SoundInv
  BY DEF Init, SoundInv, NamesInv, LogInv, LogAgrees, Uses
<1>2. TypeOK /\ StoreInv /\ SoundInv /\ [Next]_vars => SoundInv'
  BY NamesInvStep, LogInvStep DEF SoundInv, Sound
<1> QED
  BY <1>1, <1>2, PoolTypeOK, PoolStoreInv, PTL DEF Spec

\* A snapshot, fork or restore that has returned survives a restart.
THEOREM PoolRestIsDurable == Spec => [](Sound => RestIsDurable)
<1>1. SoundInv => (Sound => RestIsDurable)
  BY DEF SoundInv, LogInv, LogAgrees, RestIsDurable
<1> QED
  BY <1>1, PoolSoundInv, PTL

-----------------------------------------------------------------------------
(* The pool implements isolated databases.                                 *)

ViewOf(n) ==
    /\ \A h \in Handles : Live(h) /\ name[h] = n => Visible(n) = View(h)
    /\ (\A h \in Handles : ~(Live(h) /\ name[h] = n)) => Visible(n) = Hydrated(walHead[n])

Views == \A n \in Names : ViewOf(n)

\* A handle serves the name it is open on, and nobody else does.
LEMMA ServedView == NamesInv => Views
<1> SUFFICES ASSUME NamesInv, NEW n \in Names PROVE ViewOf(n)
  BY DEF Views
<1>1. ASSUME NEW h \in Handles, Live(h), name[h] = n
      PROVE  Visible(n) = View(h)
  <2>1. \A g \in Handles : Live(g) /\ name[g] = n => g = h
    BY <1>1 DEF NamesInv, Uses, Live
  <2>2. Serving(n) = {h}
    BY <1>1, <2>1 DEF Serving
  <2>3. (CHOOSE x \in Serving(n) : TRUE) = h
    BY <2>2
  <2> QED
    BY <2>2, <2>3 DEF Visible
<1>2. ASSUME \A h \in Handles : ~(Live(h) /\ name[h] = n)
      PROVE  Visible(n) = Hydrated(walHead[n])
  BY <1>2 DEF Visible, Serving
<1> QED
  BY <1>1, <1>2 DEF ViewOf

\* A database looks the same after a step that leaves its log alone and leaves it
\* with the handle, and the view, it had.
LEMMA Undisturbed ==
    ASSUME NamesInv, NamesInv', NEW n \in Names,
           walHead'[n] = walHead[n],
           \A g \in Handles :
              /\ (Live(g) /\ name[g] = n)' <=> (Live(g) /\ name[g] = n)
              /\ Live(g) /\ name[g] = n => View(g)' = View(g)
    PROVE  Visible(n)' = Visible(n)
<1>1. NamesInv' => Views'
  BY ServedView, PTL
<1>2. CASE \E h \in Handles : Live(h) /\ name[h] = n
  BY <1>1, <1>2, ServedView DEF Views, ViewOf
<1>3. CASE ~\E h \in Handles : Live(h) /\ name[h] = n
  BY <1>1, <1>3, ServedView DEF Views, ViewOf
<1> QED
  BY <1>2, <1>3

\* The open databases stay so while every handle stays live, or not, and keeps its
\* name.
LEMMA SameOpened ==
    ASSUME \A g \in Handles :
              /\ Live(g)' <=> Live(g)
              /\ Live(g) => name'[g] = name[g]
    PROVE  opened' = opened
BY DEF opened

\* Every step of the pool is a step, or a stutter, of the isolated databases.
LEMMA RefinementStep ==
    Sound /\ TypeOK /\ StoreInv /\ NamesInv /\ LogInv /\ NamesInv' /\ [Next]_vars
      => [Abstract!Next]_(Abstract!vars)
<1> DEFINE Mapped == [Abstract!Next]_(Abstract!vars)
<1> SUFFICES ASSUME Exclusive, ~CheckpointsFail, TypeOK, StoreInv, NamesInv, LogInv, NamesInv',
                    [Next]_vars
             PROVE  Mapped
  BY DEF Sound
<1> USE DEF TypeOK
<1>1. Views /\ Views'
  BY ServedView, PTL
<1>2. CASE Crash
  <2>1. \A g \in Handles : ~Live(g)'
    BY <1>2 DEF Crash, Live
  <2>2. walHead' = walHead /\ restorable' = restorable
    BY <1>2 DEF Crash, durable, restorable
  <2>3. \A n \in Names : Visible(n)' = Hydrated(walHead[n])
    BY <1>1, <2>1, <2>2 DEF Views, ViewOf
  <2>4. ASSUME NEW n \in Names, n \notin opened PROVE Visible(n) = Hydrated(walHead[n])
    BY <1>1, <2>4 DEF Views, ViewOf, opened
  <2>5. opened' = opened \ opened
    BY <2>1 DEF opened
  <2>6. visible' = [n \in Names |-> IF n \in opened THEN Hydrated(walHead[n]) ELSE visible[n]]
    BY <2>3, <2>4 DEF visible
  <2>7. Abstract!Lose(opened)
    BY <2>2, <2>5, <2>6 DEF Abstract!Lose, Abstract!ContentOf, Hydrated
  <2> QED
    BY <2>7 DEF Abstract!Next
<1>3. ASSUME NEW h \in Handles, HandleStep(h) PROVE Mapped
  <2>1. ASSUME NEW d \in Names, Open(h, d) PROVE Mapped
    <3>1. ASSUME NEW n \in Names PROVE Visible(n)' = Visible(n)
      BY <2>1, Undisturbed DEF Open, Live, View, Goto, Pcs, Busy
    <3>8. walHead' = walHead /\ restorable' = restorable
      BY <2>1 DEF Open, restorable
    <3>9. visible' = visible
      BY <3>1 DEF visible
    <3>10. opened' = opened
      BY <2>1, SameOpened DEF Open, Live, Goto, Pcs, Busy
    <3> QED
      BY <3>8, <3>9, <3>10 DEF Abstract!vars
  <2>2. CASE OpenRecover(h)
    <3>0. PICK d \in Names : d = name[h]
      OBVIOUS
    <3>1. ASSUME NEW n \in Names, n # d PROVE Visible(n)' = Visible(n)
      BY <2>2, <3>0, <3>1, Undisturbed DEF OpenRecover, Live, View, Goto, Pcs, Busy
    <3>6. \A g \in Handles : ~(Live(g) /\ name[g] = d)
      BY <2>2, <3>0, Apart DEF OpenRecover, Live
    <3>2. Visible(d) = Hydrated(walHead[d])
      BY <3>6, <1>1 DEF Views, ViewOf
    <3>3. Visible(d)' = Hydrated(walHead[d])
      BY <2>2, <3>0, <1>1 DEF OpenRecover, Views, ViewOf, Live, View, Goto, Pcs, Busy
    <3>4. ASSUME NEW n \in Names PROVE Visible(n)' = Visible(n)
      BY <3>1, <3>2, <3>3
    <3>8. walHead' = walHead /\ restorable' = restorable
      BY <2>2 DEF OpenRecover, restorable
    <3>9. visible' = visible
      BY <3>4 DEF visible
    <3>10. opened' = opened \cup {d} /\ d \notin opened
      <4>1. \A g \in Handles : (Live(g) /\ name[g] = d)' <=> g = h
        BY <2>2, <3>0, <3>6 DEF OpenRecover, Live, Goto, Pcs, Busy
      <4>2. \A g \in Handles : \A n \in Names \ {d} :
              (Live(g) /\ name[g] = n)' <=> (Live(g) /\ name[g] = n)
        BY <2>2, <3>0 DEF OpenRecover, Live, Goto, Pcs, Busy
      <4> QED
        BY <3>6, <4>1, <4>2 DEF opened
    <3> QED
      BY <3>8, <3>9, <3>10 DEF Abstract!Next, Abstract!Open
  <2>3. CASE Close(h)
    <3>0. PICK d \in Names : d = name[h]
      OBVIOUS
    <3>1. walHead' = walHead /\ restorable' = restorable
      BY <2>3, <3>0 DEF Close, durable, restorable
    <3>2. \A g \in Handles : ~(Live(g) /\ name[g] = d)'
      BY <2>3, <3>0, Apart DEF Close, Live, Goto
    <3>3. ASSUME NEW n \in Names, n # d
          PROVE  \A g \in Handles : (Live(g) /\ name[g] = n)' <=> (Live(g) /\ name[g] = n)
      BY <2>3, <3>0, <3>3 DEF Close, Live, Goto, Pcs, Busy
    <3>4. ASSUME NEW n \in Names, n # d PROVE Visible(n)' = Visible(n)
      BY <2>3, <3>0, <3>4, Undisturbed DEF Close, Live, View, Goto, Pcs, Busy, durable
    <3>5. Visible(d)' = Hydrated(walHead[d])
      BY <3>1, <3>2, <1>1 DEF Views, ViewOf
    <3>6. visible' = [n \in Names |-> IF n \in {d} THEN Hydrated(walHead[n]) ELSE visible[n]]
      BY <3>4, <3>5 DEF visible
    <3>7. opened' = opened \ {d}
      BY <3>2, <3>3 DEF opened
    <3>8. CASE d \in opened
      <4>1. Abstract!Lose({d}) /\ {d} \in SUBSET opened
        BY <3>1, <3>6, <3>7, <3>8 DEF Abstract!Lose, Abstract!ContentOf, Hydrated
      <4> QED
        BY <4>1 DEF Abstract!Next
    <3>9. CASE d \notin opened
      <4>1. Visible(d) = Hydrated(walHead[d])
        BY <3>9, <1>1 DEF Views, ViewOf, opened
      <4>2. \A n \in Names : Visible(n)' = Visible(n)
        BY <3>4, <3>5, <4>1
      <4>3. visible' = visible
        BY <4>2 DEF visible
      <4> QED
        BY <3>1, <3>7, <3>9, <4>3 DEF Abstract!vars
    <3> QED
      BY <3>8, <3>9
  <2>4. ASSUME NEW v \in Contents, Execute(h, v) PROVE Mapped
    <3>0. PICK d \in Names : d = name[h]
      OBVIOUS
    <3>1. walHead' = walHead /\ restorable' = restorable
      BY <2>4, <3>0 DEF Execute, restorable
    <3>2. ASSUME NEW n \in Names, n # d PROVE Visible(n)' = Visible(n)
      BY <2>4, <3>0, <3>2, Undisturbed DEF Execute, Live, View, Goto, Pcs, Busy
    <3>3. Visible(d)' = v
      BY <2>4, <3>0, <1>1 DEF Execute, Views, ViewOf, Live, View, Goto, Pcs, Busy
    <3>4. visible' = [visible EXCEPT ![d] = v]
      BY <3>2, <3>3 DEF visible
    <3>5. opened' = opened /\ d \in opened
      BY <2>4, <3>0, SameOpened DEF Execute, Live, opened
    <3> QED
      BY <3>1, <3>4, <3>5 DEF Abstract!Next, Abstract!Work
  <2>5. CASE SnapshotStep(h)
    <3>1. CASE SnapshotBegin(h)
      <4>1. ASSUME NEW n \in Names PROVE Visible(n)' = Visible(n)
        BY <3>1, Undisturbed DEF SnapshotBegin, Live, View, Goto, Pcs, Busy
      <4>8. walHead' = walHead /\ restorable' = restorable
        BY <3>1 DEF SnapshotBegin, restorable
      <4>9. visible' = visible
        BY <4>1 DEF visible
      <4>10. opened' = opened
        BY <3>1, SameOpened DEF SnapshotBegin, Live, Goto, Pcs, Busy
      <4> QED
        BY <4>8, <4>9, <4>10 DEF Abstract!vars
    <3>2. CASE WritePages(h)
      <4>1. ASSUME NEW n \in Names PROVE Visible(n)' = Visible(n)
        BY <3>2, Undisturbed DEF WritePages, Live, View, Goto, Pcs, Busy
      <4>8. walHead' = walHead /\ restorable' = restorable
        BY <3>2 DEF WritePages, restorable
      <4>9. visible' = visible
        BY <4>1 DEF visible
      <4>10. opened' = opened
        BY <3>2, SameOpened DEF WritePages, Live, Goto, Pcs, Busy
      <4> QED
        BY <4>8, <4>9, <4>10 DEF Abstract!vars
    <3>3. CASE NothingToWrite(h)
      <4>1. ASSUME NEW n \in Names PROVE Visible(n)' = Visible(n)
        BY <3>3, Undisturbed DEF NothingToWrite, Live, View, Goto, Pcs, Busy
      <4>8. walHead' = walHead /\ restorable' = restorable
        BY <3>3 DEF NothingToWrite, restorable
      <4>9. visible' = visible
        BY <4>1 DEF visible
      <4>10. opened' = opened
        BY <3>3, SameOpened DEF NothingToWrite, Live, Goto, Pcs, Busy
      <4> QED
        BY <4>8, <4>9, <4>10 DEF Abstract!vars
    <3>4. CASE AppendCommit(h)
      <4>0. PICK d \in Names : d = name[h]
        OBVIOUS
      <4> DEFINE m == Append(walHead[d], visible[d])
      <4>2. ASSUME NEW n \in Names, n # d PROVE Visible(n)' = Visible(n)
        BY <3>4, <4>0, <4>2, Undisturbed DEF AppendCommit, Live, View, Goto, Pcs, Busy
      <4>3. Visible(d) = scratch[h] /\ Visible(d)' = scratch[h]
        BY <3>4, <4>0, <1>1 DEF AppendCommit, Views, ViewOf, Live, View, Goto, Pcs, Busy
      <4>4. visible' = visible
        BY <4>2, <4>3 DEF visible
      <4>5. walHead[d] = head[h] /\ head[h] \in manifests
        BY <3>4, <4>0 DEF AppendCommit, LogInv, LogAgrees, StoreInv, Live
      <4>6. walHead' = [walHead EXCEPT ![d] = m] /\ manifests' = manifests
        BY <3>4, <4>0, <4>3, <4>5 DEF AppendCommit, visible
      <4> HIDE DEF m
      <4>7. restorable' = restorable \cup {m}
        BY <4>5, <4>6 DEF restorable
      <4>8. opened' = opened /\ d \in opened
        BY <3>4, <4>0, SameOpened DEF AppendCommit, Live, Goto, Pcs, Busy, opened
      <4>9. Abstract!Snapshot(d)
        BY <4>4, <4>6, <4>7, <4>8 DEF Abstract!Snapshot, m
      <4> QED
        BY <4>9 DEF Abstract!Next
    <3>5. CASE Install(h)
      <4>1. ASSUME NEW n \in Names PROVE Visible(n)' = Visible(n)
        BY <3>5, Undisturbed DEF Install, Live, View, Goto, Pcs, Busy
      <4>8. walHead' = walHead /\ restorable' = restorable
        <5>1. walHead[name[h]] = Append(head[h], scratch[h])
          BY <3>5 DEF Install, LogInv, LogAgrees
        <5>2. walHead' = walHead /\ manifests' = manifests \cup {walHead[name[h]]}
          BY <3>5, <5>1 DEF Install
        <5> QED
          BY <5>2 DEF restorable
      <4>9. visible' = visible
        BY <4>1 DEF visible
      <4>10. opened' = opened
        BY <3>5, SameOpened DEF Install, Live, Goto, Pcs, Busy
      <4> QED
        BY <4>8, <4>9, <4>10 DEF Abstract!vars
    <3>6. CASE SnapshotFail(h)
      <4>1. ASSUME NEW n \in Names PROVE Visible(n)' = Visible(n)
        BY <3>6, Undisturbed DEF SnapshotFail, Live, View, Goto, Pcs, Busy
      <4>8. walHead' = walHead /\ restorable' = restorable
        BY <3>6 DEF SnapshotFail, restorable
      <4>9. visible' = visible
        BY <4>1 DEF visible
      <4>10. opened' = opened
        BY <3>6, SameOpened DEF SnapshotFail, Live, Goto, Pcs, Busy
      <4> QED
        BY <4>8, <4>9, <4>10 DEF Abstract!vars
    <3>7. CASE SnapshotReturn(h)
      <4>1. ASSUME NEW n \in Names PROVE Visible(n)' = Visible(n)
        BY <3>7, Undisturbed DEF SnapshotReturn, Live, View, Goto, Pcs, Busy
      <4>8. walHead' = walHead /\ restorable' = restorable
        BY <3>7 DEF SnapshotReturn, restorable
      <4>9. visible' = visible
        BY <4>1 DEF visible
      <4>10. opened' = opened
        BY <3>7, SameOpened DEF SnapshotReturn, Live, Goto, Pcs, Busy
      <4> QED
        BY <4>8, <4>9, <4>10 DEF Abstract!vars
    <3> QED
      BY <2>5, <3>1, <3>2, <3>3, <3>4, <3>5, <3>6, <3>7 DEF SnapshotStep
  <2>6. CASE ForkStep(h)
    <3>1. ASSUME NEW d \in Names, ForkBegin(h, d) PROVE Mapped
      <4>1. ASSUME NEW n \in Names PROVE Visible(n)' = Visible(n)
        BY <3>1, Undisturbed DEF ForkBegin, Live, View, Goto, Pcs, Busy
      <4>8. walHead' = walHead /\ restorable' = restorable
        BY <3>1 DEF ForkBegin, restorable
      <4>9. visible' = visible
        BY <4>1 DEF visible
      <4>10. opened' = opened
        BY <3>1, SameOpened DEF ForkBegin, Live, Goto, Pcs, Busy
      <4> QED
        BY <4>8, <4>9, <4>10 DEF Abstract!vars
    <3>2. CASE ForkLink(h)
      <4>1. ASSUME NEW n \in Names PROVE Visible(n)' = Visible(n)
        BY <3>2, Undisturbed DEF ForkLink, Live, View, Goto, Pcs, Busy
      <4>8. walHead' = walHead /\ restorable' = restorable
        BY <3>2 DEF ForkLink, restorable
      <4>9. visible' = visible
        BY <4>1 DEF visible
      <4>10. opened' = opened
        BY <3>2, SameOpened DEF ForkLink, Live, Goto, Pcs, Busy
      <4> QED
        BY <4>8, <4>9, <4>10 DEF Abstract!vars
    <3>3. CASE ForkCheckpoint(h)
      <4>0. PICK p \in Names, c \in Names : p = name[h] /\ c = target[h]
        OBVIOUS
      <4>1. p \in Names /\ c \in Names /\ p # c /\ pc[h] = "forking"
        BY <3>3, <4>0 DEF ForkCheckpoint, NamesInv
      <4>2. /\ walHead[c] = <<>> /\ walHead[p] = head[h] /\ scratch[h] = Hydrated(head[h])
            /\ head[h] \in manifests /\ <<>> \in manifests
        BY <4>0, <4>1 DEF LogInv, LogAgrees, StoreInv, Live
      <4>3. walHead' = [walHead EXCEPT ![c] = head[h]] /\ manifests' = manifests
        BY <3>3, <4>0 DEF ForkCheckpoint
      <4>4. ASSUME NEW n \in Names, n # c PROVE Visible(n)' = Visible(n)
        BY <3>3, <4>0, <4>4, Undisturbed DEF ForkCheckpoint, Live, View, Goto, Pcs, Busy
      <4>5. Visible(p) = Hydrated(walHead[p])
        BY <1>1, <4>0, <4>1, <4>2 DEF Views, ViewOf, Live, View
      <4>10. \A g \in Handles : ~(Live(g) /\ name[g] = c)
        BY <4>0, <4>1, Apart DEF Live
      <4>11. opened' = opened /\ p \in opened /\ c \notin opened
        BY <3>3, <4>0, <4>1, <4>10, SameOpened DEF ForkCheckpoint, Live, Goto, Pcs, Busy, opened
      <4>6. Visible(c)' = Hydrated(walHead[p])
        <5>1. \A g \in Handles : ~(Live(g) /\ name[g] = c)'
          BY <3>3, <4>0, <4>1, Apart DEF ForkCheckpoint, Live, Goto
        <5> QED
          BY <4>1, <4>2, <4>3, <5>1, <1>1 DEF Views, ViewOf
      <4>7. visible' = [visible EXCEPT ![c] = visible[p]] /\ visible[p] = Hydrated(walHead[p])
        BY <4>1, <4>4, <4>5, <4>6 DEF visible
      <4>8. restorable' = restorable
        BY <4>1, <4>2, <4>3 DEF restorable
      <4>9. Abstract!Fork(p, c)
        BY <4>2, <4>3, <4>7, <4>8, <4>11 DEF Abstract!Fork, Abstract!ContentOf, Hydrated
      <4> QED
        BY <4>1, <4>9 DEF Abstract!Next
    <3>4. CASE ForkFail(h)
      <4>1. ASSUME NEW n \in Names PROVE Visible(n)' = Visible(n)
        BY <3>4, Undisturbed DEF ForkFail, Live, View, Goto, Pcs, Busy
      <4>8. walHead' = walHead /\ restorable' = restorable
        BY <3>4 DEF ForkFail, restorable
      <4>9. visible' = visible
        BY <4>1 DEF visible
      <4>10. opened' = opened
        BY <3>4, SameOpened DEF ForkFail, Live, Goto, Pcs, Busy
      <4> QED
        BY <4>8, <4>9, <4>10 DEF Abstract!vars
    <3>5. ASSUME NEW f \in Handles, ForkReturn(h, f) PROVE Mapped
      <4>0. PICK c \in Names : c = target[h]
        OBVIOUS
      <4>1. ASSUME NEW n \in Names, n # c PROVE Visible(n)' = Visible(n)
        BY <3>5, <4>0, <4>1, Undisturbed DEF ForkReturn, Live, View, Goto, Pcs, Busy, durable
      <4>6. \A g \in Handles : ~(Live(g) /\ name[g] = c)
        BY <3>5, <4>0, Apart DEF ForkReturn, Live, NamesInv
      <4>2. Visible(c) = Hydrated(walHead[c])
        BY <4>6, <1>1 DEF Views, ViewOf
      <4>3. Visible(c)' = Hydrated(walHead[c])
        BY <3>5, <4>0, <1>1 DEF ForkReturn, Views, ViewOf, LogInv, LogAgrees, Live, View, Goto, Pcs, Busy
      <4>4. ASSUME NEW n \in Names PROVE Visible(n)' = Visible(n)
        BY <4>1, <4>2, <4>3
      <4>8. walHead' = walHead /\ restorable' = restorable
        BY <3>5 DEF ForkReturn, restorable, durable
      <4>9. visible' = visible
        BY <4>4 DEF visible
      <4>10. opened' = opened \cup {c} /\ c \notin opened
        <5>1. \A g \in Handles : (Live(g) /\ name[g] = c)' <=> g = f
          BY <3>5, <4>0, <4>6 DEF ForkReturn, Live, NamesInv
        <5>2. \A g \in Handles : \A n \in Names \ {c} :
                (Live(g) /\ name[g] = n)' <=> (Live(g) /\ name[g] = n)
          BY <3>5, <4>0 DEF ForkReturn, Live
        <5> QED
          BY <4>6, <5>1, <5>2 DEF opened
      <4> QED
        BY <4>8, <4>9, <4>10 DEF Abstract!Next, Abstract!Open
    <3> QED
      BY <2>6, <3>1, <3>2, <3>3, <3>4, <3>5 DEF ForkStep
  <2>7. CASE RestoreStep(h)
    <3>1. ASSUME NEW m \in manifests, RestoreRewind(h, m) PROVE Mapped
      <4>1. ASSUME NEW n \in Names PROVE Visible(n)' = Visible(n)
        BY <3>1, Undisturbed DEF RestoreRewind, Live, View, Goto, Pcs, Busy
      <4>8. walHead' = walHead /\ restorable' = restorable
        BY <3>1 DEF RestoreRewind, restorable
      <4>9. visible' = visible
        BY <4>1 DEF visible
      <4>10. opened' = opened
        BY <3>1, SameOpened DEF RestoreRewind, Live, Goto, Pcs, Busy
      <4> QED
        BY <4>8, <4>9, <4>10 DEF Abstract!vars
    <3>2. CASE RestoreCheckpoint(h)
      <4>0. PICK d \in Names : d = name[h]
        OBVIOUS
      <4>1. ASSUME NEW n \in Names, n # d PROVE Visible(n)' = Visible(n)
        BY <3>2, <4>0, <4>1, Undisturbed DEF RestoreCheckpoint, Live, View, Goto, Pcs, Busy
      <4>2. Visible(d)' = Hydrated(head[h])
        BY <3>2, <4>0, <1>1 DEF RestoreCheckpoint, Views, ViewOf, Live, View, Goto, Pcs, Busy
      <4>3. visible' = [visible EXCEPT ![d] = Hydrated(head[h])]
        BY <4>1, <4>2 DEF visible
      <4>4. walHead' = [walHead EXCEPT ![d] = head[h]] /\ manifests' = manifests
        BY <3>2, <4>0 DEF RestoreCheckpoint
      <4>5. head[h] \in manifests /\ walHead[d] \in manifests
        BY <3>2, <4>0 DEF RestoreCheckpoint, StoreInv, LogInv, LogAgrees, Live
      <4>6. restorable' = restorable /\ head[h] \in restorable
        BY <4>4, <4>5 DEF restorable
      <4>8. opened' = opened /\ d \in opened
        BY <3>2, <4>0, SameOpened DEF RestoreCheckpoint, Live, Goto, Pcs, Busy, opened
      <4>7. Abstract!Restore(d, head[h])
        BY <4>3, <4>4, <4>6, <4>8 DEF Abstract!Restore, Abstract!ContentOf, Hydrated
      <4> QED
        BY <4>6, <4>7 DEF Abstract!Next
    <3>3. CASE RestoreRehydrate(h)
      <4>1. ASSUME NEW n \in Names PROVE Visible(n)' = Visible(n)
        BY <3>3, Undisturbed DEF RestoreRehydrate, Live, View, Goto, Pcs, Busy
      <4>8. walHead' = walHead /\ restorable' = restorable
        BY <3>3 DEF RestoreRehydrate, restorable
      <4>9. visible' = visible
        BY <4>1 DEF visible
      <4>10. opened' = opened
        BY <3>3, SameOpened DEF RestoreRehydrate, Live, Goto, Pcs, Busy
      <4> QED
        BY <4>8, <4>9, <4>10 DEF Abstract!vars
    <3>4. CASE RestoreFail(h)
      <4>0. PICK d \in Names : d = name[h]
        OBVIOUS
      <4>1. walHead' = walHead /\ restorable' = restorable
        BY <3>4, <4>0 DEF RestoreFail, restorable
      <4>2. ASSUME NEW n \in Names, n # d PROVE Visible(n)' = Visible(n)
        BY <3>4, <4>0, <4>2, Undisturbed DEF RestoreFail, Live, View, Goto, Pcs, Busy
      <4>3. Visible(d)' = scratch[h]
        BY <3>4, <4>0, <1>1 DEF RestoreFail, Views, ViewOf, Live, View, Goto, Pcs, Busy
      <4>4. visible' = [visible EXCEPT ![d] = scratch[h]]
        BY <4>2, <4>3 DEF visible
      <4>5. opened' = opened /\ d \in opened
        BY <3>4, <4>0, SameOpened DEF RestoreFail, Live, Goto, Pcs, Busy, opened
      <4> QED
        BY <4>1, <4>4, <4>5 DEF Abstract!Next, Abstract!Work
    <3> QED
      BY <2>7, <3>1, <3>2, <3>3, <3>4 DEF RestoreStep
  <2> QED
    BY <1>3, <2>1, <2>2, <2>3, <2>4, <2>5, <2>6, <2>7 DEF HandleStep
<1>4. CASE UNCHANGED vars
  <2>1. \A n \in Names : Visible(n)' = Visible(n)
    BY <1>4, Undisturbed DEF vars, Live, View
  <2>2. opened' = opened
    BY <1>4, SameOpened DEF vars, Live
  <2> QED
    BY <1>4, <2>1, <2>2 DEF vars, Abstract!vars, visible, restorable
<1> QED
  BY <1>2, <1>3, <1>4 DEF Next

\* Every behaviour of a pool whose names each have one user at a time, and whose
\* log can be written when a restore has moved the head, is one of a
\* set of isolated databases: fork isolation, atomic commit and exact recovery.
THEOREM PoolImplementsIsolatedDatabases ==
    ASSUME Sound
    PROVE  Spec => IsolatedSpec
<1>1. Init => Abstract!Init
  <2> SUFFICES ASSUME Init PROVE Abstract!Init
    OBVIOUS
  <2>1. \A n \in Names : Visible(n) = Blank
    BY DEF Init, Visible, Serving, Live, Hydrated
  <2>2. opened = {}
    BY DEF Init, opened, Live
  <2> QED
    BY <2>1, <2>2 DEF Init, Abstract!Init, visible, restorable
<1>2. Inv /\ Inv' /\ [Next]_vars => [Abstract!Next]_(Abstract!vars)
  BY RefinementStep DEF Inv, SoundInv
<1>3. Spec => []Inv
  BY PoolTypeOK, PoolStoreInv, PoolSoundInv, PTL DEF Inv
<1> QED
  BY <1>1, <1>2, <1>3, PTL DEF Spec, IsolatedSpec, Abstract!Spec

=============================================================================
