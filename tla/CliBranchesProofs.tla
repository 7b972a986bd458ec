------------------------- MODULE CliBranchesProofs -------------------------
(***************************************************************************)
(* What the command line's writes promise, for any branches, tables and    *)
(* bound on the history, and whatever command dies wherever: no branch is  *)
(* dropped, and the pool implements NamedBranches.                         *)
(***************************************************************************)
EXTENDS CliBranches, SequenceTheorems, TLAPS

USE BranchesAssumption

-----------------------------------------------------------------------------
(* Manifests.                                                              *)

\* A manifest's ancestors are manifests.
LEMMA AncestryType ==
    ASSUME NEW m \in Manifests
    PROVE  Ancestry(m) \subseteq Manifests
<1>1. ASSUME NEW n \in 1..Len(m) PROVE SubSeq(m, 1, n) \in Manifests
    BY <1>1, SubSeqProperties, ElementOfSeq, LenProperties DEF Manifests
<1> QED
    BY <1>1 DEF Ancestry

\* A manifest that holds a commit is in its own ancestry.
LEMMA InOwnAncestry ==
    ASSUME NEW m \in Manifests, m # <<>>
    PROVE  m \in Ancestry(m)
<1>1. SubSeq(m, 1, Len(m)) = m /\ Len(m) \in 1..Len(m)
    BY SubSeqFull, EmptySeq, LenProperties DEF Manifests
<1> QED
    BY <1>1 DEF Ancestry

\* What a snapshot commits is a manifest.
LEMMA CommittedType ==
    ASSUME NEW m \in Manifests, NEW v \in Contents
    PROVE  Committed(m, v) \in Manifests
    BY DEF Committed, Manifests

\* The content of a manifest is a content.
LEMMA ContentType ==
    ASSUME NEW m \in Manifests
    PROVE  ContentOf(m) \in Contents
    BY DEF ContentOf, Manifests, Contents

\* Neither of the two files that cannot be read is a manifest.
LEMMA Unreadable == None \notin Manifests /\ Torn \notin Manifests /\ None # Torn
    BY DEF Manifests, Contents

-----------------------------------------------------------------------------
(* Types.                                                                  *)

\* No step of any command leaves a variable out of its type.
LEMMA TypeStep == TypeOK /\ [Next]_vars => TypeOK'
<1> SUFFICES ASSUME TypeOK, [Next]_vars PROVE TypeOK'
    OBVIOUS
<1> USE DEF TypeOK, Goto, Done, At, branches, stores, durable, Idle
<1>0. <<>> \in Manifests
    BY DEF Manifests
<1>1. CASE Stop
    BY <1>0, <1>1 DEF Stop, Pcs
<1>2. CASE Reclaim
    BY <1>2 DEF Reclaim
<1>3. CASE SetHead \/ WriteHead
    BY <1>0, <1>3 DEF SetHead, WriteHead, Pcs
<1>4. ASSUME NEW b \in Branches, Checkout(b) \/ ImportOpen(b) PROVE TypeOK'
    BY <1>0, <1>4 DEF Checkout, ImportOpen, Pcs
<1>5. ASSUME NEW b \in Branches, SleepUpload(b) PROVE TypeOK'
  <2>1. Committed(log[b], ContentOf(log[b])) \in Manifests
      BY CommittedType, ContentType
  <2> QED
      BY <1>5, <2>1, AncestryType DEF SleepUpload, Put, Uploaded, Pcs
<1>6. ASSUME NEW b \in Branches, WakeFetch(b) PROVE TypeOK'
    BY <1>6 DEF WakeFetch, RecordReads, Pcs
<1>7. ASSUME NEW t \in Tables, ImportCommit(t) PROVE TypeOK'
  <2>1. PICK m : m = Append(log[proc.branch], ContentOf(log[proc.branch]) \cup {t})
      OBVIOUS
  <2>2. m \in Manifests
    <3>1. log[proc.branch] \in Manifests
        OBVIOUS
    <3>2. ContentOf(log[proc.branch]) \cup {t} \in Contents
        BY <3>1, ContentType DEF Contents
    <3> QED
        BY <2>1, <3>1, <3>2, AppendProperties DEF Manifests
  <2>3. /\ log' = [log EXCEPT ![proc.branch] = m]
        /\ local' = local \cup {m}
        /\ proc' = Idle \/ proc' = [proc EXCEPT !.pc = "select"]
        /\ cut' = cut \ {m}
        /\ UNCHANGED <<headFile, dirs, record, cold>>
      BY <1>7, <2>1 DEF ImportCommit, Put
  <2> QED
      BY <1>0, <2>2, <2>3 DEF Pcs
<1>8. ASSUME NEW b \in Branches, NEW v \in Contents, Sql(b, v) PROVE TypeOK'
    BY <1>8, CommittedType DEF Sql, Put
<1>9. ASSUME NEW p \in Branches, NEW c \in Branches, ForkBegin(p, c) PROVE TypeOK'
  <2>1. PICK m : m = Committed(log[p], ContentOf(log[p]))
      OBVIOUS
  <2>2. m \in Manifests
      BY <2>1, CommittedType, ContentType
  <2>3. /\ log' = [log EXCEPT ![p] = m]
        /\ local' = local \cup {m}
        /\ proc' = [Idle EXCEPT !.pc = "fork", !.branch = c, !.from = p]
        /\ cut' = cut \ {m}
        /\ UNCHANGED <<headFile, dirs, record, cold>>
      BY <1>9, <2>1 DEF ForkBegin, Put
  <2> QED
      BY <1>0, <2>2, <2>3 DEF Pcs
<1>10. CASE ForkLink
    BY <1>10 DEF ForkLink, Pcs
<1>11. ASSUME NEW checkout \in BOOLEAN, ForkRecord(checkout) PROVE TypeOK'
    BY <1>0, <1>11 DEF ForkRecord, Pcs
<1>12. CASE SleepStep
    BY <1>0, <1>12, AncestryType
    DEF SleepStep, RecordCreate, RecordWrite, RemoveSome, RemoveDir, Pcs
<1>13. CASE WakeStep
    BY <1>0, <1>13
    DEF WakeStep, WakeCopy, WakeAdopt, Put, WakeOpen, WakeRestore, WakeForget, Pcs
<1>14. CASE UNCHANGED vars
    BY <1>14 DEF vars
<1> QED
    BY <1>1, <1>2, <1>3, <1>4, <1>5, <1>6, <1>7, <1>8, <1>9, <1>10, <1>11, <1>12,
       <1>13, <1>14 DEF Next

\* Every variable of the pool directory keeps its type.
THEOREM BranchesTypeOK == Spec => []TypeOK
<1>1. Init => TypeOK
    BY DEF Init, TypeOK, Idle, Pcs, Manifests
<1> QED
    BY <1>1, TypeStep, PTL DEF Spec

-----------------------------------------------------------------------------
(* The invariant.                                                          *)

\* Between the commands: what a sleeping branch needs is in the tier, what an awake
\* one needs in the pool; a record is only ever torn while both are so.
SoundBranch(b) ==
    /\ RecordReads(b) => Ancestry(record[b]) \subseteq cold
    /\ ~RecordReads(b) /\ b \in dirs => Openable(b)
    /\ b \notin dirs => log[b] = <<>>
    /\ record[b] = Torn => b \in dirs /\ Ancestry(log[b]) \subseteq cold

\* What the running command has done so far to the branch it is about.
SelectHas == proc.pc \in {"select", "selecting"} => proc.branch \in Known

ImportHas == At("import") => proc.branch \in dirs /\ ~IsAsleep(proc.branch)

ForkHas ==
    /\ proc.pc \in {"fork", "forked"} =>
        /\ proc.from \in dirs
        /\ ~IsAsleep(proc.from)
        /\ record[proc.branch] # Torn
    /\ At("fork") => proc.branch \notin dirs
    /\ At("forked") =>
        /\ proc.branch \in dirs
        /\ log[proc.branch] = <<>>
        /\ proc.branch # proc.from

SleepHas ==
    /\ proc.pc \in {"uploaded", "recording", "recorded"} =>
        /\ proc.branch \in dirs
        /\ Ancestry(proc.m) \subseteq cold
    /\ proc.pc \in {"uploaded", "recording"} => log[proc.branch] = proc.m
    /\ At("uploaded") => ~IsAsleep(proc.branch)
    /\ At("recording") => record[proc.branch] = Torn
    /\ At("recorded") => record[proc.branch] = proc.m

WakeHas ==
    /\ proc.pc \in {"fetched", "copying", "adopted", "reopened", "restored"} =>
        record[proc.branch] = proc.m
    /\ proc.pc \in {"reopened", "restored"} => proc.branch \in dirs
    /\ At("restored") => log[proc.branch] = proc.m /\ proc.m \in local

BranchInv ==
    /\ TypeOK
    /\ \A b \in Branches : SoundBranch(b)
    /\ HeadNamesABranch
    /\ SelectHas /\ ImportHas /\ ForkHas /\ SleepHas /\ WakeHas

\* A step that ends the command leaves nothing to be said of it.
LEMMA Ended ==
    ASSUME proc' = Idle
    PROVE  (SelectHas /\ ImportHas /\ ForkHas /\ SleepHas /\ WakeHas)'
    BY DEF Idle, SelectHas, ImportHas, ForkHas, SleepHas, WakeHas, At

\* A branch's clauses outlive the steps that only add to the stores.
LEMMA StillSound ==
    ASSUME NEW b \in Branches, SoundBranch(b), TypeOK,
           local \subseteq local', cold \subseteq cold',
           log'[b] = log[b], record'[b] = record[b], b \in dirs' <=> b \in dirs
    PROVE  SoundBranch(b)'
    BY DEF SoundBranch, RecordReads, Openable

\* No branch is unknown that was known, and HEAD is not written.
LEMMA StillNamed ==
    ASSUME HeadNamesABranch, dirs \subseteq dirs', UNCHANGED headFile,
           \A b \in Branches : record[b] # None => record'[b] # None
    PROVE  HeadNamesABranch'
    BY DEF HeadNamesABranch, Known

\* A snapshot commits to an awake branch, whatever it does next: the branch opens.
LEMMA CommitKeeps ==
    ASSUME BranchInv, NEW b \in Branches, NEW m \in Manifests,
           b \in dirs, ~IsAsleep(b),
           log' = [log EXCEPT ![b] = m], local' = local \cup {m}, cold \subseteq cold',
           UNCHANGED <<headFile, dirs, record>>
    PROVE  (\A c \in Branches : SoundBranch(c))' /\ HeadNamesABranch'
<1>1. ASSUME NEW c \in Branches, c # b PROVE SoundBranch(c)'
    BY <1>1, StillSound DEF BranchInv, TypeOK
<1>2. SoundBranch(b)'
    BY Unreadable DEF BranchInv, TypeOK, SoundBranch, RecordReads, Openable, IsAsleep
<1> QED
    BY <1>1, <1>2, StillNamed DEF BranchInv

\* HEAD is only written with a branch that is there.
LEMMA HeadKeeps ==
    ASSUME BranchInv, SetHead \/ WriteHead \/ \E b \in Branches : Checkout(b)
    PROVE  BranchInv'
<1>1. TypeOK'
    BY TypeStep DEF BranchInv, Next
<1>2. /\ dirs' = dirs /\ log' = log /\ record' = record
      /\ local' = local /\ cold' = cold
      /\ \/ headFile' = headFile \/ headFile' = Torn
         \/ headFile' = proc.branch /\ At("selecting")
  <2>1. CASE SetHead \/ WriteHead
      BY <2>1 DEF SetHead, WriteHead
  <2>2. ASSUME NEW b \in Branches, Checkout(b)
        PROVE  dirs' = dirs /\ log' = log /\ record' = record
               /\ local' = local /\ cold' = cold /\ headFile' = headFile
      BY <2>2 DEF Checkout, durable, branches, stores
  <2> QED
      BY <2>1, <2>2
<1>3. (\A b \in Branches : SoundBranch(b))'
    BY <1>2, StillSound DEF BranchInv
<1>4. HeadNamesABranch'
    BY <1>2 DEF BranchInv, HeadNamesABranch, SelectHas, Known, At, TypeOK
<1>5. (SelectHas /\ ImportHas /\ ForkHas /\ SleepHas /\ WakeHas)'
  <2>1. CASE WriteHead
      BY <2>1, Ended DEF WriteHead, Done
  <2>2. CASE SetHead
      BY <2>2 DEF SetHead, BranchInv, TypeOK, Goto, At, Known,
                  SelectHas, ImportHas, ForkHas, SleepHas, WakeHas
  <2>3. ASSUME NEW b \in Branches, Checkout(b)
        PROVE  (SelectHas /\ ImportHas /\ ForkHas /\ SleepHas /\ WakeHas)'
      BY <2>3 DEF Checkout, BranchInv, Idle, At, Known, durable, branches,
                  SelectHas, ImportHas, ForkHas, SleepHas, WakeHas
  <2> QED
      BY <2>1, <2>2, <2>3
<1> QED
    BY <1>1, <1>3, <1>4, <1>5 DEF BranchInv

\* A command that dies leaves what it wrote, and reclaiming takes no awake branch's pages.
LEMMA StopKeeps ==
    ASSUME BranchInv, Stop \/ Reclaim
    PROVE  BranchInv'
<1>1. TypeOK'
    BY TypeStep DEF BranchInv, Next
<1>2. UNCHANGED <<branches, cold>>
    BY DEF Stop, Reclaim, durable, branches, stores
<1>3. HeadNamesABranch'
    BY <1>2, StillNamed DEF BranchInv, branches
<1>4. CASE Stop
  <2>1. (\A b \in Branches : SoundBranch(b))'
      BY <1>2, <1>4, StillSound DEF BranchInv, Stop, durable, branches, stores
  <2> QED
      BY <1>1, <1>3, <1>4, <2>1, Ended DEF BranchInv, Stop, Done
<1>5. CASE Reclaim
  <2>1. ASSUME NEW b \in Branches PROVE SoundBranch(b)'
    <3>1. ASSUME b \in dirs, log[b] # <<>>, log[b] \in local PROVE log[b] \in local'
        BY <1>5, <3>1, InOwnAncestry DEF Reclaim, BranchInv, TypeOK
    <3> QED
        BY <1>2, <3>1 DEF BranchInv, SoundBranch, RecordReads, Openable, branches
  <2>2. UNCHANGED <<branches, proc>> /\ At("idle")
      BY <1>5 DEF Reclaim, branches
  <2>3. (SelectHas /\ ImportHas /\ ForkHas /\ SleepHas /\ WakeHas)'
      BY <2>2 DEF At, SelectHas, ImportHas, ForkHas, SleepHas, WakeHas
  <2> QED
      BY <1>1, <1>3, <2>1, <2>3 DEF BranchInv
<1> QED
    BY <1>4, <1>5

\* An import opens its branch, which is there and awake from then on.
LEMMA ImportKeeps ==
    ASSUME BranchInv,
           \/ \E b \in Branches : ImportOpen(b)
           \/ \E t \in Tables : ImportCommit(t)
    PROVE  BranchInv'
<1>1. TypeOK'
    BY TypeStep DEF BranchInv, Next
<1>2. ASSUME NEW b \in Branches, ImportOpen(b) PROVE BranchInv'
  <2>1. ASSUME NEW c \in Branches PROVE SoundBranch(c)'
      BY <1>2, <2>1 DEF ImportOpen, BranchInv, TypeOK, SoundBranch, RecordReads,
                        Openable, IsAsleep
  <2>2. HeadNamesABranch'
      BY <1>2, StillNamed DEF ImportOpen, BranchInv
  <2>3. (SelectHas /\ ImportHas /\ ForkHas /\ SleepHas /\ WakeHas)'
      BY <1>2 DEF ImportOpen, IsAsleep, Idle, At,
                  SelectHas, ImportHas, ForkHas, SleepHas, WakeHas
  <2> QED
      BY <1>1, <2>1, <2>2, <2>3 DEF BranchInv
<1>3. ASSUME NEW t \in Tables, ImportCommit(t) PROVE BranchInv'
  <2>1. PICK m : m = Append(log[proc.branch], ContentOf(log[proc.branch]) \cup {t})
      OBVIOUS
  <2>2. /\ At("import")
        /\ log' = [log EXCEPT ![proc.branch] = m] /\ local' = local \cup {m}
        /\ proc' = Idle \/ proc' = [proc EXCEPT !.pc = "select"]
        /\ UNCHANGED <<headFile, dirs, record, cold>>
      BY <1>3, <2>1 DEF ImportCommit, Put, Done, Goto
  <2>3. proc.branch \in Branches /\ proc.branch \in dirs /\ ~IsAsleep(proc.branch)
      BY <2>2 DEF BranchInv, TypeOK, ImportHas
  <2>4. m \in Manifests
    <3>1. log[proc.branch] \in Manifests
        BY <2>3 DEF BranchInv, TypeOK
    <3>2. ContentOf(log[proc.branch]) \cup {t} \in Contents
        BY <3>1, ContentType DEF Contents
    <3> QED
        BY <2>1, <3>1, <3>2, AppendProperties DEF Manifests
  <2>5. (\A c \in Branches : SoundBranch(c))' /\ HeadNamesABranch'
      BY <2>2, <2>3, <2>4, CommitKeeps
  <2>6. (SelectHas /\ ImportHas /\ ForkHas /\ SleepHas /\ WakeHas)'
    <3>1. CASE proc' = [proc EXCEPT !.pc = "select"]
        BY <2>2, <2>3, <3>1 DEF Known, At, BranchInv, TypeOK,
                  SelectHas, ImportHas, ForkHas, SleepHas, WakeHas
    <3> QED
        BY <2>2, <3>1, Ended
  <2> QED
      BY <1>1, <2>5, <2>6 DEF BranchInv
<1> QED
    BY <1>2, <1>3

\* A statement commits to an awake branch and ends there.
LEMMA SqlKeeps ==
    ASSUME BranchInv, NEW b \in Branches, NEW v \in Contents, Sql(b, v)
    PROVE  BranchInv'
<1>1. TypeOK'
    BY TypeStep DEF BranchInv, Next
<1>2. PICK m : m = Committed(log[b], v)
    OBVIOUS
<1>3. m \in Manifests
    BY <1>2, CommittedType DEF BranchInv, TypeOK
<1>4. /\ b \in dirs /\ ~IsAsleep(b) /\ At("idle")
      /\ log' = [log EXCEPT ![b] = m] /\ local' = local \cup {m}
      /\ UNCHANGED <<headFile, dirs, record, cold, proc>>
    BY <1>2 DEF Sql, Put, Resolves, Known, IsAsleep
<1>5. (\A c \in Branches : SoundBranch(c))' /\ HeadNamesABranch'
    BY <1>3, <1>4, CommitKeeps
<1>6. (SelectHas /\ ImportHas /\ ForkHas /\ SleepHas /\ WakeHas)'
    BY <1>4 DEF At, SelectHas, ImportHas, ForkHas, SleepHas, WakeHas
<1> QED
    BY <1>1, <1>5, <1>6 DEF BranchInv

\* A fork is of an awake branch and makes an empty one before it records anything in it.
LEMMA ForkKeeps ==
    ASSUME BranchInv,
           \/ \E p, c \in Branches : ForkBegin(p, c)
           \/ ForkLink
           \/ \E checkout \in BOOLEAN : ForkRecord(checkout)
    PROVE  BranchInv'
<1>1. TypeOK'
    BY TypeStep DEF BranchInv, Next
<1>2. ASSUME NEW p \in Branches, NEW c \in Branches, ForkBegin(p, c) PROVE BranchInv'
  <2>1. PICK m : m = Committed(log[p], ContentOf(log[p]))
      OBVIOUS
  <2>2. m \in Manifests
      BY <2>1, CommittedType, ContentType DEF BranchInv, TypeOK
  <2>3. /\ p \in dirs /\ ~IsAsleep(p) /\ c \notin dirs
        /\ log' = [log EXCEPT ![p] = m] /\ local' = local \cup {m}
        /\ proc' = [Idle EXCEPT !.pc = "fork", !.branch = c, !.from = p]
        /\ UNCHANGED <<headFile, dirs, record, cold>>
      BY <1>2, <2>1 DEF ForkBegin, Put, Resolves, Known, IsAsleep
  <2>4. (\A b \in Branches : SoundBranch(b))' /\ HeadNamesABranch'
      BY <2>2, <2>3, CommitKeeps
  <2>5. record[c] # Torn
      BY <2>3 DEF BranchInv, SoundBranch
  <2>6. (SelectHas /\ ImportHas /\ ForkHas /\ SleepHas /\ WakeHas)'
      BY <2>3, <2>5 DEF Idle, At, IsAsleep,
                  SelectHas, ImportHas, ForkHas, SleepHas, WakeHas
  <2> QED
      BY <1>1, <2>4, <2>6 DEF BranchInv
<1>3. CASE ForkLink
  <2>1. /\ proc.branch \in Branches /\ proc.from \in Branches
        /\ proc.branch \notin dirs /\ proc.from \in dirs /\ log[proc.branch] = <<>>
        /\ ~IsAsleep(proc.from) /\ record[proc.branch] # Torn
      BY <1>3 DEF ForkLink, BranchInv, TypeOK, SoundBranch, ForkHas, At
  <2>2. ASSUME NEW b \in Branches PROVE SoundBranch(b)'
      BY <1>3, <2>1, <2>2 DEF ForkLink, BranchInv, SoundBranch, RecordReads, Openable
  <2>3. HeadNamesABranch'
      BY <1>3, StillNamed DEF ForkLink, BranchInv
  <2>4. (SelectHas /\ ImportHas /\ ForkHas /\ SleepHas /\ WakeHas)'
      BY <1>3, <2>1 DEF ForkLink, Goto, At, BranchInv, TypeOK, IsAsleep,
                  SelectHas, ImportHas, ForkHas, SleepHas, WakeHas
  <2> QED
      BY <1>1, <2>2, <2>3, <2>4 DEF BranchInv
<1>4. ASSUME NEW checkout \in BOOLEAN, ForkRecord(checkout) PROVE BranchInv'
  <2>1. /\ proc.branch \in Branches /\ proc.from \in Branches
        /\ proc.branch \in dirs /\ record[proc.branch] # Torn
        /\ SoundBranch(proc.from) /\ SoundBranch(proc.branch)
        /\ record[proc.from] = None /\ proc.from \in dirs
      BY <1>4 DEF ForkRecord, BranchInv, TypeOK, ForkHas, At, IsAsleep
  <2>2. /\ log' = [log EXCEPT ![proc.branch] = log[proc.from]]
        /\ proc' = Idle \/ proc' = [proc EXCEPT !.pc = "select"]
        /\ UNCHANGED <<headFile, dirs, record, local, cold>>
      BY <1>4 DEF ForkRecord, Done, Goto
  <2>3. ASSUME NEW b \in Branches PROVE SoundBranch(b)'
    <3>1. CASE b # proc.branch
        BY <2>2, <3>1, StillSound DEF BranchInv, TypeOK
    <3>2. CASE b = proc.branch
      <4>1. log'[b] = log[proc.from]
          BY <2>1, <2>2, <3>2 DEF BranchInv, TypeOK
      <4>2. Openable(proc.from)
          BY <2>1 DEF SoundBranch, RecordReads
      <4> QED
          BY <2>1, <2>2, <3>2, <4>1, <4>2 DEF SoundBranch, RecordReads, Openable
    <3> QED
        BY <3>1, <3>2
  <2>5. HeadNamesABranch'
      BY <2>2, StillNamed DEF BranchInv
  <2>6. (SelectHas /\ ImportHas /\ ForkHas /\ SleepHas /\ WakeHas)'
    <3>1. CASE proc' = [proc EXCEPT !.pc = "select"]
        BY <2>1, <2>2, <3>1 DEF Known, At, BranchInv, TypeOK,
                  SelectHas, ImportHas, ForkHas, SleepHas, WakeHas
    <3> QED
        BY <2>2, <3>1, Ended
  <2> QED
      BY <1>1, <2>3, <2>5, <2>6 DEF BranchInv
<1> QED
    BY <1>2, <1>3, <1>4

\* A branch's directory goes only once its record names what the tier has whole.
LEMMA SleepKeeps ==
    ASSUME BranchInv, (\E b \in Branches : SleepUpload(b)) \/ SleepStep
    PROVE  BranchInv'
<1>1. TypeOK'
    BY TypeStep DEF BranchInv, Next
<1>2. ASSUME NEW b \in Branches, SleepUpload(b) PROVE BranchInv'
  <2>1. PICK m : m = Committed(log[b], ContentOf(log[b]))
      OBVIOUS
  <2>2. m \in Manifests
      BY <2>1, CommittedType, ContentType DEF BranchInv, TypeOK
  <2>3. /\ b \in dirs /\ ~IsAsleep(b)
        /\ log' = [log EXCEPT ![b] = m] /\ local' = local \cup {m}
        /\ cold' = cold \cup Ancestry(m)
        /\ proc' = [Idle EXCEPT !.pc = "uploaded", !.branch = b, !.m = m]
        /\ UNCHANGED <<headFile, dirs, record>>
      BY <1>2, <2>1 DEF SleepUpload, Put, Uploaded, Resolves, Known, IsAsleep
  <2>4. (\A c \in Branches : SoundBranch(c))' /\ HeadNamesABranch'
      BY <2>2, <2>3, CommitKeeps
  <2>5. log'[b] = m
      BY <2>3 DEF BranchInv, TypeOK
  <2>6. (SelectHas /\ ImportHas /\ ForkHas /\ SleepHas /\ WakeHas)'
      BY <2>3, <2>5 DEF Idle, At, IsAsleep,
                  SelectHas, ImportHas, ForkHas, SleepHas, WakeHas
  <2> QED
      BY <1>1, <2>4, <2>6 DEF BranchInv
<1>3. ASSUME SleepStep PROVE proc.branch \in Branches /\ proc.m \in Manifests
    BY <1>3 DEF BranchInv, TypeOK
<1>4. CASE RecordCreate
  <2>1. /\ proc.branch \in dirs /\ record[proc.branch] = None
        /\ log[proc.branch] = proc.m /\ Ancestry(proc.m) \subseteq cold
        /\ record' = [record EXCEPT ![proc.branch] = Torn]
        /\ proc' = [proc EXCEPT !.pc = "recording"]
        /\ UNCHANGED <<headFile, dirs, log, local, cold>>
      BY <1>4 DEF RecordCreate, BranchInv, SleepHas, At, IsAsleep, Goto
  <2>2. ASSUME NEW b \in Branches PROVE SoundBranch(b)'
    <3>1. CASE b # proc.branch
        BY <2>1, <3>1, StillSound DEF BranchInv, TypeOK
    <3>2. CASE b = proc.branch
        BY <2>1, <3>2 DEF BranchInv, TypeOK, SoundBranch, RecordReads, Openable
    <3> QED
        BY <3>1, <3>2
  <2>3. HeadNamesABranch'
      BY <1>3, <1>4, <2>1, StillNamed, Unreadable DEF SleepStep, BranchInv, TypeOK
  <2>4. (SelectHas /\ ImportHas /\ ForkHas /\ SleepHas /\ WakeHas)'
      BY <1>3, <1>4, <2>1 DEF SleepStep, At, BranchInv, TypeOK,
                  SelectHas, ImportHas, ForkHas, SleepHas, WakeHas
  <2> QED
      BY <1>1, <2>2, <2>3, <2>4 DEF BranchInv
<1>5. CASE RecordWrite
  <2>1. /\ proc.branch \in dirs /\ Ancestry(proc.m) \subseteq cold
        /\ record' = [record EXCEPT ![proc.branch] = proc.m]
        /\ proc' = [proc EXCEPT !.pc = "recorded"]
        /\ UNCHANGED <<headFile, dirs, log, local, cold>>
      BY <1>5 DEF RecordWrite, BranchInv, SleepHas, At, Goto
  <2>2. ASSUME NEW b \in Branches PROVE SoundBranch(b)'
    <3>1. CASE b # proc.branch
        BY <2>1, <3>1, StillSound DEF BranchInv, TypeOK
    <3>2. CASE b = proc.branch
        BY <1>3, <1>5, <2>1, <3>2, Unreadable
        DEF SleepStep, BranchInv, TypeOK, SoundBranch, RecordReads, Openable
    <3> QED
        BY <3>1, <3>2
  <2>3. HeadNamesABranch'
      BY <1>3, <1>5, <2>1, StillNamed, Unreadable DEF SleepStep, BranchInv, TypeOK
  <2>4. (SelectHas /\ ImportHas /\ ForkHas /\ SleepHas /\ WakeHas)'
      BY <1>3, <1>5, <2>1 DEF SleepStep, At, BranchInv, TypeOK,
                  SelectHas, ImportHas, ForkHas, SleepHas, WakeHas
  <2> QED
      BY <1>1, <2>2, <2>3, <2>4 DEF BranchInv
<1>6. CASE RemoveSome
  <2>1. PICK l : log' = [log EXCEPT ![proc.branch] = l]
      BY <1>6 DEF RemoveSome
  <2>2. /\ At("recorded") /\ record[proc.branch] = proc.m /\ proc.branch \in dirs
        /\ UNCHANGED <<headFile, dirs, record, local, cold, proc>>
      BY <1>6 DEF RemoveSome, BranchInv, SleepHas, At
  <2>3. ASSUME NEW b \in Branches PROVE SoundBranch(b)'
    <3>1. CASE b # proc.branch
        BY <2>1, <2>2, <3>1, StillSound DEF BranchInv, TypeOK
    <3>2. CASE b = proc.branch
        BY <1>3, <1>6, <2>2, <3>2, Unreadable
        DEF SleepStep, BranchInv, SoundBranch, RecordReads
    <3> QED
        BY <3>1, <3>2
  <2>4. HeadNamesABranch'
      BY <2>2, StillNamed DEF BranchInv
  <2>5. (SelectHas /\ ImportHas /\ ForkHas /\ SleepHas /\ WakeHas)'
      BY <2>2 DEF At, BranchInv, SelectHas, ImportHas, ForkHas, SleepHas, WakeHas
  <2> QED
      BY <1>1, <2>3, <2>4, <2>5 DEF BranchInv
<1>7. CASE RemoveDir
  <2>1. /\ record[proc.branch] = proc.m /\ Ancestry(proc.m) \subseteq cold
        /\ dirs' = dirs \ {proc.branch}
        /\ log' = [log EXCEPT ![proc.branch] = <<>>]
        /\ proc' = Idle
        /\ UNCHANGED <<headFile, record, local, cold>>
      BY <1>7 DEF RemoveDir, BranchInv, SleepHas, At, Done
  <2>2. ASSUME NEW b \in Branches PROVE SoundBranch(b)'
    <3>1. CASE b # proc.branch
        BY <2>1, <3>1, StillSound DEF BranchInv, TypeOK
    <3>2. CASE b = proc.branch
        BY <1>3, <1>7, <2>1, <3>2, Unreadable
        DEF SleepStep, BranchInv, TypeOK, SoundBranch, RecordReads
    <3> QED
        BY <3>1, <3>2
  <2>3. HeadNamesABranch'
      BY <1>3, <1>7, <2>1, Unreadable DEF SleepStep, BranchInv, HeadNamesABranch, Known
  <2> QED
      BY <1>1, <2>1, <2>2, <2>3, Ended DEF BranchInv
<1> QED
    BY <1>2, <1>4, <1>5, <1>6, <1>7 DEF SleepStep

\* A wake puts its record away only once the branch's log names what the record did.
LEMMA WakeKeeps ==
    ASSUME BranchInv, (\E b \in Branches : WakeFetch(b)) \/ WakeStep
    PROVE  BranchInv'
<1>1. TypeOK'
    BY TypeStep DEF BranchInv, Next
<1>2. CASE ~WakeRestore /\ ~WakeForget
  <2>1. /\ \/ dirs' = dirs
           \/ dirs' = dirs \cup {proc.branch} /\ Openable(proc.branch)
        /\ log' = log /\ record' = record /\ headFile' = headFile
        /\ local \subseteq local' /\ cold' = cold
    <3>1. ASSUME NEW b \in Branches, WakeFetch(b)
          PROVE  /\ dirs' = dirs /\ log' = log /\ record' = record
                 /\ headFile' = headFile /\ local' = local /\ cold' = cold
        BY <3>1 DEF WakeFetch, durable, branches, stores
    <3>2. CASE WakeCopy \/ WakeAdopt \/ WakeOpen
        BY <3>2 DEF WakeCopy, WakeAdopt, Put, WakeOpen, branches
    <3> QED
        BY <1>2, <3>1, <3>2 DEF WakeStep
  <2>2. ASSUME NEW b \in Branches PROVE SoundBranch(b)'
      BY <2>1 DEF BranchInv, SoundBranch, RecordReads, Openable
  <2>3. HeadNamesABranch'
      BY <2>1, StillNamed DEF BranchInv
  <2>4. (SelectHas /\ ImportHas /\ ForkHas /\ SleepHas /\ WakeHas)'
    <3>1. ASSUME NEW b \in Branches, WakeFetch(b)
          PROVE  (SelectHas /\ ImportHas /\ ForkHas /\ SleepHas /\ WakeHas)'
        BY <2>1, <3>1 DEF WakeFetch, Idle, At,
                  SelectHas, ImportHas, ForkHas, SleepHas, WakeHas
    <3>2. CASE WakeCopy \/ WakeAdopt
        BY <2>1, <3>2 DEF WakeCopy, WakeAdopt, Put, Goto, At, BranchInv, TypeOK,
                  SelectHas, ImportHas, ForkHas, SleepHas, WakeHas
    <3>3. CASE WakeOpen
        BY <2>1, <3>3 DEF WakeOpen, Goto, At, BranchInv, TypeOK,
                  SelectHas, ImportHas, ForkHas, SleepHas, WakeHas
    <3> QED
        BY <1>2, <3>1, <3>2, <3>3 DEF WakeStep
  <2> QED
      BY <1>1, <2>2, <2>3, <2>4 DEF BranchInv
<1>3. proc.branch \in Branches /\ proc.m \in Manifests
    BY DEF BranchInv, TypeOK
<1>4. CASE WakeRestore
  <2>1. /\ record[proc.branch] = proc.m /\ proc.branch \in dirs /\ proc.m \in local
        /\ log' = [log EXCEPT ![proc.branch] = proc.m]
        /\ proc' = [proc EXCEPT !.pc = "restored"]
        /\ UNCHANGED <<headFile, dirs, record, local, cold>>
      BY <1>4 DEF WakeRestore, BranchInv, WakeHas, At, Goto
  <2>2. ASSUME NEW b \in Branches PROVE SoundBranch(b)'
    <3>1. CASE b # proc.branch
        BY <2>1, <3>1, StillSound DEF BranchInv, TypeOK
    <3>2. CASE b = proc.branch
        BY <1>3, <2>1, <3>2, Unreadable DEF BranchInv, SoundBranch, RecordReads
    <3> QED
        BY <3>1, <3>2
  <2>3. HeadNamesABranch'
      BY <2>1, StillNamed DEF BranchInv
  <2>4. (SelectHas /\ ImportHas /\ ForkHas /\ SleepHas /\ WakeHas)'
      BY <1>3, <2>1 DEF At, BranchInv, TypeOK,
                  SelectHas, ImportHas, ForkHas, SleepHas, WakeHas
  <2> QED
      BY <1>1, <2>2, <2>3, <2>4 DEF BranchInv
<1>5. CASE WakeForget
  <2>1. /\ log[proc.branch] = proc.m /\ proc.m \in local /\ proc.branch \in dirs
        /\ record' = [record EXCEPT ![proc.branch] = None]
        /\ proc' = Idle
        /\ UNCHANGED <<headFile, dirs, log, local, cold>>
      BY <1>5 DEF WakeForget, BranchInv, WakeHas, At, Done
  <2>2. ASSUME NEW b \in Branches PROVE SoundBranch(b)'
    <3>1. CASE b # proc.branch
        BY <2>1, <3>1, StillSound DEF BranchInv, TypeOK
    <3>2. CASE b = proc.branch
        BY <1>3, <2>1, <3>2 DEF BranchInv, TypeOK, SoundBranch, RecordReads, Openable
    <3> QED
        BY <3>1, <3>2
  <2>3. HeadNamesABranch'
      BY <1>3, <2>1 DEF BranchInv, TypeOK, HeadNamesABranch, Known
  <2> QED
      BY <1>1, <2>1, <2>2, <2>3, Ended DEF BranchInv
<1> QED
    BY <1>2, <1>4, <1>5

-----------------------------------------------------------------------------
(* No branch is dropped.                                                   *)

\* The invariant holds wherever a command stops, whatever names are forked to and
\* whatever a copy leaves behind.
THEOREM BranchesInvariant == Spec => []BranchInv
<1>1. Init => BranchInv
    BY DEF Init, BranchInv, TypeOK, SoundBranch, RecordReads, HeadNamesABranch, Idle,
           Pcs, Manifests, At, SelectHas, ImportHas, ForkHas, SleepHas, WakeHas
<1>2. BranchInv /\ [Next]_vars => BranchInv'
  <2>1. ASSUME BranchInv, UNCHANGED vars PROVE BranchInv'
      BY <2>1 DEF vars, durable, branches, stores, BranchInv, TypeOK, SoundBranch,
             RecordReads, Openable, HeadNamesABranch, Known, IsAsleep, At,
             SelectHas, ImportHas, ForkHas, SleepHas, WakeHas
  <2>2. ASSUME BranchInv, Next PROVE BranchInv'
      BY <2>2, HeadKeeps, StopKeeps, ImportKeeps, SqlKeeps, ForkKeeps, SleepKeeps,
         WakeKeeps DEF Next
  <2> QED
      BY <2>1, <2>2
<1> QED
    BY <1>1, <1>2, PTL DEF Spec

\* What a branch holds can be read, whatever was reclaimed and wherever a sleep or a
\* wake stopped: from the tier by its record, from the pool without one, and from either
\* where the record is torn and the branch waits for it to be deleted (tier.rs,
\* Workspace::write_sleep_record).
THEOREM BranchesAreNotDropped == Spec => []NothingIsDropped
<1>1. BranchInv => NothingIsDropped
    BY DEF BranchInv, SoundBranch, NothingIsDropped
<1> QED
    BY <1>1, BranchesInvariant, PTL

\* A HEAD that names a branch names one that is there (Workspace::set_head).
THEOREM BranchesHeadIsNamed == Spec => []HeadNamesABranch
<1>1. BranchInv => HeadNamesABranch
    BY DEF BranchInv
<1> QED
    BY <1>1, BranchesInvariant, PTL

-----------------------------------------------------------------------------
(* The pool keeps NamedBranches' promise.                                  *)

Promised == [Promise!Next]_(Promise!vars)

\* A step that leaves what every branch holds, and where, is one NamedBranches ignores.
LEMMA Ignored ==
    ASSUME \A b \in Branches : Value(b)' = Value(b) /\ IsAsleep(b)' = IsAsleep(b)
    PROVE  Promised
    BY DEF Promised, Promise!vars, value, sleeping

\* A command that commits to an awake branch is a commit there, or nothing.
LEMMA CommitMaps ==
    ASSUME TypeOK, NEW b \in Branches, NEW v \in Contents, NEW m \in Manifests,
           b \in dirs, ~IsAsleep(b), m \in {log[b], Append(log[b], v)},
           log' = [log EXCEPT ![b] = m], dirs' = dirs, record' = record
    PROVE  Promised
<1>1. \A c \in Branches : IsAsleep(c)' = IsAsleep(c)
    BY DEF IsAsleep
<1>2. ASSUME NEW c \in Branches, c # b PROVE Value(c)' = Value(c)
    BY <1>2 DEF TypeOK, Value, RecordReads
<1>3. Value(b) = log[b] /\ Value(b)' = m
    BY DEF TypeOK, Value, RecordReads, IsAsleep
<1>4. CASE m = log[b]
    BY <1>1, <1>2, <1>3, <1>4, Ignored
<1>5. CASE m = Append(log[b], v)
  <2>1. value' = [value EXCEPT ![b] = Append(value[b], v)]
      BY <1>2, <1>3, <1>5 DEF value
  <2>2. value[b] # None /\ b \notin sleeping /\ sleeping' = sleeping
      BY <1>1, <1>3, Unreadable DEF value, sleeping, TypeOK
  <2> QED
      BY <2>1, <2>2 DEF Promised, Promise!Next, Promise!Commit, Promise!Awake
<1> QED
    BY <1>4, <1>5

\* What a snapshot commits is the head or one commit on it.
LEMMA CommittedIsOneMore ==
    ASSUME NEW m, NEW v
    PROVE  Committed(m, v) \in {m, Append(m, v)}
    BY DEF Committed

\* A step that only touches HEAD, the stores or the command itself.
LEMMA Bystander ==
    ASSUME UNCHANGED <<dirs, log, record>>
    PROVE  Promised
    BY Ignored DEF Value, RecordReads, IsAsleep

\* The commands that commit.
LEMMA CommitsMap ==
    ASSUME BranchInv,
           \/ \E t \in Tables : ImportCommit(t)
           \/ \E b \in Branches : SleepUpload(b) \/ \E v \in Contents : Sql(b, v)
           \/ \E p, c \in Branches : ForkBegin(p, c)
    PROVE  Promised
<1>1. ASSUME NEW t \in Tables, ImportCommit(t) PROVE Promised
  <2>1. PICK v : v = ContentOf(log[proc.branch]) \cup {t}
      OBVIOUS
  <2>2. PICK b : b = proc.branch
      OBVIOUS
  <2>3. b \in Branches /\ b \in dirs /\ ~IsAsleep(b) /\ log[b] \in Manifests
      BY <1>1, <2>2 DEF ImportCommit, BranchInv, TypeOK, ImportHas
  <2>4. v \in Contents
      BY <2>1, <2>2, <2>3, ContentType DEF Contents
  <2>5. Append(log[b], v) \in Manifests
      BY <2>3, <2>4, AppendProperties DEF Manifests
  <2>6. log' = [log EXCEPT ![b] = Append(log[b], v)] /\ dirs' = dirs /\ record' = record
      BY <1>1, <2>1, <2>2 DEF ImportCommit
  <2> QED
      BY <2>3, <2>4, <2>5, <2>6, CommitMaps DEF BranchInv
<1>2. ASSUME NEW b \in Branches, NEW v \in Contents,
             b \in dirs, ~IsAsleep(b), dirs' = dirs, record' = record,
             log' = [log EXCEPT ![b] = Committed(log[b], v)]
      PROVE  Promised
  <2>1. PICK m : m = Committed(log[b], v)
      OBVIOUS
  <2>2. m \in Manifests /\ m \in {log[b], Append(log[b], v)}
      BY <2>1, CommittedType, CommittedIsOneMore DEF BranchInv, TypeOK
  <2> QED
      BY <1>2, <2>1, <2>2, CommitMaps DEF BranchInv
<1>3. ASSUME NEW b \in Branches, NEW v \in Contents, Sql(b, v) PROVE Promised
    BY <1>2, <1>3 DEF Sql, Resolves, Known, IsAsleep
<1>4. \A b \in Branches : ContentOf(log[b]) \in Contents
    BY ContentType DEF BranchInv, TypeOK
<1>5. ASSUME NEW b \in Branches, SleepUpload(b) PROVE Promised
    BY <1>2, <1>4, <1>5 DEF SleepUpload, Resolves, Known, IsAsleep
<1>6. ASSUME NEW p \in Branches, NEW c \in Branches, ForkBegin(p, c) PROVE Promised
    BY <1>2, <1>4, <1>6 DEF ForkBegin, Resolves, Known, IsAsleep
<1> QED
    BY <1>1, <1>3, <1>5, <1>6

\* A directory that is made is a branch that is born, empty, unless a sleeping one has
\* the name.
LEMMA BirthMaps ==
    ASSUME BranchInv, NEW b \in Branches, record[b] # Torn,
           dirs' = dirs \cup {b}, UNCHANGED <<log, record>>
    PROVE  Promised
<1>1. \A c \in Branches : IsAsleep(c)' = IsAsleep(c)
    BY DEF IsAsleep
<1>2. ASSUME NEW c \in Branches, c # b PROVE Value(c)' = Value(c)
    BY <1>2 DEF Value, RecordReads
<1>3. CASE RecordReads(b) \/ b \in dirs
  <2>1. Value(b)' = Value(b)
      BY <1>3 DEF Value, RecordReads
  <2> QED
      BY <1>1, <1>2, <2>1, Ignored
<1>4. CASE ~RecordReads(b) /\ b \notin dirs
  <2>1. Value(b) = None /\ Value(b)' = <<>>
      BY <1>4 DEF Value, RecordReads, BranchInv, SoundBranch
  <2>2. value[b] = None /\ value' = [value EXCEPT ![b] = <<>>] /\ sleeping' = sleeping
      BY <1>1, <1>2, <2>1 DEF value, sleeping
  <2> QED
      BY <2>2 DEF Promised, Promise!Next, Promise!Create
<1> QED
    BY <1>3, <1>4

\* A fork that is recorded takes its parent's value, or changes nothing a sleeping
\* branch of that name shows.
LEMMA ForkMaps ==
    ASSUME BranchInv, NEW checkout \in BOOLEAN, ForkRecord(checkout)
    PROVE  Promised
<1>1. PICK b \in Branches, p \in Branches : b = proc.branch /\ p = proc.from
    BY DEF BranchInv, TypeOK
<1>2. /\ b \in dirs /\ p \in dirs /\ b # p /\ log[b] = <<>>
      /\ record[b] # Torn /\ record[p] = None
      /\ log' = [log EXCEPT ![b] = log[p]] /\ dirs' = dirs /\ record' = record
    BY <1>1 DEF ForkRecord, BranchInv, ForkHas, At, IsAsleep
<1>3. \A c \in Branches : IsAsleep(c)' = IsAsleep(c)
    BY <1>2 DEF IsAsleep
<1>4. log'[b] = log[p] /\ \A c \in Branches : c # b => log'[c] = log[c]
    BY <1>2 DEF BranchInv, TypeOK
<1>5. ASSUME NEW c \in Branches, c # b PROVE Value(c)' = Value(c)
    BY <1>2, <1>4, <1>5 DEF Value, RecordReads
<1>6. CASE record[b] # None
  <2>1. Value(b)' = Value(b)
      BY <1>2, <1>6 DEF Value, RecordReads
  <2> QED
      BY <1>3, <1>5, <2>1, Ignored
<1>7. CASE record[b] = None
  <2>1. Value(b) = <<>> /\ Value(p) = log[p] /\ Value(b)' = log[p]
      BY <1>2, <1>4, <1>7 DEF Value, RecordReads
  <2>2. value[b] = <<>> /\ value' = [value EXCEPT ![b] = value[p]]
      BY <1>5, <2>1 DEF value
  <2>3. value[p] # None /\ p \notin sleeping /\ sleeping' = sleeping
      BY <1>2, <1>3, <2>1, Unreadable DEF value, sleeping, IsAsleep, BranchInv, TypeOK
  <2> QED
      BY <2>2, <2>3 DEF Promised, Promise!Next, Promise!Fork, Promise!Awake
<1> QED
    BY <1>6, <1>7

\* Creating the record is the moment a branch falls asleep; the rest of a sleep shows
\* nothing, for the record names what the log did.
LEMMA SleepMaps ==
    ASSUME BranchInv, SleepStep
    PROVE  Promised
<1>1. PICK b \in Branches : b = proc.branch
    BY DEF BranchInv, TypeOK
<1>2. proc.m \in Manifests
    BY DEF BranchInv, TypeOK
<1>3. CASE RecordCreate
  <2>1. /\ b \in dirs /\ record[b] = None /\ log[b] = proc.m
        /\ record' = [record EXCEPT ![b] = Torn] /\ dirs' = dirs /\ log' = log
      BY <1>1, <1>3 DEF RecordCreate, BranchInv, SleepHas, At, IsAsleep
  <2>2. record'[b] = Torn /\ \A c \in Branches : c # b => record'[c] = record[c]
      BY <2>1 DEF BranchInv, TypeOK
  <2>3. \A c \in Branches : Value(c)' = Value(c)
      BY <2>1, <2>2 DEF Value, RecordReads
  <2>4. Value(b) = log[b]
      BY <2>1 DEF Value, RecordReads
  <2>5. sleeping' = sleeping \cup {b}
      BY <2>2, Unreadable DEF sleeping, IsAsleep
  <2>6. value' = value /\ value[b] # None /\ b \notin sleeping
      BY <1>2, <2>1, <2>3, <2>4, Unreadable DEF value, sleeping, IsAsleep
  <2> QED
      BY <2>5, <2>6 DEF Promised, Promise!Next, Promise!Sleep, Promise!Awake
<1>4. CASE RecordWrite
  <2>1. /\ b \in dirs /\ record[b] = Torn /\ log[b] = proc.m
        /\ record' = [record EXCEPT ![b] = proc.m] /\ dirs' = dirs /\ log' = log
      BY <1>1, <1>4 DEF RecordWrite, BranchInv, SleepHas, At
  <2>2. record'[b] = proc.m /\ \A c \in Branches : c # b => record'[c] = record[c]
      BY <2>1 DEF BranchInv, TypeOK
  <2>3. \A c \in Branches : Value(c)' = Value(c)
      BY <1>2, <2>1, <2>2, Unreadable DEF Value, RecordReads
  <2>4. \A c \in Branches : IsAsleep(c)' = IsAsleep(c)
      BY <1>2, <2>1, <2>2, Unreadable DEF IsAsleep
  <2> QED
      BY <2>3, <2>4, Ignored
<1>5. CASE RemoveSome \/ RemoveDir
  <2>1. record[b] = proc.m /\ record' = record
      BY <1>1, <1>5 DEF RemoveSome, RemoveDir, BranchInv, SleepHas, At
  <2>2. \A c \in Branches : c # b => log'[c] = log[c] /\ (c \in dirs' <=> c \in dirs)
      BY <1>1, <1>5 DEF RemoveSome, RemoveDir, BranchInv, TypeOK
  <2>3. \A c \in Branches : Value(c)' = Value(c)
      BY <1>2, <2>1, <2>2, Unreadable DEF Value, RecordReads
  <2> QED
      BY <2>1, <2>3, Ignored DEF IsAsleep
<1> QED
    BY <1>3, <1>4, <1>5 DEF SleepStep

\* Deleting the record is the moment a branch wakes: its log has what the record named.
LEMMA WakeMaps ==
    ASSUME BranchInv, WakeStep
    PROVE  Promised
<1>1. PICK b \in Branches : b = proc.branch
    BY DEF BranchInv, TypeOK
<1>2. proc.m \in Manifests /\ record[b] = proc.m
    BY <1>1 DEF WakeStep, WakeCopy, WakeAdopt, WakeOpen, WakeRestore, WakeForget,
                BranchInv, TypeOK, WakeHas, At
<1>3. CASE WakeCopy \/ WakeAdopt
    BY <1>3, Bystander DEF WakeCopy, WakeAdopt, branches
<1>4. CASE WakeOpen
    BY <1>1, <1>2, <1>4, BirthMaps, Unreadable DEF WakeOpen
<1>5. CASE WakeRestore
  <2>1. dirs' = dirs /\ record' = record
        /\ \A c \in Branches : c # b => log'[c] = log[c]
      BY <1>1, <1>5 DEF WakeRestore, BranchInv, TypeOK
  <2>2. \A c \in Branches : Value(c)' = Value(c)
      BY <1>2, <2>1, Unreadable DEF Value, RecordReads
  <2> QED
      BY <2>1, <2>2, Ignored DEF IsAsleep
<1>6. CASE WakeForget
  <2>1. /\ b \in dirs /\ log[b] = proc.m
        /\ record' = [record EXCEPT ![b] = None] /\ dirs' = dirs /\ log' = log
      BY <1>1, <1>6 DEF WakeForget, BranchInv, WakeHas, At
  <2>2. record'[b] = None /\ \A c \in Branches : c # b => record'[c] = record[c]
      BY <2>1 DEF BranchInv, TypeOK
  <2>3. \A c \in Branches : Value(c)' = Value(c)
      BY <1>2, <2>1, <2>2, Unreadable DEF Value, RecordReads
  <2>4. sleeping' = sleeping \ {b} /\ b \in sleeping
      BY <1>2, <2>2, Unreadable DEF sleeping, IsAsleep
  <2>5. value' = value
      BY <2>3 DEF value
  <2> QED
      BY <2>4, <2>5 DEF Promised, Promise!Next, Promise!Wake
<1> QED
    BY <1>3, <1>4, <1>5, <1>6 DEF WakeStep

\* Every behaviour of the command line is one of NamedBranches: a branch falls asleep or
\* wakes in one step that changes nothing it holds, and a command that dies anywhere has
\* done to branches what a whole one does, or nothing (tier.rs, branch.rs, import.rs).
THEOREM BranchesKeepTheirPromise == Spec => NamedBranchesSpec
<1>1. Init => Promise!Init
  <2> SUFFICES ASSUME Init PROVE Promise!Init
      OBVIOUS
  <2>1. \A b \in Branches : Value(b) = None /\ ~IsAsleep(b)
      BY DEF Init, Value, RecordReads, IsAsleep
  <2> QED
      BY <2>1 DEF Promise!Init, value, sleeping
<1>2. ASSUME BranchInv, [Next]_vars PROVE Promised
  <2>1. CASE Stop \/ Reclaim \/ SetHead \/ WriteHead
      BY <2>1, Bystander DEF Stop, Reclaim, SetHead, WriteHead, durable, branches
  <2>2. ASSUME NEW b \in Branches, Checkout(b) \/ WakeFetch(b) PROVE Promised
      BY <2>2, Bystander DEF Checkout, WakeFetch, durable, branches
  <2>3. ASSUME NEW b \in Branches, ImportOpen(b) PROVE Promised
      BY <1>2, <2>3, BirthMaps, Unreadable DEF ImportOpen, IsAsleep
  <2>4. CASE ForkLink
    <3>1. PICK b \in Branches : b = proc.branch
        BY <1>2 DEF BranchInv, TypeOK
    <3>2. record[b] # Torn /\ dirs' = dirs \cup {b} /\ UNCHANGED <<log, record>>
        BY <1>2, <2>4, <3>1 DEF ForkLink, BranchInv, ForkHas, At
    <3> QED
        BY <1>2, <3>2, BirthMaps
  <2>5. CASE UNCHANGED vars
      BY <2>5, Bystander DEF vars, durable, branches
  <2> QED
      BY <1>2, <2>1, <2>2, <2>3, <2>4, <2>5, CommitsMap, ForkMaps, SleepMaps, WakeMaps
      DEF Next
<1>3. BranchInv /\ [Next]_vars => [Promise!Next]_(Promise!vars)
    BY <1>2 DEF Promised
<1> QED
    BY <1>1, <1>3, BranchesInvariant, PTL DEF Spec, NamedBranchesSpec, Promise!Spec

=============================================================================
