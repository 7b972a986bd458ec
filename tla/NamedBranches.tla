--------------------------- MODULE NamedBranches ---------------------------
(***************************************************************************)
(* What the `flock' command promises about branches, without saying how: a *)
(* branch is a name for a value, and only a command that says so changes   *)
(* the value of a name.  Putting a branch to sleep, waking it, checking it *)
(* out, and dying in the middle of any command change no value at all, and *)
(* a branch that is asleep takes no command but a wake.                    *)
(*                                                                         *)
(* CliBranches is shown to implement this module.                          *)
(***************************************************************************)
EXTENDS Sequences

CONSTANTS Branches,   \* names a branch may have
          Contents,   \* what a database file may contain
          Unborn      \* the value of a name no branch has

VARIABLES value,      \* value[b]: the commits of b, or Unborn
          asleep      \* the branches in object storage

vars == <<value, asleep>>

Init ==
    /\ value = [b \in Branches |-> Unborn]
    /\ asleep = {}

Awake(b) == value[b] # Unborn /\ b \notin asleep

Create(b) ==
    /\ value[b] = Unborn
    /\ value' = [value EXCEPT ![b] = <<>>]
    /\ UNCHANGED asleep

Commit(b, v) ==
    /\ Awake(b)
    /\ value' = [value EXCEPT ![b] = Append(value[b], v)]
    /\ UNCHANGED asleep

\* A new branch takes its parent's value; one that holds commits is never a target.
Fork(p, c) ==
    /\ Awake(p)
    /\ value[c] = <<>>
    /\ value' = [value EXCEPT ![c] = value[p]]
    /\ UNCHANGED asleep

Sleep(b) ==
    /\ Awake(b)
    /\ asleep' = asleep \cup {b}
    /\ UNCHANGED value

Wake(b) ==
    /\ b \in asleep
    /\ asleep' = asleep \ {b}
    /\ UNCHANGED value

Next ==
    \/ \E b \in Branches : Create(b) \/ Sleep(b) \/ Wake(b)
    \/ \E b \in Branches : \E v \in Contents : Commit(b, v)
    \/ \E p \in Branches : \E c \in Branches : Fork(p, c)

Spec == Init /\ [][Next]_vars
=============================================================================
