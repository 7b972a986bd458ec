---------------------------- MODULE ReadReplica ----------------------------
(***************************************************************************)
(* What a read replica promises, without saying how it gets there.  A      *)
(* primary commits manifests, each on top of the one it is at, and may go  *)
(* back to any of them.  A follower walks that tree from the root, one     *)
(* commit at a time and never back; queries see a place it has walked      *)
(* through, and move on only by being shown where it is.                   *)
(*                                                                         *)
(* There are no logs, polls, shipments or crashes here: none of them may   *)
(* be noticed.  WalShipping is shown to implement this module.             *)
(***************************************************************************)
EXTENDS Naturals, Sequences

CONSTANT Entries    \* what one commit adds to the manifest under it

VARIABLES committed,  \* every manifest the primary has ever been at
          pHead,      \* the one it is at
          head,       \* the one the follower is at
          visible     \* the one its queries see

vars == <<committed, pHead, head, visible>>

Init ==
    /\ committed = {<<>>}
    /\ pHead = <<>>
    /\ head = <<>>
    /\ visible = <<>>

Commit(e) ==
    /\ committed' = committed \cup {Append(pHead, e)}
    /\ pHead' = Append(pHead, e)
    /\ UNCHANGED <<head, visible>>

Rewind(m) ==
    /\ pHead' = m
    /\ UNCHANGED <<committed, head, visible>>

\* The manifest a commit was made on.
Parent(m) == SubSeq(m, 1, Len(m) - 1)

Advance(m) ==
    /\ m # <<>>
    /\ head = Parent(m)
    /\ head' = m
    /\ UNCHANGED <<committed, pHead, visible>>

Show ==
    /\ visible' = head
    /\ UNCHANGED <<committed, pHead, head>>

Next ==
    \/ Show
    \/ \E m \in committed : Rewind(m) \/ Advance(m)
    \/ \E e \in Entries : Commit(e)

Spec == Init /\ [][Next]_vars
=============================================================================
