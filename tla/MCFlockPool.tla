---------------------------- MODULE MCFlockPool ----------------------------
(* FlockPool for TLC: handles are interchangeable. *)
EXTENDS FlockPool, TLC

HandleSymmetry == Permutations(Handles)
=============================================================================
