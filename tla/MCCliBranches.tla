--------------------------- MODULE MCCliBranches ---------------------------
(* Three branches, of which all but the first are alike. *)
EXTENDS CliBranches, TLC

Alike == Permutations(Branches \ {Main})
=============================================================================
