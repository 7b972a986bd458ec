----------------------------- MODULE MCTiering -----------------------------
(* Three files over two bytes and pages of two bytes: one short page, a short *)
(* last page, and an exact multiple, so that files grow, shrink to and past a *)
(* page boundary, and share pages.                                           *)
EXTENDS Tiering

MCFiles == {<<0>>, <<0, 1, 0>>, <<0, 1, 0, 1>>}
MCBlank == <<0>>
=============================================================================
