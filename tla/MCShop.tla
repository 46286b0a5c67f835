------------------------------- MODULE MCShop -------------------------------
(* Small instances of Shop. *)
EXTENDS Shop, TLC
CONSTANTS a, b, s1, s2
=============================================================================
