----------------------------- MODULE MCExchange -----------------------------
(* Small instances of Exchange. *)
EXTENDS Exchange, TLC
CONSTANTS s1, s2, a, b
=============================================================================
