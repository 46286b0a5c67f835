----------------------------- MODULE MCMsgPool -----------------------------
(* Small instances of MsgPool. *)
EXTENDS MsgPool, TLC
CONSTANTS a, b, s
=============================================================================
