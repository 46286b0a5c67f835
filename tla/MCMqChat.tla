------------------------------ MODULE MCMqChat ------------------------------
(* Small instances of MqChat. *)
EXTENDS MqChat, TLC
CONSTANTS a, b
=============================================================================
