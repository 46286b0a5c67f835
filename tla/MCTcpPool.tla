----------------------------- MODULE MCTcpPool -----------------------------
(* Small instances of TcpPool; clients are interchangeable. *)
EXTENDS TcpPool, TLC
CONSTANTS a, b, c3
Symmetry == Permutations(Clients)
=============================================================================
