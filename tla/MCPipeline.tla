----------------------------- MODULE MCPipeline -----------------------------
(* Small instances of Pipeline. *)
EXTENDS Pipeline, TLC
\* All lines of up to n commands.
Upto(n) == UNION {[1..k -> Programs] : k \in 0..n}
LinesOfThree == Upto(3)
=============================================================================
