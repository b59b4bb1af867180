--------------------------- MODULE MCScaleClient ---------------------------
(* Small instances of ScaleClient for TLC. *)
EXTENDS ScaleClient, TLC

CONSTANTS h1, h2, r1, r2, w1, w2

MCOp == [p \in Http \cup Ws |->
           CASE p \in {r1, w1} -> "weigh" [] p = r2 -> "adjust" [] OTHER -> "health"]

\* Handles of the same device are interchangeable.
Symmetry == Permutations(Handles)
=============================================================================
