------------------------------ MODULE MCWSHub ------------------------------
(* Small instances of WSHub for TLC. *)
EXTENDS WSHub, TLC

CONSTANTS c1, c2, d1

\* Connections differ in nothing but their names.
Alike == Permutations(Clients)
=============================================================================
