---------------------------- MODULE MCPrintPath ----------------------------
(* Small instances of PrintPath for TLC. *)
EXTENDS PrintPath, TLC

CONSTANTS r1, r2

\* Two requests that differ in nothing but their names.
Alike == Permutations({r1, r2})
=============================================================================
