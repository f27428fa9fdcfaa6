--------------------------- MODULE MCTokenVersion ---------------------------
(* Instances of TokenVersion for TLC. *)
EXTENDS TokenVersion

CONSTANTS r1, r2, r3
=============================================================================
