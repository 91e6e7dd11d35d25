--------------------------- MODULE MCCommandQueue ---------------------------
(* Small instances of CommandQueue for TLC. *)
EXTENDS CommandQueue

CONSTANTS s1, s2, other     \* two sets of this queue, one of another queue

MCSets == {s1, s2, other}
MCForeignSets == {other}
=============================================================================
