---------------------------- MODULE MCGraphExec ----------------------------
(* Small instances of GraphExec for TLC. *)
EXTENDS GraphExec

CONSTANTS s1, s2

MCSets == {s1, s2}
=============================================================================
