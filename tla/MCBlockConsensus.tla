-------------------------- MODULE MCBlockConsensus --------------------------
(* Two warps of two lanes for TLC: a leader and another lane in each. *)
EXTENDS BlockConsensus
=============================================================================
