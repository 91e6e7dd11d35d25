---------------------------- MODULE MCRopeAppend ----------------------------
(* Small metadata for RopeAppend: two requests with every indptr, two         *)
(* requests with every page index and last length around its bounds, and     *)
(* three requests with every choice of valid final slots, duplicates too.    *)
EXTENDS RopeAppend

MCTables ==
  [batch : {2}, count : {3}, indptr : [0 .. 2 -> -1 .. 4],
   indices : {[p \in 0 .. 2 |-> p % 2]}, last : [0 .. 1 -> 1 .. 2]]
  \cup
  [batch : {2}, count : {3},
   indptr : {f \in [0 .. 2 -> 0 .. 3] : f[0] = 0 /\ f[1] \in 1 .. 2 /\ f[2] = 3},
   indices : [0 .. 2 -> -1 .. 2], last : [0 .. 1 -> 0 .. 3]]
  \cup
  [batch : {3}, count : {3}, indptr : {[i \in 0 .. 3 |-> i]},
   indices : [0 .. 2 -> 0 .. 1], last : [0 .. 2 -> 1 .. 2]]
=============================================================================
