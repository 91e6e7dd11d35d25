------------------------- MODULE MCRopeAppendTokens -------------------------
(* Small metadata for RopeAppendTokens: every table around its bounds with    *)
(* one good map, and a good table with every map around its bounds.          *)
EXTENDS RopeAppendTokens

Of(indptrs, indices, lasts) ==
  [batch : {2}, count : {4}, indptr : indptrs, indices : indices, last : lasts]

GoodIndptrs == {[i \in 0 .. 2 |-> 2 * i]}
GoodIndices == {[p \in 0 .. 3 |-> p % 3]}
GoodLasts == {[r \in 0 .. 1 |-> 1]}
GoodMap == [i \in 0 .. 2 |-> [request |-> IF i = 0 THEN 0 ELSE 1, position |-> i]]

MCMetadata ==
  (  Of([0 .. 2 -> {-1, 0, 1, 2, 4, 5}], GoodIndices, GoodLasts)
     \cup Of(GoodIndptrs, [0 .. 3 -> -1 .. 3], GoodLasts)
     \cup Of(GoodIndptrs, GoodIndices, [0 .. 1 -> 0 .. 3])) \X {GoodMap}
  \cup
  Of(GoodIndptrs, GoodIndices, GoodLasts) \X
    (  [0 .. 2 -> [request : 0 .. 1, position : 0 .. 3]]
       \cup [0 .. 2 -> [request : {-1, 0, 2}, position : {-1, 0, 2}]])
=============================================================================
