--------------------------- MODULE MCKernelLaunch ---------------------------
(***************************************************************************)
(* Jobs of every family and algorithm: all valid metadata of small shapes, *)
(* and metadata with wrong ends, order, lengths and pages.                 *)
(***************************************************************************)
EXTENDS KernelLaunch

\* Arrays of three ends, the middle one anywhere.
Indptr(first, middle, last) == {0 :> a @@ 1 :> b @@ 2 :> c : a \in first, b \in middle, c \in last}

RaggedSpec(q, k, h, g) ==
  [batch |-> 2, nnzQo |-> q, nnzKv |-> k, queryHeads |-> h, kvHeads |-> g]

\* Direct, sixteen warps, and tiled grouped queries.
RaggedJobs ==
  {[family |-> "ragged", s |-> s, m |-> [qo |-> qo, kv |-> kv]] :
     s \in {RaggedSpec(3, 5, 2, 2), RaggedSpec(3, 7, 1, 1), RaggedSpec(3, 11, 2, 1)},
     qo \in Indptr({0, 1}, -1 .. 4, {3, 4}), kv \in Indptr({0}, -1 .. 12, {5, 7, 11})}

\* Tiled: several tiles of a request, two KV heads, the longest partitions.
TiledJobs ==
  {[family |-> "ragged", s |-> RaggedSpec(5, 16, 4, 2), m |-> [qo |-> qo, kv |-> kv]] :
     qo \in Indptr({0}, 1 .. 5, {5}), kv \in Indptr({0}, 1 .. 16, {16})}

Table(ptr, pages, last) ==
  [batch |-> 2, count |-> 3, indptr |-> ptr, indices |-> pages, last |-> last]
Tables ==
  {Table(ptr, pages, last) :
     ptr \in Indptr({0, 1}, -1 .. 4, {3, 2}), pages \in [0 .. 2 -> {0, 2, 3}],
     last \in [0 .. 1 -> 1 .. 3]}

DecodeJobs ==
  {[family |-> "paged_decode", m |-> [table |-> t],
    s |-> [batch |-> 2, nnzQo |-> 2, queryHeads |-> 2, kvHeads |-> g]] :
     t \in Tables, g \in {1, 2}}

\* Eight and sixteen warps.
PagedJobs ==
  {[family |-> "paged", m |-> [qo |-> qo, table |-> Table(ptr, pages, last)],
    s |-> [batch |-> 2, nnzQo |-> 3, queryHeads |-> 2, kvHeads |-> g]] :
     g \in {1, 2}, qo \in Indptr({0}, 0 .. 4, {3, 2}), ptr \in Indptr({0}, 0 .. 3, {3, 2}),
     pages \in {[p \in 0 .. 2 |-> (p + 1) % 3], 0 :> 2 @@ 1 :> 3 @@ 2 :> 0, 0 :> 1 @@ 1 :> 0 @@ 2 :> -1},
     last \in {0 :> 1 @@ 1 :> 2, 0 :> 2 @@ 1 :> 1, 0 :> 2 @@ 1 :> 0}}

\* One warp: so many requests that their average capacity is short.
PagedDirectJobs ==
  {[family |-> "paged", s |-> [batch |-> 3, nnzQo |-> 4, queryHeads |-> 2, kvHeads |-> 1],
    m |-> [qo |-> 0 :> 0 @@ 1 :> a @@ 2 :> b @@ 3 :> 4,
           table |-> [batch |-> 3, count |-> 3, indptr |-> [i \in 0 .. 3 |-> i],
                      indices |-> pages, last |-> last]]] :
     a \in 0 .. 3, b \in 1 .. 4, pages \in [0 .. 2 -> {0, 2, 3}], last \in [0 .. 2 -> 1 .. 2]}

\* Token-parallel states whose warps have two tokens and more.
Long(n) == [batch |-> 1, count |-> 6, indptr |-> 0 :> 0 @@ 1 :> 6,
            indices |-> [p \in 0 .. 5 |-> (2 * p) % 3], last |-> 0 :> n]
LongJobs ==
  {[family |-> "ragged", s |-> RaggedSpec(3, 40, 1, 1),
    m |-> [qo |-> 0 :> 0 @@ 1 :> 1 @@ 2 :> 3, kv |-> 0 :> 0 @@ 1 :> n @@ 2 :> 40]] :
     n \in 1 .. 38}
  \cup {[family |-> "paged_decode", m |-> [table |-> Long(n)],
         s |-> [batch |-> 1, nnzQo |-> 1, queryHeads |-> 2, kvHeads |-> 1]] : n \in 1 .. 2}
  \cup {[family |-> "paged", m |-> [qo |-> 0 :> 0 @@ 1 :> 3, table |-> Long(n)],
         s |-> [batch |-> 1, nnzQo |-> 3, queryHeads |-> 2, kvHeads |-> 2]] : n \in 1 .. 2}

SingleJobs ==
  {[family |-> f, m |-> <<>>,
    s |-> [batch |-> 1, nnzQo |-> 1, queryHeads |-> 2, kvHeads |-> g, kvLen |-> n, partitions |-> p]] :
     f \in {"single", "split_k"}, g \in {1, 2}, n \in 1 .. 8, p \in 0 .. 8}

\* Hidden sizes below, at and above the block's width, odd and even.
RmsJobs ==
  {[family |-> "rms_norm", s |-> [rows |-> r, hidden |-> h, dtype |-> d],
    m |-> [plan |-> "bf16", aligned |-> a]] :
     r \in 1 .. 3, h \in 1 .. 11, d \in {"bf16", "f16"}, a \in BOOLEAN}
  \cup {[family |-> "rms_norm", s |-> [rows |-> 2, hidden |-> h, dtype |-> "f32"],
         m |-> [plan |-> "f32", aligned |-> FALSE]] : h \in 1 .. 11}

RopeJobs ==
  {[family |-> "rope", s |-> [tokens |-> 3, queryHeads |-> q, keyHeads |-> k], m |-> m] :
     q \in 1 .. 3, k \in 1 .. 2, m \in [0 .. 2 -> {-1, 0, 7}]}

MCJobs == RmsJobs \cup RopeJobs \cup RaggedJobs \cup TiledJobs \cup DecodeJobs \cup PagedJobs \cup PagedDirectJobs
          \cup LongJobs \cup SingleJobs

\* Invalid ends for every ragged algorithm.
MCSentinelJobs == RaggedJobs

\* The shapes of the code, eight warps for two KV heads.
MCPlanJobs ==
  {[family |-> "ragged", s |-> RaggedSpec(2, 2 * n, h, g),
    m |-> [qo |-> [i \in 0 .. 2 |-> i], kv |-> [i \in 0 .. 2 |-> i * n]]] :
     n \in {63, 64}, h \in {2}, g \in {1, 2}}
=============================================================================
