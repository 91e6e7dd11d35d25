--------------------------- MODULE RaggedPrefill ---------------------------
(***************************************************************************)
(* Ragged causal prefill: the host contract of its metadata                *)
(* (crates/loom-infer/src/attention/ragged_prefill), the plan's choice of  *)
(* an algorithm, and the kernels of each algorithm, CTA by CTA             *)
(* (crates/loom-infer-cuda/src/attention/prefill.rs).                      *)
(*                                                                         *)
(* A specification s has batch, nnzQo, nnzKv, queryHeads and kvHeads.      *)
(* Metadata m has the indptr arrays qo and kv, any i32.  A K/V row is      *)
(* <<position in its request, row of the buffer, KV head>>.                *)
(***************************************************************************)
EXTENDS AttentionShape

CONSTANTS
  TiledQueryRows,      \* query rows of a tile (16)
  TiledKvRows,         \* K/V rows of a staged tile (64)
  TiledPartitions,     \* causal partitions (8)
  TiledGqaGroupSize,   \* query heads of a KV head in the tiled kernel (4)
  TiledMin             \* average KV length from which GQA is tiled (256)

ASSUME RaggedPrefillAssumption ==
  /\ TiledQueryRows \in Nat \ {0} /\ TiledKvRows \in Nat \ {0}
  /\ TiledPartitions \in Nat \ {0} /\ TiledGqaGroupSize \in Nat \ {0}
  /\ TiledMin \in Nat
-----------------------------------------------------------------------------
(* The host contract *)

\* Bf16RaggedPrefillSpec::new, overflow aside.
RaggedAdmitted(s) == Admitted(s) /\ s.nnzKv > 0

\* validate_metadata
ValidRagged(s, m) ==
  /\ ValidIndptr(m.qo, s.batch, s.nnzQo)
  /\ ValidIndptr(m.kv, s.batch, s.nnzKv)
  /\ \A r \in 0 .. s.batch - 1 : Span(m.qo, r) <= Span(m.kv, r)

RaggedTokens(m, r, kvHead, count) ==
  [p \in 0 .. count - 1 |-> <<p, m.kv[r] + p, kvHead>>]

\* ragged_prefill_bf16_reference: a row of request r over its causal tokens.
RaggedReference(s, m, r, row, head) ==
  LET count == CausalCount(Span(m.qo, r), Span(m.kv, r), row - m.qo[r])
  IN All(RaggedTokens(m, r, KvHead(s, head), count))
-----------------------------------------------------------------------------
(* The plan *)

\* ragged_prefill_algorithm
RaggedAlgorithm(s) ==
  LET average == s.nnzKv \div s.batch
  IN CASE GroupSize(s) = TiledGqaGroupSize /\ average >= TiledMin -> "TiledGqa4"
       [] OTHER -> CASE average < TokenParallelMin -> "Direct"
                     [] OTHER -> IF s.kvHeads = 1 THEN "TokenParallel16"
                                                  ELSE "TokenParallel8"

\* Threads of a block that a kernel's launch contract fixes.
RaggedContractThreads ==
  [Direct |-> 32, TokenParallel8 |-> 128, TokenParallel16 |-> 512, TiledGqa4 |-> 128]

\* Query tiles, were each request to end in a partly filled one.
TileBound(s) ==
  (CeilDiv(s.nnzQo, TiledQueryRows) + s.batch - 1) * s.kvHeads * TiledPartitions

\* plan_bf16_ragged: prepare_* refuses a block that is not the contract's.
RaggedPlanned(s) ==
  LET a == RaggedAlgorithm(s)
  IN /\ BlockThreads(a) = RaggedContractThreads[a]
     /\ States(s) <= GridLimit
     /\ a = "TiledGqa4" => TileBound(s) <= GridLimit
-----------------------------------------------------------------------------
(* One warp, or the warps of a block, per query row and head *)

\* i as usize: a negative i is larger than any row.
Below(row, i) == i < 0 \/ row < i

\* The first request whose end is above the row, or batch.
RaggedRequest(s, m, row) ==
  Min({r \in 0 .. s.batch - 1 : Below(row, m.qo[r + 1])} \cup {s.batch})

RaggedEndpoints(s, m) ==
  /\ m.qo[0] = 0 /\ m.kv[0] = 0
  /\ m.qo[s.batch] = s.nnzQo /\ m.kv[s.batch] = s.nnzKv

\* mutant: the end of the K/V range is not compared with the buffer
RequestInBoundsLoose(s, m, r) ==
  /\ 0 <= m.qo[r] /\ m.qo[r] < m.qo[r + 1] /\ m.qo[r + 1] <= s.nnzQo
  /\ 0 <= m.kv[r] /\ m.kv[r] < m.kv[r + 1]
  /\ Span(m.qo, r) <= Span(m.kv, r)

\* A request's own ranges are within the buffers and long enough.
RequestInBounds(s, m, r) ==
  /\ 0 <= m.qo[r] /\ m.qo[r] < m.qo[r + 1] /\ m.qo[r + 1] <= s.nnzQo
  /\ 0 <= m.kv[r] /\ m.kv[r] < m.kv[r + 1] /\ m.kv[r + 1] <= s.nnzKv
  /\ Span(m.qo, r) <= Span(m.kv, r)

\* What every thread of the state's CTA decides.
RaggedAccepts(s, m, row) ==
  LET r == RaggedRequest(s, m, row)
  IN /\ r < s.batch
     /\ RaggedEndpoints(s, m)
     /\ RequestInBounds(s, m, r)
     /\ m.qo[r] <= row /\ row < m.qo[r + 1]

\* The tokens of a state.
CausalTokens(s, m, row, head) ==
  LET r == RaggedRequest(s, m, row)
  IN RaggedTokens(m, r, KvHead(s, head),
                  CausalCount(Span(m.qo, r), Span(m.kv, r), row - m.qo[r]))

\* The store of a state's result, unless the guards turn it away.
RaggedState(s, m, row, head, state) ==
  IF ~RaggedAccepts(s, m, row) THEN NoEffect
  ELSE [reads  |-> All(CausalTokens(s, m, row, head)),
        writes |-> {Write(Output(row, head), Normalized(state))}]

\* ragged_prefill_bf16_nhd_causal
RaggedDirect(s, m, row, head) ==
  RaggedState(s, m, row, head, Weigh(All(CausalTokens(s, m, row, head)), "finite"))

\* ragged_prefill_bf16_nhd_causal_token_parallel_impl
RaggedTokenParallel(warps, s, m, row, head) ==
  RaggedState(s, m, row, head,
              MergeNonEmpty(SharedStates(warps, CausalTokens(s, m, row, head))))
-----------------------------------------------------------------------------
(* Tiled grouped-query attention: a CTA takes one tile of query rows, one KV  *)
(* head and one partition of the causal tokens; a second kernel merges.       *)

Tiles(m, r) == CeilDiv(Span(m.qo, r), TiledQueryRows)

\* Tiles of the requests before r.
TilesBefore(m, r) ==
  LET before[q \in 0 .. r] == IF q = 0 THEN 0 ELSE before[q - 1] + Tiles(m, q - 1)
  IN before[r]

\* The loop over the requests stops at the first one out of bounds, or at the
\* one that holds the tile: then [request, first query of the tile].
NoTile == <<>>
LocateTile(s, m, tile) ==
  LET bad == {q \in 0 .. s.batch - 1 : ~RequestInBounds(s, m, q)}
      good == 0 .. Min(bad \cup {s.batch}) - 1
      holding == {q \in good : /\ TilesBefore(m, q) <= tile
                               /\ tile < TilesBefore(m, q) + Tiles(m, q)}
  IN IF ~RaggedEndpoints(s, m) \/ holding = {} THEN NoTile
     ELSE LET r == Min(holding)
          IN [request |-> r, first |-> (tile - TilesBefore(m, r)) * TiledQueryRows]

\* The first token of each K/V tile a CTA stages, in order.
KvTileStarts(range) ==
  [i \in 1 .. CeilDiv(Cardinality(range), TiledKvRows) |-> Min(range) + (i - 1) * TiledKvRows]

\* load_tiled_kv_async!: rows past the partition are filled with zeros, from
\* its last row.
StagedFrom(start, range) == {Min({p, Max(range)}) : p \in start .. start + TiledKvRows - 1}

\* mutant: the padding of a partial tile is weighed too
ScoredPadding(start, range, causalEnd) ==
  start .. Min({start + TiledKvRows, causalEnd}) - 1

\* tiled_mask_score: the tokens of a staged tile that a packed row weighs.
Scored(start, range, causalEnd) ==
  start .. Min({start + TiledKvRows, causalEnd, Max(range) + 1}) - 1

\* One tile's update of a row's max, sum and output.  A row without a score
\* keeps its state: the scale of an empty one is 0.0, never ex2 of two
\* infinities.
TileUpdate(acc, scored) ==
  IF scored = {} THEN acc
  ELSE IF Empty(acc) THEN Weigh(scored, "-inf") ELSE Combine(acc, Weigh(scored, "-inf"))

\* mutant: the rows of the last tile run into the next request
PackedRowsUnclipped(s, kvHead, first, qoLen) ==
  {[query |-> q, head |-> kvHead * TiledGqaGroupSize + g] :
     q \in first .. first + TiledQueryRows - 1, g \in 0 .. TiledGqaGroupSize - 1}

\* The packed rows of a tile that hold a query, as [query, head].
PackedRows(s, kvHead, first, qoLen) ==
  {[query |-> q, head |-> kvHead * TiledGqaGroupSize + g] :
     q \in first .. Min({first + TiledQueryRows, qoLen}) - 1,
     g \in 0 .. TiledGqaGroupSize - 1}

\* The loop over the K/V tiles of a partition, for one packed row.
TileState(tokens, range, causalEnd) ==
  LET step(acc, start) == TileUpdate(acc, Pick(tokens, Scored(start, range, causalEnd)))
  IN FoldLeft(step, Weigh({}, "-inf"), KvTileStarts(range))

\* ragged_prefill_bf16_nhd_causal_tiled_gqa4
TiledPartials(s, m, block) ==
  LET partition == block % TiledPartitions
      kvHead == (block \div TiledPartitions) % s.kvHeads
      at == LocateTile(s, m, block \div (TiledPartitions * s.kvHeads))
  IN IF at = NoTile THEN NoEffect
     ELSE
     LET r == at.request
         qoLen == Span(m.qo, r)
         kvLen == Span(m.kv, r)
         lastQuery == Min({at.first + TiledQueryRows, qoLen})
         range == Share(kvLen - qoLen + lastQuery, TiledPartitions, partition)
         tokens == RaggedTokens(m, r, kvHead, kvLen)
     IN [reads  |-> Pick(tokens, UNION {StagedFrom(t, range) : t \in Range(KvTileStarts(range))}),
         writes |-> {Write(Partial(m.qo[r] + p.query, p.head, partition),
                           TileState(tokens, range, CausalCount(qoLen, kvLen, p.query))) :
                     p \in PackedRows(s, kvHead, at.first, qoLen)}]

\* ragged_prefill_bf16_nhd_causal_tiled_gqa4_merge: no look at the metadata.
TiledMerge(row, head, workspace) ==
  LET partials == [i \in 1 .. TiledPartitions |-> workspace[Partial(row, head, i - 1)]]
  IN [reads  |-> {},
      writes |-> {Write(Output(row, head), Normalized(MergeNonEmpty(partials)))}]
=============================================================================
