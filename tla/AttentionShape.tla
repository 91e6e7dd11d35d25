--------------------------- MODULE AttentionShape ---------------------------
(***************************************************************************)
(* What the attention contracts and kernels share: the shape of a          *)
(* specification, ranges of an indptr array, the causal mask, and the      *)
(* threads a plan asks for.                                                *)
(*                                                                         *)
(* A specification s has batch, nnzQo (query rows), queryHeads and         *)
(* kvHeads, and what its family adds.                                      *)
(***************************************************************************)
EXTENDS Softmax, FiniteSetsExt

CONSTANTS
  TokenParallelMin,    \* average KV length from which warps share a state (64)
  GridLimit            \* largest grid dimension (2^32 - 1)

ASSUME AttentionShapeAssumption == TokenParallelMin \in Nat /\ GridLimit \in Nat

Admitted(s) ==
  /\ s.batch > 0 /\ s.nnzQo > 0 /\ s.queryHeads > 0 /\ s.kvHeads > 0
  /\ s.queryHeads % s.kvHeads = 0

GroupSize(s) == s.queryHeads \div s.kvHeads
KvHead(s, head) == head \div GroupSize(s)
States(s) == s.nnzQo * s.queryHeads

CeilDiv(a, b) == (a + b - 1) \div b
Span(ptr, r) == ptr[r + 1] - ptr[r]

\* validate_indptr, validate_query_indptr: every request has a row, and the
\* rows add up.
ValidIndptr(ptr, batch, total) ==
  /\ ptr[0] = 0
  /\ \A r \in 0 .. batch - 1 : ptr[r] < ptr[r + 1]
  /\ ptr[batch] = total

\* causal_kv_end, from the request's first token: bottom-right alignment.
CausalCount(qoLen, kvLen, index) == kvLen - qoLen + index + 1

\* Warps of a block, by algorithm.
Warps == [Direct |-> 1, TokenParallel8 |-> 8, TokenParallel16 |-> 16, TiledGqa4 |-> 4]
BlockThreads(algorithm) == 32 * Warps[algorithm]

\* The tokens of a state are a function from positions 0 .. count - 1 to the
\* K/V rows that hold them.
Pick(tokens, positions) == {tokens[p] : p \in positions}
All(tokens) == Pick(tokens, DOMAIN tokens)

\* What warp 0 of a token-parallel kernel merges: the partial state of each
\* warp, over its share of the tokens.
SharedStates(warps, tokens) ==
  [w \in 1 .. warps |->
    Weigh(Pick(tokens, Share(Cardinality(DOMAIN tokens), warps, w - 1)), "-inf")]
=============================================================================
