----------------------------- MODULE RowKernels -----------------------------
(***************************************************************************)
(* The kernels with a CTA per row: RMSNorm                                 *)
(* (crates/loom-infer-cuda/src/rms_norm) and standard RoPE with explicit   *)
(* positions (crates/loom-infer-cuda/src/rope), with their plans and the   *)
(* contracts of crates/loom-infer/src/rms_norm and rope.                   *)
(*                                                                         *)
(* A value is the term that was computed: which elements of the inputs     *)
(* went into it, and how often.  Buffers are flat: an element's place in   *)
(* its tensor comes from its index.                                        *)
(***************************************************************************)
EXTENDS AttentionShape

CONSTANTS
  RmsWarps,     \* warps of an RMSNorm block (8)
  Lanes,        \* threads of a warp (32)
  HeadDim       \* components of a head that RoPE rotates (128)

ASSUME RowKernelsAssumption ==
  /\ RmsWarps \in Nat \ {0} /\ Lanes \in Nat \ {0}
  /\ HeadDim \in Nat \ {0} /\ HeadDim % 2 = 0

(* RMSNorm.  A specification has rows, hidden and dtype. *)

\* RmsNormSpec::new
RmsAdmitted(s) == s.rows > 0 /\ s.hidden > 0

\* mutant: pairs for odd hidden sizes too
RmsPackedAlways(s) == s.dtype # "f32" /\ s.hidden >= 2

\* Low precision is loaded by pairs if the hidden size is even.
RmsPacked(s) == s.dtype # "f32" /\ s.hidden % 2 = 0

\* plan_f32, plan_f16, plan_bf16, and the alignment that enqueue_into asks for.
RmsPlanned(s, m) ==
  /\ s.dtype = m.plan
  /\ s.rows <= GridLimit
  /\ RmsPacked(s) => m.aligned

\* rms_norm_reference
RmsResult(s, row, column, squares) ==
  Write(Output(row, column),
        [input |-> row * s.hidden + column, weight |-> column, squares |-> squares])
RmsReference(s) ==
  {RmsResult(s, row, column,
             SetToBag({row * s.hidden + c : c \in 0 .. s.hidden - 1})) :
     row \in 0 .. s.rows - 1, column \in 0 .. s.hidden - 1}

\* The elements, or pairs, of a row that a thread takes, a block's width apart.
Stride(thread, count) == {i \in 0 .. count - 1 : i % (RmsWarps * Lanes) = thread}

\* The elements of all the bags.
Total(bags) == FoldFunction(LAMBDA bag, sum : bag (+) sum, EmptyBag, bags)

\* reduce_inverse_rms_with_epsilon: the lanes of a warp, then the warps.
BlockSum(squares) ==
  Total([w \in 0 .. RmsWarps - 1 |-> Total([l \in 0 .. Lanes - 1 |-> squares[w * Lanes + l]])])

Threads == 0 .. RmsWarps * Lanes - 1

\* A row's CTA; elements[thread] are the flat indices that a thread owns.
RmsRow(s, row, first, elements) ==
  LET sum == BlockSum([t \in Threads |-> SetToBag(elements[t])])
      owned == UNION {elements[t] : t \in Threads}
  IN [reads  |-> owned,
      writes |-> {Write(Output(i \div s.hidden, i % s.hidden),
                        [input |-> i, weight |-> i - first, squares |-> sum]) : i \in owned}]

\* rms_norm_f32, rms_norm_f16_scalar, rms_norm_bf16_scalar
RmsScalar(s, row) ==
  RmsRow(s, row, row * s.hidden,
         [t \in Threads |-> {row * s.hidden + c : c \in Stride(t, s.hidden)}])

\* rms_norm_f16_packed2, rms_norm_bf16_packed2
RmsPacked2(s, row) ==
  LET pairs == s.hidden \div 2
      first(p) == 2 * (row * pairs + p)
  IN RmsRow(s, row, first(0),
            [t \in Threads |-> UNION {{first(p), first(p) + 1} : p \in Stride(t, pairs)}])
-----------------------------------------------------------------------------
(* RoPE.  A specification has tokens, queryHeads and keyHeads; metadata has   *)
(* the position of each token.                                                *)

\* Bf16RopePosIdsSpec::new, for the head size that a plan takes.
RopeAdmitted(s) == s.tokens > 0 /\ s.queryHeads > 0 /\ s.keyHeads > 0
RopeStates(s) == s.tokens * (s.queryHeads + s.keyHeads)

\* plan_bf16_pos_ids
RopePlanned(s) == RopeStates(s) <= GridLimit

Half == HeadDim \div 2
RopeHeads(s, tensor) == IF tensor = "query" THEN s.queryHeads ELSE s.keyHeads

\* One component: of the first half, first * cos - second * sin, or else
\* second * cos + first * sin.
Rotated(position, pair, first, second, half) ==
  [position |-> position, pair |-> pair, first |-> first, second |-> second, half |-> half]

\* A head of a token, rotated by pairs of components half a head apart.
RotatedHead(s, m, token, tensor, head) ==
  LET base == (token * RopeHeads(s, tensor) + head) * HeadDim
  IN {Write(Output(token, <<tensor, head, half * Half + pair>>),
            Rotated(m[token], pair, base + pair, base + Half + pair, half)) :
        pair \in 0 .. Half - 1, half \in {0, 1}}

\* rotate_tensor, for the tokens of `tokens`.
RopeReference(s, m, tokens) ==
  UNION {UNION {RotatedHead(s, m, token, tensor, head) : head \in 0 .. RopeHeads(s, tensor) - 1} :
           token \in tokens, tensor \in {"query", "key"}}

\* rotate_pair_to, in the flat buffer of a tensor.
RotatePair(s, tensor, base, pair, position) ==
  LET place(i) == Output(i \div (RopeHeads(s, tensor) * HeadDim),
                         <<tensor, (i \div HeadDim) % RopeHeads(s, tensor), i % HeadDim>>)
  IN {Write(place(base + half * Half + pair),
            Rotated(position, pair, base + pair, base + Half + pair, half)) : half \in {0, 1}}

\* rope_pos_ids_bf16_neox_d128: a CTA per token and head, of the query first.
RopeState(s, m, state) ==
  LET heads == s.queryHeads + s.keyHeads
      token == state \div heads
      combined == state % heads
      tensor == IF combined < s.queryHeads THEN "query" ELSE "key"
      head == IF combined < s.queryHeads THEN combined ELSE combined - s.queryHeads
      base == (token * RopeHeads(s, tensor) + head) * HeadDim
  IN IF m[token] < 0 THEN NoEffect
     ELSE [reads  |-> {<<tensor, base + i>> : i \in 0 .. HeadDim - 1},
           writes |-> UNION {RotatePair(s, tensor, base, pair, m[token]) : pair \in 0 .. Half - 1}]
=============================================================================
