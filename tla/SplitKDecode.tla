---------------------------- MODULE SplitKDecode ----------------------------
(***************************************************************************)
(* Single-request decode (attention/decode.rs), directly and split into    *)
(* partitions whose partial states a second kernel merges, with the host   *)
(* contract of crates/loom-infer/src/attention/single_decode.              *)
(*                                                                         *)
(* A specification s also has kvLen and the number of partitions.  A K/V   *)
(* row is <<position, row of the buffer, KV head>>.                        *)
(***************************************************************************)
EXTENDS AttentionShape

CONSTANT MergeWarps     \* warps of the merge kernel (8)
ASSUME SplitKAssumption == MergeWarps \in Nat \ {0}

\* Bf16SingleDecodeSpec::new, Bf16SingleDecodeSplitKSpec::new
SplitKAdmitted(s) == Admitted(s) /\ s.kvLen > 0 /\ s.partitions \in 1 .. s.kvLen

SingleTokens(s, head) == [p \in 0 .. s.kvLen - 1 |-> <<p, p, KvHead(s, head)>>]

\* single_decode_bf16_reference
SingleReference(s, head) == All(SingleTokens(s, head))

\* plan_bf16_split_k
SplitKPlanned(s) == s.queryHeads * s.partitions <= GridLimit

\* single_decode_bf16_nhd
SingleDirect(s, head) ==
  LET tokens == SingleTokens(s, head)
  IN [reads  |-> All(tokens),
      writes |-> {Write(Output(0, head), Normalized(Weigh(All(tokens), "finite")))}]

\* single_decode_bf16_nhd_split_k_partials: a warp per head and partition.
SplitKPartial(s, block) ==
  LET head == block \div s.partitions
      partition == block % s.partitions
      rows == Pick(SingleTokens(s, head), SplitRange(s.kvLen, s.partitions, partition))
  IN [reads  |-> rows,
      writes |-> {Write(Partial(0, head, partition), Weigh(rows, "finite"))}]

ActiveWarps(s) == Min({s.partitions, MergeWarps})

\* single_decode_bf16_nhd_split_k_merge: each active warp merges its share of
\* the partitions, and warp 0 merges the warps.
SplitKMerge(s, head, workspace) ==
  LET active == ActiveWarps(s)
      warp(w) == MergeAll([i \in 1 .. Cardinality(Share(s.partitions, active, w)) |->
                   workspace[Partial(0, head, ShareStart(s.partitions, active, w) + i - 1)]])
      merged == MergeAll([w \in 1 .. active |-> warp(w - 1)])
  IN [reads |-> {}, writes |-> {Write(Output(0, head), Normalized(merged))}]
=============================================================================
