----------------------------- MODULE Operators ------------------------------
(***************************************************************************)
(* The operands of every operator: what each enqueue_into of               *)
(* crates/loom-infer-cuda resolves, in which order, and what it then       *)
(* demands of each buffer, itself or by the launch contract of the kernel. *)
(*                                                                         *)
(* A call is a sequence of stages.  A stage resolves its operands together *)
(* and records a command, or only checks them.                             *)
(***************************************************************************)
EXTENDS Integers, Sequences, SequencesExt

Operand(arg, access, elem) == [arg |-> arg, access |-> access, elem |-> elem]

\* The operands of a stage: names, and their element types.
Signature(access, args, elems) ==
  [i \in DOMAIN args |-> Operand(args[i], access[i], elems[i])]

(* The signatures of resolve.rs *)
Rd == "read"
Wr == "write"
Rww == <<Rd, Wr, Wr>>
Rrw == <<Rd, Rd, Wr>>
Rrww == <<Rd, Rd, Wr, Wr>>
Rrrww == <<Rd, Rd, Rd, Wr, Wr>>
Rrrwww == <<Rd, Rd, Rd, Wr, Wr, Wr>>
Rrrrrw == <<Rd, Rd, Rd, Rd, Rd, Wr>>
Rrrrrww == <<Rd, Rd, Rd, Rd, Rd, Wr, Wr>>
Rrrrrrww == <<Rd, Rd, Rd, Rd, Rd, Rd, Wr, Wr>>
Rrrrrrrww == <<Rd, Rd, Rd, Rd, Rd, Rd, Rd, Wr, Wr>>
Rrrrrrwww == <<Rd, Rd, Rd, Rd, Rd, Rd, Wr, Wr, Wr>>
Rrrrrrrrwww == <<Rd, Rd, Rd, Rd, Rd, Rd, Rd, Rd, Wr, Wr, Wr>>

\* extents[arg]: the extents an argument may have, one unless a buffer may be
\* longer; packed: the arguments that must be aligned.
Stage(operands, extents, packed, records) ==
  [operands |-> operands, extents |-> extents, packed |-> packed, records |-> records]
CheckStage(operands, extents, packed) == Stage(operands, extents, packed, FALSE)
CommandStage(operands, extents, packed) == Stage(operands, extents, packed, TRUE)

Call(name, stages) == [name |-> name, stages |-> stages, optional |-> {}]

Args(call) == {o.arg : o \in UNION {ToSet(call.stages[k].operands) : k \in DOMAIN call.stages}}

\* An argument that some stage writes is a Write or ReadWrite handle.
ArgType(call, x) ==
  LET uses == {o \in UNION {ToSet(call.stages[k].operands) : k \in DOMAIN call.stages} : o.arg = x}
  IN [elem |-> (CHOOSE o \in uses : TRUE).elem,
      access |-> IF \E o \in uses : o.access = Wr THEN Wr ELSE Rd]
-----------------------------------------------------------------------------
(* RMSNorm, RoPE, GEMM *)

\* RmsNormF32Plan, RmsNormF16Plan, RmsNormBf16Plan
RmsNormCall(elem, packed) ==
  Call("rms_norm",
    <<CommandStage(Signature(Rrw, <<"input", "weight", "output">>, <<elem, elem, elem>>),
                   [input |-> {"rows"}, weight |-> {"hidden"}, output |-> {"rows"}],
                   IF packed THEN {"input", "weight", "output"} ELSE {})>>)

\* Bf16RopePosIdsPlan
RopeCall ==
  Call("rope",
    <<CommandStage(Signature(Rrrww, <<"query", "key", "position_ids", "query_output", "key_output">>,
                             <<"bf16", "bf16", "i32", "bf16", "bf16">>),
                   [query |-> {"q"}, key |-> {"k"}, position_ids |-> {"tokens"},
                    query_output |-> {"q"}, key_output |-> {"k"}], {})>>)

\* Bf16RopePagedKvAppendPlan
AppendCall ==
  Call("append",
    <<CommandStage(Signature(Rrrrrrwww,
                             <<"query", "key", "value", "page_indptr", "page_indices",
                               "last_page_len", "query_output", "key_pages", "value_pages">>,
                             <<"bf16", "bf16", "bf16", "i32", "i32", "i32", "bf16", "bf16", "bf16">>),
                   [query |-> {"q"}, key |-> {"k"}, value |-> {"k"}, page_indptr |-> {"indptr"},
                    page_indices |-> {"batch", "pages"}, last_page_len |-> {"batch"},
                    query_output |-> {"q"}, key_pages |-> {"pool"}, value_pages |-> {"pool"}],
                   {})>>)

\* Bf16RopePagedKvAppendTokensPlan
AppendTokensCall ==
  Call("append_tokens",
    <<CommandStage(Signature(Rrrrrrrrwww,
                             <<"query", "key", "value", "batch_indices", "positions",
                               "page_indptr", "page_indices", "last_page_len",
                               "query_output", "key_pages", "value_pages">>,
                             <<"bf16", "bf16", "bf16", "i32", "i32", "i32", "i32", "i32",
                               "bf16", "bf16", "bf16">>),
                   [query |-> {"q"}, key |-> {"k"}, value |-> {"k"},
                    batch_indices |-> {"tokens"}, positions |-> {"tokens"},
                    page_indptr |-> {"indptr"}, page_indices |-> {"batch", "pages"},
                    last_page_len |-> {"batch"}, query_output |-> {"q"},
                    key_pages |-> {"pool"}, value_pages |-> {"pool"}], {})>>)

\* Bf16GemmPlan, with validate_resolved
GemmCall ==
  Call("gemm",
    <<CommandStage(Signature(Rrww, <<"activation", "weight", "output", "workspace">>,
                             <<"bf16", "bf16", "bf16", "u8">>),
                   [activation |-> {"a"}, weight |-> {"w"}, output |-> {"d"},
                    workspace |-> {"ws", "ws_larger"}],
                   {"activation", "weight", "output", "workspace"})>>)
-----------------------------------------------------------------------------
(* Attention *)

Qkvo == {"query", "key", "value", "output"}

\* Bf16SingleDecodePlan
SingleDecodeCall ==
  Call("single_decode",
    <<CommandStage(Signature(Rrrww, <<"query", "key", "value", "output", "lse">>,
                             <<"bf16", "bf16", "bf16", "bf16", "f32">>),
                   [query |-> {"q"}, key |-> {"kv"}, value |-> {"kv"}, output |-> {"q"},
                    lse |-> {"lse"}], Qkvo)>>)

\* Bf16PagedBatchDecodePlan
PagedDecodeCall ==
  Call("paged_decode",
    <<CommandStage(Signature(Rrrrrrww,
                             <<"query", "key", "value", "page_indptr", "page_indices",
                               "last_page_len", "output", "lse">>,
                             <<"bf16", "bf16", "bf16", "i32", "i32", "i32", "bf16", "f32">>),
                   [query |-> {"q"}, key |-> {"pool"}, value |-> {"pool"},
                    page_indptr |-> {"indptr"}, page_indices |-> {"batch", "pages"},
                    last_page_len |-> {"batch"}, output |-> {"q"}, lse |-> {"lse"}], Qkvo)>>)

\* Bf16PagedPrefillPlan
PagedPrefillCall ==
  Call("paged_prefill",
    <<CommandStage(Signature(Rrrrrrrww,
                             <<"query", "key", "value", "qo_indptr", "page_indptr",
                               "page_indices", "last_page_len", "output", "lse">>,
                             <<"bf16", "bf16", "bf16", "i32", "i32", "i32", "i32", "bf16", "f32">>),
                   [query |-> {"q"}, key |-> {"pool"}, value |-> {"pool"},
                    qo_indptr |-> {"indptr"}, page_indptr |-> {"indptr"},
                    page_indices |-> {"batch", "pages"}, last_page_len |-> {"batch"},
                    output |-> {"q"}, lse |-> {"lse"}], Qkvo)>>)

RaggedExtents ==
  [query |-> {"q"}, key |-> {"kv"}, value |-> {"kv"}, qo_indptr |-> {"indptr"},
   kv_indptr |-> {"indptr"}, output |-> {"q"}, lse |-> {"lse"}, workspace |-> {"workspace"}]
RaggedOperands ==
  Signature(Rrrrrww, <<"query", "key", "value", "qo_indptr", "kv_indptr", "output", "lse">>,
            <<"bf16", "bf16", "bf16", "i32", "i32", "bf16", "f32">>)

\* Bf16RaggedPrefillPlan::enqueue_into
RaggedPrefillCall ==
  Call("ragged_prefill", <<CommandStage(RaggedOperands, RaggedExtents, Qkvo)>>)

MergeStage ==
  CommandStage(Signature(Rww, <<"workspace", "output", "lse">>, <<"f32", "bf16", "f32">>),
               [workspace |-> {"workspace"}, output |-> {"q"}, lse |-> {"lse"}], {})

TiledPartialStage ==
  CommandStage(Signature(Rrrrrw, <<"query", "key", "value", "qo_indptr", "kv_indptr", "workspace">>,
                         <<"bf16", "bf16", "bf16", "i32", "i32", "f32">>),
               RaggedExtents, {})

\* mutant: the merge's output is not resolved before the partial is launched
TiledPrefillCallUnchecked ==
  [Call("tiled_prefill", <<TiledPartialStage, MergeStage>>) EXCEPT !.optional = {"workspace"}]

\* enqueue_tiled_gqa4: both kernels' tensors are checked before the first.
TiledPrefillCall ==
  [Call("tiled_prefill",
        <<CheckStage(RaggedOperands, RaggedExtents, Qkvo), TiledPartialStage, MergeStage>>)
   EXCEPT !.optional = {"workspace"}]

\* Bf16SingleDecodeSplitKPlan: the partial resolves what the merge will need.
SplitKCall ==
  Call("split_k",
    <<CommandStage(Signature(Rrrwww, <<"query", "key", "value", "workspace", "output", "lse">>,
                             <<"bf16", "bf16", "bf16", "f32", "bf16", "f32">>),
                   [query |-> {"q"}, key |-> {"kv"}, value |-> {"kv"},
                    workspace |-> {"workspace"}, output |-> {"q"}, lse |-> {"lse"}], Qkvo),
      MergeStage>>)
-----------------------------------------------------------------------------
OperatorCalls ==
  {RmsNormCall(elem, packed) : elem \in {"f32", "f16", "bf16"}, packed \in BOOLEAN}
  \cup {RopeCall, AppendCall, AppendTokensCall, GemmCall, SingleDecodeCall, PagedDecodeCall,
        PagedPrefillCall, RaggedPrefillCall, TiledPrefillCall, SplitKCall}
=============================================================================
