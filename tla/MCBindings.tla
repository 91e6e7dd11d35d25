----------------------------- MODULE MCBindings -----------------------------
(***************************************************************************)
(* A set filled for one operator, or for two, a second set with a buffer   *)
(* that could be mistaken for one of the first, and spare allocations.     *)
(***************************************************************************)
EXTENDS Bindings

Buffer(name, elem, extent) ==
  [name |-> name, elem |-> elem, extent |-> extent, aligned |-> TRUE, foreign |-> FALSE]

\* Slots are filled in the order given; the buffers of `writes` by read_write.
Fill(calls_, buffers, writes, other, spare) ==
  [calls |-> calls_,
   buffers |-> ToSet(buffers) \cup other \cup spare,
   capacity |-> [a \in {"a1", "a2"} |-> IF a = "a1" THEN Len(buffers) + 1 ELSE 1],
   leases |-> [a \in {"a1", "a2"} |->
     IF a = "a1"
     THEN [i \in DOMAIN buffers |->
             LeaseOf(buffers[i], IF buffers[i].name \in writes THEN "read_write" ELSE "read")]
     ELSE LET others == SetToSeq(other)
          IN [i \in DOMAIN others |-> LeaseOf(others[i], "read_write")]]]

Q == Buffer("query", "bf16", "q")
K == Buffer("key", "bf16", "kv")
V == Buffer("value", "bf16", "kv")
O == Buffer("output", "bf16", "q")
Lse == Buffer("lse", "f32", "lse")
Workspace == Buffer("workspace", "f32", "workspace")
Indptr(name) == Buffer(name, "i32", "indptr")

SplitKFill ==
  Fill({SplitKCall}, <<Workspace, Lse, Q, K, V, O>>, {"workspace", "lse", "output"},
       {Buffer("other", "f32", "workspace")}, {Buffer("spare", "f32", "workspace")})

TiledFill ==
  Fill({TiledPrefillCall},
       <<Lse, Workspace, Q, K, V, Indptr("qo_indptr"), Indptr("kv_indptr"), O>>,
       {"workspace", "lse", "output"},
       {Buffer("other", "f32", "lse")}, {[Buffer("spare", "bf16", "q") EXCEPT !.aligned = FALSE]})

\* One set serves prefill without partitions and the decode that follows.
DecodeFill ==
  Fill({SingleDecodeCall, RaggedPrefillCall},
       <<Q, K, V, O, Lse, Indptr("qo_indptr"), Indptr("kv_indptr")>>, {"output", "lse"},
       {Buffer("other", "bf16", "q")}, {Buffer("spare", "bf16", "kv")})

PagedFill ==
  Fill({PagedDecodeCall, PagedPrefillCall},
       <<Q, Buffer("key", "bf16", "pool"), Buffer("value", "bf16", "pool"), Indptr("qo_indptr"),
         Indptr("page_indptr"), Buffer("page_indices", "i32", "pages"),
         Buffer("last_page_len", "i32", "batch"), O, Lse>>, {"output", "lse"},
       {Buffer("other", "i32", "batch")}, {})

AppendFill ==
  Fill({AppendCall, AppendTokensCall},
       <<Q, Buffer("key", "bf16", "k"), Buffer("value", "bf16", "k"),
         Buffer("batch_indices", "i32", "tokens"), Buffer("positions", "i32", "tokens"),
         Indptr("page_indptr"), Buffer("page_indices", "i32", "pages"),
         Buffer("last_page_len", "i32", "batch"), Buffer("query_output", "bf16", "q"),
         Buffer("key_pages", "bf16", "pool"), Buffer("value_pages", "bf16", "pool")>>,
       {"query_output", "key_pages", "value_pages"}, {Buffer("other", "bf16", "pool")}, {})

RowFill ==
  Fill({RmsNormCall("bf16", TRUE), RopeCall},
       <<Buffer("input", "bf16", "rows"), Buffer("weight", "bf16", "hidden"),
         Buffer("output", "bf16", "rows"), Q, Buffer("key", "bf16", "k"),
         Buffer("position_ids", "i32", "tokens"), Buffer("query_output", "bf16", "q"),
         Buffer("key_output", "bf16", "k")>>,
       {"output", "query_output", "key_output"}, {Buffer("other", "bf16", "q")},
       {[Buffer("spare", "bf16", "rows") EXCEPT !.foreign = TRUE]})

GemmFill ==
  Fill({GemmCall},
       <<Buffer("activation", "bf16", "a"), Buffer("weight", "bf16", "w"),
         Buffer("output", "bf16", "d"), Buffer("workspace", "u8", "ws_larger")>>,
       {"output", "workspace"}, {Buffer("other", "u8", "ws")},
       {[Buffer("spare", "u8", "ws") EXCEPT !.aligned = FALSE]})

MCFilled == {SplitKFill, TiledFill, DecodeFill, PagedFill, AppendFill, RowFill, GemmFill}
=============================================================================
