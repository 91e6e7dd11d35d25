--------------------------- MODULE PagedAttention ---------------------------
(***************************************************************************)
(* Attention over a paged KV cache: batch decode (attention/decode.rs) and *)
(* causal prefill (attention/prefill.rs), with the host contracts of       *)
(* crates/loom-infer/src/attention/paged_decode and paged_prefill.         *)
(*                                                                         *)
(* Metadata m has the page table (PageTable) and, for prefill, the indptr  *)
(* array qo of the query rows.  Decode has one query row per request.      *)
(* A K/V row is <<position in its request, <<page, offset>>, KV head>>.    *)
(***************************************************************************)
EXTENDS PageTable, AttentionShape

(* The host contract *)

\* validate_metadata of the paged prefill contract.
ValidPagedPrefill(s, m) ==
  /\ ValidIndptr(m.qo, s.batch, s.nnzQo)
  /\ ValidPageTable(m.table)
  /\ \A r \in 0 .. s.batch - 1 : Span(m.qo, r) <= KvLen(m.table, r)

ReferenceTokens(t, r, kvHead, count) ==
  [p \in 0 .. count - 1 |-> <<p, PhysicalSlot(t, r, p), kvHead>>]

\* paged_batch_decode_bf16_reference
DecodeReference(s, m, r, head) ==
  All(ReferenceTokens(m.table, r, KvHead(s, head), KvLen(m.table, r)))

\* paged_prefill_bf16_reference: a row of request r over its causal tokens.
PagedReference(s, m, r, row, head) ==
  LET count == CausalCount(Span(m.qo, r), KvLen(m.table, r), row - m.qo[r])
  IN All(ReferenceTokens(m.table, r, KvHead(s, head), count))
-----------------------------------------------------------------------------
(* The plans *)

\* paged_batch_decode_algorithm
DecodeAlgorithm(s) ==
  IF s.queryHeads = s.kvHeads THEN "Direct" ELSE "TokenParallel8"

\* paged_prefill_algorithm
PagedAlgorithm(s) ==
  IF (MaxNumPages * PageSize) \div s.batch < TokenParallelMin THEN "Direct"
  ELSE IF s.kvHeads = 1 THEN "TokenParallel16" ELSE "TokenParallel8"

PagedContractThreads ==
  [Direct |-> 32, TokenParallel8 |-> 256, TokenParallel16 |-> 512]

\* plan_bf16_paged_batch, plan_bf16_paged
PagedPlanned(s, algorithm) ==
  /\ BlockThreads(algorithm) = PagedContractThreads[algorithm]
  /\ States(s) <= GridLimit
-----------------------------------------------------------------------------
(* What the kernels have in common *)

TableEndpoints(t) == t.indptr[0] = 0 /\ t.indptr[t.batch] = t.count

\* The K/V rows of a request's first tokens, by the kernels' arithmetic.
DeviceTokens(t, r, kvHead, count) ==
  [p \in 0 .. count - 1 |->
    <<p, <<t.indices[t.indptr[r] + p \div PageSize], p % PageSize>>, kvHead>>]

PageCount(t, r) == t.indptr[r + 1] - t.indptr[r]

\* The pages of a request before its first bad one.
GoodPages(t, r) ==
  Min({p \in 0 .. PageCount(t, r) - 1 : PageInvalid(t, t.indptr[r] + p)}
      \cup {PageCount(t, r)})

\* mutant: the last page is not looked at
PagesVoteShort(t, r, warps) ==
  \A p \in 0 .. PageCount(t, r) - 2 : ~PageInvalid(t, t.indptr[r] + p)

\* The warps' vote, each over its stride of the request's pages.
PagesVote(t, r, warps) ==
  \A w \in 0 .. warps - 1 :
    \A p \in 0 .. PageCount(t, r) - 1 :
      (p \div 32) % warps = w => ~PageInvalid(t, t.indptr[r] + p)
-----------------------------------------------------------------------------
(* Batch decode: a CTA per request and query head *)

DecodeAccepts(t, r) == TableEndpoints(t) /\ ~RequestInvalid(t, r)

\* paged_batch_decode_bf16_nhd: the warp leaves at the first bad page, after
\* the rows of the pages before it.
DecodeDirect(s, m, r, head) ==
  LET t == m.table
      good == DeviceTokens(t, r, KvHead(s, head), GoodPages(t, r) * PageSize)
      tokens == DeviceTokens(t, r, KvHead(s, head), KvLen(t, r))
  IN IF ~DecodeAccepts(t, r) THEN NoEffect
     ELSE IF GoodPages(t, r) < PageCount(t, r) THEN [reads |-> All(good), writes |-> {}]
     ELSE [reads  |-> All(tokens),
           writes |-> {Write(Output(r, head), Normalized(Weigh(All(tokens), "finite")))}]

\* paged_batch_decode_bf16_nhd_token_parallel
DecodeTokenParallel(s, m, r, head) ==
  LET t == m.table
      tokens == DeviceTokens(t, r, KvHead(s, head), KvLen(t, r))
  IN IF ~DecodeAccepts(t, r) \/ ~PagesVote(t, r, Warps["TokenParallel8"]) THEN NoEffect
     ELSE [reads  |-> All(tokens),
           writes |-> {Write(Output(r, head),
                             Normalized(MergeFromFirst(
                               SharedStates(Warps["TokenParallel8"], tokens))))}]
-----------------------------------------------------------------------------
(* Causal prefill: a CTA per query row and head *)

\* The loop over the requests ends at the first one that holds the row or
\* whose range is bad; NoRequest if it is bad or there is none.
NoRequest == -1
PagedRequest(s, m, row) ==
  LET bad == {q \in 0 .. s.batch - 1 : \/ m.qo[q] < 0 \/ m.qo[q + 1] <= m.qo[q]
                                       \/ m.qo[q + 1] > s.nnzQo}
      holds == {q \in 0 .. s.batch - 1 : m.qo[q] <= row /\ row < m.qo[q + 1]}
  IN IF bad \cup holds = {} \/ Min(bad \cup holds) \in bad THEN NoRequest
     ELSE Min(holds)

\* mutant: a request with more queries than tokens is not turned away
PagedAcceptsLong(s, m, row, pagesGood) ==
  LET r == PagedRequest(s, m, row)
  IN /\ r # NoRequest
     /\ m.qo[0] = 0 /\ m.qo[s.batch] = s.nnzQo
     /\ TableEndpoints(m.table)
     /\ ~RequestInvalid(m.table, r)
     /\ pagesGood

PagedAccepts(s, m, row, pagesGood) ==
  LET r == PagedRequest(s, m, row)
  IN /\ r # NoRequest
     /\ m.qo[0] = 0 /\ m.qo[s.batch] = s.nnzQo
     /\ TableEndpoints(m.table)
     /\ ~RequestInvalid(m.table, r)
     /\ pagesGood
     /\ Span(m.qo, r) <= KvLen(m.table, r)

\* The tokens of a state.
PagedTokens(s, m, row, head) ==
  LET r == PagedRequest(s, m, row)
  IN DeviceTokens(m.table, r, KvHead(s, head),
                  CausalCount(Span(m.qo, r), KvLen(m.table, r), row - m.qo[r]))

\* The store of a state's result, unless the guards turn it away.
PagedState(s, m, row, head, pagesGood, state) ==
  IF ~PagedAccepts(s, m, row, pagesGood) THEN NoEffect
  ELSE [reads  |-> All(PagedTokens(s, m, row, head)),
        writes |-> {Write(Output(row, head), Normalized(state))}]

\* paged_prefill_bf16_nhd_causal
PagedDirect(s, m, row, head) ==
  LET r == PagedRequest(s, m, row)
  IN PagedState(s, m, row, head, GoodPages(m.table, r) = PageCount(m.table, r),
                Weigh(All(PagedTokens(s, m, row, head)), "finite"))

\* paged_prefill_bf16_nhd_causal_token_parallel_impl
PagedTokenParallel(warps, s, m, row, head) ==
  PagedState(s, m, row, head, PagesVote(m.table, PagedRequest(s, m, row), warps),
             MergeNonEmpty(SharedStates(warps, PagedTokens(s, m, row, head))))
=============================================================================
