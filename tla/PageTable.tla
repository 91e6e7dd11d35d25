----------------------------- MODULE PageTable -----------------------------
(***************************************************************************)
(* Paged KV metadata: the host contract that describes it                  *)
(* (crates/loom-infer/src/attention/paged_decode and paged_append) and the *)
(* guards with which kernels check the same metadata in device memory      *)
(* (crates/loom-infer-cuda/src/rope/mod.rs).                               *)
(*                                                                         *)
(* A table is a record: batch requests, the indptr of their page ranges,   *)
(* count page indices, and the used length of each request's last page.    *)
(* Indices start at 0 as in the code.  Values are i32, negative ones too.  *)
(***************************************************************************)
EXTENDS Integers

CONSTANTS
  PageSize,     \* tokens of a page (16)
  MaxNumPages   \* pages of the physical pool

ASSUME PageTableAssumption ==
  /\ PageSize \in Nat \ {0}
  /\ MaxNumPages \in Nat \ {0}

IsTable(t) ==
  /\ t.batch \in Nat \ {0}
  /\ t.count \in Nat
  /\ t.indptr \in [0 .. t.batch -> Int]
  /\ t.indices \in [0 .. t.count - 1 -> Int]
  /\ t.last \in [0 .. t.batch - 1 -> Int]

Requests(t) == 0 .. t.batch - 1
Slots == (0 .. MaxNumPages - 1) \X (0 .. PageSize - 1)
NoSlot == <<>>

-----------------------------------------------------------------------------
(* The host contract *)

\* validate_page_table of the paged decode contract.
ValidPageTable(t) ==
  /\ t.indptr[0] = 0
  /\ \A r \in Requests(t) : /\ t.indptr[r] < t.indptr[r + 1]
                            /\ t.last[r] \in 1 .. PageSize
  /\ t.indptr[t.batch] = t.count
  /\ \A p \in 0 .. t.count - 1 : t.indices[p] \in 0 .. MaxNumPages - 1

\* request_kv_len
KvLen(t, r) == (t.indptr[r + 1] - t.indptr[r] - 1) * PageSize + t.last[r]

\* physical_page_for_token
PhysicalSlot(t, r, position) ==
  IF position >= KvLen(t, r) THEN NoSlot
  ELSE <<t.indices[t.indptr[r] + position \div PageSize], position % PageSize>>

\* validate_page_table of the append contract: no two requests append to the
\* same final slot.
FinalSlot(t, r) == PhysicalSlot(t, r, KvLen(t, r) - 1)

ValidAppend(t) ==
  /\ ValidPageTable(t)
  /\ \A r, q \in Requests(t) : r # q => FinalSlot(t, r) # FinalSlot(t, q)

\* validate_metadata of the explicit contract.  m maps each token to a
\* request and a position.
ValidTokens(t, m, tokens) ==
  /\ ValidPageTable(t)
  /\ \A i \in 0 .. tokens - 1 :
       /\ m[i].request \in Requests(t)
       /\ m[i].position \in 0 .. KvLen(t, m[i].request) - 1
  /\ \A i, j \in 0 .. tokens - 1 :
       i # j => PhysicalSlot(t, m[i].request, m[i].position)
                # PhysicalSlot(t, m[j].request, m[j].position)

-----------------------------------------------------------------------------
(* The device guards *)

\* What the guards ask of one request and of one page index.
RequestInvalid(t, r) ==
  \/ t.indptr[r] < 0 \/ t.indptr[r + 1] <= t.indptr[r] \/ t.indptr[r + 1] > t.count
  \/ t.last[r] \notin 1 .. PageSize

PageInvalid(t, p) == t.indices[p] \notin 0 .. MaxNumPages - 1

\* A table index a thread visits: pair, pair + BLOCK_THREADS, ...
VisitedOnce(i, pair, threads) == i = pair              \* mutant: no stride
Visited(i, pair, threads) == i % threads = pair

\* page_table_partition_invalid: thread 0 checks the ends, every thread its
\* strided share of the requests and pages.
PartitionInvalid(t, pair, threads) ==
  \/ pair = 0 /\ (t.indptr[0] # 0 \/ t.indptr[t.batch] # t.count)
  \/ \E r \in Requests(t) : Visited(r, pair, threads) /\ RequestInvalid(t, r)
  \/ \E p \in 0 .. t.count - 1 : Visited(p, pair, threads) /\ PageInvalid(t, p)

\* append_slot: the final slot of a request, with its own guards.
AppendSlot(t, r) ==
  IF RequestInvalid(t, r) \/ PageInvalid(t, t.indptr[r + 1] - 1) THEN NoSlot
  ELSE <<t.indices[t.indptr[r + 1] - 1], t.last[r] - 1>>

\* The RoPE position that append_slot returns with the slot.
AppendPosition(t, r) == (t.indptr[r + 1] - t.indptr[r] - 1) * PageSize + t.last[r] - 1

\* explicit_append_slot: the slot of a token in a table already found valid.
ExplicitSlot(t, e) ==
  IF e.request \notin Requests(t) \/ e.position < 0 THEN NoSlot
  ELSE PhysicalSlot(t, e.request, e.position)
=============================================================================
