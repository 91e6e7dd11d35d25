----------------------------- MODULE RopeAppend -----------------------------
(***************************************************************************)
(* The kernel rope_paged_kv_append_bf16_neox_d128                          *)
(* (crates/loom-infer-cuda/src/rope/mod.rs): one token per request is      *)
(* appended at the request's final position.  Each CTA, one per request    *)
(* and head, checks the metadata on its own, with no barrier, and every    *)
(* thread of it reaches the same verdict because it runs the same checks.  *)
(***************************************************************************)
EXTENDS PageTable

CONSTANTS
  QueryHeads, KeyHeads,
  Tables       \* the metadata device memory may hold: nobody has checked it

ASSUME RopeAppendAssumption ==
  /\ QueryHeads \in Nat \ {0} /\ KeyHeads \in Nat \ {0}
  /\ \A t \in Tables : IsTable(t)

VARIABLES
  table,
  done,        \* CTAs that have returned
  queryOut,    \* requests and heads whose rotated Q was written
  pool         \* writes to the K and V pools: slot, head, request, and the
               \* RoPE position K was rotated by

vars == <<table, done, queryOut, pool>>

Heads == QueryHeads + KeyHeads
Ctas == 0 .. table.batch * Heads - 1

Init == table \in Tables /\ done = {} /\ queryOut = {} /\ pool = {}

\* mutant: the loop over the page indices is left out
EndsRejected == table.indptr[0] # 0 \/ table.indptr[table.batch] # table.count

\* The whole table's ends and page indices.
TableRejected ==
  \/ table.indptr[0] # 0 \/ table.indptr[table.batch] # table.count
  \/ \E p \in 0 .. table.count - 1 : PageInvalid(table, p)

\* mutant: the loop over the other requests is left out
RejectedOwn(r) == TableRejected \/ AppendSlot(table, r) = NoSlot

\* The CTAs of request r return without writing.
Rejected(r) ==
  \/ TableRejected
  \/ AppendSlot(table, r) = NoSlot
  \/ \E other \in Requests(table) \ {r} :
       AppendSlot(table, other) \in {NoSlot, AppendSlot(table, r)}

\* One CTA runs to its end.
Cta(c) ==
  LET request == c \div Heads
      head == c % Heads
  IN  /\ c \notin done
      /\ done' = done \cup {c}
      /\ IF Rejected(request)
         THEN UNCHANGED <<queryOut, pool>>
         ELSE IF head < QueryHeads
         THEN queryOut' = queryOut \cup {<<request, head>>} /\ UNCHANGED pool
         ELSE /\ pool' = pool \cup {<<AppendSlot(table, request),
                                      head - QueryHeads, request,
                                      AppendPosition(table, request)>>}
              /\ UNCHANGED queryOut
      /\ UNCHANGED table

Next == \E c \in Ctas : Cta(c)

Spec == Init /\ [][Next]_vars
-----------------------------------------------------------------------------
(* Properties *)

\* An invalid page table leaves every output as it was; a table the append
\* contract accepts gets every head of every request that has run.
GuardsThePageTable ==
  /\ ~ValidPageTable(table) => queryOut = {} /\ pool = {}
  /\ ValidAppend(table) =>
       \A c \in done : LET request == c \div Heads
                           head == c % Heads
                       IN  IF head < QueryHeads
                           THEN <<request, head>> \in queryOut
                           ELSE \E w \in pool : w[2] = head - QueryHeads
                                                /\ w[3] = request

\* Each written element of the pools has one writer, in the final slot of its
\* request and rotated by the position of that slot: duplicates among the final
\* slots never race ("duplicate-slot validation and one CTA per request/head
\* prove unique destinations").
OneWriterPerSlot ==
  \A w \in pool :
    /\ w[1] = FinalSlot(table, w[3])
    /\ w[1] = PhysicalSlot(table, w[3], w[4])
    /\ \A v \in pool : v[1] = w[1] /\ v[2] = w[2] => v = w

\* docs/results/README.md:107-108 of this kernel: "Duplicate final slots and an
\* invalid non-final physical page preserve all output sentinels."
RejectedLaunchWritesNothing ==
  ~ValidAppend(table) => queryOut = {} /\ pool = {}
-----------------------------------------------------------------------------
(* The inductive invariant behind them *)

\* Every write is inside the pools, the Q output or the grid.
Typed ==
  /\ table \in Tables
  /\ done \subseteq Ctas
  /\ queryOut \subseteq Requests(table) \X (0 .. QueryHeads - 1)
  /\ pool \subseteq Slots \X (0 .. KeyHeads - 1) \X Requests(table) \X Nat

\* A write was made by a request that passed its own verdict, at the slot and
\* the position that append_slot gave it.
WritersAccepted ==
  /\ queryOut # {} => \E r \in Requests(table) : ~Rejected(r)
  /\ \A w \in pool : /\ ~Rejected(w[3])
                     /\ w[1] = AppendSlot(table, w[3])
                     /\ w[4] = AppendPosition(table, w[3])

Inductive == Typed /\ WritersAccepted /\ GuardsThePageTable
=============================================================================
