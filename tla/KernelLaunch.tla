---------------------------- MODULE KernelLaunch ----------------------------
(***************************************************************************)
(* One call of an operator, from its plan to the last kernel of its        *)
(* commands: a job is planned, its kernel runs CTA by CTA or, for split-K  *)
(* and tiled prefill, one kernel writes partial states that a second one   *)
(* merges.                                                                 *)
(*                                                                         *)
(* The CTAs of a kernel share nothing but global memory that none of them  *)
(* both reads and writes, so a kernel is one step; OneWriter shows that    *)
(* the order of its CTAs cannot matter.  The workspace starts with what    *)
(* an earlier launch left in it.                                           *)
(***************************************************************************)
EXTENDS RaggedPrefill, PagedAttention, SplitKDecode, RowKernels

CONSTANT Jobs     \* [family, s, m]: specifications, and metadata of any i32

\* A specification has sizes, and metadata a value for each of its indices.
IsJob(j) ==
  \/ j.family = "rms_norm" /\ j.s.rows \in Nat /\ j.s.hidden \in Nat
  \/ /\ j.family = "rope"
     /\ j.s.tokens \in Nat /\ j.s.queryHeads \in Nat /\ j.s.keyHeads \in Nat
     /\ j.m \in [0 .. j.s.tokens - 1 -> Int]
  \/ /\ j.s.batch \in Nat /\ j.s.nnzQo \in Nat
     /\ j.s.queryHeads \in Nat /\ j.s.kvHeads \in Nat
     /\ \/ /\ j.family = "ragged" /\ j.s.nnzKv \in Nat
           /\ j.m.qo \in [0 .. j.s.batch -> Int] /\ j.m.kv \in [0 .. j.s.batch -> Int]
        \/ /\ j.family = "paged" /\ IsTable(j.m.table) /\ j.m.table.batch = j.s.batch
           /\ j.m.qo \in [0 .. j.s.batch -> Int]
        \/ /\ j.family = "paged_decode" /\ IsTable(j.m.table)
           /\ j.m.table.batch = j.s.batch /\ j.s.nnzQo = j.s.batch
        \/ /\ j.family \in {"single", "split_k"} /\ j.s.batch = 1 /\ j.s.nnzQo = 1
           /\ j.s.kvLen \in Nat /\ j.s.partitions \in Nat

ASSUME KernelLaunchAssumption == \A j \in Jobs : IsJob(j)

VARIABLES
  job,        \* the call
  pc,         \* "plan", "launch", "merge", "done" or "refused"
  effects,    \* what each CTA of the last kernel did
  workspace,  \* the partial states in global memory
  output      \* the writes to the output so far

vars == <<job, pc, effects, workspace, output>>

\* The output has a row per query row or token, and a column per query head,
\* or per element of the row.
Attention(j) == j.family \notin {"rms_norm", "rope"}
OutputRows(j) ==
  CASE j.family = "rms_norm" -> 0 .. j.s.rows - 1
    [] j.family = "rope"     -> 0 .. j.s.tokens - 1
    [] OTHER                 -> 0 .. j.s.nnzQo - 1
OutputColumns(j) ==
  CASE j.family = "rms_norm" -> 0 .. j.s.hidden - 1
    [] j.family = "rope"     ->
         UNION {{t} \X (0 .. RopeHeads(j.s, t) - 1) \X (0 .. HeadDim - 1) : t \in {"query", "key"}}
    [] OTHER                 -> 0 .. j.s.queryHeads - 1
JobRequests(j) == 0 .. j.s.batch - 1

Algorithm(j) ==
  CASE j.family = "ragged"       -> RaggedAlgorithm(j.s)
    [] j.family = "paged"        -> PagedAlgorithm(j.s)
    [] j.family = "paged_decode" -> DecodeAlgorithm(j.s)
    [] j.family = "rms_norm"     -> IF RmsPacked(j.s) THEN "Packed2" ELSE "Scalar"
    [] OTHER                     -> j.family

Accepted(j) ==
  CASE j.family = "ragged"  -> RaggedAdmitted(j.s) /\ RaggedPlanned(j.s)
    [] j.family \in {"paged", "paged_decode"} ->
         Admitted(j.s) /\ PagedPlanned(j.s, Algorithm(j))
    [] j.family = "split_k" -> SplitKAdmitted(j.s) /\ SplitKPlanned(j.s)
    [] j.family = "rms_norm" -> RmsAdmitted(j.s) /\ RmsPlanned(j.s, j.m)
    [] j.family = "rope"    -> RopeAdmitted(j.s) /\ RopePlanned(j.s)
    [] j.family = "single"  -> Admitted(j.s) /\ j.s.kvLen > 0 /\ States(j.s) <= GridLimit

\* CTAs of the first kernel.
Grid(j) ==
  CASE Algorithm(j) = "TiledGqa4" -> TileBound(j.s)
    [] j.family = "split_k"       -> j.s.queryHeads * j.s.partitions
    [] j.family = "rms_norm"      -> j.s.rows
    [] j.family = "rope"          -> RopeStates(j.s)
    [] OTHER                      -> States(j.s)

HasMerge(j) == Algorithm(j) \in {"TiledGqa4", "split_k"}

\* A CTA of the first kernel: block / query heads is its row or request.
Cta(j, block) ==
  LET row == block \div j.s.queryHeads
      head == block % j.s.queryHeads
      a == Algorithm(j)
  IN CASE j.family = "rms_norm" -> IF a = "Packed2" THEN RmsPacked2(j.s, block)
                                   ELSE RmsScalar(j.s, block)
       [] j.family = "rope"    -> RopeState(j.s, j.m, block)
       [] j.family = "single"  -> SingleDirect(j.s, head)
       [] j.family = "split_k" -> SplitKPartial(j.s, block)
       [] j.family = "paged_decode" ->
            IF a = "Direct" THEN DecodeDirect(j.s, j.m, row, head)
            ELSE DecodeTokenParallel(j.s, j.m, row, head)
       [] j.family = "paged" ->
            IF a = "Direct" THEN PagedDirect(j.s, j.m, row, head)
            ELSE PagedTokenParallel(Warps[a], j.s, j.m, row, head)
       [] j.family = "ragged" ->
            CASE a = "Direct"    -> RaggedDirect(j.s, j.m, row, head)
              [] a = "TiledGqa4" -> TiledPartials(j.s, j.m, block)
              [] OTHER           -> RaggedTokenParallel(Warps[a], j.s, j.m, row, head)

MergeCta(j, block) ==
  LET row == block \div j.s.queryHeads
      head == block % j.s.queryHeads
  IN IF j.family = "split_k" THEN SplitKMerge(j.s, head, workspace)
     ELSE TiledMerge(row, head, workspace)
-----------------------------------------------------------------------------
Partitions(j) ==
  CASE Algorithm(j) = "TiledGqa4" -> 0 .. TiledPartitions - 1
    [] j.family = "split_k"       -> 0 .. j.s.partitions - 1
    [] OTHER                      -> {}

\* A partial state of an earlier launch: of rows that are none of this job's.
Stale == [max |-> "finite", rows |-> SetToBag({<<-1, -1, -1>>}), sound |-> TRUE]

Init ==
  /\ job \in Jobs
  /\ pc = "plan"
  /\ effects = <<>>
  /\ workspace = [a \in {Partial(row, head, p) : row \in OutputRows(job),
                           head \in OutputColumns(job), p \in Partitions(job)} |-> Stale]
  /\ output = {}

Plan ==
  /\ pc = "plan"
  /\ pc' = IF Accepted(job) THEN "launch" ELSE "refused"
  /\ UNCHANGED <<job, effects, workspace, output>>

Writes(done) == UNION {done[b].writes : b \in DOMAIN done}

\* A kernel that writes the output.
Launch ==
  /\ pc = "launch" /\ ~HasMerge(job)
  /\ effects' = [b \in 0 .. Grid(job) - 1 |-> Cta(job, b)]
  /\ output' = Writes(effects')
  /\ pc' = "done"
  /\ UNCHANGED <<job, workspace>>

\* What a place of the workspace holds after some writes.
Stored(at, writes, before) ==
  LET new == {w \in writes : w.at = at}
  IN IF new = {} THEN before ELSE (CHOOSE w \in new : TRUE).value

\* A kernel that writes partial states.
LaunchPartials ==
  /\ pc = "launch" /\ HasMerge(job)
  /\ effects' = [b \in 0 .. Grid(job) - 1 |-> Cta(job, b)]
  /\ workspace' = [a \in DOMAIN workspace |-> Stored(a, Writes(effects'), workspace[a])]
  /\ pc' = "merge"
  /\ UNCHANGED <<job, output>>

LaunchMerge ==
  /\ pc = "merge"
  /\ effects' = [b \in 0 .. States(job.s) - 1 |-> MergeCta(job, b)]
  /\ output' = Writes(effects')
  /\ pc' = "done"
  /\ UNCHANGED <<job, workspace>>

Next == Plan \/ Launch \/ LaunchPartials \/ LaunchMerge

Spec == Init /\ [][Next]_vars
-----------------------------------------------------------------------------
(* Properties *)

Valid(j) ==
  CASE j.family = "ragged"       -> ValidRagged(j.s, j.m)
    [] j.family = "paged"        -> ValidPagedPrefill(j.s, j.m)
    [] j.family = "paged_decode" -> ValidPageTable(j.m.table)
    [] j.family = "rope"         -> \A token \in OutputRows(j) : j.m[token] >= 0
    [] OTHER                     -> TRUE

\* Whether a row belongs to a request of the job, and what it must attend to.
Holds(j, r, row) ==
  IF j.family \in {"ragged", "paged"} THEN j.m.qo[r] <= row /\ row < j.m.qo[r + 1]
  ELSE row = r

Reference(j, r, row, head) ==
  CASE j.family = "ragged"       -> RaggedReference(j.s, j.m, r, row, head)
    [] j.family = "paged"        -> PagedReference(j.s, j.m, r, row, head)
    [] j.family = "paged_decode" -> DecodeReference(j.s, j.m, r, head)
    [] OTHER                     -> SingleReference(j.s, head)

\* The CPU reference's result of a row and head, as request r has it.
Exact(j, r, row, head) ==
  Write(Output(row, head), [rows |-> SetToBag(Reference(j, r, row, head)), sound |-> TRUE])

\* What the CPU references compute.
Expected(j) ==
  CASE j.family = "rms_norm" -> RmsReference(j.s)
    [] j.family = "rope"     -> RopeReference(j.s, j.m, OutputRows(j))
    [] OTHER -> UNION {{Exact(j, r, row, head) : row \in {i \in OutputRows(j) : Holds(j, r, i)}} :
                         r \in JobRequests(j), head \in OutputColumns(j)}

\* With metadata that the host contract admits, the output is what the CPU
\* reference computes, from the same elements, each of them counted once: no
\* share, partition, tile, mask or stride of any algorithm drops a token,
\* weighs it twice, or takes a padded row or what an earlier launch left in
\* the workspace.  (attention/prefill.rs, attention/decode.rs,
\* rms_norm/mod.rs, rope/mod.rs)
ExactResult == pc = "done" /\ Valid(job) => output = Expected(job)

\* Where an element that a kernel reads must be.
Readable(j, x) ==
  CASE j.family = "rms_norm" -> x \in 0 .. j.s.rows * j.s.hidden - 1
    [] j.family = "rope"     -> x[2] \in 0 .. j.s.tokens * RopeHeads(j.s, x[1]) * HeadDim - 1
    [] j.family = "ragged"   -> x[2] \in 0 .. j.s.nnzKv - 1 /\ x[3] \in 0 .. j.s.kvHeads - 1
    [] j.family \in {"paged", "paged_decode"} -> x[2] \in Slots /\ x[3] \in 0 .. j.s.kvHeads - 1
    [] OTHER -> x[2] \in 0 .. j.s.kvLen - 1 /\ x[3] \in 0 .. j.s.kvHeads - 1

\* Whatever the metadata in device memory, no CTA reads an element or page
\* outside the buffers, and none writes outside the output or the workspace
\* (docs/design/loom-infer-architecture.md: the guards prevent out-of-bounds
\* K/V access).
InBounds ==
  \A b \in DOMAIN effects :
    /\ \A x \in effects[b].reads : Readable(job, x)
    /\ \A w \in effects[b].writes :
         \/ w.at[1] = "output" /\ w.at[2] \in OutputRows(job) /\ w.at[3] \in OutputColumns(job)
         \/ w.at \in DOMAIN workspace

\* Whatever the metadata, no two CTAs of a kernel write the same element, so
\* overlapping requests or tiles never race on the output or the workspace.
OneWriter ==
  \A b, c \in DOMAIN effects :
    b # c => {w.at : w \in effects[b].writes} \cap {w.at : w \in effects[c].writes} = {}

\* Whatever the metadata, an attention kernel that reads it before it writes
\* the output writes a row only as the reference of a request that holds it,
\* batch decode completes every request whose own table entries are sound, and
\* RoPE every token whose own position is: the guards are local.
GuardsAreLocal ==
  pc = "done" /\ ~HasMerge(job) =>
    /\ Attention(job) =>
         \A w \in output :
           \E r \in JobRequests(job) : /\ Holds(job, r, w.at[2])
                                   /\ w = Exact(job, r, w.at[2], w.at[3])
    /\ job.family = "paged_decode" /\ TableEndpoints(job.m.table) =>
         \A r \in JobRequests(job), head \in OutputColumns(job) :
           /\ ~RequestInvalid(job.m.table, r)
           /\ GoodPages(job.m.table, r) = PageCount(job.m.table, r)
           => Exact(job, r, r, head) \in output
    /\ job.family = "rope" =>
         output = RopeReference(job.s, job.m, {i \in OutputRows(job) : job.m[i] >= 0})

\* docs/development/h20-validation.md: with invalid indptr endpoints the
\* output's sentinels remain unchanged.
SentinelsUnchanged ==
  pc = "done" /\ job.family = "ragged" /\ ~RaggedEndpoints(job.s, job.m) => output = {}

\* docs/design/loom-infer-architecture.md: long plans other than MQA and GQA4
\* use eight warps, so an admitted specification within the grid has a plan.
LongPlansLaunch == RaggedAdmitted(job.s) /\ States(job.s) <= GridLimit => pc # "refused"
-----------------------------------------------------------------------------
(* The inductive invariant behind them *)

\* What the first kernel of a job does, and what it leaves in the workspace.
Effects(j) == [b \in 0 .. Grid(j) - 1 |-> Cta(j, b)]
Places(j) ==
  {Partial(row, head, p) : row \in OutputRows(j), head \in OutputColumns(j), p \in Partitions(j)}
Held(j) == [a \in Places(j) |-> Stored(a, Writes(Effects(j)), Stale)]

\* Where a call has got to says which kernel's CTAs ran last, over what.
Inductive ==
  /\ job \in Jobs
  /\ pc \in {"plan", "launch", "merge", "done", "refused"}
  /\ DOMAIN workspace = Places(job)
  /\ pc \in {"plan", "launch", "refused"} =>
       effects = <<>> /\ output = {} /\ \A a \in Places(job) : workspace[a] = Stale
  /\ pc \in {"launch", "merge", "done"} => Accepted(job)
  /\ pc = "merge" => HasMerge(job) /\ effects = Effects(job) /\ workspace = Held(job)
  /\ pc = "done" =>
       /\ output = Writes(effects)
       /\ ~HasMerge(job) => effects = Effects(job)
       /\ HasMerge(job) => /\ workspace = Held(job)
                           /\ effects = [b \in 0 .. States(job.s) - 1 |-> MergeCta(job, b)]
=============================================================================
