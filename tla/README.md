# Loom kernels in TLA+

This directory specifies the parts of Loom (`crates/loom-infer`,
`crates/loom-infer-cuda`) whose correctness depends on order: the ownership
protocol between the host and a CUDA stream, and the protocols between the
threads and CTAs of its kernels. TLC checks the specifications on small
instances and TLAPS proves theorems about them for every value of their
constants. Line numbers below are of the files under `crates/`.

## 1. The system

Loom is a Rust library of inference kernels. Its host side owns device buffers
and submits work through a small lifecycle API; its device side is kernels
written in Rust and compiled for SM90.

| Component | State it keeps | Operations | Hard behaviour |
|---|---|---|---|
| Command queue, scope, completion (`command/submission.rs`, `completion.rs`) | ids, poison, retained functions and plans, one completion event, submitted count, first error | `new`, `bindings`, `begin`, `enqueue_into` of every plan, `finish`, `is_complete`, `wait`, three `Drop`s | driver calls fail after the work was queued; one event is re-recorded by scope after scope; `mem::forget` skips every `Drop`; the device runs at its own pace |
| CUDA graphs (`graph/mod.rs`) | capture state, raw graph and exec handles, replay count, `in_flight`, record and poll errors, poison | `capture`, `instantiate`, `launch`, `measure_launch_ms`, `is_complete`, `wait`, `into_bindings`, four `Drop`s | panics inside the capture closure, failed launches that run, leaked completions, destruction order |
| Checked bindings (`command/binding.rs`, `resolve.rs`) | slots of a set with their access mode and element type | `bind_read`, `bind_read_write`, `take_read_write`, the `resolve_*` family | handles of another set, duplicate slots, partial resolution |
| Paged KV contracts (`loom-infer/src/attention`) | none: pure validation of metadata | `validate_page_table`, `validate_metadata`, slot lookup | the same metadata is later read from device memory, unchecked by the host |
| RoPE and fused append kernels (`rope/mod.rs`) | per-CTA shared flags; Q output and K/V pools | three kernels and their plans | every CTA decides on its own whether to write; shared flags are uninitialized and reused |
| Decode kernels (`attention/decode.rs`) | shared partial states, page flags, split-K workspace | single, paged, token-parallel, split-K and merge kernels | flags rewritten per page, partial states merged across warps and commands |
| Prefill kernels (`attention/prefill.rs`) | shared K/V tile, page flags, partial states | ragged and paged kernels in four algorithms | staging over one shared tile, tile grid bounds, block size picked in two places |
| GEMM provider (`gemm/mod.rs`) | library handle, sticky teardown status | plan creation, `enqueue_into`, drops | destroy failures in one thread seen by another |
| RMSNorm (`rms_norm/mod.rs`) | shared warp sums | five kernels and their plans | block reduction and broadcast over shared memory |

How they interact. Every plan's `enqueue_into` runs inside a `CommandScope`: it
asks for capacity, resolves handles to buffers, launches, and reports the
result to the scope, which retains the function or plan. A graph capture opens
such a scope on a private queue and takes over its bindings and resources.
Kernels read metadata that the host contracts describe but that no host call
can check once it is in device memory, so kernels that write through it check
it again.

What makes each component correct:

- *lifecycles*: nothing the device may still use is reachable by the host,
  freed or unloaded; readiness is never claimed early; after a failure nothing
  more is admitted; accounting never trips its own abort; waiting ends.
- *append kernels*: device guards accept what the host contract accepts and
  nothing else; each pool element has at most one writer; block votes are free
  of races and barrier divergence.
- *attention, RMSNorm and RoPE kernels*: a result counts each element the CPU
  reference counts, once; no metadata leads an access out of its buffer; each
  output and workspace element has one writer; the shared memory of a CTA is
  free of races and stale reads, and its barriers of divergence.
- *bindings*: the operands of a command are disjoint, are the buffers their
  handles were made for, and no check refuses the second of two commands.
- *GEMM provider*: descriptors and library handle outlive every use, and
  nothing is submitted once a failed destroy has been seen.

## 2. Modules

| Module | Models |
|---|---|
| `Lease` | what both lifecycles promise: the abstract specification |
| `CommandQueue` | one queue, the scope or completion that borrows it, and its stream |
| `GraphExec` | one graph from `GraphQueue` to the destruction of its handles |
| `PageTable` | paged KV metadata: the host contract and the device guards, as operators |
| `BlockConsensus` | `block_has_invalid`, used twice by a CTA, thread by thread |
| `RopeAppendTokens` | `rope_paged_kv_append_tokens_bf16_neox_d128`, CTA by CTA |
| `RopeAppend` | `rope_paged_kv_append_bf16_neox_d128`, CTA by CTA |
| `Softmax` | partial softmax states, their merges, and the shares they are over |
| `AttentionShape` | what the attention contracts, plans and kernels share |
| `RaggedPrefill` | ragged prefill: contract, choice of algorithm, direct, token-parallel and tiled kernels |
| `PagedAttention` | paged prefill and paged batch decode: contracts, plans, kernels |
| `SplitKDecode` | single decode, direct and split into partitions |
| `RowKernels` | RMSNorm and standard RoPE |
| `KernelLaunch` | one call of an operator: plan, kernel, and merge kernel; composes the five above |
| `CtaSync` | shared memory and barriers of one CTA, warp by warp |
| `Operators` | what each `enqueue_into` resolves and demands of its operands |
| `Bindings` | the binding arena and every operator enqueued over it |
| `Provider` | the cuBLASLt provider, its plans and descriptors, by thread |
| `CommandQueueProofs`, `GraphExecProofs`, `BindingsProofs`, `ProviderProofs`, `RopeAppendTokensProofs`, `RopeAppendProofs`, `CtaSyncProofs`, `KernelLaunchProofs` | theorems about the module of that name, and their proofs; `RopeAppendTokensProofs` also has those about `BlockConsensus` |
| `MC...` | values of the constants for TLC |

Operators whose comment starts with "mutant" are bugs on purpose. Nothing uses
them; each can stand in for the definition that follows it, and TLC then finds
one of the properties violated (the pairs are in `PROJECT.json`).

### CommandQueue

Variables carry the names of the fields they model: `poisoned`, `retained`
(`retained_resources`, one entry per recorded command), `event` (the scope
behind whose work `completion_event` was last recorded; 0 if never), `nextId`
(`NEXT_ID`). `handle` is the one live `CommandScope` or `CommandCompletion`,
which borrows the queue mutably. `place` says who owns each binding set: the
host, the handle, nobody (dropped), or a value passed to `mem::forget`.
`stream` holds the commands the device has not finished. `tainted` is a history
variable for one property: has anything failed yet.

Each call of the API is one action, `Begin` to `DropQueue`, and the device
finishes commands in `DeviceStep` at any point between them. Failures are
nondeterministic. The model relies on three facts about CUDA: a successful
synchronization of the stream or context means the stream has drained, an event
that is reached means the work before its record is done, and a launch that
reports an error may have been queued. A blocking call is an action that is
enabled once it can return. When neither the stream nor the context can be
synchronized the code aborts the process (`AbortUnproven`), which ends all
behaviour. Plans of two kernels (`EnqueuePair`, `EnqueueMerge`) can be refused
between their commands; every other plan is `Enqueue`. `enqueue_into` is
represented by the GEMM provider's, the only one with a driver check before
submission, so all outcomes of the others are among its own.

Two abstractions: ids are taken by one queue only, whereas `NEXT_ID` is global
(exhaustion is reached at every point of a scope's life all the same), and an
entry of `retained` or `stream` names the scope, set and index of its command
rather than a function or plan.

### GraphExec

`phase` is the object the host owns by value, or what its call is in the middle
of; `graph` and `exec` say whether the raw handles are live, and `replay` is
the record of a `GraphExec`'s own fields. A panic in the capture closure is
`Panic`; locals are then dropped one by one, the guard (`GuardDropped`) before
the scope (`DiscardScope`). Teardown is stepwise for the same reason: a failure
to destroy a handle aborts the process between the steps. `measure_launch_ms`
is a `Launch` followed by a wait or drop of its completion, with a timing event
the properties do not depend on. Graph replay is one item of the stream.

### PageTable, RopeAppend, RopeAppendTokens, BlockConsensus

A table is a record of functions with the code's 0-based indices; its values
are any integers, negative ones included. `PageTable` states the host contract
(`ValidPageTable`, `ValidAppend`, `ValidTokens`) next to the device guards
(`PartitionInvalid`, `AppendSlot`, `ExplicitSlot`), translated from different
files, and the kernel modules relate the two.

In the kernel modules a CTA is atomic: its inputs are read-only for the launch
and its writes are a set of `<<slot, head, ...>>`, so a race between CTAs shows
as two writes to one element whatever the interleaving. Inside a CTA of
the explicit kernel, threads do interact, through two shared flags;
`BlockConsensus` models them thread by thread: warp vote, leader's store, first
barrier, two loads, second barrier, and once more for the second stage. The
barrier is modelled as the hardware behaves: it opens when every thread that
has not left the kernel waits at it, in whichever call, so divergence is
possible in the model and excluded by a property. The flags start with
arbitrary contents. What each thread finds invalid is arbitrary too, which
covers any metadata. Rotation, and the split of a head over the 64 pairs, are
left out.

### Softmax, AttentionShape, RaggedPrefill, PagedAttention, SplitKDecode, RowKernels, KernelLaunch

These model what each CTA of a kernel reads and writes, as functions of the
specification and of metadata with arbitrary values. A K/V row, or an element
of an RMSNorm or RoPE input, is a name. A value is what was computed from: a
softmax state is the bag of rows that were weighed into it, whether its maximum
is finite, and whether any exponent was of the difference of two infinities, so
that a dropped, repeated, padded or foreign row shows as another bag and NaN as
`sound` being false. Scores, rounding and the value of the log-sum-exp are left
out. `ReferenceTokens` and the `...Reference` operators are the CPU references
of `crates/loom-infer`; the kernels' operators come from `crates/loom-infer-cuda`
and share only the layout of the output with them.

`KernelLaunch` takes a job through `Plan`, then `Launch`, or `LaunchPartials`
and `LaunchMerge` over a workspace that an earlier launch has filled. A kernel
is one step, for its CTAs only read what no CTA writes (`InBounds` and
`OneWriter`, checked after every kernel, say why the order of CTAs is
immaterial). `KernelLaunchAssumption` says of a job that its sizes are numbers
and that its metadata has a value, any integer, for each index (`IsJob`). Which
lane of a warp holds which fragment of a tensor-core product is not modelled; a
tile's rows and columns are.

### CtaSync

The same kernels from inside: a program of puts, gets, asynchronous copies,
waits and barriers per warp, with control flow that depends on the input. Lanes
run together, so a warp is one actor. `touched` remembers the accesses since the
last barrier and exposes races; a copy lands at any time until its warp's
wait. Uninitialized shared memory has a value that equals nothing a kernel
wants. Tiled prefill is a function of the instruction's number, five to a part
(K or V of a tile), so that the proofs can reason about any number of tiles.

### Operators, Bindings

`Operators` has the stages of each call: the operands each resolves, with
access, element type, length and alignment demanded. `Bindings` has the
slots of each set and the handles given out, which are `Copy` and outlive what
they were made for. Lengths are names that tell apart what the plans compare.
`Enqueue` resolves and checks stage by stage and records commands up to the
first refusal, as `enqueue_into` does; an argument list is the usual one or has
`MaxStrays` handles replaced by any others of their Rust type. A workspace that
is left out (`NoHandle`, the code's `None`) refuses the call, as does a lack of
room. `FilledAssumption` says of the sets a run starts from what `bind_read` and
`bind_read_write` would have made of them: slots with allocations, none of them
twice if it may be written, and calls that are operators of the crate. Launch
faults are `CommandQueue`'s.

### Provider

`plans` are the holders of each `Arc<PlanInner>`, `drops` what a thread has still
to destroy, in field order. `sticky` is `sticky_status`; `failures` is a history
variable. A destroy whose context cannot be bound is lost without a status, as
in the code. The check of the status and the matmul that follows are two steps,
so another thread's failure can fall between them: the call goes on, which is
sound because its own plan is retained (`WorkIsSound` asks of a call only that
no failure preceded its check).

### Lease

Both lifecycles implement `Lease` under the mapping `holder <- place`, `busy <-`
the sets with work on the stream, `kept <-` the sets whose resources are
retained (property `ImplementsLease` of each).

## 3. Runs

| Run | Instance | Shows |
|---|---|---|
| `command_queue` | two own sets and a foreign one, 2 commands per scope, ids up to 7 | the safety properties, `ImplementsLease`, `CompletionSettles` |
| `graph_exec` | two sets, 2 commands, launch counter up to 3 | the safety properties, `ImplementsLease`, `ReplaySettles` |
| `block_consensus` | two warps of two lanes, both stages, all findings and flag contents | race freedom, alignment, verdict, termination |
| `rope_append_tokens` | 3 tokens, 3 threads, 2 requests, 4 pages, heads 1+1 | guards equal the contract, one writer |
| `rope_append` | 2 requests with every table around its bounds, 3 with every valid final slot | guards, one writer |
| `rope_append_sentinels` | the same | a documented claim that does not hold, see section 6 |
| `kernel_launch` | about 20000 jobs of all families and algorithms with valid and invalid metadata, tiles of 2 by 2, 3 partitions, warps of 2 lanes in RMSNorm | results, bounds, writers, guards |
| `attention_sentinels` | the ragged jobs of `kernel_launch` | a documented claim that does not hold, see section 6 |
| `ragged_plan` | the constants of the code | a plan that cannot be made, see section 6 |
| `cta_sync` | 3 warps, 2 tiles, all votes | race freedom, no stale read, whole barriers, termination |
| `bindings` | every operator, two sets, 3 commands, one stray argument | disjointness, handles, pairs |
| `provider` | 2 threads, 2 plans, 2 submissions in flight, all destroys may fail | lifetimes and the sticky status |

Why the bounds are enough. Two commands per scope are the smallest capacity at
which a two-command plan fits exactly, fits with one command already submitted
(and must be refused), and at which capacity is exhausted; two sets and ids up
to 7 allow two further scopes after a leaked or failed one, which is what
stale events and left-behind resources need. Three launches let an event hold an
older replay's fence and reach the end of the counter. Two lanes give each warp
a leader and a thread that is not one. Three tokens allow a duplicate between
tokens that are not neighbours, three threads under four pages make the strided
loop wrap, and three requests allow a duplicate between two requests the third
has no part in. Values run from one below to one above each bound.

In `kernel_launch` thresholds, tiles and partitions are scaled down together so
that every algorithm is chosen, a request ends inside a tile of queries and of
K/V rows, several tiles make up a partition, some partitions and warps are
empty, and merges have more partial states than warps; the token-parallel
kernels keep their 8 and 16 warps, with ranges of none, one and several tokens
per warp. All valid metadata of the small shapes and wrong ends, order, lengths
and pages are among the jobs. Three warps leave a pair besides the warp that
merges; two tiles let K of one meet V of the one before. Three commands hold one
pair and one command of another call, or two calls; one stray argument
suffices for every single mistake, and each call has handles of two sets, of
taken buffers and of the same slot to be mistaken for. Two plans and two
submissions let one plan be dropped while the other is in use and in flight.

Deadlock is not checked: a dropped queue, an aborted process, a finished graph
and a finished launch have nothing left to do. The liveness properties cover
waits that must end.

Fairness. `WF(DeviceStep)`: kernels terminate, so the stream makes progress.
Weak fairness of waiting for or dropping a completion: it is an owned Rust
value, so unless it is leaked its holder calls `wait` or runs `Drop`, and the
action is enabled only when the blocking call can return, which is what the
property is about. `BlockConsensus` and `CtaSync` assume that a resident CTA's
threads or warps keep running, that a barrier all have reached opens, and that
issued copies land. Nothing else is assumed: the host may stop calling at any
time.

## 4. Properties

`CommandQueue`: `NoHostAccessInFlight`, `ResourcesOutliveWork`,
`NeverMiscounted`, `ReadyMeansDone`, `PairNeverStranded`,
`NoScopeAfterFailure`, `OnlyCleanBindingsReturn`, `CompletionSettles`,
`ImplementsLease`. `GraphExec`: `FixedBindingsHeld`, `OneReplay`, `ReadyMeansReplayed`,
`NoReplayAfterFailure`, `ReplaySettles`,
`ImplementsLease`. `BlockConsensus`: `NoFlagRace`, `BarriersAligned`,
`VerdictIsConsensus`, `VoteEnds`. `RopeAppendTokens`: `WritesOnlyByContract`,
`AcceptsTheContract`, `OneWriterPerSlot`. `RopeAppend`: `GuardsThePageTable`,
`OneWriterPerSlot`. `KernelLaunch`: `ExactResult`, `InBounds`, `OneWriter`,
`GuardsAreLocal`. `CtaSync`: `NoRace`, `ReadsItsStage`, `BarrierIsWhole`,
`EveryWarpEnds`.
`Bindings`: `OneOwner`, `OperandsDisjoint`, `RunsOnItsHandles`, `PairComplete`.
`Provider`: `WorkIsSound`. Each is stated in words above its definition, and
`PROJECT.json` ties them to the hazards of the code, by line.

## 5. Theorems

`PROJECT.json` lists the theorems with the properties they state; each holds for
every value of the constants that the named `ASSUME`s of the modules allow
(finite capacities, positive sizes, no more tokens than threads, fills that
bindings can make, metadata that has a value for each index). Every invariant
and action property of the passing runs but the four liveness properties is the
statement of a theorem. A safety invariant is proved from an inductive one,
`Inductive`, whose named parts end the module it is about; TLC has checked each
`Inductive` on the instance of that module's run (for `KernelLaunch` all but the
conjunct `job \in Jobs`, which is slow to evaluate and changes in no step). There
is a lemma per action.
A fact about all lengths of a sequence or a fold is proved by a least
counterexample, for the provers cannot instantiate the library's induction
theorems.

*CommandQueue* (`CommandQueueProofs`), for any sets, capacity and id space:
`TypeOK`, `NoHostAccessInFlight`, `ResourcesOutliveWork`, `NeverMiscounted`,
`ReadyMeansDone`, `NoScopeAfterFailure`, `PairNeverStranded`, and the action
property `OnlyCleanBindingsReturn`. None is inductive alone. `Inductive`
adds that exactly the set of the live handle is leased (`HandleOwnsSet`), that
retained resources count the submitted commands (`AccountingExact`), that while
a handle lives the stream holds commands of its scope only (`StreamOfHandle`,
the reason why draining one scope is enough), that a healthy completion's event
is its own fence (`FenceIsOwn`), and that a failure is remembered by the
handle, as poison, or as resources `begin` will find (`FailureRemembered`,
which is what makes leaking a failed scope harmless).

*GraphExec* (`GraphExecProofs`), for any sets, capacity and launch counter:
`TypeOK`, `FixedBindingsHeld`, `OneReplay`, `ReadyMeansReplayed`, and the action
property `NoReplayAfterFailure`. `Inductive` says which object holds the set and
the retained resources in each phase, leaks included (`OwnerHoldsSet`), which
raw handles live when (`HandlesOfPhase`), and that `in_flight` covers what the
stream runs, the event holds the latest launch's fence unless an error says
otherwise, and an unsettled failure sits next to `in_flight`, a settled one is
poison (`ReplayAccounted`).

*Refinement.* Both lifecycles implement `Lease` (`QueueImplementsLease`,
`GraphImplementsLease`): under the mapping of section 2, `Init` implies
`Lease`'s, and each action is a step of it or a stutter, for which the invariant
supplies what the code does not test, for instance that a set that comes back
has no work left on the stream. `Lease`'s own promise `Exclusive` is inductive;
`QueueIsExclusive` carries it over to the queue through the refinement.

*Bindings* (`BindingsProofs`), for any sets, allocations, fills, handles and
lists of the crate's operators: `OneOwner`, `OperandsDisjoint`,
`RunsOnItsHandles`, `PairComplete`. `Inductive` has three legs. Slots are only
added, and a lease is emptied but never replaced, so a handle names its own
buffer or an empty slot (`HandlesNameSlots`). The slots that hold an allocation
determine its owner, one slot if it may be written (`OwnersFollowLeases`). A
set in the scope cannot be bound to or taken from, so it still accepts every
recorded command (`CommandsAccepted`). `PairComplete` needs more than an
invariant: that for split-K the operands of the partial, and for tiled prefill
those of its first check and of its partial, contain all that the merge
resolves, in slots that are distinct because they differ in element type or
extent (`SplitKPairs`, `TiledPairs`), so that a call records all or nothing
(`AllOrNothing`). `MaxStrays` plays no part: the invariant is kept by an enqueue
of any handles that were given out.

*Provider* (`ProviderProofs`), for any threads, plans and submissions:
`WorkIsSound`. `Inductive` says that a descriptor has one owner, the plan being
made, a retained plan, or one place in one thread's queue of destroys
(`OwnersApart`), that owned descriptors are live and so is the handle while
anything is owned (`OwnedIsLive`), that a thread in a call keeps what it uses
(`CallsHold`), and that a failed destroy is not forgotten (`FailureSticks`).

*BlockConsensus* (the end of `RopeAppendTokensProofs`, whose kernel votes
twice), for any number of lanes and any initial flags: `VoteTypeOK`,
`NoFlagRace`, `BarriersAligned`, `VerdictIsConsensus`.
`VoteTypeOK` is proved and not run; it is a conjunct of the invariant.
`Inductive` says that all threads are between the same two barriers
(`Aligned`), that a warp's vote is with its leader until its flag holds it
(`VotesStored`), and that what a thread has read is what the CTA has found
(`ReadsAgree`).

*Explicit append kernel* (`RopeAppendTokensProofs`), for any metadata and thread
count: what the strided partitions of all threads find valid is a valid page
table (`PartitionsCoverTheTable`); writes land inside the pools (`TypeOK`),
happen only for metadata within the host contract (`WritesOnlyByContract`), and
never meet (`OneWriterPerSlot`). Conversely the guards refuse nothing the
contract accepts (`AcceptsTheContract`): that each request's pages end within
the list follows from adjacent requests only by induction over them, which the
proof does by a least counterexample.

*One-token append kernel* (`RopeAppendProofs`), for any table:
`GuardsThePageTable` and `OneWriterPerSlot`. A write was made by a request that
passed its own verdict, at the slot `append_slot` gave it (`WritersAccepted`);
two requests with one slot would each have refused the other.

*CtaSync* (`CtaSyncProofs`), for any number of warps and tiles: `NoRace`,
`ReadsItsStage`, `BarrierIsWhole`. Barriers divide the instructions of a warp
into stages (`Stage`), and `Content` is what each cell holds when a stage
begins. What the five kernels are is proved first, without behaviours
(`Sound`): barriers and nothing else end a stage (`Staged`); a warp writes only
cells of its own, and leaves in them what the next stage begins with
(`Deposits`, `Keeps`); a get wants what its stage begins with (`Wants`); nobody
else reads a cell in the stage of its write, and its writer only before
(`Apart`); no warp ends before a barrier of another (`Whole`). Then the behaviours:
`Inductive` says that all warps are in one stage (`Together`), that the accesses
since the barrier are those of the stage (`TouchedHere`), that only the copy
before a wait is under way (`CopyIsLast`), and that a cell holds what the stage
began with or what its warp has since put there (`HoldsLastWrite`). A vote that
is rejected is the delicate case: every warp goes from the same get to its end,
where a program otherwise has a stage more.

*KernelLaunch* (`KernelLaunchProofs`), for any jobs of all families and sizes,
any metadata, and any tile shape, page size, head size, thresholds, and numbers
of partitions, lanes and RMSNorm or merge warps:
`GuardsAreLocal`, `OneWriter`, `InBounds`, `ExactResult`. `Inductive` says
which kernel ran last, over what, and that a merge finds in the workspace what
the CTAs of the partial kernel left there; what remains is about operators.

- *One row and head.* A CTA of a kernel without a merge is `Sound`: it reads
  only what may be read, and what it writes is the reference of a request that
  holds the row. For the paged kernels this needs that what the guards of the
  pages a warp strides over let through is in the pool (`PagesSeen`,
  `PagedAccepted`); for the ragged ones that a request that passed lies within
  the buffers (`RaggedAccepted`). The proofs use of the metadata what the guards
  on that request and its pages have found, and no more; `GuardsAreLocal` follows.
- *One writer.* A CTA's index is a row and a column of its grid, by division, so
  CTAs of the direct kernels write apart (`GridApart`, `OutputApart`,
  `RmsApart`, `RopeHeadsApart`). In split-K a place names its partition
  (`SplitKApart`). In tiled prefill the tile that `LocateTile` finds is one tile
  of one request, after requests that all passed their guards, hence in order
  (`SoundThen`, `InOrder`, `TileLocated`): rows of two tiles differ even where
  the ends of later requests are invalid (`TiledApart`).
- *Within bounds.* A partition's share of the tokens stays within the request
  (`ShareInterval`), and so do the rows staged of it, tile by tile, padding left
  out (`StagedTokens`, `TileReadable`).
- *Nothing dropped or repeated.* `SplitRange` and `Share` divide their tokens
  (`SplitsDivide`, `SharesDivide`), whatever the rounding, as do the strides of
  RMSNorm's scalar and packed threads (`ScalarDivides`, `PackedDivides`) and
  RoPE's pairs (`RotatedPairs`). Bags of apart sets add up to their union, over
  a block reduction (`TotalOfSets`) and over the merge of partial states
  (`NonEmptyMerge`, `FromFirstMerge`, `FiniteMerge`), where an empty state must
  come in as nothing and never as NaN. The three differ in what they do about
  it: prefill passes over every empty state, paged decode takes the first even
  if it is empty, and split-K combines all, of which none is empty
  (`WarpsActive`).
- *Tiled prefill.* With metadata of the contract, the grid has a block for every
  tile (`TilesFit`: each request wastes less than one tile, so rounding up each
  of `batch` requests fits `ceil(nnz / rows) + batch - 1`), every query row has
  its block (`TileInGrid`, `TileWriter`), the rows a CTA has staged of its
  partition, less those masked or padded, are the tokens the row may see of
  that partition (`TileMerge`, `ScoredTokens`, `PartitionState`), and the merge
  of the partitions is over all it may see (`PartitionMerge`, `TiledMerged`).
- *Assembly.* Each row and head of the output is written, by one CTA, with the
  reference of the only request that holds it (`Completed`, `Holders`,
  `LaunchExact`, `MergeCtasExact`, `SplitKExact`, `TiledExact`).

Only model-checked:

- liveness (`CompletionSettles`, `ReplaySettles`, `VoteEnds`, `EveryWarpEnds`),
  which needs fairness and `ENABLED`, out of the prover's reach;
- the three violations of section 6.

## 6. Findings

*Duplicate slots (`rope_append_sentinels`).* `docs/results/README.md:107-108`
says of the one-token-per-request append kernel that duplicate final slots
"preserve all output sentinels". A CTA returns only for a duplicate its own
request is part of (`rope/mod.rs:164-182`), so with three requests, two of them
sharing a slot, the third's CTAs write. The gates use two requests, where the
claim holds. The explicit kernel, which checks all pairs in every CTA, has the
documented property (`WritesOnlyByContract`). Slots keep one writer in both.

*Eight-warp ragged plans (`ragged_plan`).* `docs/operator-catalog.md:141` says
"Other declared long plans use eight warps." The plan asks for 256 threads
(`attention/prefill.rs:2359-2365`), the kernel's launch contract fixes a block
of 128 (`prefill.rs:1173-1177`), so preparing the launch is refused for every
such specification. `ExactResult` covers the kernel's body where it does run:
the paged eight-warp kernels, and the ragged one with sixteen warps.

*Tiled prefill with invalid endpoints (`attention_sentinels`).*
`docs/development/h20-validation.md:172-174` requires "output NaN sentinels to
remain unchanged" for invalid indptr endpoints. The partial kernel of tiled
GQA4 then writes nothing; its merge (`prefill.rs:2180-2274`) has no metadata to
look at and writes every output row from what the workspace held.

## 7. Plan

Every safety property of the runs is proved; what a further step could add is
the link between levels that is now an argument in words: that the CTA of
`KernelLaunch`, one step, is what the warps of `CtaSync` compute together, and
that the launches of `CommandQueue` run `KernelLaunch`'s kernels over the
operands `Bindings` resolved.

Not modelled: floating-point results and rounding; tensor-core fragment
layouts; overflow of element counts in the contracts' constructors (sizes are of
buffers that exist in device memory); benchmarks and validation gates (they
drive the library and keep no state of their own); the FlashInfer tools,
website and recorded results; the CUDA driver and cuBLASLt, which appear as
external steps that may fail.
