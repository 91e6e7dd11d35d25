------------------------------ MODULE CtaSync ------------------------------
(***************************************************************************)
(* Shared memory and barriers inside one CTA, for the kernels whose warps  *)
(* exchange data: RMSNorm, the token-parallel attention kernels, the       *)
(* split-K merge and tiled prefill.                                        *)
(*                                                                         *)
(* A kernel is one program per warp over shared cells: put, get, an        *)
(* asynchronous copy into shared memory, the wait for one's own copies,    *)
(* and the block barrier.  Between two barriers warps run in any order.    *)
(* Lanes of a warp run together, so a warp is one actor.                   *)
(***************************************************************************)
EXTENDS Integers, Sequences

CONSTANTS
  WarpCount,   \* warps of a CTA (4, 8 or 16)
  MaxTiles     \* bound on the K/V tiles of a partition

ASSUME CtaSyncAssumption == WarpCount \in Nat \ {0} /\ MaxTiles \in Nat

Warps == 0 .. WarpCount - 1

VARIABLES
  kernel,   \* the kernel that runs
  input,    \* what its control flow depends on
  next,     \* next[w]: the instruction warp w is at
  shared,   \* the value of each shared cell
  copying,  \* copying[w]: copies that have not landed
  touched,  \* <<warp, cell, writes>> since the last barrier
  got       \* got[w]: what w's last get wanted and what it read

vars == <<kernel, input, next, shared, copying, touched, got>>

-----------------------------------------------------------------------------
(* Programs *)

Uninit == <<>>
Flag(w) == <<"flag", w>>
State(w) == <<"state", w>>
Sum(w) == <<"sum", w>>
Tile(w) == <<"tile", w>>       \* the part of the K/V tile that w copies
Cells == {"flag", "state", "sum", "tile"} \X Warps

Put(cell, value) == [op |-> "put", cell |-> cell, value |-> value]
Copy(cell, value) == [op |-> "copy", cell |-> cell, value |-> value]
Wait == [op |-> "wait"]
Sync == [op |-> "sync"]
\* Read the cells of `want`; leave the kernel if one holds `leave`.
Get(want, leave) == [op |-> "get", want |-> want, leave |-> leave]
NoLeave == <<"never">>

OnlyIf(condition, program) == IF condition THEN program ELSE <<>>

\* Every warp leaves its partial state, and warp 0 merges those of `from`.
Exchange(w, from) ==
  OnlyIf(w \in from, <<Put(State(w), <<"partial", w>>)>>)
  \o <<Sync>>
  \o OnlyIf(w = 0, <<Get([c \in {State(v) : v \in from} |-> <<"partial", c[2]>>], NoLeave)>>)

\* ragged_prefill_bf16_nhd_causal_token_parallel_impl
RaggedProgram(w) == Exchange(w, Warps)

\* mutant: every warp's state is merged, also of those without a partition
SplitKMergeAllWarps(w) ==
  OnlyIf(w < input.active, <<Put(State(w), <<"partial", w>>)>>)
  \o <<Sync>>
  \o OnlyIf(w = 0, <<Get([c \in {State(v) : v \in Warps} |-> <<"partial", c[2]>>], NoLeave)>>)

\* single_decode_bf16_nhd_split_k_merge: the warps that have a partition.
SplitKMergeProgram(w) == Exchange(w, 0 .. input.active - 1)

\* mutant: a warp with a bad page leaves without the others
PagedProgramLeaves(w) ==
  <<Put(Flag(w), <<"ok", input.metadata>>), Sync>>
  \o IF input.metadata /\ ~input.votes[w] THEN <<>>
     ELSE <<Put(Flag(w), <<"ok", input.metadata /\ input.votes[w]>>), Sync>> \o Exchange(w, Warps)

\* paged_prefill_bf16_nhd_causal_token_parallel_impl and
\* paged_batch_decode_bf16_nhd_token_parallel: a flag for the metadata, the
\* same flag for the pages of the warp's stride, then all flags.  Prefill
\* also leaves, as one, when the query is longer than its tokens.
PagedProgram(w) ==
  <<Put(Flag(w), <<"ok", input.metadata>>), Sync>>
  \o OnlyIf(input.metadata, <<Put(Flag(w), <<"ok", input.votes[w]>>)>>)
  \o <<Sync, Get([c \in {Flag(v) : v \in Warps} |->
                    <<"ok", input.metadata /\ input.votes[c[2]]>>], <<"ok", FALSE>>)>>
  \o OnlyIf(input.fits, Exchange(w, Warps))

\* reduce_inverse_rms_with_epsilon: slot 0 holds a warp's sum, then the
\* broadcast result.
RmsNormProgram(w) ==
  <<Put(Sum(w), <<"sum", w>>), Sync>>
  \o OnlyIf(w = 0, <<Get([c \in {Sum(v) : v \in Warps} |-> c], NoLeave),
                     Put(Sum(0), <<"inverse_rms">>)>>)
  \o <<Sync, Get([c \in {Sum(0)} |-> <<"inverse_rms">>], NoLeave)>>

\* load_tiled_kv_async!: a warp's copies, then its own wait.
Load(w, tile) == <<Copy(Tile(w), tile), Wait>>

WholeTile(tile) == Get([c \in {Tile(v) : v \in Warps} |-> tile], NoLeave)

\* mutant: V is copied over K before every warp has read K
TiledProgramEager(w) ==
  LET tile(t) == Load(w, <<"K", t>>) \o <<Sync, WholeTile(<<"K", t>>)>>
                 \o Load(w, <<"V", t>>) \o <<Sync, WholeTile(<<"V", t>>), Sync>>
  IN [n \in 1 .. 9 * input.tiles |-> tile((n - 1) \div 9 + 1)[((n - 1) % 9) + 1]]

\* K of a tile or V of a tile passes through the shared memory.
Pass(w, part) == Load(w, part) \o <<Sync, WholeTile(part), Sync>>

\* The parts in their order: K and then V of each tile.
Part(k) == <<IF k % 2 = 0 THEN "K" ELSE "V", k \div 2 + 1>>

\* ragged_prefill_bf16_nhd_causal_tiled_gqa4: K and then V of each tile in
\* the same shared memory, five instructions to a part.
TiledProgram(w) ==
  [n \in 1 .. 10 * input.tiles |-> Pass(w, Part((n - 1) \div 5))[((n - 1) % 5) + 1]]

Program(w) ==
  CASE kernel = "ragged"  -> RaggedProgram(w)
    [] kernel = "paged"   -> PagedProgram(w)
    [] kernel = "split_k" -> SplitKMergeProgram(w)
    [] kernel = "rms"     -> RmsNormProgram(w)
    [] kernel = "tiled"   -> TiledProgram(w)

-----------------------------------------------------------------------------
(* Runs of a CTA.  Warps of a CTA see the same metadata, so that the guards   *)
(* before the first barrier are uniform and only `votes` differs by warp.     *)

Inputs(k) ==
  {i \in [metadata : BOOLEAN, votes : [Warps -> BOOLEAN], fits : BOOLEAN,
          active : 1 .. WarpCount, tiles : 0 .. MaxTiles] :
     /\ k # "paged" => i.metadata /\ i.fits /\ \A w \in Warps : i.votes[w]
     /\ k # "split_k" => i.active = WarpCount
     /\ k # "tiled" => i.tiles = 0}

Init ==
  /\ kernel \in {"ragged", "paged", "split_k", "rms", "tiled"}
  /\ input \in Inputs(kernel)
  /\ next = [w \in Warps |-> 1]
  /\ shared = [c \in Cells |-> Uninit]
  /\ copying = [w \in Warps |-> {}]
  /\ touched = {}
  /\ got = [w \in Warps |-> [want |-> <<>>, value |-> <<>>]]

Ended(w) == next[w] > Len(Program(w))
At(w, op) == ~Ended(w) /\ Program(w)[next[w]].op = op
Instruction(w) == Program(w)[next[w]]
Advance(w) == next' = [next EXCEPT ![w] = @ + 1]

DoPut(w) ==
  /\ At(w, "put")
  /\ shared' = [shared EXCEPT ![Instruction(w).cell] = Instruction(w).value]
  /\ touched' = touched \cup {<<w, Instruction(w).cell, TRUE>>}
  /\ Advance(w)
  /\ UNCHANGED <<kernel, input, copying, got>>

DoGet(w) ==
  /\ At(w, "get")
  /\ LET want == Instruction(w).want
         value == [c \in DOMAIN want |-> shared[c]]
         leaves == \E c \in DOMAIN want : value[c] = Instruction(w).leave
     IN /\ got' = [got EXCEPT ![w] = [want |-> want, value |-> value]]
        /\ touched' = touched \cup {<<w, c, FALSE>> : c \in DOMAIN want}
        /\ next' = [next EXCEPT ![w] = IF leaves THEN Len(Program(w)) + 1 ELSE @ + 1]
  /\ UNCHANGED <<kernel, input, shared, copying>>

StartCopy(w) ==
  /\ At(w, "copy")
  /\ copying' = [copying EXCEPT ![w] = @ \cup {Instruction(w)}]
  /\ Advance(w)
  /\ UNCHANGED <<kernel, input, shared, touched, got>>

\* A copy lands when the hardware likes.
CopyLands(w) ==
  /\ \E copy \in copying[w] :
       /\ shared' = [shared EXCEPT ![copy.cell] = copy.value]
       /\ touched' = touched \cup {<<w, copy.cell, TRUE>>}
       /\ copying' = [copying EXCEPT ![w] = @ \ {copy}]
  /\ UNCHANGED <<kernel, input, next, got>>

DoWait(w) ==
  /\ At(w, "wait") /\ copying[w] = {}
  /\ Advance(w)
  /\ UNCHANGED <<kernel, input, shared, copying, touched, got>>

\* sync_threads: all warps of the block, none may have left.
Barrier ==
  /\ \A w \in Warps : At(w, "sync")
  /\ next' = [w \in Warps |-> next[w] + 1]
  /\ touched' = {}
  /\ UNCHANGED <<kernel, input, shared, copying, got>>

WarpStep(w) == DoPut(w) \/ DoGet(w) \/ StartCopy(w) \/ DoWait(w)

Next == Barrier \/ \E w \in Warps : WarpStep(w) \/ CopyLands(w)

\* Warps of a resident CTA are scheduled, and copies are carried out.
Fairness ==
  /\ WF_vars(Barrier)
  /\ \A w \in Warps : WF_vars(WarpStep(w)) /\ WF_vars(CopyLands(w))

Spec == Init /\ [][Next]_vars /\ Fairness
-----------------------------------------------------------------------------
(* Properties *)

\* Between two barriers no warp writes a shared cell that another warp reads
\* or writes: the flag that is rewritten for the pages, the slot that holds a
\* sum and then the broadcast, the tile that holds K and then V.
NoRace ==
  \A a, b \in touched : a[2] = b[2] /\ a[1] # b[1] => ~a[3] /\ ~b[3]

\* A warp reads what the stage it is in was to leave there: no uninitialized
\* state, no flag of the first vote, no K where V is due, no copy still under
\* way.
ReadsItsStage == \A w \in Warps : got[w].value = got[w].want

\* A warp that waits at a barrier has all warps of the CTA with it: none has
\* left, with a different vote or fewer partitions.
BarrierIsWhole == \A w, v \in Warps : At(w, "sync") => ~Ended(v)

\* Every warp of the CTA ends, and none waits for ever at a barrier or for a
\* copy.
EveryWarpEnds == <>(\A w \in Warps : Ended(w))
=============================================================================
