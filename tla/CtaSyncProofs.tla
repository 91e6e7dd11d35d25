--------------------------- MODULE CtaSyncProofs ---------------------------
(***************************************************************************)
(* Theorems about CtaSync, for any number of warps and tiles.              *)
(*                                                                         *)
(* The instructions of a warp fall into stages, one between each two       *)
(* barriers.  What the kernels are is stated first, without behaviours:    *)
(* in a stage a cell has one writer and no other reader, and what a warp   *)
(* gets is what the stages before have left.  The invariant is then that   *)
(* all warps are in the same stage, and that every cell holds what its     *)
(* last finished write has put there.                                      *)
(***************************************************************************)
EXTENDS CtaSync, TLAPS

-----------------------------------------------------------------------------
(* Stages of the programs *)

End(w) == Len(Program(w)) + 1
Is(w, n, op) == n \in DOMAIN Program(w) /\ Program(w)[n].op = op

Writes(w, n, c) == (Is(w, n, "put") \/ Is(w, n, "copy")) /\ Program(w)[n].cell = c
Reads(w, n, c) == Is(w, n, "get") /\ c \in DOMAIN Program(w)[n].want
Leaves(w, n) ==
  Is(w, n, "get") /\ \E c \in DOMAIN Program(w)[n].want :
                       Program(w)[n].want[c] = Program(w)[n].leave

\* Where a warp goes that reads what it wants.
Follows(w, n) == IF Leaves(w, n) THEN End(w) ELSE n + 1

\* The vote of the pages: its get, and whether the CTA leaves there.
VoteGet == IF input.metadata THEN 5 ELSE 4
Voted(v) == <<"ok", input.metadata /\ input.votes[v]>>
Rejected == kernel = "paged" /\ \E v \in Warps : ~(input.metadata /\ input.votes[v])

Places(w) == {n \in 1 .. End(w) : Rejected => n <= VoteGet \/ n = End(w)}

\* The barrier of an exchange.
Meeting(w) == IF w < input.active THEN 2 ELSE 1

\* The barrier behind which the norm is broadcast.
Broadcast(w) == IF w = 0 THEN 5 ELSE 3

ExchangeStage(w, n) == IF n <= Meeting(w) THEN 0 ELSE 1
RmsStage(w, n) == IF n <= 2 THEN 0 ELSE IF n <= Broadcast(w) THEN 1 ELSE 2
PagedStage(n) ==
  IF n <= 2 THEN 0
  ELSE IF n < VoteGet THEN 1
  ELSE IF Rejected \/ n <= VoteGet + 2 THEN 2 ELSE 3
TiledStage(n) == 2 * ((n - 1) \div 5) + (IF (n - 1) % 5 <= 2 THEN 0 ELSE 1)

\* The barriers before instruction n.
Stage(w, n) ==
  CASE kernel \in {"ragged", "split_k"} -> ExchangeStage(w, n)
    [] kernel = "rms"     -> RmsStage(w, n)
    [] kernel = "paged"   -> PagedStage(n)
    [] kernel = "tiled"   -> TiledStage(n)

\* What a cell holds when stage k begins.
Content(c, k) ==
  IF k = 0 THEN Uninit
  ELSE CASE kernel \in {"ragged", "split_k"} ->
              IF c[1] = "state" /\ c[2] < input.active THEN <<"partial", c[2]>> ELSE Uninit
         [] kernel = "rms"     -> IF c[1] # "sum" THEN Uninit
                                  ELSE IF c[2] = 0 /\ k > 1 THEN <<"inverse_rms">> ELSE c
         [] kernel = "paged"   ->
              IF c[1] = "flag"
              THEN IF k > 1 THEN Voted(c[2]) ELSE <<"ok", input.metadata>>
              ELSE IF c[1] = "state" /\ k > 2 THEN <<"partial", c[2]>> ELSE Uninit
         [] kernel = "tiled"   -> IF c[1] = "tile" THEN Part((k - 1) \div 2) ELSE Uninit

-----------------------------------------------------------------------------
(* What the programs are *)

\* Barriers, and nothing else, end a stage.
Staged(w) ==
  /\ Len(Program(w)) \in Nat /\ DOMAIN Program(w) = 1 .. Len(Program(w))
  /\ 1 \in Places(w) /\ Stage(w, 1) = 0
  /\ \A n \in Places(w) : Stage(w, n) \in Nat
  /\ \A n \in Places(w) \ {End(w)} :
       /\ Follows(w, n) \in Places(w)
       /\ Stage(w, Follows(w, n)) = IF Is(w, n, "sync") THEN Stage(w, n) + 1 ELSE Stage(w, n)
       /\ \A m \in Places(w) : m < Follows(w, n) => m <= n
  /\ \A m, n \in Places(w) : m <= n => Stage(w, m) <= Stage(w, n)

ValuesOfCells(f) == f = [c \in DOMAIN f |-> f[c]] /\ DOMAIN f \in SUBSET Cells

\* A copy is waited for at once; gets, puts and copies are of cells.
Formed(w) ==
  /\ \A n \in Places(w) : Is(w, n, "copy") => Is(w, n + 1, "wait")
  /\ \A n \in Places(w) : /\ Is(w, n, "get") => ValuesOfCells(Program(w)[n].want)
                          /\ Is(w, n, "put") \/ Is(w, n, "copy") => Program(w)[n].cell \in Cells

\* A warp writes cells of its own, and leaves in them what the next stage
\* begins with.
Deposits(w) ==
  \A n \in Places(w), c \in Cells : Writes(w, n, c) =>
    /\ c \in Cells /\ c[2] = w
    /\ Program(w)[n].value = Content(c, Stage(w, n) + 1)

\* A get wants what the cells hold when the stage begins.
Wants(w) ==
  \A n \in Places(w), c \in Cells : Reads(w, n, c) =>
    Program(w)[n].want[c] = Content(c, Stage(w, n))

\* Only a write changes a cell.
Keeps(w) ==
  \A c \in Cells, s \in Places(w) :
    /\ Is(w, s, "sync") /\ c[2] = w
    /\ \A n \in Places(w) : Writes(w, n, c) => Stage(w, n) # Stage(w, s)
    => Content(c, Stage(w, s) + 1) = Content(c, Stage(w, s))

\* Only the writer of a cell reads it in the stage, before it writes.
Apart(w, v) ==
  \A n \in Places(w), m \in Places(v), c \in Cells :
    Writes(w, n, c) /\ Reads(v, m, c) /\ Stage(w, n) = Stage(v, m) => v = w /\ m < n

\* No warp ends before a barrier of another.
Whole(w, v) == \A n \in Places(w) : Is(w, n, "sync") => Stage(w, n) < Stage(v, End(v))

Sound ==
  \A w \in Warps :
    /\ Staged(w) /\ Formed(w) /\ Deposits(w) /\ Wants(w) /\ Keeps(w)
    /\ \A v \in Warps : Apart(w, v) /\ Whole(w, v)

-----------------------------------------------------------------------------
(* The invariant *)

Here(w) == Stage(w, next[w])

Typed ==
  /\ kernel \in {"ragged", "paged", "split_k", "rms", "tiled"}
  /\ input \in Inputs(kernel)
  /\ next \in [Warps -> Nat] /\ \A w \in Warps : next[w] \in Places(w)
  /\ DOMAIN shared = Cells
  /\ DOMAIN copying = Warps /\ DOMAIN got = Warps
  /\ touched \in SUBSET (Warps \X Cells \X BOOLEAN)

\* All warps are in the same stage.
Together == \A w, v \in Warps : Here(w) = Here(v)

\* A copy under way is that of the instruction before the wait.
CopyIsLast ==
  \A w \in Warps : \A copy \in copying[w] :
    /\ next[w] - 1 \in Places(w) /\ Is(w, next[w] - 1, "copy")
    /\ Program(w)[next[w] - 1] = copy

\* The accesses since the last barrier are those of instructions of the stage.
TouchedHere ==
  \A w \in Warps, c \in Cells :
    /\ <<w, c, TRUE>> \in touched =>
         \E n \in Places(w) : n < next[w] /\ Stage(w, n) = Here(w) /\ Writes(w, n, c)
    /\ <<w, c, FALSE>> \in touched =>
         \E n \in Places(w) : n < next[w] /\ Stage(w, n) = Here(w) /\ Reads(w, n, c)

\* Whether warp w has written the cell in this stage, and not only begun to.
Written(w, c) ==
  \E n \in Places(w) : /\ n < next[w] /\ Stage(w, n) = Here(w) /\ Writes(w, n, c)
                       /\ n = next[w] - 1 => copying[w] = {}

\* A cell holds what the stage began with or what its warp has written.
HoldsLastWrite ==
  \A w \in Warps, c \in Cells :
    c[2] = w => shared[c] = Content(c, IF Written(w, c) THEN Here(w) + 1 ELSE Here(w))

Inductive ==
  Typed /\ Together /\ CopyIsLast /\ TouchedHere /\ HoldsLastWrite /\ ReadsItsStage

-----------------------------------------------------------------------------
(* The exchange of partial states *)

\* The instructions of an exchange: a put of those that contribute, the barrier,
\* and the get of warp 0.
LEMMA ExchangeCode ==
  ASSUME NEW w, NEW from
  PROVE  LET p == Exchange(w, from)
             get == Get([c \in {State(v) : v \in from} |-> <<"partial", c[2]>>], NoLeave)
         IN /\ DOMAIN p = 1 .. Len(p)
            /\ w \in from => /\ Len(p) = (IF w = 0 THEN 3 ELSE 2)
                             /\ p[1] = Put(State(w), <<"partial", w>>) /\ p[2] = Sync
                             /\ w = 0 => p[3] = get
            /\ w \notin from => /\ Len(p) = (IF w = 0 THEN 2 ELSE 1)
                                /\ p[1] = Sync
                                /\ w = 0 => p[2] = get
<1>1. CASE w \in from
  BY <1>1 DEF Exchange, OnlyIf
<1>2. CASE w \notin from
  BY <1>2 DEF Exchange, OnlyIf
<1> QED BY <1>1, <1>2

\* A cell is its kind and the warp it belongs to.
LEMMA CellParts ==
  /\ \A v : /\ State(v)[1] = "state" /\ State(v)[2] = v /\ Flag(v)[1] = "flag" /\ Flag(v)[2] = v
            /\ Sum(v)[1] = "sum" /\ Sum(v)[2] = v /\ Tile(v)[1] = "tile" /\ Tile(v)[2] = v
  /\ \A v \in Warps : State(v) \in Cells /\ Flag(v) \in Cells /\ Sum(v) \in Cells /\ Tile(v) \in Cells
  /\ \A c \in Cells : /\ c[2] \in Warps
                      /\ c[1] = "state" => c = State(c[2])
                      /\ c[1] = "flag" => c = Flag(c[2])
                      /\ c[1] = "sum" => c = Sum(c[2])
                      /\ c[1] = "tile" => c = Tile(c[2])
BY DEF State, Flag, Sum, Tile, Cells

\* The fields of a put.
LEMMA PutCode ==
  ASSUME NEW c, NEW value
  PROVE  LET i == Put(c, value) IN i.op = "put" /\ i.cell = c /\ i.value = value
BY DEF Put

\* The fields of a copy.
LEMMA CopyCode ==
  ASSUME NEW c, NEW value
  PROVE  LET i == Copy(c, value) IN i.op = "copy" /\ i.cell = c /\ i.value = value
BY DEF Copy

\* The fields of a get.
LEMMA GetCode ==
  ASSUME NEW want, NEW leave
  PROVE  LET i == Get(want, leave) IN i.op = "get" /\ i.want = want /\ i.leave = leave
BY DEF Get

\* The other instructions.
LEMMA OtherCode == Sync.op = "sync" /\ Wait.op = "wait"
BY DEF Sync, Wait

Exchanging == kernel \in {"ragged", "split_k"}
Contributors == 0 .. input.active - 1

\* The exchanging kernels, instruction by instruction.
LEMMA ExchangeOps ==
  ASSUME Exchanging, input \in Inputs(kernel), NEW w \in Warps
  PROVE  LET p == Program(w) IN
         /\ DOMAIN p = 1 .. Len(p)
         /\ Len(p) = (IF w = 0 THEN 3 ELSE Meeting(w))
         /\ \A n : /\ Is(w, n, "put") <=> w < input.active /\ n = 1
                   /\ Is(w, n, "sync") <=> n = Meeting(w)
                   /\ Is(w, n, "get") <=> w = 0 /\ n = 3
                   /\ ~Is(w, n, "copy")
         /\ w < input.active => p[1].cell = State(w) /\ p[1].value = <<"partial", w>>
         /\ w = 0 => /\ p[3].want = [c \in {State(v) : v \in Contributors} |-> <<"partial", c[2]>>]
                     /\ p[3].leave = NoLeave
<1> PICK p : p = Program(w)
  OBVIOUS
<1>1. /\ input.active \in 1 .. WarpCount /\ (kernel = "ragged" => input.active = WarpCount)
      /\ w \in Nat /\ 0 < input.active
  BY CtaSyncAssumption DEF Inputs, Warps
<1>2. p = Exchange(w, Contributors)
  BY <1>1 DEF Program, RaggedProgram, SplitKMergeProgram, Exchanging, Contributors, Warps
<1>3. w \in Contributors <=> w < input.active
  BY <1>1 DEF Contributors
<1>4. /\ DOMAIN p = 1 .. Len(p) /\ Len(p) = (IF w = 0 THEN 3 ELSE Meeting(w))
      /\ w < input.active => p[1] = Put(State(w), <<"partial", w>>)
      /\ p[Meeting(w)] = Sync
      /\ w = 0 => p[3] = Get([c \in {State(v) : v \in Contributors} |-> <<"partial", c[2]>>], NoLeave)
  BY <1>1, <1>2, <1>3, ExchangeCode DEF Meeting
<1>5. /\ w < input.active => p[1].op = "put" /\ p[1].cell = State(w) /\ p[1].value = <<"partial", w>>
      /\ p[Meeting(w)].op = "sync"
      /\ w = 0 => /\ p[3].op = "get" /\ p[3].leave = NoLeave
                  /\ p[3].want = [c \in {State(v) : v \in Contributors} |-> <<"partial", c[2]>>]
  BY <1>4, PutCode, GetCode, OtherCode
<1>6. ASSUME NEW n
      PROVE  n \in DOMAIN p <=> (w < input.active /\ n = 1) \/ n = Meeting(w) \/ (w = 0 /\ n = 3)
  BY <1>1, <1>4 DEF Meeting
<1>7. ASSUME NEW n
      PROVE  /\ Is(w, n, "put") <=> w < input.active /\ n = 1
             /\ Is(w, n, "sync") <=> n = Meeting(w)
             /\ Is(w, n, "get") <=> w = 0 /\ n = 3
             /\ ~Is(w, n, "copy")
  <2>1. Meeting(w) # 3 /\ ~(w < input.active /\ Meeting(w) = 1)
    BY DEF Meeting
  <2>2. \A op : Is(w, n, op) <=> n \in DOMAIN p /\ p[n].op = op
    BY DEF Is
  <2> QED BY <1>5, <1>6, <2>1, <2>2
<1> QED BY <1>4, <1>5, <1>7

\* What the exchanging kernels write and read, and with which values.
LEMMA ExchangeCells ==
  ASSUME Exchanging, input \in Inputs(kernel), NEW w \in Warps, NEW n
  PROVE  /\ ~Leaves(w, n)
         /\ Is(w, n, "get") => ValuesOfCells(Program(w)[n].want)
         /\ Is(w, n, "put") \/ Is(w, n, "copy") => Program(w)[n].cell \in Cells
         /\ \A c \in Cells :
              /\ Writes(w, n, c) <=> w < input.active /\ n = 1 /\ c = State(w)
              /\ Writes(w, n, c) => Program(w)[n].value = <<"partial", w>>
              /\ Reads(w, n, c) =>
                   /\ w = 0 /\ n = 3 /\ c[1] = "state" /\ c[2] < input.active
                   /\ Program(w)[n].want[c] = <<"partial", c[2]>>
<1> PICK p : p = Program(w)
  OBVIOUS
<1>1. /\ Is(w, n, "put") <=> w < input.active /\ n = 1
      /\ Is(w, n, "get") <=> w = 0 /\ n = 3
      /\ ~Is(w, n, "copy")
      /\ w < input.active => p[1].cell = State(w) /\ p[1].value = <<"partial", w>>
      /\ w = 0 => /\ p[3].want = [c \in {State(v) : v \in Contributors} |-> <<"partial", c[2]>>]
                  /\ p[3].leave = NoLeave
  BY ExchangeOps
<1>2. \A v \in Contributors : v \in Warps /\ v < input.active
  BY CtaSyncAssumption DEF Contributors, Inputs, Warps
<1>3. ASSUME Is(w, n, "get")
      PROVE  /\ w = 0 /\ n = 3
             /\ \A c \in DOMAIN p[n].want : \E v \in Contributors : c = State(v) /\ p[n].want[c] = <<"partial", v>>
  BY <1>1, <1>3, CellParts
<1>4. ASSUME NEW c \in Cells
      PROVE  /\ Writes(w, n, c) <=> w < input.active /\ n = 1 /\ c = State(w)
             /\ Writes(w, n, c) => p[n].value = <<"partial", w>>
  BY <1>1 DEF Writes
<1>5. ASSUME NEW c \in Cells, Reads(w, n, c)
      PROVE  /\ w = 0 /\ n = 3 /\ c[1] = "state" /\ c[2] < input.active
             /\ p[n].want[c] = <<"partial", c[2]>>
  BY <1>2, <1>3, <1>5, CellParts DEF Reads
<1>6. ~Leaves(w, n)
  <2>1. Is(w, n, "get") => p[n].leave = NoLeave
    BY <1>1
  <2>2. \A v : <<"partial", v>> # NoLeave
    BY DEF NoLeave
  <2> QED BY <1>3, <2>1, <2>2 DEF Leaves
<1>7. Is(w, n, "get") => ValuesOfCells(p[n].want)
  <2>1. Is(w, n, "get") => DOMAIN p[n].want \in SUBSET Cells
    BY <1>2, <1>3, CellParts
  <2>2. Is(w, n, "get") => p[n].want = [c \in DOMAIN p[n].want |-> p[n].want[c]]
    BY <1>1
  <2> QED BY <2>1, <2>2 DEF ValuesOfCells
<1>8. Is(w, n, "put") \/ Is(w, n, "copy") => p[n].cell \in Cells
  BY <1>1, CellParts
<1> QED BY <1>4, <1>5, <1>6, <1>7, <1>8

\* ragged_prefill_bf16_nhd_causal_token_parallel_impl and the split-K merge:
\* only partitions that exist are stored and merged, on either side of one barrier.
LEMMA ExchangeSound ==
  ASSUME Exchanging, input \in Inputs(kernel), NEW w \in Warps
  PROVE  /\ Staged(w) /\ Formed(w) /\ Deposits(w) /\ Wants(w) /\ Keeps(w)
         /\ \A v \in Warps : Apart(w, v) /\ Whole(w, v)
<1>1. \A v \in Warps :
        /\ DOMAIN Program(v) = 1 .. Len(Program(v))
        /\ Len(Program(v)) = (IF v = 0 THEN 3 ELSE Meeting(v))
        /\ \A n : Is(v, n, "sync") <=> n = Meeting(v)
        /\ \A n : ~Leaves(v, n)
        /\ \A n : ~Is(v, n, "copy")
  BY ExchangeOps, ExchangeCells
<1>2. \A v \in Warps : /\ End(v) = (IF v = 0 THEN 4 ELSE Meeting(v) + 1)
                       /\ Places(v) = 1 .. End(v)
  <2>1. ~Rejected
    BY DEF Rejected, Exchanging
  <2>2. ASSUME NEW v \in Warps
        PROVE  End(v) = IF v = 0 THEN 4 ELSE Meeting(v) + 1
    <3>1. Len(Program(v)) = IF v = 0 THEN 3 ELSE Meeting(v)
      BY <1>1
    <3>2. CASE v = 0
      BY <3>1, <3>2 DEF End
    <3>3. CASE v # 0
      BY <3>1, <3>3 DEF End
    <3> QED BY <3>2, <3>3
  <2> QED BY <2>1, <2>2 DEF Places
<1>3. ASSUME NEW v \in Warps, NEW n \in Nat
      PROVE  Stage(v, n) = IF n <= Meeting(v) THEN 0 ELSE 1
  BY DEF Stage, ExchangeStage, Exchanging
<1>4. \A v \in Warps : v \in Nat /\ Meeting(v) \in 1 .. 2 /\ (v = 0 => Meeting(v) = 2)
  BY CtaSyncAssumption DEF Meeting, Inputs, Warps
<1>5. Staged(w)
  <2>1. /\ Len(Program(w)) \in Nat /\ 1 \in Places(w) /\ Stage(w, 1) = 0
        /\ \A n \in Places(w) : Stage(w, n) \in Nat
    BY <1>1, <1>2, <1>3, <1>4
  <2>2. ASSUME NEW n \in Places(w) \ {End(w)}
        PROVE  /\ Follows(w, n) = n + 1 /\ n + 1 \in Places(w)
               /\ Stage(w, n + 1) = IF Is(w, n, "sync") THEN Stage(w, n) + 1 ELSE Stage(w, n)
               /\ \A m \in Places(w) : m < n + 1 => m <= n
    <3>1. Follows(w, n) = n + 1
      BY <1>1 DEF Follows
    <3>2. n + 1 \in Places(w) /\ \A m \in Places(w) : m < n + 1 => m <= n
      BY <1>2, <1>4
    <3>3. Stage(w, n + 1) = IF n = Meeting(w) THEN Stage(w, n) + 1 ELSE Stage(w, n)
      BY <1>2, <1>3, <1>4
    <3>4. Is(w, n, "sync") <=> n = Meeting(w)
      BY <1>1
    <3> QED BY <3>1, <3>2, <3>3, <3>4
  <2>3. \A m, n \in Places(w) : m <= n => Stage(w, m) <= Stage(w, n)
    BY <1>2, <1>3, <1>4
  <2> QED BY <1>1, <2>1, <2>2, <2>3 DEF Staged
<1>6. Formed(w)
  BY <1>1, ExchangeCells DEF Formed
<1>7. \A c, k : Content(c, k) = IF k = 0 THEN Uninit
                                ELSE IF c[1] = "state" /\ c[2] < input.active
                                     THEN <<"partial", c[2]>> ELSE Uninit
  BY DEF Content, Exchanging
<1>8. Deposits(w)
  <2> SUFFICES ASSUME NEW n \in Places(w), NEW c \in Cells, Writes(w, n, c)
               PROVE  /\ c \in Cells /\ c[2] = w
                      /\ Program(w)[n].value = Content(c, Stage(w, n) + 1)
    BY DEF Deposits
  <2>1. w < input.active /\ n = 1 /\ c = State(w) /\ Program(w)[n].value = <<"partial", w>>
    BY ExchangeCells
  <2>2. Stage(w, n) = 0
    BY <2>1, <1>3, <1>4
  <2> QED BY <2>1, <2>2, <1>7, CellParts
<1>9. Wants(w)
  <2> SUFFICES ASSUME NEW n \in Places(w), NEW c \in Cells, Reads(w, n, c)
               PROVE  Program(w)[n].want[c] = Content(c, Stage(w, n))
    BY DEF Wants
  <2>1. /\ w = 0 /\ n = 3 /\ c[1] = "state" /\ c[2] < input.active
        /\ Program(w)[n].want[c] = <<"partial", c[2]>>
    BY ExchangeCells
  <2>2. Stage(w, n) = 1
    BY <2>1, <1>3, <1>4
  <2> QED BY <2>1, <2>2, <1>7
<1>10. Keeps(w)
  <2> SUFFICES ASSUME NEW c \in Cells, NEW s \in Places(w), Is(w, s, "sync"), c[2] = w,
                      \A n \in Places(w) : Writes(w, n, c) => Stage(w, n) # Stage(w, s)
               PROVE  Content(c, Stage(w, s) + 1) = Content(c, Stage(w, s))
    BY DEF Keeps
  <2>1. s = Meeting(w) /\ Stage(w, s) = 0 /\ Stage(w, 1) = 0 /\ 1 \in Places(w)
    BY <1>1, <1>2, <1>3, <1>4
  <2>2. ~Writes(w, 1, c)
    BY <2>1
  <2>3. ~(w < input.active /\ c = State(w))
    BY <2>2, ExchangeCells
  <2>4. ~(c[1] = "state" /\ c[2] < input.active)
    BY <2>3, CellParts
  <2> QED BY <2>1, <2>4, <1>7
<1>11. ASSUME NEW v \in Warps
       PROVE  Apart(w, v) /\ Whole(w, v)
  <2>1. ASSUME NEW n \in Places(w), NEW m \in Places(v), NEW c \in Cells,
               Writes(w, n, c), Reads(v, m, c)
        PROVE  Stage(w, n) # Stage(v, m)
    <3>1. n = 1 /\ m = 3
      BY <2>1, ExchangeCells
    <3> QED BY <3>1, <1>3, <1>4
  <2>2. Apart(w, v)
    BY <2>1 DEF Apart
  <2>3. Whole(w, v)
    BY <1>1, <1>2, <1>3, <1>4 DEF Whole
  <2> QED BY <2>2, <2>3
<1> QED BY <1>5, <1>6, <1>8, <1>9, <1>10, <1>11

-----------------------------------------------------------------------------
(* RMSNorm *)

\* reduce_inverse_rms_with_epsilon, instruction by instruction.
LEMMA RmsOps ==
  ASSUME kernel = "rms", NEW w \in Warps
  PROVE  LET p == Program(w) IN
         /\ DOMAIN p = 1 .. Len(p) /\ Len(p) = Broadcast(w) + 1
         /\ \A n : /\ Is(w, n, "put") <=> n = 1 \/ (w = 0 /\ n = 4)
                   /\ Is(w, n, "sync") <=> n = 2 \/ n = Broadcast(w)
                   /\ Is(w, n, "get") <=> n = Broadcast(w) + 1 \/ (w = 0 /\ n = 3)
                   /\ ~Is(w, n, "copy")
         /\ p[1].cell = Sum(w) /\ p[1].value = <<"sum", w>>
         /\ w = 0 => p[4].cell = Sum(0) /\ p[4].value = <<"inverse_rms">>
         /\ w = 0 => p[3].want = [c \in {Sum(v) : v \in Warps} |-> c] /\ p[3].leave = NoLeave
         /\ p[Broadcast(w) + 1].want = [c \in {Sum(0)} |-> <<"inverse_rms">>]
         /\ p[Broadcast(w) + 1].leave = NoLeave
<1> PICK p : p = Program(w)
  OBVIOUS
<1>1. p = RmsNormProgram(w)
  BY DEF Program
<1>2. CASE w = 0
  <2>1. /\ DOMAIN p = 1 .. 6 /\ Len(p) = 6
        /\ p[1] = Put(Sum(w), <<"sum", w>>) /\ p[2] = Sync
        /\ p[3] = Get([c \in {Sum(v) : v \in Warps} |-> c], NoLeave)
        /\ p[4] = Put(Sum(0), <<"inverse_rms">>)
        /\ p[5] = Sync
        /\ p[6] = Get([c \in {Sum(0)} |-> <<"inverse_rms">>], NoLeave)
    BY <1>1, <1>2 DEF RmsNormProgram, OnlyIf
  <2>2. /\ p[1].op = "put" /\ p[2].op = "sync" /\ p[3].op = "get" /\ p[4].op = "put"
        /\ p[5].op = "sync" /\ p[6].op = "get"
        /\ p[1].cell = Sum(w) /\ p[1].value = <<"sum", w>>
        /\ p[4].cell = Sum(0) /\ p[4].value = <<"inverse_rms">>
        /\ p[3].want = [c \in {Sum(v) : v \in Warps} |-> c] /\ p[3].leave = NoLeave
        /\ p[6].want = [c \in {Sum(0)} |-> <<"inverse_rms">>] /\ p[6].leave = NoLeave
    BY <2>1, PutCode, GetCode, OtherCode
  <2>3. Broadcast(w) = 5
    BY <1>2 DEF Broadcast
  <2>4. ASSUME NEW n
        PROVE  n \in DOMAIN p <=> n = 1 \/ n = 2 \/ n = 3 \/ n = 4 \/ n = 5 \/ n = 6
    BY <2>1
  <2>5. \A n, op : Is(w, n, op) <=> n \in DOMAIN p /\ p[n].op = op
    BY DEF Is
  <2>6. ASSUME NEW n
        PROVE  /\ Is(w, n, "put") <=> n = 1 \/ n = 4
               /\ Is(w, n, "sync") <=> n = 2 \/ n = 5
               /\ Is(w, n, "get") <=> n = 6 \/ n = 3
               /\ ~Is(w, n, "copy")
    BY <2>2, <2>4, <2>5
  <2>7. Broadcast(w) + 1 = 6
    BY <2>3
  <2>8. DOMAIN p = 1 .. Len(p) /\ Len(p) = Broadcast(w) + 1
    BY <2>1, <2>7
  <2>9. \A n : /\ Is(w, n, "put") <=> n = 1 \/ (w = 0 /\ n = 4)
               /\ Is(w, n, "sync") <=> n = 2 \/ n = Broadcast(w)
               /\ Is(w, n, "get") <=> n = Broadcast(w) + 1 \/ (w = 0 /\ n = 3)
               /\ ~Is(w, n, "copy")
    BY <1>2, <2>3, <2>6, <2>7
  <2> QED BY <2>2, <2>7, <2>8, <2>9
<1>3. CASE w # 0
  <2>1. /\ DOMAIN p = 1 .. 4 /\ Len(p) = 4
        /\ p[1] = Put(Sum(w), <<"sum", w>>) /\ p[2] = Sync
        /\ p[3] = Sync
        /\ p[4] = Get([c \in {Sum(0)} |-> <<"inverse_rms">>], NoLeave)
    BY <1>1, <1>3 DEF RmsNormProgram, OnlyIf
  <2>2. /\ p[1].op = "put" /\ p[2].op = "sync" /\ p[3].op = "sync" /\ p[4].op = "get"
        /\ p[1].cell = Sum(w) /\ p[1].value = <<"sum", w>>
        /\ p[4].want = [c \in {Sum(0)} |-> <<"inverse_rms">>] /\ p[4].leave = NoLeave
    BY <2>1, PutCode, GetCode, OtherCode
  <2>3. Broadcast(w) = 3
    BY <1>3 DEF Broadcast
  <2>4. ASSUME NEW n
        PROVE  n \in DOMAIN p <=> n = 1 \/ n = 2 \/ n = 3 \/ n = 4
    BY <2>1
  <2>5. \A n, op : Is(w, n, op) <=> n \in DOMAIN p /\ p[n].op = op
    BY DEF Is
  <2>6. ASSUME NEW n
        PROVE  /\ Is(w, n, "put") <=> n = 1
               /\ Is(w, n, "sync") <=> n = 2 \/ n = 3
               /\ Is(w, n, "get") <=> n = 4
               /\ ~Is(w, n, "copy")
    BY <2>2, <2>4, <2>5
  <2>7. Broadcast(w) + 1 = 4
    BY <2>3
  <2>8. DOMAIN p = 1 .. Len(p) /\ Len(p) = Broadcast(w) + 1
    BY <2>1, <2>7
  <2>9. \A n : /\ Is(w, n, "put") <=> n = 1 \/ (w = 0 /\ n = 4)
               /\ Is(w, n, "sync") <=> n = 2 \/ n = Broadcast(w)
               /\ Is(w, n, "get") <=> n = Broadcast(w) + 1 \/ (w = 0 /\ n = 3)
               /\ ~Is(w, n, "copy")
    BY <1>3, <2>3, <2>6, <2>7
  <2> QED BY <1>3, <2>2, <2>7, <2>8, <2>9
<1> QED BY <1>2, <1>3

\* Warp 0 gets the sums, and all warps the broadcast.
RmsGets(w, n, c) ==
  \/ w = 0 /\ n = 3 /\ Program(w)[n].want[c] = c
  \/ n = Broadcast(w) + 1 /\ c[2] = 0 /\ Program(w)[n].want[c] = <<"inverse_rms">>

\* What the reduction writes and reads: slot 0 holds a sum and then the result.
LEMMA RmsCells ==
  ASSUME kernel = "rms", NEW w \in Warps, NEW n
  PROVE  /\ ~Leaves(w, n)
         /\ Is(w, n, "get") => ValuesOfCells(Program(w)[n].want)
         /\ Is(w, n, "put") \/ Is(w, n, "copy") => Program(w)[n].cell \in Cells
         /\ \A c \in Cells :
              /\ Writes(w, n, c) <=> c = Sum(w) /\ (n = 1 \/ (w = 0 /\ n = 4))
              /\ Writes(w, n, c) => Program(w)[n].value = (IF n = 1 THEN c ELSE <<"inverse_rms">>)
              /\ Reads(w, n, c) => c[1] = "sum" /\ RmsGets(w, n, c)
<1> PICK p : p = Program(w)
  OBVIOUS
<1>1. /\ Is(w, n, "put") <=> n = 1 \/ (w = 0 /\ n = 4)
      /\ Is(w, n, "get") <=> n = Broadcast(w) + 1 \/ (w = 0 /\ n = 3)
      /\ ~Is(w, n, "copy")
      /\ p[1].cell = Sum(w) /\ p[1].value = <<"sum", w>>
      /\ w = 0 => p[4].cell = Sum(0) /\ p[4].value = <<"inverse_rms">>
      /\ w = 0 => p[3].want = [c \in {Sum(v) : v \in Warps} |-> c] /\ p[3].leave = NoLeave
      /\ p[Broadcast(w) + 1].want = [c \in {Sum(0)} |-> <<"inverse_rms">>]
      /\ p[Broadcast(w) + 1].leave = NoLeave
  BY RmsOps
<1>2. 0 \in Warps
  BY CtaSyncAssumption DEF Warps
<1>3. ASSUME Is(w, n, "get")
      PROVE  \A c \in DOMAIN p[n].want :
               \E v \in Warps :
                 /\ c = Sum(v)
                 /\ \/ w = 0 /\ n = 3 /\ p[n].want[c] = c
                    \/ n = Broadcast(w) + 1 /\ v = 0 /\ p[n].want[c] = <<"inverse_rms">>
  <2>1. CASE n = Broadcast(w) + 1
    BY <1>1, <1>2, <2>1
  <2>2. CASE w = 0 /\ n = 3
    BY <1>1, <2>2
  <2> QED BY <1>1, <1>3, <2>1, <2>2
<1>4. ASSUME NEW c \in Cells
      PROVE  /\ Writes(w, n, c) <=> c = Sum(w) /\ (n = 1 \/ (w = 0 /\ n = 4))
             /\ Writes(w, n, c) => p[n].value = IF n = 1 THEN c ELSE <<"inverse_rms">>
  <2>1. CASE n = 1
    BY <1>1, <2>1 DEF Writes, Sum
  <2>2. CASE n # 1
    BY <1>1, <2>2 DEF Writes
  <2> QED BY <2>1, <2>2
<1>5. ASSUME NEW c \in Cells, Reads(w, n, c)
      PROVE  c[1] = "sum" /\ RmsGets(w, n, c)
  BY <1>3, <1>5, CellParts DEF Reads, RmsGets
<1>6. ~Leaves(w, n)
  <2>1. Is(w, n, "get") => p[n].leave = NoLeave
    BY <1>1
  <2>2. <<"inverse_rms">> # NoLeave /\ \A v : Sum(v) # NoLeave
    BY DEF NoLeave, Sum
  <2> QED BY <1>3, <2>1, <2>2 DEF Leaves
<1>7. Is(w, n, "get") => ValuesOfCells(p[n].want)
  <2>1. Is(w, n, "get") => DOMAIN p[n].want \in SUBSET Cells
    BY <1>3, CellParts
  <2>2. Is(w, n, "get") => p[n].want = [c \in DOMAIN p[n].want |-> p[n].want[c]]
    BY <1>1
  <2> QED BY <2>1, <2>2 DEF ValuesOfCells
<1>8. Is(w, n, "put") \/ Is(w, n, "copy") => p[n].cell \in Cells
  BY <1>1, CellParts
<1> QED BY <1>4, <1>5, <1>6, <1>7, <1>8

\* Slot 0 is overwritten in the stage in which only warp 0 has read the sums.
LEMMA RmsSound ==
  ASSUME kernel = "rms", NEW w \in Warps
  PROVE  /\ Staged(w) /\ Formed(w) /\ Deposits(w) /\ Wants(w) /\ Keeps(w)
         /\ \A v \in Warps : Apart(w, v) /\ Whole(w, v)
<1>1. \A v \in Warps :
        /\ DOMAIN Program(v) = 1 .. Len(Program(v))
        /\ Len(Program(v)) = Broadcast(v) + 1
        /\ \A n : Is(v, n, "sync") <=> n = 2 \/ n = Broadcast(v)
        /\ \A n : ~Leaves(v, n)
        /\ \A n : ~Is(v, n, "copy")
  BY RmsOps, RmsCells
<1>2. \A v \in Warps : /\ End(v) = Broadcast(v) + 2
                       /\ Places(v) = 1 .. End(v)
  <2>1. ~Rejected
    BY DEF Rejected
  <2>2. ASSUME NEW v \in Warps
        PROVE  End(v) = Broadcast(v) + 2
    <3>1. Len(Program(v)) = Broadcast(v) + 1 /\ Broadcast(v) \in Nat
      BY <1>1 DEF Broadcast
    <3> QED BY <3>1 DEF End
  <2> QED BY <2>1, <2>2 DEF Places
<1>3. ASSUME NEW v \in Warps, NEW n \in Nat
      PROVE  Stage(v, n) = IF n <= 2 THEN 0 ELSE IF n <= Broadcast(v) THEN 1 ELSE 2
  BY DEF Stage, RmsStage
<1>4. \A v \in Warps : /\ Broadcast(v) \in Nat /\ Broadcast(v) \in {3, 5}
                       /\ Broadcast(v) = 5 <=> v = 0
  BY DEF Broadcast
<1>5. Staged(w)
  <2>1. /\ Len(Program(w)) \in Nat /\ 1 \in Places(w) /\ Stage(w, 1) = 0
        /\ \A n \in Places(w) : Stage(w, n) \in Nat
    BY <1>1, <1>2, <1>3, <1>4
  <2>2. ASSUME NEW n \in Places(w) \ {End(w)}
        PROVE  /\ Follows(w, n) = n + 1 /\ n + 1 \in Places(w)
               /\ Stage(w, n + 1) = IF Is(w, n, "sync") THEN Stage(w, n) + 1 ELSE Stage(w, n)
               /\ \A m \in Places(w) : m < n + 1 => m <= n
    <3>1. Follows(w, n) = n + 1
      BY <1>1 DEF Follows
    <3>2. n + 1 \in Places(w) /\ \A m \in Places(w) : m < n + 1 => m <= n
      BY <1>2, <1>4
    <3>3. Stage(w, n + 1) = IF n = 2 \/ n = Broadcast(w) THEN Stage(w, n) + 1 ELSE Stage(w, n)
      BY <1>2, <1>3, <1>4
    <3>4. Is(w, n, "sync") <=> n = 2 \/ n = Broadcast(w)
      BY <1>1
    <3> QED BY <3>1, <3>2, <3>3, <3>4
  <2>3. \A m, n \in Places(w) : m <= n => Stage(w, m) <= Stage(w, n)
    BY <1>2, <1>3, <1>4
  <2> QED BY <1>1, <2>1, <2>2, <2>3 DEF Staged
<1>6. Formed(w)
  BY <1>1, RmsCells DEF Formed
<1>7. \A c, k : Content(c, k) = IF k = 0 \/ c[1] # "sum" THEN Uninit
                                ELSE IF c[2] = 0 /\ k > 1 THEN <<"inverse_rms">> ELSE c
  BY DEF Content
<1>8. Deposits(w)
  <2> SUFFICES ASSUME NEW n \in Places(w), NEW c \in Cells, Writes(w, n, c)
               PROVE  /\ c \in Cells /\ c[2] = w
                      /\ Program(w)[n].value = Content(c, Stage(w, n) + 1)
    BY DEF Deposits
  <2>1. /\ c = Sum(w) /\ (n = 1 \/ (w = 0 /\ n = 4))
        /\ Program(w)[n].value = (IF n = 1 THEN c ELSE <<"inverse_rms">>)
    BY RmsCells
  <2>2. Stage(w, n) = IF n = 1 THEN 0 ELSE 1
    BY <2>1, <1>3, <1>4
  <2>3. c[1] = "sum" /\ c[2] = w
    BY <2>1, CellParts
  <2> QED BY <2>1, <2>2, <2>3, <1>7
<1>9. Wants(w)
  <2> SUFFICES ASSUME NEW n \in Places(w), NEW c \in Cells, Reads(w, n, c)
               PROVE  Program(w)[n].want[c] = Content(c, Stage(w, n))
    BY DEF Wants
  <2>1. c[1] = "sum" /\ RmsGets(w, n, c)
    BY RmsCells
  <2>2. /\ w = 0 /\ n = 3 => Stage(w, n) = 1
        /\ n = Broadcast(w) + 1 => Stage(w, n) = 2
    BY <1>3, <1>4
  <2> QED BY <2>1, <2>2, <1>7 DEF RmsGets
<1>10. Keeps(w)
  <2> SUFFICES ASSUME NEW c \in Cells, NEW s \in Places(w), Is(w, s, "sync"), c[2] = w,
                      \A n \in Places(w) : Writes(w, n, c) => Stage(w, n) # Stage(w, s)
               PROVE  Content(c, Stage(w, s) + 1) = Content(c, Stage(w, s))
    BY DEF Keeps
  <2>1. s = 2 \/ s = Broadcast(w)
    BY <1>1
  <2>2. CASE s = 2
    <3>1. Stage(w, s) = 0 /\ Stage(w, 1) = 0 /\ 1 \in Places(w)
      BY <2>2, <1>2, <1>3, <1>4
    <3>2. c # Sum(w)
      BY <3>1, RmsCells
    <3>3. c[1] # "sum"
      BY <3>2, CellParts
    <3> QED BY <3>1, <3>3, <1>7
  <2>3. CASE s = Broadcast(w)
    <3>1. Stage(w, s) = 1 /\ (w = 0 => Stage(w, 4) = 1 /\ 4 \in Places(w))
      BY <2>3, <1>2, <1>3, <1>4
    <3>2. w = 0 => c # Sum(w)
      BY <3>1, RmsCells
    <3>3. c[1] # "sum" \/ c[2] # 0
      BY <3>2, CellParts
    <3> QED BY <3>1, <3>3, <1>7
  <2> QED BY <2>1, <2>2, <2>3
<1>11. ASSUME NEW v \in Warps
       PROVE  Apart(w, v) /\ Whole(w, v)
  <2>1. ASSUME NEW n \in Places(w), NEW m \in Places(v), NEW c \in Cells,
               Writes(w, n, c), Reads(v, m, c), Stage(w, n) = Stage(v, m)
        PROVE  v = w /\ m < n
    <3>1. n = 1 \/ (w = 0 /\ n = 4)
      BY <2>1, RmsCells
    <3>2. (v = 0 /\ m = 3) \/ m = Broadcast(v) + 1
      BY <2>1, RmsCells DEF RmsGets
    <3>3. Stage(w, n) = IF n = 1 THEN 0 ELSE 1
      BY <3>1, <1>3, <1>4
    <3>4. /\ v = 0 /\ m = 3 => Stage(v, m) = 1
          /\ m = Broadcast(v) + 1 => Stage(v, m) = 2
      BY <1>3, <1>4
    <3> QED BY <2>1, <3>1, <3>2, <3>3, <3>4
  <2>2. Apart(w, v)
    BY <2>1 DEF Apart
  <2>3. Whole(w, v)
    BY <1>1, <1>2, <1>3, <1>4 DEF Whole
  <2> QED BY <2>2, <2>3
<1> QED BY <1>5, <1>6, <1>8, <1>9, <1>10, <1>11

-----------------------------------------------------------------------------
(* The paged kernels *)

Vote == Get([c \in {Flag(v) : v \in Warps} |-> <<"ok", input.metadata /\ input.votes[c[2]]>>],
            <<"ok", FALSE>>)
Merge == Get([c \in {State(v) : v \in Warps} |-> <<"partial", c[2]>>], NoLeave)

PagedEnd(w) == IF ~input.fits THEN VoteGet ELSE IF w = 0 THEN VoteGet + 3 ELSE VoteGet + 2

\* The instructions of the paged kernels: two votes in one set of flags, and the
\* exchange if the query fits.
LEMMA PagedCode ==
  ASSUME NEW w \in Warps
  PROVE  LET p == PagedProgram(w) IN
         /\ DOMAIN p = 1 .. Len(p) /\ Len(p) = PagedEnd(w)
         /\ p[1] = Put(Flag(w), <<"ok", input.metadata>>) /\ p[2] = Sync
         /\ input.metadata => p[3] = Put(Flag(w), <<"ok", input.votes[w]>>)
         /\ p[VoteGet - 1] = Sync /\ p[VoteGet] = Vote
         /\ input.fits => /\ p[VoteGet + 1] = Put(State(w), <<"partial", w>>)
                          /\ p[VoteGet + 2] = Sync
                          /\ w = 0 => p[VoteGet + 3] = Merge
<1>1. CASE ~input.fits
  <2>1. CASE input.metadata
    BY <1>1, <2>1 DEF PagedProgram, OnlyIf, VoteGet, PagedEnd, Vote
  <2>2. CASE ~input.metadata
    BY <1>1, <2>2 DEF PagedProgram, OnlyIf, VoteGet, PagedEnd, Vote
  <2> QED BY <2>1, <2>2
<1>2. CASE input.fits /\ w = 0
  <2>1. CASE input.metadata
    BY <1>2, <2>1 DEF PagedProgram, OnlyIf, VoteGet, PagedEnd, Vote, Merge, Exchange
  <2>2. CASE ~input.metadata
    BY <1>2, <2>2 DEF PagedProgram, OnlyIf, VoteGet, PagedEnd, Vote, Merge, Exchange
  <2> QED BY <2>1, <2>2
<1>3. CASE input.fits /\ w # 0
  <2>1. CASE input.metadata
    BY <1>3, <2>1 DEF PagedProgram, OnlyIf, VoteGet, PagedEnd, Vote, Exchange
  <2>2. CASE ~input.metadata
    BY <1>3, <2>2 DEF PagedProgram, OnlyIf, VoteGet, PagedEnd, Vote, Exchange
  <2> QED BY <2>1, <2>2
<1> QED BY <1>1, <1>2, <1>3

\* Where the vote of the pages is read, and when the CTA leaves there.
LEMMA VoteFacts ==
  ASSUME kernel = "paged", input \in Inputs(kernel)
  PROVE  /\ VoteGet \in {4, 5} /\ (VoteGet = 5 <=> input.metadata)
         /\ \A v \in Warps :
              /\ Voted(v) = IF input.metadata THEN <<"ok", input.votes[v]>> ELSE <<"ok", input.metadata>>
              /\ Voted(v) = <<"ok", FALSE>> <=> ~(input.metadata /\ input.votes[v])
         /\ Rejected <=> \E v \in Warps : Voted(v) = <<"ok", FALSE>>
<1>1. input.metadata \in BOOLEAN /\ input.votes \in [Warps -> BOOLEAN]
  BY DEF Inputs
<1>2. VoteGet \in {4, 5} /\ (VoteGet = 5 <=> input.metadata)
  BY DEF VoteGet
<1>3. ASSUME NEW v \in Warps
      PROVE  /\ Voted(v) = IF input.metadata THEN <<"ok", input.votes[v]>> ELSE <<"ok", input.metadata>>
             /\ Voted(v) = <<"ok", FALSE>> <=> ~(input.metadata /\ input.votes[v])
  <2>1. input.votes[v] \in BOOLEAN
    BY <1>1
  <2> QED BY <1>1, <2>1 DEF Voted
<1>4. Rejected <=> \E v \in Warps : Voted(v) = <<"ok", FALSE>>
  BY <1>3 DEF Rejected
<1> QED BY <1>2, <1>3, <1>4

\* The paged kernels, instruction by instruction.
LEMMA PagedOps ==
  ASSUME kernel = "paged", input \in Inputs(kernel), NEW w \in Warps
  PROVE  LET p == Program(w) IN
         /\ DOMAIN p = 1 .. Len(p) /\ Len(p) = PagedEnd(w)
         /\ \A n : /\ Is(w, n, "put") <=> \/ n = 1
                                          \/ input.metadata /\ n = 3
                                          \/ input.fits /\ n = VoteGet + 1
                   /\ Is(w, n, "sync") <=> \/ n = 2
                                           \/ n = VoteGet - 1
                                           \/ input.fits /\ n = VoteGet + 2
                   /\ Is(w, n, "get") <=> \/ n = VoteGet
                                          \/ input.fits /\ w = 0 /\ n = VoteGet + 3
                   /\ ~Is(w, n, "copy")
         /\ p[1].cell = Flag(w) /\ p[1].value = <<"ok", input.metadata>>
         /\ input.metadata => p[3].cell = Flag(w) /\ p[3].value = <<"ok", input.votes[w]>>
         /\ input.fits => p[VoteGet + 1].cell = State(w) /\ p[VoteGet + 1].value = <<"partial", w>>
         /\ p[VoteGet].want = [c \in {Flag(v) : v \in Warps} |-> Voted(c[2])]
         /\ p[VoteGet].leave = <<"ok", FALSE>>
         /\ input.fits /\ w = 0 =>
              /\ p[VoteGet + 3].want = [c \in {State(v) : v \in Warps} |-> <<"partial", c[2]>>]
              /\ p[VoteGet + 3].leave = NoLeave
<1> PICK p : p = Program(w)
  OBVIOUS
<1>1. p = PagedProgram(w)
  BY DEF Program
<1>2. /\ DOMAIN p = 1 .. Len(p) /\ Len(p) = PagedEnd(w)
      /\ p[1] = Put(Flag(w), <<"ok", input.metadata>>) /\ p[2] = Sync
      /\ input.metadata => p[3] = Put(Flag(w), <<"ok", input.votes[w]>>)
      /\ p[VoteGet - 1] = Sync /\ p[VoteGet] = Vote
      /\ input.fits => /\ p[VoteGet + 1] = Put(State(w), <<"partial", w>>)
                       /\ p[VoteGet + 2] = Sync
                       /\ w = 0 => p[VoteGet + 3] = Merge
  BY <1>1, PagedCode
<1>3. /\ Vote.op = "get" /\ Vote.leave = <<"ok", FALSE>>
      /\ Vote.want = [c \in {Flag(v) : v \in Warps} |-> Voted(c[2])]
      /\ Merge.op = "get" /\ Merge.leave = NoLeave
      /\ Merge.want = [c \in {State(v) : v \in Warps} |-> <<"partial", c[2]>>]
  <2>1. Vote = Get([c \in {Flag(v) : v \in Warps} |-> Voted(c[2])], <<"ok", FALSE>>)
    BY DEF Vote, Voted
  <2>2. Merge = Get([c \in {State(v) : v \in Warps} |-> <<"partial", c[2]>>], NoLeave)
    BY DEF Merge
  <2>3. Vote.op = "get" /\ Vote.leave = <<"ok", FALSE>>
    BY <2>1 DEF Get
  <2>4. Vote.want = [c \in {Flag(v) : v \in Warps} |-> Voted(c[2])]
    BY <2>1 DEF Get
  <2>5. Merge.op = "get" /\ Merge.leave = NoLeave
    BY <2>2 DEF Get
  <2>6. Merge.want = [c \in {State(v) : v \in Warps} |-> <<"partial", c[2]>>]
    BY <2>2 DEF Get
  <2> QED BY <2>3, <2>4, <2>5, <2>6
<1>4. /\ p[1].op = "put" /\ p[1].cell = Flag(w) /\ p[1].value = <<"ok", input.metadata>>
      /\ p[2].op = "sync" /\ p[VoteGet - 1].op = "sync" /\ p[VoteGet].op = "get"
      /\ p[VoteGet].want = [c \in {Flag(v) : v \in Warps} |-> Voted(c[2])]
      /\ p[VoteGet].leave = <<"ok", FALSE>>
  BY <1>2, <1>3, PutCode, OtherCode
<1>5. input.metadata =>
        p[3].op = "put" /\ p[3].cell = Flag(w) /\ p[3].value = <<"ok", input.votes[w]>>
  BY <1>2, PutCode
<1>6. input.fits =>
        /\ p[VoteGet + 1].op = "put" /\ p[VoteGet + 2].op = "sync"
        /\ p[VoteGet + 1].cell = State(w) /\ p[VoteGet + 1].value = <<"partial", w>>
  BY <1>2, PutCode, OtherCode
<1>7. input.fits /\ w = 0 =>
        /\ p[VoteGet + 3].op = "get" /\ p[VoteGet + 3].leave = NoLeave
        /\ p[VoteGet + 3].want = [c \in {State(v) : v \in Warps} |-> <<"partial", c[2]>>]
  BY <1>2, <1>3
<1>8. VoteGet \in {4, 5} /\ (VoteGet = 5 <=> input.metadata)
  BY VoteFacts
<1>9. ASSUME NEW n
      PROVE  n \in DOMAIN p <=> \/ n = 1 \/ n = 2 \/ (input.metadata /\ n = 3)
                                \/ n = VoteGet - 1 \/ n = VoteGet
                                \/ input.fits /\ (n = VoteGet + 1 \/ n = VoteGet + 2)
                                \/ input.fits /\ w = 0 /\ n = VoteGet + 3
  BY <1>2, <1>8 DEF PagedEnd
<1>10. \A n, op : Is(w, n, op) <=> n \in DOMAIN p /\ p[n].op = op
  BY DEF Is
<1>11. ASSUME NEW n
       PROVE  /\ Is(w, n, "put") <=> \/ n = 1
                                     \/ input.metadata /\ n = 3
                                     \/ input.fits /\ n = VoteGet + 1
              /\ Is(w, n, "sync") <=> \/ n = 2
                                      \/ n = VoteGet - 1
                                      \/ input.fits /\ n = VoteGet + 2
              /\ Is(w, n, "get") <=> \/ n = VoteGet
                                     \/ input.fits /\ w = 0 /\ n = VoteGet + 3
              /\ ~Is(w, n, "copy")
  BY <1>4, <1>5, <1>6, <1>7, <1>8, <1>9, <1>10
<1> QED BY <1>2, <1>4, <1>5, <1>6, <1>7, <1>11

\* What the warps of a paged kernel write and read.
PagedPuts(w, n, c) ==
  \/ c = Flag(w) /\ n = 1
  \/ c = Flag(w) /\ input.metadata /\ n = 3
  \/ c = State(w) /\ input.fits /\ n = VoteGet + 1

PagedGets(w, n, c) ==
  \/ n = VoteGet /\ c[1] = "flag" /\ Program(w)[n].want[c] = Voted(c[2])
  \/ /\ input.fits /\ w = 0 /\ n = VoteGet + 3
     /\ c[1] = "state" /\ Program(w)[n].want[c] = <<"partial", c[2]>>

\* The writes of the paged kernels: a flag for the metadata, the flag again for
\* the pages, and the partial state.
LEMMA PagedWrites ==
  ASSUME kernel = "paged", input \in Inputs(kernel), NEW w \in Warps, NEW n, NEW c \in Cells
  PROVE  /\ Writes(w, n, c) <=> PagedPuts(w, n, c)
         /\ Writes(w, n, c) /\ n = 1 => Program(w)[n].value = <<"ok", input.metadata>>
         /\ Writes(w, n, c) /\ n = 3 => Program(w)[n].value = Voted(w)
         /\ Writes(w, n, c) /\ n = VoteGet + 1 => Program(w)[n].value = <<"partial", w>>
<1> PICK p : p = Program(w)
  OBVIOUS
<1>1. /\ Is(w, n, "put") <=> \/ n = 1
                             \/ input.metadata /\ n = 3
                             \/ input.fits /\ n = VoteGet + 1
      /\ ~Is(w, n, "copy")
  BY PagedOps, Zenon
<1>8. p[1].cell = Flag(w) /\ p[1].value = <<"ok", input.metadata>>
  BY PagedOps
<1>9. input.metadata => p[3].cell = Flag(w) /\ p[3].value = <<"ok", input.votes[w]>>
  BY PagedOps
<1>10. input.fits => p[VoteGet + 1].cell = State(w) /\ p[VoteGet + 1].value = <<"partial", w>>
  BY PagedOps
<1>2. VoteGet \in {4, 5} /\ (input.metadata => Voted(w) = <<"ok", input.votes[w]>>)
  BY VoteFacts
<1>3. Writes(w, n, c) <=> Is(w, n, "put") /\ p[n].cell = c
  BY <1>1 DEF Writes
<1>4. CASE n = 1
  BY <1>1, <1>2, <1>3, <1>4, <1>8, <1>9, <1>10 DEF PagedPuts
<1>5. CASE n = 3
  BY <1>1, <1>2, <1>3, <1>5, <1>8, <1>9, <1>10 DEF PagedPuts
<1>6. CASE n = VoteGet + 1
  BY <1>1, <1>2, <1>3, <1>6, <1>8, <1>9, <1>10 DEF PagedPuts
<1>7. CASE n # 1 /\ n # 3 /\ n # VoteGet + 1
  BY <1>1, <1>3, <1>7 DEF PagedPuts
<1> QED BY <1>4, <1>5, <1>6, <1>7

\* The gets of the paged kernels; the vote is left exactly when it is rejected.
LEMMA PagedReads ==
  ASSUME kernel = "paged", input \in Inputs(kernel), NEW w \in Warps, NEW n
  PROVE  /\ Leaves(w, n) <=> Rejected /\ n = VoteGet
         /\ Is(w, n, "get") => ValuesOfCells(Program(w)[n].want)
         /\ \A c \in Cells : Reads(w, n, c) => PagedGets(w, n, c)
<1> PICK p : p = Program(w)
  OBVIOUS
<1>1. /\ Is(w, n, "get") <=> n = VoteGet \/ (input.fits /\ w = 0 /\ n = VoteGet + 3)
      /\ p[VoteGet].want = [c \in {Flag(v) : v \in Warps} |-> Voted(c[2])]
      /\ p[VoteGet].leave = <<"ok", FALSE>>
      /\ input.fits /\ w = 0 =>
           /\ p[VoteGet + 3].want = [c \in {State(v) : v \in Warps} |-> <<"partial", c[2]>>]
           /\ p[VoteGet + 3].leave = NoLeave
  BY PagedOps
<1>2. VoteGet \in {4, 5} /\ (Rejected <=> \E v \in Warps : Voted(v) = <<"ok", FALSE>>)
  BY VoteFacts
<1>3. CASE n = VoteGet
  <2>1. \A c \in DOMAIN p[n].want : \E v \in Warps : c = Flag(v) /\ p[n].want[c] = Voted(v)
    BY <1>1, <1>3, CellParts
  <2>2. \A v \in Warps : Flag(v) \in DOMAIN p[n].want /\ p[n].want[Flag(v)] = Voted(v)
    BY <1>1, <1>3, CellParts
  <2>3. Leaves(w, n) <=> Rejected
    <3>1. Is(w, n, "get") /\ p[n].leave = <<"ok", FALSE>>
      BY <1>1, <1>3
    <3>2. ASSUME Rejected
          PROVE  \E c \in DOMAIN p[n].want : p[n].want[c] = p[n].leave
      <4> PICK v \in Warps : Voted(v) = <<"ok", FALSE>>
        BY <1>2, <3>2
      <4>1. Flag(v) \in DOMAIN p[n].want /\ p[n].want[Flag(v)] = p[n].leave
        BY <2>2, <3>1
      <4> QED BY <4>1
    <3>3. ASSUME NEW c \in DOMAIN p[n].want, p[n].want[c] = p[n].leave
          PROVE  Rejected
      BY <1>2, <2>1, <3>1, <3>3
    <3> QED BY <3>1, <3>2, <3>3 DEF Leaves
  <2>4. ValuesOfCells(p[n].want)
    <3>1. DOMAIN p[n].want \in SUBSET Cells
      BY <2>1, CellParts
    <3>2. p[n].want = [c \in DOMAIN p[n].want |-> p[n].want[c]]
      BY <1>1, <1>3
    <3> QED BY <3>1, <3>2 DEF ValuesOfCells
  <2>5. ASSUME NEW c \in Cells, Reads(w, n, c)
        PROVE  PagedGets(w, n, c)
    BY <1>3, <2>1, <2>5, CellParts DEF Reads, PagedGets
  <2> QED BY <1>3, <2>3, <2>4, <2>5
<1>4. CASE input.fits /\ w = 0 /\ n = VoteGet + 3
  <2>1. \A c \in DOMAIN p[n].want : \E v \in Warps : c = State(v) /\ p[n].want[c] = <<"partial", v>>
    BY <1>1, <1>4, CellParts
  <2>2. ~Leaves(w, n) /\ n # VoteGet
    <3>1. \A v : <<"partial", v>> # NoLeave
      BY DEF NoLeave
    <3> QED BY <1>1, <1>2, <1>4, <2>1, <3>1 DEF Leaves
  <2>3. ValuesOfCells(p[n].want)
    <3>1. DOMAIN p[n].want \in SUBSET Cells
      BY <2>1, CellParts
    <3>2. p[n].want = [c \in DOMAIN p[n].want |-> p[n].want[c]]
      BY <1>1, <1>4
    <3> QED BY <3>1, <3>2 DEF ValuesOfCells
  <2>4. ASSUME NEW c \in Cells, Reads(w, n, c)
        PROVE  PagedGets(w, n, c)
    BY <1>4, <2>1, <2>4, CellParts DEF Reads, PagedGets
  <2> QED BY <2>2, <2>3, <2>4
<1>5. CASE ~Is(w, n, "get")
  BY <1>1, <1>5 DEF Leaves, Reads
<1> QED BY <1>1, <1>3, <1>4, <1>5

\* The places a warp of a paged kernel can be at.
LEMMA PagedPlaces ==
  ASSUME kernel = "paged", input \in Inputs(kernel), NEW w \in Warps
  PROVE  /\ End(w) = PagedEnd(w) + 1 /\ VoteGet < End(w) /\ End(w) \in Nat
         /\ input.fits => VoteGet + 2 < End(w)
         /\ ~input.fits => End(w) = VoteGet + 1
         /\ \A n : n \in Places(w) <=>
                n \in 1 .. End(w) /\ (Rejected => n <= VoteGet \/ n = End(w))
         /\ \A n \in Nat : /\ n <= 2 => Stage(w, n) = 0
                           /\ 2 < n /\ n < VoteGet => Stage(w, n) = 1
                           /\ VoteGet <= n /\ n <= VoteGet + 2 => Stage(w, n) = 2
                           /\ VoteGet + 2 < n => Stage(w, n) = IF Rejected THEN 2 ELSE 3
<1>1. VoteGet \in {4, 5}
  BY VoteFacts
<1>2. Len(Program(w)) = PagedEnd(w)
  BY PagedOps
<1>3. PagedEnd(w) \in Nat
  BY <1>1 DEF PagedEnd
<1>4. /\ End(w) = PagedEnd(w) + 1 /\ VoteGet < End(w) /\ End(w) \in Nat
      /\ input.fits => VoteGet + 2 < End(w)
      /\ ~input.fits => End(w) = VoteGet + 1
  <2>1. End(w) = PagedEnd(w) + 1
    BY <1>2, <1>3 DEF End
  <2> QED BY <1>1, <1>3, <2>1 DEF PagedEnd
<1>5. \A n : Stage(w, n) = PagedStage(n)
  BY DEF Stage
<1>6. ASSUME NEW n \in Nat
      PROVE  /\ n <= 2 => PagedStage(n) = 0
             /\ 2 < n /\ n < VoteGet => PagedStage(n) = 1
             /\ VoteGet <= n /\ n <= VoteGet + 2 => PagedStage(n) = 2
             /\ VoteGet + 2 < n => PagedStage(n) = IF Rejected THEN 2 ELSE 3
  BY <1>1 DEF PagedStage
<1> QED BY <1>4, <1>5, <1>6 DEF Places

\* Both votes are of the whole CTA: a rejected one makes every warp leave in the
\* same stage, and an accepted one none.
LEMMA PagedSound ==
  ASSUME kernel = "paged", input \in Inputs(kernel), NEW w \in Warps
  PROVE  /\ Staged(w) /\ Formed(w) /\ Deposits(w) /\ Wants(w) /\ Keeps(w)
         /\ \A v \in Warps : Apart(w, v) /\ Whole(w, v)
<1>1. ASSUME NEW v \in Warps, NEW n
      PROVE  /\ Is(v, n, "sync") => \/ n = 2 \/ n = VoteGet - 1
                                    \/ input.fits /\ n = VoteGet + 2
             /\ n = 2 \/ n = VoteGet - 1 => Is(v, n, "sync")
             /\ input.fits /\ n = VoteGet + 2 => Is(v, n, "sync")
             /\ ~Is(v, n, "copy")
  BY PagedOps, Zenon
<1>2. VoteGet \in {4, 5} /\ (VoteGet = 5 <=> input.metadata)
  BY VoteFacts
<1>3. ASSUME NEW v \in Warps
      PROVE  /\ VoteGet < End(v) /\ End(v) \in Nat
             /\ input.fits => VoteGet + 2 < End(v)
             /\ ~input.fits => End(v) = VoteGet + 1
             /\ \A n : n \in Places(v) <=>
                    n \in 1 .. End(v) /\ (Rejected => n <= VoteGet \/ n = End(v))
             /\ \A n \in Nat : /\ n <= 2 => Stage(v, n) = 0
                               /\ 2 < n /\ n < VoteGet => Stage(v, n) = 1
                               /\ VoteGet <= n /\ n <= VoteGet + 2 => Stage(v, n) = 2
                               /\ VoteGet + 2 < n => Stage(v, n) = IF Rejected THEN 2 ELSE 3
  BY PagedPlaces
<1>4. \A v \in Warps : \A n \in Places(v) : n \in Nat /\ 1 <= n /\ n <= End(v)
  BY <1>3
<1>5. Staged(w)
  <2>1. /\ DOMAIN Program(w) = 1 .. Len(Program(w)) /\ Len(Program(w)) \in Nat
        /\ 1 \in Places(w) /\ Stage(w, 1) = 0
    <3>1. DOMAIN Program(w) = 1 .. Len(Program(w)) /\ Len(Program(w)) = PagedEnd(w)
      BY PagedOps
    <3>2. PagedEnd(w) \in Nat
      BY <1>2 DEF PagedEnd
    <3> QED BY <1>2, <1>3, <3>1, <3>2
  <2>2. \A n \in Places(w) : Stage(w, n) \in Nat
    BY <1>2, <1>3, <1>4
  <2>3. ASSUME NEW n \in Places(w) \ {End(w)}
        PROVE  /\ Follows(w, n) \in Places(w)
               /\ Stage(w, Follows(w, n)) = IF Is(w, n, "sync") THEN Stage(w, n) + 1 ELSE Stage(w, n)
               /\ \A m \in Places(w) : m < Follows(w, n) => m <= n
    <3>1. n \in Nat /\ 1 <= n /\ n < End(w) /\ (Rejected => n <= VoteGet)
      BY <1>3, <1>4
    <3>2. CASE Rejected /\ n = VoteGet
      <4>1. Follows(w, n) = End(w) /\ ~Is(w, n, "sync")
        BY <1>1, <1>2, <3>2, PagedReads DEF Follows
      <4>2. Stage(w, n) = 2 /\ Stage(w, End(w)) = 2
        BY <1>2, <1>3, <3>2
      <4>3. End(w) \in Places(w) /\ \A m \in Places(w) : m < End(w) => m <= n
        BY <1>2, <1>3, <1>4, <3>2
      <4> QED BY <4>1, <4>2, <4>3
    <3>3. CASE ~(Rejected /\ n = VoteGet)
      <4>1. Follows(w, n) = n + 1
        BY <3>3, PagedReads DEF Follows
      <4>2. n + 1 \in Places(w) /\ \A m \in Places(w) : m < n + 1 => m <= n
        BY <1>2, <1>3, <1>4, <3>1, <3>3
      <4>3. CASE n = 2 \/ n = VoteGet - 1
        BY <1>1, <1>2, <1>3, <3>1, <4>1, <4>2, <4>3
      <4>4. CASE n = VoteGet + 2
        <5>1. ~Rejected
          BY <1>2, <3>1, <4>4
        <5>2. input.fits
          BY <1>2, <1>3, <3>1, <4>4
        <5>3. Stage(w, n) = 2 /\ Stage(w, n + 1) = 3
          BY <1>2, <1>3, <4>4, <5>1
        <5> QED BY <1>1, <4>1, <4>2, <4>4, <5>2, <5>3
      <4>5. CASE n # 2 /\ n # VoteGet - 1 /\ n # VoteGet + 2
        <5>1. ~Is(w, n, "sync")
          BY <1>1, <4>5
        <5>2. Stage(w, n + 1) = Stage(w, n)
          <6>1. CASE n = 1
            BY <1>2, <1>3, <6>1
          <6>2. CASE VoteGet <= n /\ n < VoteGet + 2
            BY <1>2, <1>3, <3>1, <6>2
          <6>3. CASE VoteGet + 2 < n
            BY <1>2, <1>3, <3>1, <6>3
          <6>4. CASE 2 < n /\ n < VoteGet - 1
            BY <1>2, <1>3, <3>1, <6>4
          <6> QED BY <1>2, <3>1, <4>5, <6>1, <6>2, <6>3, <6>4
        <5> QED BY <4>1, <4>2, <5>1, <5>2
      <4> QED BY <4>3, <4>4, <4>5
    <3> QED BY <3>2, <3>3
  <2>4. \A m, n \in Places(w) : m <= n => Stage(w, m) <= Stage(w, n)
    <3> SUFFICES ASSUME NEW m \in Places(w), NEW n \in Places(w), m <= n
                 PROVE  Stage(w, m) <= Stage(w, n)
      OBVIOUS
    <3>1. m \in Nat /\ n \in Nat
      BY <1>4
    <3>2. CASE n <= 2
      BY <1>3, <3>1, <3>2
    <3>3. CASE 2 < n /\ n < VoteGet
      BY <1>2, <1>3, <3>1, <3>3
    <3>4. CASE VoteGet <= n /\ n <= VoteGet + 2
      BY <1>2, <1>3, <3>1, <3>4
    <3>5. CASE VoteGet + 2 < n
      BY <1>2, <1>3, <3>1, <3>5
    <3> QED BY <1>2, <3>1, <3>2, <3>3, <3>4, <3>5
  <2> QED BY <2>1, <2>2, <2>3, <2>4 DEF Staged
<1>6. Formed(w)
  <2>1. ASSUME NEW n, Is(w, n, "put")
        PROVE  Program(w)[n].cell \in Cells
    <3>1. \/ n = 1
          \/ input.metadata /\ n = 3
          \/ input.fits /\ n = VoteGet + 1
      <4>1. Is(w, n, "put") <=> \/ n = 1
                                \/ input.metadata /\ n = 3
                                \/ input.fits /\ n = VoteGet + 1
        BY PagedOps, Zenon
      <4> QED BY <2>1, <4>1
    <3>2. Program(w)[1].cell = Flag(w)
      BY PagedOps
    <3>3. input.metadata => Program(w)[3].cell = Flag(w)
      BY PagedOps
    <3>4. input.fits => Program(w)[VoteGet + 1].cell = State(w)
      BY PagedOps
    <3> QED BY <3>1, <3>2, <3>3, <3>4, CellParts
  <2> QED BY <1>1, <2>1, PagedReads DEF Formed
<1>7. ASSUME NEW c, NEW k
      PROVE  Content(c, k) =
               IF k = 0 THEN Uninit
               ELSE IF c[1] = "flag"
                    THEN IF k > 1 THEN Voted(c[2]) ELSE <<"ok", input.metadata>>
                    ELSE IF c[1] = "state" /\ k > 2 THEN <<"partial", c[2]>> ELSE Uninit
  BY DEF Content
<1>8. Deposits(w)
  <2> SUFFICES ASSUME NEW n \in Places(w), NEW c \in Cells, Writes(w, n, c)
               PROVE  /\ c[2] = w
                      /\ Program(w)[n].value = Content(c, Stage(w, n) + 1)
    BY DEF Deposits
  <2>1. PagedPuts(w, n, c)
    BY PagedWrites
  <2>2. CASE c = Flag(w) /\ n = 1
    <3>1. Stage(w, n) = 0 /\ Program(w)[n].value = <<"ok", input.metadata>>
      BY <1>3, <2>2, PagedWrites
    <3> QED BY <1>7, <2>2, <3>1, CellParts
  <2>3. CASE c = Flag(w) /\ input.metadata /\ n = 3
    <3>1. Stage(w, n) = 1
      BY <1>2, <1>3, <2>3
    <3>2. Program(w)[n].value = Voted(w)
      BY <2>3, PagedWrites
    <3>3. c[1] = "flag" /\ c[2] = w
      BY <2>3, CellParts
    <3>4. Content(c, 2) = Voted(w)
      BY <1>7, <3>3
    <3> QED BY <3>1, <3>2, <3>3, <3>4
  <2>4. CASE c = State(w) /\ input.fits /\ n = VoteGet + 1
    <3>1. Stage(w, n) = 2
      BY <1>2, <1>3, <2>4
    <3>2. Program(w)[n].value = <<"partial", w>>
      BY <2>4, PagedWrites
    <3> QED BY <1>7, <2>4, <3>1, <3>2, CellParts
  <2> QED BY <2>1, <2>2, <2>3, <2>4 DEF PagedPuts
<1>9. Wants(w)
  <2> SUFFICES ASSUME NEW n \in Places(w), NEW c \in Cells, Reads(w, n, c)
               PROVE  Program(w)[n].want[c] = Content(c, Stage(w, n))
    BY DEF Wants
  <2>1. PagedGets(w, n, c)
    BY PagedReads
  <2>2. CASE n = VoteGet /\ c[1] = "flag" /\ Program(w)[n].want[c] = Voted(c[2])
    <3>1. Stage(w, n) = 2
      BY <1>2, <1>3, <2>2
    <3> QED BY <1>7, <2>2, <3>1
  <2>3. CASE /\ input.fits /\ w = 0 /\ n = VoteGet + 3
             /\ c[1] = "state" /\ Program(w)[n].want[c] = <<"partial", c[2]>>
    <3>1. n # End(w)
      <4>1. n \in DOMAIN Program(w)
        BY DEF Reads, Is
      <4>2. DOMAIN Program(w) = 1 .. Len(Program(w)) /\ Len(Program(w)) \in Nat
        BY <1>5 DEF Staged
      <4> QED BY <4>1, <4>2 DEF End
    <3>2. ~Rejected
      BY <1>2, <1>3, <2>3, <3>1
    <3>3. Stage(w, n) = 3
      BY <1>2, <1>3, <2>3, <3>2
    <3> QED BY <1>7, <2>3, <3>3
  <2> QED BY <2>1, <2>2, <2>3 DEF PagedGets
<1>10. Keeps(w)
  <2> SUFFICES ASSUME NEW c \in Cells, NEW s \in Places(w), Is(w, s, "sync"), c[2] = w,
                      \A n \in Places(w) : Writes(w, n, c) => Stage(w, n) # Stage(w, s)
               PROVE  Content(c, Stage(w, s) + 1) = Content(c, Stage(w, s))
    BY DEF Keeps
  <2>1. CASE s = 2
    <3>1. Stage(w, s) = 0 /\ Stage(w, 1) = 0 /\ 1 \in Places(w)
      BY <2>1, <1>2, <1>3
    <3>2. ~PagedPuts(w, 1, c)
      BY <3>1, PagedWrites
    <3>3. c[1] # "flag"
      BY <3>2, CellParts DEF PagedPuts
    <3> QED BY <3>1, <3>3, <1>7
  <2>2. CASE s = VoteGet - 1 /\ s # 2
    <3>1. Stage(w, s) = 1
      BY <2>2, <1>2, <1>3
    <3>2. CASE input.metadata
      <4>1. Stage(w, 3) = 1 /\ 3 \in Places(w)
        BY <3>2, <1>2, <1>3
      <4>2. ~PagedPuts(w, 3, c)
        BY <3>1, <4>1, PagedWrites
      <4>3. c[1] # "flag"
        BY <3>2, <4>2, CellParts DEF PagedPuts
      <4> QED BY <3>1, <4>3, <1>7
    <3>3. CASE ~input.metadata
      <4>1. Voted(w) = <<"ok", input.metadata>>
        BY <3>3, VoteFacts
      <4> QED BY <3>1, <4>1, <1>7
    <3> QED BY <3>2, <3>3
  <2>3. CASE input.fits /\ s = VoteGet + 2
    <3>1. ~Rejected
      BY <1>2, <1>3, <2>3
    <3>2. /\ Stage(w, s) = 2 /\ Stage(w, VoteGet + 1) = 2 /\ VoteGet + 1 \in Places(w)
      BY <2>3, <3>1, <1>2, <1>3
    <3>3. ~PagedPuts(w, VoteGet + 1, c)
      BY <3>2, PagedWrites
    <3>4. c[1] # "state"
      BY <2>3, <3>3, CellParts DEF PagedPuts
    <3> QED BY <3>2, <3>4, <1>7
  <2> QED BY <1>1, <2>1, <2>2, <2>3
<1>11. ASSUME NEW v \in Warps
       PROVE  Apart(w, v) /\ Whole(w, v)
  <2>1. ASSUME NEW n \in Places(w), NEW m \in Places(v), NEW c \in Cells,
               Writes(w, n, c), Reads(v, m, c)
        PROVE  Stage(w, n) # Stage(v, m)
    <3>1. PagedPuts(w, n, c) /\ PagedGets(v, m, c)
      BY <2>1, PagedWrites, PagedReads
    <3>2. CASE c[1] = "flag"
      <4>1. (n = 1 \/ n = 3) /\ m = VoteGet /\ (n = 3 => VoteGet = 5)
        BY <1>2, <3>1, <3>2, CellParts DEF PagedPuts, PagedGets
      <4>2. Stage(w, n) # 2 /\ Stage(v, m) = 2
        BY <1>2, <1>3, <4>1
      <4> QED BY <4>2
    <3>3. CASE c[1] # "flag"
      <4>1. input.fits /\ n = VoteGet + 1 /\ m = VoteGet + 3
        BY <3>1, <3>3, CellParts DEF PagedPuts, PagedGets
      <4>2. ~Rejected
        <5>1. n \in DOMAIN Program(w)
          BY <2>1 DEF Writes, Is
        <5>2. n # End(w)
          BY <1>5, <5>1 DEF Staged, End
        <5> QED BY <1>2, <1>3, <4>1, <5>2
      <4>3. Stage(w, n) = 2 /\ Stage(v, m) = 3
        BY <1>2, <1>3, <4>1, <4>2
      <4> QED BY <4>3
    <3> QED BY <3>2, <3>3
  <2>2. Apart(w, v)
    BY <2>1 DEF Apart
  <2>3. Whole(w, v)
    <3> SUFFICES ASSUME NEW n \in Places(w), Is(w, n, "sync")
                 PROVE  Stage(w, n) < Stage(v, End(v))
      BY DEF Whole
    <3>1. CASE n = 2 \/ n = VoteGet - 1
      <4>1. Stage(w, n) < 2
        BY <1>2, <1>3, <3>1
      <4>2. Stage(v, End(v)) = 2 \/ Stage(v, End(v)) = 3
        BY <1>2, <1>3
      <4>3. Stage(w, n) \in Nat
        BY <1>5 DEF Staged
      <4> QED BY <4>1, <4>2, <4>3
    <3>2. CASE input.fits /\ n = VoteGet + 2
      <4>1. ~Rejected
        BY <1>2, <1>3, <3>2
      <4>2. Stage(w, n) = 2 /\ Stage(v, End(v)) = 3
        BY <1>2, <1>3, <3>2, <4>1
      <4> QED BY <4>2
    <3> QED BY <1>1, <3>1, <3>2
  <2> QED BY <2>2, <2>3
<1> QED BY <1>5, <1>6, <1>8, <1>9, <1>10, <1>11

-----------------------------------------------------------------------------
(* Tiled prefill *)

\* The part an instruction is about, and its place in the pass of the part.
PartOf(n) == (n - 1) \div 5
StepOf(n) == (n - 1) % 5

\* A part of a tile passes in five instructions.
LEMMA PassCode ==
  ASSUME NEW w, NEW part
  PROVE  LET p == Pass(w, part) IN
         /\ p[1] = Copy(Tile(w), part) /\ p[2] = Wait /\ p[3] = Sync
         /\ p[4] = Get([c \in {Tile(v) : v \in Warps} |-> part], NoLeave) /\ p[5] = Sync
BY DEF Pass, Load, WholeTile

\* Instruction n is step StepOf(n) of part PartOf(n).
LEMMA StepFacts ==
  ASSUME NEW n \in Nat \ {0}
  PROVE  /\ PartOf(n) \in Nat /\ StepOf(n) \in 0 .. 4 /\ n = 5 * PartOf(n) + StepOf(n) + 1
         /\ StepOf(n) < 4 => PartOf(n + 1) = PartOf(n) /\ StepOf(n + 1) = StepOf(n) + 1
         /\ StepOf(n) = 4 => PartOf(n + 1) = PartOf(n) + 1 /\ StepOf(n + 1) = 0
         /\ StepOf(n) = 2 => n - 2 \in Nat \ {0} /\ StepOf(n - 2) = 0 /\ PartOf(n - 2) = PartOf(n)
<1>1. PartOf(n) \in Nat /\ StepOf(n) \in 0 .. 4 /\ n = 5 * PartOf(n) + StepOf(n) + 1
  BY DEF PartOf, StepOf
<1>2. StepOf(n) < 4 => PartOf(n + 1) = PartOf(n) /\ StepOf(n + 1) = StepOf(n) + 1
  BY DEF PartOf, StepOf
<1>3. StepOf(n) = 4 => PartOf(n + 1) = PartOf(n) + 1 /\ StepOf(n + 1) = 0
  BY DEF PartOf, StepOf
<1>4. StepOf(n) = 2 => n - 2 \in Nat \ {0} /\ StepOf(n - 2) = 0 /\ PartOf(n - 2) = PartOf(n)
  BY DEF PartOf, StepOf
<1> QED BY <1>1, <1>2, <1>3, <1>4

\* ragged_prefill_bf16_nhd_causal_tiled_gqa4, instruction by instruction.
LEMMA TiledOps ==
  ASSUME kernel = "tiled", input \in Inputs(kernel), NEW w \in Warps, NEW n
  PROVE  LET p == Program(w) IN
         /\ input.tiles \in Nat
         /\ DOMAIN p = 1 .. 10 * input.tiles /\ Len(p) = 10 * input.tiles
         /\ n \in 1 .. 10 * input.tiles =>
              /\ Is(w, n, "copy") <=> StepOf(n) = 0
              /\ Is(w, n, "wait") <=> StepOf(n) = 1
              /\ Is(w, n, "sync") <=> StepOf(n) = 2 \/ StepOf(n) = 4
              /\ Is(w, n, "get") <=> StepOf(n) = 3
              /\ ~Is(w, n, "put")
              /\ StepOf(n) = 0 => p[n].cell = Tile(w) /\ p[n].value = Part(PartOf(n))
              /\ StepOf(n) = 3 =>
                   /\ p[n].want = [c \in {Tile(v) : v \in Warps} |-> Part(PartOf(n))]
                   /\ p[n].leave = NoLeave
<1> PICK p : p = Program(w)
  OBVIOUS
<1>1. p = TiledProgram(w)
  BY DEF Program
<1>2. input.tiles \in Nat
  BY CtaSyncAssumption DEF Inputs
<1>3. /\ DOMAIN p = 1 .. 10 * input.tiles
      /\ \A m \in 1 .. 10 * input.tiles : p[m] = Pass(w, Part(PartOf(m)))[StepOf(m) + 1]
  BY <1>1 DEF TiledProgram, PartOf, StepOf
<1>4. Len(p) = 10 * input.tiles
  BY <1>1, <1>2 DEF TiledProgram
<1>5. ASSUME n \in 1 .. 10 * input.tiles
      PROVE  /\ Is(w, n, "copy") <=> StepOf(n) = 0
             /\ Is(w, n, "wait") <=> StepOf(n) = 1
             /\ Is(w, n, "sync") <=> StepOf(n) = 2 \/ StepOf(n) = 4
             /\ Is(w, n, "get") <=> StepOf(n) = 3
             /\ ~Is(w, n, "put")
             /\ StepOf(n) = 0 => p[n].cell = Tile(w) /\ p[n].value = Part(PartOf(n))
             /\ StepOf(n) = 3 =>
                  /\ p[n].want = [c \in {Tile(v) : v \in Warps} |-> Part(PartOf(n))]
                  /\ p[n].leave = NoLeave
  <2> PICK q : q = Pass(w, Part(PartOf(n)))
    OBVIOUS
  <2>1. StepOf(n) \in 0 .. 4
    BY <1>2, <1>5, StepFacts
  <2>2. n \in DOMAIN p /\ p[n] = q[StepOf(n) + 1]
    BY <1>3, <1>5
  <2>3. /\ q[1] = Copy(Tile(w), Part(PartOf(n))) /\ q[2] = Wait /\ q[3] = Sync
        /\ q[4] = Get([c \in {Tile(v) : v \in Warps} |-> Part(PartOf(n))], NoLeave) /\ q[5] = Sync
    BY PassCode
  <2>4. /\ q[1].op = "copy" /\ q[2].op = "wait" /\ q[3].op = "sync" /\ q[4].op = "get"
        /\ q[5].op = "sync" /\ q[1].cell = Tile(w) /\ q[1].value = Part(PartOf(n))
        /\ q[4].want = [c \in {Tile(v) : v \in Warps} |-> Part(PartOf(n))]
        /\ q[4].leave = NoLeave
    BY <2>3, CopyCode, GetCode, OtherCode
  <2>5. \A op : Is(w, n, op) <=> p[n].op = op
    BY <2>2 DEF Is
  <2>6. CASE StepOf(n) = 0
    BY <2>2, <2>4, <2>5, <2>6
  <2>7. CASE StepOf(n) = 1
    BY <2>2, <2>4, <2>5, <2>7
  <2>8. CASE StepOf(n) = 2
    BY <2>2, <2>4, <2>5, <2>8
  <2>9. CASE StepOf(n) = 3
    BY <2>2, <2>4, <2>5, <2>9
  <2>10. CASE StepOf(n) = 4
    BY <2>2, <2>4, <2>5, <2>10
  <2> QED BY <2>1, <2>6, <2>7, <2>8, <2>9, <2>10
<1> QED BY <1>2, <1>3, <1>4, <1>5

\* What tiled prefill writes and reads: each warp its share of a part, then all
\* of them the whole part.
LEMMA TiledCells ==
  ASSUME kernel = "tiled", input \in Inputs(kernel), NEW w \in Warps,
         NEW n \in 1 .. 10 * input.tiles
  PROVE  /\ ~Leaves(w, n)
         /\ Is(w, n, "get") => ValuesOfCells(Program(w)[n].want)
         /\ Is(w, n, "put") \/ Is(w, n, "copy") => Program(w)[n].cell \in Cells
         /\ \A c \in Cells :
              /\ Writes(w, n, c) <=> StepOf(n) = 0 /\ c = Tile(w)
              /\ Writes(w, n, c) => Program(w)[n].value = Part(PartOf(n))
              /\ Reads(w, n, c) => /\ StepOf(n) = 3 /\ c[1] = "tile"
                                   /\ Program(w)[n].want[c] = Part(PartOf(n))
<1> PICK p : p = Program(w)
  OBVIOUS
<1>1. /\ Is(w, n, "copy") <=> StepOf(n) = 0
      /\ Is(w, n, "get") <=> StepOf(n) = 3
      /\ ~Is(w, n, "put")
      /\ StepOf(n) = 0 => p[n].cell = Tile(w) /\ p[n].value = Part(PartOf(n))
      /\ StepOf(n) = 3 =>
           /\ p[n].want = [c \in {Tile(v) : v \in Warps} |-> Part(PartOf(n))]
           /\ p[n].leave = NoLeave
  BY TiledOps
<1>2. ASSUME Is(w, n, "get")
      PROVE  \A c \in DOMAIN p[n].want :
               (\E v \in Warps : c = Tile(v)) /\ p[n].want[c] = Part(PartOf(n))
  BY <1>1, <1>2
<1>3. ~Leaves(w, n)
  <2>1. Part(PartOf(n)) # NoLeave
    BY DEF Part, NoLeave
  <2> QED BY <1>1, <1>2, <2>1 DEF Leaves
<1>4. Is(w, n, "get") => ValuesOfCells(p[n].want)
  <2>1. Is(w, n, "get") => DOMAIN p[n].want \in SUBSET Cells
    BY <1>2, CellParts
  <2>2. Is(w, n, "get") => p[n].want = [c \in DOMAIN p[n].want |-> p[n].want[c]]
    BY <1>1
  <2> QED BY <2>1, <2>2 DEF ValuesOfCells
<1>5. ASSUME NEW c \in Cells
      PROVE  /\ Writes(w, n, c) <=> StepOf(n) = 0 /\ c = Tile(w)
             /\ Writes(w, n, c) => p[n].value = Part(PartOf(n))
  BY <1>1 DEF Writes
<1>6. ASSUME NEW c \in Cells, Reads(w, n, c)
      PROVE  StepOf(n) = 3 /\ c[1] = "tile" /\ p[n].want[c] = Part(PartOf(n))
  BY <1>1, <1>2, <1>6, CellParts DEF Reads
<1>7. Is(w, n, "put") \/ Is(w, n, "copy") => p[n].cell \in Cells
  BY <1>1, CellParts
<1> QED BY <1>3, <1>4, <1>5, <1>6, <1>7

\* Two barriers to a part: one after the copies of it, and one after its reads
\* and before the next part is copied over it.
LEMMA TiledSound ==
  ASSUME kernel = "tiled", input \in Inputs(kernel), NEW w \in Warps
  PROVE  /\ Staged(w) /\ Formed(w) /\ Deposits(w) /\ Wants(w) /\ Keeps(w)
         /\ \A v \in Warps : Apart(w, v) /\ Whole(w, v)
<1> PICK last : last = 10 * input.tiles
  OBVIOUS
<1>1. input.tiles \in Nat /\ last \in Nat
  BY CtaSyncAssumption DEF Inputs
<1>2. ASSUME NEW v \in Warps
      PROVE  /\ DOMAIN Program(v) = 1 .. last /\ Len(Program(v)) = last
             /\ End(v) = last + 1 /\ Places(v) = 1 .. last + 1
  <2>1. DOMAIN Program(v) = 1 .. last /\ Len(Program(v)) = last
    BY TiledOps
  <2>2. ~Rejected
    BY DEF Rejected
  <2> QED BY <1>1, <2>1, <2>2 DEF End, Places
<1>3. ASSUME NEW v \in Warps, NEW n \in 1 .. last
      PROVE  /\ Is(v, n, "copy") <=> StepOf(n) = 0
             /\ Is(v, n, "wait") <=> StepOf(n) = 1
             /\ Is(v, n, "sync") <=> StepOf(n) = 2 \/ StepOf(n) = 4
  BY TiledOps
<1>4. ASSUME NEW v \in Warps, NEW n \in 1 .. last
      PROVE  /\ ~Leaves(v, n)
             /\ Is(v, n, "get") => ValuesOfCells(Program(v)[n].want)
             /\ Is(v, n, "put") \/ Is(v, n, "copy") => Program(v)[n].cell \in Cells
             /\ \A c \in Cells :
                  /\ Writes(v, n, c) <=> StepOf(n) = 0 /\ c = Tile(v)
                  /\ Writes(v, n, c) => Program(v)[n].value = Part(PartOf(n))
                  /\ Reads(v, n, c) => /\ StepOf(n) = 3 /\ c[1] = "tile"
                                       /\ Program(v)[n].want[c] = Part(PartOf(n))
  BY TiledCells
<1>5. ASSUME NEW v, NEW n \in Nat \ {0}
      PROVE  /\ StepOf(n) \in 0 .. 2 => Stage(v, n) = 2 * PartOf(n)
             /\ StepOf(n) \in 3 .. 4 => Stage(v, n) = 2 * PartOf(n) + 1
  BY DEF Stage, TiledStage, PartOf, StepOf
<1>6. ASSUME NEW v \in Warps, NEW n
      PROVE  /\ \A op : Is(v, n, op) => n \in 1 .. last /\ n \in Nat \ {0}
             /\ \A c : Writes(v, n, c) \/ Reads(v, n, c) => n \in 1 .. last /\ n \in Nat \ {0}
  <2>1. n \in DOMAIN Program(v) => n \in 1 .. last /\ n \in Nat \ {0}
    BY <1>1, <1>2
  <2> QED BY <2>1 DEF Is, Writes, Reads
<1>7. Staged(w)
  <2>1. 1 \in Places(w) /\ Stage(w, 1) = 0
    <3>1. PartOf(1) = 0 /\ StepOf(1) = 0
      BY DEF PartOf, StepOf
    <3> QED BY <1>1, <1>2, <1>5, <3>1
  <2>2. \A n \in Places(w) : Stage(w, n) \in Nat
    <3> SUFFICES ASSUME NEW n \in Places(w) PROVE Stage(w, n) \in Nat
      OBVIOUS
    <3>1. n \in Nat \ {0}
      BY <1>1, <1>2
    <3>2. PartOf(n) \in Nat /\ StepOf(n) \in 0 .. 4
      BY <3>1, StepFacts
    <3>3. /\ StepOf(n) \in 0 .. 2 => Stage(w, n) = 2 * PartOf(n)
          /\ StepOf(n) \in 3 .. 4 => Stage(w, n) = 2 * PartOf(n) + 1
      BY <1>5, <3>1
    <3> QED BY <3>2, <3>3
  <2>3. ASSUME NEW n \in Places(w) \ {End(w)}
        PROVE  /\ Follows(w, n) \in Places(w)
               /\ Stage(w, Follows(w, n)) = IF Is(w, n, "sync") THEN Stage(w, n) + 1 ELSE Stage(w, n)
               /\ \A m \in Places(w) : m < Follows(w, n) => m <= n
    <3>1. n \in 1 .. last /\ n \in Nat \ {0} /\ n + 1 \in Nat \ {0}
      BY <1>1, <1>2
    <3>2. Follows(w, n) = n + 1
      BY <1>4, <3>1 DEF Follows
    <3>3. n + 1 \in Places(w) /\ \A m \in Places(w) : m < n + 1 => m <= n
      BY <1>1, <1>2, <3>1
    <3>4. Is(w, n, "sync") <=> StepOf(n) = 2 \/ StepOf(n) = 4
      BY <1>3, <3>1
    <3>5. /\ PartOf(n) \in Nat /\ StepOf(n) \in 0 .. 4
          /\ StepOf(n) < 4 => PartOf(n + 1) = PartOf(n) /\ StepOf(n + 1) = StepOf(n) + 1
          /\ StepOf(n) = 4 => PartOf(n + 1) = PartOf(n) + 1 /\ StepOf(n + 1) = 0
      BY <3>1, StepFacts
    <3>6. /\ StepOf(n) = 2 \/ StepOf(n) = 4 => Stage(w, n + 1) = Stage(w, n) + 1
          /\ StepOf(n) = 0 \/ StepOf(n) = 1 \/ StepOf(n) = 3 => Stage(w, n + 1) = Stage(w, n)
      BY <1>5, <3>1, <3>5
    <3>7. Stage(w, n + 1) = IF Is(w, n, "sync") THEN Stage(w, n) + 1 ELSE Stage(w, n)
      BY <3>4, <3>5, <3>6
    <3> QED BY <3>2, <3>3, <3>7
  <2>4. \A m, n \in Places(w) : m <= n => Stage(w, m) <= Stage(w, n)
    <3> SUFFICES ASSUME NEW m \in Places(w), NEW n \in Places(w), m <= n
                 PROVE  Stage(w, m) <= Stage(w, n)
      OBVIOUS
    <3>0. Places(w) = 1 .. last + 1
      BY <1>2
    <3>1. m \in Nat \ {0} /\ n \in Nat \ {0}
      BY <1>1, <3>0
    <3>2. /\ PartOf(m) \in Nat /\ StepOf(m) \in 0 .. 4 /\ m = 5 * PartOf(m) + StepOf(m) + 1
          /\ PartOf(n) \in Nat /\ StepOf(n) \in 0 .. 4 /\ n = 5 * PartOf(n) + StepOf(n) + 1
      BY <3>1, StepFacts
    <3>3. PartOf(m) < PartOf(n) \/ (PartOf(m) = PartOf(n) /\ StepOf(m) <= StepOf(n))
      BY <3>1, <3>2
    <3>4. /\ StepOf(m) \in 0 .. 2 => Stage(w, m) = 2 * PartOf(m)
          /\ StepOf(m) \in 3 .. 4 => Stage(w, m) = 2 * PartOf(m) + 1
          /\ StepOf(n) \in 0 .. 2 => Stage(w, n) = 2 * PartOf(n)
          /\ StepOf(n) \in 3 .. 4 => Stage(w, n) = 2 * PartOf(n) + 1
      BY <1>5, <3>1
    <3> QED BY <3>2, <3>3, <3>4
  <2>5. Len(Program(w)) \in Nat /\ DOMAIN Program(w) = 1 .. Len(Program(w))
    BY <1>1, <1>2
  <2> QED BY <2>1, <2>2, <2>3, <2>4, <2>5 DEF Staged
<1>8. Formed(w)
  <2>1. ASSUME NEW n \in Places(w), Is(w, n, "copy")
        PROVE  Is(w, n + 1, "wait")
    <3>1. n \in 1 .. last /\ n \in Nat \ {0}
      BY <1>6, <2>1
    <3>2. StepOf(n) = 0 /\ StepOf(n + 1) = 1 /\ n = 5 * PartOf(n) + 1 /\ PartOf(n) \in Nat
      BY <1>3, <2>1, <3>1, StepFacts
    <3>3. n + 1 \in 1 .. last
      BY <1>1, <3>1, <3>2
    <3> QED BY <1>3, <3>2, <3>3
  <2>2. ASSUME NEW n \in Places(w), Is(w, n, "get")
        PROVE  ValuesOfCells(Program(w)[n].want)
    BY <1>2, <1>4, <1>6, <2>2
  <2>3. ASSUME NEW n \in Places(w), Is(w, n, "put") \/ Is(w, n, "copy")
        PROVE  Program(w)[n].cell \in Cells
    BY <1>4, <1>6, <2>3
  <2> QED BY <2>1, <2>2, <2>3 DEF Formed
<1>9. ASSUME NEW c, NEW k
      PROVE  Content(c, k) = IF k = 0 THEN Uninit
                             ELSE IF c[1] = "tile" THEN Part((k - 1) \div 2) ELSE Uninit
  BY DEF Content
<1>10. \A k \in Nat : /\ ((2 * k + 1) - 1) \div 2 = k /\ ((2 * k + 2) - 1) \div 2 = k
                      /\ 2 * k + 1 # 0 /\ 2 * k + 2 # 0
  OBVIOUS
<1>11. Deposits(w)
  <2> SUFFICES ASSUME NEW n \in Places(w), NEW c \in Cells, Writes(w, n, c)
               PROVE  /\ c[2] = w
                      /\ Program(w)[n].value = Content(c, Stage(w, n) + 1)
    BY DEF Deposits
  <2>1. n \in 1 .. last /\ n \in Nat \ {0}
    BY <1>6
  <2>2. StepOf(n) = 0 /\ c = Tile(w) /\ Program(w)[n].value = Part(PartOf(n))
    BY <1>4, <2>1
  <2>3. Stage(w, n) = 2 * PartOf(n) /\ PartOf(n) \in Nat
    BY <1>5, <2>1, <2>2, StepFacts
  <2>4. c[1] = "tile" /\ c[2] = w
    BY <2>2, CellParts
  <2> QED BY <1>9, <1>10, <2>2, <2>3, <2>4
<1>12. Wants(w)
  <2> SUFFICES ASSUME NEW n \in Places(w), NEW c \in Cells, Reads(w, n, c)
               PROVE  Program(w)[n].want[c] = Content(c, Stage(w, n))
    BY DEF Wants
  <2>1. n \in 1 .. last /\ n \in Nat \ {0}
    BY <1>6
  <2>2. StepOf(n) = 3 /\ c[1] = "tile" /\ Program(w)[n].want[c] = Part(PartOf(n))
    BY <1>4, <2>1
  <2>3. Stage(w, n) = 2 * PartOf(n) + 1 /\ PartOf(n) \in Nat
    BY <1>5, <2>1, <2>2, StepFacts
  <2> QED BY <1>9, <1>10, <2>2, <2>3
<1>13. Keeps(w)
  <2> SUFFICES ASSUME NEW c \in Cells, NEW s \in Places(w), Is(w, s, "sync"), c[2] = w,
                      \A n \in Places(w) : Writes(w, n, c) => Stage(w, n) # Stage(w, s)
               PROVE  Content(c, Stage(w, s) + 1) = Content(c, Stage(w, s))
    BY DEF Keeps
  <2>1. s \in 1 .. last /\ s \in Nat \ {0}
    BY <1>6
  <2>2. PartOf(s) \in Nat /\ (StepOf(s) = 2 \/ StepOf(s) = 4)
    BY <1>3, <2>1, StepFacts
  <2>3. CASE StepOf(s) = 2
    <3>1. s - 2 \in Nat \ {0} /\ StepOf(s - 2) = 0 /\ PartOf(s - 2) = PartOf(s)
      BY <2>1, <2>3, StepFacts
    <3>2. s - 2 \in 1 .. last /\ s - 2 \in Places(w)
      BY <1>1, <1>2, <2>1, <3>1
    <3>3. Stage(w, s - 2) = Stage(w, s)
      BY <1>5, <2>1, <2>3, <3>1
    <3>4. c # Tile(w)
      BY <1>4, <3>1, <3>2, <3>3
    <3>5. c[1] # "tile"
      BY <3>4, CellParts
    <3> QED BY <1>9, <3>5
  <2>4. CASE StepOf(s) = 4
    <3>1. Stage(w, s) = 2 * PartOf(s) + 1 /\ Stage(w, s) + 1 = 2 * PartOf(s) + 2
      BY <1>5, <2>1, <2>2, <2>4
    <3> QED BY <1>9, <1>10, <2>2, <3>1
  <2> QED BY <2>2, <2>3, <2>4
<1>14. ASSUME NEW v \in Warps
       PROVE  Apart(w, v) /\ Whole(w, v)
  <2>1. ASSUME NEW n \in Places(w), NEW m \in Places(v), NEW c \in Cells,
               Writes(w, n, c), Reads(v, m, c)
        PROVE  Stage(w, n) # Stage(v, m)
    <3>1. n \in 1 .. last /\ n \in Nat \ {0} /\ m \in 1 .. last /\ m \in Nat \ {0}
      BY <1>6, <2>1
    <3>2. StepOf(n) = 0 /\ StepOf(m) = 3
      BY <1>4, <2>1, <3>1
    <3>3. Stage(w, n) = 2 * PartOf(n) /\ Stage(v, m) = 2 * PartOf(m) + 1
      BY <1>5, <3>1, <3>2
    <3>4. PartOf(n) \in Nat /\ PartOf(m) \in Nat
      BY <3>1, StepFacts
    <3> QED BY <3>3, <3>4
  <2>2. Apart(w, v)
    BY <2>1 DEF Apart
  <2>3. ASSUME NEW n \in Places(w), Is(w, n, "sync")
        PROVE  Stage(w, n) < Stage(v, End(v))
    <3>1. n \in 1 .. last /\ n \in Nat \ {0}
      BY <1>6, <2>3
    <3>2. End(v) \in Nat \ {0} /\ PartOf(End(v)) = 2 * input.tiles /\ StepOf(End(v)) = 0
      <4>1. End(v) = 10 * input.tiles + 1
        BY <1>2
      <4> QED BY <1>1, <4>1 DEF PartOf, StepOf
    <3>3. Stage(v, End(v)) = 4 * input.tiles
      BY <1>1, <1>5, <3>2
    <3>4. PartOf(n) \in Nat /\ StepOf(n) \in 0 .. 4 /\ n = 5 * PartOf(n) + StepOf(n) + 1
      BY <3>1, StepFacts
    <3>5. PartOf(n) < 2 * input.tiles
      BY <1>1, <3>1, <3>4
    <3>6. Stage(w, n) = 2 * PartOf(n) \/ Stage(w, n) = 2 * PartOf(n) + 1
      BY <1>5, <3>1, <3>4
    <3> QED BY <1>1, <3>3, <3>4, <3>5, <3>6
  <2>4. Whole(w, v)
    BY <2>3 DEF Whole
  <2> QED BY <2>2, <2>4
<1> QED BY <1>7, <1>8, <1>11, <1>12, <1>13, <1>14

\* The kernels are sound.
LEMMA KernelsSound ==
  ASSUME kernel \in {"ragged", "paged", "split_k", "rms", "tiled"}, input \in Inputs(kernel)
  PROVE  Sound
BY ExchangeSound, RmsSound, PagedSound, TiledSound DEF Sound, Exchanging

-----------------------------------------------------------------------------
(* Nothing of this changes in a run *)

\* Programs and their stages depend on the kernel and its input alone.
LEMMA Fixed ==
  ASSUME kernel' = kernel, input' = input, NEW w
  PROVE  /\ Program(w)' = Program(w) /\ End(w)' = End(w) /\ Places(w)' = Places(w)
         /\ \A n : /\ Stage(w, n)' = Stage(w, n)
                   /\ \A op : Is(w, n, op)' <=> Is(w, n, op)
                   /\ \A c : /\ Writes(w, n, c)' <=> Writes(w, n, c)
                             /\ Reads(w, n, c)' <=> Reads(w, n, c)
         /\ \A c, k : Content(c, k)' = Content(c, k)
<1>1. \A v, from : Exchange(v, from)' = Exchange(v, from)
  BY DEF Exchange, OnlyIf, Put, Get, Sync, State, NoLeave
<1>2. /\ RaggedProgram(w)' = RaggedProgram(w)
      /\ SplitKMergeProgram(w)' = SplitKMergeProgram(w)
  BY <1>1 DEF RaggedProgram, SplitKMergeProgram
<1>3. RmsNormProgram(w)' = RmsNormProgram(w)
  BY DEF RmsNormProgram
<1>4. PagedProgram(w)' = PagedProgram(w)
  BY <1>1 DEF PagedProgram
<1>5. TiledProgram(w)' = TiledProgram(w)
  BY DEF TiledProgram
<1>6. Program(w)' = Program(w)
  BY <1>2, <1>3, <1>4, <1>5 DEF Program
<1>7. VoteGet' = VoteGet /\ (Rejected' <=> Rejected)
  BY DEF VoteGet, Rejected
<1>8. End(w)' = End(w) /\ Places(w)' = Places(w)
  BY <1>6, <1>7 DEF End, Places
<1>9. \A n : /\ \A op : Is(w, n, op)' <=> Is(w, n, op)
             /\ \A c : /\ Writes(w, n, c)' <=> Writes(w, n, c)
                       /\ Reads(w, n, c)' <=> Reads(w, n, c)
  BY <1>6 DEF Is, Writes, Reads
<1>10. \A n : Stage(w, n)' = Stage(w, n)
  BY <1>7 DEF Stage, ExchangeStage, RmsStage, PagedStage, TiledStage, Meeting, Broadcast
<1>11. \A c, k : Content(c, k)' = Content(c, k)
  BY DEF Content, Voted
<1> QED BY <1>6, <1>8, <1>9, <1>10, <1>11

-----------------------------------------------------------------------------
(* The invariant is kept *)

\* The soundness of the kernel that runs.
LEMMA TypedIsSound == ASSUME Typed PROVE Sound
BY KernelsSound DEF Typed

\* The stage of a warp after a step.
LEMMA HereMoves ==
  ASSUME kernel' = kernel, input' = input, NEW w
  PROVE  Here(w)' = Stage(w, next'[w])
BY Fixed DEF Here

\* The finished writes after a step, in terms of the state before it.
LEMMA WrittenMoves ==
  ASSUME kernel' = kernel, input' = input, NEW w, NEW c
  PROVE  Written(w, c)' <=>
           \E n \in Places(w) : /\ n < next'[w] /\ Stage(w, n) = Stage(w, next'[w]) /\ Writes(w, n, c)
                                /\ n = next'[w] - 1 => copying'[w] = {}
<1>1. Here(w)' = Stage(w, next'[w])
  BY HereMoves
<1> QED BY <1>1, Fixed DEF Written

\* A warp that is not at a wait has no copies under way.
LEMMA CopiesWait ==
  ASSUME Inductive, NEW w \in Warps, copying[w] # {}
  PROVE  Is(w, next[w], "wait")
<1> PICK copy \in copying[w] : TRUE
  OBVIOUS
<1>1. next[w] - 1 \in Places(w) /\ Is(w, next[w] - 1, "copy")
  BY DEF Inductive, CopyIsLast
<1>2. Formed(w)
  BY TypedIsSound DEF Inductive, Sound
<1>3. Is(w, (next[w] - 1) + 1, "wait")
  BY <1>1, <1>2 DEF Formed
<1>4. (next[w] - 1) + 1 = next[w]
  BY DEF Inductive, Typed
<1> QED BY <1>3, <1>4

\* A get finds what it wants.
LEMMA ReadsRight ==
  ASSUME Inductive, NEW w \in Warps, Is(w, next[w], "get")
  PROVE  LET want == Program(w)[next[w]].want IN
         /\ ValuesOfCells(want)
         /\ \A c \in DOMAIN want : shared[c] = want[c]
<1> PICK n, want : n = next[w] /\ want = Program(w)[n].want
  OBVIOUS
<1>1. Sound /\ n \in Places(w)
  BY TypedIsSound DEF Inductive, Typed
<1>2. ValuesOfCells(want)
  BY <1>1 DEF Sound, Formed
<1>3. ASSUME NEW c \in DOMAIN want
      PROVE  shared[c] = want[c]
  <2> PICK v : v = c[2]
    OBVIOUS
  <2>1. c \in Cells /\ v \in Warps /\ Reads(w, n, c)
    BY <1>2, CellParts DEF Reads, ValuesOfCells
  <2>2. want[c] = Content(c, Stage(w, n))
    BY <1>1, <2>1 DEF Sound, Wants
  <2>3. Here(v) = Stage(w, n)
    <3>1. Here(v) = Here(w)
      BY <2>1 DEF Inductive, Together
    <3> QED BY <3>1 DEF Here
  <2>4. ~Written(v, c)
    <3> SUFFICES ASSUME NEW k \in Places(v), k < next[v], Stage(v, k) = Here(v), Writes(v, k, c)
                 PROVE  FALSE
      BY DEF Written
    <3>1. w = v /\ n < k
      BY <1>1, <2>1, <2>3 DEF Sound, Apart
    <3>2. n \in Nat /\ k \in Nat
      BY <1>1, <3>1 DEF Places, Sound, Staged, End
    <3> QED BY <3>1, <3>2
  <2>5. shared[c] = Content(c, Here(v))
    BY <2>1, <2>4 DEF Inductive, HoldsLastWrite
  <2> QED BY <2>2, <2>3, <2>5
<1> QED BY <1>2, <1>3

\* A warp at an instruction has not ended.
LEMMA AtIs ==
  ASSUME Typed, NEW w \in Warps, NEW op, At(w, op)
  PROVE  /\ Is(w, next[w], op) /\ next[w] \in Places(w) \ {End(w)} /\ next[w] \in Nat
         /\ Instruction(w) = Program(w)[next[w]]
<1>1. next[w] \in Places(w) /\ next[w] \in Nat
  BY DEF Typed
<1>2. DOMAIN Program(w) = 1 .. Len(Program(w)) /\ Len(Program(w)) \in Nat
  BY TypedIsSound DEF Sound, Staged
<1>3. next[w] \in 1 .. Len(Program(w))
  BY <1>1, <1>2 DEF At, Ended, Places, End
<1> QED BY <1>1, <1>2, <1>3 DEF At, Is, Instruction, End

\* A warp that takes an instruction other than the barrier stays in the stage.
LEMMA Advancing ==
  ASSUME Typed, Together, kernel' = kernel, input' = input,
         NEW w \in Warps, NEW n, n = next[w], n # End(w), ~Is(w, n, "sync"),
         next' = [next EXCEPT ![w] = Follows(w, n)]
  PROVE  /\ next' \in [Warps -> Nat]
         /\ \A v \in Warps : next'[v] \in Places(v)'
         /\ \A v \in Warps : Here(v)' = Here(v)
         /\ Together'
         /\ \A v \in Warps : \A k \in Places(v) : k < next[v] => k < next'[v]
         /\ n < next'[w] /\ Stage(w, n) = Here(w)
         /\ \A k \in Places(w) : k < next'[w] => k < n \/ k = n
         /\ \A v \in Warps \ {w} : next'[v] = next[v]
<1>1. /\ next \in [Warps -> Nat] /\ \A v \in Warps : next[v] \in Places(v)
      /\ n \in Places(w) \ {End(w)}
  BY DEF Typed
<1>2. \A v \in Warps : Staged(v)
  BY TypedIsSound DEF Sound
<1>3. /\ Follows(w, n) \in Places(w) /\ Stage(w, Follows(w, n)) = Stage(w, n)
      /\ \A k \in Places(w) : k < Follows(w, n) => k <= n
  BY <1>1, <1>2 DEF Staged
<1>4. \A v \in Warps : Places(v) \in SUBSET Nat
  BY <1>2 DEF Places, Staged, End
<1>5. n < Follows(w, n)
  <2>1. n \in 1 .. End(w) /\ End(w) \in Nat
    BY <1>1, <1>2 DEF Places, Staged, End
  <2> QED BY <1>1, <2>1 DEF Follows
<1>6. next'[w] = Follows(w, n) /\ \A v \in Warps \ {w} : next'[v] = next[v]
  BY <1>1
<1>7. next' \in [Warps -> Nat]
  BY <1>1, <1>3, <1>4
<1>8. \A v \in Warps : next'[v] \in Places(v)'
  BY <1>1, <1>3, <1>6, Fixed
<1>9. \A v \in Warps : Here(v)' = Here(v)
  <2> SUFFICES ASSUME NEW v \in Warps PROVE Here(v)' = Here(v)
    OBVIOUS
  <2>1. Here(v)' = Stage(v, next'[v]) /\ Here(v) = Stage(v, next[v])
    BY HereMoves DEF Here
  <2> QED BY <1>3, <1>6, <2>1
<1>10. Together'
  BY <1>9 DEF Together
<1>11. \A v \in Warps : \A k \in Places(v) : k < next[v] => k < next'[v]
  <2> SUFFICES ASSUME NEW v \in Warps, NEW k \in Places(v), k < next[v]
               PROVE  k < next'[v]
    OBVIOUS
  <2>1. CASE v = w
    BY <1>1, <1>3, <1>4, <1>5, <1>6, <2>1
  <2>2. CASE v # w
    BY <1>6, <2>2
  <2> QED BY <2>1, <2>2
<1>12. \A k \in Places(w) : k < next'[w] => k < n \/ k = n
  BY <1>1, <1>3, <1>4, <1>6
<1>13. n < next'[w] /\ Stage(w, n) = Here(w)
  BY <1>5, <1>6 DEF Here
<1> QED BY <1>6, <1>7, <1>8, <1>9, <1>10, <1>11, <1>12, <1>13

\* The accesses that were of the stage still are.
LEMMA TouchedStays ==
  ASSUME TouchedHere, kernel' = kernel, input' = input,
         \A v \in Warps : Here(v)' = Here(v),
         \A v \in Warps : \A k \in Places(v) : k < next[v] => k < next'[v],
         NEW v \in Warps, NEW c \in Cells
  PROVE  /\ <<v, c, TRUE>> \in touched =>
              \E k \in Places(v) : k < next'[v] /\ Stage(v, k) = Here(v)' /\ Writes(v, k, c)
         /\ <<v, c, FALSE>> \in touched =>
              \E k \in Places(v) : k < next'[v] /\ Stage(v, k) = Here(v)' /\ Reads(v, k, c)
BY DEF TouchedHere

\* TouchedHere after a step, in terms of the state before it.
TouchedNext ==
  \A v \in Warps, c \in Cells :
    /\ <<v, c, TRUE>> \in touched' =>
         \E k \in Places(v) : k < next'[v] /\ Stage(v, k) = Here(v)' /\ Writes(v, k, c)
    /\ <<v, c, FALSE>> \in touched' =>
         \E k \in Places(v) : k < next'[v] /\ Stage(v, k) = Here(v)' /\ Reads(v, k, c)

\* TouchedHere from its form in terms of the state before the step.
LEMMA TouchedMoves ==
  ASSUME kernel' = kernel, input' = input, TouchedNext
  PROVE  TouchedHere'
<1>1. ASSUME NEW v \in Warps
      PROVE  /\ Places(v)' = Places(v)
             /\ \A k : /\ Stage(v, k)' = Stage(v, k)
                       /\ \A c : /\ Writes(v, k, c)' <=> Writes(v, k, c)
                                 /\ Reads(v, k, c)' <=> Reads(v, k, c)
  BY Fixed
<1> QED BY <1>1 DEF TouchedHere, TouchedNext

\* HoldsLastWrite likewise.
LEMMA HoldsMoves ==
  ASSUME kernel' = kernel, input' = input,
         \A v \in Warps, c \in Cells :
           c[2] = v => shared'[c] = Content(c, IF Written(v, c)' THEN Here(v)' + 1 ELSE Here(v)')
  PROVE  HoldsLastWrite'
<1>1. \A c, k : Content(c, k)' = Content(c, k)
  BY Fixed
<1> QED BY <1>1 DEF HoldsLastWrite

\* CopyIsLast likewise.
LEMMA CopiesMove ==
  ASSUME kernel' = kernel, input' = input,
         \A v \in Warps : \A copy \in copying'[v] :
           /\ next'[v] - 1 \in Places(v) /\ Is(v, next'[v] - 1, "copy")
           /\ Program(v)[next'[v] - 1] = copy
  PROVE  CopyIsLast'
<1>1. \A v \in Warps : /\ Places(v)' = Places(v) /\ Program(v)' = Program(v)
                       /\ \A k, op : Is(v, k, op)' <=> Is(v, k, op)
  BY Fixed
<1> QED BY <1>1 DEF CopyIsLast

\* Typed likewise.
LEMMA TypedMoves ==
  ASSUME Typed, kernel' = kernel, input' = input,
         next' \in [Warps -> Nat], \A v \in Warps : next'[v] \in Places(v)',
         DOMAIN shared' = Cells, DOMAIN copying' = Warps, DOMAIN got' = Warps,
         touched' \in SUBSET (Warps \X Cells \X BOOLEAN)
  PROVE  Typed'
BY DEF Typed, Inputs

\* A put gives the cell of the warp the content of the next stage.
LEMMA PutKeeps ==
  ASSUME Inductive, NEW w \in Warps, DoPut(w)
  PROVE  Inductive'
<1> PICK n, cell, value :
      n = next[w] /\ cell = Program(w)[n].cell /\ value = Program(w)[n].value
  OBVIOUS
<1>1. Typed /\ Together /\ kernel' = kernel /\ input' = input /\ copying' = copying /\ got' = got
  BY DEF Inductive, DoPut
<1>2. /\ Is(w, n, "put") /\ n \in Places(w) \ {End(w)} /\ n \in Nat
      /\ Instruction(w) = Program(w)[n]
  BY <1>1, AtIs DEF DoPut
<1>3. /\ shared' = [shared EXCEPT ![cell] = value]
      /\ touched' = touched \cup {<<w, cell, TRUE>>}
      /\ next' = [next EXCEPT ![w] = n + 1]
  BY <1>2 DEF DoPut, Advance
<1>4. Follows(w, n) = n + 1 /\ ~Is(w, n, "sync") /\ ~Is(w, n, "wait")
  BY <1>2 DEF Follows, Leaves, Is
<1>5. Writes(w, n, cell) /\ \A c : Writes(w, n, c) <=> c = cell
  BY <1>2 DEF Writes
<1>6. cell \in Cells /\ cell[2] = w /\ value = Content(cell, Here(w) + 1)
  <2>1. Deposits(w) /\ Formed(w)
    BY <1>1, TypedIsSound DEF Sound
  <2>2. cell \in Cells
    BY <1>2, <2>1 DEF Formed
  <2> QED BY <1>2, <1>5, <2>1, <2>2 DEF Deposits, Here
<1>7. /\ next' \in [Warps -> Nat]
      /\ \A v \in Warps : next'[v] \in Places(v)'
      /\ \A v \in Warps : Here(v)' = Here(v)
      /\ Together'
      /\ \A v \in Warps : \A k \in Places(v) : k < next[v] => k < next'[v]
      /\ n < next'[w] /\ Stage(w, n) = Here(w)
      /\ \A k \in Places(w) : k < next'[w] => k < n \/ k = n
      /\ \A v \in Warps \ {w} : next'[v] = next[v]
  BY <1>1, <1>2, <1>3, <1>4, Advancing
<1>8. copying[w] = {}
  BY <1>4, CopiesWait
<1>9. Typed'
  <2>1. DOMAIN shared' = Cells
    BY <1>1, <1>3 DEF Typed
  <2>3. touched' \in SUBSET (Warps \X Cells \X BOOLEAN)
    <3>1. <<w, cell, TRUE>> \in Warps \X Cells \X BOOLEAN
      BY <1>6
    <3> QED BY <1>1, <1>3, <3>1 DEF Typed
  <2>2. DOMAIN copying' = Warps /\ DOMAIN got' = Warps
    BY <1>1 DEF Typed
  <2> QED BY <1>1, <1>7, <2>1, <2>2, <2>3, TypedMoves
<1>10. CopyIsLast'
  <2> SUFFICES ASSUME NEW v \in Warps, NEW copy \in copying'[v]
               PROVE  /\ next'[v] - 1 \in Places(v) /\ Is(v, next'[v] - 1, "copy")
                      /\ Program(v)[next'[v] - 1] = copy
    BY <1>1, CopiesMove
  <2>1. v # w /\ next'[v] = next[v] /\ copy \in copying[v]
    BY <1>1, <1>7, <1>8
  <2> QED BY <2>1 DEF Inductive, CopyIsLast
<1>11. TouchedHere'
  <2>1. ASSUME NEW v \in Warps, NEW c \in Cells, <<v, c, TRUE>> \in touched'
        PROVE  \E k \in Places(v) : k < next'[v] /\ Stage(v, k) = Here(v)' /\ Writes(v, k, c)
    <3>1. CASE <<v, c, TRUE>> \in touched
      BY <1>1, <1>7, <3>1, TouchedStays DEF Inductive
    <3>2. CASE v = w /\ c = cell
      BY <1>2, <1>5, <1>7, <3>2
    <3> QED BY <1>3, <2>1, <3>1, <3>2
  <2>2. ASSUME NEW v \in Warps, NEW c \in Cells, <<v, c, FALSE>> \in touched'
        PROVE  \E k \in Places(v) : k < next'[v] /\ Stage(v, k) = Here(v)' /\ Reads(v, k, c)
    <3>1. <<v, c, FALSE>> \in touched
      BY <1>3, <2>2
    <3> QED BY <1>1, <1>7, <3>1, TouchedStays DEF Inductive
  <2>3. TouchedNext
    BY <2>1, <2>2 DEF TouchedNext
  <2> QED BY <1>1, <2>3, TouchedMoves
<1>12. HoldsLastWrite'
  <2> SUFFICES ASSUME NEW v \in Warps, NEW c \in Cells, c[2] = v
               PROVE  shared'[c] = Content(c, IF Written(v, c)' THEN Here(v)' + 1 ELSE Here(v)')
    BY <1>1, HoldsMoves
  <2>1. Written(v, c)' <=>
          \E k \in Places(v) : /\ k < next'[v] /\ Stage(v, k) = Here(v) /\ Writes(v, k, c)
                               /\ k = next'[v] - 1 => copying'[v] = {}
    <3>1. Here(v)' = Stage(v, next'[v])
      BY <1>1, HereMoves
    <3> QED BY <1>1, <1>7, <3>1, WrittenMoves
  <2>2. CASE c = cell
    <3>1. v = w /\ Written(v, c)'
      BY <1>1, <1>2, <1>5, <1>6, <1>7, <1>8, <2>1, <2>2
    <3>2. shared'[c] = value
      BY <1>1, <1>3, <1>6, <2>2 DEF Typed
    <3> QED BY <1>6, <1>7, <2>2, <3>1, <3>2
  <2>3. CASE c # cell
    <3>1. shared'[c] = shared[c]
      BY <1>1, <1>3, <2>3 DEF Typed
    <3>2. Written(v, c)' <=> Written(v, c)
      <4>1. CASE v = w
        BY <1>1, <1>2, <1>5, <1>7, <1>8, <2>1, <2>3, <4>1 DEF Written
      <4>2. CASE v # w
        BY <1>1, <1>7, <2>1, <4>2 DEF Written
      <4> QED BY <4>1, <4>2
    <3>3. shared[c] = Content(c, IF Written(v, c) THEN Here(v) + 1 ELSE Here(v))
      BY DEF Inductive, HoldsLastWrite
    <3> QED BY <1>7, <3>1, <3>2, <3>3
  <2> QED BY <2>2, <2>3
<1>13. ReadsItsStage'
  BY <1>1 DEF Inductive, ReadsItsStage
<1> QED BY <1>7, <1>9, <1>10, <1>11, <1>12, <1>13 DEF Inductive

\* A warp that moves on without a finished write.
LEMMA HoldsThrough ==
  ASSUME HoldsLastWrite, kernel' = kernel, input' = input, shared' = shared,
         NEW w \in Warps, NEW n, n = next[w], n \in Nat,
         copying[w] = {}, next'[w] \in Nat,
         Is(w, n, "copy") \/ Is(w, n, "put") => copying'[w] # {} /\ next'[w] = n + 1,
         \A v \in Warps \ {w} : next'[v] = next[v] /\ copying'[v] = copying[v],
         \A v \in Warps : Here(v)' = Here(v),
         \A k \in Places(w) : k < next[w] => k < next'[w],
         \A k \in Places(w) : k < next'[w] => k < n \/ k = n,
         \A k \in Places(w) : k \in Nat,
         copying'[w] # {} => next'[w] = n + 1
  PROVE  HoldsLastWrite'
<1> SUFFICES ASSUME NEW v \in Warps, NEW c \in Cells, c[2] = v
             PROVE  shared'[c] = Content(c, IF Written(v, c)' THEN Here(v)' + 1 ELSE Here(v)')
  BY HoldsMoves
<1>1. Written(v, c)' <=>
        \E k \in Places(v) : /\ k < next'[v] /\ Stage(v, k) = Here(v) /\ Writes(v, k, c)
                             /\ k = next'[v] - 1 => copying'[v] = {}
  <2>1. Here(v) = Stage(v, next'[v])
    BY HereMoves
  <2> QED BY <2>1, WrittenMoves
<1>2. Written(v, c)' <=> Written(v, c)
  <2>1. CASE v # w
    BY <1>1, <2>1 DEF Written
  <2>2. CASE v = w
    <3>1. ASSUME NEW k \in Places(w), k < next[w]
          PROVE  k < next'[w] /\ (k = next'[w] - 1 => copying'[w] = {})
      BY <3>1
    <3>2. ASSUME NEW k \in Places(w), k < next'[w], Writes(w, k, c),
                 k = next'[w] - 1 => copying'[w] = {}
          PROVE  k < next[w]
      <4>1. k # n
        BY <3>2 DEF Writes
      <4> QED BY <3>2, <4>1
    <3> QED BY <1>1, <2>2, <3>1, <3>2 DEF Written
  <2> QED BY <2>1, <2>2
<1>3. shared[c] = Content(c, IF Written(v, c) THEN Here(v) + 1 ELSE Here(v))
  BY DEF HoldsLastWrite
<1> QED BY <1>2, <1>3

\* A get reads what it wants, and leaves only where all warps do.
LEMMA GetKeeps ==
  ASSUME Inductive, NEW w \in Warps, DoGet(w)
  PROVE  Inductive'
<1> PICK n, want : n = next[w] /\ want = Program(w)[n].want
  OBVIOUS
<1>1. /\ Typed /\ Together /\ kernel' = kernel /\ input' = input
      /\ copying' = copying /\ shared' = shared
  BY DEF Inductive, DoGet
<1>2. /\ Is(w, n, "get") /\ n \in Places(w) \ {End(w)} /\ n \in Nat
      /\ Instruction(w) = Program(w)[n]
  BY <1>1, AtIs DEF DoGet
<1>3. ~Is(w, n, "sync") /\ ~Is(w, n, "wait") /\ ~Is(w, n, "put") /\ ~Is(w, n, "copy")
  BY <1>2 DEF Is
<1>4. ValuesOfCells(want) /\ \A c \in DOMAIN want : c \in Cells /\ shared[c] = want[c]
  BY <1>2, ReadsRight DEF ValuesOfCells
<1>5. [c \in DOMAIN want |-> shared[c]] = want
  BY <1>4 DEF ValuesOfCells
<1> PICK value : value = [c \in DOMAIN want |-> shared[c]]
  OBVIOUS
<1>6. /\ value = [c \in DOMAIN want |-> shared[c]]
      /\ got' = [got EXCEPT ![w] = [want |-> want, value |-> value]]
      /\ touched' = touched \cup {<<w, c, FALSE>> : c \in DOMAIN want}
      /\ next' = [next EXCEPT ![w] = IF \E c \in DOMAIN want : value[c] = Program(w)[n].leave
                                     THEN Len(Program(w)) + 1 ELSE n + 1]
  <2>1. Instruction(w).want = want /\ Instruction(w).leave = Program(w)[n].leave
    BY <1>2
  <2>2. got' = [got EXCEPT ![w] = [want |-> want, value |-> value]]
    BY <2>1 DEF DoGet
  <2>3. touched' = touched \cup {<<w, c, FALSE>> : c \in DOMAIN want}
    BY <2>1 DEF DoGet
  <2>4. next' = [next EXCEPT ![w] = IF \E c \in DOMAIN want : value[c] = Program(w)[n].leave
                                    THEN Len(Program(w)) + 1 ELSE n + 1]
    BY <2>1 DEF DoGet
  <2> QED BY <2>2, <2>3, <2>4
<1>7. next' = [next EXCEPT ![w] = Follows(w, n)]
  <2>1. (\E c \in DOMAIN want : value[c] = Program(w)[n].leave) <=> Leaves(w, n)
    BY <1>2, <1>4, <1>6 DEF Leaves
  <2> QED BY <1>6, <2>1 DEF Follows, End
<1>8. /\ next' \in [Warps -> Nat]
      /\ \A v \in Warps : next'[v] \in Places(v)'
      /\ \A v \in Warps : Here(v)' = Here(v)
      /\ Together'
      /\ \A v \in Warps : \A k \in Places(v) : k < next[v] => k < next'[v]
      /\ n < next'[w] /\ Stage(w, n) = Here(w)
      /\ \A k \in Places(w) : k < next'[w] => k < n \/ k = n
      /\ \A v \in Warps \ {w} : next'[v] = next[v]
  BY <1>1, <1>2, <1>3, <1>7, Advancing
<1>9. copying[w] = {}
  BY <1>3, CopiesWait
<1>10. Typed'
  <2>1. DOMAIN shared' = Cells /\ DOMAIN copying' = Warps /\ DOMAIN got' = Warps
    BY <1>1, <1>6 DEF Typed
  <2>2. touched' \in SUBSET (Warps \X Cells \X BOOLEAN)
    <3>1. \A c \in DOMAIN want : <<w, c, FALSE>> \in Warps \X Cells \X BOOLEAN
      BY <1>4
    <3>2. touched \in SUBSET (Warps \X Cells \X BOOLEAN)
      BY <1>1 DEF Typed
    <3>3. \A a \in touched' : a \in touched \/ \E c \in DOMAIN want : a = <<w, c, FALSE>>
      BY <1>6
    <3> QED BY <3>1, <3>2, <3>3
  <2> QED BY <1>1, <1>8, <2>1, <2>2, TypedMoves
<1>11. CopyIsLast'
  <2> SUFFICES ASSUME NEW v \in Warps, NEW copy \in copying'[v]
               PROVE  /\ next'[v] - 1 \in Places(v) /\ Is(v, next'[v] - 1, "copy")
                      /\ Program(v)[next'[v] - 1] = copy
    BY <1>1, CopiesMove
  <2>1. v # w /\ next'[v] = next[v] /\ copy \in copying[v]
    BY <1>1, <1>8, <1>9
  <2> QED BY <2>1 DEF Inductive, CopyIsLast
<1>12. TouchedHere'
  <2>1. ASSUME NEW v \in Warps, NEW c \in Cells, <<v, c, TRUE>> \in touched'
        PROVE  \E k \in Places(v) : k < next'[v] /\ Stage(v, k) = Here(v)' /\ Writes(v, k, c)
    <3>1. <<v, c, TRUE>> \in touched
      BY <1>6, <2>1
    <3> QED BY <1>1, <1>8, <3>1, TouchedStays DEF Inductive
  <2>2. ASSUME NEW v \in Warps, NEW c \in Cells, <<v, c, FALSE>> \in touched'
        PROVE  \E k \in Places(v) : k < next'[v] /\ Stage(v, k) = Here(v)' /\ Reads(v, k, c)
    <3>1. CASE <<v, c, FALSE>> \in touched
      BY <1>1, <1>8, <3>1, TouchedStays DEF Inductive
    <3>2. CASE v = w /\ c \in DOMAIN want
      <4>1. Reads(w, n, c)
        BY <1>2, <3>2 DEF Reads
      <4> QED BY <1>2, <1>8, <3>2, <4>1
    <3> QED BY <1>6, <2>2, <3>1, <3>2
  <2>3. TouchedNext
    BY <2>1, <2>2 DEF TouchedNext
  <2> QED BY <1>1, <2>3, TouchedMoves
<1>13. HoldsLastWrite'
  <2>1. \A k \in Places(w) : k \in Nat
    BY <1>1, TypedIsSound DEF Sound, Staged, Places, End
  <2> QED BY <1>1, <1>2, <1>3, <1>8, <1>9, <2>1, HoldsThrough DEF Inductive
<1>14. ReadsItsStage'
  <2>1. want = value
    BY <1>5, <1>6
  <2>2. \A v \in Warps \ {w} : got'[v] = got[v]
    BY <1>6
  <2>3. got'[w] = [want |-> want, value |-> value]
    BY <1>1, <1>6 DEF Typed
  <2> QED BY <2>1, <2>2, <2>3 DEF Inductive, ReadsItsStage
<1> QED BY <1>8, <1>10, <1>11, <1>12, <1>13, <1>14 DEF Inductive

\* A copy that has begun is not a finished write.
LEMMA StartCopyKeeps ==
  ASSUME Inductive, NEW w \in Warps, StartCopy(w)
  PROVE  Inductive'
<1> PICK n : n = next[w]
  OBVIOUS
<1>1. /\ Typed /\ Together /\ kernel' = kernel /\ input' = input
      /\ shared' = shared /\ touched' = touched /\ got' = got
  BY DEF Inductive, StartCopy
<1>2. /\ Is(w, n, "copy") /\ n \in Places(w) \ {End(w)} /\ n \in Nat
      /\ Instruction(w) = Program(w)[n]
  BY <1>1, AtIs DEF StartCopy
<1>3. ~Is(w, n, "sync") /\ ~Is(w, n, "wait") /\ Follows(w, n) = n + 1
  BY <1>2 DEF Is, Follows, Leaves
<1>4. copying[w] = {}
  BY <1>3, CopiesWait
<1>5. /\ next' = [next EXCEPT ![w] = Follows(w, n)]
      /\ copying' = [copying EXCEPT ![w] = {Program(w)[n]}]
  BY <1>2, <1>3, <1>4 DEF StartCopy, Advance
<1>6. /\ next' \in [Warps -> Nat]
      /\ \A v \in Warps : next'[v] \in Places(v)'
      /\ \A v \in Warps : Here(v)' = Here(v)
      /\ Together'
      /\ \A v \in Warps : \A k \in Places(v) : k < next[v] => k < next'[v]
      /\ n < next'[w] /\ Stage(w, n) = Here(w)
      /\ \A k \in Places(w) : k < next'[w] => k < n \/ k = n
      /\ \A v \in Warps \ {w} : next'[v] = next[v]
  BY <1>1, <1>2, <1>3, <1>5, Advancing
<1>7. /\ next'[w] = n + 1 /\ copying'[w] = {Program(w)[n]}
      /\ \A v \in Warps \ {w} : copying'[v] = copying[v]
  BY <1>1, <1>3, <1>5 DEF Typed
<1>8. Typed'
  <2>1. DOMAIN shared' = Cells /\ DOMAIN copying' = Warps /\ DOMAIN got' = Warps
    BY <1>1, <1>5 DEF Typed
  <2>2. touched' \in SUBSET (Warps \X Cells \X BOOLEAN)
    BY <1>1 DEF Typed
  <2> QED BY <1>1, <1>6, <2>1, <2>2, TypedMoves
<1>9. CopyIsLast'
  <2> SUFFICES ASSUME NEW v \in Warps, NEW copy \in copying'[v]
               PROVE  /\ next'[v] - 1 \in Places(v) /\ Is(v, next'[v] - 1, "copy")
                      /\ Program(v)[next'[v] - 1] = copy
    BY <1>1, CopiesMove
  <2>1. CASE v = w
    <3>1. copy = Program(w)[n] /\ next'[w] - 1 = n
      BY <1>2, <1>7, <2>1
    <3> QED BY <1>2, <2>1, <3>1
  <2>2. CASE v # w
    <3>1. next'[v] = next[v] /\ copy \in copying[v]
      BY <1>6, <1>7, <2>2
    <3> QED BY <3>1 DEF Inductive, CopyIsLast
  <2> QED BY <2>1, <2>2
<1>10. TouchedHere'
  <2>1. TouchedNext
    BY <1>1, <1>6, TouchedStays DEF Inductive, TouchedNext
  <2> QED BY <1>1, <2>1, TouchedMoves
<1>11. HoldsLastWrite'
  <2>1. \A k \in Places(w) : k \in Nat
    BY <1>1, TypedIsSound DEF Sound, Staged, Places, End
  <2>2. next'[w] \in Nat /\ copying'[w] # {}
    BY <1>2, <1>7
  <2> QED BY <1>1, <1>2, <1>4, <1>6, <1>7, <2>1, <2>2, HoldsThrough DEF Inductive
<1>12. ReadsItsStage'
  BY <1>1 DEF Inductive, ReadsItsStage
<1> QED BY <1>6, <1>8, <1>9, <1>10, <1>11, <1>12 DEF Inductive

\* A wait ends only when the copies have landed.
LEMMA WaitKeeps ==
  ASSUME Inductive, NEW w \in Warps, DoWait(w)
  PROVE  Inductive'
<1> PICK n : n = next[w]
  OBVIOUS
<1>1. /\ Typed /\ Together /\ kernel' = kernel /\ input' = input /\ copying' = copying
      /\ shared' = shared /\ touched' = touched /\ got' = got /\ copying[w] = {}
  BY DEF Inductive, DoWait
<1>2. Is(w, n, "wait") /\ n \in Places(w) \ {End(w)} /\ n \in Nat
  BY <1>1, AtIs DEF DoWait
<1>3. /\ ~Is(w, n, "sync") /\ ~Is(w, n, "put") /\ ~Is(w, n, "copy")
      /\ Follows(w, n) = n + 1
  BY <1>2 DEF Is, Follows, Leaves
<1>4. next' = [next EXCEPT ![w] = Follows(w, n)]
  BY <1>3 DEF DoWait, Advance
<1>5. /\ next' \in [Warps -> Nat]
      /\ \A v \in Warps : next'[v] \in Places(v)'
      /\ \A v \in Warps : Here(v)' = Here(v)
      /\ Together'
      /\ \A v \in Warps : \A k \in Places(v) : k < next[v] => k < next'[v]
      /\ n < next'[w] /\ Stage(w, n) = Here(w)
      /\ \A k \in Places(w) : k < next'[w] => k < n \/ k = n
      /\ \A v \in Warps \ {w} : next'[v] = next[v]
  BY <1>1, <1>2, <1>3, <1>4, Advancing
<1>6. Typed'
  <2>1. /\ DOMAIN shared' = Cells /\ DOMAIN copying' = Warps /\ DOMAIN got' = Warps
        /\ touched' \in SUBSET (Warps \X Cells \X BOOLEAN)
    BY <1>1 DEF Typed
  <2> QED BY <1>1, <1>5, <2>1, TypedMoves
<1>7. CopyIsLast'
  <2> SUFFICES ASSUME NEW v \in Warps, NEW copy \in copying'[v]
               PROVE  /\ next'[v] - 1 \in Places(v) /\ Is(v, next'[v] - 1, "copy")
                      /\ Program(v)[next'[v] - 1] = copy
    BY <1>1, CopiesMove
  <2>1. next'[v] = next[v] /\ copy \in copying[v]
    BY <1>1, <1>5
  <2> QED BY <2>1 DEF Inductive, CopyIsLast
<1>8. TouchedHere'
  <2>1. TouchedNext
    BY <1>1, <1>5, TouchedStays DEF Inductive, TouchedNext
  <2> QED BY <1>1, <2>1, TouchedMoves
<1>9. HoldsLastWrite'
  <2>1. \A k \in Places(w) : k \in Nat
    BY <1>1, TypedIsSound DEF Sound, Staged, Places, End
  <2> QED BY <1>1, <1>2, <1>3, <1>5, <2>1, HoldsThrough DEF Inductive
<1>10. ReadsItsStage'
  BY <1>1 DEF Inductive, ReadsItsStage
<1> QED BY <1>5, <1>6, <1>7, <1>8, <1>9, <1>10 DEF Inductive

\* A copy lands in the stage it was begun in, in a cell of the warp.
LEMMA CopyLandsKeeps ==
  ASSUME Inductive, NEW w \in Warps, CopyLands(w)
  PROVE  Inductive'
<1> PICK copy \in copying[w] :
      /\ shared' = [shared EXCEPT ![copy.cell] = copy.value]
      /\ touched' = touched \cup {<<w, copy.cell, TRUE>>}
      /\ copying' = [copying EXCEPT ![w] = @ \ {copy}]
  BY DEF CopyLands
<1> PICK n, cell : n = next[w] - 1 /\ cell = copy.cell
  OBVIOUS
<1>1. /\ Typed /\ Together /\ kernel' = kernel /\ input' = input /\ next' = next /\ got' = got
  BY DEF Inductive, CopyLands
<1>2. n \in Places(w) /\ Is(w, n, "copy") /\ Program(w)[n] = copy
  BY DEF Inductive, CopyIsLast
<1>3. next[w] \in Nat /\ n \in Int /\ n + 1 = next[w] /\ n < next[w]
  BY <1>1 DEF Typed
<1>4. Stage(w, n) = Here(w)
  <2>1. Staged(w) /\ n # End(w) /\ ~Is(w, n, "sync") /\ Follows(w, n) = n + 1
    BY <1>1, <1>2, TypedIsSound DEF Sound, Staged, Is, End, Follows, Leaves
  <2> QED BY <1>2, <1>3, <2>1 DEF Staged, Here
<1>5. Writes(w, n, cell) /\ \A c : Writes(w, n, c) <=> c = cell
  BY <1>2 DEF Writes
<1>6. cell \in Cells /\ cell[2] = w /\ copy.value = Content(cell, Here(w) + 1)
  <2>1. Deposits(w) /\ Formed(w)
    BY <1>1, TypedIsSound DEF Sound
  <2>2. cell \in Cells
    BY <1>2, <2>1 DEF Formed
  <2> QED BY <1>2, <1>4, <1>5, <2>1, <2>2 DEF Deposits
<1>7. copying'[w] = {} /\ \A v \in Warps \ {w} : copying'[v] = copying[v]
  <2>1. \A other \in copying[w] : other = copy
    BY <1>2 DEF Inductive, CopyIsLast
  <2>2. copying[w] \ {copy} = {}
    BY <2>1
  <2> QED BY <1>1, <2>2 DEF Typed
<1>8. \A v \in Warps : Here(v)' = Here(v) /\ next'[v] \in Places(v)'
  <2> SUFFICES ASSUME NEW v \in Warps PROVE Here(v)' = Here(v) /\ next'[v] \in Places(v)'
    OBVIOUS
  <2>1. Here(v)' = Stage(v, next'[v]) /\ Places(v)' = Places(v)
    BY <1>1, HereMoves, Fixed
  <2> QED BY <1>1, <2>1 DEF Here, Typed
<1>9. Together'
  BY <1>1, <1>8 DEF Together
<1>10. Typed'
  <2>1. DOMAIN shared' = Cells /\ DOMAIN copying' = Warps /\ DOMAIN got' = Warps
    BY <1>1 DEF Typed
  <2>2. touched' \in SUBSET (Warps \X Cells \X BOOLEAN)
    <3>1. <<w, cell, TRUE>> \in Warps \X Cells \X BOOLEAN
      BY <1>6
    <3> QED BY <1>1, <3>1 DEF Typed
  <2>3. next' \in [Warps -> Nat]
    BY <1>1 DEF Typed
  <2> QED BY <1>1, <1>8, <2>1, <2>2, <2>3, TypedMoves
<1>11. CopyIsLast'
  <2> SUFFICES ASSUME NEW v \in Warps, NEW other \in copying'[v]
               PROVE  /\ next'[v] - 1 \in Places(v) /\ Is(v, next'[v] - 1, "copy")
                      /\ Program(v)[next'[v] - 1] = other
    BY <1>1, CopiesMove
  <2>1. v # w /\ next'[v] = next[v] /\ other \in copying[v]
    BY <1>1, <1>7
  <2> QED BY <2>1 DEF Inductive, CopyIsLast
<1>12. TouchedHere'
  <2>1. \A v \in Warps : \A k \in Places(v) : k < next[v] => k < next'[v]
    BY <1>1
  <2>2. ASSUME NEW v \in Warps, NEW c \in Cells, <<v, c, TRUE>> \in touched'
        PROVE  \E k \in Places(v) : k < next'[v] /\ Stage(v, k) = Here(v)' /\ Writes(v, k, c)
    <3>1. CASE <<v, c, TRUE>> \in touched
      BY <1>1, <1>8, <2>1, <3>1, TouchedStays DEF Inductive
    <3>2. CASE v = w /\ c = cell
      BY <1>1, <1>2, <1>3, <1>4, <1>5, <1>8, <3>2
    <3> QED BY <2>2, <3>1, <3>2
  <2>3. ASSUME NEW v \in Warps, NEW c \in Cells, <<v, c, FALSE>> \in touched'
        PROVE  \E k \in Places(v) : k < next'[v] /\ Stage(v, k) = Here(v)' /\ Reads(v, k, c)
    <3>1. <<v, c, FALSE>> \in touched
      BY <2>3
    <3> QED BY <1>1, <1>8, <2>1, <3>1, TouchedStays DEF Inductive
  <2>4. TouchedNext
    BY <2>2, <2>3 DEF TouchedNext
  <2> QED BY <1>1, <2>4, TouchedMoves
<1>13. HoldsLastWrite'
  <2> SUFFICES ASSUME NEW v \in Warps, NEW c \in Cells, c[2] = v
               PROVE  shared'[c] = Content(c, IF Written(v, c)' THEN Here(v)' + 1 ELSE Here(v)')
    BY <1>1, HoldsMoves
  <2>1. Written(v, c)' <=>
          \E k \in Places(v) : /\ k < next[v] /\ Stage(v, k) = Here(v) /\ Writes(v, k, c)
                               /\ k = next[v] - 1 => copying'[v] = {}
    <3>1. Here(v) = Stage(v, next'[v])
      BY <1>1 DEF Here
    <3> QED BY <1>1, <3>1, WrittenMoves
  <2>2. CASE c = cell
    <3>1. v = w /\ Written(v, c)'
      BY <1>2, <1>3, <1>4, <1>5, <1>6, <1>7, <2>1, <2>2
    <3>2. shared'[c] = copy.value
      BY <1>1, <1>6, <2>2 DEF Typed
    <3> QED BY <1>6, <1>8, <2>2, <3>1, <3>2
  <2>3. CASE c # cell
    <3>1. shared'[c] = shared[c]
      BY <1>1, <2>3 DEF Typed
    <3>2. Written(v, c)' <=> Written(v, c)
      <4>1. CASE v = w
        <5>1. \A k : Writes(w, k, c) => k # next[w] - 1
          BY <1>5, <2>3
        <5> QED BY <2>1, <4>1, <5>1 DEF Written
      <4>2. CASE v # w
        BY <1>7, <2>1, <4>2 DEF Written
      <4> QED BY <4>1, <4>2
    <3>3. shared[c] = Content(c, IF Written(v, c) THEN Here(v) + 1 ELSE Here(v))
      BY DEF Inductive, HoldsLastWrite
    <3> QED BY <1>8, <3>1, <3>2, <3>3
  <2> QED BY <2>2, <2>3
<1>14. ReadsItsStage'
  BY <1>1 DEF Inductive, ReadsItsStage
<1> QED BY <1>9, <1>10, <1>11, <1>12, <1>13, <1>14 DEF Inductive

\* Behind a barrier every cell holds what the next stage begins with: its writes
\* of the stage are finished, and a cell without any keeps its content.
LEMMA BarrierKeeps ==
  ASSUME Inductive, Barrier
  PROVE  Inductive'
<1>1. /\ Typed /\ Together /\ kernel' = kernel /\ input' = input /\ touched' = {}
      /\ shared' = shared /\ copying' = copying /\ got' = got
      /\ next' = [w \in Warps |-> next[w] + 1]
  BY DEF Inductive, Barrier
<1>2. ASSUME NEW w \in Warps
      PROVE  /\ Is(w, next[w], "sync") /\ next[w] \in Places(w) \ {End(w)} /\ next[w] \in Nat
             /\ Staged(w) /\ Keeps(w) /\ Deposits(w) /\ copying[w] = {}
  <2>1. Is(w, next[w], "sync") /\ next[w] \in Places(w) \ {End(w)} /\ next[w] \in Nat
    BY <1>1, AtIs DEF Barrier
  <2>2. Staged(w) /\ Keeps(w) /\ Deposits(w)
    BY <1>1, TypedIsSound DEF Sound
  <2>3. ~Is(w, next[w], "wait")
    BY <2>1 DEF Is
  <2> QED BY <2>1, <2>2, <2>3, CopiesWait
<1>3. ASSUME NEW w \in Warps
      PROVE  /\ next'[w] = next[w] + 1 /\ next'[w] \in Nat /\ next'[w] \in Places(w)
             /\ Here(w)' = Here(w) + 1
             /\ \A k \in Places(w) : k < next'[w] => k <= next[w] /\ Stage(w, k) <= Here(w)
  <2>1. next'[w] = next[w] + 1 /\ next'[w] \in Nat
    BY <1>1, <1>2
  <2>2. Follows(w, next[w]) = next'[w]
    BY <1>2, <2>1 DEF Follows, Leaves, Is
  <2>3. /\ next'[w] \in Places(w) /\ Stage(w, next'[w]) = Stage(w, next[w]) + 1
        /\ \A k \in Places(w) : k < next'[w] => k <= next[w]
    BY <1>2, <2>2 DEF Staged
  <2>4. Here(w)' = Stage(w, next'[w])
    BY <1>1, HereMoves
  <2>5. \A k \in Places(w) : k <= next[w] => Stage(w, k) <= Stage(w, next[w])
    BY <1>2 DEF Staged
  <2> QED BY <2>1, <2>3, <2>4, <2>5 DEF Here
<1>4. Typed'
  <2>1. DOMAIN shared' = Cells /\ DOMAIN copying' = Warps /\ DOMAIN got' = Warps
    BY <1>1 DEF Typed
  <2>2. touched' \in SUBSET (Warps \X Cells \X BOOLEAN)
    BY <1>1
  <2>3. next' \in [Warps -> Nat]
    BY <1>1, <1>2
  <2>4. \A w \in Warps : next'[w] \in Places(w)'
    BY <1>1, <1>3, Fixed
  <2> QED BY <1>1, <2>1, <2>2, <2>3, <2>4, TypedMoves
<1>5. Together'
  BY <1>1, <1>3 DEF Together
<1>6. CopyIsLast'
  BY <1>1, <1>2, CopiesMove
<1>7. TouchedHere'
  <2>1. TouchedNext
    BY <1>1 DEF TouchedNext
  <2> QED BY <1>1, <2>1, TouchedMoves
<1>8. HoldsLastWrite'
  <2> SUFFICES ASSUME NEW v \in Warps, NEW c \in Cells, c[2] = v
               PROVE  shared'[c] = Content(c, IF Written(v, c)' THEN Here(v)' + 1 ELSE Here(v)')
    BY <1>1, HoldsMoves
  <2>1. Here(v) \in Int
    BY <1>2 DEF Staged, Here
  <2>2. ~Written(v, c)'
    <3> SUFFICES ASSUME NEW k \in Places(v), k < next'[v], Stage(v, k) = Stage(v, next'[v])
                 PROVE  FALSE
      BY <1>1, WrittenMoves
    <3>1. Stage(v, k) = Here(v) + 1
      BY <1>1, <1>3, HereMoves
    <3>2. Stage(v, k) <= Here(v)
      BY <1>3
    <3> QED BY <2>1, <3>1, <3>2
  <2>3. shared[c] = Content(c, Here(v) + 1)
    <3>1. CASE Written(v, c)
      BY <3>1 DEF Inductive, HoldsLastWrite
    <3>2. CASE ~Written(v, c)
      <4>1. shared[c] = Content(c, Here(v))
        BY <3>2 DEF Inductive, HoldsLastWrite
      <4>2. CASE \A n \in Places(v) : Writes(v, n, c) => Stage(v, n) # Here(v)
        <5>1. Content(c, Here(v) + 1) = Content(c, Here(v))
          BY <1>2, <4>2 DEF Keeps, Here
        <5> QED BY <4>1, <5>1
      <4>3. CASE \E n \in Places(v) : Writes(v, n, c) /\ Stage(v, n) = Here(v)
        <5> PICK n \in Places(v) : Writes(v, n, c) /\ Stage(v, n) = Here(v)
          BY <4>3
        <5>1. n < next[v]
          <6>1. n \in Nat /\ next[v] \in Nat
            BY <1>2 DEF Places, Staged, End
          <6>2. n # End(v) /\ n # next[v]
            BY <1>2 DEF Writes, Is, Staged, End
          <6>3. CASE next[v] < n
            <7>1. ~(n < next'[v])
              BY <1>3, <6>1, <6>3
            <7>2. Stage(v, next'[v]) <= Stage(v, n)
              BY <1>2, <1>3, <6>1, <6>3 DEF Staged
            <7>3. Stage(v, next'[v]) = Here(v) + 1
              BY <1>1, <1>3, HereMoves
            <7> QED BY <2>1, <7>2, <7>3
          <6> QED BY <6>1, <6>2, <6>3
        <5>2. Written(v, c)
          BY <1>2, <5>1 DEF Written
        <5> QED BY <3>2, <5>2
      <4> QED BY <4>2, <4>3
    <3> QED BY <3>1, <3>2
  <2> QED BY <1>1, <1>3, <2>2, <2>3
<1>9. ReadsItsStage'
  BY <1>1 DEF Inductive, ReadsItsStage
<1> QED BY <1>4, <1>5, <1>6, <1>7, <1>8, <1>9 DEF Inductive

-----------------------------------------------------------------------------
(* The theorems *)

\* Every warp begins at stage 0, with nothing written and nothing accessed.
LEMMA InitInductive == Init => Inductive
<1> SUFFICES ASSUME Init PROVE Inductive
  OBVIOUS
<1>1. /\ next = [w \in Warps |-> 1] /\ shared = [c \in Cells |-> Uninit]
      /\ copying = [w \in Warps |-> {}] /\ touched = {}
      /\ got = [w \in Warps |-> [want |-> <<>>, value |-> <<>>]]
      /\ kernel \in {"ragged", "paged", "split_k", "rms", "tiled"} /\ input \in Inputs(kernel)
  BY DEF Init
<1>2. Sound
  BY <1>1, KernelsSound
<1>3. \A w \in Warps : 1 \in Places(w) /\ Stage(w, 1) = 0
  BY <1>2 DEF Sound, Staged
<1>4. Typed
  BY <1>1, <1>3 DEF Typed
<1>5. \A w \in Warps : Here(w) = 0
  BY <1>1, <1>3 DEF Here
<1>6. Together
  BY <1>5 DEF Together
<1>7. CopyIsLast /\ TouchedHere
  BY <1>1 DEF CopyIsLast, TouchedHere
<1>8. HoldsLastWrite
  <2> SUFFICES ASSUME NEW w \in Warps, NEW c \in Cells, c[2] = w
               PROVE  shared[c] = Content(c, IF Written(w, c) THEN Here(w) + 1 ELSE Here(w))
    BY DEF HoldsLastWrite
  <2>1. ~Written(w, c)
    <3>1. \A n \in Places(w) : ~(n < 1)
      BY <1>2 DEF Sound, Staged, Places, End
    <3> QED BY <1>1, <3>1 DEF Written
  <2>2. Content(c, 0) = Uninit
    BY DEF Content
  <2> QED BY <1>1, <1>5, <2>1, <2>2
<1>9. ReadsItsStage
  BY <1>1 DEF ReadsItsStage
<1> QED BY <1>4, <1>6, <1>7, <1>8, <1>9 DEF Inductive

\* A step that changes nothing.
LEMMA StutterKeeps == Inductive /\ UNCHANGED vars => Inductive'
<1> SUFFICES ASSUME Inductive, UNCHANGED vars PROVE Inductive'
  OBVIOUS
<1>1. /\ kernel' = kernel /\ input' = input /\ next' = next /\ shared' = shared
      /\ copying' = copying /\ touched' = touched /\ got' = got
  BY DEF vars
<1>2. Typed /\ Sound
  BY TypedIsSound DEF Inductive
<1>3. \A v \in Warps : Here(v)' = Here(v) /\ next'[v] \in Places(v)'
  <2> SUFFICES ASSUME NEW v \in Warps PROVE Here(v)' = Here(v) /\ next'[v] \in Places(v)'
    OBVIOUS
  <2>1. Here(v)' = Stage(v, next'[v]) /\ Places(v)' = Places(v)
    BY <1>1, HereMoves, Fixed
  <2> QED BY <1>1, <1>2, <2>1 DEF Here, Typed
<1>4. Typed'
  <2>1. /\ next' \in [Warps -> Nat] /\ DOMAIN shared' = Cells /\ DOMAIN copying' = Warps
        /\ DOMAIN got' = Warps /\ touched' \in SUBSET (Warps \X Cells \X BOOLEAN)
    BY <1>1, <1>2 DEF Typed
  <2> QED BY <1>1, <1>2, <1>3, <2>1, TypedMoves
<1>5. Together'
  BY <1>3 DEF Inductive, Together
<1>6. CopyIsLast'
  BY <1>1, CopiesMove DEF Inductive, CopyIsLast
<1>7. TouchedHere'
  <2>1. TouchedNext
    BY <1>1, <1>3, TouchedStays DEF Inductive, TouchedNext
  <2> QED BY <1>1, <2>1, TouchedMoves
<1>8. HoldsLastWrite'
  <2> SUFFICES ASSUME NEW v \in Warps, NEW c \in Cells, c[2] = v
               PROVE  shared'[c] = Content(c, IF Written(v, c)' THEN Here(v)' + 1 ELSE Here(v)')
    BY <1>1, HoldsMoves
  <2>1. Written(v, c)' <=> Written(v, c)
    <3>1. Here(v) = Stage(v, next'[v])
      BY <1>1 DEF Here
    <3> QED BY <1>1, <3>1, WrittenMoves DEF Written
  <2> QED BY <1>1, <1>3, <2>1 DEF Inductive, HoldsLastWrite
<1>9. ReadsItsStage'
  BY <1>1 DEF Inductive, ReadsItsStage
<1> QED BY <1>4, <1>5, <1>6, <1>7, <1>8, <1>9 DEF Inductive

\* In every run of every kernel all warps are in the same stage, and a cell
\* holds what its stage began with or what its warp has since put there.
THEOREM InductiveInvariant == Spec => []Inductive
<1>1. Inductive /\ [Next]_vars => Inductive'
  <2> SUFFICES ASSUME Inductive, [Next]_vars PROVE Inductive'
    OBVIOUS
  <2>1. CASE Barrier
    BY <2>1, BarrierKeeps
  <2>2. ASSUME NEW w \in Warps, DoPut(w)
        PROVE  Inductive'
    BY <2>2, PutKeeps
  <2>3. ASSUME NEW w \in Warps, DoGet(w)
        PROVE  Inductive'
    BY <2>3, GetKeeps
  <2>4. ASSUME NEW w \in Warps, StartCopy(w)
        PROVE  Inductive'
    BY <2>4, StartCopyKeeps
  <2>5. ASSUME NEW w \in Warps, DoWait(w)
        PROVE  Inductive'
    BY <2>5, WaitKeeps
  <2>6. ASSUME NEW w \in Warps, CopyLands(w)
        PROVE  Inductive'
    BY <2>6, CopyLandsKeeps
  <2>7. CASE UNCHANGED vars
    BY <2>7, StutterKeeps
  <2> QED BY <2>1, <2>2, <2>3, <2>4, <2>5, <2>6, <2>7 DEF Next, WarpStep
<1> QED BY InitInductive, <1>1, PTL DEF Spec

\* Whatever the interleaving of the warps and of their copies, between two
\* barriers a shared cell that one warp writes is accessed by no other: a cell
\* is written by the warp it belongs to, and in the stage of a write only that
\* warp reads it.
THEOREM RaceFree == Spec => []NoRace
<1>1. Inductive => NoRace
  <2> SUFFICES ASSUME Inductive PROVE NoRace
    OBVIOUS
  <2>1. Sound /\ touched \in SUBSET (Warps \X Cells \X BOOLEAN)
    BY TypedIsSound DEF Inductive, Typed
  <2>2. ASSUME NEW w \in Warps, NEW v \in Warps, NEW c \in Cells, NEW y \in BOOLEAN,
               <<w, c, TRUE>> \in touched, <<v, c, y>> \in touched
        PROVE  v = w
    <3>1. PICK n \in Places(w) : Stage(w, n) = Here(w) /\ Writes(w, n, c)
      BY <2>2 DEF Inductive, TouchedHere
    <3>2. c[2] = w /\ Apart(w, v) /\ Deposits(v)
      BY <2>1, <3>1 DEF Sound, Deposits
    <3>3. CASE y = TRUE
      <4>1. PICK m \in Places(v) : Writes(v, m, c)
        BY <2>2, <3>3 DEF Inductive, TouchedHere
      <4> QED BY <3>2, <4>1 DEF Deposits
    <3>4. CASE y = FALSE
      <4>1. PICK m \in Places(v) : Stage(v, m) = Here(v) /\ Reads(v, m, c)
        BY <2>2, <3>4 DEF Inductive, TouchedHere
      <4>2. Here(v) = Here(w)
        BY DEF Inductive, Together
      <4> QED BY <3>1, <3>2, <4>1, <4>2 DEF Apart
    <3> QED BY <3>3, <3>4
  <2>3. ASSUME NEW a \in touched, NEW b \in touched, a[2] = b[2], a[1] # b[1]
        PROVE  ~a[3] /\ ~b[3]
    <3>1. /\ a[1] \in Warps /\ a[2] \in Cells /\ a[3] \in BOOLEAN /\ a = <<a[1], a[2], a[3]>>
          /\ b[1] \in Warps /\ b[3] \in BOOLEAN /\ b = <<b[1], b[2], b[3]>>
      BY <2>1
    <3>2. CASE a[3] = TRUE
      BY <2>2, <2>3, <3>1, <3>2
    <3>3. CASE b[3] = TRUE
      BY <2>2, <2>3, <3>1, <3>3
    <3> QED BY <3>1, <3>2, <3>3
  <2> QED BY <2>3 DEF NoRace
<1> QED BY InductiveInvariant, <1>1, PTL

\* Every get reads what the stages before have left, and no warp reads an
\* uninitialized cell, a flag of the vote before, K where V is due or a tile
\* that is still under way.
THEOREM ReadsAreOfTheStage == Spec => []ReadsItsStage
<1>1. Inductive => ReadsItsStage
  BY DEF Inductive
<1> QED BY InductiveInvariant, <1>1, PTL

\* No warp has left the CTA while another waits at a barrier, whatever the
\* votes on the pages, the partitions and the tiles.
THEOREM BarriersAreWhole == Spec => []BarrierIsWhole
<1>1. Inductive => BarrierIsWhole
  <2> SUFFICES ASSUME Inductive, NEW w \in Warps, NEW v \in Warps, At(w, "sync"), Ended(v)
               PROVE  FALSE
    BY DEF BarrierIsWhole
  <2>1. Typed /\ Sound
    BY TypedIsSound DEF Inductive
  <2>2. Is(w, next[w], "sync") /\ next[w] \in Places(w)
    BY <2>1, AtIs
  <2>3. Here(w) < Stage(v, End(v))
    BY <2>1, <2>2 DEF Sound, Whole, Here
  <2>4. next[v] = End(v)
    BY <2>1 DEF Typed, Sound, Staged, Ended, Places, End
  <2>5. Here(w) = Stage(v, End(v)) /\ Here(w) \in Nat
    BY <2>1, <2>2, <2>4 DEF Inductive, Together, Here, Sound, Staged
  <2> QED BY <2>3, <2>5
<1> QED BY InductiveInvariant, <1>1, PTL
=============================================================================
