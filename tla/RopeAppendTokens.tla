-------------------------- MODULE RopeAppendTokens --------------------------
(***************************************************************************)
(* The kernel rope_paged_kv_append_tokens_bf16_neox_d128                   *)
(* (crates/loom-infer-cuda/src/rope/mod.rs): one CTA per token and head    *)
(* checks all of the metadata with its threads, in two stages, before it   *)
(* writes.  CTAs run in any order and never synchronize with one another.  *)
(* BlockConsensus shows that the two block votes of a CTA mean what is     *)
(* used here: some thread of the CTA has found something invalid.          *)
(***************************************************************************)
EXTENDS PageTable

CONSTANTS
  Threads,     \* BLOCK_THREADS (64)
  Tokens,      \* tokens to append, at most ROPE_PAGED_KV_APPEND_MAX_TOKENS
  QueryHeads, KeyHeads,
  Metadata     \* what device memory may hold, unchecked: pairs of a page table
               \* and a map from each token to a request and a position

ASSUME RopeAppendTokensAssumption ==
  /\ Threads \in Nat \ {0} /\ Tokens \in 1 .. Threads
  /\ QueryHeads \in Nat \ {0} /\ KeyHeads \in Nat \ {0}
  /\ \A m \in Metadata :
       /\ IsTable(m[1])
       /\ m[2] \in [0 .. Tokens - 1 -> [request : Int, position : Int]]

VARIABLES
  table, map,  \* the metadata
  done,        \* CTAs that have returned
  queryOut,    \* tokens and heads whose rotated Q was written
  pool         \* writes to the K and V pools: slot, head, and the token

vars == <<table, map, done, queryOut, pool>>

Heads == QueryHeads + KeyHeads
Ctas == 0 .. Tokens * Heads - 1
Pairs == 0 .. Threads - 1

TypeOK ==
  /\ \E m \in Metadata : table = m[1] /\ map = m[2]
  /\ done \subseteq Ctas
  /\ queryOut \subseteq (0 .. Tokens - 1) \X (0 .. QueryHeads - 1)
  /\ pool \subseteq Slots \X (0 .. KeyHeads - 1) \X (0 .. Tokens - 1)

Init ==
  /\ \E m \in Metadata : table = m[1] /\ map = m[2]
  /\ done = {} /\ queryOut = {} /\ pool = {}

\* First stage: the page table.
TableRejected == \E pair \in Pairs : PartitionInvalid(table, pair, Threads)

\* mutant: a token is compared with the next one only
DuplicateOfNext(pair) ==
  \E second \in pair + 1 .. Tokens - 1 :
    second = pair + 1 /\ ExplicitSlot(table, map[pair]) = ExplicitSlot(table, map[second])

\* mutant: the comparison starts at the token itself
SelfCompared(pair) ==
  \E second \in pair .. Tokens - 1 :
    ExplicitSlot(table, map[second]) \in {NoSlot, ExplicitSlot(table, map[pair])}

\* A later token without a slot or with the slot of token pair.
BadSuccessor(pair) ==
  \E second \in pair + 1 .. Tokens - 1 :
    ExplicitSlot(table, map[second]) \in {NoSlot, ExplicitSlot(table, map[pair])}

\* Second stage: thread pair compares its token with all later ones.
TokenInvalid(pair) ==
  pair < Tokens /\ (ExplicitSlot(table, map[pair]) = NoSlot \/ BadSuccessor(pair))

TokensRejected == \E pair \in Pairs : TokenInvalid(pair)

\* mutant: the second vote is not taken
RejectedByTable == TableRejected
Rejected == TableRejected \/ TokensRejected

\* One CTA runs to its end: it writes the Q head, or the K and V head, of its
\* token, or nothing.
Cta(c) ==
  LET token == c \div Heads
      head == c % Heads
  IN  /\ c \notin done
      /\ done' = done \cup {c}
      /\ IF Rejected
         THEN UNCHANGED <<queryOut, pool>>
         ELSE IF head < QueryHeads
         THEN queryOut' = queryOut \cup {<<token, head>>} /\ UNCHANGED pool
         ELSE /\ pool' = pool \cup {<<ExplicitSlot(table, map[token]),
                                      head - QueryHeads, token>>}
              /\ UNCHANGED queryOut
      /\ UNCHANGED <<table, map>>

Next == \E c \in Ctas : Cta(c)

Spec == Init /\ [][Next]_vars
-----------------------------------------------------------------------------
(* Properties *)

\* Metadata the host contract would not accept, which no host call checks in
\* device memory, leaves every output as it was (validate_metadata against the
\* two device stages).
WritesOnlyByContract ==
  queryOut # {} \/ pool # {} => ValidTokens(table, map, Tokens)

\* Metadata the contract accepts gets every head of every token that has run:
\* the device guards reject nothing the contract allows.
AcceptsTheContract ==
  ValidTokens(table, map, Tokens) =>
    \A c \in done : LET token == c \div Heads
                        head == c % Heads
                    IN  IF head < QueryHeads
                        THEN <<token, head>> \in queryOut
                        ELSE \E w \in pool : w[2] = head - QueryHeads /\ w[3] = token

\* Each written element of the pools has one writer, in the slot the contract
\* assigns to its token ("global physical-slot uniqueness").
OneWriterPerSlot ==
  \A w \in pool :
    /\ w[1] = PhysicalSlot(table, map[w[3]].request, map[w[3]].position)
    /\ \A v \in pool : v[1] = w[1] /\ v[2] = w[2] => v = w
=============================================================================
