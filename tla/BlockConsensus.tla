--------------------------- MODULE BlockConsensus ---------------------------
(***************************************************************************)
(* The block vote of one CTA of rope_paged_kv_append_tokens                *)
(* (crates/loom-infer-cuda/src/rope/mod.rs), thread by thread.  Threads    *)
(* check their share of the metadata and agree through a warp vote, one    *)
(* shared flag per warp and two barriers; the kernel does so twice, over   *)
(* the same two flags, and returns at the first stage that finds anything  *)
(* invalid.  The flags are uninitialized shared memory and are never       *)
(* reset.  Its names leave those of the kernel's module free, so that one  *)
(* module can be about both.                                               *)
(***************************************************************************)
EXTENDS Integers

CONSTANTS LanesPerWarp       \* 32

ASSUME LanesAssumption == LanesPerWarp \in Nat \ {0}

Warps == {0, 1}              \* BLOCK_THREADS is two warps
Lanes == 0 .. LanesPerWarp - 1
BlockThreads == Warps \X Lanes    \* warp_id and lane
Leader(w) == <<w, 0>>
Stages == {1, 2}

VARIABLES
  found,    \* what each thread finds in each stage: whether it is invalid
  stage,    \* the stage each thread is in
  pc,       \* the statement of block_has_invalid, "exit", or "body"
  vote,     \* warp_invalid of each thread
  flags,    \* validation_flags
  seen      \* the consensus each thread has read

voteVars == <<found, stage, pc, vote, flags, seen>>

BeforeFirst == {"vote", "write", "wait1"}       \* up to the first barrier
BeforeSecond == {"read0", "read1", "wait2"}     \* from there to the second

VoteTypeOK ==
  /\ found \in [Stages -> [BlockThreads -> BOOLEAN]]
  /\ stage \in [BlockThreads -> Stages]
  /\ pc \in [BlockThreads -> BeforeFirst \cup BeforeSecond \cup {"exit", "body"}]
  /\ vote \in [BlockThreads -> BOOLEAN]
  /\ flags \in [Warps -> BOOLEAN]
  /\ seen \in [BlockThreads -> BOOLEAN]

VoteInit ==
  /\ found \in [Stages -> [BlockThreads -> BOOLEAN]]
  /\ stage = [t \in BlockThreads |-> 1]
  /\ pc = [t \in BlockThreads |-> "vote"]
  /\ vote = [t \in BlockThreads |-> FALSE]
  /\ flags \in [Warps -> BOOLEAN]
  /\ seen = [t \in BlockThreads |-> FALSE]

LeaderFound(s, w) == found[s][Leader(w)]        \* mutant: no warp vote
WarpFound(s, w) == \E l \in Lanes : found[s][<<w, l>>]

\* warp::any: the lanes of a warp vote together.
Vote(w) ==
  /\ \A l \in Lanes : pc[<<w, l>>] = "vote"
  /\ vote' = [t \in BlockThreads |-> IF t[1] = w THEN WarpFound(stage[t], w) ELSE vote[t]]
  /\ pc' = [t \in BlockThreads |-> IF t = Leader(w) THEN "write"
                              ELSE IF t[1] = w THEN "wait1" ELSE pc[t]]
  /\ UNCHANGED <<found, stage, flags, seen>>

\* The leader of a warp stores the flag of its warp.
Write(w) ==
  /\ pc[Leader(w)] = "write"
  /\ flags' = [flags EXCEPT ![w] = vote[Leader(w)]]
  /\ pc' = [pc EXCEPT ![Leader(w)] = "wait1"]
  /\ UNCHANGED <<found, stage, vote, seen>>

FlagReadOwn(t) == flags[t[1]]                   \* mutant: the warp's own flag
FlagRead(t) == flags[IF pc[t] = "read0" THEN 0 ELSE 1]

AfterReadUnsynced(t) == IF stage[t] = 1 /\ ~FlagRead(t) THEN "vote" ELSE "wait2"
AfterRead(t) == "wait2"

\* One load of `flags.read() != 0 || flags.add(1).read() != 0`.
Read(t) ==
  /\ pc[t] \in {"read0", "read1"}
  /\ IF pc[t] = "read0" /\ ~FlagRead(t)
     THEN pc' = [pc EXCEPT ![t] = "read1"] /\ UNCHANGED <<stage, seen>>
     ELSE /\ pc' = [pc EXCEPT ![t] = AfterRead(t)]
          /\ seen' = [seen EXCEPT ![t] = FlagRead(t)]
          /\ stage' = [stage EXCEPT ![t] = IF AfterRead(t) = "vote" THEN @ + 1 ELSE @]
  /\ UNCHANGED <<found, vote, flags>>

\* mutant: a thread returns for what it has found itself
AfterStageOwn(t) ==
  IF found[stage[t]][t] THEN "exit" ELSE IF stage[t] = 1 THEN "vote" ELSE "body"

\* Where a thread goes with the consensus: return, second stage, or writes.
AfterStage(t) ==
  IF seen[t] THEN "exit" ELSE IF stage[t] = 1 THEN "vote" ELSE "body"

\* sync_threads: the barrier opens for whoever waits when every thread that
\* has not returned or finished waits at it, whichever call it waits in.
Waiting(t) == pc[t] \in {"wait1", "wait2"}

Barrier ==
  /\ \E t \in BlockThreads : Waiting(t)
  /\ \A t \in BlockThreads : Waiting(t) \/ pc[t] \in {"exit", "body"}
  /\ pc' = [t \in BlockThreads |-> IF pc[t] = "wait1" THEN "read0"
                              ELSE IF pc[t] = "wait2" THEN AfterStage(t) ELSE pc[t]]
  /\ stage' = [t \in BlockThreads |->
                 IF pc[t] = "wait2" /\ AfterStage(t) = "vote"
                 THEN stage[t] + 1 ELSE stage[t]]
  /\ UNCHANGED <<found, vote, flags, seen>>

VoteNext ==
  \/ \E w \in Warps : Vote(w) \/ Write(w)
  \/ \E t \in BlockThreads : Read(t)
  \/ Barrier

VoteSpec == VoteInit /\ [][VoteNext]_voteVars

\* A resident CTA's threads keep running; a barrier or vote all have reached
\* opens.
FairVoteSpec == VoteSpec /\ WF_voteVars(VoteNext)
-----------------------------------------------------------------------------
(* Properties *)

AnyFound(s) == \E t \in BlockThreads : found[s][t]

\* A flag is never stored while another thread is about to load it, in this
\* stage or from the one before ("Prevent the next validation stage from
\* overwriting either flag while another thread is still reading").
NoFlagRace ==
  \A w \in Warps, t \in BlockThreads :
    ~(pc[Leader(w)] = "write" /\ pc[t] = (IF w = 0 THEN "read0" ELSE "read1"))

\* No thread waits at a barrier that another one has left the kernel without
\* reaching, or in one call of sync_threads while another waits in the other.
BarriersAligned ==
  \A t, u \in BlockThreads :
    Waiting(t) => /\ pc[u] \notin {"exit", "body"}
                  /\ Waiting(u) => pc[u] = pc[t] /\ stage[u] = stage[t]

\* A thread returns only if some thread of the CTA found something invalid in
\* the stage it returns from, and writes only if none did in either: stale or
\* uninitialized flags never decide.
VerdictIsConsensus ==
  \A t \in BlockThreads :
    /\ pc[t] = "exit" => AnyFound(stage[t])
    /\ pc[t] = "body" => \A s \in Stages : ~AnyFound(s)

(* The inductive invariant of the proofs *)

\* All threads are between the same two barriers, or have ended alike.
Aligned ==
  \/ \E s \in Stages : \A t \in BlockThreads : stage[t] = s /\ pc[t] \in BeforeFirst
  \/ \E s \in Stages : \A t \in BlockThreads : stage[t] = s /\ pc[t] \in BeforeSecond
  \/ \E end \in {"exit", "body"} : \A t \in BlockThreads : pc[t] = end

\* What a warp has voted is with its leader until the flag holds it.
VotesStored ==
  \A w \in Warps :
    LET s == stage[Leader(w)] IN
    /\ pc[Leader(w)] = "write" => vote[Leader(w)] = WarpFound(s, w)
    /\ pc[Leader(w)] \in BeforeSecond \cup {"wait1"} => flags[w] = WarpFound(s, w)

\* What a thread has read of the flags is what the CTA has found.
ReadsAgree ==
  \A t \in BlockThreads :
    /\ pc[t] = "read1" => ~WarpFound(stage[t], 0)
    /\ pc[t] = "wait2" => seen[t] = AnyFound(stage[t])

\* The second stage runs only if the first found nothing.
FirstPassed ==
  \A t \in BlockThreads :
    stage[t] = 2 /\ pc[t] \notin {"exit", "body"} => ~AnyFound(1)

Inductive ==
  VoteTypeOK /\ Aligned /\ VotesStored /\ ReadsAgree /\ FirstPassed /\ VerdictIsConsensus

-----------------------------------------------------------------------------
\* Every thread returns or gets to its writes, all of them the same way.
VoteEnds == <>(\E end \in {"exit", "body"} : \A t \in BlockThreads : pc[t] = end)
=============================================================================
