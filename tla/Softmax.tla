------------------------------ MODULE Softmax ------------------------------
(***************************************************************************)
(* The online softmax of the attention kernels, as far as it can go wrong  *)
(* without arithmetic being wrong: which K/V rows have been weighed into a *)
(* state, how often, and whether a NaN has come out of two infinities.     *)
(*                                                                         *)
(* A partial state [max, normalizer, weighted value] is a record: its max  *)
(* is finite or minus infinity, `rows` is the bag of the rows weighed (the *)
(* normalizer is 0.0 exactly when it is empty), and `sound` says that no   *)
(* weight was NaN.  Warps, partitions and commands exchange such states.   *)
(***************************************************************************)
EXTENDS Integers, Sequences, Bags, SequencesExt

Empty(p) == p.rows = EmptyBag                       \* normalizer == 0.0

\* A warp's loop over its token range.  The first token of the range sets the
\* max; a warp without tokens keeps what it started with.
Weigh(rows, start) ==
  [max |-> IF rows = {} THEN start ELSE "finite", rows |-> SetToBag(rows), sound |-> TRUE]

\* ex2(max - next): one, or zero for an infinite max below a finite next.
\* Between two infinities it is NaN.
Scaled(p, next) == IF p.max = next THEN p.rows ELSE EmptyBag

Combine(a, b) ==
  LET next == IF a.max = "finite" \/ b.max = "finite" THEN "finite" ELSE "-inf"
  IN [max   |-> next,
      rows  |-> Scaled(a, next) (+) Scaled(b, next),
      sound |-> a.sound /\ b.sound /\ next = "finite"]

\* Prefill merges: empty partials are passed over, the first other one taken.
MergeNonEmpty(partials) ==
  LET step(acc, p) == IF Empty(p) THEN acc ELSE IF Empty(acc) THEN p ELSE Combine(acc, p)
  IN FoldLeft(step, Weigh({}, "-inf"), partials)

\* Paged decode: the first partial is taken even if empty, later ones are not.
MergeFromFirst(partials) ==
  LET step(acc, p) == IF Empty(p) THEN acc ELSE Combine(acc, p)
  IN FoldLeft(step, Head(partials), Tail(partials))

\* Split-K: no partition is empty, every partial is combined.
MergeAll(partials) == FoldLeft(Combine, Head(partials), Tail(partials))

\* The division by the normalizer and the store: NaN of an empty state.
Normalized(p) == [rows |-> p.rows, sound |-> p.sound /\ ~Empty(p)]

\* What a CTA does to global memory: the K/V rows it reads, and what it writes
\* to elements of the output (a query row and head) and of the workspace.
NoEffect == [reads |-> {}, writes |-> {}]
Output(row, head) == <<"output", row, head>>
Partial(row, head, partition) == <<"partial", row, head, partition>>
Write(at, value) == [at |-> at, value |-> value]
-----------------------------------------------------------------------------
\* Share `i` of `shares` of n tokens: i * n / shares .. (i + 1) * n / shares.
ShareStart(n, shares, i) == (i * n) \div shares
Share(n, shares, i) == ShareStart(n, shares, i) .. ShareStart(n, shares, i + 1) - 1

\* mutant: the remainder is dropped
SplitRangeShort(n, parts, i) ==
  i * (n \div parts) .. (i + 1) * (n \div parts) - 1

\* Partition `i` of n tokens where the first n % parts partitions have one
\* more (Bf16SingleDecodeSplitKSpec and the split-K partial kernel).
SplitStart(n, parts, i) ==
  i * (n \div parts) + (IF i < n % parts THEN i ELSE n % parts)
SplitRange(n, parts, i) ==
  SplitStart(n, parts, i) ..
  SplitStart(n, parts, i) + (n \div parts) + (IF i < n % parts THEN 1 ELSE 0) - 1
=============================================================================
