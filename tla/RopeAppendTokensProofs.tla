---------------------- MODULE RopeAppendTokensProofs ----------------------
(* The guards of the append kernel, for every table, map and thread count:   *)
(* what they let through satisfies the host contract, and no two CTAs write  *)
(* the same element of the pools.  The last part is about one CTA: the block *)
(* vote by which its threads agree (BlockConsensus).                         *)
EXTENDS RopeAppendTokens, BlockConsensus, WellFoundedInduction, TLAPS

\* The two facts about division that the indices rest on.
LEMMA RemainderFacts ==
  ASSUME NEW n \in Nat \ {0}, NEW i \in Nat
  PROVE  i % n \in 0 .. n - 1
BY SMT

\* The quotient counts whole units within the number.
LEMMA QuotientFacts ==
  ASSUME NEW n \in Nat \ {0}, NEW k \in Nat, NEW i \in 0 .. k * n - 1
  PROVE  i \div n \in 0 .. k - 1
<1>1. k * n \in Int
  OBVIOUS
<1>2. i \in Nat /\ i < k * n
  BY <1>1
<1>3. i \div n \in Nat
  BY <1>2, SMT
<1>4. i \div n < k
  BY <1>2, SMT
<1> QED
  BY <1>3, <1>4

\* What the first stage lets through keeps every request's pages in the list
\* of pages and every page in the pool.
LEMMA PartitionFacts ==
  ASSUME NEW t, IsTable(t), NEW threads \in Nat \ {0},
         \A pair \in 0 .. threads - 1 : ~PartitionInvalid(t, pair, threads)
  PROVE  /\ \A r \in Requests(t) : ~RequestInvalid(t, r)
         /\ \A p \in 0 .. t.count - 1 : ~PageInvalid(t, p)
<1>1. ASSUME NEW i \in Nat PROVE i % threads \in 0 .. threads - 1
  BY RemainderFacts
<1>3. ASSUME NEW r \in Requests(t) PROVE ~RequestInvalid(t, r)
  <2>1. r \in Nat
    BY DEF Requests, IsTable
  <2> QED
    BY <1>1, <2>1 DEF PartitionInvalid, Visited
<1>4. ASSUME NEW p \in 0 .. t.count - 1 PROVE ~PageInvalid(t, p)
  <2>1. p \in Nat
    BY DEF IsTable
  <2> QED
    BY <1>1, <2>1 DEF PartitionInvalid, Visited
<1> QED
  BY <1>3, <1>4

\* What the partitions of all threads find valid is a valid page table
\* (page_table_partition_invalid against validate_page_table).
THEOREM PartitionsCoverTheTable ==
  ASSUME NEW t, IsTable(t), NEW threads \in Nat \ {0},
         \A pair \in 0 .. threads - 1 : ~PartitionInvalid(t, pair, threads)
  PROVE  ValidPageTable(t)
<1>2. t.indptr[0] = 0 /\ t.indptr[t.batch] = t.count
  <2>1. 0 \in 0 .. threads - 1
    OBVIOUS
  <2>2. ~PartitionInvalid(t, 0, threads)
    BY <2>1
  <2> QED
    BY <2>2, Zenon DEF PartitionInvalid
<1>3. /\ \A r \in Requests(t) : ~RequestInvalid(t, r)
      /\ \A p \in 0 .. t.count - 1 : ~PageInvalid(t, p)
  BY PartitionFacts
<1>5. ASSUME NEW r \in Requests(t)
      PROVE  t.indptr[r] < t.indptr[r + 1] /\ t.last[r] \in 1 .. PageSize
  <2>1. r \in 0 .. t.batch /\ r + 1 \in 0 .. t.batch
    BY DEF Requests, IsTable
  <2>2. t.indptr[r] \in Int /\ t.indptr[r + 1] \in Int
    BY <2>1 DEF IsTable
  <2>3. ~(t.indptr[r + 1] <= t.indptr[r]) /\ t.last[r] \in 1 .. PageSize
    BY <1>3 DEF RequestInvalid
  <2> QED
    BY <2>2, <2>3
<1> QED
  BY <1>2, <1>3, <1>5 DEF ValidPageTable, PageInvalid

\* The slot of a token that has one is the slot the contract assigns to it.
LEMMA SlotOfToken ==
  ASSUME NEW t, NEW e, ExplicitSlot(t, e) # NoSlot
  PROVE  /\ ExplicitSlot(t, e) = PhysicalSlot(t, e.request, e.position)
         /\ e.request \in Requests(t) /\ ~(e.position < 0)
         /\ ~(e.position >= KvLen(t, e.request))
BY DEF ExplicitSlot, PhysicalSlot

\* Different tokens of a launch the guards let through have different slots.
LEMMA SlotsDiffer ==
  ASSUME ~TokensRejected, NEW i \in 0 .. Tokens - 1, NEW j \in 0 .. Tokens - 1
  PROVE  /\ ExplicitSlot(table, map[i]) # NoSlot
         /\ i # j => ExplicitSlot(table, map[i]) # ExplicitSlot(table, map[j])
<1>0. Tokens \in Nat /\ Threads \in Nat /\ Tokens <= Threads
  BY RopeAppendTokensAssumption
<1>1. ASSUME NEW k \in 0 .. Tokens - 1
      PROVE  ExplicitSlot(table, map[k]) # NoSlot /\ ~BadSuccessor(k)
  <2>1. k \in Pairs /\ k < Tokens
    BY <1>0 DEF Pairs
  <2> QED
    BY <2>1 DEF TokensRejected, TokenInvalid
<1>2. ASSUME NEW k \in 0 .. Tokens - 1, NEW l \in 0 .. Tokens - 1, k < l
      PROVE  ExplicitSlot(table, map[k]) # ExplicitSlot(table, map[l])
  <2>1. l \in k + 1 .. Tokens - 1
    BY <1>0, <1>2
  <2> QED
    BY <1>1, <2>1 DEF BadSuccessor
<1>3. i < j \/ j < i \/ i = j
  BY <1>0
<1> QED
  BY <1>1, <1>2, <1>3

\* What is fixed from the start, and what a write says of the guards.
Guarded ==
  /\ \E m \in Metadata : table = m[1] /\ map = m[2]
  /\ queryOut # {} \/ pool # {} => ~Rejected
  /\ \A w \in pool : /\ w[3] \in 0 .. Tokens - 1
                     /\ w[1] = ExplicitSlot(table, map[w[3]])
                     /\ w = <<w[1], w[2], w[3]>>

\* No CTA has written when the kernel starts.
LEMMA InitGuarded == Init => Guarded
BY DEF Init, Guarded

\* A CTA decides by the metadata alone, which no CTA changes.
LEMMA NextGuarded == Guarded /\ [Next]_vars => Guarded'
<1> SUFFICES ASSUME Guarded, [Next]_vars PROVE Guarded'
  OBVIOUS
<1>1. UNCHANGED <<table, map>>
  BY DEF Next, Cta, vars
<1>2. Rejected' = Rejected
  BY <1>1 DEF Rejected, TableRejected, TokensRejected, TokenInvalid, BadSuccessor
<1>3. CASE UNCHANGED vars
  BY <1>2, <1>3 DEF vars, Guarded
<1>4. ASSUME NEW c \in Ctas, Cta(c) PROVE Guarded'
  <2>1. CASE Rejected
    BY <1>1, <1>2, <1>4, <2>1 DEF Guarded, Cta
  <2>2. CASE ~Rejected
    <3>1. c \div Heads \in 0 .. Tokens - 1
      <4>1. Heads \in Nat \ {0} /\ Tokens \in Nat
        BY RopeAppendTokensAssumption DEF Heads
      <4> QED
        BY <4>1, QuotientFacts DEF Ctas
    <3> QED
      BY <1>1, <1>2, <1>4, <2>2, <3>1 DEF Guarded, Cta
  <2> QED
    BY <2>1, <2>2
<1> QED
  BY <1>3, <1>4 DEF Next

\* Whatever any CTA has written, the guards of every thread had let it.
THEOREM GuardedAlways == Spec => []Guarded
BY InitGuarded, NextGuarded, PTL DEF Spec

\* Nothing is written for metadata outside the host contract.
THEOREM ContractGuarded == Spec => []WritesOnlyByContract
<1>1. ASSUME Guarded, ~Rejected PROVE ValidTokens(table, map, Tokens)
  <2>1. PICK m \in Metadata : table = m[1] /\ map = m[2]
    BY <1>1 DEF Guarded
  <2>2. IsTable(table) /\ map \in [0 .. Tokens - 1 -> [request : Int, position : Int]]
    BY <2>1, RopeAppendTokensAssumption
  <2>3. ~TokensRejected /\ \A pair \in 0 .. Threads - 1 : ~PartitionInvalid(table, pair, Threads)
    BY <1>1 DEF Rejected, TableRejected, Pairs
  <2>4. ValidPageTable(table)
    BY <2>2, <2>3, PartitionsCoverTheTable, RopeAppendTokensAssumption
  <2>5. ASSUME NEW i \in 0 .. Tokens - 1
        PROVE  /\ map[i].request \in Requests(table)
               /\ map[i].position \in 0 .. KvLen(table, map[i].request) - 1
               /\ ExplicitSlot(table, map[i])
                    = PhysicalSlot(table, map[i].request, map[i].position)
    <3>1. ExplicitSlot(table, map[i]) # NoSlot
      BY <2>3, SlotsDiffer
    <3>2. /\ map[i].request \in Requests(table) /\ ~(map[i].position < 0)
          /\ ~(map[i].position >= KvLen(table, map[i].request))
          /\ ExplicitSlot(table, map[i])
               = PhysicalSlot(table, map[i].request, map[i].position)
      BY <3>1, SlotOfToken
    <3>3. map[i].request \in 0 .. table.batch - 1 /\ map[i].position \in Int
      BY <2>2, <3>2 DEF Requests
    <3>4. KvLen(table, map[i].request) \in Int
      <4> DEFINE r == map[i].request
      <4>1. /\ table.indptr[r] \in Int /\ table.indptr[r + 1] \in Int
            /\ table.last[r] \in Int
        <5>1. r \in 0 .. table.batch /\ r + 1 \in 0 .. table.batch
          BY <2>2, <3>3 DEF IsTable
        <5> QED
          BY <2>2, <3>3, <5>1 DEF IsTable
      <4> QED
        BY <4>1, PageTableAssumption DEF KvLen
    <3> QED
      BY <3>2, <3>3, <3>4
  <2>6. ASSUME NEW i \in 0 .. Tokens - 1, NEW j \in 0 .. Tokens - 1, i # j
        PROVE  PhysicalSlot(table, map[i].request, map[i].position)
               # PhysicalSlot(table, map[j].request, map[j].position)
    BY <2>3, <2>5, <2>6, SlotsDiffer
  <2> QED
    BY <2>4, <2>5, <2>6 DEF ValidTokens
<1>2. Guarded => WritesOnlyByContract
  BY <1>1 DEF Guarded, WritesOnlyByContract
<1> QED
  BY <1>2, GuardedAlways, PTL

\* No two tokens are written to the same slot and head, and every token goes
\* to the slot the contract assigns to it.
THEOREM WritersUnique == Spec => []OneWriterPerSlot
<1>1. ASSUME Guarded, NEW w \in pool
      PROVE  /\ w[1] = PhysicalSlot(table, map[w[3]].request, map[w[3]].position)
             /\ \A v \in pool : v[1] = w[1] /\ v[2] = w[2] => v = w
  <2>1. ~TokensRejected
    BY <1>1 DEF Guarded, Rejected
  <2>2. ASSUME NEW v \in pool
        PROVE  /\ v[3] \in 0 .. Tokens - 1
               /\ v[1] = ExplicitSlot(table, map[v[3]])
               /\ v = <<v[1], v[2], v[3]>>
    BY <1>1 DEF Guarded
  <2>3. ExplicitSlot(table, map[w[3]]) # NoSlot
    BY <2>1, <2>2, SlotsDiffer
  <2>4. w[1] = PhysicalSlot(table, map[w[3]].request, map[w[3]].position)
    BY <2>2, <2>3, SlotOfToken
  <2>5. ASSUME NEW v \in pool, v[1] = w[1], v[2] = w[2] PROVE v = w
    <3>1. v[3] = w[3]
      BY <2>1, <2>2, <2>5, SlotsDiffer
    <3> QED
      BY <2>2, <2>5, <3>1
  <2> QED
    BY <2>4, <2>5
<1>2. Guarded => OneWriterPerSlot
  BY <1>1 DEF OneWriterPerSlot
<1> QED
  BY <1>2, GuardedAlways, PTL

\* A position within n pages lies in one of them.
LEMMA PageOfPosition ==
  ASSUME NEW n \in Nat \ {0}, NEW last \in 1 .. PageSize, NEW position \in Nat,
         position < (n - 1) * PageSize + last
  PROVE  position \div PageSize \in 0 .. n - 1 /\ position % PageSize \in 0 .. PageSize - 1
<1>1. PageSize \in Nat \ {0}
  BY PageTableAssumption
<1>2. (n - 1) * PageSize + PageSize = n * PageSize /\ n * PageSize \in Int
  BY <1>1, SMT
<1>3. (n - 1) * PageSize \in Int
  BY <1>1, SMT
<1>4. position < n * PageSize
  BY <1>1, <1>2, <1>3
<1>5. position \in 0 .. n * PageSize - 1
  BY <1>2, <1>4
<1> QED
  BY <1>1, <1>5, QuotientFacts, RemainderFacts

\* The slot of a token is one of the pool's.
LEMMA SlotInPool ==
  ASSUME NEW t, IsTable(t), NEW e, e.position \in Int,
         \A r \in Requests(t) : ~RequestInvalid(t, r),
         \A p \in 0 .. t.count - 1 : ~PageInvalid(t, p),
         ExplicitSlot(t, e) # NoSlot
  PROVE  ExplicitSlot(t, e) \in Slots
<1> DEFINE r == e.request
           first == t.indptr[r]
           end == t.indptr[r + 1]
<1>1. /\ ExplicitSlot(t, e) = PhysicalSlot(t, r, e.position)
      /\ r \in Requests(t) /\ ~(e.position < 0) /\ ~(e.position >= KvLen(t, r))
  BY SlotOfToken
<1>2. r \in 0 .. t.batch - 1 /\ r \in 0 .. t.batch /\ r + 1 \in 0 .. t.batch
  BY <1>1 DEF Requests, IsTable
<1>3. first \in Int /\ end \in Int /\ t.last[r] \in Int /\ t.count \in Nat
  BY <1>2 DEF IsTable
<1>4. first >= 0 /\ first < end /\ end <= t.count /\ t.last[r] \in 1 .. PageSize
  BY <1>1, <1>3 DEF RequestInvalid
<1>5. KvLen(t, r) = (end - first - 1) * PageSize + t.last[r]
  BY DEF KvLen
<1>6. end - first \in Nat \ {0} /\ e.position \in Nat
  BY <1>1, <1>3, <1>4
<1>7. (end - first - 1) * PageSize \in Int
  BY <1>6, PageTableAssumption, SMT
<1>8. e.position < (end - first - 1) * PageSize + t.last[r]
  BY <1>1, <1>3, <1>5, <1>6, <1>7
<1> HIDE DEF first, end
<1>9. /\ e.position \div PageSize \in 0 .. (end - first) - 1
      /\ e.position % PageSize \in 0 .. PageSize - 1
  BY <1>4, <1>6, <1>8, PageOfPosition
<1>10. first + e.position \div PageSize \in 0 .. t.count - 1
  BY <1>3, <1>4, <1>9
<1>11. t.indices[first + e.position \div PageSize] \in 0 .. MaxNumPages - 1
  BY <1>10 DEF PageInvalid
<1>12. PhysicalSlot(t, r, e.position)
         = <<t.indices[first + e.position \div PageSize], e.position % PageSize>>
  BY <1>1 DEF PhysicalSlot, first
<1> QED
  BY <1>1, <1>9, <1>11, <1>12 DEF Slots

\* The types of the variables: every write lands inside the pools.
THEOREM TypeCorrect == Spec => []TypeOK
<1>1. Init => TypeOK
  BY DEF Init, TypeOK
<1>2. TypeOK /\ [Next]_vars => TypeOK'
  <2> SUFFICES ASSUME TypeOK, [Next]_vars PROVE TypeOK'
    OBVIOUS
  <2>1. CASE UNCHANGED vars
    BY <2>1 DEF vars, TypeOK, Ctas
  <2>2. ASSUME NEW c \in Ctas, Cta(c) PROVE TypeOK'
    <3> DEFINE token == c \div Heads
               head == c % Heads
    <3>1. Heads \in Nat \ {0} /\ Tokens \in Nat /\ Threads \in Nat \ {0}
      BY RopeAppendTokensAssumption DEF Heads
    <3>2. token \in 0 .. Tokens - 1
      BY <3>1, QuotientFacts DEF Ctas
    <3>3. c \in Nat
      BY <3>1, SMT DEF Ctas
    <3>4. head \in 0 .. Heads - 1
      BY <3>1, <3>3, RemainderFacts
    <3> HIDE DEF token, head
    <3>5. CASE Rejected
      BY <2>2, <3>5 DEF Cta, TypeOK, Ctas
    <3>6. CASE ~Rejected /\ head < QueryHeads
      <4>1. head \in 0 .. QueryHeads - 1
        BY <3>4, <3>6, RopeAppendTokensAssumption DEF Heads
      <4>2. /\ done' = done \cup {c} /\ UNCHANGED <<table, map, pool>>
            /\ queryOut' = queryOut \cup {<<token, head>>}
        BY <2>2, <3>6 DEF Cta, token, head
      <4> QED
        BY <3>2, <4>1, <4>2 DEF TypeOK, Ctas
    <3>7. CASE ~Rejected /\ ~(head < QueryHeads)
      <4>1. head - QueryHeads \in 0 .. KeyHeads - 1
        BY <3>4, <3>7, RopeAppendTokensAssumption DEF Heads
      <4>2. /\ done' = done \cup {c} /\ UNCHANGED <<table, map, queryOut>>
            /\ pool' = pool \cup {<<ExplicitSlot(table, map[token]), head - QueryHeads, token>>}
        BY <2>2, <3>7 DEF Cta, token, head
      <4>3. /\ IsTable(table)
            /\ map \in [0 .. Tokens - 1 -> [request : Int, position : Int]]
        BY RopeAppendTokensAssumption DEF TypeOK
      <4>4. \A pair \in 0 .. Threads - 1 : ~PartitionInvalid(table, pair, Threads)
        BY <3>7 DEF Rejected, TableRejected, Pairs
      <4>5. ExplicitSlot(table, map[token]) # NoSlot
        BY <3>2, <3>7, SlotsDiffer DEF Rejected
      <4>6. map[token].position \in Int
        BY <3>2, <4>3
      <4>7. ExplicitSlot(table, map[token]) \in Slots
        BY <3>1, <4>3, <4>4, <4>5, <4>6, PartitionFacts, SlotInPool
      <4> QED
        BY <3>2, <4>1, <4>2, <4>7 DEF TypeOK, Ctas
    <3> QED
      BY <3>5, <3>6, <3>7
  <2> QED
    BY <2>1, <2>2 DEF Next
<1> QED
  BY <1>1, <1>2, PTL DEF Spec
-----------------------------------------------------------------------------
(* The guards accept what the contract accepts.                              *)

\* Induction over the requests of a table is by the least counterexample.
LEMMA LeastMember ==
  ASSUME NEW T \in SUBSET Nat, T # {}
  PROVE  \E x \in T : \A y \in T : x <= y
<1> DEFINE R == OpToRel(<, Nat)
<1>1. IsWellFoundedOn(R, Nat)
  BY NatLessThanWellFounded
<1>2. \A x, y \in Nat : y < x => <<y, x>> \in R
  BY DEF OpToRel
<1> HIDE DEF R
<1>3. \E x \in T : \A y \in T : ~(<<y, x>> \in R)
  BY <1>1, WFMin
<1> PICK x \in T : \A y \in T : ~(<<y, x>> \in R)
  BY <1>3
<1>4. ASSUME NEW y \in T PROVE x <= y
  <2>1. x \in Nat /\ y \in Nat /\ ~(<<y, x>> \in R)
    OBVIOUS
  <2>2. ~(y < x)
    BY <1>2, <2>1, Zenon
  <2> QED BY <2>1, <2>2, SMT
<1> QED BY <1>4

\* The ends of a valid table's page ranges all lie in its list of pages.
LEMMA EndsInList ==
  ASSUME NEW t, IsTable(t), ValidPageTable(t)
  PROVE  \A r \in 0 .. t.batch : t.indptr[r] \in 0 .. t.count
<1>1. /\ t.batch \in Nat /\ t.count \in Nat /\ \A r \in 0 .. t.batch : t.indptr[r] \in Int
      /\ t.indptr[0] = 0 /\ t.indptr[t.batch] = t.count
  BY DEF IsTable, ValidPageTable
<1>2. \A r \in 0 .. t.batch - 1 : t.indptr[r] < t.indptr[r + 1]
  BY DEF ValidPageTable, Requests
<1>3. \A r \in 0 .. t.batch : t.indptr[r] >= 0
  <2> DEFINE T == {r \in 0 .. t.batch : ~(t.indptr[r] >= 0)}
  <2>1. T \in SUBSET Nat
    BY <1>1
  <2>2. ASSUME T # {} PROVE FALSE
    <3>1. PICK x \in T : \A y \in T : x <= y
      <4> HIDE DEF T
      <4> QED BY <2>1, <2>2, LeastMember
    <3>2. x \in 1 .. t.batch
      BY <1>1
    <3>3. x - 1 \notin T /\ x - 1 \in 0 .. t.batch - 1 /\ (x - 1) + 1 = x
      BY <1>1, <3>1, <3>2
    <3>4. t.indptr[x - 1] >= 0 /\ t.indptr[x - 1] < t.indptr[x]
      BY <1>1, <1>2, <3>3
    <3> QED BY <1>1, <3>2, <3>3, <3>4
  <2> QED BY <2>2
<1>4. \A r \in 0 .. t.batch : t.indptr[r] <= t.count
  <2> DEFINE T == {k \in 0 .. t.batch : ~(t.indptr[t.batch - k] <= t.count)}
  <2>1. T \in SUBSET Nat
    BY <1>1
  <2>2. ASSUME T # {} PROVE FALSE
    <3>1. PICK x \in T : \A y \in T : x <= y
      <4> HIDE DEF T
      <4> QED BY <2>1, <2>2, LeastMember
    <3>2. x \in 1 .. t.batch
      BY <1>1
    <3> PICK r : r = t.batch - x
      OBVIOUS
    <3>3. /\ x - 1 \notin T /\ x - 1 \in 0 .. t.batch /\ r \in 0 .. t.batch - 1
          /\ t.batch - (x - 1) = r + 1
      BY <1>1, <3>1, <3>2
    <3>4. t.indptr[r + 1] <= t.count /\ t.indptr[r] < t.indptr[r + 1]
      BY <1>1, <1>2, <3>3
    <3>5. ~(t.indptr[r] <= t.count)
      OBVIOUS
    <3> QED BY <1>1, <3>3, <3>4, <3>5
  <2>3. \A r \in 0 .. t.batch : t.batch - r \in 0 .. t.batch /\ t.batch - (t.batch - r) = r
    BY <1>1
  <2> QED BY <1>1, <2>2, <2>3
<1> QED BY <1>1, <1>3, <1>4

\* Metadata the contract accepts passes both votes of every CTA.
LEMMA ContractPasses ==
  ASSUME NEW m \in Metadata, table = m[1], map = m[2], ValidTokens(table, map, Tokens)
  PROVE  ~Rejected
<1>1. IsTable(table) /\ ValidPageTable(table) /\ Tokens \in Nat
  BY RopeAppendTokensAssumption DEF ValidTokens
<1>2. ~TableRejected
  <2>1. \A r \in Requests(table) : ~RequestInvalid(table, r)
    <3> TAKE r \in Requests(table)
    <3>1. r \in 0 .. table.batch /\ r + 1 \in 0 .. table.batch
      BY <1>1 DEF Requests, IsTable
    <3>2. table.indptr[r] \in 0 .. table.count /\ table.indptr[r + 1] \in 0 .. table.count
      BY <1>1, <3>1, EndsInList
    <3>3. table.indptr[r] < table.indptr[r + 1] /\ table.last[r] \in 1 .. PageSize
      BY <1>1 DEF ValidPageTable
    <3>4. table.count \in Nat
      BY <1>1 DEF IsTable
    <3> QED BY <3>2, <3>3, <3>4 DEF RequestInvalid
  <2>2. \A p \in 0 .. table.count - 1 : ~PageInvalid(table, p)
    BY <1>1, SMTT(30) DEF ValidPageTable, PageInvalid
  <2>3. table.indptr[0] = 0 /\ table.indptr[table.batch] = table.count
    BY <1>1, SMTT(30) DEF ValidPageTable
  <2> QED BY <2>1, <2>2, <2>3 DEF TableRejected, PartitionInvalid
<1>3. ASSUME NEW i \in 0 .. Tokens - 1
      PROVE  /\ ExplicitSlot(table, map[i])
                  = PhysicalSlot(table, map[i].request, map[i].position)
             /\ ExplicitSlot(table, map[i]) # NoSlot
  <2>1. /\ map[i].request \in Requests(table)
        /\ map[i].position \in 0 .. KvLen(table, map[i].request) - 1
    BY DEF ValidTokens
  <2>2. KvLen(table, map[i].request) \in Int
    <3> PICK r : r = map[i].request
      OBVIOUS
    <3>1. table.batch \in Nat
      BY <1>1 DEF IsTable
    <3>2. r \in 0 .. table.batch - 1
      BY <2>1 DEF Requests
    <3>3. r \in 0 .. table.batch /\ r + 1 \in 0 .. table.batch
      BY <3>1, <3>2
    <3>4. table.indptr[r] \in Int /\ table.indptr[r + 1] \in Int /\ table.last[r] \in Int
      BY <1>1, <3>2, <3>3 DEF IsTable
    <3>5. KvLen(table, r) \in Int
      BY <3>4, PageTableAssumption DEF KvLen
    <3> QED BY <3>5
  <2>3. ~(map[i].position < 0) /\ ~(map[i].position >= KvLen(table, map[i].request))
    BY <2>1, <2>2
  <2> QED BY <2>1, <2>3 DEF ExplicitSlot, PhysicalSlot, NoSlot
<1>4. ASSUME NEW i \in 0 .. Tokens - 1, NEW j \in 0 .. Tokens - 1, i # j
      PROVE  ExplicitSlot(table, map[i]) # ExplicitSlot(table, map[j])
  BY <1>3, <1>4 DEF ValidTokens
<1>5. ~TokensRejected
  <2> SUFFICES ASSUME NEW pair \in Pairs, pair < Tokens PROVE ~TokenInvalid(pair)
    BY DEF TokensRejected, TokenInvalid
  <2>1. pair \in 0 .. Tokens - 1
    BY <1>1, RopeAppendTokensAssumption DEF Pairs
  <2>2. \A second \in pair + 1 .. Tokens - 1 : second \in 0 .. Tokens - 1 /\ second # pair
    BY <1>1, <2>1
  <2>3. ~BadSuccessor(pair)
    BY <1>3, <1>4, <2>1, <2>2 DEF BadSuccessor
  <2> QED BY <1>3, <2>1, <2>3 DEF TokenInvalid
<1> QED BY <1>2, <1>5 DEF Rejected

\* The CTA of a token and head that has run has written its output, unless the
\* contract refuses the metadata: the device guards reject nothing that
\* validate_metadata admits.
THEOREM ContractAccepted == Spec => []AcceptsTheContract
<1> DEFINE Wrote(c) == IF c % Heads < QueryHeads
                       THEN <<c \div Heads, c % Heads>> \in queryOut
                       ELSE \E w \in pool : w[2] = (c % Heads) - QueryHeads /\ w[3] = c \div Heads
           Done == ValidTokens(table, map, Tokens) => \A c \in done : Wrote(c)
<1>1. Init => Done
  BY DEF Init
<1>2. Guarded /\ Done /\ [Next]_vars => Done'
  <2> SUFFICES ASSUME Guarded, Done, [Next]_vars PROVE Done'
    OBVIOUS
  <2>1. CASE UNCHANGED vars
    BY <2>1 DEF vars
  <2>2. ASSUME NEW c \in Ctas, Cta(c) PROVE Done'
    <3> SUFFICES ASSUME ValidTokens(table, map, Tokens), NEW d \in done' PROVE Wrote(d)'
      BY <2>2 DEF Cta
    <3>1. ~Rejected
      BY ContractPasses DEF Guarded
    <3>2. queryOut \subseteq queryOut' /\ pool \subseteq pool' /\ done' = done \cup {c}
      BY <2>2 DEF Cta
    <3>3. CASE d # c
      BY <3>2, <3>3
    <3>4. CASE d = c /\ c % Heads < QueryHeads
      BY <2>2, <3>1, <3>4 DEF Cta
    <3>5. CASE d = c /\ ~(c % Heads < QueryHeads)
      <4>1. <<ExplicitSlot(table, map[c \div Heads]), (c % Heads) - QueryHeads, c \div Heads>>
              \in pool'
        BY <2>2, <3>1, <3>5 DEF Cta
      <4> QED BY <3>5, <4>1
    <3> QED BY <3>3, <3>4, <3>5
  <2> QED BY <2>1, <2>2 DEF Next
<1>3. Done => AcceptsTheContract
  BY DEF AcceptsTheContract
<1> QED BY <1>1, <1>2, <1>3, GuardedAlways, PTL DEF Spec

-----------------------------------------------------------------------------
(* The block vote of a CTA is race free, keeps its barriers aligned and       *)
(* decides by what the threads found, for any number of lanes and any initial *)
(* flags.  The block has its own threads, program counters and flags.         *)

\* The leaders are threads, and every thread is a warp and a lane.
LEMMA ThreadFacts ==
  /\ \A w \in Warps : Leader(w) \in BlockThreads /\ Leader(w)[1] = w
  /\ \A t \in BlockThreads : t[1] \in Warps /\ t[2] \in Lanes /\ t = <<t[1], t[2]>>
  /\ \A w \in Warps, l \in Lanes : <<w, l>> \in BlockThreads /\ <<w, l>>[1] = w
  /\ \A v, w \in Warps : Leader(v) = Leader(w) => v = w
BY LanesAssumption DEF Leader, BlockThreads, Lanes, Warps

\* The block has found something when one of its two warps has.
LEMMA FoundByWarp ==
  ASSUME NEW s \in Stages
  PROVE  AnyFound(s) <=> WarpFound(s, 0) \/ WarpFound(s, 1)
<1>1. ASSUME AnyFound(s) PROVE WarpFound(s, 0) \/ WarpFound(s, 1)
  <2>1. PICK t \in BlockThreads : found[s][t]
    BY <1>1 DEF AnyFound
  <2>2. t[2] \in Lanes /\ found[s][<<t[1], t[2]>>] /\ t[1] \in Warps
    BY <2>1, ThreadFacts
  <2> QED
    BY <2>2 DEF WarpFound, Warps
<1>2. ASSUME NEW w \in Warps, WarpFound(s, w) PROVE AnyFound(s)
  BY <1>2, ThreadFacts DEF AnyFound, WarpFound
<1> QED
  BY <1>1, <1>2 DEF Warps

\* Every thread starts before the first barrier.
LEMMA VoteInitInductive == VoteInit => Inductive
<1> SUFFICES ASSUME VoteInit PROVE Inductive
  OBVIOUS
<1>1. VoteTypeOK
  BY DEF VoteInit, VoteTypeOK, Stages, BeforeFirst
<1>2. Aligned
  BY DEF VoteInit, Aligned, Stages, BeforeFirst
<1>3. \A t \in BlockThreads : pc[t] = "vote" /\ stage[t] = 1
  BY DEF VoteInit
<1>4. VotesStored
  BY <1>3, ThreadFacts DEF VotesStored, BeforeSecond
<1>5. ReadsAgree /\ FirstPassed /\ VerdictIsConsensus
  BY <1>3 DEF ReadsAgree, FirstPassed, VerdictIsConsensus
<1> QED
  BY <1>1, <1>2, <1>4, <1>5 DEF Inductive

\* A warp's vote: its leader holds the disjunction, nothing is stored yet.
LEMMA VoteInductive ==
  ASSUME Inductive, NEW w \in Warps, Vote(w)
  PROVE  Inductive'
<1>1. VoteTypeOK'
  <2>1. \A s \in Stages : WarpFound(s, w) \in BOOLEAN
    BY DEF WarpFound
  <2>2. vote' \in [BlockThreads -> BOOLEAN]
    BY <2>1 DEF Vote, Inductive, VoteTypeOK
  <2> QED
    BY <2>2 DEF Vote, Inductive, VoteTypeOK, BeforeFirst
<1>2. pc[Leader(w)] = "vote"
  BY LanesAssumption DEF Vote, Leader, Lanes
<1>3. PICK s \in Stages : \A t \in BlockThreads : stage[t] = s /\ pc[t] \in BeforeFirst
  BY <1>2, ThreadFacts DEF Inductive, Aligned, BeforeSecond
<1>4. \A t \in BlockThreads : stage'[t] = s /\ pc'[t] \in BeforeFirst
  BY <1>3 DEF Vote, BeforeFirst, Inductive, VoteTypeOK
<1>5. Aligned'
  BY <1>4 DEF Aligned
<1>6. \A r, v : WarpFound(r, v)' = WarpFound(r, v)
  BY DEF Vote, WarpFound
<1>7. \A r : AnyFound(r)' = AnyFound(r)
  BY DEF Vote, AnyFound
<1>8. VotesStored'
  <2> SUFFICES ASSUME NEW v \in Warps
               PROVE  /\ pc'[Leader(v)] = "write" => vote'[Leader(v)] = WarpFound(s, v)
                      /\ pc'[Leader(v)] \in BeforeSecond \cup {"wait1"}
                           => flags'[v] = WarpFound(s, v)
    BY <1>3, <1>4, <1>6, ThreadFacts DEF VotesStored
  <2>1. CASE v = w
    BY <2>1, <1>3, ThreadFacts DEF Vote, BeforeSecond
  <2>2. CASE v # w
    BY <2>2, <1>3, ThreadFacts DEF Vote, Inductive, VotesStored
  <2> QED
    BY <2>1, <2>2
<1>9. ReadsAgree' /\ VerdictIsConsensus'
  BY <1>4 DEF ReadsAgree, VerdictIsConsensus, BeforeFirst
<1>10. FirstPassed'
  BY <1>3, <1>4, <1>7 DEF FirstPassed, Inductive, BeforeFirst
<1> QED
  BY <1>1, <1>5, <1>8, <1>9, <1>10 DEF Inductive

\* A leader's store puts its warp's vote into the flag.
LEMMA WriteInductive ==
  ASSUME Inductive, NEW w \in Warps, Write(w)
  PROVE  Inductive'
<1>1. VoteTypeOK'
  BY ThreadFacts DEF Write, Inductive, VoteTypeOK, BeforeFirst
<1>3. PICK s \in Stages : \A t \in BlockThreads : stage[t] = s /\ pc[t] \in BeforeFirst
  BY ThreadFacts DEF Write, Inductive, Aligned, BeforeSecond
<1>4. \A t \in BlockThreads : stage'[t] = s /\ pc'[t] \in BeforeFirst
  BY <1>3 DEF Write, BeforeFirst, Inductive, VoteTypeOK
<1>5. Aligned'
  BY <1>4 DEF Aligned
<1>6. \A r, v : WarpFound(r, v)' = WarpFound(r, v)
  BY DEF Write, WarpFound
<1>7. \A r : AnyFound(r)' = AnyFound(r)
  BY DEF Write, AnyFound
<1>8. VotesStored'
  <2> SUFFICES ASSUME NEW v \in Warps
               PROVE  /\ pc'[Leader(v)] = "write" => vote'[Leader(v)] = WarpFound(s, v)
                      /\ pc'[Leader(v)] \in BeforeSecond \cup {"wait1"}
                           => flags'[v] = WarpFound(s, v)
    BY <1>3, <1>4, <1>6, ThreadFacts DEF VotesStored
  <2>0. vote[Leader(w)] = WarpFound(s, w)
    BY <1>3, ThreadFacts DEF Write, Inductive, VotesStored
  <2>1. CASE v = w
    BY <2>0, <2>1, <1>3, ThreadFacts DEF Write, Inductive, VoteTypeOK
  <2>2. CASE v # w
    BY <2>2, <1>3, ThreadFacts DEF Write, Inductive, VotesStored, VoteTypeOK
  <2> QED
    BY <2>1, <2>2
<1>9. ReadsAgree' /\ VerdictIsConsensus'
  BY <1>4 DEF ReadsAgree, VerdictIsConsensus, BeforeFirst
<1>10. FirstPassed'
  BY <1>3, <1>4, <1>7 DEF FirstPassed, Inductive, BeforeFirst
<1> QED
  BY <1>1, <1>5, <1>8, <1>9, <1>10 DEF Inductive

\* A thread's load agrees with what the warp of that flag has voted.
LEMMA ReadInductive ==
  ASSUME Inductive, NEW u \in BlockThreads, Read(u)
  PROVE  Inductive'
<1>0. pc[u] \in {"read0", "read1"} /\ AfterRead(u) = "wait2"
  BY DEF Read, AfterRead
<1>1. stage' = stage /\ UNCHANGED <<found, vote, flags>>
  BY <1>0 DEF Read, Inductive, VoteTypeOK
<1>2. VoteTypeOK'
  <2>1. FlagRead(u) \in BOOLEAN
    BY DEF FlagRead, Inductive, VoteTypeOK, Warps
  <2> QED
    BY <1>0, <1>1, <2>1 DEF Read, Inductive, VoteTypeOK, BeforeSecond
<1>3. PICK s \in Stages : \A t \in BlockThreads : stage[t] = s /\ pc[t] \in BeforeSecond
  BY <1>0 DEF Inductive, Aligned, BeforeFirst
<1>4. \A t \in BlockThreads : stage'[t] = s /\ pc'[t] \in BeforeSecond
  BY <1>0, <1>1, <1>3 DEF Read, BeforeSecond, Inductive, VoteTypeOK
<1>5. Aligned'
  BY <1>4 DEF Aligned
<1>6. \A r, v : WarpFound(r, v)' = WarpFound(r, v)
  BY <1>1 DEF WarpFound
<1>7. \A r : AnyFound(r)' = AnyFound(r)
  BY <1>1 DEF AnyFound
<1>8. \A v \in Warps : flags[v] = WarpFound(s, v)
  BY <1>3, ThreadFacts DEF Inductive, VotesStored
<1>9. VotesStored'
  BY <1>1, <1>4, <1>6, <1>8, ThreadFacts DEF VotesStored, BeforeSecond
<1>10. ReadsAgree'
  <2> SUFFICES ASSUME NEW t \in BlockThreads
               PROVE  /\ pc'[t] = "read1" => ~WarpFound(s, 0)
                      /\ pc'[t] = "wait2" => seen'[t] = AnyFound(s)
    BY <1>3, <1>4, <1>6, <1>7 DEF ReadsAgree
  <2>1. CASE t # u
    BY <2>1, <1>3 DEF Read, Inductive, ReadsAgree, VoteTypeOK
  <2>2. CASE t = u /\ pc[u] = "read0" /\ ~FlagRead(u)
    BY <2>2, <1>8 DEF Read, FlagRead, Warps, Inductive, VoteTypeOK
  <2>3. CASE t = u /\ pc[u] = "read0" /\ FlagRead(u)
    <3>1. WarpFound(s, 0)
      BY <2>3, <1>8 DEF FlagRead, Warps
    <3>2. AnyFound(s)
      BY <3>1, FoundByWarp
    <3> QED
      BY <2>3, <3>2, <1>0 DEF Read, Inductive, VoteTypeOK
  <2>4. CASE t = u /\ pc[u] = "read1"
    <3>1. ~WarpFound(s, 0)
      BY <2>4, <1>3 DEF Inductive, ReadsAgree
    <3>2. FlagRead(u) = WarpFound(s, 1)
      BY <2>4, <1>8 DEF FlagRead, Warps
    <3>3. WarpFound(s, 1) \in BOOLEAN /\ AnyFound(s) \in BOOLEAN
      BY DEF WarpFound, AnyFound
    <3>4. FlagRead(u) = AnyFound(s)
      BY <3>1, <3>2, <3>3, FoundByWarp
    <3> QED
      BY <2>4, <3>4, <1>0 DEF Read, Inductive, VoteTypeOK
  <2> QED
    BY <2>1, <2>2, <2>3, <2>4, <1>0
<1>11. FirstPassed' /\ VerdictIsConsensus'
  BY <1>3, <1>4, <1>7 DEF FirstPassed, VerdictIsConsensus, Inductive, BeforeSecond
<1> QED
  BY <1>2, <1>5, <1>9, <1>10, <1>11 DEF Inductive

\* The first barrier: every flag holds its warp's vote when reading starts.
LEMMA FirstBarrier ==
  ASSUME Inductive, Barrier, NEW s \in Stages,
         \A t \in BlockThreads : stage[t] = s /\ pc[t] = "wait1"
  PROVE  Inductive'
<1>1. /\ \A t \in BlockThreads : stage'[t] = s /\ pc'[t] = "read0"
      /\ UNCHANGED <<found, vote, flags, seen>>
  BY DEF Barrier
<1>2. VoteTypeOK'
  BY <1>1 DEF Barrier, Inductive, VoteTypeOK, BeforeSecond
<1>3. Aligned'
  BY <1>1 DEF Aligned, BeforeSecond
<1>4. \A r, v : WarpFound(r, v)' = WarpFound(r, v)
  BY <1>1 DEF WarpFound
<1>5. VotesStored'
  BY <1>1, <1>4, ThreadFacts DEF VotesStored, Inductive, BeforeSecond
<1>6. \A r : AnyFound(r)' = AnyFound(r)
  BY <1>1 DEF AnyFound
<1>7. ReadsAgree' /\ FirstPassed' /\ VerdictIsConsensus'
  BY <1>1, <1>6 DEF ReadsAgree, FirstPassed, VerdictIsConsensus, Inductive
<1> QED
  BY <1>2, <1>3, <1>5, <1>7 DEF Inductive

\* The second barrier: all threads leave it the same way.
LEMMA SecondBarrier ==
  ASSUME Inductive, Barrier, NEW s \in Stages,
         \A t \in BlockThreads : stage[t] = s /\ pc[t] = "wait2"
  PROVE  Inductive'
<1>0. \A r : AnyFound(r)' = AnyFound(r)
  BY DEF Barrier, AnyFound
<1>1. \A t \in BlockThreads : seen[t] = AnyFound(s)
  BY DEF Inductive, ReadsAgree
<1>2. \A t \in BlockThreads : pc'[t] = AfterStage(t)
  BY DEF Barrier
<1>3. \A t \in BlockThreads :
        stage'[t] = IF AfterStage(t) = "vote" THEN s + 1 ELSE s
  BY DEF Barrier
<1>4. s = 2 => ~AnyFound(1)
  BY ThreadFacts DEF Inductive, FirstPassed, Warps
<1>5. CASE AnyFound(s)
  <2>1. \A t \in BlockThreads : pc'[t] = "exit" /\ stage'[t] = s
    BY <1>1, <1>2, <1>3, <1>5 DEF AfterStage
  <2>2. VoteTypeOK'
    BY <2>1 DEF Barrier, Inductive, VoteTypeOK
  <2>3. Aligned'
    BY <2>1 DEF Aligned
  <2>4. VotesStored' /\ ReadsAgree' /\ FirstPassed'
    BY <2>1, ThreadFacts DEF VotesStored, ReadsAgree, FirstPassed, BeforeSecond
  <2>5. VerdictIsConsensus'
    BY <2>1, <1>0, <1>5 DEF VerdictIsConsensus
  <2> QED
    BY <2>2, <2>3, <2>4, <2>5 DEF Inductive
<1>6. CASE ~AnyFound(s) /\ s = 1
  <2>1. \A t \in BlockThreads : pc'[t] = "vote" /\ stage'[t] = 2
    BY <1>1, <1>2, <1>3, <1>6 DEF AfterStage
  <2>2. VoteTypeOK'
    BY <2>1 DEF Barrier, Inductive, VoteTypeOK, Stages, BeforeFirst
  <2>3. Aligned'
    BY <2>1 DEF Aligned, Stages, BeforeFirst
  <2>4. VotesStored' /\ ReadsAgree' /\ VerdictIsConsensus'
    BY <2>1, ThreadFacts DEF VotesStored, ReadsAgree, VerdictIsConsensus, BeforeSecond
  <2>5. FirstPassed'
    BY <2>1, <1>0, <1>6 DEF FirstPassed
  <2> QED
    BY <2>2, <2>3, <2>4, <2>5 DEF Inductive
<1>7. CASE ~AnyFound(s) /\ s = 2
  <2>1. \A t \in BlockThreads : pc'[t] = "body" /\ stage'[t] = 2
    BY <1>1, <1>2, <1>3, <1>7 DEF AfterStage
  <2>2. VoteTypeOK'
    BY <2>1, <1>7 DEF Barrier, Inductive, VoteTypeOK
  <2>3. Aligned'
    BY <2>1 DEF Aligned
  <2>4. VotesStored' /\ ReadsAgree' /\ FirstPassed'
    BY <2>1, ThreadFacts DEF VotesStored, ReadsAgree, FirstPassed, BeforeSecond
  <2>5. VerdictIsConsensus'
    BY <2>1, <1>0, <1>4, <1>7 DEF VerdictIsConsensus, Stages
  <2> QED
    BY <2>2, <2>3, <2>4, <2>5 DEF Inductive
<1> QED
  BY <1>5, <1>6, <1>7 DEF Stages

\* A barrier opens only when all threads wait in the same call.
LEMMA BarrierInductive ==
  ASSUME Inductive, Barrier
  PROVE  Inductive'
<1>1. PICK u \in BlockThreads : pc[u] \in {"wait1", "wait2"}
  BY DEF Barrier, Waiting
<1>2. \A t \in BlockThreads : pc[t] \in {"wait1", "wait2", "exit", "body"}
  BY DEF Barrier, Waiting
<1>3. PICK s \in Stages :
        \/ \A t \in BlockThreads : stage[t] = s /\ pc[t] \in BeforeFirst
        \/ \A t \in BlockThreads : stage[t] = s /\ pc[t] \in BeforeSecond
  BY <1>1 DEF Inductive, Aligned
<1>4. \/ \A t \in BlockThreads : stage[t] = s /\ pc[t] = "wait1"
      \/ \A t \in BlockThreads : stage[t] = s /\ pc[t] = "wait2"
  BY <1>2, <1>3 DEF BeforeFirst, BeforeSecond
<1> QED
  BY <1>4, FirstBarrier, SecondBarrier

\* Every step of a thread or barrier keeps the invariant.
LEMMA VoteNextInductive == Inductive /\ [VoteNext]_voteVars => Inductive'
<1> SUFFICES ASSUME Inductive, [VoteNext]_voteVars PROVE Inductive'
  OBVIOUS
<1>1. CASE VoteNext
  BY <1>1, VoteInductive, WriteInductive, ReadInductive, BarrierInductive DEF VoteNext
<1>2. CASE UNCHANGED voteVars
  BY <1>2 DEF voteVars, Inductive, VoteTypeOK, Aligned, VotesStored, ReadsAgree,
    FirstPassed, VerdictIsConsensus, WarpFound, AnyFound
<1> QED
  BY <1>1, <1>2

\* Every reachable state satisfies the inductive invariant.
THEOREM VoteInductiveInvariant == VoteSpec => []Inductive
BY VoteInitInductive, VoteNextInductive, PTL DEF VoteSpec

\* The types of the variables.
THEOREM VoteTypeCorrect == VoteSpec => []VoteTypeOK
<1>1. Inductive => VoteTypeOK
  BY DEF Inductive
<1> QED
  BY <1>1, VoteInductiveInvariant, PTL

\* No flag of block_has_invalid is stored while another thread loads it.
THEOREM FlagsRaceFree == VoteSpec => []NoFlagRace
<1>1. Inductive => NoFlagRace
  BY ThreadFacts DEF Inductive, Aligned, NoFlagRace, BeforeFirst, BeforeSecond
<1> QED
  BY <1>1, VoteInductiveInvariant, PTL

\* All threads of a CTA reach the same calls of sync_threads.
THEOREM BarriersStayAligned == VoteSpec => []BarriersAligned
<1>1. Inductive => BarriersAligned
  BY DEF Inductive, Aligned, BarriersAligned, Waiting, BeforeFirst, BeforeSecond
<1> QED
  BY <1>1, VoteInductiveInvariant, PTL

\* A CTA returns or writes by what its threads have found.
THEOREM VerdictIsRight == VoteSpec => []VerdictIsConsensus
<1>1. Inductive => VerdictIsConsensus
  BY DEF Inductive
<1> QED
  BY <1>1, VoteInductiveInvariant, PTL
=============================================================================
