------------------------- MODULE RopeAppendProofs -------------------------
(* The append kernel that derives each slot from the page table, for every   *)
(* table: what its guards let through, and that no two CTAs write the same   *)
(* element of the pools although none of them waits for another.             *)
EXTENDS RopeAppend, WellFoundedInduction, TLAPS

-----------------------------------------------------------------------------
(* Arithmetic *)

\* The head and the request of a CTA.
LEMMA GridIndex ==
  ASSUME NEW n \in Nat \ {0}, NEW k \in Nat, NEW i \in 0 .. k * n - 1
  PROVE  i \div n \in 0 .. k - 1 /\ i % n \in 0 .. n - 1
<1>1. k * n \in Int
  OBVIOUS
<1>2. i \in Nat /\ i < k * n
  BY <1>1
<1>3. i \div n \in Nat
  BY <1>2, SMT
<1>4. i \div n < k
  BY <1>2, SMT
<1>5. i % n \in 0 .. n - 1
  BY <1>2, SMT
<1> QED
  BY <1>3, <1>4, <1>5

\* The quotient and the remainder make up the number.
LEMMA Division ==
  ASSUME NEW n \in Nat \ {0}, NEW p \in Nat
  PROVE  p = n * (p \div n) + (p % n) /\ p % n \in 0 .. n - 1 /\ p \div n \in Nat
<1>1. p = n * (p \div n) + (p % n)
  BY SMT
<1>2. p % n \in 0 .. n - 1
  BY SMT
<1>3. p \div n \in Nat
  BY SMT
<1> QED BY <1>1, <1>2, <1>3

\* A number of more whole units is larger by at least one unit.
LEMMA Product ==
  ASSUME NEW n \in Nat \ {0}, NEW j \in Nat, NEW k \in Nat, j < k
  PROVE  /\ n * j \in Nat /\ k * n \in Nat /\ j * n \in Nat /\ n * k \in Nat
         /\ n * j + n <= k * n /\ j * n + n <= n * k
<1> PICK d : d = k - j - 1
  OBVIOUS
<1>1. d \in Nat /\ k = j + 1 + d
  OBVIOUS
<1>2. n * d \in Nat /\ n * j \in Nat
  BY <1>1, SMT
<1>3. n * (j + 1 + d) = n * j + n + n * d
  BY <1>1, SMT
<1>4. n * k = n * j + n + n * d
  BY <1>1, <1>3
<1>5. k * n = n * k /\ j * n = n * j
  BY SMT
<1> QED BY <1>2, <1>4, <1>5

\* The last position of a request lies in its last page.
LEMMA LastPosition ==
  ASSUME NEW n \in Nat \ {0}, NEW k \in Nat, NEW m \in 0 .. n - 1
  PROVE  (k * n + m) \div n = k /\ (k * n + m) % n = m
<1> PICK p : p = k * n + m
  OBVIOUS
<1>1. k * n \in Nat /\ p \in Nat
  BY SMT
<1>2. p = n * (p \div n) + (p % n) /\ p % n \in 0 .. n - 1 /\ p \div n \in Nat
  BY <1>1, Division
<1> PICK q, s : q = p \div n /\ s = p % n
  OBVIOUS
<1>3. p = n * q + s /\ s \in 0 .. n - 1 /\ q \in Nat
  BY <1>2
<1>4. ~(q > k)
  BY <1>1, <1>3, Product
<1>5. ~(q < k)
  BY <1>1, <1>3, Product
<1>6. q = k
  BY <1>3, <1>4, <1>5
<1>7. s = m
  <2> PICK b : b = k * n
    OBVIOUS
  <2>1. b \in Nat /\ p = b + m
    BY <1>1
  <2>2. n * q = b
    BY <1>6, SMT
  <2>3. p = b + s /\ s \in Nat /\ m \in Nat
    BY <1>3, <2>2
  <2> QED BY <2>1, <2>3
<1> QED BY <1>6, <1>7

\* Induction over the requests of a table is by the least counterexample.
LEMMA LeastMember ==
  ASSUME NEW T \in SUBSET Nat, T # {}
  PROVE  \E x \in T : \A y \in T : x <= y
<1> DEFINE R == OpToRel(<, Nat)
<1>1. IsWellFoundedOn(R, Nat)
  BY NatLessThanWellFounded
<1>2. \A x, y \in Nat : y < x => <<y, x>> \in R
  BY DEF OpToRel
<1> HIDE DEF R
<1>3. \E x \in T : \A y \in T : ~(<<y, x>> \in R)
  BY <1>1, WFMin
<1> PICK x \in T : \A y \in T : ~(<<y, x>> \in R)
  BY <1>3
<1>4. ASSUME NEW y \in T PROVE x <= y
  <2>1. x \in Nat /\ y \in Nat /\ ~(<<y, x>> \in R)
    OBVIOUS
  <2>2. ~(y < x)
    BY <1>2, <2>1, Zenon
  <2> QED BY <2>1, <2>2, SMT
<1> QED BY <1>4

-----------------------------------------------------------------------------
(* Tables *)

\* What a table holds for one request.
LEMMA RequestTyped ==
  ASSUME NEW t, IsTable(t), NEW r \in Requests(t)
  PROVE  /\ r \in Nat /\ t.count \in Nat
         /\ t.indptr[r] \in Int /\ t.indptr[r + 1] \in Int /\ t.last[r] \in Int
<1>1. t.batch \in Nat \ {0} /\ r \in 0 .. t.batch - 1
  BY DEF IsTable, Requests
<1>2. r \in Nat /\ r \in 0 .. t.batch /\ r + 1 \in 0 .. t.batch
  BY <1>1
<1> QED BY <1>1, <1>2 DEF IsTable

\* The ends of a valid table's page ranges all lie in its list of pages.
LEMMA EndsInList ==
  ASSUME NEW t, IsTable(t), ValidPageTable(t)
  PROVE  \A r \in 0 .. t.batch : t.indptr[r] \in 0 .. t.count
<1>1. /\ t.batch \in Nat /\ t.count \in Nat /\ \A r \in 0 .. t.batch : t.indptr[r] \in Int
      /\ t.indptr[0] = 0 /\ t.indptr[t.batch] = t.count
  BY DEF IsTable, ValidPageTable
<1>2. \A r \in 0 .. t.batch - 1 : t.indptr[r] < t.indptr[r + 1]
  BY DEF ValidPageTable, Requests
<1>3. \A r \in 0 .. t.batch : t.indptr[r] >= 0
  <2> DEFINE T == {r \in 0 .. t.batch : ~(t.indptr[r] >= 0)}
  <2>1. T \in SUBSET Nat
    BY <1>1
  <2>2. ASSUME T # {} PROVE FALSE
    <3>1. PICK x \in T : \A y \in T : x <= y
      <4> HIDE DEF T
      <4> QED BY <2>1, <2>2, LeastMember
    <3>2. x \in 1 .. t.batch
      BY <1>1
    <3>3. x - 1 \notin T /\ x - 1 \in 0 .. t.batch - 1 /\ (x - 1) + 1 = x
      BY <1>1, <3>1, <3>2
    <3>4. t.indptr[x - 1] >= 0 /\ t.indptr[x - 1] < t.indptr[x]
      BY <1>1, <1>2, <3>3
    <3> QED BY <1>1, <3>2, <3>3, <3>4
  <2> QED BY <2>2
<1>4. \A r \in 0 .. t.batch : t.indptr[r] <= t.count
  <2> DEFINE T == {k \in 0 .. t.batch : ~(t.indptr[t.batch - k] <= t.count)}
  <2>1. T \in SUBSET Nat
    BY <1>1
  <2>2. ASSUME T # {} PROVE FALSE
    <3>1. PICK x \in T : \A y \in T : x <= y
      <4> HIDE DEF T
      <4> QED BY <2>1, <2>2, LeastMember
    <3>2. x \in 1 .. t.batch
      BY <1>1
    <3> PICK r : r = t.batch - x
      OBVIOUS
    <3>3. /\ x - 1 \notin T /\ x - 1 \in 0 .. t.batch /\ r \in 0 .. t.batch - 1
          /\ t.batch - (x - 1) = r + 1
      BY <1>1, <3>1, <3>2
    <3>4. t.indptr[r + 1] <= t.count /\ t.indptr[r] < t.indptr[r + 1]
      BY <1>1, <1>2, <3>3
    <3>5. ~(t.indptr[r] <= t.count)
      OBVIOUS
    <3> QED BY <1>1, <3>3, <3>4, <3>5
  <2>3. \A r \in 0 .. t.batch : t.batch - r \in 0 .. t.batch /\ t.batch - (t.batch - r) = r
    BY <1>1
  <2> QED BY <1>1, <2>2, <2>3
<1> QED BY <1>1, <1>3, <1>4

\* What append_slot checks before it answers, and where its answer lies.
LEMMA SlotGuards ==
  ASSUME NEW t, IsTable(t), NEW r \in Requests(t), AppendSlot(t, r) # NoSlot
  PROVE  /\ ~RequestInvalid(t, r)
         /\ AppendSlot(t, r) = <<t.indices[t.indptr[r + 1] - 1], t.last[r] - 1>>
         /\ AppendSlot(t, r) \in Slots
         /\ AppendPosition(t, r) \in Nat
<1>1. ~RequestInvalid(t, r) /\ ~PageInvalid(t, t.indptr[r + 1] - 1)
  BY DEF AppendSlot
<1>2. AppendSlot(t, r) = <<t.indices[t.indptr[r + 1] - 1], t.last[r] - 1>>
  BY <1>1 DEF AppendSlot
<1>3. t.indices[t.indptr[r + 1] - 1] \in 0 .. MaxNumPages - 1 /\ t.last[r] \in 1 .. PageSize
  BY <1>1 DEF PageInvalid, RequestInvalid
<1>4. t.last[r] - 1 \in 0 .. PageSize - 1 /\ t.last[r] - 1 \in Nat
  BY <1>3, PageTableAssumption
<1>5. t.indptr[r + 1] - t.indptr[r] - 1 \in Nat
  <2>1. ~(t.indptr[r + 1] <= t.indptr[r])
    BY <1>1 DEF RequestInvalid
  <2> QED BY <2>1, RequestTyped
<1>6. (t.indptr[r + 1] - t.indptr[r] - 1) * PageSize \in Nat
  BY <1>5, PageTableAssumption, SMT
<1>7. AppendPosition(t, r) \in Nat
  <2>1. PICK b : b = (t.indptr[r + 1] - t.indptr[r] - 1) * PageSize
    OBVIOUS
  <2>2. AppendPosition(t, r) = b + t.last[r] - 1
    BY <2>1 DEF AppendPosition
  <2>3. b + t.last[r] - 1 \in Nat
    BY <1>3, <1>6, <2>1
  <2> QED BY <2>2, <2>3
<1> QED BY <1>1, <1>2, <1>3, <1>4, <1>7 DEF Slots

\* The slot append_slot answers with is the one the contract gives to the
\* position it answers with, which is the last of the request.
LEMMA SlotIsFinal ==
  ASSUME NEW t, IsTable(t), NEW r \in Requests(t), ~RequestInvalid(t, r)
  PROVE  /\ FinalSlot(t, r) = <<t.indices[t.indptr[r + 1] - 1], t.last[r] - 1>>
         /\ FinalSlot(t, r) = PhysicalSlot(t, r, AppendPosition(t, r))
<1> PICK first, end, last : first = t.indptr[r] /\ end = t.indptr[r + 1] /\ last = t.last[r]
  OBVIOUS
<1>1. first \in Int /\ end \in Int /\ ~(end <= first) /\ last \in 1 .. PageSize
  BY RequestTyped DEF RequestInvalid
<1> PICK k : k = end - first - 1
  OBVIOUS
<1>2. k \in Nat /\ last - 1 \in 0 .. PageSize - 1 /\ PageSize \in Nat \ {0} /\ last \in Int
  BY <1>1, PageTableAssumption
<1>3. (k * PageSize + (last - 1)) \div PageSize = k /\ (k * PageSize + (last - 1)) % PageSize = last - 1
  BY <1>2, LastPosition
<1> PICK position : position = k * PageSize + (last - 1)
  OBVIOUS
<1>4. k * PageSize \in Int
  BY <1>2, SMT
<1>5. KvLen(t, r) = k * PageSize + last /\ AppendPosition(t, r) = k * PageSize + last - 1
  BY DEF KvLen, AppendPosition
<1>6. AppendPosition(t, r) = position /\ KvLen(t, r) - 1 = position
  BY <1>2, <1>4, <1>5
<1>7. ~(position >= KvLen(t, r))
  BY <1>2, <1>4, <1>5
<1>8. first + k = end - 1
  BY <1>1
<1>9. PhysicalSlot(t, r, position) = <<t.indices[end - 1], last - 1>>
  BY <1>3, <1>7, <1>8 DEF PhysicalSlot
<1> QED BY <1>6, <1>9 DEF FinalSlot

-----------------------------------------------------------------------------
(* Verdicts *)

\* One request that passes its own verdict vouches for the whole table.
LEMMA VerdictCoversTable ==
  ASSUME NEW t \in Tables, table = t, NEW r \in Requests(t), ~Rejected(r)
  PROVE  /\ ValidPageTable(t)
         /\ \A q \in Requests(t) : AppendSlot(t, q) # NoSlot
<1>1. IsTable(t)
  BY RopeAppendAssumption
<1>2. ~TableRejected /\ AppendSlot(t, r) # NoSlot
      /\ \A q \in Requests(t) \ {r} : AppendSlot(t, q) # NoSlot
  BY DEF Rejected
<1>3. ASSUME NEW q \in Requests(t)
      PROVE  /\ AppendSlot(t, q) # NoSlot
             /\ t.indptr[q] < t.indptr[q + 1] /\ t.last[q] \in 1 .. PageSize
  <2>1. AppendSlot(t, q) # NoSlot
    BY <1>2
  <2>2. ~(t.indptr[q + 1] <= t.indptr[q]) /\ t.last[q] \in 1 .. PageSize
    BY <1>1, <2>1, SlotGuards DEF RequestInvalid
  <2> QED BY <1>1, <2>1, <2>2, RequestTyped
<1>4. /\ t.indptr[0] = 0 /\ t.indptr[t.batch] = t.count
      /\ \A p \in 0 .. t.count - 1 : t.indices[p] \in 0 .. MaxNumPages - 1
  BY <1>2 DEF TableRejected, PageInvalid
<1> QED BY <1>3, <1>4 DEF ValidPageTable

\* Every request of a table the append contract accepts passes its verdict.
LEMMA ContractPasses ==
  ASSUME NEW t \in Tables, table = t, ValidAppend(t), NEW r \in Requests(t)
  PROVE  ~Rejected(r)
<1>1. IsTable(t) /\ ValidPageTable(t)
  BY RopeAppendAssumption DEF ValidAppend
<1>2. ~TableRejected
  BY <1>1 DEF TableRejected, ValidPageTable, PageInvalid
<1>3. ASSUME NEW q \in Requests(t)
      PROVE  AppendSlot(t, q) # NoSlot /\ AppendSlot(t, q) = FinalSlot(t, q)
  <2>1. q \in 0 .. t.batch /\ q + 1 \in 0 .. t.batch
    BY <1>1 DEF Requests, IsTable
  <2>2. t.indptr[q] \in 0 .. t.count /\ t.indptr[q + 1] \in 0 .. t.count
    BY <1>1, <2>1, EndsInList
  <2>3. t.indptr[q] < t.indptr[q + 1] /\ t.last[q] \in 1 .. PageSize
    BY <1>1 DEF ValidPageTable
  <2>4. t.count \in Nat
    BY <1>1 DEF IsTable
  <2>5. ~RequestInvalid(t, q)
    BY <2>2, <2>3, <2>4 DEF RequestInvalid
  <2>6. t.indptr[q + 1] - 1 \in 0 .. t.count - 1
    BY <2>2, <2>3, <2>4
  <2>7. ~PageInvalid(t, t.indptr[q + 1] - 1)
    BY <1>1, <2>6 DEF ValidPageTable, PageInvalid
  <2>8. AppendSlot(t, q) = <<t.indices[t.indptr[q + 1] - 1], t.last[q] - 1>>
    BY <2>5, <2>7 DEF AppendSlot
  <2> QED BY <1>1, <2>5, <2>8, SlotIsFinal DEF NoSlot
<1>4. ASSUME NEW q \in Requests(t) \ {r}
      PROVE  AppendSlot(t, q) \notin {NoSlot, AppendSlot(t, r)}
  <2>1. FinalSlot(t, q) # FinalSlot(t, r)
    BY DEF ValidAppend
  <2> QED BY <1>3, <2>1
<1> QED BY <1>2, <1>3, <1>4 DEF Rejected

-----------------------------------------------------------------------------
(* The invariant *)

LEMMA InitInductive == Init => Inductive
BY DEF Init, Inductive, Typed, WritersAccepted, GuardsThePageTable

\* A CTA of the grid is one head of one request.
LEMMA CtaIndex ==
  ASSUME NEW t \in Tables, table = t, NEW c \in Ctas
  PROVE  /\ c \div Heads \in Requests(t) /\ c % Heads \in 0 .. Heads - 1
         /\ Heads \in Nat \ {0}
<1>1. Heads \in Nat \ {0} /\ t.batch \in Nat
  BY RopeAppendAssumption DEF Heads, IsTable
<1> QED BY <1>1, GridIndex DEF Ctas, Requests

\* A CTA decides by the table, which no CTA changes, so that what it adds is
\* all that can disturb the invariant.
LEMMA CtaKeepsInductive ==
  ASSUME Inductive, NEW c \in Ctas, Cta(c)
  PROVE  Inductive'
<1> PICK t \in Tables : t = table
  BY DEF Inductive, Typed
<1> PICK request, head : request = c \div Heads /\ head = c % Heads
  OBVIOUS
<1>1. table' = t /\ done' = done \cup {c} /\ IsTable(t)
  BY RopeAppendAssumption DEF Cta
<1>2. request \in Requests(t) /\ head \in 0 .. Heads - 1
  BY CtaIndex
<1>3. /\ Ctas' = Ctas /\ \A r : Rejected(r)' = Rejected(r)
  BY <1>1 DEF Ctas, Rejected, TableRejected
<1>4. CASE Rejected(request)
  <2>1. UNCHANGED <<queryOut, pool>>
    BY <1>4 DEF Cta
  <2>2. ~ValidAppend(t)
    BY <1>2, <1>4, ContractPasses
  <2>3. Typed'
    BY <1>1, <1>3, <2>1 DEF Inductive, Typed
  <2>4. WritersAccepted'
    BY <1>1, <1>3, <2>1 DEF Inductive, WritersAccepted
  <2>5. GuardsThePageTable'
    BY <1>1, <2>1, <2>2 DEF Inductive, GuardsThePageTable
  <2> QED BY <2>3, <2>4, <2>5 DEF Inductive
<1>5. CASE ~Rejected(request) /\ head < QueryHeads
  <2>1. queryOut' = queryOut \cup {<<request, head>>} /\ pool' = pool
    BY <1>5 DEF Cta
  <2>2. head \in 0 .. QueryHeads - 1
    BY <1>2, <1>5, RopeAppendAssumption DEF Heads
  <2>3. Typed'
    BY <1>1, <1>2, <1>3, <2>1, <2>2 DEF Inductive, Typed
  <2>4. WritersAccepted'
    BY <1>1, <1>2, <1>3, <1>5, <2>1 DEF Inductive, WritersAccepted
  <2>5. ValidPageTable(t)
    BY <1>2, <1>5, VerdictCoversTable
  <2>6. GuardsThePageTable'
    BY <1>1, <1>5, <2>1, <2>5 DEF Inductive, GuardsThePageTable
  <2> QED BY <2>3, <2>4, <2>6 DEF Inductive
<1>6. CASE ~Rejected(request) /\ ~(head < QueryHeads)
  <2> PICK w : w = <<AppendSlot(t, request), head - QueryHeads, request,
                     AppendPosition(t, request)>>
    OBVIOUS
  <2>1. pool' = pool \cup {w} /\ queryOut' = queryOut
    BY <1>6 DEF Cta
  <2>2. head - QueryHeads \in 0 .. KeyHeads - 1
    BY <1>2, <1>6, RopeAppendAssumption DEF Heads
  <2>3. AppendSlot(t, request) # NoSlot
    BY <1>6 DEF Rejected
  <2>4. AppendSlot(t, request) \in Slots /\ AppendPosition(t, request) \in Nat
    BY <1>1, <1>2, <2>3, SlotGuards
  <2>5. Typed'
    BY <1>1, <1>2, <1>3, <2>1, <2>2, <2>4 DEF Inductive, Typed
  <2>6. /\ ~Rejected(w[3]) /\ w[1] = AppendSlot(t, w[3]) /\ w[4] = AppendPosition(t, w[3])
        /\ w[2] = head - QueryHeads /\ w[3] = request
    BY <1>6
  <2>7. WritersAccepted'
    BY <1>1, <1>3, <2>1, <2>6 DEF Inductive, WritersAccepted
  <2>8. ValidPageTable(t)
    BY <1>2, <1>6, VerdictCoversTable
  <2>9. GuardsThePageTable'
    BY <1>1, <1>6, <2>1, <2>6, <2>8 DEF Inductive, GuardsThePageTable
  <2> QED BY <2>5, <2>7, <2>9 DEF Inductive
<1> QED BY <1>4, <1>5, <1>6

\* Every write lies inside the pools and was made by a request that passed.
THEOREM InductiveInvariant == Spec => []Inductive
<1>1. Inductive /\ [Next]_vars => Inductive'
  <2> SUFFICES ASSUME Inductive, [Next]_vars PROVE Inductive'
    OBVIOUS
  <2>1. CASE UNCHANGED vars
    <3>1. UNCHANGED <<table, done, queryOut, pool>>
      BY <2>1 DEF vars
    <3>2. Ctas' = Ctas /\ \A r : Rejected(r)' = Rejected(r)
      BY <3>1 DEF Ctas, Rejected, TableRejected
    <3> QED
      BY <3>1, <3>2 DEF Inductive, Typed, WritersAccepted, GuardsThePageTable
  <2>2. ASSUME NEW c \in Ctas, Cta(c) PROVE Inductive'
    BY <2>2, CtaKeepsInductive
  <2> QED BY <2>1, <2>2 DEF Next
<1> QED BY <1>1, InitInductive, PTL DEF Spec

\* An invalid table leaves every output as it was, and a table the append
\* contract accepts gets every head of every request that has run.
THEOREM TableGuarded == Spec => []GuardsThePageTable
<1>1. Inductive => GuardsThePageTable
  BY DEF Inductive
<1> QED BY <1>1, InductiveInvariant, PTL

\* Each written element of the pools has one writer, in the final slot of its
\* request: two requests with one final slot both stand back.
THEOREM WritersUnique == Spec => []OneWriterPerSlot
<1>1. ASSUME Inductive, NEW w \in pool
      PROVE  /\ w[1] = FinalSlot(table, w[3])
             /\ w[1] = PhysicalSlot(table, w[3], w[4])
             /\ \A v \in pool : v[1] = w[1] /\ v[2] = w[2] => v = w
  <2> PICK t \in Tables : t = table
    BY <1>1 DEF Inductive, Typed
  <2>1. IsTable(t)
    BY RopeAppendAssumption
  <2>2. ASSUME NEW v \in pool
        PROVE  /\ v[3] \in Requests(t) /\ ~Rejected(v[3])
               /\ v[1] = AppendSlot(t, v[3]) /\ v[4] = AppendPosition(t, v[3])
               /\ v = <<v[1], v[2], v[3], v[4]>>
               /\ AppendSlot(t, v[3]) # NoSlot
    <3>1. v \in Slots \X (0 .. KeyHeads - 1) \X Requests(t) \X Nat
      BY <1>1 DEF Inductive, Typed
    <3>2. ~Rejected(v[3]) /\ v[1] = AppendSlot(t, v[3]) /\ v[4] = AppendPosition(t, v[3])
      BY <1>1 DEF Inductive, WritersAccepted
    <3> QED BY <3>1, <3>2 DEF Rejected
  <2>3. w[1] = FinalSlot(t, w[3]) /\ w[1] = PhysicalSlot(t, w[3], w[4])
    BY <2>1, <2>2, SlotGuards, SlotIsFinal
  <2>4. ASSUME NEW v \in pool, v[1] = w[1], v[2] = w[2] PROVE v = w
    <3>1. v[3] = w[3]
      BY <2>2, <2>4 DEF Rejected
    <3> QED BY <2>2, <2>4, <3>1
  <2> QED BY <2>3, <2>4
<1>2. Inductive => OneWriterPerSlot
  BY <1>1 DEF OneWriterPerSlot
<1> QED BY <1>2, InductiveInvariant, PTL
=============================================================================
