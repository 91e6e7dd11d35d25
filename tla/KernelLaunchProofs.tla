------------------------- MODULE KernelLaunchProofs -------------------------
(***************************************************************************)
(* Proofs about KernelLaunch, for every job, size and metadata: no two     *)
(* CTAs of a kernel write the same place, all of them stay within their    *)
(* buffers, the guards are local to a request or token, and with metadata  *)
(* of the host contract every algorithm computes what its CPU reference    *)
(* does.                                                                   *)
(*                                                                         *)
(* Inductive says which kernel ran last, over what; the rest is about what *)
(* a kernel does.  First the lemmas about numbers, ranges, partial states  *)
(* and shares; then, family by family, that the CTA of a row and head is   *)
(* Sound: what it reads may be read, and what it writes is the exact       *)
(* result of a request that holds the row.  Then the kernels that write    *)
(* partial states, and the merges.                                         *)
(***************************************************************************)
EXTENDS KernelLaunch, FiniteSetTheorems, WellFoundedInduction, TLAPS
-----------------------------------------------------------------------------
(* Arithmetic *)

\* The row and the column of a CTA in a grid of k rows of n.
LEMMA GridIndex ==
  ASSUME NEW n \in Nat \ {0}, NEW k \in Nat, NEW i \in 0 .. k * n - 1
  PROVE  i \div n \in 0 .. k - 1 /\ i % n \in 0 .. n - 1
<1>1. k * n \in Int
  OBVIOUS
<1>2. i \in Nat /\ i < k * n
  BY <1>1
<1>3. i \div n \in Nat
  BY <1>2, SMT
<1>4. i \div n < k
  BY <1>2, SMT
<1>5. i % n \in 0 .. n - 1
  BY <1>2, SMT
<1> QED
  BY <1>3, <1>4, <1>5

\* The quotient and the remainder make up the number.
LEMMA Division ==
  ASSUME NEW n \in Nat \ {0}, NEW p \in Nat
  PROVE  p = n * (p \div n) + (p % n) /\ p % n \in 0 .. n - 1 /\ p \div n \in Nat
<1>1. p = n * (p \div n) + (p % n)
  BY SMT
<1>2. p % n \in 0 .. n - 1
  BY SMT
<1>3. p \div n \in Nat
  BY SMT
<1> QED BY <1>1, <1>2, <1>3

\* A number of more whole units is larger by at least one unit.
LEMMA Product ==
  ASSUME NEW n \in Nat \ {0}, NEW j \in Nat, NEW k \in Nat, j < k
  PROVE  /\ n * j \in Nat /\ k * n \in Nat /\ j * n \in Nat /\ n * k \in Nat
         /\ n * j + n <= k * n /\ j * n + n <= n * k
<1> PICK d : d = k - j - 1
  OBVIOUS
<1>1. d \in Nat /\ k = j + 1 + d
  OBVIOUS
<1>2. n * d \in Nat /\ n * j \in Nat
  BY <1>1, SMT
<1>3. n * (j + 1 + d) = n * j + n + n * d
  BY <1>1, SMT
<1>4. n * k = n * j + n + n * d
  BY <1>1, <1>3
<1>5. k * n = n * k /\ j * n = n * j
  BY SMT
<1> QED BY <1>2, <1>4, <1>5

\* The last position of a request lies in its last page.
LEMMA LastPosition ==
  ASSUME NEW n \in Nat \ {0}, NEW k \in Nat, NEW m \in 0 .. n - 1
  PROVE  (k * n + m) \div n = k /\ (k * n + m) % n = m
<1> PICK p : p = k * n + m
  OBVIOUS
<1>1. k * n \in Nat /\ p \in Nat
  BY SMT
<1>2. p = n * (p \div n) + (p % n) /\ p % n \in 0 .. n - 1 /\ p \div n \in Nat
  BY <1>1, Division
<1> PICK q, s : q = p \div n /\ s = p % n
  OBVIOUS
<1>3. p = n * q + s /\ s \in 0 .. n - 1 /\ q \in Nat
  BY <1>2
<1>4. ~(q > k)
  BY <1>1, <1>3, Product
<1>5. ~(q < k)
  BY <1>1, <1>3, Product
<1>6. q = k
  BY <1>3, <1>4, <1>5
<1>7. s = m
  <2> PICK b : b = k * n
    OBVIOUS
  <2>1. b \in Nat /\ p = b + m
    BY <1>1
  <2>2. n * q = b
    BY <1>6, SMT
  <2>3. p = b + s /\ s \in Nat /\ m \in Nat
    BY <1>3, <2>2
  <2> QED BY <2>1, <2>3
<1> QED BY <1>6, <1>7

\* Induction over numbers is by the least counterexample.
LEMMA LeastMember ==
  ASSUME NEW T \in SUBSET Nat, T # {}
  PROVE  \E x \in T : \A y \in T : x <= y
<1> DEFINE R == OpToRel(<, Nat)
<1>1. IsWellFoundedOn(R, Nat)
  BY NatLessThanWellFounded
<1>2. \A x, y \in Nat : y < x => <<y, x>> \in R
  BY DEF OpToRel
<1> HIDE DEF R
<1>3. \E x \in T : \A y \in T : ~(<<y, x>> \in R)
  BY <1>1, WFMin
<1> PICK x \in T : \A y \in T : ~(<<y, x>> \in R)
  BY <1>3
<1>4. ASSUME NEW y \in T PROVE x <= y
  <2>1. x \in Nat /\ y \in Nat /\ ~(<<y, x>> \in R)
    OBVIOUS
  <2>2. ~(y < x)
    BY <1>2, <2>1, Zenon
  <2> QED BY <2>1, <2>2, SMT
<1> QED BY <1>4

\* A CTA is found again in its grid from its row and its column.
LEMMA GridCta ==
  ASSUME NEW n \in Nat \ {0}, NEW k \in Nat, NEW row \in 0 .. k - 1, NEW column \in 0 .. n - 1
  PROVE  /\ row * n + column \in 0 .. k * n - 1
         /\ (row * n + column) \div n = row /\ (row * n + column) % n = column
<1>1. (row * n + column) \div n = row /\ (row * n + column) % n = column
  BY LastPosition
<1>2. row * n \in Nat /\ k * n \in Nat /\ row * n + n <= n * k /\ n * k = k * n
  BY Product, SMT
<1> PICK a, b : a = row * n /\ b = k * n
  OBVIOUS
<1>3. a + column \in 0 .. b - 1
  BY <1>2
<1> QED BY <1>1, <1>3

\* Two CTAs of a grid differ in their row or their column.
LEMMA GridApart ==
  ASSUME NEW n \in Nat \ {0}, NEW b \in Nat, NEW c \in Nat,
         b \div n = c \div n, b % n = c % n
  PROVE  b = c
<1>1. b = n * (b \div n) + (b % n) /\ c = n * (c \div n) + (c % n)
  BY Division
<1> QED BY <1>1

\* A product does not decrease with its factor.
LEMMA ProductGrows ==
  ASSUME NEW n \in Nat, NEW j \in Nat, NEW k \in Nat, j <= k
  PROVE  j * n \in Nat /\ k * n \in Nat /\ j * n <= k * n
<1> PICK d \in Nat : k = j + d
  <2>1. k - j \in Nat /\ k = j + (k - j)
    OBVIOUS
  <2> QED BY <2>1
<1>1. k * n = j * n + d * n /\ d * n \in Nat /\ j * n \in Nat
  BY SMT
<1> PICK a, b, e : a = j * n /\ b = d * n /\ e = k * n
  OBVIOUS
<1>2. e = a + b /\ a \in Nat /\ b \in Nat
  BY <1>1
<1> QED BY <1>2

\* A quotient does not decrease with its dividend.
LEMMA QuotientGrows ==
  ASSUME NEW n \in Nat \ {0}, NEW x \in Nat, NEW y \in Nat, x <= y
  PROVE  x \div n <= y \div n
<1>1. /\ x = n * (x \div n) + (x % n) /\ x % n \in 0 .. n - 1 /\ x \div n \in Nat
      /\ y = n * (y \div n) + (y % n) /\ y % n \in 0 .. n - 1 /\ y \div n \in Nat
  BY Division
<1> PICK q, p, r, s : q = x \div n /\ p = y \div n /\ r = x % n /\ s = y % n
  OBVIOUS
<1>2. ASSUME p < q PROVE FALSE
  <2>1. n * p \in Nat /\ n * p + n <= q * n /\ q * n = n * q
    BY <1>1, <1>2, Product, SMT
  <2> PICK a, b : a = n * p /\ b = n * q
    OBVIOUS
  <2>2. a + n <= b /\ x = b + r /\ y = a + s /\ r \in 0 .. n - 1 /\ s \in 0 .. n - 1
    BY <1>1, <2>1
  <2>3. a \in Nat /\ b \in Nat
    BY <2>1, <1>1, SMT
  <2> QED BY <2>2, <2>3
<1> QED BY <1>1, <1>2

\* A quotient rounded up: the fewest units that hold x.
LEMMA UnitsThatHold ==
  ASSUME NEW n \in Nat \ {0}, NEW x \in Nat
  PROVE  /\ CeilDiv(x, n) \in Nat
         /\ CeilDiv(x, n) * n \in Nat
         /\ x <= CeilDiv(x, n) * n /\ CeilDiv(x, n) * n <= x + n - 1
         /\ x > 0 => CeilDiv(x, n) > 0
         /\ x = 0 => CeilDiv(x, n) = 0
<1> PICK p : p = x + n - 1
  OBVIOUS
<1>1. p \in Nat
  OBVIOUS
<1>2. p = n * (p \div n) + (p % n) /\ p % n \in 0 .. n - 1 /\ p \div n \in Nat
  BY <1>1, Division
<1> PICK q, r : q = p \div n /\ r = p % n
  OBVIOUS
<1>3. CeilDiv(x, n) = q
  BY DEF CeilDiv
<1>4. n * q = q * n /\ q * n \in Nat /\ q \in Nat
  BY <1>2, SMT
<1> PICK a : a = q * n
  OBVIOUS
<1>5. p = a + r /\ r \in 0 .. n - 1 /\ a \in Nat
  BY <1>2, <1>4
<1>6. x <= a /\ a <= x + n - 1
  BY <1>5
<1>7. ASSUME x > 0 PROVE q > 0
  <2>1. a > 0
    BY <1>6, <1>7
  <2>2. q = 0 => a = 0
    BY SMT
  <2> QED BY <1>4, <2>1, <2>2
<1>8. ASSUME x = 0 PROVE q = 0
  <2>1. a <= n - 1
    BY <1>6, <1>8
  <2>2. q > 0 => 0 * n + n <= n * q
    BY <1>4, Product
  <2>3. n * q = a /\ 0 * n = 0
    BY <1>4, SMT
  <2> QED BY <1>4, <2>1, <2>2, <2>3
<1> QED BY <1>3, <1>4, <1>5, <1>6, <1>7, <1>8

-----------------------------------------------------------------------------
(* Increasing sequences of ends: of pages, requests, shares and tiles *)

\* A number is in the unit that its quotient says.
LEMMA UnitOf ==
  ASSUME NEW n \in Nat \ {0}, NEW i \in Nat, NEW q \in Nat
  PROVE  /\ i * n \in Nat
         /\ i * n <= q /\ q < i * n + n <=> q \div n = i
<1> DEFINE a == i * n
<1>1. a \in Nat
  BY SMT
<1>2. ASSUME a <= q, q < a + n
      PROVE  q \div n = i
  <2>1. q - a \in 0 .. n - 1 /\ a + (q - a) = q
    <3> HIDE DEF a
    <3> QED BY <1>1, <1>2
  <2> DEFINE o == q - a
  <2> HIDE DEF o
  <2>2. (i * n + o) \div n = i
    BY <2>1, LastPosition DEF o
  <2> QED BY <2>1, <2>2 DEF o
<1>3. ASSUME q \div n = i
      PROVE  a <= q /\ q < a + n
  <2>1. q = n * i + (q % n) /\ q % n \in 0 .. n - 1
    BY <1>3, Division
  <2>2. n * i = a
    BY SMT
  <2> DEFINE o == q % n
  <2> HIDE DEF a, o
  <2> QED BY <1>1, <2>1, <2>2 DEF o
<1> QED BY <1>1, <1>2, <1>3

\* A number between the first and the last end is between two neighbours.
LEMMA EndsCover ==
  ASSUME NEW k \in Nat, NEW c \in [0 .. k -> Int], NEW p \in Int, c[0] <= p, p < c[k]
  PROVE  \E i \in 0 .. k - 1 : c[i] <= p /\ p < c[i + 1]
<1> DEFINE T == {i \in 0 .. k : p < c[i]}
<1>1. T \in SUBSET Nat /\ k \in T
  OBVIOUS
<1>2. PICK x \in T : \A y \in T : x <= y
  <2> HIDE DEF T
  <2> QED BY <1>1, LeastMember
<1>3. x \in 1 .. k /\ p < c[x]
  OBVIOUS
<1>4. x - 1 \in 0 .. k - 1 /\ x - 1 \notin T /\ (x - 1) + 1 = x
  BY <1>2, <1>3
<1>5. c[x - 1] <= p
  BY <1>4
<1> QED BY <1>3, <1>4, <1>5

\* Ends that do not decrease from neighbour to neighbour do not decrease.
LEMMA EndsGrow ==
  ASSUME NEW k \in Nat, NEW c \in [0 .. k -> Int], \A i \in 0 .. k - 1 : c[i] <= c[i + 1]
  PROVE  \A i, j \in 0 .. k : i <= j => c[i] <= c[j]
<1> SUFFICES ASSUME NEW i \in 0 .. k PROVE \A j \in 0 .. k : i <= j => c[i] <= c[j]
  OBVIOUS
<1> DEFINE T == {j \in 0 .. k : i <= j /\ ~(c[i] <= c[j])}
<1>1. T \in SUBSET Nat
  OBVIOUS
<1>2. ASSUME T # {} PROVE FALSE
  <2>1. PICK x \in T : \A y \in T : x <= y
    <3> HIDE DEF T
    <3> QED BY <1>1, <1>2, LeastMember
  <2>2. x \in 1 .. k /\ i < x /\ ~(c[i] <= c[x])
    OBVIOUS
  <2>3. x - 1 \in 0 .. k - 1 /\ x - 1 \notin T /\ (x - 1) + 1 = x /\ i <= x - 1
    BY <2>1, <2>2
  <2>4. c[i] <= c[x - 1] /\ c[x - 1] <= c[x]
    BY <2>3
  <2> QED BY <2>2, <2>3, <2>4
<1> QED BY <1>2

\* Then a number is in one range only.
LEMMA EndsApart ==
  ASSUME NEW k \in Nat, NEW c \in [0 .. k -> Int], \A i \in 0 .. k - 1 : c[i] <= c[i + 1],
         NEW i \in 0 .. k - 1, NEW j \in 0 .. k - 1, NEW p \in Int,
         c[i] <= p, p < c[i + 1], c[j] <= p, p < c[j + 1]
  PROVE  i = j
<1>1. \A u, v \in 0 .. k : u <= v => c[u] <= c[v]
  BY EndsGrow
<1>2. ~(i < j)
  <2>1. i + 1 \in 0 .. k /\ j \in 0 .. k
    OBVIOUS
  <2>2. i < j => c[i + 1] <= c[j]
    BY <1>1, <2>1
  <2> QED BY <2>1, <2>2
<1>3. ~(j < i)
  <2>1. j + 1 \in 0 .. k /\ i \in 0 .. k
    OBVIOUS
  <2>2. j < i => c[j + 1] <= c[i]
    BY <1>1, <2>1
  <2> QED BY <2>1, <2>2
<1> QED BY <1>2, <1>3

-----------------------------------------------------------------------------
(* The states of a call *)

\* A call starts so.
LEMMA InitInductive == Init => Inductive
BY DEF Init, Inductive, Places

\* A kernel that writes partial states leaves what Held says.
LEMMA PartialsInductive ==
  ASSUME Inductive, LaunchPartials
  PROVE  Inductive'
<1>1. pc = "launch" /\ HasMerge(job) /\ pc' = "merge" /\ job' = job /\ output' = output
  BY DEF LaunchPartials
<1>2. /\ job \in Jobs /\ DOMAIN workspace = Places(job) /\ Accepted(job)
      /\ \A a \in Places(job) : workspace[a] = Stale
  BY <1>1 DEF Inductive
<1>3. effects' = Effects(job)
  BY DEF LaunchPartials, Effects
<1>4. workspace' = Held(job)
  BY <1>2, <1>3 DEF LaunchPartials, Held
<1>5. DOMAIN workspace' = Places(job)
  BY <1>4 DEF Held
<1> QED BY <1>1, <1>2, <1>3, <1>4, <1>5 DEF Inductive

\* A merge reads a workspace that it does not change.
LEMMA MergeInductive ==
  ASSUME Inductive, LaunchMerge
  PROVE  Inductive'
<1>1. pc = "merge" /\ pc' = "done" /\ job' = job /\ workspace' = workspace
  BY DEF LaunchMerge
<1>2. /\ job \in Jobs /\ DOMAIN workspace = Places(job) /\ Accepted(job)
      /\ HasMerge(job) /\ workspace = Held(job)
  BY <1>1 DEF Inductive
<1>3. \A b : MergeCta(job, b)' = MergeCta(job, b)
  BY <1>1 DEF MergeCta
<1>4. effects' = [b \in 0 .. States(job.s) - 1 |-> MergeCta(job, b)] /\ output' = Writes(effects')
  BY DEF LaunchMerge
<1>5. effects' = [b \in 0 .. States(job'.s) - 1 |-> MergeCta(job, b)']
  BY <1>1, <1>3, <1>4
<1> QED BY <1>1, <1>2, <1>4, <1>5 DEF Inductive

\* Each step of a call keeps it so.
LEMMA NextInductive == Inductive /\ [Next]_vars => Inductive'
<1> SUFFICES ASSUME Inductive, [Next]_vars PROVE Inductive'
  OBVIOUS
<1>1. CASE Plan
  <2>1. pc = "plan" /\ UNCHANGED <<job, effects, workspace, output>>
    BY <1>1 DEF Plan
  <2>2. CASE Accepted(job)
    <3>1. pc' = "launch"
      BY <1>1, <2>2 DEF Plan
    <3> QED BY <2>1, <2>2, <3>1 DEF Inductive
  <2>3. CASE ~Accepted(job)
    <3>1. pc' = "refused"
      BY <1>1, <2>3 DEF Plan
    <3> QED BY <2>1, <3>1 DEF Inductive
  <2> QED BY <2>2, <2>3
<1>2. CASE Launch
  <2>1. /\ pc = "launch" /\ ~HasMerge(job) /\ pc' = "done" /\ UNCHANGED <<job, workspace>>
        /\ output' = Writes(effects')
    BY <1>2 DEF Launch
  <2>2. effects' = Effects(job)
    BY <1>2 DEF Launch, Effects
  <2> QED BY <2>1, <2>2 DEF Inductive
<1>3. CASE LaunchPartials
  BY <1>3, PartialsInductive
<1>4. CASE LaunchMerge
  BY <1>4, MergeInductive
<1>5. CASE UNCHANGED vars
  <2>1. UNCHANGED <<job, pc, effects, workspace, output>>
    BY <1>5 DEF vars
  <2>2. \A b : MergeCta(job, b)' = MergeCta(job, b)
    BY <2>1 DEF MergeCta
  <2>3. [b \in 0 .. States(job.s) - 1 |-> MergeCta(job, b)]'
          = [b \in 0 .. States(job.s) - 1 |-> MergeCta(job, b)]
    BY <2>1, <2>2
  <2> QED BY <2>1, <2>3 DEF Inductive
<1> QED BY <1>1, <1>2, <1>3, <1>4, <1>5 DEF Next

\* Where a call has got to says which kernel's CTAs ran last, and over what.
THEOREM InductiveInvariant == Spec => []Inductive
BY InitInductive, NextInductive, PTL DEF Spec

-----------------------------------------------------------------------------
(* Partial states: bags, and the folds that merge them *)

\* The bags of two sets without a common member add up to the bag of both.
LEMMA BagsAddUp ==
  ASSUME NEW A, NEW B, A \cap B = {}
  PROVE  SetToBag(A) (+) SetToBag(B) = SetToBag(A \cup B)
<1>1. DOMAIN SetToBag(A) = A /\ DOMAIN SetToBag(B) = B
  BY DEF SetToBag
<1>2. ASSUME NEW e \in A \cup B
      PROVE  (IF e \in A THEN SetToBag(A)[e] ELSE 0) + (IF e \in B THEN SetToBag(B)[e] ELSE 0) = 1
  <2>1. CASE e \in A
    <3>1. e \notin B /\ SetToBag(A)[e] = 1
      BY <2>1 DEF SetToBag
    <3> QED BY <2>1, <3>1
  <2>2. CASE e \notin A
    <3>1. e \in B /\ SetToBag(B)[e] = 1
      BY <2>2 DEF SetToBag
    <3> QED BY <2>2, <3>1
  <2> QED BY <2>1, <2>2
<1>3. SetToBag(A) (+) SetToBag(B)
        = [e \in A \cup B |-> (IF e \in A THEN SetToBag(A)[e] ELSE 0)
                              + (IF e \in B THEN SetToBag(B)[e] ELSE 0)]
  BY <1>1 DEF (+)
<1>4. SetToBag(A \cup B) = [e \in A \cup B |-> 1]
  BY DEF SetToBag
<1> HIDE DEF SetToBag
<1> QED BY <1>2, <1>3, <1>4

\* A state is empty when no row has been weighed into it.
LEMMA EmptyState ==
  ASSUME NEW A, NEW start
  PROVE  Empty(Weigh(A, start)) <=> A = {}
<1>1. DOMAIN SetToBag(A) = A /\ DOMAIN SetToBag({}) = {}
  BY DEF SetToBag
<1>2. Weigh(A, start).rows = SetToBag(A)
  BY DEF Weigh
<1>3. Empty(Weigh(A, start)) <=> SetToBag(A) = EmptyBag
  BY <1>2 DEF Empty
<1>4. EmptyBag = SetToBag({})
  BY DEF EmptyBag, SetToBag
<1> QED BY <1>1, <1>3, <1>4

\* The states of two disjoint sets of rows, not both empty, combine into the
\* state of both.
LEMMA StatesCombine ==
  ASSUME NEW A, NEW B, A \cap B = {}, A \cup B # {}, NEW start \in {"-inf", "finite"}
  PROVE  Combine(Weigh(A, start), Weigh(B, start)) = Weigh(A \cup B, start)
<1> DEFINE a == Weigh(A, start)
           b == Weigh(B, start)
<1>1. /\ a.rows = SetToBag(A) /\ b.rows = SetToBag(B) /\ a.sound = TRUE /\ b.sound = TRUE
      /\ a.max = (IF A = {} THEN start ELSE "finite")
      /\ b.max = (IF B = {} THEN start ELSE "finite")
  BY DEF Weigh
<1>2. EmptyBag = SetToBag({})
  BY DEF EmptyBag, SetToBag
<1> HIDE DEF a, b
<1>3. (IF a.max = "finite" \/ b.max = "finite" THEN "finite" ELSE "-inf") = "finite"
  BY <1>1
<1>4. Scaled(a, "finite") = SetToBag(A) /\ Scaled(b, "finite") = SetToBag(B)
  BY <1>1, <1>2 DEF Scaled
<1>5. Scaled(a, "finite") (+) Scaled(b, "finite") = SetToBag(A \cup B)
  BY <1>4, BagsAddUp
<1>6. Combine(a, b) = [max |-> "finite", rows |-> SetToBag(A \cup B), sound |-> TRUE]
  BY <1>1, <1>3, <1>5, Zenon DEF Combine
<1>7. Weigh(A \cup B, start) = [max |-> "finite", rows |-> SetToBag(A \cup B), sound |-> TRUE]
  BY DEF Weigh
<1> QED BY <1>6, <1>7 DEF a, b

\* The largest of some indices is one of them.
LEMMA LargestIndex ==
  ASSUME NEW n \in Nat, NEW s \in SUBSET (1 .. n), s # {}
  PROVE  Max(s) \in s
<1> DEFINE T == {n - y : y \in s}
<1>1. T \in SUBSET Nat /\ T # {}
  <2>1. ASSUME NEW y \in s PROVE n - y \in Nat
    OBVIOUS
  <2>2. \A t \in T : t \in Nat
    BY <2>1
  <2> QED BY <2>2, Zenon
<1>2. PICK x \in T : \A y \in T : x <= y
  <2> HIDE DEF T
  <2> QED BY <1>1, LeastMember
<1>3. PICK z \in s : x = n - z
  OBVIOUS
<1>4. \A y \in s : z >= y
  <2> SUFFICES ASSUME NEW y \in s PROVE z >= y
    OBVIOUS
  <2>1. n - y \in T /\ y \in Int /\ z \in Int
    OBVIOUS
  <2>2. n - z <= n - y
    BY <1>2, <1>3, <2>1
  <2> QED BY <2>1, <2>2
<1> QED BY <1>4, Zenon DEF Max

\* Two functions that recur in the same way over the parts of a finite set
\* agree on it.
LEMMA SameFold ==
  ASSUME NEW D, IsFiniteSet(D), NEW f, NEW g, f[{}] = g[{}],
         \A s \in SUBSET D :
           s # {} => \E x \in s : f[s \ {x}] = g[s \ {x}] => f[s] = g[s]
  PROVE  f[D] = g[D]
<1> DEFINE T == {k \in Nat : \E s \in SUBSET D : Cardinality(s) = k /\ f[s] # g[s]}
<1>1. T \in SUBSET Nat
  OBVIOUS
<1>2. ASSUME T # {} PROVE FALSE
  <2>1. PICK k \in T : \A l \in T : k <= l
    <3> HIDE DEF T
    <3> QED BY <1>1, <1>2, LeastMember
  <2>2. PICK s \in SUBSET D : Cardinality(s) = k /\ f[s] # g[s]
    OBVIOUS
  <2>3. s # {} /\ IsFiniteSet(s) /\ Cardinality(s) \in Nat
    BY <2>2, FS_Subset, FS_CardinalityType
  <2>4. PICK x \in s : f[s \ {x}] = g[s \ {x}] => f[s] = g[s]
    BY <2>3
  <2>5. Cardinality(s \ {x}) = Cardinality(s) - 1
    BY <2>3, FS_RemoveElement
  <2>6. IsFiniteSet(s \ {x})
    BY <2>3, FS_RemoveElement
  <2>7. Cardinality(s \ {x}) \in Nat
    BY <2>6, FS_CardinalityType
  <2>8. s \ {x} \in SUBSET D /\ f[s \ {x}] # g[s \ {x}]
    BY <2>2, <2>4
  <2>9. Cardinality(s \ {x}) \in T
    BY <2>7, <2>8
  <2>10. k <= Cardinality(s) - 1
    BY <2>1, <2>5, <2>9
  <2> QED BY <2>2, <2>3, <2>10
<1>3. Cardinality(D) \in Nat
  BY FS_CardinalityType
<1>4. Cardinality(D) \notin T
  BY <1>2
<1> QED BY <1>3, <1>4

\* Prefill: the states of disjoint sets of rows merge into the state of all.
LEMMA NonEmptyMerge ==
  ASSUME NEW n \in Nat, NEW A, \A i, j \in 1 .. n : i # j => A[i] \cap A[j] = {}
  PROVE  MergeNonEmpty([i \in 1 .. n |-> Weigh(A[i], "-inf")])
           = Weigh(UNION {A[i] : i \in 1 .. n}, "-inf")
<1> DEFINE D == 1 .. n
           ps == [i \in D |-> Weigh(A[i], "-inf")]
           U(s) == UNION {A[i] : i \in s}
           G == [s \in SUBSET D |-> Weigh(U(s), "-inf")]
           Step(it, s) ==
             LET p == ps[Max(s)]
                 acc == it[s \ {Max(s)}]
             IN IF Empty(p) THEN acc ELSE IF Empty(acc) THEN p ELSE Combine(acc, p)
           Recurs(it) ==
             it = [s \in SUBSET D |-> IF s = {} THEN Weigh({}, "-inf") ELSE Step(it, s)]
<1>1. MergeNonEmpty(ps) = (CHOOSE it : Recurs(it))[D]
  BY DEF MergeNonEmpty, FoldLeft, MapThenFoldSet
<1>2. ASSUME NEW s \in SUBSET D, s # {} PROVE Max(s) \in s /\ Step(G, s) = Weigh(U(s), "-inf")
  <2>1. Max(s) \in s
    BY <1>2, LargestIndex
  <2> PICK x \in s : x = Max(s)
    BY <2>1
  <2> DEFINE B == U(s \ {x})
  <2>2. G[s \ {x}] = Weigh(B, "-inf") /\ ps[x] = Weigh(A[x], "-inf")
    <3>1. s \ {x} \in SUBSET D /\ x \in D
      OBVIOUS
    <3> HIDE DEF U, D
    <3> QED BY <3>1
  <2>3. U(s) = B \cup A[x] /\ B \cap A[x] = {}
    <3>1. \A i \in s \ {x} : A[i] \cap A[x] = {}
      OBVIOUS
    <3>2. B \cap A[x] = {}
      <4> HIDE DEF D
      <4> QED BY <3>1
    <3>3. U(s) = B \cup A[x]
      <4> HIDE DEF D
      <4> QED OBVIOUS
    <3> QED BY <3>2, <3>3
  <2> HIDE DEF B, U, G, ps
  <2>4. CASE A[x] = {}
    <3>1. Empty(ps[x])
      BY <2>2, <2>4, EmptyState
    <3>2. Step(G, s) = Weigh(B, "-inf")
      BY <2>2, <3>1
    <3> QED BY <2>1, <2>3, <2>4, <3>2
  <2>5. CASE A[x] # {} /\ B = {}
    <3>1. ~Empty(ps[x]) /\ Empty(G[s \ {x}])
      BY <2>2, <2>5, EmptyState
    <3>2. Step(G, s) = Weigh(A[x], "-inf")
      BY <2>2, <3>1
    <3> QED BY <2>1, <2>3, <2>5, <3>2
  <2>6. CASE A[x] # {} /\ B # {}
    <3>1. ~Empty(ps[x]) /\ ~Empty(G[s \ {x}])
      BY <2>2, <2>6, EmptyState
    <3>2. Step(G, s) = Combine(Weigh(B, "-inf"), Weigh(A[x], "-inf"))
      BY <2>2, <3>1
    <3>3. Combine(Weigh(B, "-inf"), Weigh(A[x], "-inf")) = Weigh(B \cup A[x], "-inf")
      BY <2>3, <2>6, StatesCombine
    <3> QED BY <2>1, <2>3, <3>2, <3>3
  <2> QED BY <2>4, <2>5, <2>6
<1>3. U({}) = {}
  OBVIOUS
<1>4. Recurs(G)
  <2>1. ASSUME NEW s \in SUBSET D
        PROVE  Weigh(U(s), "-inf") = IF s = {} THEN Weigh({}, "-inf") ELSE Step(G, s)
    <3> HIDE DEF Step, G, U
    <3>1. CASE s = {}
      BY <1>3, <3>1
    <3>2. CASE s # {}
      BY <1>2, <3>2
    <3> QED BY <3>1, <3>2
  <2> HIDE DEF Step, U
  <2> QED BY <2>1
<1>5. PICK it : it = CHOOSE f : Recurs(f)
  OBVIOUS
<1>6. Recurs(it)
  <2> HIDE DEF Recurs, G
  <2> QED BY <1>4, <1>5, Zenon
<1>7. it[D] = G[D]
  <2>1. IsFiniteSet(D)
    BY FS_Interval
  <2>2. it[{}] = G[{}]
    BY <1>3, <1>6
  <2>3. ASSUME NEW s \in SUBSET D, s # {}
        PROVE  \E x \in s : it[s \ {x}] = G[s \ {x}] => it[s] = G[s]
    <3>1. Max(s) \in s
      BY <1>2, <2>3
    <3>2. it[s] = Step(it, s) /\ G[s] = Step(G, s)
      <4> HIDE DEF Step, G
      <4> QED BY <1>4, <1>6, <2>3
    <3>3. it[s \ {Max(s)}] = G[s \ {Max(s)}] => Step(it, s) = Step(G, s)
      <4> HIDE DEF G, ps
      <4> QED OBVIOUS
    <3> QED BY <3>1, <3>2, <3>3
  <2> HIDE DEF D, G, Recurs
  <2>4. \A s \in SUBSET D : s # {} => \E x \in s : it[s \ {x}] = G[s \ {x}] => it[s] = G[s]
    BY <2>3
  <2> QED BY <2>1, <2>2, <2>4, SameFold, ZenonT(60)
<1> QED BY <1>1, <1>5, <1>7

\* The head and the tail of a sequence that is written as a function.
LEMMA TailOf ==
  ASSUME NEW n \in Nat \ {0}, NEW ps, ps = [i \in 1 .. n |-> ps[i]]
  PROVE  Head(ps) = ps[1] /\ Tail(ps) = [i \in 1 .. n - 1 |-> ps[i + 1]]
<1>1. ps \in Seq({ps[i] : i \in 1 .. n})
  OBVIOUS
<1>2. Len(ps) = n
  BY <1>1
<1> QED BY <1>1, <1>2

\* Paged decode: so they do when the first is taken even if it is empty.
LEMMA FromFirstMerge ==
  ASSUME NEW n \in Nat \ {0}, NEW A, \A i, j \in 1 .. n : i # j => A[i] \cap A[j] = {}
  PROVE  MergeFromFirst([i \in 1 .. n |-> Weigh(A[i], "-inf")])
           = Weigh(UNION {A[i] : i \in 1 .. n}, "-inf")
<1> DEFINE D == 1 .. n - 1
           all == [i \in 1 .. n |-> Weigh(A[i], "-inf")]
           ps == [i \in D |-> all[i + 1]]
           U(s) == A[1] \cup UNION {A[i + 1] : i \in s}
           G == [s \in SUBSET D |-> Weigh(U(s), "-inf")]
           Step(it, s) ==
             LET p == ps[Max(s)]
                 acc == it[s \ {Max(s)}]
             IN IF Empty(p) THEN acc ELSE Combine(acc, p)
           Recurs(it) ==
             it = [s \in SUBSET D |-> IF s = {} THEN all[1] ELSE Step(it, s)]
<1>1. MergeFromFirst(all) = (CHOOSE it : Recurs(it))[D]
  <2>1. Head(all) = all[1] /\ Tail(all) = ps
    <3>1. all = [i \in 1 .. n |-> all[i]]
      OBVIOUS
    <3> HIDE DEF all
    <3> QED BY <3>1, TailOf
  <2>2. DOMAIN ps = D
    OBVIOUS
  <2> HIDE DEF ps, all, D
  <2> QED BY <2>1, <2>2, ZenonT(60) DEF MergeFromFirst, FoldLeft, MapThenFoldSet
<1>2. ASSUME NEW s \in SUBSET D, s # {} PROVE Max(s) \in s /\ Step(G, s) = Weigh(U(s), "-inf")
  <2>1. Max(s) \in s
    <3>1. n - 1 \in Nat
      OBVIOUS
    <3> QED BY <1>2, <3>1, LargestIndex
  <2> PICK x \in s : x = Max(s)
    BY <2>1
  <2> DEFINE B == U(s \ {x})
  <2>2. G[s \ {x}] = Weigh(B, "-inf") /\ ps[x] = Weigh(A[x + 1], "-inf")
    OBVIOUS
  <2>3. U(s) = B \cup A[x + 1]
    <3> HIDE DEF D
    <3> QED OBVIOUS
  <2>4. B \cap A[x + 1] = {}
    <3>1. x \in D /\ x + 1 \in 1 .. n /\ 1 \in 1 .. n /\ x + 1 # 1
      OBVIOUS
    <3>2. A[1] \cap A[x + 1] = {}
      BY <3>1
    <3>3. ASSUME NEW i \in s \ {x} PROVE A[i + 1] \cap A[x + 1] = {}
      <4>1. i + 1 \in 1 .. n /\ i + 1 # x + 1
        OBVIOUS
      <4> QED BY <3>1, <4>1
    <3> HIDE DEF D
    <3> QED BY <3>2, <3>3
  <2> HIDE DEF B, U, G, ps
  <2>5. CASE A[x + 1] = {}
    <3>1. Empty(ps[x])
      BY <2>2, <2>5, EmptyState
    <3>2. Step(G, s) = Weigh(B, "-inf")
      BY <2>2, <3>1
    <3> QED BY <2>1, <2>3, <2>5, <3>2
  <2>6. CASE A[x + 1] # {}
    <3>1. ~Empty(ps[x])
      BY <2>2, <2>6, EmptyState
    <3>2. Step(G, s) = Combine(Weigh(B, "-inf"), Weigh(A[x + 1], "-inf"))
      BY <2>2, <3>1
    <3>3. Combine(Weigh(B, "-inf"), Weigh(A[x + 1], "-inf")) = Weigh(B \cup A[x + 1], "-inf")
      BY <2>4, <2>6, StatesCombine
    <3> QED BY <2>1, <2>3, <3>2, <3>3
  <2> QED BY <2>5, <2>6
<1>3. Weigh(U({}), "-inf") = all[1]
  <2>1. U({}) = A[1]
    OBVIOUS
  <2> HIDE DEF U
  <2> QED BY <2>1
<1>4. Recurs(G)
  <2>1. ASSUME NEW s \in SUBSET D
        PROVE  Weigh(U(s), "-inf") = IF s = {} THEN all[1] ELSE Step(G, s)
    <3> HIDE DEF Step, G, U, all
    <3>1. CASE s = {}
      BY <1>3, <3>1
    <3>2. CASE s # {}
      BY <1>2, <3>2
    <3> QED BY <3>1, <3>2
  <2> HIDE DEF Step, U, all
  <2> QED BY <2>1
<1>5. PICK it : it = CHOOSE f : Recurs(f)
  OBVIOUS
<1>6. Recurs(it)
  <2> HIDE DEF Recurs, G
  <2> QED BY <1>4, <1>5, Zenon
<1>7. it[D] = G[D]
  <2>1. IsFiniteSet(D)
    BY FS_Interval
  <2>2. it[{}] = G[{}]
    <3> HIDE DEF Step, all
    <3> QED BY <1>3, <1>6
  <2>3. ASSUME NEW s \in SUBSET D, s # {}
        PROVE  \E x \in s : it[s \ {x}] = G[s \ {x}] => it[s] = G[s]
    <3>1. Max(s) \in s
      BY <1>2, <2>3
    <3>2. it[s] = Step(it, s) /\ G[s] = Step(G, s)
      <4> HIDE DEF Step, G
      <4> QED BY <1>4, <1>6, <2>3
    <3>3. it[s \ {Max(s)}] = G[s \ {Max(s)}] => Step(it, s) = Step(G, s)
      <4> HIDE DEF G, ps
      <4> QED OBVIOUS
    <3> QED BY <3>1, <3>2, <3>3
  <2> HIDE DEF D, G, Recurs
  <2>4. \A s \in SUBSET D : s # {} => \E x \in s : it[s \ {x}] = G[s \ {x}] => it[s] = G[s]
    BY <2>3
  <2> QED BY <2>1, <2>2, <2>4, SameFold, ZenonT(60)
<1>8. U(D) = UNION {A[i] : i \in 1 .. n}
  <2>1. \A i \in 1 .. n : i = 1 \/ (i - 1 \in D /\ (i - 1) + 1 = i)
    OBVIOUS
  <2>2. 1 \in 1 .. n /\ \A i \in D : i + 1 \in 1 .. n
    OBVIOUS
  <2> HIDE DEF D
  <2> QED BY <2>1, <2>2
<1>9. G[D] = Weigh(U(D), "-inf")
  OBVIOUS
<1> HIDE DEF G, U, D, Recurs
<1> QED BY <1>1, <1>5, <1>7, <1>8, <1>9

\* States that start with a finite max combine even when they are empty.
LEMMA FiniteStatesCombine ==
  ASSUME NEW A, NEW B, A \cap B = {}
  PROVE  Combine(Weigh(A, "finite"), Weigh(B, "finite")) = Weigh(A \cup B, "finite")
<1> DEFINE a == Weigh(A, "finite")
           b == Weigh(B, "finite")
<1>1. /\ a.rows = SetToBag(A) /\ b.rows = SetToBag(B) /\ a.sound = TRUE /\ b.sound = TRUE
      /\ a.max = "finite" /\ b.max = "finite"
  BY DEF Weigh
<1> HIDE DEF a, b
<1>2. (IF a.max = "finite" \/ b.max = "finite" THEN "finite" ELSE "-inf") = "finite"
  BY <1>1
<1>3. Scaled(a, "finite") = SetToBag(A) /\ Scaled(b, "finite") = SetToBag(B)
  BY <1>1 DEF Scaled
<1>4. Scaled(a, "finite") (+) Scaled(b, "finite") = SetToBag(A \cup B)
  BY <1>3, BagsAddUp
<1>5. Combine(a, b) = [max |-> "finite", rows |-> SetToBag(A \cup B), sound |-> TRUE]
  BY <1>1, <1>2, <1>4, Zenon DEF Combine
<1>6. Weigh(A \cup B, "finite") = [max |-> "finite", rows |-> SetToBag(A \cup B), sound |-> TRUE]
  BY DEF Weigh
<1> QED BY <1>5, <1>6 DEF a, b

\* Split-K: so they do when every one of them is combined.
LEMMA FiniteMerge ==
  ASSUME NEW n \in Nat \ {0}, NEW A, \A i, j \in 1 .. n : i # j => A[i] \cap A[j] = {}
  PROVE  MergeAll([i \in 1 .. n |-> Weigh(A[i], "finite")])
           = Weigh(UNION {A[i] : i \in 1 .. n}, "finite")
<1> DEFINE D == 1 .. n - 1
           all == [i \in 1 .. n |-> Weigh(A[i], "finite")]
           ps == [i \in D |-> all[i + 1]]
           U(s) == A[1] \cup UNION {A[i + 1] : i \in s}
           G == [s \in SUBSET D |-> Weigh(U(s), "finite")]
           Step(it, s) ==
             LET p == ps[Max(s)]
                 acc == it[s \ {Max(s)}]
             IN Combine(acc, p)
           Recurs(it) ==
             it = [s \in SUBSET D |-> IF s = {} THEN all[1] ELSE Step(it, s)]
<1>1. MergeAll(all) = (CHOOSE it : Recurs(it))[D]
  <2>1. Head(all) = all[1] /\ Tail(all) = ps
    <3>1. all = [i \in 1 .. n |-> all[i]]
      OBVIOUS
    <3> HIDE DEF all
    <3> QED BY <3>1, TailOf
  <2>2. DOMAIN ps = D
    OBVIOUS
  <2> HIDE DEF ps, all, D
  <2> QED BY <2>1, <2>2, ZenonT(60) DEF MergeAll, FoldLeft, MapThenFoldSet
<1>2. ASSUME NEW s \in SUBSET D, s # {} PROVE Max(s) \in s /\ Step(G, s) = Weigh(U(s), "finite")
  <2>1. Max(s) \in s
    <3>1. n - 1 \in Nat
      OBVIOUS
    <3> QED BY <1>2, <3>1, LargestIndex
  <2> PICK x \in s : x = Max(s)
    BY <2>1
  <2> DEFINE B == U(s \ {x})
  <2>2. G[s \ {x}] = Weigh(B, "finite") /\ ps[x] = Weigh(A[x + 1], "finite")
    OBVIOUS
  <2>3. U(s) = B \cup A[x + 1]
    <3> HIDE DEF D
    <3> QED OBVIOUS
  <2>4. B \cap A[x + 1] = {}
    <3>1. x \in D /\ x + 1 \in 1 .. n /\ 1 \in 1 .. n /\ x + 1 # 1
      OBVIOUS
    <3>2. A[1] \cap A[x + 1] = {}
      BY <3>1
    <3>3. ASSUME NEW i \in s \ {x} PROVE A[i + 1] \cap A[x + 1] = {}
      <4>1. i + 1 \in 1 .. n /\ i + 1 # x + 1
        OBVIOUS
      <4> QED BY <3>1, <4>1
    <3> HIDE DEF D
    <3> QED BY <3>2, <3>3
  <2> HIDE DEF B, U, G, ps
  <2>5. Step(G, s) = Combine(Weigh(B, "finite"), Weigh(A[x + 1], "finite"))
    BY <2>2
  <2>6. Combine(Weigh(B, "finite"), Weigh(A[x + 1], "finite")) = Weigh(B \cup A[x + 1], "finite")
    BY <2>4, FiniteStatesCombine
  <2> QED BY <2>1, <2>3, <2>5, <2>6
<1>3. Weigh(U({}), "finite") = all[1]
  <2>1. U({}) = A[1]
    OBVIOUS
  <2> HIDE DEF U
  <2> QED BY <2>1
<1>4. Recurs(G)
  <2>1. ASSUME NEW s \in SUBSET D
        PROVE  Weigh(U(s), "finite") = IF s = {} THEN all[1] ELSE Step(G, s)
    <3> HIDE DEF Step, G, U, all
    <3>1. CASE s = {}
      BY <1>3, <3>1
    <3>2. CASE s # {}
      BY <1>2, <3>2
    <3> QED BY <3>1, <3>2
  <2> HIDE DEF Step, U, all
  <2> QED BY <2>1
<1>5. PICK it : it = CHOOSE f : Recurs(f)
  OBVIOUS
<1>6. Recurs(it)
  <2> HIDE DEF Recurs, G
  <2> QED BY <1>4, <1>5, Zenon
<1>7. it[D] = G[D]
  <2>1. IsFiniteSet(D)
    BY FS_Interval
  <2>2. it[{}] = G[{}]
    <3> HIDE DEF Step, all
    <3> QED BY <1>3, <1>6
  <2>3. ASSUME NEW s \in SUBSET D, s # {}
        PROVE  \E x \in s : it[s \ {x}] = G[s \ {x}] => it[s] = G[s]
    <3>1. Max(s) \in s
      BY <1>2, <2>3
    <3>2. it[s] = Step(it, s) /\ G[s] = Step(G, s)
      <4> HIDE DEF Step, G
      <4> QED BY <1>4, <1>6, <2>3
    <3>3. it[s \ {Max(s)}] = G[s \ {Max(s)}] => Step(it, s) = Step(G, s)
      <4> HIDE DEF G, ps
      <4> QED OBVIOUS
    <3> QED BY <3>1, <3>2, <3>3
  <2> HIDE DEF D, G, Recurs
  <2>4. \A s \in SUBSET D : s # {} => \E x \in s : it[s \ {x}] = G[s \ {x}] => it[s] = G[s]
    BY <2>3
  <2> QED BY <2>1, <2>2, <2>4, SameFold, ZenonT(60)
<1>8. U(D) = UNION {A[i] : i \in 1 .. n}
  <2>1. \A i \in 1 .. n : i = 1 \/ (i - 1 \in D /\ (i - 1) + 1 = i)
    OBVIOUS
  <2>2. 1 \in 1 .. n /\ \A i \in D : i + 1 \in 1 .. n
    OBVIOUS
  <2> HIDE DEF D
  <2> QED BY <2>1, <2>2
<1>9. G[D] = Weigh(U(D), "finite")
  OBVIOUS
<1> HIDE DEF G, U, D, Recurs
<1> QED BY <1>1, <1>5, <1>7, <1>8, <1>9

-----------------------------------------------------------------------------
(* Shares of a state's tokens *)

\* A share, by its ends.
LEMMA ShareEnds ==
  ASSUME NEW n \in Nat, NEW k \in Nat \ {0}
  PROVE  /\ [i \in 0 .. k |-> ShareStart(n, k, i)] \in [0 .. k -> Int]
         /\ ShareStart(n, k, 0) = 0 /\ ShareStart(n, k, k) = n
         /\ \A i \in 0 .. k - 1 : ShareStart(n, k, i) <= ShareStart(n, k, i + 1)
<1>1. ASSUME NEW i \in 0 .. k PROVE i * n \in Nat /\ ShareStart(n, k, i) \in Int
  <2>1. i * n \in Nat
    BY SMT
  <2>2. (i * n) \div k \in Nat
    BY <2>1, Division
  <2> QED BY <2>1, <2>2 DEF ShareStart
<1>2. ShareStart(n, k, 0) = 0
  <2>1. 0 * n = 0 * k + 0
    BY SMT
  <2>2. (0 * k + 0) \div k = 0
    BY LastPosition
  <2> QED BY <2>1, <2>2 DEF ShareStart
<1>3. ShareStart(n, k, k) = n
  <2>1. k * n = n * k + 0
    BY SMT
  <2>2. (n * k + 0) \div k = n
    BY LastPosition
  <2> QED BY <2>1, <2>2 DEF ShareStart
<1>4. ASSUME NEW i \in 0 .. k - 1 PROVE ShareStart(n, k, i) <= ShareStart(n, k, i + 1)
  <2>1. i * n \in Nat /\ (i + 1) * n \in Nat /\ i * n <= (i + 1) * n
    BY ProductGrows
  <2> QED BY <2>1, QuotientGrows DEF ShareStart
<1> QED BY <1>1, <1>2, <1>3, <1>4

\* The shares of n tokens divide them.
LEMMA SharesDivide ==
  ASSUME NEW n \in Nat, NEW k \in Nat \ {0}
  PROVE  /\ \A i \in 0 .. k - 1 : Share(n, k, i) \subseteq 0 .. n - 1
         /\ \A i, j \in 0 .. k - 1 : i # j => Share(n, k, i) \cap Share(n, k, j) = {}
         /\ \A p \in 0 .. n - 1 : \E i \in 0 .. k - 1 : p \in Share(n, k, i)
<1> DEFINE c == [i \in 0 .. k |-> ShareStart(n, k, i)]
<1>1. /\ c \in [0 .. k -> Int] /\ c[0] = 0 /\ c[k] = n
      /\ \A i \in 0 .. k - 1 : c[i] <= c[i + 1]
  BY ShareEnds
<1>2. \A i \in 0 .. k - 1 : Share(n, k, i) = c[i] .. c[i + 1] - 1
  BY DEF Share
<1> HIDE DEF c
<1>3. ASSUME NEW i \in 0 .. k - 1, NEW p \in Share(n, k, i) PROVE p \in Int /\ c[i] <= p /\ p < c[i + 1]
  BY <1>1, <1>2
<1>4. ASSUME NEW i \in 0 .. k - 1, NEW p \in Share(n, k, i) PROVE p \in 0 .. n - 1
  <2>1. \A u, v \in 0 .. k : u <= v => c[u] <= c[v]
    BY <1>1, EndsGrow
  <2>2. c[0] <= c[i] /\ c[i + 1] <= c[k]
    BY <2>1
  <2> QED BY <1>1, <1>3, <2>2
<1>5. ASSUME NEW i \in 0 .. k - 1, NEW j \in 0 .. k - 1, i # j PROVE Share(n, k, i) \cap Share(n, k, j) = {}
  <2>1. ASSUME NEW p \in Share(n, k, i), p \in Share(n, k, j) PROVE FALSE
    <3>1. p \in Int /\ c[i] <= p /\ p < c[i + 1] /\ c[j] <= p /\ p < c[j + 1]
      BY <1>3, <2>1
    <3> QED BY <1>1, <1>5, <3>1, EndsApart
  <2> QED BY <2>1
<1>6. ASSUME NEW p \in 0 .. n - 1 PROVE \E i \in 0 .. k - 1 : p \in Share(n, k, i)
  <2>1. c[0] <= p /\ p < c[k] /\ p \in Int
    BY <1>1
  <2>2. PICK i \in 0 .. k - 1 : c[i] <= p /\ p < c[i + 1]
    BY <1>1, <2>1, EndsCover
  <2>3. p \in Share(n, k, i)
    BY <1>1, <1>2, <2>1, <2>2
  <2> QED BY <2>3
<1> QED BY <1>4, <1>5, <1>6

\* So the shares' rows divide the rows, when no two tokens have the same row.
LEMMA SharedRows ==
  ASSUME NEW n \in Nat, NEW k \in Nat \ {0}, NEW tokens, DOMAIN tokens = 0 .. n - 1,
         \A p, q \in 0 .. n - 1 : tokens[p] = tokens[q] => p = q
  PROVE  /\ \A i, j \in 1 .. k :
              i # j => Pick(tokens, Share(n, k, i - 1)) \cap Pick(tokens, Share(n, k, j - 1)) = {}
         /\ UNION {Pick(tokens, Share(n, k, i - 1)) : i \in 1 .. k} = All(tokens)
<1>1. /\ \A i \in 0 .. k - 1 : Share(n, k, i) \subseteq 0 .. n - 1
      /\ \A i, j \in 0 .. k - 1 : i # j => Share(n, k, i) \cap Share(n, k, j) = {}
      /\ \A p \in 0 .. n - 1 : \E i \in 0 .. k - 1 : p \in Share(n, k, i)
  BY SharesDivide
<1>2. ASSUME NEW i \in 1 .. k, NEW j \in 1 .. k, i # j
      PROVE  Pick(tokens, Share(n, k, i - 1)) \cap Pick(tokens, Share(n, k, j - 1)) = {}
  <2>1. i - 1 \in 0 .. k - 1 /\ j - 1 \in 0 .. k - 1 /\ i - 1 # j - 1
    BY <1>2
  <2> PICK u, v : u = i - 1 /\ v = j - 1
    OBVIOUS
  <2>2. /\ Share(n, k, u) \cap Share(n, k, v) = {}
        /\ Share(n, k, u) \subseteq 0 .. n - 1 /\ Share(n, k, v) \subseteq 0 .. n - 1
    BY <1>1, <2>1
  <2>3. Pick(tokens, Share(n, k, u)) \cap Pick(tokens, Share(n, k, v)) = {}
    <3>1. ASSUME NEW x \in Pick(tokens, Share(n, k, u)), x \in Pick(tokens, Share(n, k, v))
          PROVE  FALSE
      <4>1. PICK p \in Share(n, k, u) : x = tokens[p]
        BY DEF Pick
      <4>2. PICK q \in Share(n, k, v) : x = tokens[q]
        BY <3>1 DEF Pick
      <4> QED BY <2>2, <4>1, <4>2
    <3> QED BY <3>1
  <2> QED BY <2>3
<1>3. \A i \in 1 .. k : i - 1 \in 0 .. k - 1
  OBVIOUS
<1>4. \A i \in 0 .. k - 1 : i + 1 \in 1 .. k /\ (i + 1) - 1 = i
  OBVIOUS
<1>5. ASSUME NEW p \in 0 .. n - 1 PROVE \E i \in 1 .. k : p \in Share(n, k, i - 1)
  BY <1>1, <1>4
<1>6. UNION {Pick(tokens, Share(n, k, i - 1)) : i \in 1 .. k} = All(tokens)
  <2>1. ASSUME NEW i \in 1 .. k PROVE Pick(tokens, Share(n, k, i - 1)) \subseteq All(tokens)
    <3>1. Share(n, k, i - 1) \subseteq 0 .. n - 1
      BY <1>1, <1>3
    <3> QED BY <3>1 DEF Pick, All
  <2>2. ASSUME NEW x \in All(tokens) PROVE \E i \in 1 .. k : x \in Pick(tokens, Share(n, k, i - 1))
    <3>1. PICK p \in 0 .. n - 1 : x = tokens[p]
      BY DEF Pick, All
    <3>2. PICK i \in 1 .. k : p \in Share(n, k, i - 1)
      BY <1>5
    <3> QED BY <3>1, <3>2 DEF Pick
  <2> QED BY <2>1, <2>2
<1> QED BY <1>2, <1>6

\* What a state's warps merge is what one warp weighs.
LEMMA SharedMerge ==
  ASSUME NEW n \in Nat \ {0}, NEW k \in Nat \ {0}, NEW tokens, DOMAIN tokens = 0 .. n - 1,
         \A p, q \in 0 .. n - 1 : tokens[p] = tokens[q] => p = q
  PROVE  /\ MergeNonEmpty(SharedStates(k, tokens)) = Weigh(All(tokens), "-inf")
         /\ MergeFromFirst(SharedStates(k, tokens)) = Weigh(All(tokens), "-inf")
<1> DEFINE A == [i \in 1 .. k |-> Pick(tokens, Share(n, k, i - 1))]
<1>1. Cardinality(DOMAIN tokens) = n
  BY FS_Interval
<1>2. SharedStates(k, tokens) = [i \in 1 .. k |-> Weigh(A[i], "-inf")]
  BY <1>1 DEF SharedStates
<1>3. \A i, j \in 1 .. k : i # j => A[i] \cap A[j] = {}
  BY SharedRows
<1>4. UNION {A[i] : i \in 1 .. k} = All(tokens)
  <2>1. UNION {Pick(tokens, Share(n, k, i - 1)) : i \in 1 .. k} = All(tokens)
    BY SharedRows, SMTT(30)
  <2> QED BY <2>1
<1> HIDE DEF A
<1>5. MergeNonEmpty([i \in 1 .. k |-> Weigh(A[i], "-inf")]) = Weigh(UNION {A[i] : i \in 1 .. k}, "-inf")
  BY <1>3, NonEmptyMerge
<1>6. MergeFromFirst([i \in 1 .. k |-> Weigh(A[i], "-inf")]) = Weigh(UNION {A[i] : i \in 1 .. k}, "-inf")
  BY <1>3, FromFirstMerge
<1> QED BY <1>2, <1>4, <1>5, <1>6

\* The result of a state that is not empty.
LEMMA NormalizedRows ==
  ASSUME NEW A, A # {}, NEW start
  PROVE  Normalized(Weigh(A, start)) = [rows |-> SetToBag(A), sound |-> TRUE]
<1>1. Weigh(A, start).rows = SetToBag(A) /\ Weigh(A, start).sound = TRUE
  BY DEF Weigh
<1>2. ~Empty(Weigh(A, start))
  BY EmptyState
<1>3. (Weigh(A, start).sound /\ ~Empty(Weigh(A, start))) = TRUE
  BY <1>1, <1>2
<1> QED BY <1>1, <1>3 DEF Normalized
-----------------------------------------------------------------------------
(* The shape of an attention call *)

\* The smallest of some numbers is one of them.
LEMMA SmallestMember ==
  ASSUME NEW s \in SUBSET Nat, s # {}
  PROVE  Min(s) \in s /\ \A y \in s : Min(s) <= y
<1>1. \E x \in s : \A y \in s : x <= y
  BY LeastMember
<1> QED BY <1>1, Zenon DEF Min

\* Query heads come in groups, one for each KV head.
LEMMA HeadGroups ==
  ASSUME NEW s, s.queryHeads \in Nat, s.kvHeads \in Nat, Admitted(s)
  PROVE  /\ s.queryHeads \in Nat \ {0} /\ s.kvHeads \in Nat \ {0} /\ GroupSize(s) \in Nat \ {0}
         /\ s.queryHeads = s.kvHeads * GroupSize(s)
         /\ \A head \in 0 .. s.queryHeads - 1 : KvHead(s, head) \in 0 .. s.kvHeads - 1
<1> PICK q, k : q = s.queryHeads /\ k = s.kvHeads
  OBVIOUS
<1>1. q \in Nat \ {0} /\ k \in Nat \ {0} /\ q % k = 0
  BY DEF Admitted
<1> PICK g : g = q \div k
  OBVIOUS
<1>2. q = k * g + (q % k) /\ g \in Nat
  BY <1>1, Division
<1>3. q = k * g
  <2>1. k * g \in Nat
    BY <1>1, <1>2, SMT
  <2> QED BY <1>1, <1>2, <2>1
<1>4. g # 0
  <2>1. k * 0 = 0
    BY <1>1
  <2> QED BY <1>1, <1>3, <2>1
<1>5. ASSUME NEW head \in 0 .. q - 1 PROVE head \div g \in 0 .. k - 1
  BY <1>1, <1>2, <1>3, <1>4, GridIndex
<1> QED BY <1>1, <1>2, <1>3, <1>4, <1>5 DEF GroupSize, KvHead

\* What every attention call has.
LEMMA AttentionJob ==
  ASSUME NEW j \in Jobs, Attention(j), Accepted(j)
  PROVE  /\ j.s.batch \in Nat \ {0} /\ j.s.nnzQo \in Nat \ {0}
         /\ j.s.queryHeads \in Nat \ {0} /\ j.s.kvHeads \in Nat \ {0}
         /\ Admitted(j.s)
         /\ OutputRows(j) = 0 .. j.s.nnzQo - 1 /\ OutputColumns(j) = 0 .. j.s.queryHeads - 1
         /\ j.family \in {"ragged", "paged", "paged_decode", "single", "split_k"}
<1>1. j.family # "rms_norm" /\ j.family # "rope"
  BY DEF Attention
<1>2. IsJob(j)
  BY KernelLaunchAssumption
<1>3. /\ j.s.batch \in Nat /\ j.s.nnzQo \in Nat /\ j.s.queryHeads \in Nat /\ j.s.kvHeads \in Nat
      /\ j.family \in {"ragged", "paged", "paged_decode", "single", "split_k"}
  BY <1>1, <1>2 DEF IsJob
<1>4. Admitted(j.s)
  BY <1>3 DEF Accepted, RaggedAdmitted, SplitKAdmitted
<1>5. /\ j.s.batch > 0 /\ j.s.nnzQo > 0 /\ j.s.queryHeads > 0 /\ j.s.kvHeads > 0
  BY <1>4 DEF Admitted
<1>6. OutputRows(j) = 0 .. j.s.nnzQo - 1
  BY <1>1 DEF OutputRows
<1>7. OutputColumns(j) = 0 .. j.s.queryHeads - 1
  BY <1>1 DEF OutputColumns
<1> QED BY <1>3, <1>4, <1>5, <1>6, <1>7

\* What a CTA that writes the output itself must do: read what it may, and
\* write its row and head as the reference of a request that holds the row.
Sound(j, row, head, effect) ==
  /\ \A x \in effect.reads : Readable(j, x)
  /\ \A w \in effect.writes :
       \E r \in JobRequests(j) : Holds(j, r, row) /\ w = Exact(j, r, row, head)

\* A CTA that is turned away does so.
LEMMA NoEffectSound ==
  ASSUME NEW j, NEW row, NEW head
  PROVE  Sound(j, row, head, NoEffect)
BY DEF Sound, NoEffect

\* So does one that stores the result over the reference's rows.
LEMMA StoreSound ==
  ASSUME NEW j, NEW row, NEW head, NEW r \in JobRequests(j), Holds(j, r, row),
         NEW rows, rows # {}, rows = Reference(j, r, row, head),
         \A x \in rows : Readable(j, x), NEW start
  PROVE  Sound(j, row, head, [reads |-> rows,
           writes |-> {Write(Output(row, head), Normalized(Weigh(rows, start)))}])
<1>1. Normalized(Weigh(rows, start)) = [rows |-> SetToBag(rows), sound |-> TRUE]
  BY NormalizedRows
<1>2. Exact(j, r, row, head) = Write(Output(row, head), Normalized(Weigh(rows, start)))
  BY <1>1 DEF Exact
<1> QED BY <1>2 DEF Sound

\* The store of a state over n tokens, each in a row of its own.
Store(t, row, head, state) ==
  [reads |-> All(t), writes |-> {Write(Output(row, head), Normalized(state))}]

\* The tokens of a state are n rows that may be read, each its own.
RowsOf(j, t, n) ==
  /\ DOMAIN t = 0 .. n - 1
  /\ \A p, q \in 0 .. n - 1 : t[p] = t[q] => p = q
  /\ \A p \in 0 .. n - 1 : Readable(j, t[p])

\* So does a state, however its tokens are shared by the warps of the CTA.
LEMMA StateSound ==
  ASSUME NEW j, NEW row, NEW head, NEW r \in JobRequests(j), Holds(j, r, row),
         NEW n \in Nat \ {0}, NEW t, RowsOf(j, t, n), All(t) = Reference(j, r, row, head), NEW warps \in Nat \ {0}
  PROVE  /\ Sound(j, row, head, Store(t, row, head, Weigh(All(t), "finite")))
         /\ Sound(j, row, head, Store(t, row, head, MergeNonEmpty(SharedStates(warps, t))))
         /\ Sound(j, row, head, Store(t, row, head, MergeFromFirst(SharedStates(warps, t))))
<1>0. /\ DOMAIN t = 0 .. n - 1 /\ \A p, q \in 0 .. n - 1 : t[p] = t[q] => p = q
      /\ \A p \in 0 .. n - 1 : Readable(j, t[p])
  BY DEF RowsOf
<1>1. 0 \in 0 .. n - 1
  OBVIOUS
<1>2. All(t) # {}
  <2>1. t[0] \in All(t)
    BY <1>0, <1>1, Zenon DEF All, Pick
  <2> QED BY <2>1
<1>3. \A x \in All(t) : Readable(j, x)
  BY <1>0, Zenon DEF All, Pick
<1>4. ASSUME NEW start
      PROVE  Sound(j, row, head, Store(t, row, head, Weigh(All(t), start)))
  <2> PICK rows : rows = All(t)
    OBVIOUS
  <2>1. Sound(j, row, head, [reads |-> rows,
           writes |-> {Write(Output(row, head), Normalized(Weigh(rows, start)))}])
    BY <1>2, <1>3, StoreSound
  <2> QED BY <2>1 DEF Store
<1>5. /\ MergeNonEmpty(SharedStates(warps, t)) = Weigh(All(t), "-inf")
      /\ MergeFromFirst(SharedStates(warps, t)) = Weigh(All(t), "-inf")
  BY <1>0, SharedMerge
<1> QED BY <1>4, <1>5

-----------------------------------------------------------------------------
(* Ragged prefill, without tiles *)

\* What a ragged call has.
LEMMA RaggedJob ==
  ASSUME NEW j \in Jobs, j.family = "ragged", Accepted(j)
  PROVE  /\ j.s.batch \in Nat \ {0} /\ j.s.nnzQo \in Nat \ {0} /\ j.s.nnzKv \in Nat \ {0}
         /\ j.s.queryHeads \in Nat \ {0} /\ j.s.kvHeads \in Nat \ {0} /\ Admitted(j.s)
         /\ j.m.qo \in [0 .. j.s.batch -> Int] /\ j.m.kv \in [0 .. j.s.batch -> Int]
         /\ Algorithm(j) = RaggedAlgorithm(j.s) /\ RaggedPlanned(j.s)
<1>1. IsJob(j)
  BY KernelLaunchAssumption
<1>2. /\ j.s.batch \in Nat /\ j.s.nnzQo \in Nat /\ j.s.queryHeads \in Nat /\ j.s.kvHeads \in Nat
      /\ j.s.nnzKv \in Nat /\ j.m.qo \in [0 .. j.s.batch -> Int] /\ j.m.kv \in [0 .. j.s.batch -> Int]
  BY <1>1 DEF IsJob
<1>3. RaggedAdmitted(j.s) /\ RaggedPlanned(j.s)
  BY DEF Accepted
<1>4. /\ j.s.batch > 0 /\ j.s.nnzQo > 0 /\ j.s.queryHeads > 0 /\ j.s.kvHeads > 0 /\ j.s.nnzKv > 0
      /\ Admitted(j.s)
  BY <1>3, SMTT(30) DEF RaggedAdmitted, Admitted
<1>5. Algorithm(j) = RaggedAlgorithm(j.s)
  BY SMTT(30) DEF Algorithm
<1> QED BY <1>2, <1>3, <1>4, <1>5

\* A row that the guards let through is in a request of sound ranges.
LEMMA RaggedAccepted ==
  ASSUME NEW j \in Jobs, j.family = "ragged", Accepted(j), NEW row \in Nat,
         NEW head \in 0 .. j.s.queryHeads - 1, RaggedAccepts(j.s, j.m, row),
         NEW r, r = RaggedRequest(j.s, j.m, row),
         NEW n, n = CausalCount(Span(j.m.qo, r), Span(j.m.kv, r), row - j.m.qo[r])
  PROVE  /\ r \in JobRequests(j) /\ Holds(j, r, row) /\ n \in Nat \ {0}
         /\ n <= Span(j.m.kv, r) /\ 0 <= j.m.kv[r] /\ j.m.kv[r + 1] <= j.s.nnzKv
         /\ j.m.kv[r] \in Int /\ j.m.kv[r + 1] \in Int
<1>1. /\ j.s.batch \in Nat \ {0} /\ j.s.nnzKv \in Nat
      /\ j.m.qo \in [0 .. j.s.batch -> Int] /\ j.m.kv \in [0 .. j.s.batch -> Int]
  BY RaggedJob
<1>2. r < j.s.batch /\ RequestInBounds(j.s, j.m, r) /\ j.m.qo[r] <= row /\ row < j.m.qo[r + 1]
  BY DEF RaggedAccepts
<1>3. r \in 0 .. j.s.batch
  <2> DEFINE T == {q \in 0 .. j.s.batch - 1 : Below(row, j.m.qo[q + 1])} \cup {j.s.batch}
  <2>1. T \in SUBSET Nat /\ T # {} /\ T \subseteq 0 .. j.s.batch
    BY <1>1
  <2>2. r = Min(T)
    BY DEF RaggedRequest
  <2> HIDE DEF T
  <2> QED BY <2>1, <2>2, SmallestMember
<1>4. r \in 0 .. j.s.batch - 1 /\ r \in 0 .. j.s.batch /\ r + 1 \in 0 .. j.s.batch
  BY <1>1, <1>2, <1>3, SMTT(30)
<1> PICK a, b, c, d : a = j.m.qo[r] /\ b = j.m.qo[r + 1] /\ c = j.m.kv[r] /\ d = j.m.kv[r + 1]
  OBVIOUS
<1>5. a \in Int /\ b \in Int /\ c \in Int /\ d \in Int
  BY <1>1, <1>4
<1>6. a <= row /\ row < b /\ 0 <= c /\ d <= j.s.nnzKv /\ b - a <= d - c
  BY <1>2 DEF RequestInBounds, Span
<1>7. n = (d - c) - (b - a) + (row - a) + 1
  BY DEF CausalCount, Span
<1>8. n \in Nat \ {0} /\ n <= d - c
  BY <1>5, <1>6, <1>7
<1> QED BY <1>4, <1>5, <1>6, <1>8 DEF JobRequests, Holds, Span

\* The CTAs of ragged prefill without tiles.
LEMMA RaggedStore ==
  ASSUME NEW j, j.family = "ragged", j.s.nnzKv \in Nat, NEW row, NEW head,
         NEW r \in JobRequests(j), Holds(j, r, row), NEW n \in Nat \ {0},
         n <= Span(j.m.kv, r), 0 <= j.m.kv[r], j.m.kv[r + 1] <= j.s.nnzKv,
         j.m.kv[r] \in Int, j.m.kv[r + 1] \in Int, NEW g \in 0 .. j.s.kvHeads - 1,
         All(RaggedTokens(j.m, r, g, n)) = Reference(j, r, row, head), NEW warps \in Nat \ {0}
  PROVE  /\ Sound(j, row, head, Store(RaggedTokens(j.m, r, g, n), row, head,
                                    Weigh(All(RaggedTokens(j.m, r, g, n)), "finite")))
         /\ Sound(j, row, head, Store(RaggedTokens(j.m, r, g, n), row, head,
                                    MergeNonEmpty(SharedStates(warps, RaggedTokens(j.m, r, g, n)))))
<1> PICK c : c = j.m.kv[r]
  OBVIOUS
<1> DEFINE t == [p \in 0 .. n - 1 |-> <<p, c + p, g>>]
<1>1. RaggedTokens(j.m, r, g, n) = t
  BY DEF RaggedTokens
<1>2. DOMAIN t = 0 .. n - 1 /\ \A p, q \in 0 .. n - 1 : t[p] = t[q] => p = q
  OBVIOUS
<1>3. ASSUME NEW p \in 0 .. n - 1 PROVE Readable(j, t[p])
  <2>1. c + p \in 0 .. j.s.nnzKv - 1
    BY DEF Span
  <2>2. t[p][2] = c + p /\ t[p][3] = g
    OBVIOUS
  <2> HIDE DEF t
  <2> QED BY <2>1, <2>2 DEF Readable
<1>4. All(t) = Reference(j, r, row, head)
  BY <1>1
<1>6. RowsOf(j, t, n)
  BY <1>2, <1>3 DEF RowsOf
<1> HIDE DEF t
<1>5. /\ Sound(j, row, head, Store(t, row, head, Weigh(All(t), "finite")))
      /\ Sound(j, row, head, Store(t, row, head, MergeNonEmpty(SharedStates(warps, t))))
  BY <1>4, <1>6, StateSound
<1> QED BY <1>1, <1>5

\* The CTAs of ragged prefill without tiles are sound.
LEMMA RaggedCta ==
  ASSUME NEW j \in Jobs, j.family = "ragged", Accepted(j), NEW row \in Nat,
         NEW head \in 0 .. j.s.queryHeads - 1, NEW warps \in Nat \ {0}
  PROVE  /\ Sound(j, row, head, RaggedDirect(j.s, j.m, row, head))
         /\ Sound(j, row, head, RaggedTokenParallel(warps, j.s, j.m, row, head))
<1>1. CASE ~RaggedAccepts(j.s, j.m, row)
  BY <1>1, NoEffectSound DEF RaggedDirect, RaggedTokenParallel, RaggedState
<1>2. CASE RaggedAccepts(j.s, j.m, row)
  <2> DEFINE r == RaggedRequest(j.s, j.m, row)
             n == CausalCount(Span(j.m.qo, r), Span(j.m.kv, r), row - j.m.qo[r])
             g == KvHead(j.s, head)
             t == RaggedTokens(j.m, r, g, n)
  <2>1. /\ r \in JobRequests(j) /\ Holds(j, r, row) /\ n \in Nat \ {0}
        /\ n <= Span(j.m.kv, r) /\ 0 <= j.m.kv[r] /\ j.m.kv[r + 1] <= j.s.nnzKv
        /\ j.m.kv[r] \in Int /\ j.m.kv[r + 1] \in Int
    BY <1>2, RaggedAccepted
  <2>2. g \in 0 .. j.s.kvHeads - 1 /\ j.s.nnzKv \in Nat
    BY RaggedJob, HeadGroups
  <2>3. CausalTokens(j.s, j.m, row, head) = t
    BY DEF CausalTokens
  <2>4. All(t) = Reference(j, r, row, head)
    BY DEF Reference, RaggedReference
  <2>5. /\ RaggedDirect(j.s, j.m, row, head) = Store(t, row, head, Weigh(All(t), "finite"))
        /\ RaggedTokenParallel(warps, j.s, j.m, row, head)
             = Store(t, row, head, MergeNonEmpty(SharedStates(warps, t)))
    BY <1>2, <2>3 DEF RaggedDirect, RaggedTokenParallel, RaggedState, Store
  <2> HIDE DEF r, n, g
  <2> QED BY <2>1, <2>2, <2>4, <2>5, RaggedStore
<1> QED BY <1>1, <1>2
-----------------------------------------------------------------------------
(* Attention over pages *)

\* The first pages of a request, or all of them, are in the pool.
PagesBefore(t, r, k) == \A p \in 0 .. k - 1 : ~PageInvalid(t, t.indptr[r] + p)
PagesSound(t, r) == PagesBefore(t, r, PageCount(t, r))

\* A request whose own entries are sound has pages and tokens.
LEMMA SoundRequest ==
  ASSUME NEW t, IsTable(t), NEW r \in 0 .. t.batch - 1, ~RequestInvalid(t, r)
  PROVE  /\ t.indptr[r] \in Int /\ PageCount(t, r) \in Nat \ {0} /\ t.last[r] \in 1 .. PageSize
         /\ KvLen(t, r) = (PageCount(t, r) - 1) * PageSize + t.last[r]
         /\ KvLen(t, r) \in Nat \ {0} /\ KvLen(t, r) <= PageCount(t, r) * PageSize
<1>1. t.indptr[r] \in Int /\ t.indptr[r + 1] \in Int
  <2>1. t.batch \in Nat /\ t.indptr \in [0 .. t.batch -> Int]
    BY DEF IsTable
  <2>2. r \in 0 .. t.batch /\ r + 1 \in 0 .. t.batch
    BY <2>1
  <2> QED BY <2>1, <2>2
<1>2. /\ ~(t.indptr[r + 1] <= t.indptr[r]) /\ t.last[r] \in 1 .. PageSize
  BY DEF RequestInvalid
<1> PICK n : n = PageCount(t, r)
  OBVIOUS
<1>3. n \in Nat \ {0} /\ n = t.indptr[r + 1] - t.indptr[r]
  BY <1>1, <1>2 DEF PageCount
<1>4. PageSize \in Nat \ {0}
  BY PageTableAssumption
<1>5. KvLen(t, r) = (n - 1) * PageSize + t.last[r]
  BY <1>3 DEF KvLen
<1>6. PageSize * (n - 1) \in Nat /\ n * PageSize \in Nat /\ (n - 1) * PageSize \in Nat
  <2>1. n - 1 \in Nat
    BY <1>3
  <2> QED BY <1>3, <1>4, <2>1, SMT
<1>7. (n - 1) * PageSize + PageSize = n * PageSize
  BY <1>3, <1>4, SMT
<1> PICK a, b : a = (n - 1) * PageSize /\ b = n * PageSize
  OBVIOUS
<1>8. KvLen(t, r) \in Nat \ {0} /\ KvLen(t, r) <= b
  <2>1. KvLen(t, r) = a + t.last[r] /\ a + PageSize = b /\ a \in Nat /\ b \in Nat
    BY <1>5, <1>6, <1>7
  <2> QED BY <1>2, <1>4, <2>1
<1> QED BY <1>1, <1>2, <1>3, <1>5, <1>8

\* A thread that sees no bad page, and the warps' vote, see every page.
LEMMA PagesSeen ==
  ASSUME NEW t, NEW r, PageCount(t, r) \in Nat \ {0}
  PROVE  /\ GoodPages(t, r) \in 0 .. PageCount(t, r)
         /\ PagesBefore(t, r, GoodPages(t, r))
         /\ GoodPages(t, r) = PageCount(t, r) <=> PagesSound(t, r)
         /\ \A warps \in Nat \ {0} : PagesVote(t, r, warps) <=> PagesSound(t, r)
<1> DEFINE n == PageCount(t, r)
           bad == {p \in 0 .. n - 1 : PageInvalid(t, t.indptr[r] + p)}
           g == Min(bad \cup {n})
<1>1. GoodPages(t, r) = g
  BY DEF GoodPages
<1>2. g \in bad \cup {n} /\ \A y \in bad \cup {n} : g <= y
  <2>1. bad \cup {n} \in SUBSET Nat
    OBVIOUS
  <2> HIDE DEF bad, n
  <2> QED BY <2>1, SmallestMember
<1>3. bad \subseteq 0 .. n - 1 /\ n \in Nat \ {0}
  OBVIOUS
<1>4. PagesSound(t, r) <=> bad = {}
  BY DEF PagesSound, PagesBefore
<1>5. \A p \in 0 .. n - 1 : p \notin bad => ~PageInvalid(t, t.indptr[r] + p)
  OBVIOUS
<1> HIDE DEF bad, g, n
<1>6. g \in 0 .. n
  BY <1>2, <1>3
<1>7. ASSUME NEW p \in 0 .. g - 1 PROVE p \in 0 .. n - 1 /\ p \notin bad
  BY <1>2, <1>3, <1>6
<1>8. g = n <=> bad = {}
  BY <1>2, <1>3
<1>9. ASSUME NEW warps \in Nat \ {0} PROVE PagesVote(t, r, warps) <=> PagesSound(t, r)
  <2>1. ASSUME NEW p \in 0 .. n - 1 PROVE (p \div 32) % warps \in 0 .. warps - 1
    <3>1. p \in Nat /\ p \div 32 \in Nat
      BY <1>3, SMT
    <3> QED BY <3>1, Division
  <2> QED BY <2>1 DEF PagesVote, PagesSound, PagesBefore, n
<1>10. PagesBefore(t, r, g)
  BY <1>5, <1>7 DEF PagesBefore
<1> QED BY <1>1, <1>4, <1>6, <1>8, <1>9, <1>10 DEF n

\* k pages hold n tokens.
OnPages(n, k) == n <= k * PageSize

\* Where a token's page is among its request's.
LEMMA TokenPage ==
  ASSUME NEW k \in Nat, NEW n \in Nat, OnPages(n, k), NEW p \in 0 .. n - 1
  PROVE  p \div PageSize \in 0 .. k - 1 /\ p % PageSize \in 0 .. PageSize - 1
<1>1. PageSize \in Nat \ {0}
  BY PageTableAssumption
<1>2. p \in 0 .. k * PageSize - 1
  <2>1. k * PageSize \in Nat
    BY <1>1, SMT
  <2> PICK a : a = k * PageSize
    OBVIOUS
  <2>2. p \in 0 .. a - 1
    BY <2>1 DEF OnPages
  <2> QED BY <2>2
<1> QED BY <1>1, <1>2, GridIndex

\* Tokens on sound pages are readable rows, each its own.
LEMMA PagedRows ==
  ASSUME NEW j, j.family \in {"paged", "paged_decode"}, NEW t, NEW r, NEW k \in Nat,
         NEW n \in Nat, OnPages(n, k),
         PagesBefore(t, r, k),
         NEW g \in 0 .. j.s.kvHeads - 1
  PROVE  RowsOf(j, DeviceTokens(t, r, g, n), n)
<1> DEFINE slot(p) == <<t.indices[t.indptr[r] + p \div PageSize], p % PageSize>>
           tokens == [p \in 0 .. n - 1 |-> <<p, slot(p), g>>]
<1>1. DeviceTokens(t, r, g, n) = tokens
  BY DEF DeviceTokens
<1>2. ASSUME NEW p \in 0 .. n - 1 PROVE slot(p) \in Slots
  <2>1. p \div PageSize \in 0 .. k - 1 /\ p % PageSize \in 0 .. PageSize - 1
    BY TokenPage
  <2>2. ~PageInvalid(t, t.indptr[r] + p \div PageSize)
    BY <2>1 DEF PagesBefore
  <2>3. t.indices[t.indptr[r] + p \div PageSize] \in 0 .. MaxNumPages - 1
    BY <2>2 DEF PageInvalid
  <2> QED BY <2>1, <2>3 DEF Slots
<1> HIDE DEF slot
<1>3. DOMAIN tokens = 0 .. n - 1 /\ \A p, q \in 0 .. n - 1 : tokens[p] = tokens[q] => p = q
  OBVIOUS
<1>4. ASSUME NEW p \in 0 .. n - 1 PROVE Readable(j, tokens[p])
  <2>1. tokens[p][2] = slot(p) /\ tokens[p][3] = g
    OBVIOUS
  <2> HIDE DEF tokens
  <2> QED BY <1>2, <2>1 DEF Readable
<1>5. RowsOf(j, tokens, n)
  BY <1>3, <1>4 DEF RowsOf
<1> HIDE DEF tokens
<1> QED BY <1>1, <1>5

\* The kernels' arithmetic is the reference's, within a request.
LEMMA DeviceIsReference ==
  ASSUME NEW t, NEW r, NEW g, NEW n \in Nat, KvLen(t, r) \in Nat, n <= KvLen(t, r)
  PROVE  DeviceTokens(t, r, g, n) = ReferenceTokens(t, r, g, n)
<1>1. ASSUME NEW p \in 0 .. n - 1
      PROVE  PhysicalSlot(t, r, p) = <<t.indices[t.indptr[r] + p \div PageSize], p % PageSize>>
  <2>1. ~(p >= KvLen(t, r))
    OBVIOUS
  <2> QED BY <2>1 DEF PhysicalSlot
<1> QED BY <1>1, Zenon DEF DeviceTokens, ReferenceTokens

\* What a paged call has.
LEMMA PagedJob ==
  ASSUME NEW j \in Jobs, j.family \in {"paged", "paged_decode"}, Accepted(j)
  PROVE  /\ j.s.batch \in Nat \ {0} /\ j.s.nnzQo \in Nat \ {0}
         /\ j.s.queryHeads \in Nat \ {0} /\ j.s.kvHeads \in Nat \ {0} /\ Admitted(j.s)
         /\ IsTable(j.m.table) /\ j.m.table.batch = j.s.batch
         /\ j.family = "paged" => j.m.qo \in [0 .. j.s.batch -> Int]
         /\ j.family = "paged_decode" => j.s.nnzQo = j.s.batch
<1>1. IsJob(j)
  BY KernelLaunchAssumption
<1>2. /\ IsTable(j.m.table) /\ j.m.table.batch = j.s.batch
      /\ j.family = "paged" => j.m.qo \in [0 .. j.s.batch -> Int]
      /\ j.family = "paged_decode" => j.s.nnzQo = j.s.batch
  BY <1>1 DEF IsJob
<1>3. Attention(j)
  BY DEF Attention
<1> QED BY <1>2, <1>3, AttentionJob

\* The result of a state over the first n tokens of a request on sound pages.
LEMMA PagedStore ==
  ASSUME NEW j, j.family \in {"paged", "paged_decode"}, NEW row, NEW head,
         NEW t, IsTable(t), NEW r \in JobRequests(j), r \in 0 .. t.batch - 1, Holds(j, r, row),
         ~RequestInvalid(t, r), PagesSound(t, r),
         NEW n \in Nat \ {0}, n <= KvLen(t, r), NEW g \in 0 .. j.s.kvHeads - 1,
         All(ReferenceTokens(t, r, g, n)) = Reference(j, r, row, head), NEW warps \in Nat \ {0}
  PROVE  /\ Sound(j, row, head, Store(DeviceTokens(t, r, g, n), row, head,
                                    Weigh(All(DeviceTokens(t, r, g, n)), "finite")))
         /\ Sound(j, row, head, Store(DeviceTokens(t, r, g, n), row, head,
                                    MergeNonEmpty(SharedStates(warps, DeviceTokens(t, r, g, n)))))
         /\ Sound(j, row, head, Store(DeviceTokens(t, r, g, n), row, head,
                                    MergeFromFirst(SharedStates(warps, DeviceTokens(t, r, g, n)))))
<1> PICK k : k = PageCount(t, r)
  OBVIOUS
<1>1. k \in Nat \ {0} /\ KvLen(t, r) \in Nat \ {0} /\ KvLen(t, r) <= k * PageSize
  BY SoundRequest
<1>2. OnPages(n, k)
  <2> PICK a : a = k * PageSize
    OBVIOUS
  <2>1. a \in Nat
    BY <1>1, PageTableAssumption, SMT
  <2> QED BY <1>1, <2>1 DEF OnPages
<1>3. PagesBefore(t, r, k)
  BY DEF PagesSound
<1> DEFINE tokens == DeviceTokens(t, r, g, n)
<1>4. RowsOf(j, tokens, n)
  BY <1>1, <1>2, <1>3, PagedRows
<1>5. All(tokens) = Reference(j, r, row, head)
  BY <1>1, DeviceIsReference
<1> HIDE DEF tokens
<1>6. /\ Sound(j, row, head, Store(tokens, row, head, Weigh(All(tokens), "finite")))
      /\ Sound(j, row, head, Store(tokens, row, head, MergeNonEmpty(SharedStates(warps, tokens))))
      /\ Sound(j, row, head, Store(tokens, row, head, MergeFromFirst(SharedStates(warps, tokens))))
  BY <1>4, <1>5, StateSound
<1> QED BY <1>6 DEF tokens
\* A row that the guards let through is in a sound request on sound pages.
LEMMA PagedAccepted ==
  ASSUME NEW j \in Jobs, j.family = "paged", Accepted(j), NEW row \in Nat,
         NEW pagesGood, PagedAccepts(j.s, j.m, row, pagesGood),
         NEW r, r = PagedRequest(j.s, j.m, row),
         NEW n, n = CausalCount(Span(j.m.qo, r), KvLen(j.m.table, r), row - j.m.qo[r])
  PROVE  /\ r \in JobRequests(j) /\ r \in 0 .. j.m.table.batch - 1 /\ Holds(j, r, row)
         /\ ~RequestInvalid(j.m.table, r) /\ n \in Nat \ {0} /\ n <= KvLen(j.m.table, r)
<1>1. /\ j.s.batch \in Nat \ {0} /\ IsTable(j.m.table) /\ j.m.table.batch = j.s.batch
      /\ j.m.qo \in [0 .. j.s.batch -> Int]
  BY PagedJob
<1>2. r # NoRequest /\ ~RequestInvalid(j.m.table, r) /\ Span(j.m.qo, r) <= KvLen(j.m.table, r)
  BY DEF PagedAccepts
<1>3. r \in 0 .. j.s.batch - 1 /\ j.m.qo[r] <= row /\ row < j.m.qo[r + 1]
  <2> DEFINE bad == {q \in 0 .. j.s.batch - 1 : \/ j.m.qo[q] < 0 \/ j.m.qo[q + 1] <= j.m.qo[q]
                                                \/ j.m.qo[q + 1] > j.s.nnzQo}
             holds == {q \in 0 .. j.s.batch - 1 : j.m.qo[q] <= row /\ row < j.m.qo[q + 1]}
  <2>1. PagedRequest(j.s, j.m, row) = IF bad \cup holds = {} \/ Min(bad \cup holds) \in bad
                                      THEN NoRequest ELSE Min(holds)
    BY Zenon DEF PagedRequest
  <2>2. bad \cup holds \in SUBSET Nat /\ holds \in SUBSET Nat
    <3>1. \A q \in bad \cup holds : q \in Nat
      OBVIOUS
    <3> QED BY <3>1, Zenon
  <2>3. \A q \in holds : q \in 0 .. j.s.batch - 1 /\ j.m.qo[q] <= row /\ row < j.m.qo[q + 1]
    OBVIOUS
  <2> HIDE DEF bad, holds
  <2>4. ~(bad \cup holds = {}) /\ ~(Min(bad \cup holds) \in bad) /\ r = Min(holds)
    BY <1>2, <2>1
  <2>5. holds # {}
    <3>1. Min(bad \cup holds) \in bad \cup holds
      BY <2>2, <2>4, SmallestMember
    <3> QED BY <2>4, <3>1
  <2>6. r \in holds
    BY <2>2, <2>4, <2>5, SmallestMember
  <2> QED BY <2>3, <2>6, SMTT(30)
<1>4. r \in 0 .. j.s.batch /\ r + 1 \in 0 .. j.s.batch
  BY <1>1, <1>3
<1>5. KvLen(j.m.table, r) \in Nat \ {0}
  BY <1>1, <1>2, <1>3, SoundRequest
<1> PICK a, b, k : a = j.m.qo[r] /\ b = j.m.qo[r + 1] /\ k = KvLen(j.m.table, r)
  OBVIOUS
<1>6. a \in Int /\ b \in Int /\ k \in Nat /\ a <= row /\ row < b /\ b - a <= k
  BY <1>1, <1>2, <1>3, <1>4, <1>5 DEF Span
<1>7. n = k - (b - a) + (row - a) + 1
  BY DEF CausalCount, Span
<1>8. n \in Nat \ {0} /\ n <= k
  BY <1>6, <1>7
<1> QED BY <1>1, <1>2, <1>3, <1>8 DEF JobRequests, Holds

\* The CTAs of paged prefill are sound.
LEMMA PagedCta ==
  ASSUME NEW j \in Jobs, j.family = "paged", Accepted(j), NEW row \in Nat,
         NEW head \in 0 .. j.s.queryHeads - 1, NEW warps \in Nat \ {0}
  PROVE  /\ Sound(j, row, head, PagedDirect(j.s, j.m, row, head))
         /\ Sound(j, row, head, PagedTokenParallel(warps, j.s, j.m, row, head))
<1> DEFINE r == PagedRequest(j.s, j.m, row)
           table == j.m.table
           n == CausalCount(Span(j.m.qo, r), KvLen(table, r), row - j.m.qo[r])
           g == KvHead(j.s, head)
           t == DeviceTokens(table, r, g, n)
<1>1. PagedTokens(j.s, j.m, row, head) = t
  BY DEF PagedTokens
<1>2. g \in 0 .. j.s.kvHeads - 1
  BY PagedJob, HeadGroups
<1>3. All(ReferenceTokens(table, r, g, n)) = Reference(j, r, row, head)
  BY DEF Reference, PagedReference
<1>4. ASSUME NEW good, good \in BOOLEAN, good => PagesSound(table, r), PagedAccepts(j.s, j.m, row, good)
      PROVE  /\ Sound(j, row, head, Store(t, row, head, Weigh(All(t), "finite")))
             /\ Sound(j, row, head, Store(t, row, head, MergeNonEmpty(SharedStates(warps, t))))
  <2>1. /\ r \in JobRequests(j) /\ r \in 0 .. table.batch - 1 /\ Holds(j, r, row)
        /\ ~RequestInvalid(table, r) /\ n \in Nat \ {0} /\ n <= KvLen(table, r)
    BY <1>4, PagedAccepted
  <2>2. PagesSound(table, r) /\ IsTable(table)
    BY <1>4, PagedJob DEF PagedAccepts
  <2> HIDE DEF r, n, g, table
  <2> QED BY <1>2, <1>3, <2>1, <2>2, PagedStore
<1>5. ASSUME PagedAccepts(j.s, j.m, row, TRUE) PROVE PageCount(table, r) \in Nat \ {0}
  <2>1. r \in 0 .. table.batch - 1 /\ ~RequestInvalid(table, r) /\ IsTable(table)
    BY <1>5, PagedAccepted, PagedJob
  <2> HIDE DEF r, table
  <2> QED BY <2>1, SoundRequest
<1>6. \A good : PagedAccepts(j.s, j.m, row, good) => good /\ PagedAccepts(j.s, j.m, row, TRUE)
  BY DEF PagedAccepts
<1>7. Sound(j, row, head, PagedDirect(j.s, j.m, row, head))
  <2> DEFINE good == GoodPages(table, r) = PageCount(table, r)
  <2>1. CASE ~PagedAccepts(j.s, j.m, row, good)
    BY <2>1, NoEffectSound DEF PagedDirect, PagedState
  <2>2. CASE PagedAccepts(j.s, j.m, row, good)
    <3>1. PagedDirect(j.s, j.m, row, head) = Store(t, row, head, Weigh(All(t), "finite"))
      BY <1>1, <2>2 DEF PagedDirect, PagedState, Store
    <3>2. PageCount(table, r) \in Nat \ {0}
      BY <1>5, <1>6, <2>2
    <3>3. good => PagesSound(table, r)
      BY <3>2, PagesSeen
    <3> HIDE DEF t
    <3> QED BY <1>4, <2>2, <3>1, <3>3
  <2> QED BY <2>1, <2>2
<1>8. Sound(j, row, head, PagedTokenParallel(warps, j.s, j.m, row, head))
  <2> DEFINE good == PagesVote(table, r, warps)
  <2>1. CASE ~PagedAccepts(j.s, j.m, row, good)
    BY <2>1, NoEffectSound DEF PagedTokenParallel, PagedState
  <2>2. CASE PagedAccepts(j.s, j.m, row, good)
    <3>1. PagedTokenParallel(warps, j.s, j.m, row, head)
            = Store(t, row, head, MergeNonEmpty(SharedStates(warps, t)))
      BY <1>1, <2>2 DEF PagedTokenParallel, PagedState, Store
    <3>2. PageCount(table, r) \in Nat \ {0}
      BY <1>5, <1>6, <2>2
    <3>3. good => PagesSound(table, r)
      BY <3>2, PagesSeen
    <3>4. good \in BOOLEAN
      BY DEF PagesVote
    <3> HIDE DEF t, good
    <3> QED BY <1>4, <2>2, <3>1, <3>3, <3>4
  <2> QED BY <2>1, <2>2
<1> QED BY <1>7, <1>8

\* The CTAs of batch decode are sound, and complete the sound requests.
LEMMA DecodeCta ==
  ASSUME NEW j \in Jobs, j.family = "paged_decode", Accepted(j), NEW r \in JobRequests(j),
         NEW head \in 0 .. j.s.queryHeads - 1
  PROVE  /\ Sound(j, r, head, DecodeDirect(j.s, j.m, r, head))
         /\ Sound(j, r, head, DecodeTokenParallel(j.s, j.m, r, head))
         /\ DecodeAccepts(j.m.table, r) /\ GoodPages(j.m.table, r) = PageCount(j.m.table, r) =>
              /\ DecodeDirect(j.s, j.m, r, head).writes # {}
              /\ DecodeTokenParallel(j.s, j.m, r, head).writes # {}
<1> DEFINE table == j.m.table
           n == KvLen(table, r)
           g == KvHead(j.s, head)
           t == DeviceTokens(table, r, g, n)
           count == PageCount(table, r)
           warps == Warps["TokenParallel8"]
<1>1. /\ g \in 0 .. j.s.kvHeads - 1 /\ IsTable(table) /\ r \in 0 .. table.batch - 1
      /\ warps \in Nat \ {0} /\ Holds(j, r, r)
  <2>1. g \in 0 .. j.s.kvHeads - 1
    BY PagedJob, HeadGroups
  <2>2. IsTable(table) /\ table.batch = j.s.batch
    BY PagedJob
  <2>3. Warps["TokenParallel8"] = 8
    BY DEF Warps
  <2> QED BY <2>1, <2>2, <2>3 DEF JobRequests, Holds
<1>2. All(ReferenceTokens(table, r, g, n)) = Reference(j, r, r, head)
  BY DEF Reference, DecodeReference
<1>3. ASSUME DecodeAccepts(table, r)
      PROVE  count \in Nat \ {0} /\ n \in Nat \ {0} /\ n <= n /\ ~RequestInvalid(table, r)
  <2>1. ~RequestInvalid(table, r)
    BY <1>3 DEF DecodeAccepts
  <2> HIDE DEF table
  <2> QED BY <1>1, <2>1, SoundRequest
<1>4. ASSUME DecodeAccepts(table, r), PagesSound(table, r)
      PROVE  /\ Sound(j, r, head, Store(t, r, head, Weigh(All(t), "finite")))
             /\ Sound(j, r, head, Store(t, r, head, MergeFromFirst(SharedStates(warps, t))))
  <2>1. n \in Nat \ {0} /\ n <= n /\ ~RequestInvalid(table, r)
    BY <1>3, <1>4
  <2>2. PagesSound(table, r) /\ j.family \in {"paged", "paged_decode"}
    BY <1>4
  <2> HIDE DEF n, g, table, warps, count
  <2>3. n <= KvLen(table, r)
    BY <2>1 DEF n
  <2> QED BY <1>1, <1>2, <2>1, <2>2, <2>3, PagedStore
<1>5. ASSUME DecodeAccepts(table, r)
      PROVE  /\ GoodPages(table, r) \in 0 .. count
             /\ PagesBefore(table, r, GoodPages(table, r))
             /\ GoodPages(table, r) = count <=> PagesSound(table, r)
             /\ PagesVote(table, r, warps) <=> PagesSound(table, r)
  <2>1. count \in Nat \ {0}
    BY <1>3, <1>5
  <2> HIDE DEF warps
  <2> QED BY <1>1, <2>1, PagesSeen
<1>6. ASSUME DecodeAccepts(table, r), GoodPages(table, r) = count
      PROVE  DecodeDirect(j.s, j.m, r, head) = Store(t, r, head, Weigh(All(t), "finite"))
  <2>1. ~(GoodPages(table, r) < count)
    BY <1>3, <1>6
  <2> QED BY <1>6, <2>1 DEF DecodeDirect, Store
<1>7. ASSUME DecodeAccepts(table, r), PagesVote(table, r, warps)
      PROVE  DecodeTokenParallel(j.s, j.m, r, head)
               = Store(t, r, head, MergeFromFirst(SharedStates(warps, t)))
  BY <1>7 DEF DecodeTokenParallel, Store
<1>8. ASSUME DecodeAccepts(table, r), GoodPages(table, r) # count
      PROVE  Sound(j, r, head, DecodeDirect(j.s, j.m, r, head))
  <2> DEFINE k == GoodPages(table, r)
             good == DeviceTokens(table, r, g, k * PageSize)
  <2>1. k \in Nat /\ k < count /\ PagesBefore(table, r, k)
    <3>1. k \in 0 .. count /\ PagesBefore(table, r, k) /\ count \in Nat
      BY <1>3, <1>5, <1>8
    <3> HIDE DEF k, count
    <3> QED BY <1>8, <3>1 DEF k
  <2>2. DecodeDirect(j.s, j.m, r, head) = [reads |-> All(good), writes |-> {}]
    BY <1>8, <2>1 DEF DecodeDirect
  <2> HIDE DEF k, table, g
  <2>3. k * PageSize \in Nat /\ OnPages(k * PageSize, k)
    BY <2>1, PageTableAssumption, SMT DEF OnPages
  <2>4. RowsOf(j, good, k * PageSize)
    <3> DEFINE size == k * PageSize
    <3>1. size \in Nat /\ OnPages(size, k) /\ k \in Nat
      BY <2>1, <2>3
    <3> HIDE DEF size
    <3>2. RowsOf(j, DeviceTokens(table, r, g, size), size)
      BY <1>1, <2>1, <3>1, PagedRows
    <3> QED BY <3>2 DEF size
  <2> HIDE DEF good
  <2>5. \A x \in All(good) : Readable(j, x)
    BY <2>4, Zenon DEF RowsOf, All, Pick
  <2> QED BY <2>2, <2>5 DEF Sound
<1>9. Sound(j, r, head, DecodeDirect(j.s, j.m, r, head))
  <2>1. CASE ~DecodeAccepts(table, r)
    BY <2>1, NoEffectSound DEF DecodeDirect
  <2> HIDE DEF table, t
  <2>2. CASE DecodeAccepts(table, r)
    BY <1>4, <1>5, <1>6, <1>8, <2>2
  <2> QED BY <2>1, <2>2
<1>10. Sound(j, r, head, DecodeTokenParallel(j.s, j.m, r, head))
  <2>1. CASE ~DecodeAccepts(table, r) \/ ~PagesVote(table, r, warps)
    BY <2>1, NoEffectSound DEF DecodeTokenParallel
  <2> HIDE DEF table, t, warps
  <2>2. CASE DecodeAccepts(table, r) /\ PagesVote(table, r, warps)
    BY <1>4, <1>5, <1>7, <2>2
  <2> QED BY <2>1, <2>2
<1>11. \A state : Store(t, r, head, state).writes # {}
  BY DEF Store
<1>12. ASSUME DecodeAccepts(table, r), GoodPages(table, r) = count
       PROVE  /\ DecodeDirect(j.s, j.m, r, head).writes # {}
              /\ DecodeTokenParallel(j.s, j.m, r, head).writes # {}
  <2> HIDE DEF table, t, warps, count
  <2> QED BY <1>5, <1>6, <1>7, <1>11, <1>12
<1> QED BY <1>9, <1>10, <1>12

\* The CTAs of single decode are sound.
LEMMA SingleCta ==
  ASSUME NEW j \in Jobs, j.family = "single", Accepted(j), NEW head \in 0 .. j.s.queryHeads - 1
  PROVE  Sound(j, 0, head, SingleDirect(j.s, head))
<1> DEFINE n == j.s.kvLen
           g == KvHead(j.s, head)
           t == [p \in 0 .. n - 1 |-> <<p, p, g>>]
<1>1. Attention(j) /\ IsJob(j)
  BY KernelLaunchAssumption DEF Attention
<1>2. n \in Nat \ {0} /\ j.s.batch = 1
  BY <1>1 DEF IsJob, Accepted
<1>3. g \in 0 .. j.s.kvHeads - 1
  BY <1>1, AttentionJob, HeadGroups
<1>4. SingleTokens(j.s, head) = t
  BY DEF SingleTokens
<1>5. All(t) = Reference(j, 0, 0, head)
  BY <1>4 DEF Reference, SingleReference
<1>6. SingleDirect(j.s, head) = Store(t, 0, head, Weigh(All(t), "finite"))
  BY <1>4 DEF SingleDirect, Store
<1>7. 0 \in JobRequests(j) /\ Holds(j, 0, 0)
  BY <1>2 DEF JobRequests, Holds
<1>8. RowsOf(j, t, n)
  <2>1. ASSUME NEW p \in 0 .. n - 1 PROVE Readable(j, t[p])
    <3>1. t[p][2] = p /\ t[p][3] = g
      OBVIOUS
    <3> HIDE DEF t, g
    <3> QED BY <1>3, <3>1 DEF Readable
  <2>2. DOMAIN t = 0 .. n - 1 /\ \A p, q \in 0 .. n - 1 : t[p] = t[q] => p = q
    OBVIOUS
  <2> QED BY <2>1, <2>2 DEF RowsOf
<1> HIDE DEF t, n
<1>9. 1 \in Nat \ {0}
  OBVIOUS
<1> QED BY <1>2, <1>5, <1>6, <1>7, <1>8, <1>9, StateSound
-----------------------------------------------------------------------------
(* The CTAs that write the output of an attention call themselves *)

\* Every algorithm has warps.
LEMMA WarpsOf ==
  ASSUME NEW a \in {"Direct", "TokenParallel8", "TokenParallel16", "TiledGqa4"}
  PROVE  Warps[a] \in Nat \ {0}
BY DEF Warps

\* The algorithm of a call.
LEMMA Algorithms ==
  ASSUME NEW j \in Jobs, Attention(j), Accepted(j)
  PROVE  /\ j.family = "ragged" =>
              Algorithm(j) \in {"Direct", "TokenParallel8", "TokenParallel16", "TiledGqa4"}
         /\ j.family = "paged" => Algorithm(j) \in {"Direct", "TokenParallel8", "TokenParallel16"}
         /\ j.family = "paged_decode" => Algorithm(j) \in {"Direct", "TokenParallel8"}
         /\ j.family \in {"single", "split_k"} => Algorithm(j) = j.family
         /\ HasMerge(j) <=> j.family = "split_k" \/ Algorithm(j) = "TiledGqa4"
         /\ Algorithm(j) = "TiledGqa4" => j.family = "ragged"
<1>1. j.family \in {"ragged", "paged", "paged_decode", "single", "split_k"}
  BY AttentionJob
<1>2. ASSUME j.family = "ragged"
      PROVE  Algorithm(j) \in {"Direct", "TokenParallel8", "TokenParallel16", "TiledGqa4"}
  BY <1>2 DEF Algorithm, RaggedAlgorithm
<1>3. ASSUME j.family = "paged" PROVE Algorithm(j) \in {"Direct", "TokenParallel8", "TokenParallel16"}
  BY <1>3 DEF Algorithm, PagedAlgorithm
<1>4. ASSUME j.family = "paged_decode" PROVE Algorithm(j) \in {"Direct", "TokenParallel8"}
  BY <1>4 DEF Algorithm, DecodeAlgorithm
<1>5. ASSUME j.family \in {"single", "split_k"} PROVE Algorithm(j) = j.family
  BY <1>5 DEF Algorithm
<1> QED BY <1>1, <1>2, <1>3, <1>4, <1>5 DEF HasMerge

\* A CTA of a state works on its row and query head.
LEMMA StateCta ==
  ASSUME NEW j \in Jobs, Attention(j), Accepted(j), ~HasMerge(j), NEW b \in 0 .. Grid(j) - 1
  PROVE  /\ b \in Nat
         /\ b \div j.s.queryHeads \in OutputRows(j) /\ b % j.s.queryHeads \in OutputColumns(j)
         /\ Sound(j, b \div j.s.queryHeads, b % j.s.queryHeads, Cta(j, b))
<1> DEFINE n == j.s.queryHeads
           row == b \div n
           head == b % n
           a == Algorithm(j)
<1>1. /\ n \in Nat \ {0} /\ j.s.nnzQo \in Nat \ {0}
      /\ OutputRows(j) = 0 .. j.s.nnzQo - 1 /\ OutputColumns(j) = 0 .. n - 1
      /\ j.family \in {"ragged", "paged", "paged_decode", "single", "split_k"}
  BY AttentionJob
<1>2. /\ a \in {"Direct", "TokenParallel8", "TokenParallel16", "single"} /\ j.family # "split_k"
      /\ j.family \in {"ragged", "paged"} => a # "single"
      /\ j.family = "paged_decode" => a \in {"Direct", "TokenParallel8"}
  BY <1>1, Algorithms
<1>3. b \in 0 .. j.s.nnzQo * n - 1
  <2>1. Grid(j) = j.s.nnzQo * n
    BY <1>1, <1>2 DEF Grid, States
  <2> QED BY <2>1
<1>4. row \in 0 .. j.s.nnzQo - 1 /\ head \in 0 .. n - 1
  BY <1>1, <1>3, GridIndex
<1>5. row \in Nat
  BY <1>4
<1>6. b \in Nat
  <2>1. j.s.nnzQo * n \in Int
    BY <1>1, SMT
  <2> QED BY <1>3, <2>1
<1>7. Sound(j, row, head, Cta(j, b))
  <2>1. CASE j.family = "ragged"
    <3>1. Cta(j, b) = IF a = "Direct" THEN RaggedDirect(j.s, j.m, row, head)
                      ELSE RaggedTokenParallel(Warps[a], j.s, j.m, row, head)
      BY <1>2, <2>1 DEF Cta
    <3>2. Warps[a] \in Nat \ {0}
      BY <1>2, <2>1, WarpsOf
    <3> HIDE DEF row, head, a
    <3>3. /\ Sound(j, row, head, RaggedDirect(j.s, j.m, row, head))
          /\ Sound(j, row, head, RaggedTokenParallel(Warps[a], j.s, j.m, row, head))
      BY <1>4, <1>5, <2>1, <3>2, RaggedCta
    <3> QED BY <3>1, <3>3
  <2>2. CASE j.family = "paged"
    <3>1. Cta(j, b) = IF a = "Direct" THEN PagedDirect(j.s, j.m, row, head)
                      ELSE PagedTokenParallel(Warps[a], j.s, j.m, row, head)
      BY <1>2, <2>2 DEF Cta
    <3>2. Warps[a] \in Nat \ {0}
      BY <1>2, <2>2, WarpsOf
    <3> HIDE DEF row, head, a
    <3>3. /\ Sound(j, row, head, PagedDirect(j.s, j.m, row, head))
          /\ Sound(j, row, head, PagedTokenParallel(Warps[a], j.s, j.m, row, head))
      BY <1>4, <1>5, <2>2, <3>2, PagedCta
    <3> QED BY <3>1, <3>3
  <2>3. CASE j.family = "paged_decode"
    <3>1. Cta(j, b) = IF a = "Direct" THEN DecodeDirect(j.s, j.m, row, head)
                      ELSE DecodeTokenParallel(j.s, j.m, row, head)
      BY <2>3 DEF Cta
    <3>2. row \in JobRequests(j)
      BY <1>4, <2>3, PagedJob DEF JobRequests
    <3> HIDE DEF row, head, a
    <3>3. /\ Sound(j, row, head, DecodeDirect(j.s, j.m, row, head))
          /\ Sound(j, row, head, DecodeTokenParallel(j.s, j.m, row, head))
      BY <1>4, <2>3, <3>2, DecodeCta
    <3> QED BY <3>1, <3>3
  <2>4. CASE j.family = "single"
    <3>1. Cta(j, b) = SingleDirect(j.s, head)
      BY <2>4 DEF Cta
    <3>2. row = 0
      <4>1. j.s.nnzQo = 1
        BY <2>4, KernelLaunchAssumption DEF IsJob
      <4> HIDE DEF row
      <4> QED BY <1>4, <4>1
    <3> HIDE DEF row, head
    <3> QED BY <1>4, <2>4, <3>1, <3>2, SingleCta
  <2> QED BY <1>1, <1>2, <2>1, <2>2, <2>3, <2>4
<1> QED BY <1>1, <1>4, <1>6, <1>7

\* What a sound CTA writes is its own place of the output, as a reference has
\* it.
LEMMA StateWrites ==
  ASSUME NEW j \in Jobs, Attention(j), Accepted(j), ~HasMerge(j), NEW b \in 0 .. Grid(j) - 1,
         NEW w \in Cta(j, b).writes
  PROVE  /\ w.at = Output(b \div j.s.queryHeads, b % j.s.queryHeads)
         /\ \E r \in JobRequests(j) :
              /\ Holds(j, r, b \div j.s.queryHeads)
              /\ w = Exact(j, r, b \div j.s.queryHeads, b % j.s.queryHeads)
<1>1. PICK r \in JobRequests(j) :
        /\ Holds(j, r, b \div j.s.queryHeads)
        /\ w = Exact(j, r, b \div j.s.queryHeads, b % j.s.queryHeads)
  BY StateCta DEF Sound
<1>2. w.at = Output(b \div j.s.queryHeads, b % j.s.queryHeads)
  BY <1>1 DEF Exact, Write
<1> QED BY <1>1, <1>2
-----------------------------------------------------------------------------
(* RMSNorm *)

\* The total of the bags of disjoint sets is the bag of all of them.
LEMMA TotalOfSets ==
  ASSUME NEW n \in Nat, NEW A, \A i, j \in 0 .. n - 1 : i # j => A[i] \cap A[j] = {}
  PROVE  Total([i \in 0 .. n - 1 |-> SetToBag(A[i])]) = SetToBag(UNION {A[i] : i \in 0 .. n - 1})
<1> DEFINE D == 0 .. n - 1
           bags == [i \in D |-> SetToBag(A[i])]
           U(s) == UNION {A[i] : i \in s}
           G == [s \in SUBSET D |-> SetToBag(U(s))]
           Chosen(s) == CHOOSE x \in s : TRUE
           Step(it, s) == bags[Chosen(s)] (+) it[s \ {Chosen(s)}]
           Recurs(it) == it = [s \in SUBSET D |-> IF s = {} THEN EmptyBag ELSE Step(it, s)]
<1>1. Total(bags) = (CHOOSE it : Recurs(it))[D]
  BY DEF Total, FoldFunction, FoldFunctionOnSet, MapThenFoldSet
<1>2. ASSUME NEW s \in SUBSET D, s # {} PROVE Chosen(s) \in s /\ Step(G, s) = SetToBag(U(s))
  <2>1. Chosen(s) \in s
    BY <1>2
  <2> PICK x \in s : x = Chosen(s)
    BY <2>1
  <2> DEFINE B == U(s \ {x})
  <2>2. G[s \ {x}] = SetToBag(B) /\ bags[x] = SetToBag(A[x])
    OBVIOUS
  <2>3. U(s) = A[x] \cup B /\ A[x] \cap B = {}
    <3>1. U(s) = A[x] \cup B
      <4> HIDE DEF D, bags, G
      <4> QED OBVIOUS
    <3>2. \A i \in s \ {x} : A[x] \cap A[i] = {}
      BY <1>2
    <3>3. A[x] \cap B = {}
      <4> HIDE DEF D, bags, G, Chosen
      <4> QED BY <3>2
    <3> QED BY <3>1, <3>3
  <2>4. SetToBag(A[x]) (+) SetToBag(B) = SetToBag(U(s))
    <3> HIDE DEF B, U
    <3> QED BY <2>3, BagsAddUp
  <2> HIDE DEF B, U, G, bags, Chosen
  <2> QED BY <2>1, <2>2, <2>4
<1>3. U({}) = {} /\ EmptyBag = SetToBag({})
  BY DEF EmptyBag, SetToBag
<1>4. Recurs(G)
  <2>1. ASSUME NEW s \in SUBSET D
        PROVE  SetToBag(U(s)) = IF s = {} THEN EmptyBag ELSE Step(G, s)
    BY <1>2, <1>3
  <2> HIDE DEF Step, U
  <2> QED BY <2>1
<1>5. PICK it : it = CHOOSE f : Recurs(f)
  OBVIOUS
<1>6. Recurs(it)
  <2> HIDE DEF Recurs, G
  <2> QED BY <1>4, <1>5
<1>7. it[D] = G[D]
  <2>1. IsFiniteSet(D)
    BY FS_Interval
  <2>2. it[{}] = G[{}]
    <3>1. G[{}] = SetToBag(U({}))
      OBVIOUS
    <3>2. it[{}] = EmptyBag
      <4> HIDE DEF Step
      <4> QED BY <1>6
    <3> HIDE DEF G, U
    <3> QED BY <1>3, <3>1, <3>2
  <2>3. ASSUME NEW s \in SUBSET D, s # {}
        PROVE  \E x \in s : it[s \ {x}] = G[s \ {x}] => it[s] = G[s]
    <3>1. Chosen(s) \in s
      BY <1>2, <2>3
    <3>2. it[s] = Step(it, s) /\ G[s] = Step(G, s)
      <4> HIDE DEF Step, G
      <4> QED BY <1>4, <1>6, <2>3
    <3>3. it[s \ {Chosen(s)}] = G[s \ {Chosen(s)}] => Step(it, s) = Step(G, s)
      <4> HIDE DEF G, bags, Chosen
      <4> QED OBVIOUS
    <3> HIDE DEF Chosen
    <3> QED BY <3>1, <3>2, <3>3
  <2> HIDE DEF D, G, Recurs
  <2>4. \A s \in SUBSET D : s # {} => \E x \in s : it[s \ {x}] = G[s \ {x}] => it[s] = G[s]
    BY <2>3
  <2> QED BY <2>1, <2>2, <2>4, SameFold, ZenonT(60)
<1>8. G[D] = SetToBag(U(D))
  OBVIOUS
<1> HIDE DEF G, Recurs
<1> QED BY <1>1, <1>5, <1>7, <1>8
\* The sum of a block is over the elements of all its threads.
LEMMA BlockSumOfSets ==
  ASSUME NEW E, \A t, u \in Threads : t # u => E[t] \cap E[u] = {}
  PROVE  BlockSum([t \in Threads |-> SetToBag(E[t])]) = SetToBag(UNION {E[t] : t \in Threads})
<1> DEFINE squares == [t \in Threads |-> SetToBag(E[t])]
           thread(w, l) == w * Lanes + l
           W == [w \in 0 .. RmsWarps - 1 |-> UNION {E[thread(w, l)] : l \in 0 .. Lanes - 1}]
<1>1. RmsWarps \in Nat \ {0} /\ Lanes \in Nat \ {0}
  BY RowKernelsAssumption
<1>2. ASSUME NEW w \in 0 .. RmsWarps - 1, NEW l \in 0 .. Lanes - 1
      PROVE  thread(w, l) \in Threads /\ thread(w, l) \div Lanes = w /\ thread(w, l) % Lanes = l
  BY <1>1, GridCta DEF Threads
<1>3. ASSUME NEW t \in Threads
      PROVE  \E w \in 0 .. RmsWarps - 1, l \in 0 .. Lanes - 1 : t = thread(w, l)
  <2>1. t \in 0 .. RmsWarps * Lanes - 1 /\ RmsWarps * Lanes \in Nat
    BY <1>1, SMT DEF Threads
  <2>2. t \div Lanes \in 0 .. RmsWarps - 1 /\ t % Lanes \in 0 .. Lanes - 1
    BY <1>1, <2>1, GridIndex
  <2>3. t \in Nat
    BY <2>1
  <2>4. t = Lanes * (t \div Lanes) + (t % Lanes)
    BY <1>1, <2>3, Division
  <2>5. Lanes * (t \div Lanes) = (t \div Lanes) * Lanes
    BY <1>1, <2>2, SMT
  <2> QED BY <2>2, <2>4, <2>5
<1> HIDE DEF thread
<1>4. ASSUME NEW w \in 0 .. RmsWarps - 1
      PROVE  Total([l \in 0 .. Lanes - 1 |-> SetToBag(E[thread(w, l)])]) = SetToBag(W[w])
  <2> DEFINE A == [l \in 0 .. Lanes - 1 |-> E[thread(w, l)]]
  <2>1. \A l, k \in 0 .. Lanes - 1 : l # k => A[l] \cap A[k] = {}
    <3> SUFFICES ASSUME NEW l \in 0 .. Lanes - 1, NEW k \in 0 .. Lanes - 1, l # k
                 PROVE  E[thread(w, l)] \cap E[thread(w, k)] = {}
      OBVIOUS
    <3>1. thread(w, l) \in Threads /\ thread(w, k) \in Threads /\ thread(w, l) # thread(w, k)
      BY <1>2
    <3> QED BY <3>1
  <2>2. [l \in 0 .. Lanes - 1 |-> SetToBag(E[thread(w, l)])] = [l \in 0 .. Lanes - 1 |-> SetToBag(A[l])]
    OBVIOUS
  <2>3. W[w] = UNION {A[l] : l \in 0 .. Lanes - 1}
    OBVIOUS
  <2> HIDE DEF A, W
  <2>4. Total([l \in 0 .. Lanes - 1 |-> SetToBag(A[l])]) = SetToBag(UNION {A[l] : l \in 0 .. Lanes - 1})
    BY <1>1, <2>1, TotalOfSets
  <2> QED BY <2>2, <2>3, <2>4
<1>5. BlockSum(squares) = Total([w \in 0 .. RmsWarps - 1 |-> SetToBag(W[w])])
  <2>1. ASSUME NEW w \in 0 .. RmsWarps - 1
        PROVE  [l \in 0 .. Lanes - 1 |-> squares[thread(w, l)]]
                 = [l \in 0 .. Lanes - 1 |-> SetToBag(E[thread(w, l)])]
    BY <1>2
  <2>2. ASSUME NEW w \in 0 .. RmsWarps - 1
        PROVE  Total([l \in 0 .. Lanes - 1 |-> squares[thread(w, l)]]) = SetToBag(W[w])
    <3> HIDE DEF squares, W
    <3> QED BY <1>4, <2>1
  <2>3. BlockSum(squares)
          = Total([w \in 0 .. RmsWarps - 1 |-> Total([l \in 0 .. Lanes - 1 |-> squares[thread(w, l)]])])
    BY DEF BlockSum, thread
  <2>4. [w \in 0 .. RmsWarps - 1 |-> Total([l \in 0 .. Lanes - 1 |-> squares[thread(w, l)]])]
          = [w \in 0 .. RmsWarps - 1 |-> SetToBag(W[w])]
    <3> HIDE DEF squares, W
    <3> QED BY <2>2, Zenon
  <2> HIDE DEF squares, W
  <2> QED BY <2>3, <2>4
<1>6. \A w, v \in 0 .. RmsWarps - 1 : w # v => W[w] \cap W[v] = {}
  <2> SUFFICES ASSUME NEW w \in 0 .. RmsWarps - 1, NEW v \in 0 .. RmsWarps - 1, w # v
               PROVE  W[w] \cap W[v] = {}
    OBVIOUS
  <2>1. ASSUME NEW l \in 0 .. Lanes - 1, NEW k \in 0 .. Lanes - 1
        PROVE  E[thread(w, l)] \cap E[thread(v, k)] = {}
    <3>1. thread(w, l) \in Threads /\ thread(v, k) \in Threads /\ thread(w, l) # thread(v, k)
      BY <1>2
    <3> QED BY <3>1
  <2>2. ASSUME NEW x \in W[w], x \in W[v] PROVE FALSE
    <3>1. PICK l \in 0 .. Lanes - 1 : x \in E[thread(w, l)]
      OBVIOUS
    <3>2. PICK k \in 0 .. Lanes - 1 : x \in E[thread(v, k)]
      BY <2>2
    <3> QED BY <2>1, <3>1, <3>2
  <2> HIDE DEF W
  <2> QED BY <2>2
<1>7. UNION {W[w] : w \in 0 .. RmsWarps - 1} = UNION {E[t] : t \in Threads}
  <2>1. ASSUME NEW x \in UNION {E[t] : t \in Threads}
        PROVE  x \in UNION {W[w] : w \in 0 .. RmsWarps - 1}
    <3>1. PICK t \in Threads : x \in E[t]
      OBVIOUS
    <3>2. PICK w \in 0 .. RmsWarps - 1, l \in 0 .. Lanes - 1 : t = thread(w, l)
      BY <1>3
    <3>3. x \in W[w]
      BY <3>1, <3>2
    <3> HIDE DEF W
    <3> QED BY <3>3
  <2>2. ASSUME NEW x \in UNION {W[w] : w \in 0 .. RmsWarps - 1}
        PROVE  x \in UNION {E[t] : t \in Threads}
    <3>1. PICK w \in 0 .. RmsWarps - 1 : x \in W[w]
      <4> HIDE DEF W
      <4> QED OBVIOUS
    <3>2. PICK l \in 0 .. Lanes - 1 : x \in E[thread(w, l)]
      BY <3>1
    <3>3. thread(w, l) \in Threads
      BY <1>2
    <3> QED BY <3>2, <3>3
  <2> HIDE DEF W
  <2> QED BY <2>1, <2>2, Zenon
<1>8. Total([w \in 0 .. RmsWarps - 1 |-> SetToBag(W[w])]) = SetToBag(UNION {W[w] : w \in 0 .. RmsWarps - 1})
  <2> HIDE DEF W
  <2> QED BY <1>1, <1>6, TotalOfSets
<1> HIDE DEF W
<1> QED BY <1>5, <1>7, <1>8

\* The flat indices of a row.
RowElements(s, row) == {row * s.hidden + c : c \in 0 .. s.hidden - 1}

\* The CTA of a row whose threads own its elements, each one of them, does
\* what the reference does.
LEMMA RmsRowResult ==
  ASSUME NEW s, s.hidden \in Nat \ {0}, NEW row \in Nat, NEW E,
         E = [t \in Threads |-> E[t]],
         \A t, u \in Threads : t # u => E[t] \cap E[u] = {},
         UNION {E[t] : t \in Threads} = RowElements(s, row)
  PROVE  RmsRow(s, row, row * s.hidden, E)
           = [reads  |-> RowElements(s, row),
              writes |-> {RmsResult(s, row, c, SetToBag(RowElements(s, row))) : c \in 0 .. s.hidden - 1}]
<1> DEFINE all == RowElements(s, row)
           write(i) == Write(Output(i \div s.hidden, i % s.hidden),
                             [input |-> i, weight |-> i - row * s.hidden, squares |-> SetToBag(all)])
<1>1. BlockSum([t \in Threads |-> SetToBag(E[t])]) = SetToBag(all)
  BY BlockSumOfSets
<1>2. RmsRow(s, row, row * s.hidden, E) = [reads |-> all, writes |-> {write(i) : i \in all}]
  BY <1>1 DEF RmsRow
<1>3. ASSUME NEW c \in 0 .. s.hidden - 1
      PROVE  write(row * s.hidden + c) = RmsResult(s, row, c, SetToBag(all))
  <2>1. /\ (row * s.hidden + c) \div s.hidden = row /\ (row * s.hidden + c) % s.hidden = c
    BY LastPosition
  <2>2. (row * s.hidden + c) - row * s.hidden = c
    <3>1. row * s.hidden \in Nat
      BY SMT
    <3> PICK a : a = row * s.hidden
      OBVIOUS
    <3> QED BY <3>1
  <2> HIDE DEF all
  <2> QED BY <2>1, <2>2 DEF RmsResult
<1>4. {write(i) : i \in all} = {RmsResult(s, row, c, SetToBag(all)) : c \in 0 .. s.hidden - 1}
  <2>1. {write(i) : i \in all} = {write(row * s.hidden + c) : c \in 0 .. s.hidden - 1}
    <3>1. all = {row * s.hidden + c : c \in 0 .. s.hidden - 1}
      BY DEF RowElements
    <3> HIDE DEF write, all
    <3> QED BY <3>1
  <2> HIDE DEF write, all
  <2> QED BY <1>3, <2>1
<1> HIDE DEF write
<1> QED BY <1>2, <1>4
\* A block's threads divide the elements, or pairs, of a row.
LEMMA StridesDivide ==
  ASSUME NEW n \in Nat
  PROVE  /\ \A t \in Threads : Stride(t, n) \subseteq 0 .. n - 1
         /\ \A t, u \in Threads : t # u => Stride(t, n) \cap Stride(u, n) = {}
         /\ \A i \in 0 .. n - 1 : \E t \in Threads : i \in Stride(t, n)
<1> PICK k : k = RmsWarps * Lanes
  OBVIOUS
<1>1. k \in Nat \ {0} /\ Threads = 0 .. k - 1
  <2>1. RmsWarps \in Nat \ {0} /\ Lanes \in Nat \ {0}
    BY RowKernelsAssumption
  <2>2. RmsWarps * Lanes \in Nat /\ RmsWarps * Lanes # 0
    <3>1. 0 * Lanes + Lanes <= Lanes * RmsWarps /\ RmsWarps * Lanes \in Nat
      BY <2>1, Product
    <3>2. Lanes * RmsWarps = RmsWarps * Lanes /\ 0 * Lanes = 0
      BY <2>1, SMT
    <3> QED BY <2>1, <3>1, <3>2
  <2> QED BY <2>2 DEF Threads
<1>2. \A t : Stride(t, n) = {i \in 0 .. n - 1 : i % k = t}
  BY DEF Stride
<1>3. ASSUME NEW i \in 0 .. n - 1 PROVE i % k \in Threads
  <2>1. i \in Nat
    OBVIOUS
  <2> QED BY <1>1, <2>1, Division
<1> QED BY <1>2, <1>3

\* The flat indices that a thread of a scalar or of a pairwise kernel owns.
ScalarElements(s, row) == [t \in Threads |-> {row * s.hidden + c : c \in Stride(t, s.hidden)}]
PairFirst(s, row, p) == 2 * (row * (s.hidden \div 2) + p)
PackedElements(s, row) ==
  [t \in Threads |->
    UNION {{PairFirst(s, row, p), PairFirst(s, row, p) + 1} : p \in Stride(t, s.hidden \div 2)}]

\* The threads of a scalar kernel divide the row.
LEMMA ScalarDivides ==
  ASSUME NEW s, s.hidden \in Nat \ {0}, NEW row \in Nat
  PROVE  /\ \A t, u \in Threads :
              t # u => ScalarElements(s, row)[t] \cap ScalarElements(s, row)[u] = {}
         /\ UNION {ScalarElements(s, row)[t] : t \in Threads} = RowElements(s, row)
<1> PICK h, base : h = s.hidden /\ base = row * h
  OBVIOUS
<1>1. base \in Nat /\ h \in Nat
  BY SMT
<1>2. /\ \A t \in Threads : Stride(t, h) \subseteq 0 .. h - 1
      /\ \A t, u \in Threads : t # u => Stride(t, h) \cap Stride(u, h) = {}
      /\ \A i \in 0 .. h - 1 : \E t \in Threads : i \in Stride(t, h)
  BY <1>1, StridesDivide
<1> DEFINE E == [t \in Threads |-> {base + c : c \in Stride(t, h)}]
<1>3. ScalarElements(s, row) = E /\ RowElements(s, row) = {base + c : c \in 0 .. h - 1}
  BY DEF ScalarElements, RowElements
<1>4. ASSUME NEW t \in Threads, NEW u \in Threads, t # u PROVE E[t] \cap E[u] = {}
  <2>1. ASSUME NEW x \in E[t], x \in E[u] PROVE FALSE
    <3>1. PICK c \in Stride(t, h) : x = base + c
      OBVIOUS
    <3>2. PICK d \in Stride(u, h) : x = base + d
      BY <2>1
    <3>3. c \in 0 .. h - 1 /\ d \in 0 .. h - 1
      BY <1>2
    <3>4. c = d
      BY <1>1, <3>1, <3>2, <3>3
    <3> QED BY <1>2, <1>4, <3>4
  <2> HIDE DEF E
  <2> QED BY <2>1
<1>5. UNION {E[t] : t \in Threads} = {base + c : c \in 0 .. h - 1}
  <2>1. ASSUME NEW t \in Threads PROVE E[t] \subseteq {base + c : c \in 0 .. h - 1}
    BY <1>2
  <2>2. ASSUME NEW c \in 0 .. h - 1 PROVE \E t \in Threads : base + c \in E[t]
    BY <1>2
  <2> HIDE DEF E
  <2> QED BY <2>1, <2>2
<1> HIDE DEF E
<1> QED BY <1>3, <1>4, <1>5

\* An even number is twice its half, and its half counts the pairs below it.
LEMMA EvenHalf ==
  ASSUME NEW h \in Nat, h % 2 = 0
  PROVE  h \div 2 \in Nat /\ h = 2 * (h \div 2)
<1>1. h = 2 * (h \div 2) + (h % 2) /\ h \div 2 \in Nat
  BY Division
<1> QED BY <1>1

\* The elements of a row of 2 * k are those of its k pairs.
LEMMA PairsBelow ==
  ASSUME NEW k \in Nat
  PROVE  /\ \A p \in 0 .. k - 1 : 2 * p \in 0 .. 2 * k - 1 /\ 2 * p + 1 \in 0 .. 2 * k - 1
         /\ \A c \in 0 .. 2 * k - 1 :
              \E p \in 0 .. k - 1 : c = 2 * p \/ c = 2 * p + 1
<1>1. ASSUME NEW c \in 0 .. 2 * k - 1 PROVE \E p \in 0 .. k - 1 : c = 2 * p \/ c = 2 * p + 1
  <2>1. c \in Nat
    OBVIOUS
  <2>2. c = 2 * (c \div 2) + (c % 2) /\ c % 2 \in 0 .. 1 /\ c \div 2 \in Nat
    BY <2>1, Division
  <2> PICK p, q : p = c \div 2 /\ q = c % 2
    OBVIOUS
  <2>3. c = 2 * p + q /\ q \in 0 .. 1 /\ p \in Nat
    BY <2>2
  <2>4. p \in 0 .. k - 1 /\ (c = 2 * p \/ c = 2 * p + 1)
    BY <2>1, <2>3
  <2> QED BY <2>4
<1> QED BY <1>1

\* Even hidden sizes are pairs.
LEMMA PairIndex ==
  ASSUME NEW s, s.hidden \in Nat \ {0}, s.hidden % 2 = 0, NEW row \in Nat
  PROVE  /\ s.hidden \div 2 \in Nat /\ s.hidden = 2 * (s.hidden \div 2)
         /\ row * s.hidden \in Nat
         /\ \A p \in Nat : PairFirst(s, row, p) = row * s.hidden + 2 * p
<1> PICK k : k = s.hidden \div 2
  OBVIOUS
<1>1. k \in Nat /\ s.hidden = 2 * k
  <2> PICK h : h = s.hidden
    OBVIOUS
  <2>1. h \in Nat /\ h % 2 = 0
    OBVIOUS
  <2>2. h \div 2 \in Nat /\ h = 2 * (h \div 2)
    BY <2>1, EvenHalf
  <2> QED BY <2>2
<1>2. row * k \in Nat
  BY <1>1, SMT
<1>3. row * s.hidden = 2 * (row * k)
  BY <1>1, SMT
<1>4. ASSUME NEW p \in Nat PROVE PairFirst(s, row, p) = row * s.hidden + 2 * p
  <2>1. PairFirst(s, row, p) = 2 * (row * k + p)
    BY DEF PairFirst
  <2> PICK a : a = row * k
    OBVIOUS
  <2> QED BY <1>2, <1>3, <2>1
<1>5. row * s.hidden \in Nat
  BY <1>2, <1>3
<1>6. s.hidden \div 2 \in Nat /\ s.hidden = 2 * (s.hidden \div 2)
  BY <1>1
<1> HIDE DEF PairFirst
<1> QED BY <1>4, <1>5, <1>6

\* The threads of a pairwise kernel divide the row, if its size is even.
LEMMA PackedDivides ==
  ASSUME NEW s, s.hidden \in Nat \ {0}, s.hidden % 2 = 0, NEW row \in Nat
  PROVE  /\ \A t, u \in Threads :
              t # u => PackedElements(s, row)[t] \cap PackedElements(s, row)[u] = {}
         /\ UNION {PackedElements(s, row)[t] : t \in Threads} = RowElements(s, row)
<1> PICK h, k, base : h = s.hidden /\ k = h \div 2 /\ base = row * h
  OBVIOUS
<1>1. /\ k \in Nat /\ h \in Nat /\ h = 2 * k /\ base \in Nat
      /\ \A p \in Nat : PairFirst(s, row, p) = base + 2 * p
  BY PairIndex
<1>2. /\ \A t \in Threads : Stride(t, k) \subseteq 0 .. k - 1
      /\ \A t, u \in Threads : t # u => Stride(t, k) \cap Stride(u, k) = {}
      /\ \A i \in 0 .. k - 1 : \E t \in Threads : i \in Stride(t, k)
  BY <1>1, StridesDivide
<1> DEFINE E == [t \in Threads |-> UNION {{PairFirst(s, row, p), PairFirst(s, row, p) + 1} : p \in Stride(t, k)}]
           all == {base + c : c \in 0 .. h - 1}
<1>3. PackedElements(s, row) = E /\ RowElements(s, row) = all
  BY DEF PackedElements, RowElements
<1>4. ASSUME NEW t \in Threads, NEW x
      PROVE  x \in E[t] <=> \E p \in Stride(t, k) : x = base + 2 * p \/ x = base + 2 * p + 1
  <2>1. \A p \in Stride(t, k) : p \in Nat
    BY <1>1, <1>2
  <2>2. \A p \in Stride(t, k) : PairFirst(s, row, p) = base + 2 * p
    BY <1>1, <2>1
  <2> QED BY <2>2
<1> HIDE DEF E
<1>5. ASSUME NEW t \in Threads, NEW u \in Threads, t # u PROVE E[t] \cap E[u] = {}
  <2>1. ASSUME NEW x \in E[t], x \in E[u] PROVE FALSE
    <3>1. PICK p \in Stride(t, k) : x = base + 2 * p \/ x = base + 2 * p + 1
      BY <1>4
    <3>2. PICK q \in Stride(u, k) : x = base + 2 * q \/ x = base + 2 * q + 1
      BY <1>4, <2>1
    <3>3. p \in 0 .. k - 1 /\ q \in 0 .. k - 1
      BY <1>2
    <3>4. p \in Int /\ q \in Int /\ base \in Int
      BY <1>1, <3>3
    <3>5. p = q
      BY <3>1, <3>2, <3>4
    <3> QED BY <1>2, <1>5, <3>5
  <2> QED BY <2>1
<1>6. ASSUME NEW t \in Threads, NEW x \in E[t] PROVE x \in all
  <2>1. PICK p \in Stride(t, k) : x = base + 2 * p \/ x = base + 2 * p + 1
    BY <1>4
  <2>2. p \in 0 .. k - 1
    BY <1>2
  <2>3. 2 * p \in 0 .. h - 1 /\ 2 * p + 1 \in 0 .. h - 1
    BY <1>1, <2>2, PairsBelow
  <2>4. x = base + (2 * p) \/ x = base + (2 * p + 1)
    BY <1>1, <2>1, <2>3
  <2> QED BY <2>3, <2>4
<1>7. ASSUME NEW c \in 0 .. h - 1 PROVE \E t \in Threads : base + c \in E[t]
  <2>1. PICK p \in 0 .. k - 1 : c = 2 * p \/ c = 2 * p + 1
    <3>1. c \in 0 .. 2 * k - 1
      BY <1>1
    <3>2. \A e \in 0 .. 2 * k - 1 : \E p \in 0 .. k - 1 : e = 2 * p \/ e = 2 * p + 1
      BY <1>1, PairsBelow
    <3> QED BY <3>1, <3>2, Zenon
  <2>3. PICK t \in Threads : p \in Stride(t, k)
    BY <1>2, <2>1
  <2>4. base + c = base + 2 * p \/ base + c = base + 2 * p + 1
    BY <2>1
  <2> QED BY <1>4, <2>3, <2>4
<1>8. UNION {E[t] : t \in Threads} = all
  <2>1. \A x \in all : \E t \in Threads : x \in E[t]
    BY <1>7
  <2> HIDE DEF all
  <2> QED BY <1>6, <2>1, Zenon
<1> HIDE DEF all
<1> QED BY <1>3, <1>5, <1>8

\* What RMSNorm's CTA of a row does.
RmsEffect(s, row) ==
  [reads  |-> RowElements(s, row),
   writes |-> {RmsResult(s, row, c, SetToBag(RowElements(s, row))) : c \in 0 .. s.hidden - 1}]

\* What an RMSNorm call has.
LEMMA RmsJob ==
  ASSUME NEW j \in Jobs, j.family = "rms_norm", Accepted(j)
  PROVE  /\ j.s.rows \in Nat \ {0} /\ j.s.hidden \in Nat \ {0}
         /\ OutputRows(j) = 0 .. j.s.rows - 1 /\ OutputColumns(j) = 0 .. j.s.hidden - 1
         /\ ~HasMerge(j) /\ Grid(j) = j.s.rows /\ ~Attention(j)
<1>1. IsJob(j)
  BY KernelLaunchAssumption
<1>2. j.s.rows \in Nat /\ j.s.hidden \in Nat
  BY <1>1 DEF IsJob
<1>3. RmsAdmitted(j.s)
  BY DEF Accepted
<1>4. Algorithm(j) \in {"Packed2", "Scalar"}
  BY DEF Algorithm
<1>5. ~HasMerge(j) /\ Grid(j) = j.s.rows /\ ~Attention(j)
  BY <1>4 DEF HasMerge, Grid, Attention
<1>6. OutputRows(j) = 0 .. j.s.rows - 1 /\ OutputColumns(j) = 0 .. j.s.hidden - 1
  BY DEF OutputRows, OutputColumns
<1> QED BY <1>2, <1>3, <1>5, <1>6 DEF RmsAdmitted

\* Scalar or pairwise, it does that.
LEMMA RmsCta ==
  ASSUME NEW j \in Jobs, j.family = "rms_norm", Accepted(j), NEW row \in Nat
  PROVE  Cta(j, row) = RmsEffect(j.s, row)
<1>1. j.s.hidden \in Nat \ {0}
  BY RmsJob
<1>2. CASE RmsPacked(j.s)
  <2>1. j.s.hidden % 2 = 0
    BY <1>2 DEF RmsPacked
  <2> DEFINE E == PackedElements(j.s, row)
  <2>2. Cta(j, row) = RmsPacked2(j.s, row)
    BY <1>2 DEF Cta, Algorithm
  <2>3. PairFirst(j.s, row, 0) = row * j.s.hidden
    <3>1. PairFirst(j.s, row, 0) = row * j.s.hidden + 2 * 0 /\ row * j.s.hidden \in Nat
      BY <1>1, <2>1, PairIndex
    <3> PICK a : a = row * j.s.hidden
      OBVIOUS
    <3> QED BY <3>1
  <2>4. RmsPacked2(j.s, row) = RmsRow(j.s, row, row * j.s.hidden, E)
    BY <2>3 DEF RmsPacked2, PackedElements, PairFirst
  <2>5. E = [t \in Threads |-> E[t]]
    BY DEF PackedElements
  <2>6. /\ \A t, u \in Threads : t # u => E[t] \cap E[u] = {}
        /\ UNION {E[t] : t \in Threads} = RowElements(j.s, row)
    BY <1>1, <2>1, PackedDivides
  <2> HIDE DEF E
  <2> QED BY <1>1, <2>2, <2>4, <2>5, <2>6, RmsRowResult DEF RmsEffect
<1>3. CASE ~RmsPacked(j.s)
  <2> DEFINE E == ScalarElements(j.s, row)
  <2>2. Cta(j, row) = RmsScalar(j.s, row)
    BY <1>3 DEF Cta, Algorithm
  <2>4. RmsScalar(j.s, row) = RmsRow(j.s, row, row * j.s.hidden, E)
    BY DEF RmsScalar, ScalarElements
  <2>5. E = [t \in Threads |-> E[t]]
    BY DEF ScalarElements
  <2>6. /\ \A t, u \in Threads : t # u => E[t] \cap E[u] = {}
        /\ UNION {E[t] : t \in Threads} = RowElements(j.s, row)
    BY <1>1, ScalarDivides
  <2> HIDE DEF E
  <2> QED BY <1>1, <2>2, <2>4, <2>5, <2>6, RmsRowResult DEF RmsEffect
<1> QED BY <1>2, <1>3

\* It reads the input's elements.
LEMMA RmsReads ==
  ASSUME NEW j \in Jobs, j.family = "rms_norm", Accepted(j), NEW row \in OutputRows(j),
         NEW x \in RowElements(j.s, row)
  PROVE  Readable(j, x)
<1>1. j.s.rows \in Nat \ {0} /\ j.s.hidden \in Nat \ {0} /\ row \in 0 .. j.s.rows - 1
  BY RmsJob
<1>2. PICK c \in 0 .. j.s.hidden - 1 : x = row * j.s.hidden + c
  BY DEF RowElements
<1>3. x \in 0 .. j.s.rows * j.s.hidden - 1
  BY <1>1, <1>2, GridCta
<1> QED BY <1>3 DEF Readable
-----------------------------------------------------------------------------
(* RoPE *)

\* The token, the tensor and the head of a CTA.
StateToken(s, b) == b \div (s.queryHeads + s.keyHeads)
StateColumn(s, b) == b % (s.queryHeads + s.keyHeads)
StateTensor(s, b) == IF StateColumn(s, b) < s.queryHeads THEN "query" ELSE "key"
StateHead(s, b) ==
  IF StateColumn(s, b) < s.queryHeads THEN StateColumn(s, b) ELSE StateColumn(s, b) - s.queryHeads

\* Components come in pairs half a head apart.
LEMMA Halves ==
  /\ HeadDim \in Nat \ {0} /\ Half \in Nat /\ HeadDim = 2 * Half
  /\ \A pair \in 0 .. Half - 1, half \in {0, 1} : half * Half + pair \in 0 .. HeadDim - 1
<1>1. HeadDim \in Nat \ {0} /\ HeadDim % 2 = 0
  BY RowKernelsAssumption
<1>2. Half \in Nat /\ HeadDim = 2 * Half
  BY <1>1, EvenHalf DEF Half
<1>3. ASSUME NEW pair \in 0 .. Half - 1, NEW half \in {0, 1}
      PROVE  half * Half + pair \in 0 .. HeadDim - 1
  <2>1. CASE half = 0
    <3>1. half * Half + pair = pair
      BY <1>2, <2>1
    <3> QED BY <1>2, <3>1
  <2>2. CASE half = 1
    <3>1. half * Half + pair = Half + pair
      BY <1>2, <2>2
    <3> QED BY <1>2, <3>1
  <2> QED BY <2>1, <2>2
<1> QED BY <1>1, <1>2, <1>3

\* The flat index of a component.
FlatIndex(token, h, head, d, o) == (token * h + head) * d + o

\* A component is found again from its flat index.
LEMMA FlatIndexFound ==
  ASSUME NEW h \in Nat \ {0}, NEW d \in Nat \ {0}, NEW token \in Nat, NEW head \in 0 .. h - 1,
         NEW o \in 0 .. d - 1
  PROVE  /\ FlatIndex(token, h, head, d, o) \div (h * d) = token
         /\ (FlatIndex(token, h, head, d, o) \div d) % h = head
         /\ FlatIndex(token, h, head, d, o) % d = o
<1> PICK i : i = (token * h + head) * d + o
  OBVIOUS
<1>0. i = FlatIndex(token, h, head, d, o)
  BY DEF FlatIndex
<1>1. token * h + head \in Nat
  <2>1. token * h \in Nat
    BY SMT
  <2> PICK a : a = token * h
    OBVIOUS
  <2> QED BY <2>1
<1>2. i \div d = token * h + head /\ i % d = o
  BY <1>1, LastPosition
<1>3. (token * h + head) % h = head
  BY LastPosition
<1>4. head * d + o \in 0 .. h * d - 1
  BY GridCta
<1>5. h * d \in Nat \ {0}
  <2>1. h * d \in Nat
    BY SMT
  <2>2. head * d + o \in Nat
    <3>1. head * d \in Nat
      BY SMT
    <3> QED BY <3>1
  <2> PICK a, b : a = h * d /\ b = head * d + o
    OBVIOUS
  <2> QED BY <1>4, <2>1, <2>2
<1>6. i = token * (h * d) + (head * d + o)
  BY SMT
<1>7. (token * (h * d) + (head * d + o)) \div (h * d) = token
  BY <1>4, <1>5, LastPosition
<1> QED BY <1>0, <1>2, <1>3, <1>6, <1>7

\* The flat index of a head's first component, and a pair's two components.
HeadBase(s, token, tensor, head) == (token * RopeHeads(s, tensor) + head) * HeadDim
PairWrites(s, m, token, tensor, head, pair) ==
  {Write(Output(token, <<tensor, head, half * Half + pair>>),
         Rotated(m[token], pair, HeadBase(s, token, tensor, head) + pair,
                 HeadBase(s, token, tensor, head) + Half + pair, half)) : half \in {0, 1}}

\* A pair's two components, by index, are the reference's, by name.
LEMMA RotatedPair ==
  ASSUME NEW s, NEW m, NEW tensor, RopeHeads(s, tensor) \in Nat \ {0}, NEW token \in Nat,
         NEW head \in 0 .. RopeHeads(s, tensor) - 1, NEW pair \in 0 .. Half - 1
  PROVE  RotatePair(s, tensor, HeadBase(s, token, tensor, head), pair, m[token])
           = PairWrites(s, m, token, tensor, head, pair)
<1> DEFINE h == RopeHeads(s, tensor)
           base == (token * h + head) * HeadDim
           place(i) == Output(i \div (h * HeadDim), <<tensor, (i \div HeadDim) % h, i % HeadDim>>)
           value(half) == Rotated(m[token], pair, base + pair, base + Half + pair, half)
<1>1. RotatePair(s, tensor, base, pair, m[token])
        = {Write(place(base + half * Half + pair), value(half)) : half \in {0, 1}}
  BY DEF RotatePair
<1>2. ASSUME NEW half \in {0, 1}
      PROVE  place(base + half * Half + pair) = Output(token, <<tensor, head, half * Half + pair>>)
  <2> DEFINE o == half * Half + pair
             i == FlatIndex(token, h, head, HeadDim, o)
  <2>1. o \in 0 .. HeadDim - 1 /\ HeadDim \in Nat \ {0} /\ Half \in Nat
    BY Halves
  <2>2. i \div (h * HeadDim) = token /\ (i \div HeadDim) % h = head /\ i % HeadDim = o
    <3> HIDE DEF o, h
    <3> QED BY <2>1, FlatIndexFound DEF h
  <2>3. base + half * Half + pair = i
    <3>1. base \in Int
      <4>1. token * h + head \in Int
        BY SMT
      <4> QED BY <2>1, <4>1, SMT
    <3>2. half * Half \in Int
      BY <2>1, SMT
    <3>3. i = base + (half * Half + pair)
      BY DEF FlatIndex
    <3> HIDE DEF base, i
    <3> PICK a : a = half * Half
      OBVIOUS
    <3> QED BY <3>1, <3>2, <3>3
  <2> HIDE DEF base, h, i
  <2> QED BY <2>2, <2>3
<1> HIDE DEF place, value, base
<1>3. {Write(place(base + half * Half + pair), value(half)) : half \in {0, 1}}
        = {Write(Output(token, <<tensor, head, half * Half + pair>>), value(half)) : half \in {0, 1}}
  BY <1>2
<1>4. base = HeadBase(s, token, tensor, head)
  BY DEF base, HeadBase
<1>5. PairWrites(s, m, token, tensor, head, pair)
        = {Write(Output(token, <<tensor, head, half * Half + pair>>), value(half)) : half \in {0, 1}}
  BY <1>4 DEF PairWrites, value
<1> QED BY <1>1, <1>3, <1>4, <1>5

\* So a head's pairs make up its rotation.
LEMMA RotatedPairs ==
  ASSUME NEW s, NEW m, NEW tensor, RopeHeads(s, tensor) \in Nat \ {0}, NEW token \in Nat,
         NEW head \in 0 .. RopeHeads(s, tensor) - 1
  PROVE  UNION {RotatePair(s, tensor, HeadBase(s, token, tensor, head), pair, m[token]) :
                  pair \in 0 .. Half - 1}
           = RotatedHead(s, m, token, tensor, head)
<1> DEFINE base == HeadBase(s, token, tensor, head)
           write(pair, half) ==
             Write(Output(token, <<tensor, head, half * Half + pair>>),
                   Rotated(m[token], pair, base + pair, base + Half + pair, half))
<1>1. \A pair \in 0 .. Half - 1 :
        RotatePair(s, tensor, base, pair, m[token]) = PairWrites(s, m, token, tensor, head, pair)
  BY RotatedPair
<1>2. RotatedHead(s, m, token, tensor, head)
        = {write(pair, half) : pair \in 0 .. Half - 1, half \in {0, 1}}
  BY DEF RotatedHead, HeadBase
<1>3. \A pair \in 0 .. Half - 1 :
        PairWrites(s, m, token, tensor, head, pair) = {write(pair, half) : half \in {0, 1}}
  BY DEF PairWrites
<1> HIDE DEF write, base
<1>4. UNION {{write(pair, half) : half \in {0, 1}} : pair \in 0 .. Half - 1}
        = {write(pair, half) : pair \in 0 .. Half - 1, half \in {0, 1}}
  OBVIOUS
<1>5. UNION {RotatePair(s, tensor, base, pair, m[token]) : pair \in 0 .. Half - 1}
        = UNION {{write(pair, half) : half \in {0, 1}} : pair \in 0 .. Half - 1}
  BY <1>1, <1>3
<1> QED BY <1>2, <1>4, <1>5 DEF base
\* What a RoPE call has.
LEMMA RopeJob ==
  ASSUME NEW j \in Jobs, j.family = "rope", Accepted(j)
  PROVE  /\ j.s.tokens \in Nat \ {0} /\ j.s.queryHeads \in Nat \ {0} /\ j.s.keyHeads \in Nat \ {0}
         /\ j.m \in [0 .. j.s.tokens - 1 -> Int] /\ OutputRows(j) = 0 .. j.s.tokens - 1
         /\ ~HasMerge(j) /\ Grid(j) = RopeStates(j.s) /\ ~Attention(j)
         /\ \A tensor : RopeHeads(j.s, tensor) \in Nat \ {0}
<1>1. IsJob(j)
  BY KernelLaunchAssumption
<1>2. /\ j.s.tokens \in Nat /\ j.s.queryHeads \in Nat /\ j.s.keyHeads \in Nat
      /\ j.m \in [0 .. j.s.tokens - 1 -> Int]
  BY <1>1 DEF IsJob
<1>3. j.s.tokens > 0 /\ j.s.queryHeads > 0 /\ j.s.keyHeads > 0
  BY DEF Accepted, RopeAdmitted
<1>4. Algorithm(j) = "rope"
  BY DEF Algorithm
<1>5. ~HasMerge(j) /\ Grid(j) = RopeStates(j.s) /\ ~Attention(j) /\ OutputRows(j) = 0 .. j.s.tokens - 1
  BY <1>4 DEF HasMerge, Grid, Attention, OutputRows
<1>6. \A tensor : RopeHeads(j.s, tensor) \in Nat \ {0}
  BY <1>2, <1>3 DEF RopeHeads
<1> QED BY <1>2, <1>3, <1>5, <1>6

\* A CTA's token, tensor and head, and what it does with them.
RopeEffect(s, m, token, tensor, head) ==
  IF m[token] < 0 THEN NoEffect
  ELSE [reads  |-> {<<tensor, HeadBase(s, token, tensor, head) + i>> : i \in 0 .. HeadDim - 1},
        writes |-> RotatedHead(s, m, token, tensor, head)]

\* That is what a CTA of the RoPE kernel does, within the bounds of its state.
LEMMA RopeCta ==
  ASSUME NEW j \in Jobs, j.family = "rope", Accepted(j), NEW b \in 0 .. Grid(j) - 1
  PROVE  /\ b \in Nat /\ StateToken(j.s, b) \in 0 .. j.s.tokens - 1 /\ StateTensor(j.s, b) \in {"query", "key"}
         /\ StateHead(j.s, b) \in 0 .. RopeHeads(j.s, StateTensor(j.s, b)) - 1
         /\ Cta(j, b) = RopeEffect(j.s, j.m, StateToken(j.s, b), StateTensor(j.s, b), StateHead(j.s, b))
<1> DEFINE q == j.s.queryHeads
           k == j.s.keyHeads
           token == StateToken(j.s, b)
           tensor == StateTensor(j.s, b)
           head == StateHead(j.s, b)
           column == StateColumn(j.s, b)
<1>1. /\ j.s.tokens \in Nat \ {0} /\ q \in Nat \ {0} /\ k \in Nat \ {0}
      /\ \A x : RopeHeads(j.s, x) \in Nat \ {0}
      /\ Grid(j) = j.s.tokens * (q + k)
  BY RopeJob DEF RopeStates
<1>2. token \in 0 .. j.s.tokens - 1 /\ column \in 0 .. (q + k) - 1
  <2>1. q + k \in Nat \ {0}
    BY <1>1
  <2> DEFINE n == q + k
  <2>2. b \in 0 .. j.s.tokens * n - 1 /\ n \in Nat \ {0} /\ j.s.tokens \in Nat
    BY <1>1, <2>1
  <2>3. b \div n \in 0 .. j.s.tokens - 1 /\ b % n \in 0 .. n - 1
    <3> HIDE DEF n
    <3> QED BY <2>2, GridIndex
  <2>4. token = b \div n /\ column = b % n
    BY DEF StateToken, StateColumn
  <2> HIDE DEF token, column, n
  <2>5. token \in 0 .. j.s.tokens - 1 /\ column \in 0 .. n - 1
    BY <2>3, <2>4
  <2>6. token \in 0 .. j.s.tokens - 1 /\ column \in 0 .. (q + k) - 1
    BY <2>5, Zenon DEF n
  <2> QED BY <2>6
<1>3. b \in Nat
  <2>1. q + k \in Nat
    BY <1>1
  <2>2. j.s.tokens * (q + k) \in Int
    BY <1>1, <2>1, SMT
  <2> QED BY <1>1, <2>2
<1>4. tensor \in {"query", "key"} /\ head \in 0 .. RopeHeads(j.s, tensor) - 1
  <2>1. CASE column < q
    <3>1. tensor = "query" /\ head = column
      BY <2>1 DEF StateTensor, StateHead
    <3>2. RopeHeads(j.s, tensor) = q
      BY <3>1 DEF RopeHeads
    <3> HIDE DEF tensor, head, column, q
    <3> QED BY <1>1, <1>2, <2>1, <3>1, <3>2
  <2>2. CASE ~(column < q)
    <3>1. tensor = "key" /\ head = column - q
      BY <2>2 DEF StateTensor, StateHead
    <3>2. RopeHeads(j.s, tensor) = k
      BY <3>1 DEF RopeHeads
    <3> HIDE DEF tensor, head, column, q, k
    <3> QED BY <1>1, <1>2, <2>2, <3>1, <3>2
  <2> QED BY <2>1, <2>2
<1>5. Cta(j, b) = RopeState(j.s, j.m, b)
  BY DEF Cta
<1>6. RopeState(j.s, j.m, b)
        = IF j.m[token] < 0 THEN NoEffect
          ELSE [reads  |-> {<<tensor, HeadBase(j.s, token, tensor, head) + i>> : i \in 0 .. HeadDim - 1},
                writes |-> UNION {RotatePair(j.s, tensor, HeadBase(j.s, token, tensor, head), pair, j.m[token]) :
                                    pair \in 0 .. Half - 1}]
  BY DEF RopeState, HeadBase, StateToken, StateTensor, StateHead, StateColumn
<1>7. UNION {RotatePair(j.s, tensor, HeadBase(j.s, token, tensor, head), pair, j.m[token]) :
               pair \in 0 .. Half - 1}
        = RotatedHead(j.s, j.m, token, tensor, head)
  <2>1. token \in Nat /\ RopeHeads(j.s, tensor) \in Nat \ {0}
    BY <1>1, <1>2
  <2> HIDE DEF token, tensor, head
  <2> QED BY <1>4, <2>1, RotatedPairs
<1> HIDE DEF token, tensor, head
<1>8. Cta(j, b) = RopeEffect(j.s, j.m, token, tensor, head)
  BY <1>5, <1>6, <1>7 DEF RopeEffect
<1> QED BY <1>2, <1>3, <1>4, <1>8 DEF token, tensor, head

\* It reads its head's components.
LEMMA RopeReads ==
  ASSUME NEW j \in Jobs, j.family = "rope", Accepted(j), NEW b \in 0 .. Grid(j) - 1,
         NEW x \in Cta(j, b).reads
  PROVE  Readable(j, x)
<1> DEFINE token == StateToken(j.s, b)
           tensor == StateTensor(j.s, b)
           head == StateHead(j.s, b)
           h == RopeHeads(j.s, tensor)
<1>1. /\ j.s.tokens \in Nat /\ h \in Nat \ {0} /\ token \in 0 .. j.s.tokens - 1
      /\ head \in 0 .. h - 1 /\ Cta(j, b) = RopeEffect(j.s, j.m, token, tensor, head)
  BY RopeJob, RopeCta
<1>2. PICK i \in 0 .. HeadDim - 1 : x = <<tensor, HeadBase(j.s, token, tensor, head) + i>>
  <2> HIDE DEF token, tensor, head
  <2> QED BY <1>1 DEF RopeEffect, NoEffect
<1>3. token * h + head \in 0 .. j.s.tokens * h - 1
  <2> HIDE DEF token, head, h
  <2> QED BY <1>1, GridCta
<1>4. (token * h + head) * HeadDim + i \in 0 .. (j.s.tokens * h) * HeadDim - 1
  <2>1. j.s.tokens * h \in Nat /\ HeadDim \in Nat \ {0}
    BY <1>1, Halves, SMT
  <2> HIDE DEF token, head, h
  <2> QED BY <1>3, <2>1, GridCta
<1>5. x[1] = tensor /\ x[2] = (token * h + head) * HeadDim + i
  BY <1>2 DEF HeadBase
<1> HIDE DEF token, head, tensor
<1> QED BY <1>4, <1>5 DEF Readable

\* What is written of a head.
LEMMA HeadWrites ==
  ASSUME NEW s, NEW m, NEW token, NEW tensor, NEW head, NEW w \in RotatedHead(s, m, token, tensor, head)
  PROVE  \E o \in 0 .. HeadDim - 1 : w.at = Output(token, <<tensor, head, o>>)
<1>1. PICK pair \in 0 .. Half - 1, half \in {0, 1} :
        w = Write(Output(token, <<tensor, head, half * Half + pair>>),
                  Rotated(m[token], pair, (token * RopeHeads(s, tensor) + head) * HeadDim + pair,
                          (token * RopeHeads(s, tensor) + head) * HeadDim + Half + pair, half))
  BY DEF RotatedHead
<1>2. half * Half + pair \in 0 .. HeadDim - 1
  BY Halves
<1>3. w.at = Output(token, <<tensor, head, half * Half + pair>>)
  BY <1>1 DEF Write
<1> QED BY <1>2, <1>3

\* A CTA writes its own head of the output.
LEMMA RopeWrites ==
  ASSUME NEW j \in Jobs, j.family = "rope", Accepted(j), NEW b \in 0 .. Grid(j) - 1,
         NEW w \in Cta(j, b).writes
  PROVE  \E o \in 0 .. HeadDim - 1 :
           w.at = Output(StateToken(j.s, b), <<StateTensor(j.s, b), StateHead(j.s, b), o>>)
<1> DEFINE token == StateToken(j.s, b)
           tensor == StateTensor(j.s, b)
           head == StateHead(j.s, b)
<1>1. Cta(j, b) = RopeEffect(j.s, j.m, token, tensor, head)
  BY RopeCta
<1>2. w \in RotatedHead(j.s, j.m, token, tensor, head)
  <2> HIDE DEF token, tensor, head
  <2> QED BY <1>1 DEF RopeEffect, NoEffect
<1> QED BY <1>2, HeadWrites

\* The token, tensor and head of a CTA tell it from the others.
LEMMA RopeApart ==
  ASSUME NEW s, s.queryHeads \in Nat \ {0}, s.keyHeads \in Nat \ {0}, NEW b \in Nat, NEW c \in Nat,
         StateToken(s, b) = StateToken(s, c), StateTensor(s, b) = StateTensor(s, c),
         StateHead(s, b) = StateHead(s, c)
  PROVE  b = c
<1> PICK q, n : q = s.queryHeads /\ n = q + s.keyHeads
  OBVIOUS
<1>1. q \in Nat \ {0} /\ n \in Nat \ {0}
  OBVIOUS
<1>2. b % n \in 0 .. n - 1 /\ c % n \in 0 .. n - 1
  BY <1>1, Division
<1> PICK x, y : x = b % n /\ y = c % n
  OBVIOUS
<1>3. /\ StateTensor(s, b) = (IF x < q THEN "query" ELSE "key")
      /\ StateHead(s, b) = (IF x < q THEN x ELSE x - q)
      /\ StateTensor(s, c) = (IF y < q THEN "query" ELSE "key")
      /\ StateHead(s, c) = (IF y < q THEN y ELSE y - q)
  BY DEF StateTensor, StateHead, StateColumn
<1>4. x = y
  <2>1. x < q <=> y < q
    BY <1>3
  <2>2. CASE x < q
    BY <1>3, <2>1, <2>2
  <2>3. CASE ~(x < q)
    <3>1. x - q = y - q
      BY <1>3, <2>1, <2>3
    <3> QED BY <1>1, <1>2, <3>1
  <2> QED BY <2>2, <2>3
<1>5. b \div n = c \div n
  BY DEF StateToken
<1> QED BY <1>1, <1>4, <1>5, GridApart

\* Every head of every token has a CTA.
LEMMA RopeFound ==
  ASSUME NEW j \in Jobs, j.family = "rope", Accepted(j), NEW token \in 0 .. j.s.tokens - 1,
         NEW tensor \in {"query", "key"}, NEW head \in 0 .. RopeHeads(j.s, tensor) - 1
  PROVE  \E b \in 0 .. Grid(j) - 1 :
           StateToken(j.s, b) = token /\ StateTensor(j.s, b) = tensor /\ StateHead(j.s, b) = head
<1> DEFINE q == j.s.queryHeads
           k == j.s.keyHeads
           n == q + k
<1>1. q \in Nat \ {0} /\ k \in Nat \ {0} /\ j.s.tokens \in Nat /\ n \in Nat \ {0} /\ Grid(j) = j.s.tokens * n
  BY RopeJob, SMTT(30) DEF RopeStates
<1> DEFINE column == IF tensor = "query" THEN head ELSE head + q
<1>2. /\ column \in 0 .. n - 1 /\ (column < q <=> tensor = "query")
      /\ head = IF column < q THEN column ELSE column - q
  <2>1. CASE tensor = "query"
    <3>1. head \in 0 .. q - 1 /\ column = head
      BY <2>1 DEF RopeHeads
    <3> HIDE DEF column, q, k
    <3> QED BY <1>1, <2>1, <3>1 DEF n
  <2>2. CASE tensor # "query"
    <3>1. head \in 0 .. k - 1 /\ column = head + q
      BY <2>2 DEF RopeHeads
    <3> HIDE DEF column, q, k
    <3> QED BY <1>1, <2>2, <3>1 DEF n
  <2> QED BY <2>1, <2>2
<1> DEFINE b == token * n + column
<1> HIDE DEF column
<1>3. b \in 0 .. j.s.tokens * n - 1 /\ b \div n = token /\ b % n = column
  <2>1. n \in Nat \ {0} /\ j.s.tokens \in Nat /\ column \in 0 .. n - 1
    BY <1>1, <1>2
  <2> HIDE DEF n, q, k, b
  <2>2. /\ token * n + column \in 0 .. j.s.tokens * n - 1
        /\ (token * n + column) \div n = token /\ (token * n + column) % n = column
    BY <2>1, GridCta
  <2> QED BY <2>2 DEF b
<1> HIDE DEF b
<1>4. StateToken(j.s, b) = token /\ StateColumn(j.s, b) = column
  BY <1>3 DEF StateToken, StateColumn
<1>5. StateTensor(j.s, b) = tensor /\ StateHead(j.s, b) = head
  BY <1>2, <1>4 DEF StateTensor, StateHead
<1> QED BY <1>1, <1>3, <1>4, <1>5

\* RoPE completes the tokens whose own position is sound.
LEMMA RopeOutput ==
  ASSUME NEW j \in Jobs, j.family = "rope", Accepted(j)
  PROVE  Writes(Effects(j)) = RopeReference(j.s, j.m, {i \in OutputRows(j) : j.m[i] >= 0})
<1> DEFINE rows == {i \in OutputRows(j) : j.m[i] >= 0}
<1>1. OutputRows(j) = 0 .. j.s.tokens - 1 /\ j.m \in [0 .. j.s.tokens - 1 -> Int]
  BY RopeJob
<1>0. ASSUME NEW i \in OutputRows(j) PROVE i \in rows <=> ~(j.m[i] < 0)
  <2>1. j.m[i] \in Int
    BY <1>1
  <2> QED BY <2>1
<1>2. \A w : w \in RopeReference(j.s, j.m, rows)
               <=> \E token \in rows, tensor \in {"query", "key"} :
                     \E head \in 0 .. RopeHeads(j.s, tensor) - 1 : w \in RotatedHead(j.s, j.m, token, tensor, head)
  <2> DEFINE heads(token, tensor) ==
               UNION {RotatedHead(j.s, j.m, token, tensor, head) : head \in 0 .. RopeHeads(j.s, tensor) - 1}
  <2> HIDE DEF rows
  <2>1. RopeReference(j.s, j.m, rows) = UNION {heads(token, tensor) : token \in rows, tensor \in {"query", "key"}}
    BY DEF RopeReference
  <2>2. ASSUME NEW w
        PROVE  w \in RopeReference(j.s, j.m, rows)
                 <=> \E token \in rows, tensor \in {"query", "key"} :
                       \E head \in 0 .. RopeHeads(j.s, tensor) - 1 : w \in RotatedHead(j.s, j.m, token, tensor, head)
    <3>1. \A token, tensor : w \in heads(token, tensor) <=>
            \E head \in 0 .. RopeHeads(j.s, tensor) - 1 : w \in RotatedHead(j.s, j.m, token, tensor, head)
      OBVIOUS
    <3> HIDE DEF heads
    <3>2. w \in UNION {heads(token, tensor) : token \in rows, tensor \in {"query", "key"}}
                   <=> \E token \in rows, tensor \in {"query", "key"} : w \in heads(token, tensor)
      BY SMT
    <3> QED BY <2>1, <3>1, <3>2
  <2> QED BY <2>2
<1>3. \A w : w \in Writes(Effects(j)) <=> \E b \in 0 .. Grid(j) - 1 : w \in Cta(j, b).writes
  BY Zenon DEF Writes, Effects
<1>4. ASSUME NEW b \in 0 .. Grid(j) - 1, NEW w \in Cta(j, b).writes
      PROVE  w \in RopeReference(j.s, j.m, rows)
  <2> DEFINE token == StateToken(j.s, b)
             tensor == StateTensor(j.s, b)
             head == StateHead(j.s, b)
  <2>1. /\ token \in 0 .. j.s.tokens - 1 /\ tensor \in {"query", "key"}
        /\ head \in 0 .. RopeHeads(j.s, tensor) - 1
        /\ Cta(j, b) = RopeEffect(j.s, j.m, token, tensor, head)
    BY RopeCta
  <2> HIDE DEF token, tensor, head
  <2>2. ~(j.m[token] < 0) /\ w \in RotatedHead(j.s, j.m, token, tensor, head)
    BY <2>1 DEF RopeEffect, NoEffect
  <2>3. token \in rows
    BY <1>0, <1>1, <2>1, <2>2
  <2> HIDE DEF rows
  <2> QED BY <1>2, <2>1, <2>2, <2>3
<1>5. ASSUME NEW token \in rows, NEW tensor \in {"query", "key"}, NEW head \in 0 .. RopeHeads(j.s, tensor) - 1,
             NEW w \in RotatedHead(j.s, j.m, token, tensor, head)
      PROVE  \E b \in 0 .. Grid(j) - 1 : w \in Cta(j, b).writes
  <2>1. token \in 0 .. j.s.tokens - 1 /\ ~(j.m[token] < 0)
    <3>1. token \in OutputRows(j)
      OBVIOUS
    <3> QED BY <1>0, <1>1, <3>1
  <2>2. PICK b \in 0 .. Grid(j) - 1 :
          StateToken(j.s, b) = token /\ StateTensor(j.s, b) = tensor /\ StateHead(j.s, b) = head
    BY <2>1, RopeFound
  <2>3. Cta(j, b) = RopeEffect(j.s, j.m, token, tensor, head)
    BY <2>2, RopeCta
  <2>4. Cta(j, b).writes = RotatedHead(j.s, j.m, token, tensor, head)
    BY <2>1, <2>3 DEF RopeEffect
  <2> QED BY <2>4
<1> HIDE DEF rows
<1>6. \A w : w \in Writes(Effects(j)) <=> w \in RopeReference(j.s, j.m, rows)
  BY <1>2, <1>3, <1>4, <1>5
<1>7. Writes(Effects(j)) = RopeReference(j.s, j.m, rows)
  BY <1>6, Zenon
<1> QED BY <1>7 DEF rows
-----------------------------------------------------------------------------
(* The guards *)

\* An attention kernel without a merge writes a row only as a reference of a
\* request that holds it has it.
LEMMA AttendsSoundly ==
  ASSUME NEW j \in Jobs, Attention(j), Accepted(j), ~HasMerge(j), NEW w \in Writes(Effects(j))
  PROVE  \E r \in JobRequests(j) : Holds(j, r, w.at[2]) /\ w = Exact(j, r, w.at[2], w.at[3])
<1>1. PICK b \in 0 .. Grid(j) - 1 : w \in Cta(j, b).writes
  BY Zenon DEF Writes, Effects
<1> DEFINE row == b \div j.s.queryHeads
           head == b % j.s.queryHeads
<1>2. /\ w.at = Output(row, head)
      /\ \E r \in JobRequests(j) : Holds(j, r, row) /\ w = Exact(j, r, row, head)
  BY <1>1, StateWrites
<1> HIDE DEF row, head
<1>3. w.at[2] = row /\ w.at[3] = head
  BY <1>2 DEF Output
<1> QED BY <1>2, <1>3

\* Batch decode completes the requests whose own table entries are sound.
LEMMA DecodeCompletes ==
  ASSUME NEW j \in Jobs, j.family = "paged_decode", Accepted(j), TableEndpoints(j.m.table),
         NEW r \in JobRequests(j), NEW head \in OutputColumns(j), ~RequestInvalid(j.m.table, r),
         GoodPages(j.m.table, r) = PageCount(j.m.table, r)
  PROVE  Exact(j, r, r, head) \in Writes(Effects(j))
<1> DEFINE H == j.s.queryHeads
           b == r * H + head
<1>1. Attention(j)
  BY DEF Attention
<1>2. /\ H \in Nat \ {0} /\ head \in 0 .. H - 1 /\ j.s.nnzQo \in Nat /\ j.s.nnzQo = j.s.batch
      /\ r \in 0 .. j.s.nnzQo - 1
  BY <1>1, AttentionJob, PagedJob DEF JobRequests
<1>3. Algorithm(j) \in {"Direct", "TokenParallel8"}
  BY <1>1, Algorithms
<1>4. Grid(j) = j.s.nnzQo * H
  BY <1>3 DEF Grid, States
<1>5. b \in 0 .. j.s.nnzQo * H - 1 /\ b \div H = r /\ b % H = head
  <2> HIDE DEF b, H
  <2>1. r * H + head \in 0 .. j.s.nnzQo * H - 1 /\ (r * H + head) \div H = r /\ (r * H + head) % H = head
    BY <1>2, GridCta, SMTT(30)
  <2> QED BY <2>1 DEF b
<1> HIDE DEF b
<1>6. Cta(j, b) = IF Algorithm(j) = "Direct" THEN DecodeDirect(j.s, j.m, r, head)
                  ELSE DecodeTokenParallel(j.s, j.m, r, head)
  BY <1>5 DEF Cta
<1>7. DecodeAccepts(j.m.table, r)
  BY DEF DecodeAccepts
<1>8. Sound(j, r, head, Cta(j, b)) /\ Cta(j, b).writes # {}
  BY <1>2, <1>6, <1>7, DecodeCta
<1>9. PICK w \in Cta(j, b).writes : \E q \in JobRequests(j) : Holds(j, q, r) /\ w = Exact(j, q, r, head)
  BY <1>8 DEF Sound
<1>10. w = Exact(j, r, r, head)
  BY <1>9 DEF Holds
<1>11. b \in 0 .. Grid(j) - 1
  BY <1>4, <1>5
<1>12. w \in Writes(Effects(j))
  BY <1>9, <1>11, Zenon DEF Writes, Effects
<1> QED BY <1>10, <1>12

\* At the end of a call without a merge the guards have been local.
LEMMA GuardsAtRest ==
  ASSUME Inductive
  PROVE  GuardsAreLocal
<1> SUFFICES ASSUME pc = "done", ~HasMerge(job)
             PROVE  /\ Attention(job) =>
                         \A w \in output :
                           \E r \in JobRequests(job) : /\ Holds(job, r, w.at[2])
                                                   /\ w = Exact(job, r, w.at[2], w.at[3])
                    /\ job.family = "paged_decode" /\ TableEndpoints(job.m.table) =>
                         \A r \in JobRequests(job), head \in OutputColumns(job) :
                           /\ ~RequestInvalid(job.m.table, r)
                           /\ GoodPages(job.m.table, r) = PageCount(job.m.table, r)
                           => Exact(job, r, r, head) \in output
                    /\ job.family = "rope" =>
                         output = RopeReference(job.s, job.m, {i \in OutputRows(job) : job.m[i] >= 0})
  BY DEF GuardsAreLocal
<1>1. job \in Jobs /\ Accepted(job) /\ output = Writes(Effects(job))
  BY DEF Inductive
<1>2. ASSUME Attention(job), NEW w \in output
      PROVE  \E r \in JobRequests(job) : Holds(job, r, w.at[2]) /\ w = Exact(job, r, w.at[2], w.at[3])
  BY <1>1, <1>2, AttendsSoundly
<1>3. ASSUME job.family = "paged_decode", TableEndpoints(job.m.table),
             NEW r \in JobRequests(job), NEW head \in OutputColumns(job), ~RequestInvalid(job.m.table, r),
             GoodPages(job.m.table, r) = PageCount(job.m.table, r)
      PROVE  Exact(job, r, r, head) \in output
  BY <1>1, <1>3, DecodeCompletes
<1>4. ASSUME job.family = "rope"
      PROVE  output = RopeReference(job.s, job.m, {i \in OutputRows(job) : job.m[i] >= 0})
  BY <1>1, <1>4, RopeOutput
<1> QED BY <1>2, <1>3, <1>4

\* Whatever the metadata, an attention kernel that reads it before it writes
\* the output writes a row only as the reference of a request that holds it,
\* batch decode completes every request whose own entries are sound, and RoPE
\* every token whose own position is.
THEOREM GuardsStayLocal == Spec => []GuardsAreLocal
<1>1. Inductive => GuardsAreLocal
  BY GuardsAtRest
<1> QED BY <1>1, InductiveInvariant, PTL
-----------------------------------------------------------------------------
(* The places that are written *)

\* The CTAs of a kernel write places of their own.
Apart(f) ==
  \A b, c \in DOMAIN f : \A v \in f[b].writes, w \in f[c].writes : v.at = w.at => b = c

\* They read what may be read, and write the output or the workspace.
Inside(j, f) ==
  \A b \in DOMAIN f :
    /\ \A x \in f[b].reads : Readable(j, x)
    /\ \A w \in f[b].writes :
         \/ \E row \in OutputRows(j), column \in OutputColumns(j) : w.at = Output(row, column)
         \/ w.at \in Places(j)

\* A place of the output tells the CTA of a row and a column.
LEMMA OutputApart ==
  ASSUME NEW n \in Nat \ {0}, NEW b \in Nat, NEW c \in Nat,
         Output(b \div n, b % n) = Output(c \div n, c % n)
  PROVE  b = c
<1>1. b \div n = c \div n /\ b % n = c % n
  BY DEF Output
<1> QED BY <1>1, GridApart

\* An attention kernel without a merge writes an element of the output per CTA.
LEMMA StatesApart ==
  ASSUME NEW j \in Jobs, Attention(j), Accepted(j), ~HasMerge(j)
  PROVE  Apart(Effects(j)) /\ Inside(j, Effects(j))
<1>1. j.s.queryHeads \in Nat \ {0}
  BY AttentionJob
<1>2. ASSUME NEW b \in 0 .. Grid(j) - 1, NEW c \in 0 .. Grid(j) - 1,
             NEW v \in Cta(j, b).writes, NEW w \in Cta(j, c).writes, v.at = w.at
      PROVE  b = c
  <2>1. v.at = Output(b \div j.s.queryHeads, b % j.s.queryHeads) /\ b \in Nat
    BY StateWrites, StateCta
  <2>2. w.at = Output(c \div j.s.queryHeads, c % j.s.queryHeads) /\ c \in Nat
    BY StateWrites, StateCta
  <2> QED BY <1>1, <1>2, <2>1, <2>2, OutputApart
<1>3. ASSUME NEW b \in 0 .. Grid(j) - 1, NEW x \in Cta(j, b).reads
      PROVE  Readable(j, x)
  BY StateCta DEF Sound
<1>4. ASSUME NEW b \in 0 .. Grid(j) - 1, NEW w \in Cta(j, b).writes
      PROVE  \E row \in OutputRows(j), column \in OutputColumns(j) : w.at = Output(row, column)
  <2>1. w.at = Output(b \div j.s.queryHeads, b % j.s.queryHeads)
    BY StateWrites
  <2>2. b \div j.s.queryHeads \in OutputRows(j) /\ b % j.s.queryHeads \in OutputColumns(j)
    BY StateCta
  <2> QED BY <2>1, <2>2
<1>5. DOMAIN Effects(j) = 0 .. Grid(j) - 1 /\ \A b \in 0 .. Grid(j) - 1 : Effects(j)[b] = Cta(j, b)
  BY DEF Effects
<1>6. Apart(Effects(j))
  BY <1>2, <1>5 DEF Apart
<1>7. Inside(j, Effects(j))
  BY <1>3, <1>4, <1>5 DEF Inside
<1> QED BY <1>6, <1>7

\* So does RMSNorm, a row per CTA.
LEMMA RmsApart ==
  ASSUME NEW j \in Jobs, j.family = "rms_norm", Accepted(j)
  PROVE  Apart(Effects(j)) /\ Inside(j, Effects(j))
<1>1. /\ Grid(j) = j.s.rows /\ j.s.rows \in Nat /\ OutputRows(j) = 0 .. j.s.rows - 1
      /\ OutputColumns(j) = 0 .. j.s.hidden - 1
  BY RmsJob
<1>2. \A b \in 0 .. Grid(j) - 1 : Cta(j, b) = RmsEffect(j.s, b) /\ b \in OutputRows(j)
  BY <1>1, RmsCta
<1>3. ASSUME NEW b \in 0 .. Grid(j) - 1, NEW w \in Cta(j, b).writes
      PROVE  \E column \in OutputColumns(j) : w.at = Output(b, column)
  <2>1. Cta(j, b).writes = {RmsResult(j.s, b, c, SetToBag(RowElements(j.s, b))) : c \in 0 .. j.s.hidden - 1}
    BY <1>2 DEF RmsEffect
  <2>2. PICK c \in 0 .. j.s.hidden - 1 : w = RmsResult(j.s, b, c, SetToBag(RowElements(j.s, b)))
    BY <2>1
  <2>3. w.at = Output(b, c)
    BY <2>2 DEF RmsResult, Write
  <2> QED BY <1>1, <2>3
<1>4. ASSUME NEW b \in 0 .. Grid(j) - 1, NEW c \in 0 .. Grid(j) - 1,
             NEW v \in Cta(j, b).writes, NEW w \in Cta(j, c).writes, v.at = w.at
      PROVE  b = c
  <2>1. PICK d : v.at = Output(b, d)
    BY <1>3
  <2>2. PICK e : w.at = Output(c, e)
    BY <1>3
  <2>3. Output(b, d) = Output(c, e)
    BY <1>4, <2>1, <2>2
  <2> QED BY <2>3 DEF Output
<1>5. ASSUME NEW b \in 0 .. Grid(j) - 1, NEW x \in Cta(j, b).reads
      PROVE  Readable(j, x)
  <2>1. x \in RowElements(j.s, b)
    BY <1>2 DEF RmsEffect
  <2> QED BY <1>2, <2>1, RmsReads
<1>6. DOMAIN Effects(j) = 0 .. Grid(j) - 1 /\ \A b \in 0 .. Grid(j) - 1 : Effects(j)[b] = Cta(j, b)
  BY DEF Effects
<1>7. Apart(Effects(j))
  BY <1>4, <1>6 DEF Apart
<1>8. Inside(j, Effects(j))
  BY <1>2, <1>3, <1>5, <1>6 DEF Inside
<1> QED BY <1>7, <1>8

\* And RoPE, a head of a token per CTA.
LEMMA RopeHeadsApart ==
  ASSUME NEW j \in Jobs, j.family = "rope", Accepted(j)
  PROVE  Apart(Effects(j)) /\ Inside(j, Effects(j))
<1>1. j.s.queryHeads \in Nat \ {0} /\ j.s.keyHeads \in Nat \ {0} /\ OutputRows(j) = 0 .. j.s.tokens - 1
  BY RopeJob
<1>2. ASSUME NEW b \in 0 .. Grid(j) - 1, NEW c \in 0 .. Grid(j) - 1,
             NEW v \in Cta(j, b).writes, NEW w \in Cta(j, c).writes, v.at = w.at
      PROVE  b = c
  <2>1. PICK d : v.at = Output(StateToken(j.s, b), <<StateTensor(j.s, b), StateHead(j.s, b), d>>)
    BY RopeWrites
  <2>2. PICK e : w.at = Output(StateToken(j.s, c), <<StateTensor(j.s, c), StateHead(j.s, c), e>>)
    BY RopeWrites
  <2>3. /\ StateToken(j.s, b) = StateToken(j.s, c) /\ StateTensor(j.s, b) = StateTensor(j.s, c)
        /\ StateHead(j.s, b) = StateHead(j.s, c)
    <3> DEFINE sb == StateToken(j.s, b)
               sc == StateToken(j.s, c)
               tb == <<StateTensor(j.s, b), StateHead(j.s, b), d>>
               tc == <<StateTensor(j.s, c), StateHead(j.s, c), e>>
    <3>1. Output(sb, tb) = Output(sc, tc)
      BY <1>2, <2>1, <2>2
    <3>2. sb = sc /\ tb = tc
      <4> HIDE DEF sb, sc, tb, tc
      <4> QED BY <3>1 DEF Output
    <3>3. StateTensor(j.s, b) = StateTensor(j.s, c) /\ StateHead(j.s, b) = StateHead(j.s, c)
      BY <3>2
    <3> QED BY <3>2, <3>3
  <2>4. b \in Nat /\ c \in Nat
    BY RopeCta
  <2> QED BY <1>1, <2>3, <2>4, RopeApart
<1>3. ASSUME NEW b \in 0 .. Grid(j) - 1, NEW w \in Cta(j, b).writes
      PROVE  \E row \in OutputRows(j), column \in OutputColumns(j) : w.at = Output(row, column)
  <2> DEFINE token == StateToken(j.s, b)
             tensor == StateTensor(j.s, b)
             head == StateHead(j.s, b)
  <2>1. PICK o \in 0 .. HeadDim - 1 : w.at = Output(token, <<tensor, head, o>>)
    BY RopeWrites
  <2>2. /\ token \in 0 .. j.s.tokens - 1 /\ tensor \in {"query", "key"}
        /\ head \in 0 .. RopeHeads(j.s, tensor) - 1
    BY RopeCta
  <2> HIDE DEF token, tensor, head
  <2>3. <<tensor, head, o>> \in {tensor} \X (0 .. RopeHeads(j.s, tensor) - 1) \X (0 .. HeadDim - 1)
    BY <2>2
  <2>4. OutputColumns(j)
          = UNION {{t} \X (0 .. RopeHeads(j.s, t) - 1) \X (0 .. HeadDim - 1) : t \in {"query", "key"}}
    BY DEF OutputColumns
  <2>5. <<tensor, head, o>> \in OutputColumns(j)
    BY <2>2, <2>3, <2>4
  <2> QED BY <1>1, <2>1, <2>2, <2>5
<1>4. DOMAIN Effects(j) = 0 .. Grid(j) - 1 /\ \A b \in 0 .. Grid(j) - 1 : Effects(j)[b] = Cta(j, b)
  BY DEF Effects
<1>5. Apart(Effects(j))
  BY <1>2, <1>4 DEF Apart
<1>6. Inside(j, Effects(j))
  <2>1. \A b \in 0 .. Grid(j) - 1 : \A x \in Cta(j, b).reads : Readable(j, x)
    BY RopeReads
  <2> QED BY <1>3, <1>4, <2>1 DEF Inside
<1> QED BY <1>5, <1>6

\* A merge has a CTA for each element of the output, and reads partial states
\* alone.
LEMMA MergeApart ==
  ASSUME NEW j \in Jobs, Accepted(j), HasMerge(j)
  PROVE  LET f == [b \in 0 .. States(j.s) - 1 |-> MergeCta(j, b)]
         IN Apart(f) /\ Inside(j, f)
<1> DEFINE n == j.s.queryHeads
           f == [b \in 0 .. States(j.s) - 1 |-> MergeCta(j, b)]
<1>1. Attention(j) /\ (j.family = "split_k" \/ j.family = "ragged")
  <2>1. Algorithm(j) \in {"TiledGqa4", "split_k"}
    BY DEF HasMerge
  <2>2. Attention(j)
    BY <2>1 DEF Algorithm, Attention
  <2> QED BY <2>1, <2>2, Algorithms
<1>2. /\ n \in Nat \ {0} /\ j.s.nnzQo \in Nat /\ OutputRows(j) = 0 .. j.s.nnzQo - 1
      /\ OutputColumns(j) = 0 .. n - 1 /\ States(j.s) = j.s.nnzQo * n
  BY <1>1, AttentionJob DEF States
<1>3. j.family = "split_k" => j.s.nnzQo = 1
  BY KernelLaunchAssumption DEF IsJob
<1>4. ASSUME NEW b \in 0 .. j.s.nnzQo * n - 1
      PROVE  /\ b \in Nat /\ b \div n \in 0 .. j.s.nnzQo - 1 /\ b % n \in 0 .. n - 1
             /\ \E value : MergeCta(j, b) = [reads |-> {}, writes |-> {Write(Output(b \div n, b % n), value)}]
  <2>1. b \div n \in 0 .. j.s.nnzQo - 1 /\ b % n \in 0 .. n - 1
    BY <1>2, GridIndex
  <2>2. b \in Nat
    <3>1. j.s.nnzQo * n \in Int
      BY <1>2, SMT
    <3> QED BY <3>1
  <2>3. CASE j.family = "split_k"
    <3> DEFINE row == b \div n
               head == b % n
    <3>1. row = 0
      <4>1. row \in 0 .. 0
        BY <1>3, <2>1, <2>3
      <4> HIDE DEF row
      <4> QED BY <4>1
    <3>2. MergeCta(j, b) = SplitKMerge(j.s, head, workspace)
      BY <2>3 DEF MergeCta
    <3> HIDE DEF row, head
    <3>3. \E value : SplitKMerge(j.s, head, workspace) = [reads |-> {}, writes |-> {Write(Output(0, head), value)}]
      BY DEF SplitKMerge
    <3>4. \E value : MergeCta(j, b) = [reads |-> {}, writes |-> {Write(Output(row, head), value)}]
      BY <3>1, <3>2, <3>3
    <3> QED BY <2>1, <2>2, <3>4 DEF row, head
  <2>4. CASE j.family # "split_k"
    <3> DEFINE row == b \div n
               head == b % n
    <3>2. MergeCta(j, b) = TiledMerge(row, head, workspace)
      BY <2>4 DEF MergeCta
    <3> HIDE DEF row, head
    <3>3. \E value : TiledMerge(row, head, workspace) = [reads |-> {}, writes |-> {Write(Output(row, head), value)}]
      BY DEF TiledMerge
    <3>4. \E value : MergeCta(j, b) = [reads |-> {}, writes |-> {Write(Output(row, head), value)}]
      BY <3>2, <3>3
    <3> QED BY <2>1, <2>2, <3>4 DEF row, head
  <2> QED BY <2>3, <2>4
<1>5. ASSUME NEW b \in 0 .. j.s.nnzQo * n - 1
      PROVE  /\ MergeCta(j, b).reads = {}
             /\ \A w \in MergeCta(j, b).writes : w.at = Output(b \div n, b % n)
  <2> DEFINE row == b \div n
             head == b % n
  <2>1. \E value : MergeCta(j, b) = [reads |-> {}, writes |-> {Write(Output(row, head), value)}]
    BY <1>4
  <2> HIDE DEF row, head
  <2>2. MergeCta(j, b).reads = {} /\ \A w \in MergeCta(j, b).writes : w.at = Output(row, head)
    BY <2>1 DEF Write
  <2> QED BY <2>2 DEF row, head
<1>6. ASSUME NEW b \in 0 .. j.s.nnzQo * n - 1, NEW c \in 0 .. j.s.nnzQo * n - 1,
             NEW v \in MergeCta(j, b).writes, NEW w \in MergeCta(j, c).writes, v.at = w.at
      PROVE  b = c
  <2>1. v.at = Output(b \div n, b % n) /\ w.at = Output(c \div n, c % n) /\ b \in Nat /\ c \in Nat
    BY <1>4, <1>5
  <2> QED BY <1>2, <1>6, <2>1, OutputApart
<1>7. ASSUME NEW b \in 0 .. j.s.nnzQo * n - 1, NEW w \in MergeCta(j, b).writes
      PROVE  \E row \in OutputRows(j), column \in OutputColumns(j) : w.at = Output(row, column)
  BY <1>2, <1>4, <1>5
<1>8. DOMAIN f = 0 .. j.s.nnzQo * n - 1 /\ \A b \in 0 .. j.s.nnzQo * n - 1 : f[b] = MergeCta(j, b)
  BY <1>2
<1> HIDE DEF f
<1>9. Apart(f)
  BY <1>6, <1>8 DEF Apart
<1>10. Inside(j, f)
  BY <1>5, <1>7, <1>8 DEF Inside
<1> QED BY <1>9, <1>10 DEF f
-----------------------------------------------------------------------------
(* Split-K decode *)

\* Where the partitions of n tokens start and end.
LEMMA SplitEnds ==
  ASSUME NEW n \in Nat, NEW k \in Nat \ {0}
  PROVE  /\ [i \in 0 .. k |-> SplitStart(n, k, i)] \in [0 .. k -> Int]
         /\ SplitStart(n, k, 0) = 0 /\ SplitStart(n, k, k) = n
         /\ \A i \in 0 .. k - 1 :
              /\ SplitStart(n, k, i) \in Int /\ SplitStart(n, k, i + 1) \in Int
              /\ SplitStart(n, k, i) <= SplitStart(n, k, i + 1)
              /\ SplitRange(n, k, i) = SplitStart(n, k, i) .. SplitStart(n, k, i + 1) - 1
<1> DEFINE d == n \div k
           e == n % k
           start(i) == i * d + (IF i < e THEN i ELSE e)
<1>1. n = k * d + e /\ e \in 0 .. k - 1 /\ d \in Nat
  BY Division
<1>2. \A i : SplitStart(n, k, i) = start(i)
  BY DEF SplitStart
<1>3. \A i : SplitRange(n, k, i) = SplitStart(n, k, i) .. SplitStart(n, k, i) + d + (IF i < e THEN 1 ELSE 0) - 1
  BY DEF SplitRange
<1> HIDE DEF d, e
<1>4. \A i \in 0 .. k : i * d \in Int /\ start(i) \in Int
  <2>1. \A i \in 0 .. k : i * d \in Int
    BY <1>1, SMT
  <2> QED BY <1>1, <2>1
<1>5. start(0) = 0 /\ start(k) = n
  <2>1. 0 * d = 0
    BY <1>1, SMT
  <2>2. ~(k < e) /\ (0 < e \/ e = 0)
    BY <1>1
  <2> QED BY <1>1, <2>1, <2>2
<1>6. ASSUME NEW i \in 0 .. k - 1
      PROVE  /\ start(i + 1) = start(i) + d + (IF i < e THEN 1 ELSE 0) /\ start(i) <= start(i + 1)
             /\ start(i) \in Int /\ start(i + 1) \in Int
  <2>1. (i + 1) * d = i * d + d /\ i * d \in Int
    BY <1>1, SMT
  <2>2. i \in 0 .. k /\ i + 1 \in 0 .. k
    OBVIOUS
  <2>3. start(i) \in Int /\ start(i + 1) \in Int
    BY <1>4, <2>2
  <2> QED BY <1>1, <2>1, <2>3
<1> HIDE DEF start
<1>7. [i \in 0 .. k |-> SplitStart(n, k, i)] \in [0 .. k -> Int]
  BY <1>2, <1>4
<1>8. \A i \in 0 .. k - 1 :
        /\ SplitStart(n, k, i) \in Int /\ SplitStart(n, k, i + 1) \in Int
        /\ SplitStart(n, k, i) <= SplitStart(n, k, i + 1)
        /\ SplitRange(n, k, i) = SplitStart(n, k, i) .. SplitStart(n, k, i + 1) - 1
  <2> TAKE i \in 0 .. k - 1
  <2>1. SplitStart(n, k, i) = start(i) /\ SplitStart(n, k, i + 1) = start(i + 1)
    BY <1>2
  <2>2. /\ start(i + 1) = start(i) + d + (IF i < e THEN 1 ELSE 0) /\ start(i) <= start(i + 1)
        /\ start(i) \in Int /\ start(i + 1) \in Int
    BY <1>6
  <2>3. SplitRange(n, k, i) = start(i) .. start(i) + d + (IF i < e THEN 1 ELSE 0) - 1
    BY <1>3, <2>1
  <2>4. start(i) + d + (IF i < e THEN 1 ELSE 0) - 1 = start(i + 1) - 1
    BY <1>1, <2>2
  <2> QED BY <2>1, <2>2, <2>3, <2>4
<1> QED BY <1>2, <1>5, <1>7, <1>8

\* The partitions divide the tokens.
LEMMA SplitsDivide ==
  ASSUME NEW n \in Nat, NEW k \in Nat \ {0}
  PROVE  /\ \A i \in 0 .. k - 1 : SplitRange(n, k, i) \subseteq 0 .. n - 1
         /\ \A i, j \in 0 .. k - 1 : i # j => SplitRange(n, k, i) \cap SplitRange(n, k, j) = {}
         /\ \A p \in 0 .. n - 1 : \E i \in 0 .. k - 1 : p \in SplitRange(n, k, i)
<1> DEFINE c == [i \in 0 .. k |-> SplitStart(n, k, i)]
<1>1. c \in [0 .. k -> Int] /\ c[0] = 0 /\ c[k] = n /\ \A i \in 0 .. k - 1 : c[i] <= c[i + 1]
  BY SplitEnds
<1>2. \A i \in 0 .. k - 1 : SplitRange(n, k, i) = c[i] .. c[i + 1] - 1
  BY SplitEnds
<1> HIDE DEF c
<1>3. \A i, j \in 0 .. k : i <= j => c[i] <= c[j]
  BY <1>1, EndsGrow
<1>4. \A i \in 0 .. k - 1 : SplitRange(n, k, i) \subseteq 0 .. n - 1
  <2> TAKE i \in 0 .. k - 1
  <2>1. c[0] <= c[i] /\ c[i + 1] <= c[k] /\ c[i] \in Int /\ c[i + 1] \in Int
    BY <1>1, <1>3
  <2> QED BY <1>1, <1>2, <2>1
<1>5. \A i, j \in 0 .. k - 1 : i # j => SplitRange(n, k, i) \cap SplitRange(n, k, j) = {}
  <2> TAKE i, j \in 0 .. k - 1
  <2>1. ASSUME NEW p \in SplitRange(n, k, i), p \in SplitRange(n, k, j)
        PROVE  i = j
    <3>1. p \in Int /\ c[i] <= p /\ p < c[i + 1] /\ c[j] <= p /\ p < c[j + 1]
      <4>1. c[i] \in Int /\ c[i + 1] \in Int /\ c[j] \in Int /\ c[j + 1] \in Int
        BY <1>1
      <4>2. p \in c[i] .. c[i + 1] - 1 /\ p \in c[j] .. c[j + 1] - 1
        BY <1>2, <2>1
      <4> QED BY <4>1, <4>2
    <3> QED BY <1>1, <3>1, EndsApart
  <2> QED BY <2>1
<1>6. \A p \in 0 .. n - 1 : \E i \in 0 .. k - 1 : p \in SplitRange(n, k, i)
  <2> TAKE p \in 0 .. n - 1
  <2>1. PICK i \in 0 .. k - 1 : c[i] <= p /\ p < c[i + 1]
    <3>1. p \in Int /\ c[0] <= p /\ p < c[k]
      BY <1>1
    <3> QED BY <1>1, <3>1, EndsCover
  <2>2. c[i] \in Int /\ c[i + 1] \in Int
    BY <1>1
  <2> QED BY <1>2, <2>1, <2>2
<1> QED BY <1>4, <1>5, <1>6

\* What a split-K call has.
LEMMA SplitKJob ==
  ASSUME NEW j \in Jobs, j.family = "split_k", Accepted(j)
  PROVE  /\ j.s.queryHeads \in Nat \ {0} /\ j.s.kvLen \in Nat \ {0} /\ j.s.partitions \in Nat \ {0}
         /\ j.s.partitions <= j.s.kvLen /\ j.s.batch = 1 /\ j.s.nnzQo = 1
         /\ \A head \in 0 .. j.s.queryHeads - 1 : KvHead(j.s, head) \in 0 .. j.s.kvHeads - 1
         /\ OutputRows(j) = {0} /\ OutputColumns(j) = 0 .. j.s.queryHeads - 1
         /\ Partitions(j) = 0 .. j.s.partitions - 1
         /\ HasMerge(j) /\ Attention(j) /\ Grid(j) = j.s.queryHeads * j.s.partitions
<1>1. Attention(j) /\ Algorithm(j) = "split_k"
  BY DEF Attention, Algorithm
<1>2. /\ j.s.queryHeads \in Nat \ {0} /\ j.s.kvHeads \in Nat \ {0} /\ Admitted(j.s)
      /\ OutputRows(j) = 0 .. j.s.nnzQo - 1 /\ OutputColumns(j) = 0 .. j.s.queryHeads - 1
  BY <1>1, AttentionJob
<1>3. j.s.batch = 1 /\ j.s.nnzQo = 1 /\ j.s.kvLen \in Nat /\ j.s.partitions \in Nat
  BY KernelLaunchAssumption DEF IsJob
<1>4. j.s.kvLen > 0 /\ j.s.partitions \in 1 .. j.s.kvLen
  BY DEF Accepted, SplitKAdmitted
<1>5. HasMerge(j) /\ Partitions(j) = 0 .. j.s.partitions - 1 /\ Grid(j) = j.s.queryHeads * j.s.partitions
  BY <1>1 DEF HasMerge, Partitions, Grid
<1>6. \A head \in 0 .. j.s.queryHeads - 1 : KvHead(j.s, head) \in 0 .. j.s.kvHeads - 1
  BY <1>2, HeadGroups
<1>7. OutputRows(j) = {0}
  <2>1. 0 .. 1 - 1 = {0}
    OBVIOUS
  <2> QED BY <1>2, <1>3, <2>1
<1> QED BY <1>1, <1>2, <1>3, <1>4, <1>5, <1>6, <1>7

\* The tokens of a partition, for a head, and their state.
PartRows(s, head, p) == Pick(SingleTokens(s, head), SplitRange(s.kvLen, s.partitions, p))
PartState(s, head, p) == Weigh(PartRows(s, head, p), "finite")

\* What a CTA of the first kernel does.
LEMMA SplitKCta ==
  ASSUME NEW j \in Jobs, j.family = "split_k", Accepted(j), NEW b \in 0 .. Grid(j) - 1
  PROVE  LET head == b \div j.s.partitions
             p == b % j.s.partitions
         IN /\ b \in Nat /\ head \in 0 .. j.s.queryHeads - 1 /\ p \in 0 .. j.s.partitions - 1
            /\ Cta(j, b) = [reads |-> PartRows(j.s, head, p),
                            writes |-> {Write(Partial(0, head, p), PartState(j.s, head, p))}]
<1> DEFINE k == j.s.partitions
           head == b \div k
           p == b % k
<1>1. k \in Nat \ {0} /\ j.s.queryHeads \in Nat /\ b \in 0 .. j.s.queryHeads * k - 1
  BY SplitKJob
<1>2. head \in 0 .. j.s.queryHeads - 1 /\ p \in 0 .. k - 1
  BY <1>1, GridIndex
<1>3. b \in Nat
  <2>1. j.s.queryHeads * k \in Int
    BY <1>1, SMT
  <2> QED BY <1>1, <2>1
<1>4. Cta(j, b) = SplitKPartial(j.s, b)
  BY DEF Cta
<1>5. SplitKPartial(j.s, b) = [reads |-> PartRows(j.s, head, p),
                               writes |-> {Write(Partial(0, head, p), PartState(j.s, head, p))}]
  BY DEF SplitKPartial, PartRows, PartState
<1> QED BY <1>2, <1>3, <1>4, <1>5

\* Its reads are within the cache.
LEMMA PartReadable ==
  ASSUME NEW j \in Jobs, j.family = "split_k", Accepted(j), NEW head \in 0 .. j.s.queryHeads - 1,
         NEW p \in 0 .. j.s.partitions - 1, NEW x \in PartRows(j.s, head, p)
  PROVE  Readable(j, x)
<1>1. /\ j.s.kvLen \in Nat /\ j.s.partitions \in Nat \ {0} /\ KvHead(j.s, head) \in 0 .. j.s.kvHeads - 1
  BY SplitKJob
<1>2. PICK q \in SplitRange(j.s.kvLen, j.s.partitions, p) : x = SingleTokens(j.s, head)[q]
  BY DEF PartRows, Pick
<1>3. q \in 0 .. j.s.kvLen - 1
  BY <1>1, SplitsDivide
<1>4. x = <<q, q, KvHead(j.s, head)>>
  BY <1>2, <1>3 DEF SingleTokens
<1> QED BY <1>1, <1>3, <1>4 DEF Readable

\* Each CTA has a place of its own in the workspace.
LEMMA SplitKApart ==
  ASSUME NEW j \in Jobs, j.family = "split_k", Accepted(j)
  PROVE  Apart(Effects(j)) /\ Inside(j, Effects(j))
<1> DEFINE k == j.s.partitions
<1>1. /\ k \in Nat \ {0} /\ OutputRows(j) = {0} /\ OutputColumns(j) = 0 .. j.s.queryHeads - 1
      /\ Partitions(j) = 0 .. k - 1
  BY SplitKJob
<1>2. ASSUME NEW b \in 0 .. Grid(j) - 1
      PROVE  /\ b \in Nat /\ b \div k \in 0 .. j.s.queryHeads - 1 /\ b % k \in 0 .. k - 1
             /\ Cta(j, b) = [reads |-> PartRows(j.s, b \div k, b % k),
                             writes |-> {Write(Partial(0, b \div k, b % k), PartState(j.s, b \div k, b % k))}]
  BY SplitKCta
<1>3. ASSUME NEW b \in 0 .. Grid(j) - 1, NEW c \in 0 .. Grid(j) - 1,
             NEW v \in Cta(j, b).writes, NEW w \in Cta(j, c).writes, v.at = w.at
      PROVE  b = c
  <2> DEFINE bh == b \div k
             bp == b % k
             ch == c \div k
             cp == c % k
  <2>1. /\ Cta(j, b).writes = {Write(Partial(0, bh, bp), PartState(j.s, bh, bp))}
        /\ Cta(j, c).writes = {Write(Partial(0, ch, cp), PartState(j.s, ch, cp))}
    BY <1>2
  <2> HIDE DEF bh, bp, ch, cp
  <2>2. v.at = Partial(0, bh, bp) /\ w.at = Partial(0, ch, cp)
    BY <2>1 DEF Write
  <2>3. bh = ch /\ bp = cp
    <3>1. Partial(0, bh, bp) = Partial(0, ch, cp)
      BY <1>3, <2>2
    <3> QED BY <3>1 DEF Partial
  <2>4. b \in Nat /\ c \in Nat
    BY <1>2
  <2> QED BY <1>1, <2>3, <2>4, GridApart DEF bh, bp, ch, cp
<1>4. ASSUME NEW b \in 0 .. Grid(j) - 1, NEW x \in Cta(j, b).reads
      PROVE  Readable(j, x)
  BY <1>2, PartReadable
<1>5. ASSUME NEW b \in 0 .. Grid(j) - 1, NEW w \in Cta(j, b).writes
      PROVE  w.at \in Places(j)
  <2> DEFINE bh == b \div k
             bp == b % k
  <2>1. Cta(j, b).writes = {Write(Partial(0, bh, bp), PartState(j.s, bh, bp))}
    BY <1>2
  <2>2. bh \in OutputColumns(j) /\ bp \in Partitions(j) /\ 0 \in OutputRows(j)
    BY <1>1, <1>2
  <2> HIDE DEF bh, bp
  <2>3. w.at = Partial(0, bh, bp)
    BY <2>1 DEF Write
  <2> QED BY <2>2, <2>3 DEF Places
<1>6. DOMAIN Effects(j) = 0 .. Grid(j) - 1 /\ \A b \in 0 .. Grid(j) - 1 : Effects(j)[b] = Cta(j, b)
  BY DEF Effects
<1>7. Apart(Effects(j))
  BY <1>3, <1>6 DEF Apart
<1>8. Inside(j, Effects(j))
  BY <1>4, <1>5, <1>6 DEF Inside
<1> QED BY <1>7, <1>8
-----------------------------------------------------------------------------
(* Tiled prefill: which rows a tile has *)

\* The tiles of the requests up to r, added up.
TileSums(m, r, f) == f = [q \in 0 .. r |-> IF q = 0 THEN 0 ELSE f[q - 1] + Tiles(m, q - 1)]

\* There are such sums for every number of requests.
LEMMA TileSumsExist ==
  ASSUME NEW m, NEW r \in Nat
  PROVE  \E f : TileSums(m, r, f)
<1> DEFINE T == {n \in Nat : ~ \E f : TileSums(m, n, f)}
<1>1. SUFFICES ASSUME r \in T PROVE FALSE
  OBVIOUS
<1>2. PICK n \in T : \A y \in T : n <= y
  <2>1. T \in SUBSET Nat /\ T # {}
    BY <1>1
  <2> HIDE DEF T
  <2> QED BY <2>1, LeastMember
<1>3. n # 0
  <2>1. ASSUME n = 0 PROVE FALSE
    <3> DEFINE f == [q \in 0 .. 0 |-> 0]
    <3>1. \A q \in 0 .. 0 : q = 0
      OBVIOUS
    <3>2. f = [q \in 0 .. 0 |-> IF q = 0 THEN 0 ELSE f[q - 1] + Tiles(m, q - 1)]
      BY <3>1
    <3>3. TileSums(m, 0, f)
      BY <3>2, Zenon DEF TileSums
    <3> QED BY <1>2, <2>1, <3>3
  <2> QED BY <2>1
<1>4. n - 1 \in Nat /\ ~(n <= n - 1)
  BY <1>2, <1>3
<1>5. PICK g : TileSums(m, n - 1, g)
  BY <1>2, <1>4
<1> DEFINE f == [q \in 0 .. n |-> IF q = n THEN g[n - 1] + Tiles(m, n - 1) ELSE g[q]]
<1>6. \A q \in 0 .. n - 1 : f[q] = g[q]
  BY <1>4
<1>7. ASSUME NEW q \in 0 .. n
      PROVE  f[q] = IF q = 0 THEN 0 ELSE f[q - 1] + Tiles(m, q - 1)
  <2>1. CASE q = n
    <3>1. f[q] = g[n - 1] + Tiles(m, n - 1) /\ n - 1 \in 0 .. n - 1
      BY <1>4, <2>1
    <3> HIDE DEF f
    <3>2. f[n - 1] = g[n - 1]
      BY <1>6, <3>1
    <3> QED BY <1>3, <2>1, <3>1, <3>2
  <2>2. CASE q # n
    <3>1. q \in 0 .. n - 1
      BY <1>4, <2>2
    <3>2. g[q] = IF q = 0 THEN 0 ELSE g[q - 1] + Tiles(m, q - 1)
      BY <1>5, <3>1 DEF TileSums
    <3>3. q # 0 => q - 1 \in 0 .. n - 1
      BY <1>4, <3>1
    <3> HIDE DEF f
    <3>4. f[q] = g[q] /\ (q # 0 => f[q - 1] = g[q - 1])
      BY <1>6, <3>1, <3>3
    <3> QED BY <3>2, <3>4
  <2> QED BY <2>1, <2>2
<1>8. f = [q \in 0 .. n |-> f[q]]
  OBVIOUS
<1> HIDE DEF f
<1>9. TileSums(m, n, f)
  BY <1>7, <1>8 DEF TileSums
<1> QED BY <1>2, <1>9

\* The sums do not depend on where they end.
LEMMA TileSumsAgree ==
  ASSUME NEW m, NEW r \in Nat, NEW t \in Nat, NEW f, NEW g, TileSums(m, r, f), TileSums(m, t, g),
         NEW q \in Nat, q <= r, q <= t
  PROVE  f[q] = g[q]
<1> DEFINE T == {n \in Nat : n <= r /\ n <= t /\ f[n] # g[n]}
<1>1. SUFFICES ASSUME q \in T PROVE FALSE
  OBVIOUS
<1>2. PICK n \in T : \A y \in T : n <= y
  <2>1. T \in SUBSET Nat /\ T # {}
    BY <1>1
  <2> HIDE DEF T
  <2> QED BY <2>1, LeastMember
<1>3. n \in Nat /\ n <= r /\ n <= t /\ n \in 0 .. r /\ n \in 0 .. t /\ f[n] # g[n]
  BY <1>2
<1>4. /\ f[n] = IF n = 0 THEN 0 ELSE f[n - 1] + Tiles(m, n - 1)
      /\ g[n] = IF n = 0 THEN 0 ELSE g[n - 1] + Tiles(m, n - 1)
  <2> HIDE DEF T
  <2>1. f[n] = IF n = 0 THEN 0 ELSE f[n - 1] + Tiles(m, n - 1)
    BY <1>3 DEF TileSums
  <2>2. g[n] = IF n = 0 THEN 0 ELSE g[n - 1] + Tiles(m, n - 1)
    BY <1>3 DEF TileSums
  <2> QED BY <2>1, <2>2
<1>5. n # 0 /\ f[n - 1] # g[n - 1]
  BY <1>3, <1>4
<1>6. n - 1 \in T /\ ~(n <= n - 1)
  BY <1>3, <1>5
<1> QED BY <1>2, <1>6

\* The tiles before a request, one request after another.
LEMMA TilesAddUp ==
  ASSUME NEW m
  PROVE  /\ TilesBefore(m, 0) = 0
         /\ \A r \in Nat : TilesBefore(m, r + 1) = TilesBefore(m, r) + Tiles(m, r)
<1> DEFINE sums(r) == CHOOSE f : TileSums(m, r, f)
<1>1. \A r : TilesBefore(m, r) = sums(r)[r]
  BY DEF TilesBefore, TileSums
<1>2. \A r \in Nat : TileSums(m, r, sums(r))
  BY TileSumsExist
<1> HIDE DEF sums
<1>3. TilesBefore(m, 0) = 0
  <2>1. TileSums(m, 0, sums(0))
    BY <1>2
  <2>2. sums(0)[0] = 0
    BY <2>1 DEF TileSums
  <2> QED BY <1>1, <2>2
<1>4. ASSUME NEW r \in Nat
      PROVE  TilesBefore(m, r + 1) = TilesBefore(m, r) + Tiles(m, r)
  <2>1. r + 1 \in Nat /\ r + 1 # 0 /\ (r + 1) - 1 = r /\ r + 1 \in 0 .. r + 1 /\ r <= r + 1 /\ r <= r
    OBVIOUS
  <2>2. TileSums(m, r, sums(r)) /\ TileSums(m, r + 1, sums(r + 1))
    BY <1>2, <2>1
  <2>3. sums(r + 1)[r + 1] = sums(r + 1)[r] + Tiles(m, r)
    BY <2>1, <2>2 DEF TileSums
  <2>4. sums(r)[r] = sums(r + 1)[r]
    BY <2>1, <2>2, TileSumsAgree
  <2> QED BY <1>1, <2>3, <2>4
<1> QED BY <1>3, <1>4

\* The requests before the first one that is out of bounds.
SoundBefore(s, m, k) == \A q \in 0 .. k - 1 : RequestInBounds(s, m, q)

\* Their query rows follow one another, and so do their tiles.
InOrder(s, m, k) ==
  /\ \A r, q \in 0 .. k - 1 : \A row \in Int :
       m.qo[r] <= row /\ row < m.qo[r + 1] /\ m.qo[q] <= row /\ row < m.qo[q + 1] => r = q
  /\ \A r \in 0 .. k - 1 :
       /\ m.qo[r] \in Int /\ m.qo[r + 1] \in Int /\ 0 <= m.qo[r] /\ m.qo[r + 1] <= s.nnzQo
       /\ Span(m.qo, r) \in Nat \ {0} /\ Tiles(m, r) \in Nat \ {0}
  /\ [r \in 0 .. k |-> TilesBefore(m, r)] \in [0 .. k -> Int]
  /\ TilesBefore(m, 0) = 0
  /\ \A r \in 0 .. k - 1 :
       TilesBefore(m, r) \in Nat /\ TilesBefore(m, r + 1) = TilesBefore(m, r) + Tiles(m, r)

\* When the first k requests are within bounds, they do.
LEMMA SoundPrefix ==
  ASSUME NEW s, s.nnzQo \in Nat, s.batch \in Nat, NEW m, m.qo \in [0 .. s.batch -> Int],
         NEW k \in 0 .. s.batch, SoundBefore(s, m, k)
  PROVE  InOrder(s, m, k)
<1>1. ASSUME NEW r \in 0 .. k - 1
      PROVE  /\ m.qo[r] \in Int /\ m.qo[r + 1] \in Int /\ 0 <= m.qo[r] /\ m.qo[r + 1] <= s.nnzQo
             /\ m.qo[r] < m.qo[r + 1]
             /\ Span(m.qo, r) \in Nat \ {0} /\ Tiles(m, r) \in Nat \ {0}
  <2>1. RequestInBounds(s, m, r)
    BY DEF SoundBefore
  <2>2. r \in 0 .. s.batch /\ r + 1 \in 0 .. s.batch
    OBVIOUS
  <2>3. m.qo[r] \in Int /\ m.qo[r + 1] \in Int
    BY <2>2
  <2>4. 0 <= m.qo[r] /\ m.qo[r] < m.qo[r + 1] /\ m.qo[r + 1] <= s.nnzQo
    BY <2>1 DEF RequestInBounds
  <2>5. Span(m.qo, r) \in Nat \ {0}
    BY <2>3, <2>4 DEF Span
  <2>6. Tiles(m, r) \in Nat \ {0}
    <3> DEFINE n == Span(m.qo, r)
    <3>1. TiledQueryRows \in Nat \ {0} /\ n \in Nat /\ n > 0
      BY <2>5, RaggedPrefillAssumption
    <3> HIDE DEF n
    <3>2. CeilDiv(n, TiledQueryRows) \in Nat /\ CeilDiv(n, TiledQueryRows) > 0
      BY <3>1, UnitsThatHold
    <3> QED BY <3>2 DEF Tiles, n
  <2> QED BY <2>3, <2>4, <2>5, <2>6
<1>2. TilesBefore(m, 0) = 0 /\ \A r \in Nat : TilesBefore(m, r + 1) = TilesBefore(m, r) + Tiles(m, r)
  BY TilesAddUp
<1>3. \A r \in 0 .. k : TilesBefore(m, r) \in Nat
  <2> DEFINE T == {n \in Nat : n <= k /\ TilesBefore(m, n) \notin Nat}
  <2>1. SUFFICES ASSUME T # {} PROVE FALSE
    OBVIOUS
  <2>2. PICK n \in T : \A y \in T : n <= y
    <3>1. T \in SUBSET Nat
      OBVIOUS
    <3> HIDE DEF T
    <3> QED BY <2>1, <3>1, LeastMember
  <2>3. n # 0
    BY <1>2, <2>2
  <2>4. n - 1 \in 0 .. k - 1 /\ n - 1 \in Nat /\ (n - 1) + 1 = n /\ ~(n <= n - 1)
    BY <2>2, <2>3
  <2>5. TilesBefore(m, n - 1) \in Nat
    BY <2>2, <2>4
  <2>6. TilesBefore(m, n) = TilesBefore(m, n - 1) + Tiles(m, n - 1) /\ Tiles(m, n - 1) \in Nat
    BY <1>1, <1>2, <2>4
  <2>7. TilesBefore(m, n) \in Nat
    BY <2>5, <2>6
  <2> QED BY <2>2, <2>7
<1> DEFINE c == [r \in 0 .. k |-> m.qo[r]]
<1>4. c \in [0 .. k -> Int] /\ \A r \in 0 .. k - 1 : c[r] = m.qo[r] /\ c[r + 1] = m.qo[r + 1] /\ c[r] <= c[r + 1]
  <2>1. \A r \in 0 .. k : r \in 0 .. s.batch
    OBVIOUS
  <2>2. c \in [0 .. k -> Int]
    BY <2>1
  <2>3. \A r \in 0 .. k - 1 : c[r] = m.qo[r] /\ c[r + 1] = m.qo[r + 1]
    OBVIOUS
  <2> HIDE DEF c
  <2> QED BY <1>1, <2>2, <2>3
<1> HIDE DEF c
<1>5. ASSUME NEW r \in 0 .. k - 1, NEW q \in 0 .. k - 1, NEW row \in Int,
             m.qo[r] <= row, row < m.qo[r + 1], m.qo[q] <= row, row < m.qo[q + 1]
      PROVE  r = q
  <2>1. c[r] = m.qo[r] /\ c[r + 1] = m.qo[r + 1] /\ c[q] = m.qo[q] /\ c[q + 1] = m.qo[q + 1]
    BY <1>4
  <2>2. c[r] <= row /\ row < c[r + 1] /\ c[q] <= row /\ row < c[q + 1]
    BY <1>5, <2>1
  <2>3. k \in Nat /\ \A i \in 0 .. k - 1 : c[i] <= c[i + 1]
    BY <1>4
  <2> QED BY <1>4, <2>2, <2>3, EndsApart
<1>6. [r \in 0 .. k |-> TilesBefore(m, r)] \in [0 .. k -> Int]
  BY <1>3
<1>7. \A r \in 0 .. k - 1 :
        TilesBefore(m, r) \in Nat /\ TilesBefore(m, r + 1) = TilesBefore(m, r) + Tiles(m, r)
  <2> TAKE r \in 0 .. k - 1
  <2>1. r \in 0 .. k /\ r \in Nat
    OBVIOUS
  <2> QED BY <1>2, <1>3, <2>1
<1> QED BY <1>1, <1>2, <1>5, <1>6, <1>7 DEF InOrder
-----------------------------------------------------------------------------
(* Tiled prefill: what a CTA does *)

\* A call that the tiled kernels serve.
Tiled(j) == j.family = "ragged" /\ Algorithm(j) = "TiledGqa4"

\* What one that has been accepted has.
LEMMA TiledJob ==
  ASSUME NEW j \in Jobs, Tiled(j), Accepted(j)
  PROVE  /\ j.s.batch \in Nat \ {0} /\ j.s.nnzQo \in Nat \ {0} /\ j.s.nnzKv \in Nat \ {0}
         /\ j.s.queryHeads \in Nat \ {0} /\ j.s.kvHeads \in Nat \ {0}
         /\ TiledQueryRows \in Nat \ {0} /\ TiledKvRows \in Nat \ {0}
         /\ TiledPartitions \in Nat \ {0} /\ TiledGqaGroupSize \in Nat \ {0}
         /\ j.m.qo \in [0 .. j.s.batch -> Int] /\ j.m.kv \in [0 .. j.s.batch -> Int]
         /\ j.s.queryHeads = j.s.kvHeads * TiledGqaGroupSize
         /\ \A head : KvHead(j.s, head) = head \div TiledGqaGroupSize
         /\ OutputRows(j) = 0 .. j.s.nnzQo - 1 /\ OutputColumns(j) = 0 .. j.s.queryHeads - 1
         /\ Partitions(j) = 0 .. TiledPartitions - 1
         /\ HasMerge(j) /\ Attention(j) /\ Grid(j) = TileBound(j.s)
<1>1. Attention(j)
  BY DEF Attention, Tiled
<1>2. /\ j.s.batch \in Nat \ {0} /\ j.s.nnzQo \in Nat \ {0} /\ j.s.nnzKv \in Nat \ {0}
      /\ j.s.queryHeads \in Nat \ {0} /\ j.s.kvHeads \in Nat \ {0} /\ Admitted(j.s)
      /\ j.m.qo \in [0 .. j.s.batch -> Int] /\ j.m.kv \in [0 .. j.s.batch -> Int]
      /\ Algorithm(j) = RaggedAlgorithm(j.s)
  BY RaggedJob DEF Tiled
<1>3. GroupSize(j.s) = TiledGqaGroupSize
  <2>1. RaggedAlgorithm(j.s) = "TiledGqa4"
    BY <1>2 DEF Tiled
  <2> QED BY <2>1 DEF RaggedAlgorithm
<1>4. j.s.queryHeads = j.s.kvHeads * TiledGqaGroupSize
  BY <1>2, <1>3, HeadGroups
<1>5. \A head : KvHead(j.s, head) = head \div TiledGqaGroupSize
  BY <1>3 DEF KvHead
<1>6. OutputRows(j) = 0 .. j.s.nnzQo - 1 /\ OutputColumns(j) = 0 .. j.s.queryHeads - 1
  BY <1>1, AttentionJob
<1>7. Partitions(j) = 0 .. TiledPartitions - 1 /\ HasMerge(j) /\ Grid(j) = TileBound(j.s)
  BY DEF Tiled, Partitions, HasMerge, Grid
<1> QED BY <1>1, <1>2, <1>4, <1>5, <1>6, <1>7, RaggedPrefillAssumption

\* Dividing twice is dividing by the product.
LEMMA TwiceDivided ==
  ASSUME NEW n \in Nat \ {0}, NEW k \in Nat \ {0}, NEW b \in Nat
  PROVE  b \div (n * k) = (b \div n) \div k
<1> DEFINE x == b \div n
           i == b % n
           y == x \div k
           o == x % k
<1>1. b = n * x + i /\ i \in 0 .. n - 1 /\ x \in Nat
  BY Division
<1>2. x = k * y + o /\ o \in 0 .. k - 1 /\ y \in Nat
  <2> HIDE DEF x
  <2> QED BY <1>1, Division DEF y, o
<1> HIDE DEF x, i, y, o
<1>3. n * x = n * (k * y) + n * o
  BY <1>1, <1>2, SMT
<1>4. n * (k * y) = y * (n * k)
  BY <1>2, SMT
<1>5. o * n + i \in 0 .. k * n - 1
  BY <1>1, <1>2, GridCta
<1>6. k * n = n * k /\ o * n = n * o /\ n * k \in Nat /\ n * o \in Nat /\ y * (n * k) \in Nat
  BY <1>2, SMT
<1>7. n * k # 0
  BY <1>5, <1>6
<1>8. b = y * (n * k) + (n * o + i)
  <2> DEFINE u == n * x
             v == y * (n * k)
             w == n * o
  <2>1. b = u + i /\ u = v + w
    BY <1>1, <1>3, <1>4
  <2>2. i \in Int /\ v \in Int /\ w \in Int
    BY <1>1, <1>6
  <2> HIDE DEF u, v, w
  <2>3. b = v + (w + i)
    BY <2>1, <2>2
  <2> QED BY <2>3 DEF v, w
<1>9. n * o + i \in 0 .. n * k - 1
  BY <1>5, <1>6
<1>10. (y * (n * k) + (n * o + i)) \div (n * k) = y
  <2> DEFINE a == n * k
             c == n * o + i
  <2>1. a \in Nat \ {0} /\ c \in 0 .. a - 1
    BY <1>6, <1>7, <1>9
  <2> HIDE DEF a, c
  <2>2. (y * a + c) \div a = y
    BY <1>2, <2>1, LastPosition
  <2> QED BY <2>2 DEF a, c
<1> QED BY <1>8, <1>10 DEF x, y

\* The requests that the search for a tile goes through.
SoundUpTo(s, m) == Min({q \in 0 .. s.batch - 1 : ~RequestInBounds(s, m, q)} \cup {s.batch})

\* The search goes on as long as the requests are within bounds.
LEMMA SoundThen ==
  ASSUME NEW s, s.batch \in Nat, NEW m
  PROVE  /\ SoundUpTo(s, m) \in 0 .. s.batch /\ SoundBefore(s, m, SoundUpTo(s, m))
         /\ SoundBefore(s, m, s.batch) => SoundUpTo(s, m) = s.batch
<1> DEFINE bad == {q \in 0 .. s.batch - 1 : ~RequestInBounds(s, m, q)}
           k == SoundUpTo(s, m)
<1>1. k \in bad \cup {s.batch} /\ \A y \in bad \cup {s.batch} : k <= y
  <2>1. bad \cup {s.batch} \in SUBSET Nat /\ bad \cup {s.batch} # {}
    OBVIOUS
  <2>2. k = Min(bad \cup {s.batch})
    BY DEF SoundUpTo
  <2> HIDE DEF bad, k
  <2> QED BY <2>1, <2>2, SmallestMember
<1> HIDE DEF k
<1>2. k \in 0 .. s.batch
  BY <1>1
<1>3. ASSUME NEW q \in 0 .. k - 1 PROVE RequestInBounds(s, m, q)
  <2>1. q \in 0 .. s.batch - 1 /\ ~(k <= q)
    BY <1>2
  <2> QED BY <1>1, <2>1
<1>4. SoundBefore(s, m, k)
  BY <1>3 DEF SoundBefore
<1>5. SoundBefore(s, m, s.batch) => k = s.batch
  BY <1>1 DEF SoundBefore
<1> QED BY <1>2, <1>4, <1>5 DEF k

\* A tile of a request among them.
HoldsTile(m, r, tile) == TilesBefore(m, r) <= tile /\ tile < TilesBefore(m, r) + Tiles(m, r)

\* What the search finds.
LEMMA TileLocated ==
  ASSUME NEW s, s.nnzQo \in Nat, s.batch \in Nat, NEW m, m.qo \in [0 .. s.batch -> Int],
         NEW tile \in Nat
  PROVE  LET k == SoundUpTo(s, m)
             at == LocateTile(s, m, tile)
         IN /\ at # NoTile =>
                 /\ at.request \in 0 .. k - 1 /\ HoldsTile(m, at.request, tile)
                 /\ at.first = (tile - TilesBefore(m, at.request)) * TiledQueryRows
            /\ RaggedEndpoints(s, m) =>
                 \A r \in 0 .. k - 1 :
                   HoldsTile(m, r, tile) =>
                     at = [request |-> r, first |-> (tile - TilesBefore(m, r)) * TiledQueryRows]
<1> DEFINE k == SoundUpTo(s, m)
           at == LocateTile(s, m, tile)
           holding == {q \in 0 .. k - 1 : HoldsTile(m, q, tile)}
           found(r) == [request |-> r, first |-> (tile - TilesBefore(m, r)) * TiledQueryRows]
<1>1. at = IF ~RaggedEndpoints(s, m) \/ holding = {} THEN NoTile ELSE found(Min(holding))
  BY DEF LocateTile, SoundUpTo, HoldsTile
<1>2. k \in 0 .. s.batch /\ SoundBefore(s, m, k)
  BY SoundThen
<1> HIDE DEF at, k
<1>3. holding \in SUBSET Nat
  BY <1>2
<1>4. holding # {} => Min(holding) \in holding
  <2> HIDE DEF holding
  <2> QED BY <1>3, SmallestMember
<1>5. ASSUME at # NoTile
      PROVE  /\ at.request \in 0 .. k - 1 /\ HoldsTile(m, at.request, tile)
             /\ at.first = (tile - TilesBefore(m, at.request)) * TiledQueryRows
  <2>1. holding # {} /\ at = found(Min(holding))
    BY <1>1, <1>5
  <2>2. PICK r \in holding : at = found(r)
    BY <1>4, <2>1
  <2>3. at.request = r /\ at.first = (tile - TilesBefore(m, r)) * TiledQueryRows
    BY <2>2
  <2>4. r \in 0 .. k - 1 /\ HoldsTile(m, r, tile)
    OBVIOUS
  <2> QED BY <2>3, <2>4
<1>6. ASSUME NEW r \in 0 .. k - 1, NEW q \in 0 .. k - 1, HoldsTile(m, r, tile), HoldsTile(m, q, tile)
      PROVE  r = q
  <2> DEFINE c == [i \in 0 .. k |-> TilesBefore(m, i)]
  <2>1. /\ c \in [0 .. k -> Int]
        /\ \A i \in 0 .. k - 1 : /\ TilesBefore(m, i) \in Nat /\ Tiles(m, i) \in Nat \ {0}
                                 /\ TilesBefore(m, i + 1) = TilesBefore(m, i) + Tiles(m, i)
    <3>1. InOrder(s, m, k)
      BY <1>2, SoundPrefix
    <3> QED BY <3>1 DEF InOrder
  <2>2. \A i \in 0 .. k - 1 : c[i] = TilesBefore(m, i) /\ c[i + 1] = TilesBefore(m, i + 1)
    BY <1>2
  <2> HIDE DEF c
  <2>3. ASSUME NEW i \in 0 .. k - 1 PROVE c[i] <= c[i + 1]
    <3>1. c[i + 1] = c[i] + Tiles(m, i) /\ c[i] \in Nat /\ Tiles(m, i) \in Nat
      BY <2>1, <2>2
    <3> QED BY <3>1
  <2>4. c[r] <= tile /\ tile < c[r + 1] /\ c[q] <= tile /\ tile < c[q + 1]
    BY <1>6, <2>1, <2>2 DEF HoldsTile
  <2>5. k \in Nat /\ tile \in Int
    BY <1>2
  <2> QED BY <2>1, <2>3, <2>4, <2>5, EndsApart
<1>7. ASSUME RaggedEndpoints(s, m), NEW r \in 0 .. k - 1, HoldsTile(m, r, tile)
      PROVE  at = found(r)
  <2>1. r \in holding
    BY <1>7
  <2>2. Min(holding) \in holding
    BY <1>4, <2>1
  <2>3. Min(holding) \in 0 .. k - 1 /\ HoldsTile(m, Min(holding), tile)
    BY <2>2, Zenon
  <2>4. Min(holding) = r
    BY <1>6, <1>7, <2>3
  <2> QED BY <1>1, <1>7, <2>1, <2>4
<1> QED BY <1>5, <1>7 DEF at, k
-----------------------------------------------------------------------------
(* Tiled prefill: the places and the values of the partial states *)

\* The smallest of two numbers is the smaller one.
LEMMA SmallerOfTwo ==
  ASSUME NEW a \in Nat, NEW b \in Nat
  PROVE  Min({a, b}) = IF a <= b THEN a ELSE b
<1>1. Min({a, b}) \in {a, b} /\ \A y \in {a, b} : Min({a, b}) <= y
  <2>1. {a, b} \in SUBSET Nat /\ {a, b} # {}
    BY SMTT(30)
  <2> QED BY <2>1, SmallestMember, SMTT(30)
<1> QED BY <1>1

\* The tile of a request's query, the first query after it, the tokens of a
\* partition, and the partial state of the query, for a head.
TileOf(q) == q \div TiledQueryRows
TileEnd(m, r, q) == Min({TileOf(q) * TiledQueryRows + TiledQueryRows, Span(m.qo, r)})
TileRange(m, r, q, p) ==
  Share(Span(m.kv, r) - Span(m.qo, r) + TileEnd(m, r, q), TiledPartitions, p)
TileValue(s, m, r, q, head, p) ==
  TileState(RaggedTokens(m, r, KvHead(s, head), Span(m.kv, r)), TileRange(m, r, q, p),
            CausalCount(Span(m.qo, r), Span(m.kv, r), q))

\* What a CTA reads and writes of its tile.
FirstRange(m, r, first, p) ==
  Share(Span(m.kv, r) - Span(m.qo, r) + Min({first + TiledQueryRows, Span(m.qo, r)}), TiledPartitions, p)
TileReads(m, r, first, kvHead, p) ==
  Pick(RaggedTokens(m, r, kvHead, Span(m.kv, r)),
       UNION {StagedFrom(t, FirstRange(m, r, first, p)) : t \in Range(KvTileStarts(FirstRange(m, r, first, p)))})
TileWrites(s, m, r, first, kvHead, p) ==
  {Write(Partial(m.qo[r] + x.query, x.head, p),
         TileState(RaggedTokens(m, r, kvHead, Span(m.kv, r)), FirstRange(m, r, first, p),
                   CausalCount(Span(m.qo, r), Span(m.kv, r), x.query))) :
     x \in PackedRows(s, kvHead, first, Span(m.qo, r))}

BlockTile(s, b) == b \div (TiledPartitions * s.kvHeads)
BlockHead(s, b) == (b \div TiledPartitions) % s.kvHeads
BlockPart(b) == b % TiledPartitions

\* A CTA does what the tile it finds says, or nothing.
LEMMA TileEffect ==
  ASSUME NEW j, Tiled(j), NEW b
  PROVE  LET at == LocateTile(j.s, j.m, BlockTile(j.s, b))
         IN Cta(j, b) = IF at = NoTile THEN NoEffect
                        ELSE [reads  |-> TileReads(j.m, at.request, at.first, BlockHead(j.s, b), BlockPart(b)),
                              writes |-> TileWrites(j.s, j.m, at.request, at.first, BlockHead(j.s, b),
                                                    BlockPart(b))]
<1>1. Cta(j, b) = TiledPartials(j.s, j.m, b)
  BY DEF Cta, Tiled
<1> QED BY <1>1 DEF TiledPartials, TileReads, TileWrites, FirstRange, BlockTile, BlockHead, BlockPart

\* The packed rows of a tile are its queries, each with the heads of the KV
\* head.
LEMMA PackedRow ==
  ASSUME NEW s, NEW kvHead, NEW first \in Nat, NEW n \in Nat, TiledQueryRows \in Nat
  PROVE  /\ \A x \in PackedRows(s, kvHead, first, n) :
              \E q \in Nat, g \in 0 .. TiledGqaGroupSize - 1 :
                /\ x = [query |-> q, head |-> kvHead * TiledGqaGroupSize + g]
                /\ first <= q /\ q < first + TiledQueryRows /\ q < n
         /\ \A q \in Nat, g \in 0 .. TiledGqaGroupSize - 1 :
              first <= q /\ q < first + TiledQueryRows /\ q < n =>
                [query |-> q, head |-> kvHead * TiledGqaGroupSize + g] \in PackedRows(s, kvHead, first, n)
<1> DEFINE end == Min({first + TiledQueryRows, n})
           row(q, g) == [query |-> q, head |-> kvHead * TiledGqaGroupSize + g]
<1>1. end = IF first + TiledQueryRows <= n THEN first + TiledQueryRows ELSE n
  <2>1. first + TiledQueryRows \in Nat
    OBVIOUS
  <2> QED BY <2>1, SmallerOfTwo
<1>2. PackedRows(s, kvHead, first, n) = {row(q, g) : q \in first .. end - 1, g \in 0 .. TiledGqaGroupSize - 1}
  BY DEF PackedRows
<1> HIDE DEF end, row
<1>3. \A q \in Nat : q \in first .. end - 1 <=> first <= q /\ q < first + TiledQueryRows /\ q < n
  BY <1>1
<1>4. end \in Nat
  BY <1>1
<1>5. ASSUME NEW x \in PackedRows(s, kvHead, first, n)
      PROVE  \E q \in Nat, g \in 0 .. TiledGqaGroupSize - 1 :
                x = row(q, g) /\ first <= q /\ q < first + TiledQueryRows /\ q < n
  <2>1. PICK q \in first .. end - 1, g \in 0 .. TiledGqaGroupSize - 1 : x = row(q, g)
    BY <1>2
  <2>2. q \in Nat
    BY <1>4
  <2> QED BY <1>3, <2>1, <2>2
<1>6. ASSUME NEW q \in Nat, NEW g \in 0 .. TiledGqaGroupSize - 1, first <= q, q < first + TiledQueryRows, q < n
      PROVE  row(q, g) \in PackedRows(s, kvHead, first, n)
  BY <1>2, <1>3, <1>6
<1> QED BY <1>5, <1>6 DEF row

\* The queries of a tile.
LEMMA QueriesOfTile ==
  ASSUME TiledQueryRows \in Nat \ {0}, NEW i \in Nat, NEW q \in Nat
  PROVE  /\ i * TiledQueryRows \in Nat
         /\ i * TiledQueryRows <= q /\ q < i * TiledQueryRows + TiledQueryRows <=> TileOf(q) = i
BY UnitOf DEF TileOf

\* A write of the tile, by its query and head.
TileStore(s, m, r, i, kvHead, kvHeads, p, w) ==
  \E q \in 0 .. Span(m.qo, r) - 1, head \in 0 .. kvHeads * TiledGqaGroupSize - 1 :
    /\ TileOf(q) = i /\ head \div TiledGqaGroupSize = kvHead
    /\ w = Write(Partial(m.qo[r] + q, head, p), TileValue(s, m, r, q, head, p))

\* Its writes are the values of its queries.
LEMMA TileWritten ==
  ASSUME NEW s, \A h : KvHead(s, h) = h \div TiledGqaGroupSize,
         NEW kvHeads \in Nat \ {0}, NEW kvHead \in 0 .. kvHeads - 1,
         TiledQueryRows \in Nat \ {0}, TiledGqaGroupSize \in Nat \ {0},
         NEW m, NEW r, Span(m.qo, r) \in Nat, NEW i \in Nat, NEW p
  PROVE  /\ \A w \in TileWrites(s, m, r, i * TiledQueryRows, kvHead, p) :
              TileStore(s, m, r, i, kvHead, kvHeads, p, w)
         /\ \A q \in 0 .. Span(m.qo, r) - 1, head \in Nat :
              TileOf(q) = i /\ head \div TiledGqaGroupSize = kvHead =>
                Write(Partial(m.qo[r] + q, head, p), TileValue(s, m, r, q, head, p))
                  \in TileWrites(s, m, r, i * TiledQueryRows, kvHead, p)
<1> DEFINE first == i * TiledQueryRows
           n == Span(m.qo, r)
           value(q) == TileState(RaggedTokens(m, r, kvHead, Span(m.kv, r)), FirstRange(m, r, first, p),
                                 CausalCount(Span(m.qo, r), Span(m.kv, r), q))
           write(x) == Write(Partial(m.qo[r] + x.query, x.head, p), value(x.query))
<1>1. TileWrites(s, m, r, first, kvHead, p) = {write(x) : x \in PackedRows(s, kvHead, first, n)}
  BY DEF TileWrites
<1>2. ASSUME NEW q \in Nat, NEW head, TileOf(q) = i, head \div TiledGqaGroupSize = kvHead
      PROVE  value(q) = TileValue(s, m, r, q, head, p)
  <2>1. FirstRange(m, r, first, p) = TileRange(m, r, q, p)
    BY <1>2 DEF FirstRange, TileRange, TileEnd
  <2>2. KvHead(s, head) = kvHead
    BY <1>2
  <2> QED BY <2>1, <2>2 DEF TileValue
<1>3. first \in Nat
  BY QueriesOfTile
<1>4. /\ \A x \in PackedRows(s, kvHead, first, n) :
           \E q \in Nat, g \in 0 .. TiledGqaGroupSize - 1 :
             /\ x = [query |-> q, head |-> kvHead * TiledGqaGroupSize + g]
             /\ first <= q /\ q < first + TiledQueryRows /\ q < n
      /\ \A q \in Nat, g \in 0 .. TiledGqaGroupSize - 1 :
           first <= q /\ q < first + TiledQueryRows /\ q < n =>
             [query |-> q, head |-> kvHead * TiledGqaGroupSize + g] \in PackedRows(s, kvHead, first, n)
  <2> HIDE DEF first, n
  <2>1. n \in Nat /\ TiledQueryRows \in Nat
    BY DEF n
  <2> QED BY <1>3, <2>1, PackedRow
<1>5. \A q \in Nat : first <= q /\ q < first + TiledQueryRows <=> TileOf(q) = i
  BY QueriesOfTile
<1> HIDE DEF first, value
<1>6. ASSUME NEW w \in TileWrites(s, m, r, first, kvHead, p)
      PROVE  \E q \in 0 .. n - 1, head \in 0 .. kvHeads * TiledGqaGroupSize - 1 :
               /\ TileOf(q) = i /\ head \div TiledGqaGroupSize = kvHead
               /\ w = Write(Partial(m.qo[r] + q, head, p), TileValue(s, m, r, q, head, p))
  <2>1. PICK x \in PackedRows(s, kvHead, first, n) : w = write(x)
    BY <1>1
  <2>2. PICK q \in Nat, g \in 0 .. TiledGqaGroupSize - 1 :
          /\ x = [query |-> q, head |-> kvHead * TiledGqaGroupSize + g]
          /\ first <= q /\ q < first + TiledQueryRows /\ q < n
    BY <1>4, <2>1
  <2> DEFINE head == kvHead * TiledGqaGroupSize + g
  <2>3. head \in 0 .. kvHeads * TiledGqaGroupSize - 1 /\ head \div TiledGqaGroupSize = kvHead
    <3>1. g \in 0 .. TiledGqaGroupSize - 1 /\ kvHeads \in Nat
      BY <2>2
    <3> HIDE DEF head
    <3>2. /\ kvHead * TiledGqaGroupSize + g \in 0 .. kvHeads * TiledGqaGroupSize - 1
          /\ (kvHead * TiledGqaGroupSize + g) \div TiledGqaGroupSize = kvHead
      BY <3>1, GridCta
    <3> QED BY <3>2 DEF head
  <2>4. x.query = q /\ x.head = head
    BY <2>2
  <2> HIDE DEF head, n
  <2>5. TileOf(q) = i
    BY <1>5, <2>2
  <2>6. w = Write(Partial(m.qo[r] + q, head, p), TileValue(s, m, r, q, head, p))
    BY <1>2, <2>1, <2>3, <2>4, <2>5
  <2>7. q \in 0 .. n - 1
    BY <2>2 DEF n
  <2> QED BY <2>3, <2>5, <2>6, <2>7
<1>7. ASSUME NEW q \in 0 .. n - 1, NEW head \in Nat, TileOf(q) = i, head \div TiledGqaGroupSize = kvHead
      PROVE  Write(Partial(m.qo[r] + q, head, p), TileValue(s, m, r, q, head, p))
               \in TileWrites(s, m, r, first, kvHead, p)
  <2> DEFINE g == head % TiledGqaGroupSize
  <2>1. g \in 0 .. TiledGqaGroupSize - 1 /\ head = TiledGqaGroupSize * kvHead + g
    BY <1>7, Division
  <2>2. TiledGqaGroupSize * kvHead = kvHead * TiledGqaGroupSize
    BY SMT
  <2> HIDE DEF g
  <2> DEFINE x == [query |-> q, head |-> kvHead * TiledGqaGroupSize + g]
  <2>3. q \in Nat /\ q < n
    OBVIOUS
  <2>4. x \in PackedRows(s, kvHead, first, n)
    <3> HIDE DEF x, n
    <3>1. first <= q /\ q < first + TiledQueryRows
      BY <1>5, <1>7, <2>3
    <3> QED BY <1>4, <2>1, <2>3, <3>1 DEF x
  <2>5. x.query = q /\ x.head = head
    BY <2>1, <2>2
  <2> HIDE DEF x
  <2>6. write(x) \in TileWrites(s, m, r, first, kvHead, p)
    BY <1>1, <2>4
  <2>7. value(q) = TileValue(s, m, r, q, head, p)
    BY <1>2, <1>7, <2>3
  <2> QED BY <2>5, <2>6, <2>7
<1>8. \A w \in TileWrites(s, m, r, first, kvHead, p) : TileStore(s, m, r, i, kvHead, kvHeads, p, w)
  BY <1>6, Zenon DEF TileStore
<1> QED BY <1>7, <1>8 DEF first
-----------------------------------------------------------------------------
(* Tiled prefill: the first kernel *)

\* A block is a tile, a KV head and a partition.
LEMMA TiledBlock ==
  ASSUME NEW s, s.kvHeads \in Nat \ {0}, TiledPartitions \in Nat \ {0}, NEW b \in Nat
  PROVE  /\ BlockTile(s, b) \in Nat /\ BlockHead(s, b) \in 0 .. s.kvHeads - 1
         /\ BlockPart(b) \in 0 .. TiledPartitions - 1
         /\ \A c \in Nat : /\ BlockTile(s, b) = BlockTile(s, c) /\ BlockHead(s, b) = BlockHead(s, c)
                           /\ BlockPart(b) = BlockPart(c)
                           => b = c
<1>1. ASSUME NEW c \in Nat
      PROVE  /\ BlockTile(s, c) = (c \div TiledPartitions) \div s.kvHeads
             /\ c \div TiledPartitions \in Nat /\ c % TiledPartitions \in 0 .. TiledPartitions - 1
  BY TwiceDivided, Division DEF BlockTile
<1>2. ASSUME NEW x \in Nat
      PROVE  x \div s.kvHeads \in Nat /\ x % s.kvHeads \in 0 .. s.kvHeads - 1
  BY Division
<1>3. BlockTile(s, b) \in Nat /\ BlockHead(s, b) \in 0 .. s.kvHeads - 1
  BY <1>1, <1>2 DEF BlockHead
<1>4. ASSUME NEW c \in Nat, BlockTile(s, b) = BlockTile(s, c), BlockHead(s, b) = BlockHead(s, c),
             BlockPart(b) = BlockPart(c)
      PROVE  b = c
  <2> DEFINE x == b \div TiledPartitions
             y == c \div TiledPartitions
  <2>1. x \in Nat /\ y \in Nat /\ x \div s.kvHeads = y \div s.kvHeads /\ x % s.kvHeads = y % s.kvHeads
    BY <1>1, <1>4 DEF BlockHead
  <2> HIDE DEF x, y
  <2>2. x = y
    BY <2>1, GridApart
  <2>3. b % TiledPartitions = c % TiledPartitions
    BY <1>4 DEF BlockPart
  <2> QED BY <2>2, <2>3, GridApart DEF x, y
<1> QED BY <1>1, <1>3, <1>4 DEF BlockPart

\* The blocks of the grid.
LEMMA TiledGrid ==
  ASSUME NEW j \in Jobs, Tiled(j), Accepted(j), NEW b \in 0 .. Grid(j) - 1
  PROVE  b \in Nat
<1> DEFINE x == CeilDiv(j.s.nnzQo, TiledQueryRows) + j.s.batch - 1
<1>1. /\ j.s.batch \in Nat \ {0} /\ j.s.kvHeads \in Nat /\ TiledPartitions \in Nat
      /\ CeilDiv(j.s.nnzQo, TiledQueryRows) \in Nat /\ Grid(j) = x * j.s.kvHeads * TiledPartitions
  BY TiledJob, UnitsThatHold DEF TileBound
<1>2. x \in Int
  BY <1>1
<1> HIDE DEF x
<1>3. x * j.s.kvHeads \in Int
  BY <1>1, <1>2, SMT
<1>4. (x * j.s.kvHeads) * TiledPartitions \in Int
  BY <1>1, <1>3, SMT
<1> QED BY <1>1, <1>4

\* A write of a CTA, by its request, query and head.
TiledWrite(j, b, w, r, q, head) ==
  /\ r \in 0 .. SoundUpTo(j.s, j.m) - 1 /\ q \in 0 .. Span(j.m.qo, r) - 1 /\ head \in OutputColumns(j)
  /\ TileOf(q) = BlockTile(j.s, b) - TilesBefore(j.m, r)
  /\ head \div TiledGqaGroupSize = BlockHead(j.s, b)
  /\ w = Write(Partial(j.m.qo[r] + q, head, BlockPart(b)), TileValue(j.s, j.m, r, q, head, BlockPart(b)))

\* The requests that are searched, for a tiled call.
LEMMA TiledRequests ==
  ASSUME NEW j \in Jobs, Tiled(j), Accepted(j)
  PROVE  LET k == SoundUpTo(j.s, j.m)
         IN k \in 0 .. j.s.batch /\ SoundBefore(j.s, j.m, k) /\ InOrder(j.s, j.m, k)
<1>1. j.s.batch \in Nat /\ j.s.nnzQo \in Nat /\ j.m.qo \in [0 .. j.s.batch -> Int]
  BY TiledJob
<1>2. SoundUpTo(j.s, j.m) \in 0 .. j.s.batch /\ SoundBefore(j.s, j.m, SoundUpTo(j.s, j.m))
  BY <1>1, SoundThen
<1> DEFINE k == SoundUpTo(j.s, j.m)
<1> HIDE DEF k
<1>3. k \in 0 .. j.s.batch /\ SoundBefore(j.s, j.m, k)
  BY <1>2 DEF k
<1>4. InOrder(j.s, j.m, k)
  BY <1>1, <1>3, SoundPrefix
<1> QED BY <1>3, <1>4 DEF k

\* Every write of a CTA is of that kind.
LEMMA TiledCta ==
  ASSUME NEW j \in Jobs, Tiled(j), Accepted(j), NEW b \in 0 .. Grid(j) - 1,
         NEW w \in Cta(j, b).writes
  PROVE  \E r, q, head : TiledWrite(j, b, w, r, q, head)
<1> DEFINE at == LocateTile(j.s, j.m, BlockTile(j.s, b))
           k == SoundUpTo(j.s, j.m)
           r == at.request
           i == BlockTile(j.s, b) - TilesBefore(j.m, r)
           kvHead == BlockHead(j.s, b)
           p == BlockPart(b)
<1>1. /\ j.s.batch \in Nat /\ j.s.nnzQo \in Nat /\ j.m.qo \in [0 .. j.s.batch -> Int]
      /\ j.s.kvHeads \in Nat \ {0} /\ TiledPartitions \in Nat \ {0}
      /\ TiledQueryRows \in Nat \ {0} /\ TiledGqaGroupSize \in Nat \ {0}
      /\ j.s.queryHeads = j.s.kvHeads * TiledGqaGroupSize
      /\ \A head : KvHead(j.s, head) = head \div TiledGqaGroupSize
      /\ OutputColumns(j) = 0 .. j.s.queryHeads - 1
  BY TiledJob
<1>2. b \in Nat
  BY TiledGrid
<1>3. BlockTile(j.s, b) \in Nat /\ kvHead \in 0 .. j.s.kvHeads - 1
  BY <1>1, <1>2, TiledBlock
<1>4. /\ at # NoTile
      /\ Cta(j, b).writes = TileWrites(j.s, j.m, r, at.first, kvHead, p)
  <2>1. Cta(j, b) = IF at = NoTile THEN NoEffect
                    ELSE [reads  |-> TileReads(j.m, r, at.first, kvHead, p),
                          writes |-> TileWrites(j.s, j.m, r, at.first, kvHead, p)]
    BY TileEffect
  <2> HIDE DEF at, r, kvHead, p
  <2> QED BY <2>1 DEF NoEffect
<1>5. r \in 0 .. k - 1 /\ HoldsTile(j.m, r, BlockTile(j.s, b)) /\ at.first = i * TiledQueryRows
  BY <1>1, <1>3, <1>4, TileLocated
<1> HIDE DEF at, r, k
<1>6. Span(j.m.qo, r) \in Nat /\ TilesBefore(j.m, r) \in Nat
  BY <1>5, TiledRequests DEF k, InOrder
<1>7. i \in Nat
  BY <1>3, <1>5, <1>6 DEF HoldsTile
<1> HIDE DEF i, kvHead, p
<1>8. PICK q \in 0 .. Span(j.m.qo, r) - 1, head \in 0 .. j.s.kvHeads * TiledGqaGroupSize - 1 :
        /\ TileOf(q) = i /\ head \div TiledGqaGroupSize = kvHead
        /\ w = Write(Partial(j.m.qo[r] + q, head, p), TileValue(j.s, j.m, r, q, head, p))
  <2> DEFINE first == at.first
             kvHeads == j.s.kvHeads
  <2>1. w \in TileWrites(j.s, j.m, r, first, kvHead, p) /\ first = i * TiledQueryRows
    BY <1>4, <1>5
  <2>2. kvHead \in 0 .. kvHeads - 1 /\ kvHeads \in Nat \ {0}
    BY <1>1, <1>3 DEF kvHead
  <2> HIDE DEF first, kvHeads
  <2>3. TileStore(j.s, j.m, r, i, kvHead, kvHeads, p, w)
    <3>1. \A x \in TileWrites(j.s, j.m, r, i * TiledQueryRows, kvHead, p) :
            TileStore(j.s, j.m, r, i, kvHead, kvHeads, p, x)
      BY <1>1, <1>6, <1>7, <2>2, TileWritten
    <3> QED BY <2>1, <3>1
  <2> QED BY <2>3 DEF TileStore, kvHeads
<1>9. head \in OutputColumns(j)
  BY <1>1
<1>10. TiledWrite(j, b, w, r, q, head)
  BY <1>5, <1>8, <1>9 DEF TiledWrite, i, kvHead, p, k
<1> QED BY <1>10

\* Where a write goes.
LEMMA TiledPlace ==
  ASSUME NEW j \in Jobs, Tiled(j), Accepted(j), NEW b, NEW w, NEW r, NEW q, NEW head,
         TiledWrite(j, b, w, r, q, head)
  PROVE  LET row == j.m.qo[r] + q
         IN /\ w.at = Partial(row, head, BlockPart(b)) /\ row \in OutputRows(j)
            /\ j.m.qo[r] <= row /\ row < j.m.qo[r + 1] /\ j.m.qo[r] \in Int /\ row \in Int
<1>1. r \in 0 .. SoundUpTo(j.s, j.m) - 1 /\ q \in 0 .. Span(j.m.qo, r) - 1
  BY DEF TiledWrite
<1>2. /\ j.m.qo[r] \in Int /\ j.m.qo[r + 1] \in Int /\ 0 <= j.m.qo[r] /\ j.m.qo[r + 1] <= j.s.nnzQo
  BY <1>1, TiledRequests DEF InOrder
<1>3. OutputRows(j) = 0 .. j.s.nnzQo - 1 /\ j.s.nnzQo \in Nat
  BY TiledJob
<1>4. w.at = Partial(j.m.qo[r] + q, head, BlockPart(b))
  BY DEF TiledWrite, Write
<1>5. q \in Nat /\ q < j.m.qo[r + 1] - j.m.qo[r]
  BY <1>1, <1>2 DEF Span
<1> DEFINE x == j.m.qo[r]
           y == j.m.qo[r + 1]
<1>6. x \in Int /\ y \in Int /\ 0 <= x /\ y <= j.s.nnzQo /\ q \in Nat /\ q < y - x
  BY <1>2, <1>5
<1> HIDE DEF x, y
<1>7. x + q \in 0 .. j.s.nnzQo - 1 /\ x <= x + q /\ x + q < y /\ x + q \in Int
  BY <1>3, <1>6
<1> QED BY <1>3, <1>4, <1>6, <1>7 DEF x, y

\* Two writes to one place are of one request, query and head.
LEMMA TiledSame ==
  ASSUME NEW j \in Jobs, Tiled(j), Accepted(j),
         NEW b, NEW v, NEW r, NEW q, NEW head, TiledWrite(j, b, v, r, q, head),
         NEW c, NEW w, NEW rr, NEW qq, NEW hh, TiledWrite(j, c, w, rr, qq, hh), v.at = w.at
  PROVE  r = rr /\ q = qq /\ head = hh /\ BlockPart(b) = BlockPart(c)
<1> DEFINE x == j.m.qo[r] + q
           y == j.m.qo[rr] + qq
<1>1. /\ v.at = Partial(x, head, BlockPart(b)) /\ j.m.qo[r] <= x /\ x < j.m.qo[r + 1]
      /\ j.m.qo[r] \in Int /\ x \in Int
  BY TiledPlace
<1>2. /\ w.at = Partial(y, hh, BlockPart(c)) /\ j.m.qo[rr] <= y /\ y < j.m.qo[rr + 1]
      /\ j.m.qo[rr] \in Int /\ y \in Int
  BY TiledPlace
<1>3. x = y /\ head = hh /\ BlockPart(b) = BlockPart(c)
  <2> HIDE DEF x, y
  <2>1. Partial(x, head, BlockPart(b)) = Partial(y, hh, BlockPart(c))
    BY <1>1, <1>2
  <2> QED BY <2>1 DEF Partial
<1>4. /\ r \in 0 .. SoundUpTo(j.s, j.m) - 1 /\ q \in 0 .. Span(j.m.qo, r) - 1
      /\ rr \in 0 .. SoundUpTo(j.s, j.m) - 1 /\ qq \in 0 .. Span(j.m.qo, rr) - 1
  BY DEF TiledWrite
<1>5. r = rr
  <2> HIDE DEF x, y
  <2> QED BY <1>1, <1>2, <1>3, <1>4, TiledRequests DEF InOrder
<1>6. q = qq
  <2>1. j.m.qo[r] + q = j.m.qo[r] + qq
    BY <1>3, <1>5
  <2>2. Span(j.m.qo, r) \in Nat
    BY <1>4, TiledRequests DEF InOrder
  <2>3. q \in Int /\ qq \in Int
    BY <1>4, <1>5, <2>2
  <2> DEFINE a == j.m.qo[r]
  <2> HIDE DEF a
  <2>4. a \in Int /\ a + q = a + qq
    BY <1>1, <2>1 DEF a
  <2> QED BY <2>3, <2>4
<1> QED BY <1>3, <1>5, <1>6
-----------------------------------------------------------------------------
(* Tiled prefill: the partial states are apart and within bounds *)

\* The ends of an interval.
LEMMA IntervalEnds ==
  ASSUME NEW a \in Int, NEW c \in Int, a <= c
  PROVE  Min(a .. c) = a /\ Max(a .. c) = c
<1>1. a \in a .. c /\ c \in a .. c /\ \A y \in a .. c : y \in Int /\ a <= y /\ y <= c
  OBVIOUS
<1> DEFINE S == a .. c
<1>2. \E x \in S : \A y \in S : x <= y
  BY <1>1
<1>3. \E x \in S : \A y \in S : x >= y
  BY <1>1
<1> HIDE DEF S
<1>4. Min(S) \in S /\ \A y \in S : Min(S) <= y
  BY <1>2, Zenon DEF Min
<1>5. Max(S) \in S /\ \A y \in S : Max(S) >= y
  BY <1>3, Zenon DEF Max
<1>6. Min(S) \in Int /\ Min(S) <= a /\ a <= Min(S)
  BY <1>1, <1>4 DEF S
<1>7. Max(S) \in Int /\ Max(S) <= c /\ c <= Max(S)
  BY <1>1, <1>5 DEF S
<1> QED BY <1>6, <1>7 DEF S

\* A share of a partition's tokens, by its ends.
LEMMA ShareInterval ==
  ASSUME NEW n \in Nat, NEW k \in Nat \ {0}, NEW i \in 0 .. k - 1
  PROVE  \E a, c \in Int : /\ Share(n, k, i) = a .. c - 1
                           /\ 0 <= a /\ a <= c /\ c <= n
<1> DEFINE e == [x \in 0 .. k |-> ShareStart(n, k, x)]
<1>1. /\ e \in [0 .. k -> Int] /\ e[0] = 0 /\ e[k] = n
      /\ \A x \in 0 .. k - 1 : e[x] <= e[x + 1]
  BY ShareEnds
<1>2. Share(n, k, i) = e[i] .. e[i + 1] - 1
  BY DEF Share
<1> HIDE DEF e
<1>3. \A x, y \in 0 .. k : x <= y => e[x] <= e[y]
  BY <1>1, EndsGrow
<1>4. e[i] \in Int /\ e[i + 1] \in Int /\ e[0] <= e[i] /\ e[i + 1] <= e[k] /\ e[i] <= e[i + 1]
  BY <1>1, <1>3
<1> QED BY <1>1, <1>2, <1>4

\* The tiles of the tokens from a to c - 1.
LEMMA KvTiles ==
  ASSUME NEW a \in Nat, NEW c \in Nat, a <= c, TiledKvRows \in Nat \ {0}
  PROVE  LET n == CeilDiv(c - a, TiledKvRows)
         IN /\ n \in Nat /\ KvTileStarts(a .. c - 1) = [i \in 1 .. n |-> Min(a .. c - 1) + (i - 1) * TiledKvRows]
            /\ n > 0 => /\ a < c /\ Min(a .. c - 1) = a /\ Max(a .. c - 1) = c - 1
                        /\ \A i \in 1 .. n : (i - 1) * TiledKvRows \in Nat
<1> DEFINE n == CeilDiv(c - a, TiledKvRows)
<1>1. c - a \in Nat
  OBVIOUS
<1>2. n \in Nat /\ (c - a = 0 => n = 0)
  BY <1>1, UnitsThatHold
<1>3. Cardinality(a .. c - 1) = c - a
  <2> DEFINE d == c - 1
  <2>1. d \in Int /\ a \in Int
    OBVIOUS
  <2>2. d - a + 1 = c - a /\ (a > d => c - a = 0)
    OBVIOUS
  <2> HIDE DEF d
  <2>3. Cardinality(a .. d) = IF a > d THEN 0 ELSE d - a + 1
    BY <2>1, FS_Interval
  <2> QED BY <2>2, <2>3 DEF d
<1>4. KvTileStarts(a .. c - 1) = [i \in 1 .. n |-> Min(a .. c - 1) + (i - 1) * TiledKvRows]
  BY <1>3 DEF KvTileStarts
<1> HIDE DEF n
<1>5. n > 0 => a < c /\ Min(a .. c - 1) = a /\ Max(a .. c - 1) = c - 1
  BY <1>1, <1>2, IntervalEnds
<1>6. \A i \in 1 .. n : (i - 1) * TiledKvRows \in Nat
  <2> TAKE i \in 1 .. n
  <2>1. i - 1 \in Nat
    BY <1>2
  <2> DEFINE d == i - 1
  <2> HIDE DEF d
  <2>2. d * TiledKvRows \in Nat
    BY <2>1, SMT DEF d
  <2> QED BY <2>2 DEF d
<1> QED BY <1>2, <1>4, <1>5, <1>6 DEF n

\* A CTA stages tokens of its request.
LEMMA StagedTokens ==
  ASSUME NEW n \in Nat, NEW p \in 0 .. TiledPartitions - 1, TiledPartitions \in Nat \ {0},
         TiledKvRows \in Nat \ {0}, NEW range, range = Share(n, TiledPartitions, p),
         NEW t \in Range(KvTileStarts(range)), NEW x \in StagedFrom(t, range)
  PROVE  x \in 0 .. n - 1
<1>1. PICK a \in Int, c \in Int : range = a .. c - 1 /\ 0 <= a /\ a <= c /\ c <= n
  BY ShareInterval
<1> DEFINE k == CeilDiv(c - a, TiledKvRows)
           low == Min(range)
           high == Max(range)
<1>2. /\ k \in Nat /\ KvTileStarts(range) = [i \in 1 .. k |-> low + (i - 1) * TiledKvRows]
      /\ k > 0 => /\ a < c /\ low = a /\ high = c - 1
                  /\ \A i \in 1 .. k : (i - 1) * TiledKvRows \in Nat
  <2>1. a \in Nat /\ c \in Nat
    BY <1>1
  <2> QED BY <1>1, <2>1, KvTiles
<1> HIDE DEF k, low
<1>3. PICK i \in 1 .. k : t = low + (i - 1) * TiledKvRows
  BY <1>2 DEF Range
<1>4. a < c /\ low = a /\ high = c - 1 /\ (i - 1) * TiledKvRows \in Nat
  BY <1>2
<1> DEFINE d == (i - 1) * TiledKvRows
<1> HIDE DEF d
<1>5. t \in Nat
  <2>1. t = a + d /\ d \in Nat
    BY <1>3, <1>4 DEF d
  <2> QED BY <1>1, <2>1
<1>6. PICK y \in t .. t + TiledKvRows - 1 : x = Min({y, high})
  BY DEF StagedFrom
<1> HIDE DEF high
<1>7. high \in Nat /\ high <= n - 1
  BY <1>1, <1>4
<1>8. y \in Nat
  BY <1>5
<1>9. x = IF y <= high THEN y ELSE high
  BY <1>6, <1>7, <1>8, SmallerOfTwo
<1> QED BY <1>7, <1>8, <1>9

\* What it reads of them is in the buffer.
LEMMA TileReadable ==
  ASSUME NEW j, j.family = "ragged", j.s.nnzKv \in Nat, NEW r, RequestInBounds(j.s, j.m, r),
         j.m.qo[r] \in Int, j.m.qo[r + 1] \in Int, j.m.kv[r] \in Int, j.m.kv[r + 1] \in Int,
         NEW first \in Nat, NEW kvHead \in 0 .. j.s.kvHeads - 1, NEW p \in 0 .. TiledPartitions - 1,
         TiledPartitions \in Nat \ {0}, TiledKvRows \in Nat \ {0}, TiledQueryRows \in Nat,
         NEW x \in TileReads(j.m, r, first, kvHead, p)
  PROVE  Readable(j, x)
<1> DEFINE n == Span(j.m.kv, r)
           u == Span(j.m.qo, r)
           kv == j.m.kv[r]
           count == n - u + Min({first + TiledQueryRows, u})
           range == FirstRange(j.m, r, first, p)
           tokens == RaggedTokens(j.m, r, kvHead, n)
<1>1. n \in Nat /\ u \in Nat /\ u <= n /\ 0 <= kv /\ kv \in Int /\ kv + n <= j.s.nnzKv
  BY DEF RequestInBounds, Span
<1>2. count \in 0 .. n
  <2> HIDE DEF n, u
  <2>1. first + TiledQueryRows \in Nat
    OBVIOUS
  <2>2. Min({first + TiledQueryRows, u}) = IF first + TiledQueryRows <= u THEN first + TiledQueryRows ELSE u
    BY <1>1, <2>1, SmallerOfTwo
  <2> QED BY <1>1, <2>1, <2>2
<1>3. range = Share(count, TiledPartitions, p)
  BY DEF FirstRange
<1> HIDE DEF range
<1>4. PICK t \in Range(KvTileStarts(range)) : \E z \in StagedFrom(t, range) : x = tokens[z]
  <2> HIDE DEF tokens
  <2>1. TileReads(j.m, r, first, kvHead, p)
          = Pick(tokens, UNION {StagedFrom(t, range) : t \in Range(KvTileStarts(range))})
    BY DEF TileReads, tokens, range
  <2> QED BY <2>1 DEF Pick
<1>5. PICK y \in StagedFrom(t, range) : x = tokens[y]
  BY <1>4
<1> HIDE DEF count
<1>6. y \in 0 .. count - 1
  <2>1. count \in Nat
    BY <1>1, <1>2
  <2> QED BY <1>3, <2>1, StagedTokens
<1>7. y \in 0 .. n - 1
  BY <1>1, <1>2, <1>6
<1>8. tokens[y] = <<y, kv + y, kvHead>>
  BY <1>7 DEF RaggedTokens
<1> HIDE DEF tokens, n, kv
<1>9. x[2] = kv + y /\ x[3] = kvHead
  BY <1>8, <1>5
<1>10. x[2] \in 0 .. j.s.nnzKv - 1
  BY <1>1, <1>7, <1>9
<1> QED BY <1>9, <1>10 DEF Readable

\* No two CTAs of the first kernel write a place of the workspace, and each
\* stays inside the buffers.
LEMMA TiledApart ==
  ASSUME NEW j \in Jobs, Tiled(j), Accepted(j)
  PROVE  Apart(Effects(j)) /\ Inside(j, Effects(j))
<1>1. /\ j.s.batch \in Nat /\ j.s.nnzQo \in Nat /\ j.s.nnzKv \in Nat /\ j.s.kvHeads \in Nat \ {0}
      /\ TiledQueryRows \in Nat \ {0} /\ TiledKvRows \in Nat \ {0} /\ TiledPartitions \in Nat \ {0}
      /\ j.m.qo \in [0 .. j.s.batch -> Int] /\ j.m.kv \in [0 .. j.s.batch -> Int]
      /\ Partitions(j) = 0 .. TiledPartitions - 1
  BY TiledJob
<1>2. ASSUME NEW b \in 0 .. Grid(j) - 1
      PROVE  /\ b \in Nat /\ BlockTile(j.s, b) \in Nat /\ BlockHead(j.s, b) \in 0 .. j.s.kvHeads - 1
             /\ BlockPart(b) \in 0 .. TiledPartitions - 1
  BY <1>1, TiledGrid, TiledBlock
<1>3. ASSUME NEW b \in 0 .. Grid(j) - 1, NEW c \in 0 .. Grid(j) - 1,
             NEW v \in Cta(j, b).writes, NEW w \in Cta(j, c).writes, v.at = w.at
      PROVE  b = c
  <2>1. PICK r, q, head : TiledWrite(j, b, v, r, q, head)
    BY TiledCta
  <2>2. PICK rr, qq, hh : TiledWrite(j, c, w, rr, qq, hh)
    BY TiledCta
  <2>3. r = rr /\ q = qq /\ head = hh /\ BlockPart(b) = BlockPart(c)
    BY <1>3, <2>1, <2>2, TiledSame
  <2>4. BlockHead(j.s, b) = BlockHead(j.s, c)
    BY <2>1, <2>2, <2>3 DEF TiledWrite
  <2>5. BlockTile(j.s, b) = BlockTile(j.s, c)
    <3>1. BlockTile(j.s, b) - TilesBefore(j.m, r) = BlockTile(j.s, c) - TilesBefore(j.m, r)
      BY <2>1, <2>2, <2>3 DEF TiledWrite
    <3>2. TilesBefore(j.m, r) \in Nat
      BY <2>1, TiledRequests DEF TiledWrite, InOrder
    <3>3. BlockTile(j.s, b) \in Nat /\ BlockTile(j.s, c) \in Nat
      BY <1>2
    <3> QED BY <3>1, <3>2, <3>3
  <2>6. b \in Nat /\ c \in Nat
    BY <1>2
  <2> QED BY <1>1, <2>3, <2>4, <2>5, <2>6, TiledBlock
<1>4. ASSUME NEW b \in 0 .. Grid(j) - 1, NEW x \in Cta(j, b).reads
      PROVE  Readable(j, x)
  <2> DEFINE at == LocateTile(j.s, j.m, BlockTile(j.s, b))
             k == SoundUpTo(j.s, j.m)
             r == at.request
             first == at.first
             kvHead == BlockHead(j.s, b)
             p == BlockPart(b)
  <2>1. at # NoTile /\ Cta(j, b).reads = TileReads(j.m, r, first, kvHead, p)
    <3>1. Cta(j, b) = IF at = NoTile THEN NoEffect
                      ELSE [reads  |-> TileReads(j.m, r, first, kvHead, p),
                            writes |-> TileWrites(j.s, j.m, r, first, kvHead, p)]
      BY TileEffect DEF Tiled
    <3> HIDE DEF at, r, first, kvHead, p
    <3> QED BY <3>1 DEF NoEffect
  <2>2. /\ r \in 0 .. k - 1 /\ HoldsTile(j.m, r, BlockTile(j.s, b))
        /\ first = (BlockTile(j.s, b) - TilesBefore(j.m, r)) * TiledQueryRows
    BY <1>1, <1>2, <2>1, TileLocated, ZenonT(40)
  <2>3. kvHead \in 0 .. j.s.kvHeads - 1 /\ p \in 0 .. TiledPartitions - 1
    BY <1>2
  <2> HIDE DEF at, r, first, kvHead, p, k
  <2>4. k \in 0 .. j.s.batch /\ SoundBefore(j.s, j.m, k) /\ InOrder(j.s, j.m, k)
    BY TiledRequests DEF k
  <2>5. RequestInBounds(j.s, j.m, r)
    BY <2>2, <2>4 DEF SoundBefore
  <2>6. r \in 0 .. j.s.batch /\ r + 1 \in 0 .. j.s.batch
    BY <1>1, <2>2, <2>4, SMTT(30)
  <2>7. first \in Nat
    <3> DEFINE i == BlockTile(j.s, b) - TilesBefore(j.m, r)
    <3>1. TilesBefore(j.m, r) \in Nat
      BY <2>2, <2>4 DEF InOrder
    <3>2. i \in Nat
      BY <1>2, <2>2, <3>1 DEF HoldsTile
    <3> HIDE DEF i
    <3>3. i * TiledQueryRows \in Nat
      BY <1>1, <3>2, SMT
    <3> QED BY <2>2, <3>3 DEF i
  <2>8. j.m.qo[r] \in Int /\ j.m.qo[r + 1] \in Int /\ j.m.kv[r] \in Int /\ j.m.kv[r + 1] \in Int
    BY <1>1, <2>6, SMTT(30)
  <2>9. x \in TileReads(j.m, r, first, kvHead, p)
    BY <2>1
  <2>10. j.family = "ragged" /\ TiledQueryRows \in Nat
    BY <1>1 DEF Tiled
  <2> QED BY <1>1, <2>3, <2>5, <2>7, <2>8, <2>9, <2>10, TileReadable
<1>5. ASSUME NEW b \in 0 .. Grid(j) - 1, NEW w \in Cta(j, b).writes
      PROVE  w.at \in Places(j)
  <2>1. PICK r, q, head : TiledWrite(j, b, w, r, q, head)
    BY TiledCta
  <2>2. w.at = Partial(j.m.qo[r] + q, head, BlockPart(b)) /\ j.m.qo[r] + q \in OutputRows(j)
    BY <2>1, TiledPlace
  <2>3. head \in OutputColumns(j) /\ BlockPart(b) \in Partitions(j)
    BY <1>1, <1>2, <2>1 DEF TiledWrite
  <2> QED BY <2>2, <2>3 DEF Places
<1>6. DOMAIN Effects(j) = 0 .. Grid(j) - 1 /\ \A b \in 0 .. Grid(j) - 1 : Effects(j)[b] = Cta(j, b)
  BY DEF Effects
<1>7. Apart(Effects(j))
  BY <1>3, <1>6 DEF Apart
<1>8. Inside(j, Effects(j))
  BY <1>4, <1>5, <1>6 DEF Inside
<1> QED BY <1>7, <1>8
-----------------------------------------------------------------------------
(* One writer, within bounds *)

\* The first kernel of a call.
LEMMA EffectsApart ==
  ASSUME NEW j \in Jobs, Accepted(j)
  PROVE  Apart(Effects(j)) /\ Inside(j, Effects(j))
<1>1. CASE j.family = "rms_norm"
  BY <1>1, RmsApart
<1>2. CASE j.family = "rope"
  BY <1>2, RopeHeadsApart
<1>3. CASE Attention(j) /\ ~HasMerge(j)
  BY <1>3, StatesApart
<1>4. CASE Attention(j) /\ HasMerge(j)
  <2>1. j.family = "split_k" \/ Algorithm(j) = "TiledGqa4"
    BY <1>4, Algorithms
  <2>2. CASE j.family = "split_k"
    BY <2>2, SplitKApart
  <2>3. CASE Algorithm(j) = "TiledGqa4"
    <3>1. Tiled(j)
      BY <1>4, <2>3, Algorithms DEF Tiled
    <3> QED BY <3>1, TiledApart
  <2> QED BY <2>1, <2>2, <2>3
<1> QED BY <1>1, <1>2, <1>3, <1>4 DEF Attention

\* The kernel that ran last.
LEMMA LastKernel ==
  ASSUME Inductive
  PROVE  Apart(effects) /\ Inside(job, effects) /\ DOMAIN workspace = Places(job)
<1>1. job \in Jobs /\ DOMAIN workspace = Places(job)
  BY DEF Inductive
<1>2. CASE pc \in {"plan", "launch", "refused"}
  <2>1. effects = <<>>
    BY <1>2 DEF Inductive
  <2>2. DOMAIN effects = {}
    BY <2>1
  <2>3. Apart(effects) /\ Inside(job, effects)
    BY <2>2 DEF Apart, Inside
  <2> QED BY <1>1, <2>3
<1>3. CASE pc \in {"merge", "done"}
  <2>1. Accepted(job)
    BY <1>3 DEF Inductive
  <2>2. CASE effects = Effects(job)
    BY <1>1, <2>1, <2>2, EffectsApart
  <2>3. CASE effects # Effects(job)
    <3>1. HasMerge(job) /\ effects = [b \in 0 .. States(job.s) - 1 |-> MergeCta(job, b)]
      BY <1>3, <2>3 DEF Inductive
    <3> DEFINE f == [b \in 0 .. States(job.s) - 1 |-> MergeCta(job, b)]
    <3>2. Apart(f) /\ Inside(job, f)
      BY <1>1, <2>1, <3>1, MergeApart
    <3> HIDE DEF f
    <3> QED BY <1>1, <3>1, <3>2 DEF f
  <2> QED BY <2>2, <2>3
<1> QED BY <1>2, <1>3 DEF Inductive

\* Whatever the metadata, no two CTAs of a kernel write the same element of
\* the output or of the workspace.
THEOREM WritersApart == Spec => []OneWriter
<1>1. Inductive => OneWriter
  <2> SUFFICES ASSUME Inductive PROVE OneWriter
    OBVIOUS
  <2>1. Apart(effects)
    BY LastKernel
  <2>2. ASSUME NEW b \in DOMAIN effects, NEW c \in DOMAIN effects, b # c
        PROVE  {w.at : w \in effects[b].writes} \cap {w.at : w \in effects[c].writes} = {}
    BY <2>1, <2>2 DEF Apart
  <2> QED BY <2>2 DEF OneWriter
<1> QED BY <1>1, InductiveInvariant, PTL

\* Whatever the metadata, no CTA reads an element or a page outside the
\* buffers, and none writes outside the output or the workspace.
THEOREM AccessesInBounds == Spec => []InBounds
<1>1. Inductive => InBounds
  <2> SUFFICES ASSUME Inductive PROVE InBounds
    OBVIOUS
  <2>1. Inside(job, effects) /\ DOMAIN workspace = Places(job)
    BY LastKernel
  <2>2. ASSUME NEW b \in DOMAIN effects, NEW w \in effects[b].writes
        PROVE  \/ w.at[1] = "output" /\ w.at[2] \in OutputRows(job) /\ w.at[3] \in OutputColumns(job)
               \/ w.at \in DOMAIN workspace
    <3>1. CASE w.at \in Places(job)
      BY <2>1, <3>1
    <3>2. CASE \E row \in OutputRows(job), column \in OutputColumns(job) : w.at = Output(row, column)
      BY <3>2 DEF Output
    <3> QED BY <2>1, <3>1, <3>2 DEF Inside
  <2>3. \A b \in DOMAIN effects : \A x \in effects[b].reads : Readable(job, x)
    BY <2>1 DEF Inside
  <2> QED BY <2>2, <2>3 DEF InBounds
<1> QED BY <1>1, InductiveInvariant, PTL
-----------------------------------------------------------------------------
(* Exact results: what is expected, and the kernels without a merge *)

\* A set of writes that has the reference of each row of each request, and
\* nothing else, is what is expected.
LEMMA Completed ==
  ASSUME NEW j, Attention(j), NEW F,
         \A w \in F : \E r \in JobRequests(j), row \in OutputRows(j), head \in OutputColumns(j) :
           Holds(j, r, row) /\ w = Exact(j, r, row, head),
         \A r \in JobRequests(j), row \in OutputRows(j), head \in OutputColumns(j) :
           Holds(j, r, row) => Exact(j, r, row, head) \in F
  PROVE  F = Expected(j)
<1> DEFINE rows(r) == {i \in OutputRows(j) : Holds(j, r, i)}
           of(r, head) == {Exact(j, r, row, head) : row \in rows(r)}
<1>1. Expected(j) = UNION {of(r, head) : r \in JobRequests(j), head \in OutputColumns(j)}
  BY SMTT(30) DEF Expected, Attention
<1>2. \A r, head, w : w \in of(r, head) <=> \E row \in OutputRows(j) : Holds(j, r, row) /\ w = Exact(j, r, row, head)
  OBVIOUS
<1> HIDE DEF of
<1>3. \A w : w \in UNION {of(r, head) : r \in JobRequests(j), head \in OutputColumns(j)}
               <=> \E r \in JobRequests(j), head \in OutputColumns(j) : w \in of(r, head)
  BY SMT
<1>4. ASSUME NEW w \in F PROVE w \in Expected(j)
  <2>1. PICK r \in JobRequests(j), row \in OutputRows(j), head \in OutputColumns(j) :
          Holds(j, r, row) /\ w = Exact(j, r, row, head)
    OBVIOUS
  <2>2. w \in of(r, head)
    BY <1>2, <2>1
  <2> QED BY <1>1, <1>3, <2>2
<1>5. ASSUME NEW w \in Expected(j) PROVE w \in F
  <2>1. PICK r \in JobRequests(j), head \in OutputColumns(j) : w \in of(r, head)
    BY <1>1, <1>3
  <2>2. PICK row \in OutputRows(j) : Holds(j, r, row) /\ w = Exact(j, r, row, head)
    BY <1>2, <2>1
  <2> QED BY <2>2
<1> QED BY <1>4, <1>5

\* Ranges that divide the rows among the requests.
RowsDivide(ptr, batch, total) ==
  /\ \A r \in 0 .. batch - 1 :
       /\ ptr[r] \in Int /\ ptr[r + 1] \in Int
       /\ 0 <= ptr[r] /\ ptr[r] < ptr[r + 1] /\ ptr[r + 1] <= total
  /\ \A row \in 0 .. total - 1 : \E r \in 0 .. batch - 1 : ptr[r] <= row /\ row < ptr[r + 1]
  /\ \A r, q \in 0 .. batch - 1 : \A row \in Int :
       ptr[r] <= row /\ row < ptr[r + 1] /\ ptr[q] <= row /\ row < ptr[q + 1] => r = q

\* The indptr arrays that the host contract admits do.
LEMMA IndptrRows ==
  ASSUME NEW batch \in Nat, NEW total \in Nat, NEW ptr \in [0 .. batch -> Int],
         ValidIndptr(ptr, batch, total)
  PROVE  RowsDivide(ptr, batch, total)
<1>1. ptr[0] = 0 /\ ptr[batch] = total /\ \A r \in 0 .. batch - 1 : ptr[r] < ptr[r + 1]
  BY DEF ValidIndptr
<1>2. \A r \in 0 .. batch - 1 : ptr[r] \in Int /\ ptr[r + 1] \in Int /\ ptr[r] <= ptr[r + 1]
  BY <1>1
<1>3. \A x, y \in 0 .. batch : x <= y => ptr[x] <= ptr[y]
  BY <1>2, EndsGrow
<1>4. ASSUME NEW r \in 0 .. batch - 1
      PROVE  /\ ptr[r] \in Int /\ ptr[r + 1] \in Int
             /\ 0 <= ptr[r] /\ ptr[r] < ptr[r + 1] /\ ptr[r + 1] <= total
  <2>1. ptr[0] <= ptr[r] /\ ptr[r + 1] <= ptr[batch]
    BY <1>3
  <2> QED BY <1>1, <1>2, <2>1
<1>5. ASSUME NEW row \in 0 .. total - 1
      PROVE  \E r \in 0 .. batch - 1 : ptr[r] <= row /\ row < ptr[r + 1]
  <2>1. row \in Int /\ ptr[0] <= row /\ row < ptr[batch]
    BY <1>1
  <2> QED BY <2>1, EndsCover
<1>6. ASSUME NEW r \in 0 .. batch - 1, NEW q \in 0 .. batch - 1, NEW row \in Int,
             ptr[r] <= row, row < ptr[r + 1], ptr[q] <= row, row < ptr[q + 1]
      PROVE  r = q
  BY <1>2, <1>6, EndsApart
<1> QED BY <1>4, <1>5, <1>6 DEF RowsDivide

\* The only request that holds a row.
OneHolder(j) ==
  \A r, q \in JobRequests(j), row \in OutputRows(j) : Holds(j, r, row) /\ Holds(j, q, row) => r = q

\* With valid metadata there is one.
LEMMA Holders ==
  ASSUME NEW j \in Jobs, Attention(j), Accepted(j), Valid(j)
  PROVE  OneHolder(j)
<1>1. CASE j.family \in {"ragged", "paged"}
  <2>1. /\ j.s.batch \in Nat /\ j.s.nnzQo \in Nat /\ j.m.qo \in [0 .. j.s.batch -> Int]
        /\ OutputRows(j) = 0 .. j.s.nnzQo - 1
    BY <1>1, AttentionJob, RaggedJob, PagedJob
  <2>2. ValidIndptr(j.m.qo, j.s.batch, j.s.nnzQo)
    BY <1>1 DEF Valid, ValidRagged, ValidPagedPrefill
  <2>3. \A r, q \in 0 .. j.s.batch - 1 : \A row \in Int :
          j.m.qo[r] <= row /\ row < j.m.qo[r + 1] /\ j.m.qo[q] <= row /\ row < j.m.qo[q + 1] => r = q
    <3>1. RowsDivide(j.m.qo, j.s.batch, j.s.nnzQo)
      BY <2>1, <2>2, IndptrRows
    <3> QED BY <3>1 DEF RowsDivide
  <2>4. JobRequests(j) = 0 .. j.s.batch - 1
    BY DEF JobRequests
  <2>5. \A r, row : Holds(j, r, row) <=> j.m.qo[r] <= row /\ row < j.m.qo[r + 1]
    BY <1>1 DEF Holds
  <2>6. \A row \in OutputRows(j) : row \in Int
    BY <2>1
  <2> QED BY <2>3, <2>4, <2>5, <2>6 DEF OneHolder
<1>2. CASE j.family \notin {"ragged", "paged"}
  BY <1>2 DEF OneHolder, Holds
<1> QED BY <1>1, <1>2

\* Every row that a request holds has, for each head, a CTA that writes it.
EachWrites(j) ==
  \A r \in JobRequests(j), row \in OutputRows(j), head \in OutputColumns(j) :
    Holds(j, r, row) =>
      \E b : /\ b \in 0 .. Grid(j) - 1 /\ b \div j.s.queryHeads = row /\ b % j.s.queryHeads = head
             /\ Cta(j, b).writes # {}

\* Then an attention kernel without a merge is exact.
LEMMA StatesExact ==
  ASSUME NEW j \in Jobs, Attention(j), Accepted(j), ~HasMerge(j), Valid(j), EachWrites(j)
  PROVE  Writes(Effects(j)) = Expected(j)
<1> DEFINE H == j.s.queryHeads
           F == Writes(Effects(j))
<1>1. \A w : w \in F <=> \E b \in 0 .. Grid(j) - 1 : w \in Cta(j, b).writes
  BY Zenon DEF Writes, Effects
<1>2. ASSUME NEW w \in F
      PROVE  \E r \in JobRequests(j), row \in OutputRows(j), head \in OutputColumns(j) :
               Holds(j, r, row) /\ w = Exact(j, r, row, head)
  <2>1. PICK b \in 0 .. Grid(j) - 1 : w \in Cta(j, b).writes
    BY <1>1
  <2> DEFINE row == b \div H
             head == b % H
  <2>2. row \in OutputRows(j) /\ head \in OutputColumns(j)
    BY StateCta
  <2>3. \E r \in JobRequests(j) : Holds(j, r, row) /\ w = Exact(j, r, row, head)
    BY <2>1, StateWrites
  <2> HIDE DEF row, head
  <2> QED BY <2>2, <2>3
<1>3. ASSUME NEW r \in JobRequests(j), NEW row \in OutputRows(j), NEW head \in OutputColumns(j),
             Holds(j, r, row)
      PROVE  Exact(j, r, row, head) \in F
  <2>1. PICK b \in 0 .. Grid(j) - 1 : b \div H = row /\ b % H = head /\ Cta(j, b).writes # {}
    BY <1>3 DEF EachWrites
  <2>2. PICK w : w \in Cta(j, b).writes
    BY <2>1
  <2>3. PICK q \in JobRequests(j) : Holds(j, q, row) /\ w = Exact(j, q, row, head)
    BY <2>1, <2>2, StateWrites
  <2>4. q = r
    BY <1>3, <2>3, Holders DEF OneHolder
  <2> QED BY <1>1, <2>2, <2>3, <2>4
<1> HIDE DEF F
<1>4. F = Expected(j)
  BY <1>2, <1>3, Completed
<1> QED BY <1>4 DEF F

\* The CTA of a row and head.
LEMMA CtaOfRow ==
  ASSUME NEW j \in Jobs, Attention(j), Accepted(j), ~HasMerge(j),
         NEW row \in OutputRows(j), NEW head \in OutputColumns(j)
  PROVE  \E b \in 0 .. Grid(j) - 1 : b \div j.s.queryHeads = row /\ b % j.s.queryHeads = head
<1> DEFINE H == j.s.queryHeads
           n == j.s.nnzQo
<1>1. H \in Nat \ {0} /\ n \in Nat /\ row \in 0 .. n - 1 /\ head \in 0 .. H - 1
  BY AttentionJob
<1>2. Grid(j) = n * H
  BY Algorithms, AttentionJob DEF Grid, States
<1> HIDE DEF H, n
<1>3. row * H + head \in 0 .. n * H - 1 /\ (row * H + head) \div H = row /\ (row * H + head) % H = head
  BY <1>1, GridCta
<1> DEFINE b == row * H + head
<1> HIDE DEF b
<1>4. b \in 0 .. Grid(j) - 1 /\ b \div H = row /\ b % H = head
  BY <1>2, <1>3 DEF b
<1> QED BY <1>4 DEF H
\* Metadata that the host contract admits passes the guards of every CTA.
LEMMA RaggedGuards ==
  ASSUME NEW j \in Jobs, j.family = "ragged", Accepted(j), Valid(j), NEW row \in OutputRows(j),
         NEW r \in JobRequests(j), Holds(j, r, row)
  PROVE  RaggedAccepts(j.s, j.m, row)
<1> DEFINE n == j.s.batch
           qo == j.m.qo
           kv == j.m.kv
           above == {q \in 0 .. n - 1 : Below(row, qo[q + 1])}
           q == RaggedRequest(j.s, j.m, row)
<1>1. /\ n \in Nat /\ j.s.nnzQo \in Nat /\ j.s.nnzKv \in Nat
      /\ qo \in [0 .. n -> Int] /\ kv \in [0 .. n -> Int] /\ row \in 0 .. j.s.nnzQo - 1
  BY RaggedJob, AttentionJob DEF Attention
<1>2. /\ ValidIndptr(qo, n, j.s.nnzQo) /\ ValidIndptr(kv, n, j.s.nnzKv)
      /\ \A x \in 0 .. n - 1 : Span(qo, x) <= Span(kv, x)
  BY DEF Valid, ValidRagged
<1>3. RowsDivide(qo, n, j.s.nnzQo) /\ RowsDivide(kv, n, j.s.nnzKv)
  BY <1>1, <1>2, IndptrRows
<1>4. r \in 0 .. n - 1 /\ qo[r] <= row /\ row < qo[r + 1]
  BY DEF JobRequests, Holds
<1>5. q \in above \cup {n} /\ \A y \in above \cup {n} : q <= y
  <2>1. above \cup {n} \in SUBSET Nat /\ above \cup {n} # {}
    BY <1>1
  <2>2. q = Min(above \cup {n})
    BY DEF RaggedRequest
  <2> HIDE DEF above, q
  <2> QED BY <2>1, <2>2, SmallestMember
<1>6. r \in above
  BY <1>4 DEF Below
<1> HIDE DEF q, qo, kv, n
<1>7. q \in 0 .. n - 1 /\ q <= r /\ Below(row, qo[q + 1])
  BY <1>1, <1>4, <1>5, <1>6, SMTT(30)
<1>8. \A x, y \in 0 .. n : x <= y => qo[x] <= qo[y]
  <2>1. \A x \in 0 .. n - 1 : qo[x] <= qo[x + 1]
    BY <1>3 DEF RowsDivide
  <2> QED BY <1>1, <2>1, EndsGrow
<1>9. qo[q] <= row /\ row < qo[q + 1]
  <2>1. /\ qo[q] <= qo[r] /\ qo[q] \in Int /\ qo[r] \in Int /\ qo[q + 1] \in Int
        /\ 0 <= qo[q] /\ qo[q] < qo[q + 1]
    <3>1. qo[q] <= qo[r]
      <4>1. q \in 0 .. n
        BY <1>1, <1>7
      <4>2. r \in 0 .. n
        BY <1>1, <1>4
      <4>3. q <= r
        BY <1>7
      <4> QED BY <1>8, <4>1, <4>2, <4>3
    <3> QED BY <1>3, <1>4, <1>7, <3>1 DEF RowsDivide
  <2>2. row \in Nat
    BY <1>1
  <2>3. row < qo[q + 1]
    BY <1>7, <2>1, <2>2 DEF Below
  <2> QED BY <1>4, <2>1, <2>2, <2>3
<1>10. RequestInBounds(j.s, j.m, q)
  <2>1. /\ 0 <= qo[q] /\ qo[q] < qo[q + 1] /\ qo[q + 1] <= j.s.nnzQo
        /\ 0 <= kv[q] /\ kv[q] < kv[q + 1] /\ kv[q + 1] <= j.s.nnzKv
        /\ Span(qo, q) <= Span(kv, q)
    BY <1>2, <1>3, <1>7 DEF RowsDivide
  <2> QED BY <2>1 DEF RequestInBounds, qo, kv
<1>11. RaggedEndpoints(j.s, j.m)
  BY <1>2 DEF RaggedEndpoints, ValidIndptr, qo, kv, n
<1>12. q < j.s.batch
  BY <1>1, <1>7 DEF n
<1> QED BY <1>9, <1>10, <1>11, <1>12 DEF RaggedAccepts, q, qo

\* A page table that the host contract admits passes the guards of batch decode.
LEMMA TableGuards ==
  ASSUME NEW t, IsTable(t), ValidPageTable(t), NEW r \in 0 .. t.batch - 1
  PROVE  /\ TableEndpoints(t) /\ ~RequestInvalid(t, r)
         /\ GoodPages(t, r) = PageCount(t, r) /\ \A warps \in Nat \ {0} : PagesVote(t, r, warps)
<1>1. /\ t.batch \in Nat /\ t.count \in Nat /\ t.indptr \in [0 .. t.batch -> Int]
  BY DEF IsTable
<1>2. /\ t.indptr[0] = 0 /\ t.indptr[t.batch] = t.count
      /\ \A x \in 0 .. t.batch - 1 : t.indptr[x] < t.indptr[x + 1] /\ t.last[x] \in 1 .. PageSize
      /\ \A p \in 0 .. t.count - 1 : t.indices[p] \in 0 .. MaxNumPages - 1
  BY DEF ValidPageTable, Requests
<1>3. TableEndpoints(t)
  BY <1>2 DEF TableEndpoints
<1>4. RowsDivide(t.indptr, t.batch, t.count)
  <2>1. ValidIndptr(t.indptr, t.batch, t.count)
    BY <1>2 DEF ValidIndptr
  <2> QED BY <1>1, <2>1, IndptrRows
<1> DEFINE a == t.indptr[r]
           c == t.indptr[r + 1]
<1>5. a \in Int /\ c \in Int /\ 0 <= a /\ a < c /\ c <= t.count
  BY <1>4 DEF RowsDivide
<1>6. ~RequestInvalid(t, r)
  <2>1. ~(a < 0) /\ ~(c <= a) /\ ~(c > t.count)
    <3> HIDE DEF a, c
    <3> QED BY <1>1, <1>5
  <2> QED BY <1>2, <2>1 DEF RequestInvalid
<1>7. PageCount(t, r) \in Nat \ {0} /\ PageCount(t, r) = c - a
  BY <1>5 DEF PageCount
<1>8. PagesSound(t, r)
  <2>1. ASSUME NEW p \in 0 .. PageCount(t, r) - 1
        PROVE  ~PageInvalid(t, t.indptr[r] + p)
    <3>1. a + p \in 0 .. t.count - 1
      <4> HIDE DEF a, c
      <4> QED BY <1>1, <1>5, <1>7
    <3> QED BY <1>2, <3>1 DEF PageInvalid
  <2> QED BY <2>1 DEF PagesSound, PagesBefore
<1>9. GoodPages(t, r) = PageCount(t, r) /\ \A warps \in Nat \ {0} : PagesVote(t, r, warps)
  BY <1>7, <1>8, PagesSeen
<1> QED BY <1>3, <1>6, <1>9

\* Paged prefill: so does valid metadata, and the vote of the pages is good.
LEMMA PagedGuards ==
  ASSUME NEW j \in Jobs, j.family = "paged", Accepted(j), Valid(j), NEW row \in OutputRows(j),
         NEW r \in JobRequests(j), Holds(j, r, row)
  PROVE  /\ PagedAccepts(j.s, j.m, row, TRUE)
         /\ LET q == PagedRequest(j.s, j.m, row)
            IN /\ GoodPages(j.m.table, q) = PageCount(j.m.table, q)
               /\ \A warps \in Nat \ {0} : PagesVote(j.m.table, q, warps)
<1> DEFINE n == j.s.batch
           qo == j.m.qo
           t == j.m.table
           bad == {q \in 0 .. n - 1 : qo[q] < 0 \/ qo[q + 1] <= qo[q] \/ qo[q + 1] > j.s.nnzQo}
           holds == {q \in 0 .. n - 1 : qo[q] <= row /\ row < qo[q + 1]}
           q == PagedRequest(j.s, j.m, row)
<1>1. /\ n \in Nat /\ j.s.nnzQo \in Nat /\ qo \in [0 .. n -> Int] /\ IsTable(t) /\ t.batch = n
      /\ row \in 0 .. j.s.nnzQo - 1
  BY PagedJob, AttentionJob DEF Attention
<1>2. ValidIndptr(qo, n, j.s.nnzQo) /\ ValidPageTable(t) /\ \A x \in 0 .. n - 1 : Span(qo, x) <= KvLen(t, x)
  BY DEF Valid, ValidPagedPrefill
<1>3. RowsDivide(qo, n, j.s.nnzQo)
  BY <1>1, <1>2, IndptrRows
<1>4. r \in holds
  BY DEF JobRequests, Holds
<1>5. bad = {}
  <2> HIDE DEF n, qo
  <2>1. ASSUME NEW x \in 0 .. n - 1
        PROVE  ~(qo[x] < 0 \/ qo[x + 1] <= qo[x] \/ qo[x + 1] > j.s.nnzQo)
    <3>1. qo[x] \in Int /\ qo[x + 1] \in Int /\ 0 <= qo[x] /\ qo[x] < qo[x + 1] /\ qo[x + 1] <= j.s.nnzQo
      BY <1>3 DEF RowsDivide
    <3> QED BY <1>1, <3>1
  <2> QED BY <2>1
<1>6. q \in holds
  <2>1. q = IF bad \cup holds = {} \/ Min(bad \cup holds) \in bad THEN NoRequest ELSE Min(holds)
    BY DEF PagedRequest
  <2>2. holds \in SUBSET Nat
    BY <1>1
  <2> HIDE DEF q, bad, holds
  <2>3. holds # {} /\ bad \cup holds = holds
    BY <1>4, <1>5
  <2>4. Min(holds) \in holds
    BY <2>2, <2>3, SmallestMember
  <2> QED BY <1>5, <2>1, <2>3, <2>4
<1> HIDE DEF q
<1>7. q \in 0 .. n - 1 /\ q # NoRequest
  <2>1. q \in 0 .. n - 1
    BY <1>6
  <2> QED BY <1>1, <2>1 DEF NoRequest
<1>8. /\ TableEndpoints(t) /\ ~RequestInvalid(t, q)
      /\ GoodPages(t, q) = PageCount(t, q) /\ \A warps \in Nat \ {0} : PagesVote(t, q, warps)
  <2> HIDE DEF t
  <2>1. q \in 0 .. t.batch - 1
    BY <1>1, <1>7
  <2> QED BY <1>1, <1>2, <2>1, TableGuards
<1>9. qo[0] = 0 /\ qo[n] = j.s.nnzQo /\ Span(qo, q) <= KvLen(t, q)
  BY <1>2, <1>7 DEF ValidIndptr
<1>10. PagedAccepts(j.s, j.m, row, TRUE)
  BY <1>7, <1>8, <1>9 DEF PagedAccepts, q
<1> QED BY <1>8, <1>10 DEF q

\* So each CTA of a row that a request holds writes it.
LEMMA RaggedWrites ==
  ASSUME NEW j \in Jobs, j.family = "ragged", Accepted(j), ~HasMerge(j), Valid(j)
  PROVE  EachWrites(j)
<1>1. Attention(j)
  BY DEF Attention
<1>2. SUFFICES ASSUME NEW r \in JobRequests(j), NEW row \in OutputRows(j), NEW head \in OutputColumns(j),
                      Holds(j, r, row)
               PROVE  \E b : /\ b \in 0 .. Grid(j) - 1 /\ b \div j.s.queryHeads = row
                             /\ b % j.s.queryHeads = head /\ Cta(j, b).writes # {}
  BY DEF EachWrites
<1>3. PICK b \in 0 .. Grid(j) - 1 : b \div j.s.queryHeads = row /\ b % j.s.queryHeads = head
  BY <1>1, CtaOfRow
<1>4. RaggedAccepts(j.s, j.m, row)
  BY <1>2, RaggedGuards
<1>5. \A state : RaggedState(j.s, j.m, row, head, state).writes = {Write(Output(row, head), Normalized(state))}
  BY <1>4 DEF RaggedState
<1>6. \E state : Cta(j, b) = RaggedState(j.s, j.m, row, head, state)
  <2> DEFINE a == Algorithm(j)
  <2>1. a # "TiledGqa4"
    BY <1>1, Algorithms
  <2>2. Cta(j, b) = IF a = "Direct" THEN RaggedDirect(j.s, j.m, row, head)
                    ELSE RaggedTokenParallel(Warps[a], j.s, j.m, row, head)
    BY <1>3, <2>1 DEF Cta
  <2> HIDE DEF a
  <2> QED BY <2>2 DEF RaggedDirect, RaggedTokenParallel
<1>7. Cta(j, b).writes # {}
  BY <1>5, <1>6
<1> QED BY <1>3, <1>7

\* Paged prefill, whatever the algorithm.
LEMMA PagedWrites ==
  ASSUME NEW j \in Jobs, j.family = "paged", Accepted(j), ~HasMerge(j), Valid(j)
  PROVE  EachWrites(j)
<1>1. Attention(j)
  BY DEF Attention
<1>2. SUFFICES ASSUME NEW r \in JobRequests(j), NEW row \in OutputRows(j), NEW head \in OutputColumns(j),
                      Holds(j, r, row)
               PROVE  \E b : /\ b \in 0 .. Grid(j) - 1 /\ b \div j.s.queryHeads = row
                             /\ b % j.s.queryHeads = head /\ Cta(j, b).writes # {}
  BY DEF EachWrites
<1>3. PICK b \in 0 .. Grid(j) - 1 : b \div j.s.queryHeads = row /\ b % j.s.queryHeads = head
  BY <1>1, CtaOfRow
<1> DEFINE q == PagedRequest(j.s, j.m, row)
           a == Algorithm(j)
<1>4. /\ PagedAccepts(j.s, j.m, row, TRUE) /\ GoodPages(j.m.table, q) = PageCount(j.m.table, q)
      /\ \A warps \in Nat \ {0} : PagesVote(j.m.table, q, warps)
  BY <1>2, PagedGuards
<1>5. ASSUME NEW good, good, NEW state
      PROVE  PagedState(j.s, j.m, row, head, good, state).writes # {}
  <2>1. PagedAccepts(j.s, j.m, row, good)
    BY <1>4, <1>5, Zenon DEF PagedAccepts
  <2> QED BY <2>1 DEF PagedState
<1>6. Cta(j, b) = IF a = "Direct" THEN PagedDirect(j.s, j.m, row, head)
                  ELSE PagedTokenParallel(Warps[a], j.s, j.m, row, head)
  BY <1>3 DEF Cta
<1>7. Warps[a] \in Nat \ {0}
  BY <1>1, Algorithms, WarpsOf
<1>8. PagedDirect(j.s, j.m, row, head).writes # {}
  <2>1. GoodPages(j.m.table, PagedRequest(j.s, j.m, row)) = PageCount(j.m.table, PagedRequest(j.s, j.m, row))
    BY <1>4
  <2> QED BY <1>5, <2>1, Zenon DEF PagedDirect
<1>9. PagedTokenParallel(Warps[a], j.s, j.m, row, head).writes # {}
  <2>1. PagesVote(j.m.table, PagedRequest(j.s, j.m, row), Warps[a])
    BY <1>4, <1>7
  <2> QED BY <1>5, <2>1, Zenon DEF PagedTokenParallel
<1>10. Cta(j, b).writes # {}
  BY <1>6, <1>8, <1>9
<1> QED BY <1>3, <1>10

\* Paged batch decode, whatever the algorithm.
LEMMA DecodeWrites ==
  ASSUME NEW j \in Jobs, j.family = "paged_decode", Accepted(j), ~HasMerge(j), Valid(j)
  PROVE  EachWrites(j)
<1>1. Attention(j)
  BY DEF Attention
<1>2. SUFFICES ASSUME NEW r \in JobRequests(j), NEW row \in OutputRows(j), NEW head \in OutputColumns(j),
                      Holds(j, r, row)
               PROVE  \E b : /\ b \in 0 .. Grid(j) - 1 /\ b \div j.s.queryHeads = row
                             /\ b % j.s.queryHeads = head /\ Cta(j, b).writes # {}
  BY DEF EachWrites
<1>3. PICK b \in 0 .. Grid(j) - 1 : b \div j.s.queryHeads = row /\ b % j.s.queryHeads = head
  BY <1>1, CtaOfRow
<1>4. row = r /\ head \in 0 .. j.s.queryHeads - 1
  BY <1>1, <1>2, AttentionJob DEF Holds
<1>5. DecodeAccepts(j.m.table, r) /\ GoodPages(j.m.table, r) = PageCount(j.m.table, r)
  <2>1. IsTable(j.m.table) /\ j.m.table.batch = j.s.batch
    BY PagedJob
  <2>2. ValidPageTable(j.m.table) /\ r \in 0 .. j.m.table.batch - 1
    BY <2>1 DEF Valid, JobRequests
  <2> QED BY <2>1, <2>2, TableGuards DEF DecodeAccepts
<1>6. /\ DecodeDirect(j.s, j.m, r, head).writes # {}
      /\ DecodeTokenParallel(j.s, j.m, r, head).writes # {}
  BY <1>4, <1>5, DecodeCta
<1>7. Cta(j, b) = IF Algorithm(j) = "Direct" THEN DecodeDirect(j.s, j.m, r, head)
                  ELSE DecodeTokenParallel(j.s, j.m, r, head)
  BY <1>3, <1>4 DEF Cta
<1> QED BY <1>3, <1>6, <1>7

\* Single-request decode.
LEMMA SingleWrites ==
  ASSUME NEW j \in Jobs, j.family = "single", Accepted(j), ~HasMerge(j)
  PROVE  EachWrites(j)
<1>1. Attention(j)
  BY DEF Attention
<1>2. SUFFICES ASSUME NEW r \in JobRequests(j), NEW row \in OutputRows(j), NEW head \in OutputColumns(j),
                      Holds(j, r, row)
               PROVE  \E b : /\ b \in 0 .. Grid(j) - 1 /\ b \div j.s.queryHeads = row
                             /\ b % j.s.queryHeads = head /\ Cta(j, b).writes # {}
  BY DEF EachWrites
<1>3. PICK b \in 0 .. Grid(j) - 1 : b \div j.s.queryHeads = row /\ b % j.s.queryHeads = head
  BY <1>1, CtaOfRow
<1>4. Cta(j, b) = SingleDirect(j.s, head)
  BY <1>3 DEF Cta
<1>5. SingleDirect(j.s, head).writes # {}
  BY DEF SingleDirect
<1> QED BY <1>3, <1>4, <1>5

\* RMSNorm writes its reference, row by row.
LEMMA RmsExact ==
  ASSUME NEW j \in Jobs, j.family = "rms_norm", Accepted(j)
  PROVE  Writes(Effects(j)) = Expected(j)
<1> DEFINE s == j.s
           result(row, c) == RmsResult(s, row, c, SetToBag(RowElements(s, row)))
<1>1. Grid(j) = s.rows /\ \A row \in 0 .. s.rows - 1 : row \in Nat
  BY RmsJob
<1>2. \A row \in 0 .. s.rows - 1 : Cta(j, row).writes = {result(row, c) : c \in 0 .. s.hidden - 1}
  <2> TAKE row \in 0 .. s.rows - 1
  <2>1. Cta(j, row) = RmsEffect(s, row)
    BY <1>1, RmsCta
  <2> QED BY <2>1 DEF RmsEffect
<1>3. \A w : w \in Writes(Effects(j)) <=> \E b \in 0 .. Grid(j) - 1 : w \in Cta(j, b).writes
  BY Zenon DEF Writes, Effects
<1>4. Expected(j) = {result(row, c) : row \in 0 .. s.rows - 1, c \in 0 .. s.hidden - 1}
  BY DEF Expected, RmsReference, RowElements
<1> HIDE DEF result, s
<1>5. \A w : w \in Expected(j) <=> \E row \in 0 .. s.rows - 1, c \in 0 .. s.hidden - 1 : w = result(row, c)
  BY <1>4
<1>6. \A w : w \in Writes(Effects(j)) <=> w \in Expected(j)
  BY <1>1, <1>2, <1>3, <1>5
<1> QED BY <1>6, Zenon

\* RoPE writes its reference, for positions that none is negative.
LEMMA RopeExact ==
  ASSUME NEW j \in Jobs, j.family = "rope", Accepted(j), Valid(j)
  PROVE  Writes(Effects(j)) = Expected(j)
<1>1. {i \in OutputRows(j) : j.m[i] >= 0} = OutputRows(j)
  BY DEF Valid
<1>2. Expected(j) = RopeReference(j.s, j.m, OutputRows(j))
  BY DEF Expected
<1> QED BY <1>1, <1>2, RopeOutput

\* Every kernel without a merge is exact.
LEMMA LaunchExact ==
  ASSUME NEW j \in Jobs, Accepted(j), ~HasMerge(j), Valid(j)
  PROVE  Writes(Effects(j)) = Expected(j)
<1>1. CASE Attention(j)
  <2>1. j.family \in {"ragged", "paged", "paged_decode", "single"}
    BY <1>1, AttentionJob, Algorithms
  <2>2. EachWrites(j)
    BY <2>1, RaggedWrites, PagedWrites, DecodeWrites, SingleWrites
  <2> QED BY <1>1, <2>2, StatesExact
<1>2. CASE j.family = "rms_norm"
  BY <1>2, RmsExact
<1>3. CASE j.family = "rope"
  BY <1>3, RopeExact
<1> QED BY <1>1, <1>2, <1>3 DEF Attention
-----------------------------------------------------------------------------
(* A kernel after a partial one reads what its CTAs wrote. *)

\* A place holds the value that all writes to it agree on.
LEMMA HeldValue ==
  ASSUME NEW j, NEW w \in Writes(Effects(j)), w.at \in Places(j),
         \A v \in Writes(Effects(j)) : v.at = w.at => v.value = w.value
  PROVE  Held(j)[w.at] = w.value
<1> DEFINE new == {v \in Writes(Effects(j)) : v.at = w.at}
           one == CHOOSE v \in new : TRUE
<1>1. w \in new
  OBVIOUS
<1>2. Held(j)[w.at] = IF new = {} THEN Stale ELSE one.value
  BY DEF Held, Stored
<1>3. one \in new
  BY <1>1
<1>4. one.value = w.value
  BY <1>3
<1> HIDE DEF one, new
<1> QED BY <1>1, <1>2, <1>4

\* A kernel's writes are those of its CTAs.
LEMMA WrittenBy ==
  ASSUME NEW j
  PROVE  \A w : w \in Writes(Effects(j)) <=> \E b \in 0 .. Grid(j) - 1 : w \in Cta(j, b).writes
BY Zenon DEF Writes, Effects

\* When there are no fewer units than shares, none of the shares is empty.
LEMMA ShareLengths ==
  ASSUME NEW n \in Nat \ {0}, NEW k \in Nat \ {0}, k <= n, NEW i \in 0 .. k - 1
  PROVE  LET a == ShareStart(n, k, i)
             c == ShareStart(n, k, i + 1)
         IN /\ a \in Nat /\ c \in Nat /\ a < c
            /\ Share(n, k, i) = a .. c - 1 /\ Cardinality(Share(n, k, i)) = c - a
<1> DEFINE a == ShareStart(n, k, i)
           c == ShareStart(n, k, i + 1)
           x == i * n
           y == (i + 1) * n
<1>1. x \in Nat /\ y \in Nat /\ x + k <= y
  <2>1. i \in Nat /\ i < i + 1
    OBVIOUS
  <2>2. i * n \in Nat /\ (i + 1) * n \in Nat /\ i * n + n <= (i + 1) * n
    <3>1. i + 1 \in Nat
      BY <2>1
    <3> HIDE DEF x, y
    <3>2. /\ n * i \in Nat /\ (i + 1) * n \in Nat /\ i * n \in Nat /\ n * (i + 1) \in Nat
          /\ n * i + n <= (i + 1) * n /\ i * n + n <= n * (i + 1)
      BY <2>1, <3>1, Product
    <3>3. i * n = n * i
      BY <2>1
    <3> QED BY <3>2, <3>3
  <2> HIDE DEF x, y
  <2>3. x \in Nat /\ y \in Nat /\ x + n <= y
    BY <2>2 DEF x, y
  <2> QED BY <2>3
<1>2. a = x \div k /\ c = y \div k
  BY DEF ShareStart
<1>3. Share(n, k, i) = a .. c - 1
  BY DEF Share
<1> HIDE DEF x, y, a, c
<1>4. x \div k \in Nat /\ y \div k \in Nat /\ x \div k < y \div k
  <2>1. (x + k) \div k = (x \div k) + 1
    <3> DEFINE q == x \div k
               m == x % k
               z == q * k
               u == (q + 1) * k
    <3>1. q \in Nat /\ m \in 0 .. k - 1 /\ x = k * q + m
      BY <1>1, Division
    <3> HIDE DEF q, m
    <3>2. k * q = z /\ u = z + k /\ z \in Nat /\ u \in Nat
      BY <3>1
    <3>3. (u + m) \div k = q + 1
      BY <3>1, LastPosition
    <3> HIDE DEF z, u
    <3>4. x + k = u + m
      BY <3>1, <3>2
    <3> QED BY <3>3, <3>4 DEF q
  <2>2. (x + k) \div k <= y \div k
    BY <1>1, QuotientGrows
  <2>3. x \div k \in Nat /\ y \div k \in Nat
    BY <1>1, Division
  <2> QED BY <2>1, <2>2, <2>3
<1>5. a \in Nat /\ c \in Nat /\ a < c
  BY <1>2, <1>4
<1>6. Cardinality(a .. c - 1) = c - a
  <2> DEFINE d == c - 1
  <2>1. d \in Int /\ a <= d /\ (d - a) + 1 = c - a
    BY <1>5
  <2> HIDE DEF d
  <2>2. Cardinality(a .. d) = (d - a) + 1
    BY <1>5, <2>1, FS_Interval
  <2> QED BY <2>1, <2>2 DEF d
<1> QED BY <1>3, <1>5, <1>6 DEF a, c
-----------------------------------------------------------------------------
(* Split-K: the partitions of a head, merged warp by warp *)

\* Different partitions share no row, and all of them are the head's.
LEMMA PartRowsDivide ==
  ASSUME NEW j \in Jobs, j.family = "split_k", Accepted(j), NEW head \in 0 .. j.s.queryHeads - 1
  PROVE  /\ \A p, q \in 0 .. j.s.partitions - 1 :
              p # q => PartRows(j.s, head, p) \cap PartRows(j.s, head, q) = {}
         /\ UNION {PartRows(j.s, head, p) : p \in 0 .. j.s.partitions - 1} = SingleReference(j.s, head)
         /\ SingleReference(j.s, head) # {}
<1> DEFINE n == j.s.kvLen
           k == j.s.partitions
           t == SingleTokens(j.s, head)
           range(p) == SplitRange(n, k, p)
<1>1. n \in Nat \ {0} /\ k \in Nat \ {0}
  BY SplitKJob
<1>2. /\ \A p \in 0 .. k - 1 : range(p) \subseteq 0 .. n - 1
      /\ \A p, q \in 0 .. k - 1 : p # q => range(p) \cap range(q) = {}
      /\ \A x \in 0 .. n - 1 : \E p \in 0 .. k - 1 : x \in range(p)
  BY <1>1, SplitsDivide
<1>3. /\ DOMAIN t = 0 .. n - 1 /\ \A x, y \in 0 .. n - 1 : t[x] = t[y] => x = y
  BY DEF SingleTokens
<1> DEFINE rows(p) == PartRows(j.s, head, p)
           all == SingleReference(j.s, head)
<1>4. \A p : \A z : z \in rows(p) <=> \E x \in range(p) : z = t[x]
  BY Zenon DEF PartRows, Pick
<1>5. \A z : z \in all <=> \E x \in 0 .. n - 1 : z = t[x]
  <2>1. all = {t[x] : x \in 0 .. n - 1}
    BY <1>3 DEF SingleReference, All, Pick
  <2> HIDE DEF all, t
  <2> QED BY <2>1, Zenon
<1> HIDE DEF n, k, t, range, rows, all
<1>6. \A p, q \in 0 .. k - 1 : p # q => rows(p) \cap rows(q) = {}
  <2>1. SUFFICES ASSUME NEW p \in 0 .. k - 1, NEW q \in 0 .. k - 1, p # q, NEW z, z \in rows(p), z \in rows(q)
                 PROVE  FALSE
    BY Zenon
  <2>2. PICK x \in range(p) : z = t[x]
    BY <1>4, <2>1
  <2>3. PICK y \in range(q) : z = t[y]
    BY <1>4, <2>1
  <2>4. x \in 0 .. n - 1 /\ y \in 0 .. n - 1
    BY <1>2
  <2>5. x = y
    BY <1>3, <2>2, <2>3, <2>4
  <2>6. range(p) \cap range(q) = {}
    BY <1>2, <2>1
  <2> QED BY <2>5, <2>6
<1>7. UNION {rows(p) : p \in 0 .. k - 1} = all
  <2>1. \A z : z \in UNION {rows(p) : p \in 0 .. k - 1} <=> \E p \in 0 .. k - 1 : z \in rows(p)
    BY Zenon
  <2>2. \A x : x \in 0 .. n - 1 <=> \E p \in 0 .. k - 1 : x \in range(p)
    BY <1>2, Zenon
  <2>3. \A z : (\E p \in 0 .. k - 1 : z \in rows(p)) <=> z \in all
    <3> TAKE z
    <3>1. (\E p \in 0 .. k - 1 : z \in rows(p)) <=> \E p \in 0 .. k - 1 : \E x \in range(p) : z = t[x]
      BY <1>4
    <3>2. (\E p \in 0 .. k - 1 : \E x \in range(p) : z = t[x]) <=> \E x \in 0 .. n - 1 : z = t[x]
      BY <2>2, Zenon
    <3> QED BY <1>5, <3>1, <3>2
  <2> QED BY <2>1, <2>3, Zenon
<1>8. all # {}
  <2>1. 0 \in 0 .. n - 1
    BY <1>1
  <2> QED BY <1>5, <2>1
<1> QED BY <1>6, <1>7, <1>8 DEF k, rows, all

\* The workspace holds the state of each partition.
LEMMA SplitKHeld ==
  ASSUME NEW j \in Jobs, j.family = "split_k", Accepted(j), NEW head \in 0 .. j.s.queryHeads - 1,
         NEW p \in 0 .. j.s.partitions - 1
  PROVE  Held(j)[Partial(0, head, p)] = PartState(j.s, head, p)
<1> DEFINE k == j.s.partitions
           w == Write(Partial(0, head, p), PartState(j.s, head, p))
           b == head * k + p
<1>1. k \in Nat \ {0} /\ j.s.queryHeads \in Nat \ {0} /\ Grid(j) = j.s.queryHeads * k
  BY SplitKJob
<1>2. b \in 0 .. Grid(j) - 1 /\ b \div k = head /\ b % k = p
  <2> DEFINE h == j.s.queryHeads
             grid == Grid(j)
  <2>1. k \in Nat \ {0} /\ h \in Nat /\ head \in 0 .. h - 1 /\ p \in 0 .. k - 1 /\ grid = h * k
    BY <1>1
  <2> HIDE DEF k, h, grid
  <2>2. head * k + p \in 0 .. h * k - 1 /\ (head * k + p) \div k = head /\ (head * k + p) % k = p
    BY <2>1, GridCta
  <2> QED BY <2>1, <2>2 DEF grid
<1>3. Cta(j, b).writes = {w}
  <2> HIDE DEF b, w
  <2>1. Cta(j, b).writes = {Write(Partial(0, b \div k, b % k), PartState(j.s, b \div k, b % k))}
    BY <1>2, SplitKCta
  <2> QED BY <1>2, <2>1 DEF w
<1>4. w \in Writes(Effects(j))
  <2> HIDE DEF b, w
  <2> QED BY <1>2, <1>3, WrittenBy, Zenon
<1>5. w.at = Partial(0, head, p) /\ w.value = PartState(j.s, head, p)
  BY DEF Write
<1>6. w.at \in Places(j)
  <2>1. OutputRows(j) = {0} /\ OutputColumns(j) = 0 .. j.s.queryHeads - 1 /\ Partitions(j) = 0 .. k - 1
    BY SplitKJob
  <2>2. 0 \in OutputRows(j) /\ head \in OutputColumns(j) /\ p \in Partitions(j)
    BY <2>1
  <2>3. Partial(0, head, p) \in Places(j)
    BY <2>2 DEF Places
  <2> QED BY <1>5, <2>3
<1>7. \A v \in Writes(Effects(j)) : v.at = w.at => v.value = w.value
  <2>1. SUFFICES ASSUME NEW v \in Writes(Effects(j)), v.at = Partial(0, head, p)
                 PROVE  v.value = PartState(j.s, head, p)
    BY <1>5
  <2>2. PICK c \in 0 .. Grid(j) - 1 : v \in Cta(j, c).writes
    BY <2>1, WrittenBy, Zenon
  <2> DEFINE h == c \div k
             q == c % k
  <2>3. v = Write(Partial(0, h, q), PartState(j.s, h, q))
    BY <2>2, SplitKCta
  <2> HIDE DEF h, q
  <2>4. Partial(0, h, q) = Partial(0, head, p)
    BY <2>1, <2>3 DEF Write
  <2>5. h = head /\ q = p
    BY <2>4 DEF Partial
  <2> QED BY <2>3, <2>5 DEF Write
<1> HIDE DEF w
<1> QED BY <1>4, <1>5, <1>6, <1>7, HeldValue

\* The rows of the partitions of a warp's share.
WarpRows(s, head, w) ==
  UNION {PartRows(s, head, q) : q \in Share(s.partitions, ActiveWarps(s), w)}

\* A warp merges them.
LEMMA WarpMerge ==
  ASSUME NEW j \in Jobs, j.family = "split_k", Accepted(j), NEW head \in 0 .. j.s.queryHeads - 1,
         ActiveWarps(j.s) \in 1 .. j.s.partitions, NEW w \in 0 .. ActiveWarps(j.s) - 1
  PROVE  MergeAll([i \in 1 .. Cardinality(Share(j.s.partitions, ActiveWarps(j.s), w)) |->
                     Held(j)[Partial(0, head, ShareStart(j.s.partitions, ActiveWarps(j.s), w) + i - 1)]])
           = Weigh(WarpRows(j.s, head, w), "finite")
<1> DEFINE n == j.s.partitions
           k == ActiveWarps(j.s)
           a == ShareStart(n, k, w)
           c == ShareStart(n, k, w + 1)
           len == Cardinality(Share(n, k, w))
           rows == [q \in 0 .. n - 1 |-> PartRows(j.s, head, q)]
           A == [i \in 1 .. len |-> rows[a + i - 1]]
<1>1. n \in Nat \ {0} /\ k \in Nat \ {0} /\ k <= n /\ w \in 0 .. k - 1
  BY SplitKJob
<1>2. a \in Nat /\ c \in Nat /\ a < c /\ Share(n, k, w) = a .. c - 1 /\ len = c - a
  <2> HIDE DEF n, k
  <2> QED BY <1>1, ShareLengths
<1>3. c - 1 \in 0 .. n - 1
  <2>1. Share(n, k, w) \subseteq 0 .. n - 1
    <3> HIDE DEF n, k
    <3> QED BY <1>1, SharesDivide
  <2> HIDE DEF a, c, n, k
  <2>2. c - 1 \in a .. c - 1
    BY <1>2
  <2> QED BY <1>2, <2>1, <2>2
<1>4. \A i \in 1 .. len : a + i - 1 \in 0 .. n - 1
  <2> HIDE DEF a, c, n, k, len
  <2> QED BY <1>1, <1>2, <1>3
<1>5. \A p \in 0 .. n - 1 : Held(j)[Partial(0, head, p)] = Weigh(rows[p], "finite")
  BY SplitKHeld DEF PartState
<1>6. \A p, q \in 0 .. n - 1 : p # q => rows[p] \cap rows[q] = {}
  BY PartRowsDivide
<1>7. WarpRows(j.s, head, w) = UNION {rows[q] : q \in a .. c - 1}
  <2>1. \A q \in a .. c - 1 : q \in 0 .. n - 1
    <3> HIDE DEF a, c, n, k, len
    <3> QED BY <1>1, <1>2, <1>3
  <2>2. \A q \in a .. c - 1 : rows[q] = PartRows(j.s, head, q)
    BY <2>1
  <2>3. WarpRows(j.s, head, w) = UNION {PartRows(j.s, head, q) : q \in a .. c - 1}
    BY <1>2 DEF WarpRows
  <2> HIDE DEF rows, a, c
  <2> QED BY <2>2, <2>3, Zenon
<1> HIDE DEF rows, a, c, len, n, k
<1>8. \A i, i2 \in 1 .. len : i # i2 => A[i] \cap A[i2] = {}
  <2> TAKE i, i2 \in 1 .. len
  <2> HAVE i # i2
  <2>1. A[i] = rows[a + i - 1] /\ A[i2] = rows[a + i2 - 1]
    OBVIOUS
  <2>2. a + i - 1 # a + i2 - 1
    BY <1>2
  <2> HIDE DEF A
  <2> QED BY <1>4, <1>6, <2>1, <2>2
<1>9. len \in Nat \ {0}
  BY <1>2
<1>10. [i \in 1 .. len |-> Held(j)[Partial(0, head, a + i - 1)]] = [i \in 1 .. len |-> Weigh(A[i], "finite")]
  <2>1. \A i \in 1 .. len : Held(j)[Partial(0, head, a + i - 1)] = Weigh(A[i], "finite")
    BY <1>4, <1>5
  <2> HIDE DEF A
  <2> QED BY <2>1, Zenon
<1>11. UNION {A[i] : i \in 1 .. len} = UNION {rows[q] : q \in a .. c - 1}
  <2>1. \A i \in 1 .. len : a + i - 1 \in a .. c - 1 /\ A[i] = rows[a + i - 1]
    BY <1>2
  <2>2. \A q \in a .. c - 1 : (q - a) + 1 \in 1 .. len /\ A[(q - a) + 1] = rows[q]
    <3> TAKE q \in a .. c - 1
    <3>1. (q - a) + 1 \in 1 .. len /\ a + ((q - a) + 1) - 1 = q
      BY <1>2
    <3> QED BY <3>1
  <2> HIDE DEF A
  <2> QED BY <2>1, <2>2
<1> HIDE DEF A
<1>12. MergeAll([i \in 1 .. len |-> Weigh(A[i], "finite")]) = Weigh(UNION {A[i] : i \in 1 .. len}, "finite")
  BY <1>8, <1>9, FiniteMerge
<1> QED BY <1>7, <1>10, <1>11, <1>12 DEF len, a, n, k

\* Some warps are active, and no more than there are partitions.
LEMMA WarpsActive ==
  ASSUME NEW j \in Jobs, j.family = "split_k", Accepted(j)
  PROVE  ActiveWarps(j.s) \in 1 .. j.s.partitions
<1>1. j.s.partitions \in Nat \ {0} /\ MergeWarps \in Nat \ {0}
  BY SplitKJob, SplitKAssumption
<1>2. ActiveWarps(j.s) = IF j.s.partitions <= MergeWarps THEN j.s.partitions ELSE MergeWarps
  BY <1>1, SmallerOfTwo DEF ActiveWarps
<1> QED BY <1>1, <1>2

\* The warps' rows are the head's.
LEMMA WarpRowsDivide ==
  ASSUME NEW j \in Jobs, j.family = "split_k", Accepted(j), NEW head \in 0 .. j.s.queryHeads - 1
  PROVE  /\ \A v, w \in 0 .. ActiveWarps(j.s) - 1 :
              v # w => WarpRows(j.s, head, v) \cap WarpRows(j.s, head, w) = {}
         /\ UNION {WarpRows(j.s, head, w) : w \in 0 .. ActiveWarps(j.s) - 1} = SingleReference(j.s, head)
<1> DEFINE n == j.s.partitions
           k == ActiveWarps(j.s)
           share(w) == Share(n, k, w)
           rows(q) == PartRows(j.s, head, q)
           warp(w) == WarpRows(j.s, head, w)
<1>1. n \in Nat \ {0} /\ k \in Nat \ {0}
  BY SplitKJob, WarpsActive
<1>2. /\ \A w \in 0 .. k - 1 : share(w) \subseteq 0 .. n - 1
      /\ \A v, w \in 0 .. k - 1 : v # w => share(v) \cap share(w) = {}
      /\ \A q \in 0 .. n - 1 : \E w \in 0 .. k - 1 : q \in share(w)
  <2> HIDE DEF n, k
  <2> QED BY <1>1, SharesDivide
<1>3. /\ \A p, q \in 0 .. n - 1 : p # q => rows(p) \cap rows(q) = {}
      /\ UNION {rows(q) : q \in 0 .. n - 1} = SingleReference(j.s, head)
  BY PartRowsDivide
<1>4. \A w : \A z : z \in warp(w) <=> \E q \in share(w) : z \in rows(q)
  BY Zenon DEF WarpRows
<1> HIDE DEF n, k, share, rows, warp
<1>5. \A v, w \in 0 .. k - 1 : v # w => warp(v) \cap warp(w) = {}
  <2>1. SUFFICES ASSUME NEW v \in 0 .. k - 1, NEW w \in 0 .. k - 1, v # w, NEW z,
                        z \in warp(v), z \in warp(w)
                 PROVE  FALSE
    BY Zenon
  <2>2. PICK p \in share(v) : z \in rows(p)
    BY <1>4, <2>1
  <2>3. PICK q \in share(w) : z \in rows(q)
    BY <1>4, <2>1
  <2>4. p \in 0 .. n - 1 /\ q \in 0 .. n - 1 /\ p # q
    BY <1>2, <2>1
  <2> QED BY <1>3, <2>2, <2>3, <2>4
<1>6. UNION {warp(w) : w \in 0 .. k - 1} = UNION {rows(q) : q \in 0 .. n - 1}
  <2>1. \A z : z \in UNION {warp(w) : w \in 0 .. k - 1} <=> \E w \in 0 .. k - 1 : z \in warp(w)
    BY Zenon
  <2>2. \A z : z \in UNION {rows(q) : q \in 0 .. n - 1} <=> \E q \in 0 .. n - 1 : z \in rows(q)
    BY Zenon
  <2>3. \A z : (\E w \in 0 .. k - 1 : z \in warp(w)) <=> (\E q \in 0 .. n - 1 : z \in rows(q))
    BY <1>2, <1>4, Zenon
  <2> QED BY <2>1, <2>2, <2>3, Zenon
<1> QED BY <1>3, <1>5, <1>6 DEF k, warp

\* What the merge of a head writes is exact.
LEMMA SplitKMerged ==
  ASSUME NEW j \in Jobs, j.family = "split_k", Accepted(j), NEW head \in 0 .. j.s.queryHeads - 1
  PROVE  SplitKMerge(j.s, head, Held(j)).writes = {Exact(j, 0, 0, head)}
<1> DEFINE k == ActiveWarps(j.s)
           warp(w) == MergeAll([i \in 1 .. Cardinality(Share(j.s.partitions, k, w)) |->
                        Held(j)[Partial(0, head, ShareStart(j.s.partitions, k, w) + i - 1)]])
           A == [w \in 1 .. k |-> WarpRows(j.s, head, w - 1)]
           merged == MergeAll([w \in 1 .. k |-> warp(w - 1)])
           rows == SingleReference(j.s, head)
<1>1. k \in 1 .. j.s.partitions /\ k \in Nat \ {0}
  BY WarpsActive, SplitKJob
<1>2. \A w \in 1 .. k : warp(w - 1) = Weigh(A[w], "finite")
  <2> TAKE w \in 1 .. k
  <2>1. w - 1 \in 0 .. k - 1
    BY <1>1
  <2>2. warp(w - 1) = Weigh(WarpRows(j.s, head, w - 1), "finite")
    BY <1>1, <2>1, WarpMerge
  <2> HIDE DEF warp
  <2> QED BY <2>2
<1>3. SplitKMerge(j.s, head, Held(j)).writes = {Write(Output(0, head), Normalized(merged))}
  BY DEF SplitKMerge
<1> HIDE DEF warp
<1>4. merged = MergeAll([w \in 1 .. k |-> Weigh(A[w], "finite")])
  <2> HIDE DEF A
  <2>1. [w \in 1 .. k |-> warp(w - 1)] = [w \in 1 .. k |-> Weigh(A[w], "finite")]
    BY <1>2, Zenon
  <2> QED BY <2>1
<1> HIDE DEF merged
<1>5. /\ \A v, w \in 0 .. k - 1 :
           v # w => WarpRows(j.s, head, v) \cap WarpRows(j.s, head, w) = {}
      /\ UNION {WarpRows(j.s, head, w) : w \in 0 .. k - 1} = rows
  BY WarpRowsDivide
<1>6. \A v, w \in 1 .. k : v # w => A[v] \cap A[w] = {}
  <2> TAKE v, w \in 1 .. k
  <2> HAVE v # w
  <2>1. v - 1 \in 0 .. k - 1 /\ w - 1 \in 0 .. k - 1 /\ v - 1 # w - 1
    BY <1>1
  <2>2. A[v] = WarpRows(j.s, head, v - 1) /\ A[w] = WarpRows(j.s, head, w - 1)
    OBVIOUS
  <2> HIDE DEF A
  <2> QED BY <1>5, <2>1, <2>2
<1>7. UNION {A[w] : w \in 1 .. k} = rows
  <2> HIDE DEF k, rows
  <2>1. \A w \in 1 .. k : w - 1 \in 0 .. k - 1 /\ A[w] = WarpRows(j.s, head, w - 1)
    BY <1>1
  <2>2. \A w \in 0 .. k - 1 : w + 1 \in 1 .. k /\ A[w + 1] = WarpRows(j.s, head, w)
    <3> TAKE w \in 0 .. k - 1
    <3>1. w + 1 \in 1 .. k /\ (w + 1) - 1 = w
      BY <1>1
    <3> QED BY <3>1
  <2> HIDE DEF A
  <2>3. UNION {A[w] : w \in 1 .. k} = UNION {WarpRows(j.s, head, w) : w \in 0 .. k - 1}
    BY <2>1, <2>2
  <2> QED BY <1>5, <2>3
<1> HIDE DEF A, k
<1>8. merged = Weigh(rows, "finite")
  BY <1>1, <1>4, <1>6, <1>7, FiniteMerge
<1>9. rows # {}
  BY PartRowsDivide
<1>10. Normalized(merged) = [rows |-> SetToBag(rows), sound |-> TRUE]
  BY <1>8, <1>9, NormalizedRows
<1>11. rows = Reference(j, 0, 0, head)
  BY DEF Reference
<1> HIDE DEF rows
<1> QED BY <1>3, <1>10, <1>11 DEF Exact
-----------------------------------------------------------------------------
(* The merge of every row and head *)

\* The second kernel's CTA of a row and head, over what the first one left.
MergeOf(j, row, head) ==
  IF j.family = "split_k" THEN SplitKMerge(j.s, head, Held(j)) ELSE TiledMerge(row, head, Held(j))

MergesExactly(j) ==
  /\ \A row \in OutputRows(j) : \E r \in JobRequests(j) : Holds(j, r, row)
  /\ \A r \in JobRequests(j), row \in OutputRows(j), head \in OutputColumns(j) :
       Holds(j, r, row) => MergeOf(j, row, head).writes = {Exact(j, r, row, head)}

\* When each of them is exact, so is the output.
LEMMA MergeCtasExact ==
  ASSUME NEW j \in Jobs, HasMerge(j), Attention(j), Accepted(j), workspace = Held(j), MergesExactly(j)
  PROVE  Writes([b \in 0 .. States(j.s) - 1 |-> MergeCta(j, b)]) = Expected(j)
<1> DEFINE h == j.s.queryHeads
           n == j.s.nnzQo
           F == Writes([b \in 0 .. States(j.s) - 1 |-> MergeCta(j, b)])
<1>1. /\ h \in Nat \ {0} /\ n \in Nat \ {0} /\ States(j.s) = n * h
      /\ OutputRows(j) = 0 .. n - 1 /\ OutputColumns(j) = 0 .. h - 1
  BY AttentionJob DEF States
<1>2. \A b : MergeCta(j, b) = MergeOf(j, b \div h, b % h)
  BY DEF MergeCta, MergeOf
<1>3. \A w : w \in F <=> \E b \in 0 .. States(j.s) - 1 : w \in MergeCta(j, b).writes
  BY Zenon DEF Writes
<1> HIDE DEF h, n, F
<1>4. \A b \in 0 .. States(j.s) - 1 : b \div h \in 0 .. n - 1 /\ b % h \in 0 .. h - 1
  BY <1>1, GridIndex
<1>5. \A w \in F : \E r \in JobRequests(j), row \in OutputRows(j), head \in OutputColumns(j) :
        Holds(j, r, row) /\ w = Exact(j, r, row, head)
  <2> TAKE w \in F
  <2>1. PICK b \in 0 .. States(j.s) - 1 : w \in MergeCta(j, b).writes
    BY <1>3, Zenon
  <2> DEFINE row == b \div h
             head == b % h
  <2>2. row \in OutputRows(j) /\ head \in OutputColumns(j) /\ w \in MergeOf(j, row, head).writes
    BY <1>1, <1>2, <1>4, <2>1
  <2> HIDE DEF row, head
  <2>3. PICK r \in JobRequests(j) : Holds(j, r, row)
    BY <2>2, Zenon DEF MergesExactly
  <2>4. MergeOf(j, row, head).writes = {Exact(j, r, row, head)}
    BY <2>2, <2>3, Zenon DEF MergesExactly
  <2>5. w = Exact(j, r, row, head)
    BY <2>2, <2>4
  <2> QED BY <2>2, <2>3, <2>5, Zenon
<1>6. \A r \in JobRequests(j), row \in OutputRows(j), head \in OutputColumns(j) :
        Holds(j, r, row) => Exact(j, r, row, head) \in F
  <2> TAKE r \in JobRequests(j), row \in OutputRows(j), head \in OutputColumns(j)
  <2> HAVE Holds(j, r, row)
  <2> DEFINE b == row * h + head
  <2>1. b \in 0 .. n * h - 1 /\ b \div h = row /\ b % h = head
    <3>1. h \in Nat \ {0} /\ n \in Nat /\ row \in 0 .. n - 1 /\ head \in 0 .. h - 1
      BY <1>1
    <3> HIDE DEF b
    <3>2. /\ row * h + head \in 0 .. n * h - 1
          /\ (row * h + head) \div h = row /\ (row * h + head) % h = head
      BY <3>1, GridCta
    <3> QED BY <3>2 DEF b
  <2> HIDE DEF b
  <2>2. MergeOf(j, row, head).writes = {Exact(j, r, row, head)}
    BY Zenon DEF MergesExactly
  <2>3. b \in 0 .. States(j.s) - 1 /\ Exact(j, r, row, head) \in MergeCta(j, b).writes
    BY <1>1, <1>2, <2>1, <2>2
  <2> QED BY <1>3, <2>3, Zenon
<1>7. F = Expected(j)
  BY <1>5, <1>6, Completed
<1> QED BY <1>7 DEF F

\* Split-K merges every head exactly.
LEMMA SplitKExact ==
  ASSUME NEW j \in Jobs, j.family = "split_k", Accepted(j)
  PROVE  MergesExactly(j)
<1>1. /\ OutputRows(j) = {0} /\ OutputColumns(j) = 0 .. j.s.queryHeads - 1 /\ JobRequests(j) = {0}
  <2>1. JobRequests(j) = {0}
    BY SplitKJob DEF JobRequests
  <2> QED BY <2>1, SplitKJob
<1>2. \A r, row : Holds(j, r, row) <=> row = r
  BY DEF Holds
<1>3. \A head \in 0 .. j.s.queryHeads - 1 : MergeOf(j, 0, head).writes = {Exact(j, 0, 0, head)}
  BY SplitKMerged DEF MergeOf
<1> QED BY <1>1, <1>2, <1>3 DEF MergesExactly
-----------------------------------------------------------------------------
(* Tiled prefill: what a row's loop over the K/V tiles comes to *)

\* The rows that the loop weighs of each K/V tile.
TileParts(n, A, tokens, range, end) ==
  /\ DOMAIN KvTileStarts(range) = 1 .. n
  /\ \A i \in 1 .. n : Pick(tokens, Scored(KvTileStarts(range)[i], range, end)) = A[i]

\* The loop weighs, tile by tile, disjoint sets of rows.
LEMMA TileMerge ==
  ASSUME NEW n \in Nat, NEW A, \A i, j \in 1 .. n : i # j => A[i] \cap A[j] = {},
         NEW tokens, NEW range, NEW end, TileParts(n, A, tokens, range, end)
  PROVE  TileState(tokens, range, end) = Weigh(UNION {A[i] : i \in 1 .. n}, "-inf")
<1> DEFINE D == 1 .. n
           starts == KvTileStarts(range)
           U(s) == UNION {A[i] : i \in s}
           G == [s \in SUBSET D |-> Weigh(U(s), "-inf")]
           Step(it, s) ==
             TileUpdate(it[s \ {Max(s)}], Pick(tokens, Scored(starts[Max(s)], range, end)))
           Recurs(it) ==
             it = [s \in SUBSET D |-> IF s = {} THEN Weigh({}, "-inf") ELSE Step(it, s)]
<1>1. TileState(tokens, range, end) = (CHOOSE it : Recurs(it))[D]
  BY DEF TileState, FoldLeft, MapThenFoldSet, TileParts
<1>2. ASSUME NEW s \in SUBSET D, s # {} PROVE Max(s) \in s /\ Step(G, s) = Weigh(U(s), "-inf")
  <2>1. Max(s) \in s
    BY <1>2, LargestIndex
  <2> PICK x \in s : x = Max(s)
    BY <2>1
  <2> DEFINE B == U(s \ {x})
  <2>2. G[s \ {x}] = Weigh(B, "-inf") /\ Pick(tokens, Scored(starts[x], range, end)) = A[x]
    <3>1. s \ {x} \in SUBSET D
      OBVIOUS
    <3>2. G[s \ {x}] = Weigh(B, "-inf")
      <4> HIDE DEF U, D
      <4> QED BY <3>1
    <3> QED BY <3>2, Zenon DEF TileParts
  <2>3. U(s) = B \cup A[x] /\ B \cap A[x] = {}
    <3>1. \A i \in s \ {x} : A[i] \cap A[x] = {}
      OBVIOUS
    <3>2. B \cap A[x] = {}
      <4> HIDE DEF D
      <4> QED BY <3>1
    <3>3. U(s) = B \cup A[x]
      <4> HIDE DEF D
      <4> QED OBVIOUS
    <3> QED BY <3>2, <3>3
  <2> HIDE DEF B, U, G, starts
  <2>4. Step(G, s) = TileUpdate(Weigh(B, "-inf"), A[x])
    BY <2>2
  <2>5. CASE A[x] = {}
    <3>1. Step(G, s) = Weigh(B, "-inf")
      BY <2>4, <2>5 DEF TileUpdate
    <3> QED BY <2>1, <2>3, <2>5, <3>1
  <2>6. CASE A[x] # {} /\ B = {}
    <3>1. Empty(Weigh(B, "-inf"))
      BY <2>6, EmptyState
    <3>2. Step(G, s) = Weigh(A[x], "-inf")
      BY <2>4, <2>6, <3>1 DEF TileUpdate
    <3> QED BY <2>1, <2>3, <2>6, <3>2
  <2>7. CASE A[x] # {} /\ B # {}
    <3>1. ~Empty(Weigh(B, "-inf"))
      BY <2>7, EmptyState
    <3>2. Step(G, s) = Combine(Weigh(B, "-inf"), Weigh(A[x], "-inf"))
      BY <2>4, <2>7, <3>1 DEF TileUpdate
    <3>3. Combine(Weigh(B, "-inf"), Weigh(A[x], "-inf")) = Weigh(B \cup A[x], "-inf")
      BY <2>3, <2>7, StatesCombine
    <3> QED BY <2>1, <2>3, <3>2, <3>3
  <2> QED BY <2>5, <2>6, <2>7
<1>3. U({}) = {}
  OBVIOUS
<1>4. Recurs(G)
  <2>1. ASSUME NEW s \in SUBSET D
        PROVE  Weigh(U(s), "-inf") = IF s = {} THEN Weigh({}, "-inf") ELSE Step(G, s)
    <3> HIDE DEF Step, G, U
    <3>1. CASE s = {}
      BY <1>3, <3>1
    <3>2. CASE s # {}
      BY <1>2, <3>2
    <3> QED BY <3>1, <3>2
  <2> HIDE DEF Step, U
  <2> QED BY <2>1
<1>5. PICK it : it = CHOOSE f : Recurs(f)
  OBVIOUS
<1>6. Recurs(it)
  <2> HIDE DEF Recurs, G
  <2> QED BY <1>4, <1>5, Zenon
<1>7. it[D] = G[D]
  <2>1. IsFiniteSet(D)
    BY FS_Interval
  <2>2. it[{}] = G[{}]
    BY <1>3, <1>6
  <2>3. ASSUME NEW s \in SUBSET D, s # {}
        PROVE  \E x \in s : it[s \ {x}] = G[s \ {x}] => it[s] = G[s]
    <3>1. Max(s) \in s
      BY <1>2, <2>3
    <3>2. it[s] = Step(it, s) /\ G[s] = Step(G, s)
      <4> HIDE DEF Step, G
      <4> QED BY <1>4, <1>6, <2>3
    <3>3. it[s \ {Max(s)}] = G[s \ {Max(s)}] => Step(it, s) = Step(G, s)
      <4> HIDE DEF G, starts
      <4> QED OBVIOUS
    <3> QED BY <3>1, <3>2, <3>3
  <2> HIDE DEF D, G, Recurs
  <2>4. \A s \in SUBSET D : s # {} => \E x \in s : it[s \ {x}] = G[s \ {x}] => it[s] = G[s]
    BY <2>3
  <2> QED BY <2>1, <2>2, <2>4, SameFold, ZenonT(60)
<1> QED BY <1>1, <1>5, <1>7

\* The smallest of three numbers is above what is below each of them.
LEMMA BelowThree ==
  ASSUME NEW u \in Nat, NEW v \in Nat, NEW w \in Nat, NEW x \in Nat
  PROVE  Min({u, v, w}) \in Nat /\ (x < Min({u, v, w}) <=> x < u /\ x < v /\ x < w)
<1> DEFINE S == {u, v, w}
<1>1. S \in SUBSET Nat /\ S # {}
  OBVIOUS
<1>2. Min(S) \in S /\ \A y \in S : Min(S) <= y
  <2> HIDE DEF S
  <2> QED BY <1>1, SmallestMember
<1>3. Min(S) \in {u, v, w} /\ Min(S) <= u /\ Min(S) <= v /\ Min(S) <= w
  BY <1>2
<1> HIDE DEF S
<1> QED BY <1>3 DEF S

\* The tokens scored in the i-th K/V tile of a partition.
LEMMA ScoredTokens ==
  ASSUME NEW a \in Nat, NEW c \in Nat, a < c, TiledKvRows \in Nat \ {0}, NEW end \in Nat,
         Max(a .. c - 1) = c - 1, NEW i \in Nat, NEW x
  PROVE  x \in Scored(a + i * TiledKvRows, a .. c - 1, end)
           <=> x \in a .. c - 1 /\ x < end /\ (x - a) \div TiledKvRows = i
<1> DEFINE k == TiledKvRows
           start == a + i * k
           last == Min({start + k, end, c})
<1>1. i * k \in Nat
  BY UnitOf
<1>2. start \in Nat
  BY <1>1
<1>3. (c - 1) + 1 = c
  OBVIOUS
<1>4. Scored(start, a .. c - 1, end) = start .. last - 1
  BY <1>3 DEF Scored
<1>5. last \in Nat
  <2> HIDE DEF start
  <2>1. start + k \in Nat
    BY <1>2
  <2> QED BY <2>1, BelowThree
<1>6. ASSUME NEW y \in Nat
      PROVE  y < last <=> y < start + k /\ y < end /\ y < c
  <2> HIDE DEF start
  <2>1. start + k \in Nat
    BY <1>2
  <2> QED BY <2>1, BelowThree
<1>7. ASSUME NEW y \in Nat, a <= y
      PROVE  start <= y /\ y < start + k <=> (y - a) \div k = i
  <2> DEFINE z == y - a
             u == i * k
  <2>1. z \in Nat /\ (start <= y /\ y < start + k <=> u <= z /\ z < u + k)
    <3> HIDE DEF u
    <3> QED BY <1>1, <1>7 DEF u
  <2> HIDE DEF z
  <2>2. u <= z /\ z < u + k <=> z \div k = i
    BY <2>1, UnitOf
  <2> QED BY <2>1, <2>2 DEF z
<1>8. x \in start .. last - 1 <=> x \in Nat /\ start <= x /\ x < last
  <2> HIDE DEF start, last
  <2> QED BY <1>2, <1>5
<1>9. x \in a .. c - 1 <=> x \in Nat /\ a <= x /\ x < c
  OBVIOUS
<1>10. a <= start
  BY <1>1
<1> HIDE DEF start, last, k
<1>11. start <= x /\ x \in Nat => a <= x
  BY <1>2, <1>10
<1> QED BY <1>4, <1>6, <1>7, <1>8, <1>9, <1>11 DEF start, k

\* So a row ends with the tokens of the partition below its causal end.
LEMMA PartitionState ==
  ASSUME NEW a \in Nat, NEW c \in Nat, a <= c, TiledKvRows \in Nat \ {0}, NEW end \in Nat, NEW tokens,
         \A x, y \in a .. c - 1 : tokens[x] = tokens[y] => x = y
  PROVE  TileState(tokens, a .. c - 1, end) = Weigh(Pick(tokens, {x \in a .. c - 1 : x < end}), "-inf")
<1> DEFINE k == TiledKvRows
           n == CeilDiv(c - a, k)
           range == a .. c - 1
           starts == KvTileStarts(range)
           scored(i) == Scored(starts[i], range, end)
           A == [i \in 1 .. n |-> Pick(tokens, scored(i))]
           seen == {x \in a .. c - 1 : x < end}
<1>1. /\ n \in Nat /\ starts = [i \in 1 .. n |-> Min(a .. c - 1) + (i - 1) * k]
      /\ n > 0 => a < c /\ Min(a .. c - 1) = a /\ Max(a .. c - 1) = c - 1
  BY KvTiles
<1>2. DOMAIN starts = 1 .. n
  BY <1>1
<1>3. c - a \in Nat /\ n * k \in Nat /\ c - a <= n * k
  <2>1. c - a \in Nat
    OBVIOUS
  <2> QED BY <2>1, UnitsThatHold
<1> HIDE DEF n, range, starts
<1>4. ASSUME NEW i \in 1 .. n, NEW x
      PROVE  x \in scored(i) <=> x \in a .. c - 1 /\ x < end /\ (x - a) \div k = i - 1
  <2> DEFINE l == i - 1
  <2>1. l \in Nat /\ a < c /\ Max(a .. c - 1) = c - 1 /\ starts[i] = a + l * k
    BY <1>1
  <2> HIDE DEF l
  <2>2. x \in Scored(a + l * k, a .. c - 1, end) <=> x \in a .. c - 1 /\ x < end /\ (x - a) \div k = l
    BY <2>1, ScoredTokens, SMTT(30)
  <2> QED BY <2>1, <2>2 DEF l, range
<1> HIDE DEF scored
<1>5. \A i : \A z : z \in Pick(tokens, scored(i)) <=> \E x \in scored(i) : z = tokens[x]
  BY Zenon DEF Pick
<1>6. \A i, i2 \in 1 .. n : i # i2 => A[i] \cap A[i2] = {}
  <2>1. SUFFICES ASSUME NEW i \in 1 .. n, NEW i2 \in 1 .. n, i # i2,
                        NEW x \in scored(i), NEW y \in scored(i2), tokens[x] = tokens[y]
                 PROVE  FALSE
    BY <1>5
  <2>2. x \in a .. c - 1 /\ y \in a .. c - 1 /\ (x - a) \div k = i - 1 /\ (y - a) \div k = i2 - 1
    BY <1>4
  <2>3. x = y
    BY <2>1, <2>2
  <2>4. i - 1 = i2 - 1
    BY <2>2, <2>3
  <2>5. i \in Int /\ i2 \in Int
    OBVIOUS
  <2> QED BY <2>1, <2>4, <2>5
<1>7. \A i \in 1 .. n : Pick(tokens, Scored(starts[i], range, end)) = A[i]
  BY DEF scored
<1>8. UNION {A[i] : i \in 1 .. n} = Pick(tokens, seen)
  <2>1. \A z : z \in UNION {A[i] : i \in 1 .. n} <=> \E i \in 1 .. n : \E x \in scored(i) : z = tokens[x]
    <3>1. \A i \in 1 .. n : A[i] = Pick(tokens, scored(i))
      OBVIOUS
    <3> HIDE DEF A
    <3>2. \A z : z \in UNION {A[i] : i \in 1 .. n} <=> \E i \in 1 .. n : z \in A[i]
      BY Zenon
    <3> QED BY <1>5, <3>1, <3>2
  <2>2. \A z : z \in Pick(tokens, seen) <=> \E x \in seen : z = tokens[x]
    BY Zenon DEF Pick
  <2>3. ASSUME NEW x PROVE x \in seen <=> \E i \in 1 .. n : x \in scored(i)
    <3>1. ASSUME NEW i \in 1 .. n, x \in scored(i) PROVE x \in seen
      BY <1>4, <3>1
    <3>2. ASSUME x \in seen PROVE \E i \in 1 .. n : x \in scored(i)
      <4> DEFINE y == x - a
                 l == y \div k
      <4>1. x \in a .. c - 1 /\ x < end
        BY <3>2
      <4>2. y \in 0 .. n * k - 1
        <5> DEFINE u == n * k
        <5> HIDE DEF u
        <5>1. y \in 0 .. u - 1
          BY <1>3, <4>1 DEF u
        <5> QED BY <5>1 DEF u
      <4> HIDE DEF y
      <4>3. l \in 0 .. n - 1
        BY <1>1, <4>2, GridIndex
      <4> HIDE DEF l
      <4>4. l + 1 \in 1 .. n /\ (l + 1) - 1 = l
        BY <1>1, <4>3
      <4>5. (x - a) \div k = (l + 1) - 1
        BY <4>4 DEF l, y
      <4>6. x \in scored(l + 1)
        BY <1>4, <4>1, <4>4, <4>5
      <4> QED BY <4>4, <4>6
    <3> QED BY <3>1, <3>2
  <2> HIDE DEF A, seen
  <2>4. \A z : (\E i \in 1 .. n : \E x \in scored(i) : z = tokens[x]) <=> \E x \in seen : z = tokens[x]
    BY <2>3, Zenon
  <2>5. \A z : z \in UNION {A[i] : i \in 1 .. n} <=> z \in Pick(tokens, seen)
    BY <2>1, <2>2, <2>4
  <2> QED BY <2>5, Zenon
<1> HIDE DEF A, seen
<1>9. TileState(tokens, range, end) = Weigh(UNION {A[i] : i \in 1 .. n}, "-inf")
  <2>1. TileParts(n, A, tokens, range, end)
    BY <1>2, <1>7, Zenon DEF TileParts, starts
  <2>2. n \in Nat
    BY <1>1
  <2> HIDE DEF n, starts
  <2> QED BY <1>6, <2>1, <2>2, TileMerge
<1> QED BY <1>8, <1>9 DEF range, seen
-----------------------------------------------------------------------------
(* Tiled prefill: every row of a valid call is some CTA's *)

\* Numbers of tiles that add up, over ranges that follow one another.
TileCounts(k, n, ptr, before) ==
  /\ ptr[0] = 0 /\ before[0] = 0
  /\ \A r \in 0 .. n - 1 :
       /\ before[r] \in Nat /\ ptr[r + 1] - ptr[r] \in Nat \ {0}
       /\ before[r + 1] = before[r] + CeilDiv(ptr[r + 1] - ptr[r], k)

\* The tiles of the first r ranges have fewer than k rows to spare each.
LEMMA TilesSpare ==
  ASSUME NEW k \in Nat \ {0}, NEW n \in Nat, NEW ptr \in [0 .. n -> Int], NEW before \in [0 .. n -> Int],
         TileCounts(k, n, ptr, before), NEW r \in 0 .. n
  PROVE  before[r] \in Nat /\ before[r] * k <= ptr[r] + r * (k - 1)
<1> DEFINE rows(x) == before[x] * k
           spare(x) == x * (k - 1)
           T == {x \in 0 .. n : ~(before[x] \in Nat /\ rows(x) <= ptr[x] + spare(x))}
<1>1. T \in SUBSET Nat
  OBVIOUS
<1>2. 0 \notin T
  BY DEF TileCounts
<1>3. ASSUME T # {} PROVE FALSE
  <2>1. PICK x \in T : \A y \in T : x <= y
    <3> HIDE DEF T
    <3> QED BY <1>1, <1>3, LeastMember
  <2>2. x \in 0 .. n /\ x # 0
    BY <1>2, <2>1
  <2> DEFINE y == x - 1
             t == CeilDiv(ptr[y + 1] - ptr[y], k)
  <2>3. y \in 0 .. n - 1 /\ y \in 0 .. n /\ y + 1 = x /\ y < x /\ y \in Nat /\ x \in 0 .. n
    BY <2>2
  <2>4. ~(before[x] \in Nat /\ rows(x) <= ptr[x] + spare(x))
    BY <2>1
  <2>5. y \notin T
    BY <2>1, <2>3
  <2>6. before[y] \in Nat /\ rows(y) <= ptr[y] + spare(y)
    BY <2>3, <2>5
  <2> HIDE DEF y, T
  <2>7. before[y] \in Nat /\ ptr[y + 1] - ptr[y] \in Nat \ {0} /\ before[y + 1] = before[y] + t
    BY <2>3 DEF TileCounts
  <2>8. t \in Nat /\ t * k \in Nat /\ t * k <= (ptr[y + 1] - ptr[y]) + k - 1
    BY <2>7, UnitsThatHold
  <2> HIDE DEF t
  <2>9. rows(x) = rows(y) + t * k /\ rows(y) \in Nat
    <3>1. before[x] = before[y] + t
      BY <2>3, <2>7
    <3> DEFINE c == before[y]
    <3>2. c \in Nat /\ before[x] = c + t
      BY <2>7, <3>1
    <3> HIDE DEF c
    <3>3. (c + t) * k = c * k + t * k /\ c * k \in Nat
      BY <2>8, <3>2
    <3>4. rows(x) = (c + t) * k
      BY <3>2
    <3>5. rows(y) = c * k
      BY DEF c
    <3> QED BY <3>3, <3>4, <3>5
  <2>10. spare(x) = spare(y) + (k - 1) /\ spare(y) \in Nat
    <3>1. (y + 1) * (k - 1) = y * (k - 1) + (k - 1) /\ y * (k - 1) \in Nat
      BY <2>3
    <3> QED BY <2>3, <3>1
  <2>11. before[x] \in Nat
    BY <2>3, <2>7, <2>8, SMTT(30)
  <2>12. ptr[x] \in Int /\ ptr[y] \in Int /\ ptr[y + 1] = ptr[x]
    BY <2>3
  <2> DEFINE w == t * k
  <2>13. w \in Nat /\ w <= (ptr[x] - ptr[y]) + k - 1 /\ rows(x) = rows(y) + w
    BY <2>8, <2>9, <2>12
  <2> DEFINE ax == rows(x)
             ay == rows(y)
             cx == spare(x)
             cy == spare(y)
             px == ptr[x]
             py == ptr[y]
  <2>14. /\ ay \in Nat /\ cy \in Nat /\ w \in Nat /\ px \in Int /\ py \in Int
         /\ ay <= py + cy /\ ax = ay + w /\ w <= (px - py) + k - 1 /\ cx = cy + (k - 1)
    BY <2>6, <2>9, <2>10, <2>12, <2>13
  <2>15. ~(ax <= px + cx)
    BY <2>4, <2>11
  <2> HIDE DEF rows, spare, w, ax, ay, cx, cy, px, py
  <2> QED BY <2>14, <2>15
<1> QED BY <1>3

\* So all of them fit in the tiles of the rows, were they one range, and one
\* more for each range but the first.
LEMMA TilesFit ==
  ASSUME NEW k \in Nat \ {0}, NEW n \in Nat \ {0}, NEW ptr \in [0 .. n -> Int],
         NEW before \in [0 .. n -> Int], TileCounts(k, n, ptr, before), ptr[n] \in Nat
  PROVE  /\ CeilDiv(ptr[n], k) \in Nat
         /\ before[n] <= CeilDiv(ptr[n], k) + n - 1
<1> DEFINE b == before[n]
           u == CeilDiv(ptr[n], k)
           x == b * k
           y == u * k
           z == n * (k - 1)
           v == (u + n) * k
<1>1. b \in Nat /\ x <= ptr[n] + z
  <2>1. n \in 0 .. n /\ n \in Nat
    OBVIOUS
  <2> QED BY <2>1, TilesSpare
<1>2. u \in Nat /\ y \in Nat /\ ptr[n] <= y
  BY UnitsThatHold
<1> HIDE DEF b, u
<1>3. v = y + n * k /\ z = n * k - n /\ n * k \in Nat /\ x \in Nat
  BY <1>1, <1>2
<1>4. ~(u + n <= b)
  <2>1. ASSUME u + n <= b PROVE v <= x
    BY <1>1, <1>2, <2>1, ProductGrows
  <2> DEFINE nk == n * k
  <2>2. v = y + nk /\ z = nk - n /\ nk \in Nat /\ x \in Nat
    BY <1>3
  <2> HIDE DEF v, x, y, z, nk
  <2> QED BY <1>1, <1>2, <2>1, <2>2
<1> QED BY <1>1, <1>2, <1>4, SMTT(30) DEF u, b

\* With valid metadata every request is sound, and so is the search.
LEMMA ValidTiles ==
  ASSUME NEW j \in Jobs, Tiled(j), Accepted(j), Valid(j)
  PROVE  /\ RaggedEndpoints(j.s, j.m) /\ SoundUpTo(j.s, j.m) = j.s.batch
         /\ InOrder(j.s, j.m, j.s.batch) /\ RowsDivide(j.m.qo, j.s.batch, j.s.nnzQo)
         /\ \A r \in 0 .. j.s.batch - 1 : RequestInBounds(j.s, j.m, r)
<1> DEFINE n == j.s.batch
           qo == j.m.qo
           kv == j.m.kv
<1>1. /\ n \in Nat \ {0} /\ j.s.nnzQo \in Nat \ {0} /\ j.s.nnzKv \in Nat \ {0}
      /\ qo \in [0 .. n -> Int] /\ kv \in [0 .. n -> Int]
  BY TiledJob
<1>2. /\ ValidIndptr(qo, n, j.s.nnzQo) /\ ValidIndptr(kv, n, j.s.nnzKv)
      /\ \A x \in 0 .. n - 1 : Span(qo, x) <= Span(kv, x)
  BY DEF Valid, ValidRagged, Tiled
<1>3. RowsDivide(qo, n, j.s.nnzQo) /\ RowsDivide(kv, n, j.s.nnzKv)
  BY <1>1, <1>2, IndptrRows
<1>4. ASSUME NEW r \in 0 .. n - 1 PROVE RequestInBounds(j.s, j.m, r)
  <2>1. /\ 0 <= qo[r] /\ qo[r] < qo[r + 1] /\ qo[r + 1] <= j.s.nnzQo
        /\ 0 <= kv[r] /\ kv[r] < kv[r + 1] /\ kv[r + 1] <= j.s.nnzKv
        /\ Span(qo, r) <= Span(kv, r)
    BY <1>2, <1>3 DEF RowsDivide
  <2> QED BY <2>1 DEF RequestInBounds
<1>5. RaggedEndpoints(j.s, j.m)
  BY <1>2 DEF RaggedEndpoints, ValidIndptr
<1>6. SoundBefore(j.s, j.m, n)
  BY <1>4 DEF SoundBefore
<1>7. SoundUpTo(j.s, j.m) = n
  BY <1>1, <1>6, SoundThen
<1>8. InOrder(j.s, j.m, n)
  BY <1>1, <1>6, SoundPrefix, SMTT(30)
<1> QED BY <1>3, <1>4, <1>5, <1>7, <1>8

\* The tiles that a grid has CTAs for.
TileRows(s) == CeilDiv(s.nnzQo, TiledQueryRows) + s.batch - 1

\* The tile of a query, among all tiles.
TileIndex(m, r, q) == TilesBefore(m, r) + TileOf(q)

\* It is one of those that the grid has.
LEMMA TileInGrid ==
  ASSUME NEW j \in Jobs, Tiled(j), Accepted(j), Valid(j), NEW r \in 0 .. j.s.batch - 1,
         NEW q \in 0 .. Span(j.m.qo, r) - 1
  PROVE  /\ TileRows(j.s) \in Nat /\ TileIndex(j.m, r, q) \in 0 .. TileRows(j.s) - 1
         /\ HoldsTile(j.m, r, TileIndex(j.m, r, q)) /\ TileOf(q) \in Nat
         /\ TileIndex(j.m, r, q) - TilesBefore(j.m, r) = TileOf(q)
<1> DEFINE n == j.s.batch
           k == TiledQueryRows
           qo == j.m.qo
           before == [x \in 0 .. n |-> TilesBefore(j.m, x)]
           len == Span(qo, r)
           o == TileOf(q)
<1>1. /\ n \in Nat \ {0} /\ j.s.nnzQo \in Nat /\ qo \in [0 .. n -> Int] /\ k \in Nat \ {0}
  BY TiledJob
<1>2. InOrder(j.s, j.m, n) /\ RowsDivide(qo, n, j.s.nnzQo) /\ qo[0] = 0 /\ qo[n] = j.s.nnzQo
  <2>1. qo[0] = 0 /\ qo[n] = j.s.nnzQo
    BY ValidTiles DEF RaggedEndpoints
  <2> QED BY <2>1, ValidTiles
<1>3. /\ before \in [0 .. n -> Int] /\ TilesBefore(j.m, 0) = 0
      /\ \A x \in 0 .. n - 1 :
           /\ TilesBefore(j.m, x) \in Nat /\ TilesBefore(j.m, x + 1) = TilesBefore(j.m, x) + Tiles(j.m, x)
           /\ Span(qo, x) \in Nat \ {0} /\ Tiles(j.m, x) \in Nat
  BY <1>2 DEF InOrder
<1>4. \A x \in 0 .. n : before[x] = TilesBefore(j.m, x)
  OBVIOUS
<1> HIDE DEF before, n, k, qo
<1>5. TileCounts(k, n, qo, before)
  <2>1. before[0] = 0
    <3>1. 0 \in 0 .. n
      BY <1>1
    <3> QED BY <1>3, <1>4, <3>1
  <2>2. ASSUME NEW x \in 0 .. n - 1
        PROVE  /\ before[x] \in Nat /\ qo[x + 1] - qo[x] \in Nat \ {0}
               /\ before[x + 1] = before[x] + CeilDiv(qo[x + 1] - qo[x], k)
    <3>1. x \in 0 .. n /\ x + 1 \in 0 .. n
      BY <1>1
    <3>2. Span(qo, x) = qo[x + 1] - qo[x] /\ Tiles(j.m, x) = CeilDiv(qo[x + 1] - qo[x], k)
      BY DEF Span, Tiles, qo, k
    <3> QED BY <1>3, <1>4, <3>1, <3>2
  <2> QED BY <1>2, <2>1, <2>2 DEF TileCounts
<1>6. CeilDiv(j.s.nnzQo, k) \in Nat /\ before[n] <= CeilDiv(j.s.nnzQo, k) + n - 1
  BY <1>1, <1>2, <1>5, <1>3, TilesFit
<1>7. o \in Nat /\ o < Tiles(j.m, r)
  <2> DEFINE t == Tiles(j.m, r)
  <2>1. len \in Nat \ {0} /\ t = CeilDiv(len, k) /\ r \in 0 .. n - 1 /\ q \in 0 .. len - 1
    <3>1. r \in 0 .. n - 1
      BY DEF n
    <3> QED BY <1>3, <3>1 DEF Tiles, qo, k
  <2>2. t \in Nat /\ t * k \in Nat /\ len <= t * k
    BY <1>1, <2>1, UnitsThatHold
  <2> HIDE DEF t, len
  <2> DEFINE u == t * k
  <2>3. q \in 0 .. u - 1
    <3> HIDE DEF u
    <3>1. u \in Nat /\ len <= u
      BY <2>2 DEF u
    <3> QED BY <2>1, <3>1
  <2>4. q \div k \in 0 .. t - 1
    BY <1>1, <2>2, <2>3, GridIndex
  <2>5. o = q \div k
    BY DEF TileOf, k
  <2> HIDE DEF o
  <2> QED BY <2>2, <2>4, <2>5 DEF t
<1>8. r \in 0 .. n - 1 /\ r \in 0 .. n /\ r + 1 \in 0 .. n /\ n \in 0 .. n
  BY <1>1 DEF n
<1>9. TilesBefore(j.m, r + 1) <= before[n]
  <2>1. \A x \in 0 .. n - 1 : before[x] <= before[x + 1]
    <3> TAKE x \in 0 .. n - 1
    <3>1. x \in 0 .. n /\ x + 1 \in 0 .. n
      BY <1>1
    <3> QED BY <1>3, <1>4, <3>1
  <2>2. \A x, y \in 0 .. n : x <= y => before[x] <= before[y]
    BY <1>1, <1>3, <2>1, EndsGrow
  <2>3. r + 1 <= n
    BY <1>1, <1>8
  <2>4. before[r + 1] <= before[n]
    BY <1>8, <2>2, <2>3
  <2> QED BY <1>4, <1>8, <2>4
<1> DEFINE b == TilesBefore(j.m, r)
           e == TilesBefore(j.m, r + 1)
           t == Tiles(j.m, r)
           z == before[n]
<1>10. b \in Nat /\ t \in Nat /\ e = b + t /\ z \in Int /\ e <= z
  BY <1>3, <1>8, <1>9
<1>11. TileIndex(j.m, r, q) = b + o /\ o < t /\ o \in Nat
  BY <1>7 DEF TileIndex
<1>12. z <= CeilDiv(j.s.nnzQo, k) + n - 1 /\ CeilDiv(j.s.nnzQo, k) \in Nat
  BY <1>6
<1> HIDE DEF b, e, t, z, o
<1>13. b <= b + o /\ b + o < b + t /\ (b + o) - b = o
  BY <1>10, <1>11
<1>14. TileRows(j.s) \in Nat /\ b + o \in 0 .. TileRows(j.s) - 1
  <2>1. TileRows(j.s) = CeilDiv(j.s.nnzQo, k) + n - 1
    BY DEF TileRows, k, n
  <2> DEFINE c == CeilDiv(j.s.nnzQo, k)
  <2>2. /\ n \in Nat \ {0} /\ c \in Nat /\ z <= c + n - 1 /\ TileRows(j.s) = c + n - 1
        /\ b \in Nat /\ t \in Nat /\ z \in Int /\ b + t <= z /\ o < t /\ o \in Nat
    BY <1>1, <1>10, <1>11, <1>12, <2>1
  <2> HIDE DEF c
  <2> QED BY <2>2
<1> QED BY <1>11, <1>13, <1>14 DEF HoldsTile, b, t, o, k, n
-----------------------------------------------------------------------------
(* Tiled prefill: what the workspace holds of a query *)

\* The CTA of a tile, KV head and partition.
LEMMA BlockOf ==
  ASSUME NEW s, s.kvHeads \in Nat \ {0}, TiledPartitions \in Nat \ {0}, TileRows(s) \in Nat, NEW tile \in 0 .. TileRows(s) - 1,
         NEW g \in 0 .. s.kvHeads - 1, NEW p \in 0 .. TiledPartitions - 1
  PROVE  \E b \in 0 .. TileBound(s) - 1 :
           BlockTile(s, b) = tile /\ BlockHead(s, b) = g /\ BlockPart(b) = p
<1> DEFINE h == s.kvHeads
           k == TiledPartitions
           n == TileRows(s)
           c == tile * h + g
           u == n * h
           b == c * k + p
<1>1. h \in Nat \ {0} /\ k \in Nat \ {0} /\ TileBound(s) = u * k /\ g \in 0 .. h - 1 /\ p \in 0 .. k - 1
      /\ n \in Nat /\ tile \in 0 .. n - 1
  <2>1. TileBound(s) = u * k
    BY DEF TileBound, TileRows
  <2> QED BY <2>1
<1> HIDE DEF h, k, n
<1>2. c \in 0 .. u - 1 /\ c \div h = tile /\ c % h = g
  <2>1. /\ tile * h + g \in 0 .. n * h - 1
        /\ (tile * h + g) \div h = tile /\ (tile * h + g) % h = g
    BY <1>1, GridCta
  <2> QED BY <2>1
<1>3. u \in Nat
  BY <1>1
<1> HIDE DEF c, u
<1>4. b \in 0 .. u * k - 1 /\ b \div k = c /\ b % k = p
  <2>1. /\ c * k + p \in 0 .. u * k - 1
        /\ (c * k + p) \div k = c /\ (c * k + p) % k = p
    BY <1>1, <1>2, <1>3, GridCta
  <2> QED BY <2>1
<1> HIDE DEF b
<1>5. b \in Nat
  BY <1>4
<1>6. b \div (k * h) = (b \div k) \div h
  BY <1>1, <1>5, TwiceDivided
<1>7. BlockTile(s, b) = tile /\ BlockHead(s, b) = g /\ BlockPart(b) = p
  BY <1>2, <1>4, <1>6 DEF BlockTile, BlockHead, BlockPart, h, k
<1>8. b \in 0 .. TileBound(s) - 1
  BY <1>1, <1>4
<1> QED BY <1>7, <1>8

\* That CTA writes the state of each of its queries.
LEMMA TileWriter ==
  ASSUME NEW j \in Jobs, Tiled(j), Accepted(j), Valid(j), NEW r \in 0 .. j.s.batch - 1,
         NEW q \in 0 .. Span(j.m.qo, r) - 1, NEW head \in OutputColumns(j),
         NEW p \in 0 .. TiledPartitions - 1
  PROVE  Write(Partial(j.m.qo[r] + q, head, p), TileValue(j.s, j.m, r, q, head, p)) \in Writes(Effects(j))
<1> DEFINE s == j.s
           m == j.m
           h == s.kvHeads
           tile == TileIndex(m, r, q)
           g == head \div TiledGqaGroupSize
           w == Write(Partial(m.qo[r] + q, head, p), TileValue(s, m, r, q, head, p))
<1>1. /\ s.batch \in Nat \ {0} /\ s.nnzQo \in Nat \ {0} /\ h \in Nat \ {0}
      /\ TiledQueryRows \in Nat \ {0} /\ TiledPartitions \in Nat \ {0} /\ TiledGqaGroupSize \in Nat \ {0}
      /\ m.qo \in [0 .. s.batch -> Int] /\ s.queryHeads = h * TiledGqaGroupSize
      /\ \A x : KvHead(s, x) = x \div TiledGqaGroupSize
      /\ OutputColumns(j) = 0 .. s.queryHeads - 1 /\ Grid(j) = TileBound(s)
  BY TiledJob
<1>2. /\ TileRows(s) \in Nat /\ tile \in 0 .. TileRows(s) - 1
      /\ HoldsTile(m, r, tile) /\ TileOf(q) \in Nat
      /\ tile - TilesBefore(m, r) = TileOf(q)
  BY TileInGrid
<1>5. head \in Nat /\ g \in 0 .. h - 1
  <2>1. head \in 0 .. h * TiledGqaGroupSize - 1
    BY <1>1
  <2> HIDE DEF h
  <2>2. head \in Nat
    <3> DEFINE u == h * TiledGqaGroupSize
    <3> HIDE DEF u
    <3>1. head \in 0 .. u - 1
      BY <2>1 DEF u
    <3> QED BY <3>1
  <2> QED BY <1>1, <2>1, <2>2, GridIndex
<1> HIDE DEF tile, g, w
<1>6. PICK b \in 0 .. TileBound(s) - 1 : BlockTile(s, b) = tile /\ BlockHead(s, b) = g /\ BlockPart(b) = p
  <2> HIDE DEF s
  <2>1. s.kvHeads \in Nat \ {0} /\ g \in 0 .. s.kvHeads - 1
    BY <1>1, <1>5
  <2> HIDE DEF h
  <2>2. TiledPartitions \in Nat \ {0} /\ TileRows(s) \in Nat /\ tile \in 0 .. TileRows(s) - 1
    BY <1>1, <1>2
  <2> QED BY <2>1, <2>2, BlockOf, SMTT(30)
<1>7. LocateTile(s, m, tile) = [request |-> r, first |-> TileOf(q) * TiledQueryRows]
  <2>1. RaggedEndpoints(s, m) /\ SoundUpTo(s, m) = s.batch
    BY ValidTiles
  <2>2. s.nnzQo \in Nat /\ s.batch \in Nat /\ tile \in Nat
    <3>1. s.nnzQo \in Nat /\ s.batch \in Nat
      BY <1>1
    <3> HIDE DEF s
    <3>2. tile \in Nat
      BY <1>2
    <3> QED BY <3>1, <3>2
  <2>3. LocateTile(s, m, tile) = [request |-> r, first |-> (tile - TilesBefore(m, r)) * TiledQueryRows]
    <3> DEFINE k == SoundUpTo(s, m)
    <3> HIDE DEF s, m
    <3>1. \A x \in 0 .. k - 1 :
            HoldsTile(m, x, tile) =>
              LocateTile(s, m, tile)
                = [request |-> x, first |-> (tile - TilesBefore(m, x)) * TiledQueryRows]
      <4>1. s.nnzQo \in Nat /\ s.batch \in Nat /\ m.qo \in [0 .. s.batch -> Int] /\ tile \in Nat
        BY <1>1, <2>2
      <4> QED BY <2>1, <4>1, TileLocated, ZenonT(60)
    <3>2. r \in 0 .. k - 1
      BY <2>1 DEF s
    <3> QED BY <1>2, <3>1, <3>2
  <2> QED BY <1>2, <2>3
<1>8. Cta(j, b).writes = TileWrites(s, m, r, TileOf(q) * TiledQueryRows, g, p)
  <2> DEFINE at == LocateTile(s, m, BlockTile(s, b))
  <2>1. at = [request |-> r, first |-> TileOf(q) * TiledQueryRows]
    BY <1>6, <1>7
  <2>2. at # NoTile
    BY <2>1 DEF NoTile
  <2>3. Cta(j, b) = IF at = NoTile THEN NoEffect
                    ELSE [reads  |-> TileReads(m, at.request, at.first, BlockHead(s, b), BlockPart(b)),
                          writes |-> TileWrites(s, m, at.request, at.first, BlockHead(s, b), BlockPart(b))]
    BY TileEffect
  <2> HIDE DEF at
  <2> QED BY <1>6, <2>1, <2>2, <2>3
<1>9. w \in TileWrites(s, m, r, TileOf(q) * TiledQueryRows, g, p)
  <2>1. Span(m.qo, r) \in Nat
    BY ValidTiles DEF InOrder
  <2> HIDE DEF s, m, h
  <2>2. \A q2 \in 0 .. Span(m.qo, r) - 1, head2 \in Nat :
          TileOf(q2) = TileOf(q) /\ head2 \div TiledGqaGroupSize = g =>
            Write(Partial(m.qo[r] + q2, head2, p), TileValue(s, m, r, q2, head2, p))
              \in TileWrites(s, m, r, TileOf(q) * TiledQueryRows, g, p)
    BY <1>1, <1>2, <1>5, <2>1, TileWritten
  <2>3. q \in 0 .. Span(m.qo, r) - 1 /\ head \div TiledGqaGroupSize = g
    BY DEF m, g
  <2> QED BY <1>5, <2>2, <2>3 DEF w
<1>10. b \in 0 .. Grid(j) - 1
  BY <1>1, <1>6
<1> QED BY <1>8, <1>9, <1>10, WrittenBy DEF w

\* So the workspace holds it, whatever other CTAs did.
LEMMA TiledHeld ==
  ASSUME NEW j \in Jobs, Tiled(j), Accepted(j), Valid(j), NEW r \in 0 .. j.s.batch - 1,
         NEW q \in 0 .. Span(j.m.qo, r) - 1, NEW head \in OutputColumns(j),
         NEW p \in 0 .. TiledPartitions - 1
  PROVE  Held(j)[Partial(j.m.qo[r] + q, head, p)] = TileValue(j.s, j.m, r, q, head, p)
<1> DEFINE at == Partial(j.m.qo[r] + q, head, p)
           value == TileValue(j.s, j.m, r, q, head, p)
           w == Write(at, value)
<1>1. w \in Writes(Effects(j)) /\ w.at = at /\ w.value = value
  <2>1. w \in Writes(Effects(j))
    BY TileWriter
  <2>2. w.at = at /\ w.value = value
    BY Zenon DEF Write
  <2> QED BY <2>1, <2>2
<1> HIDE DEF w
<1>2. PICK b \in 0 .. Grid(j) - 1 : w \in Cta(j, b).writes
  BY <1>1, WrittenBy, Zenon
<1>3. PICK r1, q1, h1 : TiledWrite(j, b, w, r1, q1, h1)
  BY <1>2, TiledCta
<1>4. w.at \in Places(j)
  <2>1. j.m.qo[r1] + q1 \in OutputRows(j) /\ w.at = Partial(j.m.qo[r1] + q1, h1, BlockPart(b))
    BY <1>3, TiledPlace
  <2>2. h1 \in OutputColumns(j)
    BY <1>3 DEF TiledWrite
  <2>3. BlockPart(b) \in Partitions(j)
    <3>1. b \in Nat /\ j.s.kvHeads \in Nat \ {0} /\ TiledPartitions \in Nat \ {0}
      BY <1>2, TiledGrid, TiledJob
    <3>2. BlockPart(b) \in 0 .. TiledPartitions - 1
      BY <3>1, TiledBlock
    <3> QED BY <3>2, TiledJob
  <2> QED BY <2>1, <2>2, <2>3, SMT DEF Places
<1>5. \A v \in Writes(Effects(j)) : v.at = w.at => v.value = w.value
  <2> TAKE v \in Writes(Effects(j))
  <2> HAVE v.at = w.at
  <2>1. PICK c \in 0 .. Grid(j) - 1 : v \in Cta(j, c).writes
    BY WrittenBy, Zenon
  <2>2. PICK r2, q2, h2 : TiledWrite(j, c, v, r2, q2, h2)
    BY <2>1, TiledCta
  <2>3. r2 = r1 /\ q2 = q1 /\ h2 = h1 /\ BlockPart(c) = BlockPart(b)
    BY <1>3, <2>2, TiledSame
  <2>4. v = Write(Partial(j.m.qo[r2] + q2, h2, BlockPart(c)), TileValue(j.s, j.m, r2, q2, h2, BlockPart(c)))
    BY <2>2 DEF TiledWrite
  <2>5. w = Write(Partial(j.m.qo[r1] + q1, h1, BlockPart(b)), TileValue(j.s, j.m, r1, q1, h1, BlockPart(b)))
    BY <1>3 DEF TiledWrite
  <2>6. v = w
    BY <2>3, <2>4, <2>5, Zenon
  <2> QED BY <2>6
<1>6. Held(j)[w.at] = w.value
  BY <1>1, <1>4, <1>5, HeldValue
<1> QED BY <1>1, <1>6
-----------------------------------------------------------------------------
(* Tiled prefill: the merge of the partitions of a row *)

\* What share i of n tokens has below a causal end.
SeenOf(tokens, n, k, end, i) == Pick(tokens, {x \in Share(n, k, i) : x < end})

Distinct(tokens, n) == \A x, y \in 0 .. n - 1 : tokens[x] = tokens[y] => x = y

\* The shares divide the tokens below the end among them.
LEMMA SeenDivide ==
  ASSUME NEW n \in Nat, NEW k \in Nat \ {0}, NEW tokens, NEW end \in Nat, end <= n, Distinct(tokens, n)
  PROVE  /\ \A i, j \in 0 .. k - 1 : i # j => SeenOf(tokens, n, k, end, i) \cap SeenOf(tokens, n, k, end, j) = {}
         /\ UNION {SeenOf(tokens, n, k, end, i) : i \in 0 .. k - 1} = Pick(tokens, 0 .. end - 1)
<1> DEFINE share(i) == Share(n, k, i)
           seen(i) == SeenOf(tokens, n, k, end, i)
<1>1. /\ \A i \in 0 .. k - 1 : share(i) \subseteq 0 .. n - 1
      /\ \A i, j \in 0 .. k - 1 : i # j => share(i) \cap share(j) = {}
      /\ \A p \in 0 .. n - 1 : \E i \in 0 .. k - 1 : p \in share(i)
  BY SharesDivide
<1>2. \A i : \A z : z \in seen(i) <=> \E x \in share(i) : x < end /\ z = tokens[x]
  BY DEF SeenOf, Pick
<1>3. \A z : z \in Pick(tokens, 0 .. end - 1) <=> \E x \in 0 .. end - 1 : z = tokens[x]
  BY Zenon DEF Pick
<1> HIDE DEF share, seen
<1>4. \A i, j \in 0 .. k - 1 : i # j => seen(i) \cap seen(j) = {}
  <2>1. SUFFICES ASSUME NEW i \in 0 .. k - 1, NEW j \in 0 .. k - 1, i # j,
                        NEW x \in share(i), NEW y \in share(j), tokens[x] = tokens[y]
                 PROVE  FALSE
    BY <1>2
  <2>2. x \in 0 .. n - 1 /\ y \in 0 .. n - 1
    BY <1>1
  <2>3. x = y
    BY <2>1, <2>2 DEF Distinct
  <2>4. share(i) \cap share(j) = {}
    BY <1>1, <2>1
  <2> QED BY <2>3, <2>4
<1>5. UNION {seen(i) : i \in 0 .. k - 1} = Pick(tokens, 0 .. end - 1)
  <2>1. ASSUME NEW x
        PROVE  x \in 0 .. end - 1 <=> \E i \in 0 .. k - 1 : x \in share(i) /\ x < end
    <3>1. x \in 0 .. end - 1 <=> x \in 0 .. n - 1 /\ x < end
      OBVIOUS
    <3>2. x \in 0 .. n - 1 <=> \E i \in 0 .. k - 1 : x \in share(i)
      BY <1>1, Zenon
    <3> QED BY <3>1, <3>2
  <2>2. \A z : z \in UNION {seen(i) : i \in 0 .. k - 1} <=> \E i \in 0 .. k - 1 : z \in seen(i)
    BY Zenon
  <2>3. \A z : (\E i \in 0 .. k - 1 : z \in seen(i)) <=> z \in Pick(tokens, 0 .. end - 1)
    <3> TAKE z
    <3>1. (\E i \in 0 .. k - 1 : z \in seen(i))
            <=> \E i \in 0 .. k - 1 : \E x \in share(i) : x < end /\ z = tokens[x]
      BY <1>2
    <3>2. (\E i \in 0 .. k - 1 : \E x \in share(i) : x < end /\ z = tokens[x])
            <=> \E x \in 0 .. end - 1 : z = tokens[x]
      BY <2>1, Zenon
    <3> QED BY <1>3, <3>1, <3>2
  <2> QED BY <2>2, <2>3, Zenon
<1> QED BY <1>4, <1>5 DEF seen

\* So the states of the partitions merge into the state of those tokens.
LEMMA PartitionMerge ==
  ASSUME NEW n \in Nat, NEW k \in Nat \ {0}, NEW tokens, NEW end \in Nat, end <= n, Distinct(tokens, n),
         TiledKvRows \in Nat \ {0}
  PROVE  MergeNonEmpty([i \in 1 .. k |-> TileState(tokens, Share(n, k, i - 1), end)])
           = Weigh(Pick(tokens, 0 .. end - 1), "-inf")
<1> DEFINE seen(i) == SeenOf(tokens, n, k, end, i)
           A == [i \in 1 .. k |-> seen(i - 1)]
           all == Pick(tokens, 0 .. end - 1)
<1>1. /\ \A i, j \in 0 .. k - 1 : i # j => seen(i) \cap seen(j) = {}
      /\ UNION {seen(i) : i \in 0 .. k - 1} = all
  BY SeenDivide
<1>2. \A i \in 0 .. k - 1 : TileState(tokens, Share(n, k, i), end) = Weigh(seen(i), "-inf")
  <2> TAKE i \in 0 .. k - 1
  <2>1. PICK a \in Int : \E c \in Int : Share(n, k, i) = a .. c - 1 /\ 0 <= a /\ a <= c /\ c <= n
    BY ShareInterval
  <2>2. PICK c \in Int : Share(n, k, i) = a .. c - 1 /\ 0 <= a /\ a <= c /\ c <= n
    BY <2>1
  <2>3. a \in Nat /\ c \in Nat /\ a <= c
    BY <2>2
  <2>4. \A x, y \in a .. c - 1 : tokens[x] = tokens[y] => x = y
    <3>1. \A x \in a .. c - 1 : x \in 0 .. n - 1
      BY <2>2
    <3> QED BY <3>1 DEF Distinct
  <2>5. TileState(tokens, a .. c - 1, end) = Weigh(Pick(tokens, {x \in a .. c - 1 : x < end}), "-inf")
    BY <2>3, <2>4, PartitionState
  <2> QED BY <2>2, <2>5, Zenon DEF SeenOf
<1> HIDE DEF seen, all
<1>3. \A i \in 1 .. k : i - 1 \in 0 .. k - 1 /\ A[i] = seen(i - 1)
  OBVIOUS
<1>4. \A i, j \in 1 .. k : i # j => A[i] \cap A[j] = {}
  <2> TAKE i, j \in 1 .. k
  <2> HAVE i # j
  <2>1. i - 1 # j - 1
    OBVIOUS
  <2> HIDE DEF A
  <2> QED BY <1>1, <1>3, <2>1
<1>5. UNION {A[i] : i \in 1 .. k} = all
  <2>1. \A i \in 0 .. k - 1 : i + 1 \in 1 .. k /\ A[i + 1] = seen(i)
    <3> TAKE i \in 0 .. k - 1
    <3>1. i + 1 \in 1 .. k /\ (i + 1) - 1 = i
      OBVIOUS
    <3> QED BY <3>1
  <2> HIDE DEF A
  <2>2. UNION {A[i] : i \in 1 .. k} = UNION {seen(i) : i \in 0 .. k - 1}
    BY <1>3, <2>1
  <2> QED BY <1>1, <2>2
<1>6. [i \in 1 .. k |-> TileState(tokens, Share(n, k, i - 1), end)] = [i \in 1 .. k |-> Weigh(A[i], "-inf")]
  <2> HIDE DEF A
  <2>1. \A i \in 1 .. k : TileState(tokens, Share(n, k, i - 1), end) = Weigh(A[i], "-inf")
    BY <1>2, <1>3
  <2> QED BY <2>1, Zenon
<1> HIDE DEF A
<1>7. MergeNonEmpty([i \in 1 .. k |-> Weigh(A[i], "-inf")]) = Weigh(UNION {A[i] : i \in 1 .. k}, "-inf")
  BY <1>4, NonEmptyMerge
<1> QED BY <1>5, <1>6, <1>7 DEF all

\* What the merge of a row and head writes is exact.
LEMMA TiledMerged ==
  ASSUME NEW j \in Jobs, Tiled(j), Accepted(j), Valid(j), NEW r \in 0 .. j.s.batch - 1,
         NEW q \in 0 .. Span(j.m.qo, r) - 1, NEW head \in OutputColumns(j)
  PROVE  TiledMerge(j.m.qo[r] + q, head, Held(j)).writes = {Exact(j, r, j.m.qo[r] + q, head)}
<1> DEFINE m == j.m
           row == m.qo[r] + q
           qoLen == Span(m.qo, r)
           kvLen == Span(m.kv, r)
           g == KvHead(j.s, head)
           tokens == RaggedTokens(m, r, g, kvLen)
           count == CausalCount(qoLen, kvLen, q)
           n == kvLen - qoLen + TileEnd(m, r, q)
           k == TiledPartitions
           rows == Pick(tokens, 0 .. count - 1)
           partials == [i \in 1 .. k |-> Held(j)[Partial(row, head, i - 1)]]
<1>1. /\ k \in Nat \ {0} /\ TiledKvRows \in Nat \ {0} /\ TiledQueryRows \in Nat \ {0}
      /\ m.qo \in [0 .. j.s.batch -> Int] /\ m.kv \in [0 .. j.s.batch -> Int] /\ j.s.batch \in Nat
  BY TiledJob
<1>2. qoLen \in Nat /\ kvLen \in Nat /\ qoLen <= kvLen /\ m.qo[r] \in Int /\ m.kv[r] \in Int
  <2>1. qoLen \in Nat \ {0} /\ RequestInBounds(j.s, m, r)
    BY ValidTiles DEF InOrder
  <2>2. r \in 0 .. j.s.batch /\ r + 1 \in 0 .. j.s.batch
    BY <1>1
  <2>3. m.qo[r] \in Int /\ m.kv[r] \in Int /\ m.kv[r + 1] \in Int
    BY <1>1, <2>2
  <2>4. m.kv[r] < m.kv[r + 1] /\ qoLen <= kvLen
    BY <2>1 DEF RequestInBounds
  <2>5. kvLen \in Nat
    BY <2>3, <2>4 DEF Span
  <2> QED BY <2>1, <2>3, <2>4, <2>5
<1>3. q \in Nat /\ q < qoLen
  <2> HIDE DEF qoLen
  <2>1. q \in 0 .. qoLen - 1
    BY DEF qoLen
  <2> QED BY <1>2, <2>1
<1>4. TileEnd(m, r, q) \in Nat /\ q < TileEnd(m, r, q) /\ TileEnd(m, r, q) <= qoLen
  <2> DEFINE a == TileOf(q) * TiledQueryRows
             b == a + TiledQueryRows
             e == Min({b, qoLen})
  <2>1. TileOf(q) \in Nat
    BY <1>1, <1>3, Division DEF TileOf
  <2>2. a \in Nat /\ a <= q /\ q < a + TiledQueryRows
    BY <1>1, <1>3, <2>1, QueriesOfTile
  <2> HIDE DEF a
  <2>3. b \in Nat /\ q < b
    BY <1>1, <1>3, <2>2
  <2> HIDE DEF b, qoLen
  <2>4. e = IF b <= qoLen THEN b ELSE qoLen
    BY <1>2, <2>3, SmallerOfTwo
  <2>5. TileEnd(m, r, q) = e
    BY DEF TileEnd, a, b, qoLen
  <2> HIDE DEF e
  <2> QED BY <1>2, <1>3, <2>3, <2>4, <2>5
<1>5. n \in Nat /\ n <= kvLen /\ count \in Nat /\ 0 < count /\ count <= n
  <2>1. count = (kvLen - qoLen) + q + 1
    BY <1>2, <1>3 DEF CausalCount
  <2> DEFINE e == TileEnd(m, r, q)
  <2>2. n = kvLen - qoLen + e /\ e \in Nat /\ q < e /\ e <= qoLen
    BY <1>4
  <2> HIDE DEF e, n, count, qoLen, kvLen
  <2> QED BY <1>2, <1>3, <2>1, <2>2
<1>6. DOMAIN tokens = 0 .. kvLen - 1 /\ \A p \in 0 .. kvLen - 1 : tokens[p] = <<p, m.kv[r] + p, g>>
  BY DEF RaggedTokens
<1>7. Distinct(tokens, n)
  <2>1. SUFFICES ASSUME NEW x \in 0 .. n - 1, NEW y \in 0 .. n - 1, tokens[x] = tokens[y]
                 PROVE  x = y
    BY DEF Distinct
  <2> HIDE DEF tokens, n, kvLen
  <2>2. x \in 0 .. kvLen - 1 /\ y \in 0 .. kvLen - 1
    BY <1>2, <1>5
  <2> QED BY <1>6, <2>1, <2>2
<1>8. \A i \in 1 .. k : Held(j)[Partial(row, head, i - 1)] = TileState(tokens, Share(n, k, i - 1), count)
  <2> TAKE i \in 1 .. k
  <2>1. i - 1 \in 0 .. TiledPartitions - 1
    BY <1>1
  <2>2. Held(j)[Partial(row, head, i - 1)] = TileValue(j.s, m, r, q, head, i - 1)
    BY <2>1, TiledHeld
  <2> QED BY <2>2 DEF TileValue, TileRange
<1>9. rows = Reference(j, r, row, head)
  <2>1. row - m.qo[r] = q
    <3> HIDE DEF m
    <3> QED BY <1>2, <1>3
  <2>2. Reference(j, r, row, head) = All(RaggedTokens(m, r, g, count))
    <3>1. Reference(j, r, row, head) = RaggedReference(j.s, m, r, row, head)
      BY DEF Reference, Tiled
    <3> HIDE DEF row
    <3> QED BY <2>1, <3>1 DEF RaggedReference
  <2> DEFINE short == RaggedTokens(m, r, g, count)
  <2>3. DOMAIN short = 0 .. count - 1 /\ \A p \in 0 .. count - 1 : short[p] = <<p, m.kv[r] + p, g>>
    BY DEF RaggedTokens
  <2> HIDE DEF short, tokens, count, n, kvLen
  <2>4. \A p \in 0 .. count - 1 : tokens[p] = short[p]
    <3>1. \A p \in 0 .. count - 1 : p \in 0 .. kvLen - 1
      BY <1>2, <1>5
    <3> QED BY <1>6, <2>3, <3>1
  <2>5. All(short) = Pick(short, 0 .. count - 1)
    BY <2>3 DEF All
  <2>6. Pick(short, 0 .. count - 1) = Pick(tokens, 0 .. count - 1)
    BY <2>4, Zenon DEF Pick
  <2> QED BY <2>2, <2>5, <2>6 DEF short
<1>10. rows # {}
  <2> HIDE DEF count, tokens
  <2>1. 0 \in 0 .. count - 1
    BY <1>5
  <2> QED BY <2>1 DEF Pick
<1>11. TiledMerge(row, head, Held(j)).writes = {Write(Output(row, head), Normalized(MergeNonEmpty(partials)))}
  BY DEF TiledMerge
<1> HIDE DEF row, tokens, n, count, k, rows
<1>12. partials = [i \in 1 .. k |-> TileState(tokens, Share(n, k, i - 1), count)]
  BY <1>8, Zenon
<1>13. MergeNonEmpty([i \in 1 .. k |-> TileState(tokens, Share(n, k, i - 1), count)])
         = Weigh(Pick(tokens, 0 .. count - 1), "-inf")
  BY <1>1, <1>5, <1>7, PartitionMerge
<1> HIDE DEF partials
<1>14. Normalized(MergeNonEmpty(partials)) = [rows |-> SetToBag(rows), sound |-> TRUE]
  <2>1. MergeNonEmpty(partials) = Weigh(rows, "-inf")
    BY <1>12, <1>13 DEF rows
  <2> QED BY <1>10, <2>1, NormalizedRows
<1>15. Exact(j, r, row, head) = Write(Output(row, head), [rows |-> SetToBag(rows), sound |-> TRUE])
  BY <1>9 DEF Exact
<1>16. TiledMerge(row, head, Held(j)).writes = {Exact(j, r, row, head)}
  BY <1>11, <1>14, <1>15
<1> QED BY <1>16 DEF row, m

\* Tiled prefill merges every row and head exactly.
LEMMA TiledExact ==
  ASSUME NEW j \in Jobs, Tiled(j), Accepted(j), Valid(j)
  PROVE  MergesExactly(j)
<1> DEFINE n == j.s.batch
           qo == j.m.qo
<1>1. RowsDivide(qo, n, j.s.nnzQo) /\ OutputRows(j) = 0 .. j.s.nnzQo - 1
  BY ValidTiles, TiledJob
<1>2. JobRequests(j) = 0 .. n - 1 /\ \A r, row : Holds(j, r, row) <=> qo[r] <= row /\ row < qo[r + 1]
  BY DEF JobRequests, Holds, Tiled
<1>3. \A row \in OutputRows(j) : \E r \in JobRequests(j) : Holds(j, r, row)
  BY <1>1, <1>2 DEF RowsDivide
<1>4. ASSUME NEW r \in JobRequests(j), NEW row \in OutputRows(j), NEW head \in OutputColumns(j),
             Holds(j, r, row)
      PROVE  MergeOf(j, row, head).writes = {Exact(j, r, row, head)}
  <2> DEFINE q == row - qo[r]
  <2>1. r \in 0 .. n - 1 /\ qo[r] <= row /\ row < qo[r + 1]
    BY <1>2, <1>4
  <2>2. qo[r] \in Int /\ qo[r + 1] \in Int /\ row \in Int
    BY <1>1, <2>1 DEF RowsDivide
  <2>3. q \in 0 .. Span(qo, r) - 1 /\ qo[r] + q = row
    <3> HIDE DEF qo, n
    <3> QED BY <2>1, <2>2 DEF Span
  <2> HIDE DEF q
  <2>4. TiledMerge(qo[r] + q, head, Held(j)).writes = {Exact(j, r, qo[r] + q, head)}
    <3>1. r \in 0 .. j.s.batch - 1 /\ q \in 0 .. Span(j.m.qo, r) - 1
      BY <2>1, <2>3
    <3> HIDE DEF n
    <3>2. \A x \in 0 .. Span(j.m.qo, r) - 1 :
            TiledMerge(j.m.qo[r] + x, head, Held(j)).writes = {Exact(j, r, j.m.qo[r] + x, head)}
      BY <3>1, TiledMerged
    <3> QED BY <3>1, <3>2
  <2>5. MergeOf(j, row, head) = TiledMerge(row, head, Held(j))
    BY DEF MergeOf, Tiled
  <2> HIDE DEF qo
  <2> QED BY <2>3, <2>4, <2>5
<1> QED BY <1>3, <1>4, Zenon DEF MergesExactly
-----------------------------------------------------------------------------
\* Every call that finishes, of metadata the host contract admits, is exact.
LEMMA OutputExact ==
  ASSUME Inductive, pc = "done", Valid(job)
  PROVE  output = Expected(job)
<1>1. job \in Jobs /\ Accepted(job) /\ output = Writes(effects)
  BY DEF Inductive
<1>2. CASE ~HasMerge(job)
  <2>1. effects = Effects(job)
    BY <1>2 DEF Inductive
  <2> QED BY <1>1, <1>2, <2>1, LaunchExact
<1>3. CASE HasMerge(job)
  <2>1. /\ workspace = Held(job)
        /\ effects = [b \in 0 .. States(job.s) - 1 |-> MergeCta(job, b)]
    BY <1>3 DEF Inductive
  <2>2. Attention(job) /\ (job.family = "split_k" \/ Tiled(job))
    <3>1. Attention(job)
      BY <1>3 DEF HasMerge, Algorithm, Attention
    <3>2. job.family = "split_k" \/ Algorithm(job) = "TiledGqa4"
      BY <1>1, <1>3, <3>1, Algorithms
    <3> QED BY <1>1, <3>1, <3>2, Algorithms DEF Tiled
  <2>3. MergesExactly(job)
    BY <1>1, <2>2, SplitKExact, TiledExact
  <2>4. Writes([b \in 0 .. States(job.s) - 1 |-> MergeCta(job, b)]) = Expected(job)
    BY <1>1, <1>3, <2>1, <2>2, <2>3, MergeCtasExact
  <2> QED BY <1>1, <2>1, <2>4
<1> QED BY <1>2, <1>3

\* ExactResult, for every job, size and metadata: the output of every
\* algorithm is its CPU reference's, each element counted once.
THEOREM ResultsExact == Spec => []ExactResult
<1>1. Inductive => ExactResult
  BY OutputExact DEF ExactResult
<1> QED BY <1>1, InductiveInvariant, PTL
=============================================================================
