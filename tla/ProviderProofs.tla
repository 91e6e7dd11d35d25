--------------------------- MODULE ProviderProofs ---------------------------
(* The lifetime of the cuBLASLt objects for any number of threads, plans and *)
(* submissions.                                                              *)
EXTENDS Provider, SequenceTheorems, TLAPS

\* A function from 1 to n is a sequence of length n.
LEMMA FunctionIsSequence ==
  ASSUME NEW S, NEW n \in Nat, NEW f \in [1 .. n -> S]
  PROVE  f \in Seq(S) /\ Len(f) = n
<1>1. f \in Seq(S)
  BY SeqDef
<1> QED BY <1>1, LenProperties

\* What a sequence becomes with one more element at its end.
LEMMA AppendFacts ==
  ASSUME NEW S, NEW q \in Seq(S), NEW x \in S
  PROVE  /\ Append(q, x) \in Seq(S)
         /\ Len(Append(q, x)) = Len(q) + 1
         /\ DOMAIN Append(q, x) = 1 .. Len(q) + 1
         /\ DOMAIN q = 1 .. Len(q) /\ Len(q) \in Nat
         /\ \A i \in 1 .. Len(q) : Append(q, x)[i] = q[i]
         /\ Append(q, x)[Len(q) + 1] = x
OBVIOUS

\* The descriptors plan_bf16 makes, of which a plan keeps all but the last.
LEMMA MadeFacts ==
  /\ Len(Made) = 5 /\ DOMAIN Made = 1 .. 5 /\ Len(Kept) = 4 /\ DOMAIN Kept = 1 .. 4
  /\ \A i \in 1 .. 4 : Kept[i] = Made[i] /\ Kept[i] # "preference"
  /\ Made[5] = "preference"
  /\ \A i, j \in 1 .. 5 : Made[i] = Made[j] => i = j
  /\ \A i \in 1 .. 5 : Made[i] \in ToSet(Made)
<1>1. Len(Kept) = 4 /\ DOMAIN Kept = 1 .. 4 /\ Len(Made) = 5 /\ DOMAIN Made = 1 .. 5
  BY DEF Kept, Made
<1>2. /\ Made[1] = "matmul_desc" /\ Made[2] = "a_layout" /\ Made[3] = "weight_layout"
      /\ Made[4] = "output_layout" /\ Made[5] = "preference"
  BY DEF Kept, Made
<1>3. /\ Kept[1] = "matmul_desc" /\ Kept[2] = "a_layout" /\ Kept[3] = "weight_layout"
      /\ Kept[4] = "output_layout"
  BY DEF Kept
<1>4. /\ \A i \in 1 .. 4 : i = 1 \/ i = 2 \/ i = 3 \/ i = 4
      /\ \A i \in 1 .. 5 : i = 1 \/ i = 2 \/ i = 3 \/ i = 4 \/ i = 5
  OBVIOUS
<1>5. /\ \A i \in 1 .. 4 : Kept[i] = Made[i] /\ Kept[i] # "preference"
      /\ \A i, j \in 1 .. 5 : Made[i] = Made[j] => i = j
  BY <1>2, <1>3, <1>4
<1>6. \A i \in 1 .. 5 : Made[i] \in ToSet(Made)
  BY <1>1 DEF ToSet
<1> QED BY <1>1, <1>2, <1>5, <1>6

\* What a plan drops with its last holder: its descriptors, one by one.
LEMMA KeptDrops ==
  ASSUME NEW p \in Nat
  PROVE  LET d == Descriptors(p, Kept) IN
         /\ d \in Seq(Nat \X ToSet(Made)) /\ DOMAIN d = 1 .. 4
         /\ \A i \in 1 .. 4 : d[i] = <<p, Kept[i]>>
<1> DEFINE d == Descriptors(p, Kept)
<1>1. DOMAIN d = 1 .. 4 /\ \A i \in 1 .. 4 : d[i] = <<p, Kept[i]>>
  BY MadeFacts DEF Descriptors
<1>2. \A i \in 1 .. 4 : Kept[i] \in ToSet(Made)
  BY MadeFacts
<1>3. d = [i \in 1 .. 4 |-> <<p, Kept[i]>>]
  BY MadeFacts DEF Descriptors
<1>4. d \in [1 .. 4 -> Nat \X ToSet(Made)]
  BY <1>2, <1>3
<1> HIDE DEF d
<1>5. d \in Seq(Nat \X ToSet(Made)) /\ DOMAIN d = 1 .. 4
  BY <1>4, FunctionIsSequence
<1> QED BY <1>1, <1>5 DEF d

\* The descriptors made so far.
LEMMA MadeSubSeq ==
  ASSUME NEW n \in 0 .. 5
  PROVE  LET s == SubSeq(Made, 1, n) IN
         /\ s \in Seq(ToSet(Made)) /\ Len(s) = n /\ DOMAIN s = 1 .. n
         /\ \A i \in 1 .. n : s[i] = Made[i]
BY MadeFacts, SubSeqProperties

\* What a failed plan drops: the descriptors it has made, the newest first.
LEMMA FailedDrops ==
  ASSUME NEW p \in Nat, NEW n \in 0 .. 5
  PROVE  LET d == Reverse(Descriptors(p, SubSeq(Made, 1, n))) IN
         /\ d \in Seq(Nat \X ToSet(Made)) /\ DOMAIN d = 1 .. n
         /\ \A i \in 1 .. n : d[i] = <<p, Made[n - i + 1]>>
<1> DEFINE s == SubSeq(Made, 1, n)
           e == Descriptors(p, s)
           d == Reverse(e)
<1>1. s \in Seq(ToSet(Made)) /\ Len(s) = n /\ \A i \in 1 .. n : s[i] = Made[i]
  BY MadeSubSeq
<1>2. DOMAIN e = 1 .. n /\ \A i \in 1 .. n : e[i] = <<p, Made[i]>>
  BY <1>1 DEF Descriptors
<1>3. e \in [1 .. n -> Nat \X ToSet(Made)]
  <2>1. \A i \in 1 .. n : Made[i] \in ToSet(Made)
    BY MadeFacts
  <2>2. e = [i \in 1 .. n |-> <<p, Made[i]>>]
    BY <1>1, <1>2 DEF Descriptors
  <2> HIDE DEF e
  <2> QED BY <2>1, <2>2
<1>4. e \in Seq(Nat \X ToSet(Made)) /\ Len(e) = n
  <2> HIDE DEF e
  <2> QED BY <1>3
<1>5. /\ d = [i \in 1 .. n |-> e[(n - i) + 1]]
      /\ \A i \in 1 .. n : (n - i) + 1 \in 1 .. n
  BY <1>4 DEF Reverse
<1>6. d \in [1 .. n -> Nat \X ToSet(Made)]
  <2> HIDE DEF d, e
  <2> QED BY <1>3, <1>5
<1>7. \A i \in 1 .. n : d[i] = <<p, Made[n - i + 1]>>
  <2> HIDE DEF d, e
  <2> QED BY <1>2, <1>5
<1> HIDE DEF d
<1>8. d \in Seq(Nat \X ToSet(Made)) /\ DOMAIN d = 1 .. n
  BY <1>6
<1> QED BY <1>7, <1>8 DEF d
-----------------------------------------------------------------------------
(* Facts the steps share. *)

\* The first element of a sequence, and the rest of it.
LEMMA TailFacts ==
  ASSUME NEW S, NEW q \in Seq(S), q # <<>>
  PROVE  /\ Tail(q) \in Seq(S) /\ Len(q) \in Nat
         /\ DOMAIN q = 1 .. Len(q) /\ DOMAIN Tail(q) = 1 .. Len(q) - 1
         /\ 1 \in DOMAIN q /\ Head(q) = q[1]
         /\ \A i \in DOMAIN Tail(q) : i + 1 \in DOMAIN q /\ Tail(q)[i] = q[i + 1]
OBVIOUS

\* The elements of a sequence that grows at its end or loses its head.
LEMMA ElementsFacts ==
  ASSUME NEW S, NEW q \in Seq(S)
  PROVE  /\ \A x \in S : ToSet(Append(q, x)) = ToSet(q) \cup {x}
         /\ q # <<>> => ToSet(Tail(q)) \subseteq ToSet(q) /\ Head(q) \in ToSet(q)
         /\ \A x \in ToSet(q) : \E i \in DOMAIN q : x = q[i]
<1>1. ASSUME NEW x \in S PROVE ToSet(Append(q, x)) = ToSet(q) \cup {x}
  BY AppendFacts DEF ToSet
<1>2. q # <<>> => ToSet(Tail(q)) \subseteq ToSet(q) /\ Head(q) \in ToSet(q)
  BY TailFacts DEF ToSet
<1>3. \A x \in ToSet(q) : \E i \in DOMAIN q : x = q[i]
  BY DEF ToSet
<1> QED BY <1>1, <1>2, <1>3

\* The calls a thread can be in the middle of.
LEMMA CallFacts ==
  ASSUME NEW c \in Calls
  PROVE  /\ c # Idle => c.plan \in Nat /\ c.op \in {"plan", "matmul"}
         /\ c.op \in {"plan", "matmul"} => c # Idle
         /\ c.op = "plan" => /\ c.made \in 0 .. 5 /\ c.poisoned \in BOOLEAN
                             /\ c = [op |-> "plan", plan |-> c.plan, made |-> c.made,
                                     poisoned |-> c.poisoned]
BY MadeFacts DEF Calls, Idle

\* While a thread has a clone, a plan has a holder, or a descriptor waits to be
\* destroyed, the handle is live.
LEMMA HoldersKeepHandle ==
  ASSUME OwnedIsLive
  PROVE  /\ clones # {} => handle
         /\ \A p \in DOMAIN plans : Retained(p) => handle
         /\ \A t \in Threads : drops[t] # <<>> /\ drops[t] \in Seq(Nat \X ToSet(Made)) => handle
<1>1. clones # {} => handle
  BY DEF OwnedIsLive, ProviderHeld
<1>2. ASSUME NEW p \in DOMAIN plans, Retained(p) PROVE handle
  <2>1. 1 \in 1 .. Len(Kept)
    BY MadeFacts
  <2>2. <<p, Made[1]>> \in Wrapped
    BY <1>2, <2>1 DEF Wrapped
  <2> QED BY <2>2 DEF OwnedIsLive, ProviderHeld
<1>3. ASSUME NEW t \in Threads, drops[t] # <<>>, drops[t] \in Seq(Nat \X ToSet(Made))
      PROVE  handle
  <2>1. drops[t][1] \in ToSet(drops[t])
    BY <1>3, TailFacts DEF ToSet
  <2>2. drops[t][1] \in Wrapped
    BY <2>1 DEF Wrapped
  <2> QED BY <2>2 DEF OwnedIsLive, ProviderHeld
<1> QED BY <1>1, <1>2, <1>3

\* A cleanup that fails leaves its status, and no later one clears it.
LEMMA CleanupSticks ==
  ASSUME FailureSticks, failures \in Seq(Statuses),
         \/ sticky' = StickyAfter(0) /\ UNCHANGED failures
         \/ \E status \in Statuses :
              sticky' = StickyAfter(status) /\ failures' = Append(failures, status)
         \/ UNCHANGED <<sticky, failures>>
  PROVE  FailureSticks' /\ failures' \in Seq(Statuses)
<1>1. CASE sticky' = StickyAfter(0) /\ UNCHANGED failures
  BY <1>1 DEF StickyAfter, FailureSticks
<1>2. ASSUME NEW status \in Statuses,
             sticky' = StickyAfter(status), failures' = Append(failures, status)
      PROVE  FailureSticks' /\ failures' \in Seq(Statuses)
  BY <1>2, AppendFacts, ProviderAssumption DEF StickyAfter, FailureSticks
<1>3. CASE UNCHANGED <<sticky, failures>>
  BY <1>3 DEF FailureSticks
<1> QED BY <1>1, <1>2, <1>3
-----------------------------------------------------------------------------
(* Planning keeps the invariant. *)

\* The call that begins a plan.
LEMMA PlanBf16Keeps ==
  ASSUME Inductive, NEW t \in Threads, PlanBf16(t)
  PROVE  Inductive'
<1> PICK n : n = Len(plans) + 1
  OBVIOUS
<1> DEFINE c == [op |-> "plan", plan |-> n, made |-> 0, poisoned |-> FALSE]
<1> USE DEF Inductive
<1>u. UNCHANGED <<clones, work, live, drops, handle, sticky, failures>>
  BY DEF PlanBf16
<1>1. failures = <<>>
  BY DEF FailureSticks, PlanBf16
<1>2. call' = [call EXCEPT ![t] = c]
  BY <1>1 DEF PlanBf16
<1>3. /\ n \in Nat /\ n \notin DOMAIN plans /\ DOMAIN plans' = DOMAIN plans \cup {n}
      /\ plans' \in Seq(SUBSET Threads) /\ plans'[n] = {}
      /\ \A p \in DOMAIN plans : plans'[p] = plans[p]
  <2>1. {} \in SUBSET Threads /\ plans \in Seq(SUBSET Threads)
    BY DEF Typed
  <2>2. plans' = Append(plans, {})
    BY DEF PlanBf16
  <2> QED BY <2>1, <2>2, AppendFacts
<1>4. /\ c \in Calls /\ c # Idle /\ c.op = "plan" /\ c.plan = n /\ c.made = 0
      /\ ~c.poisoned
  BY <1>3, MadeFacts DEF Calls, Idle
<1> HIDE DEF c
<1>5. /\ call'[t] = c /\ call[t] = Idle /\ drops[t] = <<>>
      /\ \A u \in Threads : u # t => call'[u] = call[u]
  BY <1>2 DEF Typed, PlanBf16, Free
<1>6. /\ \A p \in DOMAIN plans : Retained(p)' <=> Retained(p)
      /\ ~Retained(n)'
  <2>1. \A p \in DOMAIN plans : Retained(p)' <=> Retained(p)
    BY <1>u, <1>3 DEF Retained
  <2>2. n \notin ToSet(work)
    BY <1>3, ElementsFacts DEF NamesPlans, Typed
  <2> QED BY <1>u, <1>3, <2>1, <2>2 DEF Retained
<1>7. Typed'
  BY <1>u, <1>2, <1>3, <1>4 DEF Typed
<1>8. NamesPlans'
  BY <1>u, <1>3, <1>4, <1>5 DEF NamesPlans
<1>9. CallsHold'
  <2>1. ASSUME NEW u \in Threads, call'[u] # Idle, u # t
        PROVE  /\ drops'[u] = <<>> /\ ~call'[u].poisoned
               /\ call'[u].op = "plan" => u \in clones'
               /\ call'[u].op = "matmul" => u \in plans'[call'[u].plan]
    BY <1>u, <1>3, <1>5, <2>1 DEF CallsHold, NamesPlans
  <2>2. t \in clones' /\ drops'[t] = <<>>
    BY <1>u, <1>5 DEF PlanBf16
  <2> QED BY <1>4, <1>5, <2>1, <2>2 DEF CallsHold
<1>10. OwnersApart'
  <2>1. \A u, v \in Threads : \A i \in DOMAIN drops'[u], j \in DOMAIN drops'[v] :
          drops'[u][i] = drops'[v][j] => u = v /\ i = j
    BY <1>u DEF OwnersApart
  <2>2. \A u \in Threads, p \in DOMAIN plans' : \A i \in DOMAIN drops'[u] :
          drops'[u][i][1] = p /\ Retained(p)' => drops'[u][i][2] = "preference"
    BY <1>u, <1>3, <1>6 DEF OwnersApart
  <2>3. ASSUME NEW u \in Threads, NEW p \in DOMAIN plans', Planning(u, p)'
        PROVE  /\ ~Retained(p)'
               /\ \A v \in Threads : /\ Planning(v, p)' => v = u
                                     /\ \A i \in DOMAIN drops'[v] : drops'[v][i][1] # p
    <3>1. \A v \in Threads : v # t => (Planning(v, p)' <=> Planning(v, p))
      BY <1>5 DEF Planning
    <3>2. \A v \in Threads : Planning(v, p) => p \in DOMAIN plans
      BY CallFacts DEF Planning, NamesPlans, Typed
    <3>3. Planning(t, p)' <=> p = n
      BY <1>4, <1>5 DEF Planning
    <3>4. CASE u = t
      <4>1. p = n
        BY <2>3, <3>3, <3>4
      <4>2. \A v \in Threads : \A i \in DOMAIN drops'[v] : drops'[v][i][1] # p
        BY <1>u, <1>3, <4>1 DEF NamesPlans
      <4> QED BY <1>3, <1>6, <3>1, <3>2, <3>4, <4>1, <4>2
    <3>5. CASE u # t
      <4>1. Planning(u, p) /\ p \in DOMAIN plans /\ p # n
        BY <1>3, <2>3, <3>1, <3>2, <3>5
      <4> QED BY <1>u, <1>6, <3>1, <3>3, <4>1 DEF OwnersApart
    <3> QED BY <3>4, <3>5
  <2> QED BY <2>1, <2>2, <2>3 DEF OwnersApart
<1>11. OwnedIsLive'
  <2>1. handle'
    <3>1. handle
      BY HoldersKeepHandle DEF PlanBf16
    <3> QED BY <3>1, <1>u
  <2>2. \A p \in DOMAIN plans' : Retained(p)' =>
          \A i \in DOMAIN Kept : <<p, Kept[i]>> \in live'
    BY <1>u, <1>3, <1>6 DEF OwnedIsLive
  <2>3. \A u \in Threads : call'[u].op = "plan" =>
          \A i \in 1 .. call'[u].made : <<call'[u].plan, Made[i]>> \in live'
    BY <1>u, <1>4, <1>5 DEF OwnedIsLive
  <2> QED BY <1>u, <2>1, <2>2, <2>3 DEF OwnedIsLive
<1>12. FailureSticks'
  BY <1>u DEF FailureSticks
<1> QED BY <1>7, <1>8, <1>9, <1>10, <1>11, <1>12

\* One more descriptor of a plan being made.
LEMMA CreateDescriptorKeeps ==
  ASSUME Inductive, NEW t \in Threads, CreateDescriptor(t)
  PROVE  Inductive'
<1> USE DEF Inductive
<1> PICK p, m, b : p = call[t].plan /\ m = call[t].made /\ b = call[t].poisoned
  OBVIOUS
<1> DEFINE c == [op |-> "plan", plan |-> p, made |-> m + 1, poisoned |-> b]
<1>1. /\ UNCHANGED <<clones, plans, work, drops, handle, sticky, failures>>
      /\ live' = live \cup {<<p, Made[m + 1]>>}
      /\ call[t].op = "plan"
  BY DEF CreateDescriptor
<1>2. /\ p \in Nat /\ m \in 0 .. 4 /\ b \in BOOLEAN /\ call[t] # Idle
      /\ call[t] = [op |-> "plan", plan |-> p, made |-> m, poisoned |-> b]
      /\ call' = [call EXCEPT ![t].made = @ + 1]
  BY <1>1, CallFacts, MadeFacts DEF CreateDescriptor, Typed
<1>3. call' = [call EXCEPT ![t] = c]
  <2>1. [call[t] EXCEPT !.made = @ + 1] = c
    BY <1>2
  <2> HIDE DEF c
  <2> QED BY <1>2, <2>1
<1>4. /\ c \in Calls /\ c # Idle /\ c.op = "plan" /\ c.plan = p /\ c.made = m + 1
      /\ c.poisoned = b
  BY <1>2, MadeFacts DEF Calls, Idle
<1> HIDE DEF c
<1>5. /\ call'[t] = c
      /\ \A u \in Threads : u # t => call'[u] = call[u]
      /\ \A u \in Threads : \A q : Planning(u, q)' <=> Planning(u, q)
  BY <1>1, <1>3, <1>4 DEF Typed, Planning
<1>6. \A q : Retained(q)' <=> Retained(q)
  BY <1>1 DEF Retained
<1>7. Typed'
  BY <1>1, <1>3, <1>4 DEF Typed
<1>8. NamesPlans'
  BY <1>1, <1>2, <1>4, <1>5 DEF NamesPlans
<1>9. CallsHold'
  BY <1>1, <1>2, <1>4, <1>5 DEF CallsHold
<1>10. OwnersApart'
  BY <1>1, <1>5, <1>6 DEF OwnersApart
<1>11. OwnedIsLive'
  <2>1. t \in clones
    BY <1>1, <1>2 DEF CallsHold
  <2>2. handle'
    BY <1>1, <2>1, HoldersKeepHandle
  <2>3. \A u \in Threads : call'[u].op = "plan" =>
          \A i \in 1 .. call'[u].made : <<call'[u].plan, Made[i]>> \in live'
    <3>1. \A i \in 1 .. m + 1 : i \in 1 .. m \/ i = m + 1
      BY <1>2
    <3>2. \A i \in 1 .. m : <<p, Made[i]>> \in live
      BY <1>1 DEF OwnedIsLive
    <3>3. \A i \in 1 .. call'[t].made : <<call'[t].plan, Made[i]>> \in live'
      BY <1>1, <1>4, <1>5, <3>1, <3>2
    <3>4. \A u \in Threads : u # t /\ call'[u].op = "plan" =>
            \A i \in 1 .. call'[u].made : <<call'[u].plan, Made[i]>> \in live'
      BY <1>1, <1>5 DEF OwnedIsLive
    <3> QED BY <3>3, <3>4
  <2> QED BY <1>1, <1>6, <2>2, <2>3 DEF OwnedIsLive
<1>12. FailureSticks'
  BY <1>1 DEF FailureSticks
<1> QED BY <1>7, <1>8, <1>9, <1>10, <1>11, <1>12

\* A plan that fails has its descriptors to destroy, and no plan.
LEMMA PlanFailsKeeps ==
  ASSUME Inductive, NEW t \in Threads, PlanFails(t)
  PROVE  Inductive'
<1> USE DEF Inductive
<1> PICK p, m, d : /\ p = call[t].plan /\ m = call[t].made
                   /\ d = Reverse(Descriptors(p, SubSeq(Made, 1, m)))
  OBVIOUS
<1>1. /\ UNCHANGED <<clones, plans, work, live, handle, sticky, failures>>
      /\ call[t].op = "plan" /\ drops' = [drops EXCEPT ![t] = d]
      /\ call' = [call EXCEPT ![t] = Idle]
  BY DEF PlanFails
<1>2. /\ p \in DOMAIN plans /\ p \in Nat /\ m \in 0 .. 5 /\ call[t] # Idle
      /\ Planning(t, p)
  BY <1>1, CallFacts DEF Typed, NamesPlans, Planning
<1>3. /\ d \in Seq(Nat \X ToSet(Made)) /\ DOMAIN d = 1 .. m
      /\ \A i \in 1 .. m : d[i] = <<p, Made[m - i + 1]>>
  BY <1>2, FailedDrops
<1>4. /\ call'[t] = Idle /\ drops'[t] = d
      /\ \A u \in Threads : u # t => call'[u] = call[u] /\ drops'[u] = drops[u]
      /\ \A u \in Threads : \A q : Planning(u, q)' <=> Planning(u, q) /\ u # t
  BY <1>1 DEF Typed, Planning, Idle
<1>5. \A q : Retained(q)' <=> Retained(q)
  BY <1>1 DEF Retained
<1>6. \A i \in DOMAIN d : /\ m - i + 1 \in 1 .. m /\ d[i] = <<p, Made[m - i + 1]>>
                          /\ d[i][1] = p
  <2>1. \A i \in 1 .. m : m - i + 1 \in 1 .. m
    BY <1>2
  <2>2. \A i \in DOMAIN d : i \in 1 .. m /\ d[i] = <<p, Made[m - i + 1]>>
    BY <1>3, Zenon
  <2> QED BY <2>1, <2>2
<1>7. Typed'
  BY <1>1, <1>3 DEF Typed, Calls
<1>8. NamesPlans'
  BY <1>1, <1>2, <1>4, <1>6 DEF NamesPlans
<1>9. CallsHold'
  BY <1>1, <1>4 DEF CallsHold
<1>10. OwnersApart'
  <2>1. ASSUME NEW u \in Threads, NEW v \in Threads,
               NEW i \in DOMAIN drops'[u], NEW j \in DOMAIN drops'[v],
               drops'[u][i] = drops'[v][j]
        PROVE  u = v /\ i = j
    <3>1. \A w \in Threads : \A k \in DOMAIN drops[w] : drops[w][k][1] # p
      BY <1>2 DEF OwnersApart
    <3>2. CASE u = t /\ v = t
      <4>1. Made[m - i + 1] = Made[m - j + 1]
        BY <1>4, <1>6, <2>1, <3>2
      <4>2. m - i + 1 = m - j + 1
        BY <1>2, <1>4, <1>6, <3>2, <4>1, MadeFacts
      <4>3. i \in 1 .. m /\ j \in 1 .. m
        BY <1>3, <1>4, <3>2
      <4>4. i = j
        BY <1>2, <4>2, <4>3
      <4> QED BY <3>2, <4>4
    <3>3. CASE u # t /\ v # t
      BY <1>4, <2>1, <3>3 DEF OwnersApart
    <3>4. CASE u = t /\ v # t
      BY <1>4, <1>6, <2>1, <3>1, <3>4
    <3>5. CASE u # t /\ v = t
      BY <1>4, <1>6, <2>1, <3>1, <3>5
    <3> QED BY <3>2, <3>3, <3>4, <3>5
  <2>2. ASSUME NEW u \in Threads, NEW q \in DOMAIN plans', NEW i \in DOMAIN drops'[u],
               drops'[u][i][1] = q, Retained(q)'
        PROVE  drops'[u][i][2] = "preference"
    <3>1. q \in DOMAIN plans /\ Retained(q) /\ q # p
      BY <1>1, <1>2, <1>5, <2>2 DEF OwnersApart
    <3>2. u # t
      BY <1>4, <1>6, <2>2, <3>1
    <3> QED BY <1>4, <2>2, <3>1, <3>2 DEF OwnersApart
  <2>3. ASSUME NEW u \in Threads, NEW q \in DOMAIN plans', Planning(u, q)'
        PROVE  /\ ~Retained(q)'
               /\ \A v \in Threads : /\ Planning(v, q)' => v = u
                                     /\ \A i \in DOMAIN drops'[v] : drops'[v][i][1] # q
    <3>1. q \in DOMAIN plans /\ Planning(u, q) /\ u # t
      BY <1>1, <1>4, <2>3
    <3>2. q # p
      BY <1>2, <3>1 DEF OwnersApart
    <3>3. \A v \in Threads : \A i \in DOMAIN drops'[v] : drops'[v][i][1] # q
      BY <1>4, <1>6, <3>1, <3>2 DEF OwnersApart
    <3> QED BY <1>4, <1>5, <3>1, <3>3 DEF OwnersApart
  <2> QED BY <2>1, <2>2, <2>3 DEF OwnersApart
<1>11. OwnedIsLive'
  <2>1. t \in clones
    BY <1>1, <1>2 DEF CallsHold
  <2>2. handle'
    BY <1>1, <2>1, HoldersKeepHandle
  <2>3. \A u \in Threads : \A i \in DOMAIN drops'[u] : drops'[u][i] \in live'
    <3>1. \A i \in 1 .. m : <<p, Made[i]>> \in live
      BY <1>1 DEF OwnedIsLive
    <3>2. \A i \in DOMAIN d : d[i] \in live
      BY <1>6, <3>1
    <3> QED BY <1>1, <1>4, <3>2 DEF OwnedIsLive
  <2>4. \A u \in Threads : call'[u].op = "plan" =>
          \A i \in 1 .. call'[u].made : <<call'[u].plan, Made[i]>> \in live'
    BY <1>1, <1>4 DEF OwnedIsLive, Idle
  <2> QED BY <1>1, <1>5, <2>2, <2>3, <2>4 DEF OwnedIsLive
<1>12. FailureSticks'
  BY <1>1 DEF FailureSticks
<1> QED BY <1>7, <1>8, <1>9, <1>10, <1>11, <1>12

\* A plan that is made keeps all its descriptors but the preference.
LEMMA PlanReturnedKeeps ==
  ASSUME Inductive, NEW t \in Threads, PlanReturned(t)
  PROVE  Inductive'
<1> USE DEF Inductive
<1> PICK p, d : p = call[t].plan /\ d = <<<<p, "preference">>>>
  OBVIOUS
<1>1. /\ UNCHANGED <<clones, work, live, handle, sticky, failures>>
      /\ call[t].op = "plan" /\ call[t].made = 5
      /\ plans' = [plans EXCEPT ![p] = {t}]
      /\ drops' = [drops EXCEPT ![t] = d]
      /\ call' = [call EXCEPT ![t] = Idle]
  BY MadeFacts DEF PlanReturned
<1>2. /\ p \in DOMAIN plans /\ p \in Nat /\ call[t] # Idle /\ Planning(t, p)
  BY <1>1, CallFacts DEF Typed, NamesPlans, Planning
<1>3. /\ d \in Seq(Nat \X ToSet(Made)) /\ DOMAIN d = {1} /\ d[1] = <<p, "preference">>
  <2>1. <<p, "preference">> \in Nat \X ToSet(Made)
    BY <1>2, MadeFacts
  <2> QED BY <2>1
<1>4. /\ call'[t] = Idle /\ drops'[t] = d /\ plans'[p] = {t}
      /\ DOMAIN plans' = DOMAIN plans
      /\ \A q \in DOMAIN plans : q # p => plans'[q] = plans[q]
      /\ \A u \in Threads : u # t => call'[u] = call[u] /\ drops'[u] = drops[u]
  BY <1>1, <1>2 DEF Typed
<1>5. \A u \in Threads : \A q : Planning(u, q)' <=> Planning(u, q) /\ u # t
  BY <1>4 DEF Planning, Idle
<1>6. \A q \in DOMAIN plans : Retained(q)' <=> Retained(q) \/ q = p
  BY <1>1, <1>4 DEF Retained
<1>7. Typed'
  <2>1. plans' \in Seq(SUBSET Threads)
    BY <1>1, <1>2 DEF Typed
  <2> QED BY <1>1, <1>3, <2>1 DEF Typed, Calls
<1>8. NamesPlans'
  BY <1>1, <1>2, <1>3, <1>4 DEF NamesPlans
<1>9. CallsHold'
  <2>1. ASSUME NEW u \in Threads, call'[u] # Idle
        PROVE  /\ drops'[u] = <<>> /\ ~call'[u].poisoned
               /\ call'[u].op = "plan" => u \in clones'
               /\ call'[u].op = "matmul" => u \in plans'[call'[u].plan]
    <3>1. u # t /\ call'[u] = call[u] /\ drops'[u] = drops[u]
      BY <1>4, <2>1
    <3>2. call[u].op = "matmul" => call[u].plan # p /\ call[u].plan \in DOMAIN plans
      BY <1>2, <2>1, <3>1 DEF CallsHold, OwnersApart, Retained, NamesPlans
    <3> QED BY <1>1, <1>4, <2>1, <3>1, <3>2 DEF CallsHold
  <2> QED BY <2>1 DEF CallsHold
<1>10. OwnersApart'
  <2>1. \A w \in Threads : \A k \in DOMAIN drops[w] : drops[w][k][1] # p
    BY <1>2 DEF OwnersApart
  <2>2. ASSUME NEW u \in Threads, NEW v \in Threads,
               NEW i \in DOMAIN drops'[u], NEW j \in DOMAIN drops'[v],
               drops'[u][i] = drops'[v][j]
        PROVE  u = v /\ i = j
    <3>1. CASE u = t /\ v = t
      BY <1>3, <1>4, <3>1
    <3>2. CASE u # t /\ v # t
      BY <1>4, <2>2, <3>2 DEF OwnersApart
    <3>3. CASE u = t /\ v # t
      BY <1>3, <1>4, <2>1, <2>2, <3>3
    <3>4. CASE u # t /\ v = t
      BY <1>3, <1>4, <2>1, <2>2, <3>4
    <3> QED BY <3>1, <3>2, <3>3, <3>4
  <2>3. ASSUME NEW u \in Threads, NEW q \in DOMAIN plans', NEW i \in DOMAIN drops'[u],
               drops'[u][i][1] = q, Retained(q)'
        PROVE  drops'[u][i][2] = "preference"
    <3>1. CASE u = t
      BY <1>3, <1>4, <3>1
    <3>2. CASE u # t
      BY <1>4, <1>6, <2>1, <2>3, <3>2 DEF OwnersApart
    <3> QED BY <3>1, <3>2
  <2>4. ASSUME NEW u \in Threads, NEW q \in DOMAIN plans', Planning(u, q)'
        PROVE  /\ ~Retained(q)'
               /\ \A v \in Threads : /\ Planning(v, q)' => v = u
                                     /\ \A i \in DOMAIN drops'[v] : drops'[v][i][1] # q
    <3>1. q \in DOMAIN plans /\ Planning(u, q) /\ u # t
      BY <1>4, <1>5, <2>4
    <3>2. q # p
      BY <1>2, <3>1 DEF OwnersApart
    <3>3. \A v \in Threads : \A i \in DOMAIN drops'[v] : drops'[v][i][1] # q
      BY <1>3, <1>4, <3>1, <3>2 DEF OwnersApart
    <3> QED BY <1>5, <1>6, <3>1, <3>2, <3>3 DEF OwnersApart
  <2> QED BY <2>2, <2>3, <2>4 DEF OwnersApart
<1>11. OwnedIsLive'
  <2>1. t \in clones
    BY <1>1, <1>2 DEF CallsHold
  <2>2. handle'
    BY <1>1, <2>1, HoldersKeepHandle
  <2>3. \A i \in 1 .. 5 : <<p, Made[i]>> \in live
    BY <1>1 DEF OwnedIsLive
  <2>4. \A u \in Threads : \A i \in DOMAIN drops'[u] : drops'[u][i] \in live'
    <3>1. d[1] \in live
      BY <1>3, <2>3, MadeFacts
    <3> QED BY <1>1, <1>3, <1>4, <3>1 DEF OwnedIsLive
  <2>5. \A q \in DOMAIN plans' : Retained(q)' =>
          \A i \in DOMAIN Kept : <<q, Kept[i]>> \in live'
    <3>1. \A i \in DOMAIN Kept : <<p, Kept[i]>> \in live
      BY <2>3, MadeFacts
    <3> QED BY <1>1, <1>4, <1>6, <3>1 DEF OwnedIsLive
  <2>6. \A u \in Threads : call'[u].op = "plan" =>
          \A i \in 1 .. call'[u].made : <<call'[u].plan, Made[i]>> \in live'
    BY <1>1, <1>4 DEF OwnedIsLive, Idle
  <2> QED BY <2>2, <2>4, <2>5, <2>6 DEF OwnedIsLive
<1>12. FailureSticks'
  BY <1>1 DEF FailureSticks
<1> QED BY <1>7, <1>8, <1>9, <1>10, <1>11, <1>12
-----------------------------------------------------------------------------
(* Enqueueing keeps the invariant. *)

\* A submission that has passed its checks holds its plan.
LEMMA ValidateResolvedKeeps ==
  ASSUME Inductive, NEW t \in Threads, NEW p \in DOMAIN plans, ValidateResolved(t, p)
  PROVE  Inductive'
<1> DEFINE c == [op |-> "matmul", plan |-> p, poisoned |-> FALSE]
<1> USE DEF Inductive
<1>1. /\ UNCHANGED <<clones, plans, work, live, drops, handle, sticky, failures>>
      /\ t \in plans[p] /\ call[t] = Idle /\ drops[t] = <<>>
  BY DEF ValidateResolved, Free
<1>2. failures = <<>>
  BY DEF FailureSticks, ValidateResolved
<1>3. call' = [call EXCEPT ![t] = c]
  BY <1>2 DEF ValidateResolved
<1>4. /\ c \in Calls /\ c # Idle /\ c.op = "matmul" /\ c.plan = p /\ ~c.poisoned
  BY DEF Calls, Idle, Typed
<1> HIDE DEF c
<1>5. /\ call'[t] = c
      /\ \A u \in Threads : u # t => call'[u] = call[u]
  BY <1>3 DEF Typed
<1>6. /\ \A u \in Threads : \A q : Planning(u, q)' <=> Planning(u, q)
      /\ \A q : Retained(q)' <=> Retained(q)
  BY <1>1, <1>4, <1>5 DEF Planning, Retained, Idle
<1>7. Typed'
  BY <1>1, <1>3, <1>4 DEF Typed
<1>8. NamesPlans'
  BY <1>1, <1>4, <1>5 DEF NamesPlans
<1>9. CallsHold'
  BY <1>1, <1>4, <1>5 DEF CallsHold
<1>10. OwnersApart'
  BY <1>1, <1>6 DEF OwnersApart
<1>11. OwnedIsLive'
  <2>1. Retained(p)
    BY <1>1 DEF Retained
  <2>2. handle'
    BY <1>1, <2>1, HoldersKeepHandle
  <2>3. \A u \in Threads : call'[u].op = "plan" =>
          \A i \in 1 .. call'[u].made : <<call'[u].plan, Made[i]>> \in live'
    BY <1>1, <1>4, <1>5 DEF OwnedIsLive
  <2> QED BY <1>1, <1>6, <2>2, <2>3 DEF OwnedIsLive
<1>12. FailureSticks'
  BY <1>1 DEF FailureSticks
<1> QED BY <1>7, <1>8, <1>9, <1>10, <1>11, <1>12

\* The submission that is enqueued retains the plan its thread holds.
LEMMA MatmulKeeps ==
  ASSUME Inductive, NEW t \in Threads, Matmul(t)
  PROVE  Inductive'
<1> USE DEF Inductive
<1> PICK p : p = call[t].plan
  OBVIOUS
<1>1. /\ UNCHANGED <<clones, plans, live, drops, handle, sticky, failures>>
      /\ call[t].op = "matmul" /\ work' = Append(work, p)
      /\ call' = [call EXCEPT ![t] = Idle]
  BY DEF Matmul
<1>2. /\ p \in DOMAIN plans /\ p \in Nat /\ call[t] # Idle
  BY <1>1, CallFacts DEF Typed, NamesPlans
<1>3. t \in plans[p]
  BY <1>1, <1>2 DEF CallsHold
<1>4. /\ work' \in Seq(Nat) /\ ToSet(work') = ToSet(work) \cup {p}
      /\ \A i \in DOMAIN work' : work'[i] \in DOMAIN plans
  <2>1. work \in Seq(Nat)
    BY DEF Typed
  <2>2. work' \in Seq(Nat) /\ ToSet(work') = ToSet(work) \cup {p}
    BY <1>1, <1>2, <2>1, AppendFacts, ElementsFacts
  <2>3. \A x \in ToSet(work) : x \in DOMAIN plans
    BY <2>1, ElementsFacts DEF NamesPlans
  <2> QED BY <1>2, <2>2, <2>3 DEF ToSet
<1>5. /\ call'[t] = Idle
      /\ \A u \in Threads : u # t => call'[u] = call[u]
  BY <1>1 DEF Typed
<1>6. /\ \A u \in Threads : \A q : Planning(u, q)' <=> Planning(u, q)
      /\ \A q : Retained(q)' <=> Retained(q)
  <2>1. \A u \in Threads : \A q : Planning(u, q)' <=> Planning(u, q)
    BY <1>1, <1>5 DEF Planning, Idle
  <2>2. \A q : Retained(q)' <=> Retained(q)
    BY <1>1, <1>3, <1>4 DEF Retained
  <2> QED BY <2>1, <2>2
<1>7. Typed'
  BY <1>1, <1>4 DEF Typed, Calls
<1>8. NamesPlans'
  BY <1>1, <1>4, <1>5 DEF NamesPlans
<1>9. CallsHold'
  BY <1>1, <1>5 DEF CallsHold
<1>10. OwnersApart'
  BY <1>1, <1>6 DEF OwnersApart
<1>11. OwnedIsLive'
  <2>1. Retained(p)
    BY <1>3 DEF Retained
  <2>2. handle'
    BY <1>1, <1>2, <2>1, HoldersKeepHandle
  <2>3. \A u \in Threads : call'[u].op = "plan" =>
          \A i \in 1 .. call'[u].made : <<call'[u].plan, Made[i]>> \in live'
    BY <1>1, <1>5 DEF OwnedIsLive, Idle
  <2> QED BY <1>1, <1>6, <2>2, <2>3 DEF OwnedIsLive
<1>12. FailureSticks'
  BY <1>1 DEF FailureSticks
<1> QED BY <1>7, <1>8, <1>9, <1>10, <1>11, <1>12
-----------------------------------------------------------------------------
(* Dropping keeps the invariant. *)

\* When a plan that something retained may have lost its last holder, its
\* descriptors go to the thread that let go, and nothing else owns them.
LEMMA PlanDroppedKeeps ==
  ASSUME Inductive, NEW t \in Threads, Free(t), NEW p \in DOMAIN plans, Retained(p),
         PlanDropped(t, p), DOMAIN plans' = DOMAIN plans,
         \A q \in DOMAIN plans : Retained(q)' => Retained(q),
         UNCHANGED <<call, live, handle>>
  PROVE  /\ drops' \in [Threads -> Seq(Nat \X ToSet(Made))]
         /\ \A u \in Threads : /\ u # t => drops'[u] = drops[u]
                               /\ \A i \in DOMAIN drops'[u] : drops'[u][i][1] \in DOMAIN plans
         /\ call'[t] = Idle /\ OwnersApart' /\ OwnedIsLive'
<1> USE DEF Inductive
<1> PICK d : d = IF Retained(p)' THEN <<>> ELSE Descriptors(p, Kept)
  OBVIOUS
<1>1. /\ drops' = [drops EXCEPT ![t] = d] /\ call[t] = Idle /\ p \in Nat
      /\ drops \in [Threads -> Seq(Nat \X ToSet(Made))]
  BY DEF PlanDropped, Typed, Free
<1>2. /\ d \in Seq(Nat \X ToSet(Made))
      /\ \A i \in DOMAIN d : i \in 1 .. 4 /\ d[i] = <<p, Kept[i]>> /\ d[i][1] = p
      /\ Retained(p)' => DOMAIN d = {}
  <2>1. CASE Retained(p)'
    BY <2>1
  <2>2. CASE ~Retained(p)'
    <3>1. d = Descriptors(p, Kept)
      BY <2>2
    <3>2. /\ Descriptors(p, Kept) \in Seq(Nat \X ToSet(Made))
          /\ DOMAIN Descriptors(p, Kept) = 1 .. 4
          /\ \A i \in 1 .. 4 : Descriptors(p, Kept)[i] = <<p, Kept[i]>>
      BY <1>1, KeptDrops
    <3>3. d \in Seq(Nat \X ToSet(Made)) /\ DOMAIN d = 1 .. 4
      BY <3>1, <3>2, Zenon
    <3>4. \A i \in 1 .. 4 : d[i] = <<p, Kept[i]>>
      BY <3>1, <3>2, Zenon
    <3>5. \A i \in DOMAIN d : i \in 1 .. 4 /\ d[i] = <<p, Kept[i]>>
      BY <3>3, <3>4, Zenon
    <3>6. \A i \in DOMAIN d : d[i][1] = p
      BY <3>5
    <3> QED BY <2>2, <3>3, <3>5, <3>6, Zenon
  <2> QED BY <2>1, <2>2
<1>3. /\ drops'[t] = d /\ call'[t] = Idle
      /\ \A u \in Threads : u # t => drops'[u] = drops[u]
  BY <1>1 DEF Typed
<1>4. \A u \in Threads : \A q : Planning(u, q)' <=> Planning(u, q)
  BY DEF Planning
<1>5. \A u \in Threads : \A i \in DOMAIN drops'[u] : drops'[u][i][1] \in DOMAIN plans
  BY <1>2, <1>3 DEF NamesPlans
<1>6. OwnersApart'
  <2>1. \A w \in Threads : \A k \in DOMAIN drops[w] :
          drops[w][k][1] = p => drops[w][k][2] = "preference"
    BY DEF OwnersApart
  <2>2. ASSUME NEW i \in DOMAIN d
        PROVE  d[i][2] # "preference"
    <3>1. i \in 1 .. 4 /\ d[i] = <<p, Kept[i]>>
      BY <1>2
    <3>2. Kept[i] # "preference"
      BY <3>1, MadeFacts
    <3> QED BY <3>1, <3>2
  <2>3. ASSUME NEW u \in Threads, NEW v \in Threads,
               NEW i \in DOMAIN drops'[u], NEW j \in DOMAIN drops'[v],
               drops'[u][i] = drops'[v][j]
        PROVE  u = v /\ i = j
    <3>1. CASE u = t /\ v = t
      <4>1. i \in 1 .. 4 /\ j \in 1 .. 4 /\ Kept[i] = Kept[j]
        BY <1>2, <1>3, <2>3, <3>1
      <4>2. i = j
        BY <4>1, MadeFacts
      <4> QED BY <3>1, <4>2
    <3>2. CASE u # t /\ v # t
      BY <1>3, <2>3, <3>2 DEF OwnersApart
    <3>3. CASE u = t /\ v # t
      BY <1>2, <1>3, <2>1, <2>2, <2>3, <3>3
    <3>4. CASE u # t /\ v = t
      BY <1>2, <1>3, <2>1, <2>2, <2>3, <3>4
    <3> QED BY <3>1, <3>2, <3>3, <3>4
  <2>4. ASSUME NEW u \in Threads, NEW q \in DOMAIN plans', NEW i \in DOMAIN drops'[u],
               drops'[u][i][1] = q, Retained(q)'
        PROVE  drops'[u][i][2] = "preference"
    <3>1. q \in DOMAIN plans /\ Retained(q)
      BY <2>4
    <3>2. CASE u = t
      BY <1>2, <1>3, <2>4, <3>2
    <3>3. CASE u # t
      BY <1>3, <2>4, <3>1, <3>3 DEF OwnersApart
    <3> QED BY <3>2, <3>3
  <2>5. ASSUME NEW u \in Threads, NEW q \in DOMAIN plans', Planning(u, q)'
        PROVE  /\ ~Retained(q)'
               /\ \A v \in Threads : /\ Planning(v, q)' => v = u
                                     /\ \A i \in DOMAIN drops'[v] : drops'[v][i][1] # q
    <3>1. q \in DOMAIN plans /\ Planning(u, q)
      BY <1>4, <2>5
    <3>2. ~Retained(q) /\ q # p
      BY <3>1 DEF OwnersApart
    <3>3. \A v \in Threads : \A i \in DOMAIN drops'[v] : drops'[v][i][1] # q
      BY <1>2, <1>3, <3>1, <3>2 DEF OwnersApart
    <3> QED BY <1>4, <3>1, <3>2, <3>3 DEF OwnersApart
  <2> QED BY <2>3, <2>4, <2>5 DEF OwnersApart
<1>7. OwnedIsLive'
  <2>1. handle'
    BY HoldersKeepHandle
  <2>2. \A u \in Threads : \A i \in DOMAIN drops'[u] : drops'[u][i] \in live'
    <3>1. \A i \in DOMAIN d : d[i] \in live
      <4>1. \A i \in 1 .. 4 : <<p, Kept[i]>> \in live
        BY MadeFacts DEF OwnedIsLive
      <4> QED BY <1>2, <4>1
    <3> QED BY <1>3, <3>1 DEF OwnedIsLive
  <2>3. \A q \in DOMAIN plans' : Retained(q)' =>
          \A i \in DOMAIN Kept : <<q, Kept[i]>> \in live'
    BY DEF OwnedIsLive
  <2>4. \A u \in Threads : call'[u].op = "plan" =>
          \A i \in 1 .. call'[u].made : <<call'[u].plan, Made[i]>> \in live'
    BY DEF OwnedIsLive
  <2> QED BY <2>1, <2>2, <2>3, <2>4 DEF OwnedIsLive
<1> QED BY <1>1, <1>2, <1>3, <1>5, <1>6, <1>7

\* A thread lets go of its clone of a plan.
LEMMA DropPlanKeeps ==
  ASSUME Inductive, NEW t \in Threads, NEW p \in DOMAIN plans, DropPlan(t, p)
  PROVE  Inductive'
<1> USE DEF Inductive
<1>1. /\ UNCHANGED <<clones, work, call, live, handle, sticky, failures>>
      /\ t \in plans[p] /\ Free(t) /\ PlanDropped(t, p)
      /\ plans' = [plans EXCEPT ![p] = @ \ {t}]
  BY DEF DropPlan
<1>2. /\ plans' \in Seq(SUBSET Threads) /\ DOMAIN plans' = DOMAIN plans
      /\ plans'[p] = plans[p] \ {t}
      /\ \A q \in DOMAIN plans : q # p => plans'[q] = plans[q]
  BY <1>1 DEF Typed
<1>3. Retained(p) /\ \A q \in DOMAIN plans : Retained(q)' => Retained(q)
  BY <1>1, <1>2 DEF Retained
<1>4. /\ drops' \in [Threads -> Seq(Nat \X ToSet(Made))]
      /\ \A u \in Threads : /\ u # t => drops'[u] = drops[u]
                            /\ \A i \in DOMAIN drops'[u] : drops'[u][i][1] \in DOMAIN plans
      /\ call'[t] = Idle /\ OwnersApart' /\ OwnedIsLive'
  BY <1>1, <1>2, <1>3, PlanDroppedKeeps
<1>5. Typed'
  BY <1>1, <1>2, <1>4 DEF Typed
<1>6. NamesPlans'
  BY <1>1, <1>2, <1>4 DEF NamesPlans
<1>7. CallsHold'
  BY <1>1, <1>2, <1>4 DEF CallsHold, NamesPlans
<1>8. FailureSticks'
  BY <1>1 DEF FailureSticks
<1> QED BY <1>4, <1>5, <1>6, <1>7, <1>8

\* A settled submission lets go of its plan.
LEMMA SettleWorkKeeps ==
  ASSUME Inductive, NEW t \in Threads, SettleWork(t)
  PROVE  Inductive'
<1> USE DEF Inductive
<1> PICK p : p = Head(work)
  OBVIOUS
<1>1. /\ UNCHANGED <<clones, plans, call, live, handle, sticky, failures>>
      /\ work # <<>> /\ Free(t) /\ PlanDropped(t, p) /\ work' = Tail(work)
  BY DEF SettleWork
<1>2. /\ work' \in Seq(Nat) /\ ToSet(work') \subseteq ToSet(work) /\ p \in ToSet(work)
      /\ p \in DOMAIN plans /\ \A i \in DOMAIN work' : work'[i] \in DOMAIN plans
  <2>1. work \in Seq(Nat)
    BY DEF Typed
  <2> QED BY <1>1, <2>1, TailFacts, ElementsFacts DEF NamesPlans
<1>3. Retained(p) /\ \A q \in DOMAIN plans : Retained(q)' => Retained(q)
  BY <1>1, <1>2 DEF Retained
<1>4. /\ drops' \in [Threads -> Seq(Nat \X ToSet(Made))]
      /\ \A u \in Threads : /\ u # t => drops'[u] = drops[u]
                            /\ \A i \in DOMAIN drops'[u] : drops'[u][i][1] \in DOMAIN plans
      /\ call'[t] = Idle /\ OwnersApart' /\ OwnedIsLive'
  BY <1>1, <1>2, <1>3, PlanDroppedKeeps
<1>5. Typed'
  BY <1>1, <1>2, <1>4 DEF Typed
<1>6. NamesPlans'
  BY <1>1, <1>2, <1>4 DEF NamesPlans
<1>7. CallsHold'
  BY <1>1, <1>4 DEF CallsHold
<1>8. FailureSticks'
  BY <1>1 DEF FailureSticks
<1> QED BY <1>4, <1>5, <1>6, <1>7, <1>8

\* Another thread gets a clone of a plan.
LEMMA SharePlanKeeps ==
  ASSUME Inductive, NEW t \in Threads, NEW u \in Threads, NEW p \in DOMAIN plans,
         SharePlan(t, u, p)
  PROVE  Inductive'
<1> USE DEF Inductive
<1>1. /\ UNCHANGED <<clones, work, call, live, drops, handle, sticky, failures>>
      /\ t \in plans[p] /\ plans' = [plans EXCEPT ![p] = @ \cup {u}]
  BY DEF SharePlan
<1>2. /\ plans' \in Seq(SUBSET Threads) /\ DOMAIN plans' = DOMAIN plans
      /\ \A q \in DOMAIN plans : plans[q] \subseteq plans'[q] /\ (q # p => plans'[q] = plans[q])
  BY <1>1 DEF Typed
<1>3. /\ Retained(p) /\ \A q \in DOMAIN plans : Retained(q)' <=> Retained(q)
      /\ \A v \in Threads : \A q : Planning(v, q)' <=> Planning(v, q)
  BY <1>1, <1>2 DEF Retained, Planning
<1>4. Typed'
  BY <1>1, <1>2 DEF Typed
<1>5. NamesPlans'
  BY <1>1, <1>2 DEF NamesPlans
<1>6. CallsHold'
  BY <1>1, <1>2 DEF CallsHold, NamesPlans
<1>7. OwnersApart'
  BY <1>1, <1>2, <1>3 DEF OwnersApart
<1>8. OwnedIsLive'
  <2>1. handle'
    BY <1>1, <1>3, HoldersKeepHandle
  <2> QED BY <1>1, <1>2, <1>3, <2>1 DEF OwnedIsLive
<1>9. FailureSticks'
  BY <1>1 DEF FailureSticks
<1> QED BY <1>4, <1>5, <1>6, <1>7, <1>8, <1>9

\* A thread lets go of its clone of the provider.
LEMMA DropProviderKeeps ==
  ASSUME Inductive, NEW t \in Threads, DropProvider(t)
  PROVE  Inductive'
<1> USE DEF Inductive
<1>1. /\ UNCHANGED <<plans, work, call, live, drops, handle, sticky, failures>>
      /\ t \in clones /\ clones' = clones \ {t} /\ call[t] = Idle
  BY DEF DropProvider, Free
<1>2. /\ \A q : Retained(q)' <=> Retained(q)
      /\ \A v \in Threads : \A q : Planning(v, q)' <=> Planning(v, q)
  BY <1>1 DEF Retained, Planning
<1>3. Typed'
  BY <1>1 DEF Typed
<1>4. NamesPlans'
  BY <1>1 DEF NamesPlans
<1>5. CallsHold'
  BY <1>1 DEF CallsHold
<1>6. OwnersApart'
  BY <1>1, <1>2 DEF OwnersApart
<1>7. OwnedIsLive'
  <2>1. handle'
    BY <1>1, HoldersKeepHandle
  <2> QED BY <1>1, <1>2, <2>1 DEF OwnedIsLive
<1>8. FailureSticks'
  BY <1>1 DEF FailureSticks
<1> QED BY <1>3, <1>4, <1>5, <1>6, <1>7, <1>8

\* A descriptor that is destroyed had no other owner.
LEMMA DestroyDescriptorKeeps ==
  ASSUME Inductive, NEW t \in Threads, DestroyDescriptor(t)
  PROVE  Inductive'
<1> USE DEF Inductive
<1> PICK h : h = Head(drops[t])
  OBVIOUS
<1>1. /\ UNCHANGED <<clones, plans, work, call, handle>>
      /\ drops[t] # <<>> /\ drops' = [drops EXCEPT ![t] = Tail(@)]
      /\ live \ {h} \subseteq live'
      /\ \/ sticky' = StickyAfter(0) /\ UNCHANGED failures
         \/ \E status \in Statuses :
              sticky' = StickyAfter(status) /\ failures' = Append(failures, status)
         \/ UNCHANGED <<sticky, failures>>
  BY DEF DestroyDescriptor, RunCleanup
<1>2. drops[t] \in Seq(Nat \X ToSet(Made)) /\ failures \in Seq(Statuses)
  BY DEF Typed
<1>3. FailureSticks' /\ failures' \in Seq(Statuses)
  BY <1>1, <1>2, CleanupSticks
<1>4. /\ Tail(drops[t]) \in Seq(Nat \X ToSet(Made)) /\ h = drops[t][1] /\ 1 \in DOMAIN drops[t]
      /\ \A i \in DOMAIN Tail(drops[t]) :
           /\ i \in Nat \ {0} /\ i + 1 \in DOMAIN drops[t]
           /\ Tail(drops[t])[i] = drops[t][i + 1]
  BY <1>1, <1>2, TailFacts
<1>5. /\ drops'[t] = Tail(drops[t])
      /\ \A u \in Threads : u # t => drops'[u] = drops[u]
  BY <1>1 DEF Typed
<1>t. \A i \in DOMAIN drops'[t] : /\ i \in Nat \ {0} /\ i + 1 \in DOMAIN drops[t]
                                 /\ drops'[t][i] = drops[t][i + 1]
  BY <1>4, <1>5, Zenon
<1>6. /\ \A q : Retained(q)' <=> Retained(q)
      /\ \A v \in Threads : \A q : Planning(v, q)' <=> Planning(v, q)
  BY <1>1 DEF Retained, Planning
<1>7. Typed'
  BY <1>1, <1>3, <1>4 DEF Typed
<1>8. NamesPlans'
  BY <1>1, <1>4, <1>5 DEF NamesPlans
<1>9. CallsHold'
  BY <1>1, <1>5 DEF CallsHold
<1>10. OwnersApart'
  <2>1. ASSUME NEW u \in Threads, NEW v \in Threads,
               NEW i \in DOMAIN drops'[u], NEW j \in DOMAIN drops'[v],
               drops'[u][i] = drops'[v][j]
        PROVE  u = v /\ i = j
    <3>1. CASE u = t /\ v = t
      <4>1. i + 1 = j + 1
        BY <1>t, <2>1, <3>1 DEF OwnersApart
      <4> QED BY <1>t, <3>1, <4>1
    <3>2. CASE u # t /\ v # t
      BY <1>5, <2>1, <3>2 DEF OwnersApart
    <3>3. CASE u = t /\ v # t
      <4>1. /\ i + 1 \in DOMAIN drops[t] /\ j \in DOMAIN drops[v]
            /\ drops[t][i + 1] = drops[v][j]
        BY <1>5, <1>t, <2>1, <3>3
      <4> QED BY <3>3, <4>1 DEF OwnersApart
    <3>4. CASE u # t /\ v = t
      <4>1. /\ j + 1 \in DOMAIN drops[t] /\ i \in DOMAIN drops[u]
            /\ drops[u][i] = drops[t][j + 1]
        BY <1>5, <1>t, <2>1, <3>4
      <4> QED BY <3>4, <4>1 DEF OwnersApart
    <3> QED BY <3>1, <3>2, <3>3, <3>4
  <2>2. \A u \in Threads, q \in DOMAIN plans' : \A i \in DOMAIN drops'[u] :
          drops'[u][i][1] = q /\ Retained(q)' => drops'[u][i][2] = "preference"
    BY <1>1, <1>4, <1>5, <1>6 DEF OwnersApart
  <2>3. \A u \in Threads, q \in DOMAIN plans' : Planning(u, q)' =>
          /\ ~Retained(q)'
          /\ \A v \in Threads : /\ Planning(v, q)' => v = u
                                /\ \A i \in DOMAIN drops'[v] : drops'[v][i][1] # q
    BY <1>1, <1>4, <1>5, <1>6 DEF OwnersApart
  <2> QED BY <2>1, <2>2, <2>3 DEF OwnersApart
<1>11. OwnedIsLive'
  <2>1. handle'
    BY <1>1, <1>2, HoldersKeepHandle
  <2>2. \A q \in DOMAIN plans' : Retained(q)' =>
          \A i \in DOMAIN Kept : <<q, Kept[i]>> \in live'
    <3>1. \A q \in DOMAIN plans : Retained(q) => \A i \in DOMAIN Kept : <<q, Kept[i]>> # h
      BY <1>4, MadeFacts DEF OwnersApart
    <3> QED BY <1>1, <1>6, <3>1 DEF OwnedIsLive
  <2>3. \A u \in Threads : \A i \in DOMAIN drops'[u] : drops'[u][i] \in live'
    <3>1. \A u \in Threads : \A i \in DOMAIN drops'[u] : drops'[u][i] # h
      <4>1. \A i \in DOMAIN drops'[t] : drops'[t][i] # h
        <5>1. \A i \in DOMAIN drops'[t] : i + 1 # 1
          BY <1>t
        <5> QED BY <1>4, <1>t, <5>1 DEF OwnersApart
      <4>2. \A u \in Threads : u # t => \A i \in DOMAIN drops'[u] : drops'[u][i] # h
        BY <1>4, <1>5 DEF OwnersApart
      <4> QED BY <4>1, <4>2
    <3>2. \A u \in Threads : \A i \in DOMAIN drops'[u] : drops'[u][i] \in live
      BY <1>5, <1>t DEF OwnedIsLive
    <3> QED BY <1>1, <3>1, <3>2
  <2>4. \A u \in Threads : call'[u].op = "plan" =>
          \A i \in 1 .. call'[u].made : <<call'[u].plan, Made[i]>> \in live'
    <3>1. \A u \in Threads : call[u].op = "plan" => h[1] # call[u].plan
      BY <1>4, CallFacts DEF OwnersApart, Planning, NamesPlans, Typed
    <3>2. \A u \in Threads : call[u].op = "plan" =>
            \A i \in 1 .. call[u].made : <<call[u].plan, Made[i]>> # h
      BY <3>1
    <3> QED BY <1>1, <3>2 DEF OwnedIsLive
  <2> QED BY <2>1, <2>2, <2>3, <2>4 DEF OwnedIsLive
<1> QED BY <1>3, <1>7, <1>8, <1>9, <1>10, <1>11

\* The handle is destroyed when nothing holds the provider.
LEMMA DestroyHandleKeeps ==
  ASSUME Inductive, DestroyHandle
  PROVE  Inductive'
<1> USE DEF Inductive
<1>1. /\ UNCHANGED <<clones, plans, work, call, live, drops>> /\ ~ProviderHeld
      /\ \/ sticky' = StickyAfter(0) /\ UNCHANGED failures
         \/ \E status \in Statuses :
              sticky' = StickyAfter(status) /\ failures' = Append(failures, status)
         \/ UNCHANGED <<sticky, failures>>
  BY DEF DestroyHandle, RunCleanup
<1>2. failures \in Seq(Statuses)
  BY DEF Typed
<1>3. FailureSticks' /\ failures' \in Seq(Statuses)
  BY <1>1, <1>2, CleanupSticks
<1>4. /\ \A q : Retained(q)' <=> Retained(q)
      /\ \A v \in Threads : \A q : Planning(v, q)' <=> Planning(v, q)
  BY <1>1 DEF Retained, Planning
<1>5. Typed' /\ NamesPlans' /\ CallsHold' /\ OwnersApart'
  BY <1>1, <1>3, <1>4 DEF Typed, NamesPlans, CallsHold, OwnersApart
<1>6. ~ProviderHeld'
  BY <1>1 DEF ProviderHeld, Wrapped, Retained
<1>7. OwnedIsLive'
  BY <1>1, <1>4, <1>6 DEF OwnedIsLive
<1> QED BY <1>3, <1>5, <1>7
-----------------------------------------------------------------------------
(* The theorems. *)

\* Every step keeps the invariant.
LEMMA StepKeeps ==
  ASSUME Inductive, [Next]_vars
  PROVE  Inductive'
<1>1. ASSUME NEW t \in Threads,
             \/ PlanBf16(t) \/ CreateDescriptor(t) \/ PlanFails(t) \/ PlanReturned(t)
             \/ Matmul(t) \/ SettleWork(t) \/ DropProvider(t) \/ DestroyDescriptor(t)
      PROVE  Inductive'
  BY <1>1, PlanBf16Keeps, CreateDescriptorKeeps, PlanFailsKeeps, PlanReturnedKeeps,
     MatmulKeeps, SettleWorkKeeps, DropProviderKeeps, DestroyDescriptorKeeps
<1>2. ASSUME NEW t \in Threads, NEW p \in DOMAIN plans,
             \/ ValidateResolved(t, p) \/ DropPlan(t, p)
             \/ \E u \in Threads : SharePlan(t, u, p)
      PROVE  Inductive'
  BY <1>2, ValidateResolvedKeeps, DropPlanKeeps, SharePlanKeeps
<1>3. CASE DestroyHandle
  BY <1>3, DestroyHandleKeeps
<1>4. CASE UNCHANGED vars
  <2>1. /\ UNCHANGED <<clones, plans, work, call, live, drops, handle, sticky, failures>>
        /\ UNCHANGED ProviderHeld
        /\ \A q : Retained(q)' <=> Retained(q)
        /\ \A v \in Threads : \A q : Planning(v, q)' <=> Planning(v, q)
    BY <1>4 DEF vars, ProviderHeld, Wrapped, Retained, Planning
  <2>2. Typed' /\ NamesPlans' /\ CallsHold' /\ FailureSticks'
    BY <2>1 DEF Inductive, Typed, NamesPlans, CallsHold, FailureSticks
  <2>3. OwnersApart' /\ OwnedIsLive'
    BY <2>1 DEF Inductive, OwnersApart, OwnedIsLive
  <2> QED BY <2>2, <2>3 DEF Inductive
<1> QED BY <1>1, <1>2, <1>3, <1>4 DEF Next

\* However threads plan, enqueue, settle and drop, descriptors have one owner,
\* owned descriptors and the handle are live, and a failed destroy is remembered.
THEOREM InductiveInvariant == Spec => []Inductive
<1>1. Init => Inductive
  <2> SUFFICES ASSUME Init PROVE Inductive
    OBVIOUS
  <2>1. Typed
    BY DEF Init, Typed, Calls
  <2>2. NamesPlans /\ CallsHold /\ OwnersApart
    BY DEF Init, NamesPlans, CallsHold, OwnersApart, Planning, Idle
  <2>3. OwnedIsLive /\ FailureSticks
    BY DEF Init, OwnedIsLive, FailureSticks, Idle
  <2> QED BY <2>1, <2>2, <2>3 DEF Inductive
<1>2. Inductive /\ [Next]_vars => Inductive'
  BY StepKeeps
<1> QED BY <1>1, <1>2, PTL DEF Spec

\* ValidateResolved, plan_bf16 and the cleanups of mod.rs: every call of
\* cuBLASLt, and every submission not yet settled, has a live handle and the
\* live descriptors it names, and no call that began after a failed destroy works.
THEOREM ProviderIsSound == Spec => []WorkIsSound
<1>1. Inductive => WorkIsSound
  <2> SUFFICES ASSUME Inductive PROVE WorkIsSound
    OBVIOUS
  <2> USE DEF Inductive
  <2>1. ASSUME NEW p \in DOMAIN plans, Retained(p)
        PROVE  Uses(p, Kept)
    BY <2>1, HoldersKeepHandle DEF OwnedIsLive, Uses
  <2>2. ASSUME NEW t \in Threads, call[t].op = "plan"
        PROVE  Uses(call[t].plan, SubSeq(Made, 1, call[t].made))
    <3> PICK p, m : p = call[t].plan /\ m = call[t].made
      OBVIOUS
    <3>1. call[t] # Idle /\ m \in 0 .. 5
      BY <2>2, CallFacts DEF Typed
    <3>2. handle
      BY <2>2, <3>1, HoldersKeepHandle DEF CallsHold
    <3>3. /\ DOMAIN SubSeq(Made, 1, m) = 1 .. m
          /\ \A i \in 1 .. m : SubSeq(Made, 1, m)[i] = Made[i]
      BY <3>1, MadeSubSeq
    <3>4. \A i \in 1 .. m : <<p, Made[i]>> \in live
      BY <2>2 DEF OwnedIsLive
    <3>5. Uses(p, SubSeq(Made, 1, m))
      BY <3>2, <3>3, <3>4 DEF Uses
    <3> QED BY <3>5
  <2>3. ASSUME NEW t \in Threads, call[t].op = "matmul"
        PROVE  Uses(call[t].plan, Kept)
    <3>1. call[t] # Idle
      BY <2>3, CallFacts DEF Typed
    <3>2. call[t].plan \in DOMAIN plans /\ Retained(call[t].plan)
      BY <2>3, <3>1 DEF CallsHold, NamesPlans, Retained
    <3> QED BY <2>1, <3>2
  <2>4. ASSUME NEW t \in Threads, drops[t] # <<>>
        PROVE  Head(drops[t]) \in live /\ handle
    <3>1. drops[t] \in Seq(Nat \X ToSet(Made))
      BY DEF Typed
    <3>2. 1 \in DOMAIN drops[t] /\ Head(drops[t]) = drops[t][1]
      BY <2>4, <3>1, TailFacts
    <3> QED BY <2>4, <3>1, <3>2, HoldersKeepHandle DEF OwnedIsLive
  <2>5. \A t \in Threads : call[t] # Idle => ~call[t].poisoned
    BY DEF CallsHold
  <2>6. ASSUME NEW i \in DOMAIN work PROVE Uses(work[i], Kept)
    BY <2>1, <2>6 DEF NamesPlans, Retained, ToSet
  <2> QED BY <2>2, <2>3, <2>4, <2>5, <2>6 DEF WorkIsSound
<1> QED BY <1>1, InductiveInvariant, PTL
=============================================================================
