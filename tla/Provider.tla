------------------------------ MODULE Provider ------------------------------
(***************************************************************************)
(* The cuBLASLt provider (crates/loom-infer-cuda/src/gemm/mod.rs): one     *)
(* library handle shared by plans, each with its descriptors, and one      *)
(* sticky status that the first failing destroy sets.                      *)
(*                                                                         *)
(* Threads plan, enqueue and drop concurrently.  Arcs free what nothing    *)
(* holds: the last holder of a plan destroys its descriptors one by one,   *)
(* and whoever releases the provider last destroys the handle.  A thread   *)
(* has a clone of the provider or not; a submission holds its plan until   *)
(* its scope is settled.                                                   *)
(***************************************************************************)
EXTENDS Integers, Sequences, SequencesExt

CONSTANTS
  Threads,   \* host threads
  MaxPlans,  \* bound: calls of plan_bf16
  MaxWork,   \* bound: submissions
  Statuses   \* the statuses a failing destroy reports

ASSUME ProviderAssumption == MaxPlans \in Nat /\ MaxWork \in Nat /\ 0 \notin Statuses

VARIABLES
  clones,    \* the threads that hold a clone of the provider
  plans,     \* plans[p]: the threads that hold a clone of plan p
  work,      \* plans of submissions not yet settled, by order of submission
  call,      \* call[t]: what thread t is in the middle of
  live,      \* the descriptors that cuBLASLt has not destroyed
  drops,     \* drops[t]: what t has still to destroy, in order
  handle,    \* is the library handle live
  sticky,    \* sticky_status
  failures   \* history: the statuses of all failed destroys, in order

vars == <<clones, plans, work, call, live, drops, handle, sticky, failures>>

Idle == [op |-> "idle"]
Kept == <<"matmul_desc", "a_layout", "weight_layout", "output_layout">>
Made == Append(Kept, "preference")     \* what plan_bf16 creates, in order
Library == "handle"
Descriptors(p, kinds) == [i \in DOMAIN kinds |-> <<p, kinds[i]>>]

Free(t) == call[t] = Idle /\ drops[t] = <<>>
Retained(p) == plans[p] # {} \/ p \in ToSet(work)

Init ==
  /\ clones = Threads /\ plans = <<>> /\ work = <<>>
  /\ call = [t \in Threads |-> Idle]
  /\ live = {} /\ drops = [t \in Threads |-> <<>>]
  /\ handle = TRUE /\ sticky = 0 /\ failures = <<>>
-----------------------------------------------------------------------------
(* Planning *)

\* require_healthy, then the creation of descriptors.
PlanBf16(t) ==
  /\ Free(t) /\ t \in clones
  /\ sticky = 0
  /\ Len(plans) < MaxPlans
  /\ plans' = Append(plans, {})
  /\ call' = [call EXCEPT ![t] =
       [op |-> "plan", plan |-> Len(plans) + 1, made |-> 0, poisoned |-> failures # <<>>]]
  /\ UNCHANGED <<clones, work, live, drops, handle, sticky, failures>>

CreateDescriptor(t) ==
  /\ call[t].op = "plan" /\ call[t].made < Len(Made)
  /\ live' = live \cup {<<call[t].plan, Made[call[t].made + 1]>>}
  /\ call' = [call EXCEPT ![t].made = @ + 1]
  /\ UNCHANGED <<clones, plans, work, drops, handle, sticky, failures>>

\* An error of a creation, of an attribute, of the heuristic or of its
\* workspace: locals are dropped, the newest first.
PlanFails(t) ==
  /\ call[t].op = "plan"
  /\ drops' = [drops EXCEPT ![t] =
       Reverse(Descriptors(call[t].plan, SubSeq(Made, 1, call[t].made)))]
  /\ call' = [call EXCEPT ![t] = Idle]
  /\ UNCHANGED <<clones, plans, work, live, handle, sticky, failures>>

\* Only the preference is dropped with the call; its destroy may still fail.
PlanReturned(t) ==
  /\ call[t].op = "plan" /\ call[t].made = Len(Made)
  /\ plans' = [plans EXCEPT ![call[t].plan] = {t}]
  /\ drops' = [drops EXCEPT ![t] = <<<<call[t].plan, "preference">>>>]
  /\ call' = [call EXCEPT ![t] = Idle]
  /\ UNCHANGED <<clones, work, live, handle, sticky, failures>>
-----------------------------------------------------------------------------
(* Work *)

\* validate_resolved ends with the sticky status; matmul comes after it.
ValidateResolved(t, p) ==
  /\ Free(t) /\ t \in plans[p]
  /\ sticky = 0
  /\ call' = [call EXCEPT ![t] = [op |-> "matmul", plan |-> p, poisoned |-> failures # <<>>]]
  /\ UNCHANGED <<clones, plans, work, live, drops, handle, sticky, failures>>

\* A matmul that reports an error is recorded, and retained, as well.
Matmul(t) ==
  /\ call[t].op = "matmul" /\ Len(work) < MaxWork
  /\ work' = Append(work, call[t].plan)
  /\ call' = [call EXCEPT ![t] = Idle]
  /\ UNCHANGED <<clones, plans, live, drops, handle, sticky, failures>>
-----------------------------------------------------------------------------
(* Dropping *)

\* PlanInner and then its descriptors, when its last holder lets go.
PlanDropped(t, p) ==
  drops' = [drops EXCEPT ![t] = IF Retained(p)' THEN <<>> ELSE Descriptors(p, Kept)]

DropPlan(t, p) ==
  /\ Free(t) /\ t \in plans[p]
  /\ plans' = [plans EXCEPT ![p] = @ \ {t}]
  /\ UNCHANGED work
  /\ PlanDropped(t, p)
  /\ UNCHANGED <<clones, call, live, handle, sticky, failures>>

SharePlan(t, u, p) ==
  /\ Free(t) /\ t \in plans[p]
  /\ plans' = [plans EXCEPT ![p] = @ \cup {u}]
  /\ UNCHANGED <<clones, work, call, live, drops, handle, sticky, failures>>

\* The scope of the oldest submission is settled by some thread.
SettleWork(t) ==
  /\ Free(t) /\ work # <<>>
  /\ work' = Tail(work)
  /\ UNCHANGED plans
  /\ \E p \in {Head(work)} : PlanDropped(t, p)
  /\ UNCHANGED <<clones, call, live, handle, sticky, failures>>

\* The descriptors that still exist as Rust values, each with an Arc.
Wrapped ==
  {<<p, Made[i]>> : p \in {p \in DOMAIN plans : Retained(p)}, i \in 1 .. Len(Kept)}
  \cup UNION {ToSet(drops[t]) : t \in Threads}
  \cup UNION {{<<call[t].plan, Made[i]>> : i \in 1 .. call[t].made} :
                t \in {t \in Threads : call[t].op = "plan"}}

\* mutant: descriptors have no Arc of the provider, only plans do
HeldByPlans == clones # {} \/ \E p \in DOMAIN plans : Retained(p)

\* Arc<ProviderInner>: clones, plans and every descriptor hold one.
ProviderHeld == clones # {} \/ Wrapped # {}

DropProvider(t) ==
  /\ Free(t) /\ t \in clones
  /\ clones' = clones \ {t}
  /\ UNCHANGED <<plans, work, call, live, drops, handle, sticky, failures>>

\* mutant: the status of the latest cleanup, not of the first failure
LatestStatus(status) == status

\* record_cleanup_result: compare_exchange from 0
StickyAfter(status) == IF sticky = 0 THEN status ELSE sticky

\* run_cleanup: the context may refuse to be bound, and the object is lost.
RunCleanup(destroy, lost) ==
  \/ destroy /\ sticky' = StickyAfter(0) /\ UNCHANGED failures
  \/ \E status \in Statuses :
       lost /\ sticky' = StickyAfter(status) /\ failures' = Append(failures, status)
  \/ lost /\ UNCHANGED <<sticky, failures>>

DestroyDescriptor(t) ==
  /\ drops[t] # <<>>
  /\ drops' = [drops EXCEPT ![t] = Tail(@)]
  /\ RunCleanup(live' = live \ {Head(drops[t])}, UNCHANGED live)
  /\ UNCHANGED <<clones, plans, work, call, handle>>

\* ProviderInner::drop, once
DestroyHandle ==
  /\ handle /\ ~ProviderHeld
  /\ handle' = FALSE
  /\ RunCleanup(TRUE, TRUE)
  /\ UNCHANGED <<clones, plans, work, call, live, drops>>
-----------------------------------------------------------------------------
Next ==
  \/ \E t \in Threads : \/ PlanBf16(t) \/ CreateDescriptor(t) \/ PlanFails(t) \/ PlanReturned(t)
                        \/ Matmul(t) \/ SettleWork(t) \/ DropProvider(t) \/ DestroyDescriptor(t)
  \/ \E t \in Threads, p \in DOMAIN plans :
       ValidateResolved(t, p) \/ DropPlan(t, p) \/ \E u \in Threads : SharePlan(t, u, p)
  \/ DestroyHandle

Spec == Init /\ [][Next]_vars
-----------------------------------------------------------------------------
(* Properties *)

Uses(p, kinds) == handle /\ \A i \in DOMAIN kinds : <<p, kinds[i]>> \in live

\* Every call of cuBLASLt, and every submission until it is settled, has a
\* live handle and the live descriptors it was given, however threads plan,
\* enqueue, settle and drop; descriptors are destroyed before the handle; and
\* a call that begins after a destroy has failed in any thread does no work,
\* also when later destroys succeed.
WorkIsSound ==
  /\ \A t \in Threads :
       /\ call[t].op = "plan" => Uses(call[t].plan, SubSeq(Made, 1, call[t].made))
       /\ call[t].op = "matmul" => Uses(call[t].plan, Kept)
       /\ drops[t] # <<>> => Head(drops[t]) \in live /\ handle
       /\ call[t] # Idle => ~call[t].poisoned
  /\ \A i \in DOMAIN work : Uses(work[i], Kept)
-----------------------------------------------------------------------------
(* The inductive invariant behind WorkIsSound, in named parts. *)

Calls ==
  {Idle} \cup [op : {"plan"}, plan : Nat, made : 0 .. Len(Made), poisoned : BOOLEAN]
         \cup [op : {"matmul"}, plan : Nat, poisoned : BOOLEAN]

Typed ==
  /\ clones \subseteq Threads
  /\ plans \in Seq(SUBSET Threads)
  /\ work \in Seq(Nat)
  /\ call \in [Threads -> Calls]
  /\ drops \in [Threads -> Seq(Nat \X ToSet(Made))]
  /\ failures \in Seq(Statuses)

\* Submissions, calls and destroys name plans that were made.
NamesPlans ==
  /\ \A i \in DOMAIN work : work[i] \in DOMAIN plans
  /\ \A t \in Threads :
       /\ call[t] # Idle => call[t].plan \in DOMAIN plans
       /\ \A i \in DOMAIN drops[t] : drops[t][i][1] \in DOMAIN plans

\* A thread in the middle of a call drops nothing, keeps the provider it plans
\* with, and the plan it submits; the call began before any failure.
CallsHold ==
  \A t \in Threads : call[t] # Idle =>
    /\ drops[t] = <<>> /\ ~call[t].poisoned
    /\ call[t].op = "plan" => t \in clones
    /\ call[t].op = "matmul" => t \in plans[call[t].plan]

Planning(t, p) == call[t].op = "plan" /\ call[t].plan = p

\* A descriptor has one owner: the plan being made, the plan, or one place in
\* the queue of one thread's destroys.
OwnersApart ==
  /\ \A t, u \in Threads : \A i \in DOMAIN drops[t], j \in DOMAIN drops[u] :
       drops[t][i] = drops[u][j] => t = u /\ i = j
  /\ \A t \in Threads, p \in DOMAIN plans : \A i \in DOMAIN drops[t] :
       drops[t][i][1] = p /\ Retained(p) => drops[t][i][2] = "preference"
  /\ \A t \in Threads, p \in DOMAIN plans : Planning(t, p) =>
       /\ ~Retained(p)
       /\ \A u \in Threads : /\ Planning(u, p) => u = t
                             /\ \A i \in DOMAIN drops[u] : drops[u][i][1] # p

\* Owned descriptors are live, and so is the handle while anything is owned.
OwnedIsLive ==
  /\ \A p \in DOMAIN plans : Retained(p) => \A i \in DOMAIN Kept : <<p, Kept[i]>> \in live
  /\ \A t \in Threads : \A i \in DOMAIN drops[t] : drops[t][i] \in live
  /\ \A t \in Threads : call[t].op = "plan" =>
       \A i \in 1 .. call[t].made : <<call[t].plan, Made[i]>> \in live
  /\ ProviderHeld => handle

\* The first failing destroy is never forgotten.
FailureSticks == failures # <<>> => sticky # 0

Inductive ==
  /\ Typed /\ NamesPlans /\ CallsHold /\ OwnersApart /\ OwnedIsLive /\ FailureSticks
=============================================================================
