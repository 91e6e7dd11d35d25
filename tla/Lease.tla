------------------------------- MODULE Lease -------------------------------
(***************************************************************************)
(* What the command and graph lifecycles of loom-infer-cuda promise their  *)
(* caller, with queues, scopes, events, graphs and errors left out.  A     *)
(* checked binding set is held by the host, leased to a lifecycle object,  *)
(* freed, or leaked by mem::forget.  The device may use a set, and the     *)
(* functions and plans its commands run, only while nobody else can touch  *)
(* or free them.  CommandQueue and GraphExec implement this module.        *)
(***************************************************************************)

CONSTANT Sets           \* the checked binding sets

VARIABLES
  holder,   \* who owns each set
  busy,     \* sets that device work submitted earlier may still use
  kept      \* sets whose functions and plans are still loaded

leaseVars == <<holder, busy, kept>>

Holders == {"none", "host", "leased", "freed", "leaked"}

LeaseTypeOK ==
  /\ holder \in [Sets -> Holders]
  /\ busy \in SUBSET Sets
  /\ kept \in SUBSET Sets

Init ==
  /\ holder = [s \in Sets |-> "none"]
  /\ busy = {}
  /\ kept = {}

Create(s) ==
  /\ holder[s] = "none"
  /\ holder' = [holder EXCEPT ![s] = "host"]
  /\ UNCHANGED <<busy, kept>>

Acquire(s) ==
  /\ holder[s] = "host"
  /\ holder' = [holder EXCEPT ![s] = "leased"]
  /\ UNCHANGED <<busy, kept>>

\* Work for a leased set is submitted, or may have been: its resources are
\* kept from the same step on.
Use(s) ==
  /\ holder[s] = "leased"
  /\ busy' \in {busy, busy \cup {s}}
  /\ kept' = kept \cup {s}
  /\ UNCHANGED holder

Finish(s) ==
  /\ s \in busy
  /\ busy' = busy \ {s}
  /\ UNCHANGED <<holder, kept>>

Leak(s) ==
  /\ holder[s] = "leased"
  /\ holder' = [holder EXCEPT ![s] = "leaked"]
  /\ UNCHANGED <<busy, kept>>

\* A lease ends, or a set the host holds is dropped, only without device work.
Release(s, to) ==
  /\ holder[s] \in {"host", "leased"}
  /\ s \notin busy
  /\ to \in {"host", "freed"}
  /\ holder' = [holder EXCEPT ![s] = to]
  /\ kept' = kept \ {s}
  /\ UNCHANGED busy

\* Functions and plans of leaked sets go once nothing runs any more.
Unload ==
  /\ busy = {}
  /\ kept' = {}
  /\ UNCHANGED <<holder, busy>>

Next ==
  \/ \E s \in Sets :
       \/ Create(s) \/ Acquire(s) \/ Use(s) \/ Finish(s) \/ Leak(s)
       \/ \E to \in {"host", "freed"} : Release(s, to)
  \/ Unload

Spec == Init /\ [][Next]_leaseVars

\* The promise: the device never runs on memory the host can write or that
\* was freed, and never runs an unloaded function or destroyed plan.
Exclusive ==
  \A s \in busy : holder[s] \in {"leased", "leaked"} /\ s \in kept
=============================================================================
