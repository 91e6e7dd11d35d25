---------------------------- MODULE CommandQueue ----------------------------
(***************************************************************************)
(* One CommandQueue of loom-infer-cuda, the scope or completion that       *)
(* borrows it, and the CUDA stream it submits to                           *)
(* (crates/loom-infer-cuda/src/command/submission.rs and completion.rs).   *)
(*                                                                         *)
(* The host makes the calls below in any order the borrow checker allows:  *)
(* while a CommandScope or CommandCompletion lives it borrows the queue,   *)
(* and mem::forget ends the borrow without running Drop.  The stream works *)
(* at its own pace.  A driver call may fail at any time; the model relies  *)
(* on three facts only: a stream or context synchronization that succeeds  *)
(* means the stream is empty, an event that is reached means the work      *)
(* recorded before it is done, and a failed launch may have been queued.   *)
(***************************************************************************)
EXTENDS Naturals, Sequences

CONSTANTS
  Sets,         \* checked binding sets the program may create
  ForeignSets,  \* those created by another queue
  NoSet,        \* no binding set
  MaxCommands,  \* max_commands of the queue
  MaxId         \* largest u64 (a small number here): no id is issued beyond it

ASSUME CommandQueueAssumption ==
  /\ ForeignSets \subseteq Sets
  /\ NoSet \notin Sets
  /\ MaxCommands \in Nat \ {0}
  /\ MaxId \in Nat /\ MaxId > 1

VARIABLES
  nextId,    \* NEXT_ID
  poisoned,  \* queue.poisoned
  retained,  \* queue.retained_resources: one entry per recorded command
  event,     \* scope after whose commands completion_event was last recorded
  life,      \* "live", "dropped", "aborted" or "miscounted"
  handle,    \* the live CommandScope or CommandCompletion
  place,     \* who holds each binding set
  stream,    \* commands the device has not finished, oldest first
  reply,     \* what the last call returned
  tainted    \* history: some submission, fence or poll has failed

vars == <<nextId, poisoned, retained, event, life, handle, place, stream,
          reply, tainted>>

Commands == [scope : Nat, set : Sets, index : Nat]

Handles ==
  [phase : {"none", "scope", "completion"}, id : Nat, set : Sets \cup {NoSet},
   submitted : Nat, failed : BOOLEAN, recordErr : BOOLEAN, pollErr : BOOLEAN,
   mergeDue : BOOLEAN]

NoHandle ==
  [phase |-> "none", id |-> 0, set |-> NoSet, submitted |-> 0,
   failed |-> FALSE, recordErr |-> FALSE, pollErr |-> FALSE, mergeDue |-> FALSE]

TypeOK ==
  /\ nextId \in 1 .. MaxId
  /\ poisoned \in BOOLEAN
  /\ retained \in Seq(Commands)
  /\ event \in Nat
  /\ life \in {"live", "dropped", "aborted", "miscounted"}
  /\ handle \in Handles
  /\ place \in [Sets -> {"none", "host", "leased", "freed", "leaked"}]
  /\ stream \in Seq(Commands)
  /\ reply \in {"none", "ok", "err", "ready", "pending", "merge_refused"}
  /\ tainted \in BOOLEAN

\* CommandQueue::new has taken the first id.
Init ==
  /\ nextId = 2
  /\ poisoned = FALSE
  /\ retained = <<>>
  /\ event = 0
  /\ life = "live"
  /\ handle = NoHandle
  /\ place = [s \in Sets |-> "none"]
  /\ stream = <<>>
  /\ reply = "none"
  /\ tainted = FALSE

Idle == life = "live" /\ handle.phase = "none"
InScope == life = "live" /\ handle.phase = "scope" /\ ~handle.mergeDue
InCompletion == life = "live" /\ handle.phase = "completion"

\* The stream has drained: what a successful synchronization means.
Quiescent == stream = <<>>

\* completion_event has been reached: no command recorded before it is left.
\* An event that was never recorded counts as reached.
FenceReached == \A i \in DOMAIN stream : stream[i].scope > event

-----------------------------------------------------------------------------
(* Binding sets outside a scope *)

\* fresh_id(): checked_add keeps the counter in its type.
FreshIdWrapping == nextId' = nextId + 1     \* mutant: fetch_add
FreshId == nextId < MaxId /\ nextId' = nextId + 1

\* queue.bindings(): takes one id, or fails when the space is exhausted.
CreateBindings(s) ==
  /\ Idle
  /\ place[s] = "none"
  /\ \/ /\ FreshId
        /\ place' = [place EXCEPT ![s] = "host"]
        /\ reply' = "ok"
     \/ /\ nextId = MaxId
        /\ reply' = "err"
        /\ UNCHANGED <<nextId, place>>
  /\ UNCHANGED <<poisoned, retained, event, life, handle, stream, tainted>>

DropBindings(s) ==
  /\ place[s] = "host"
  /\ life # "aborted"
  /\ place' = [place EXCEPT ![s] = "freed"]
  /\ reply' = "none"
  /\ UNCHANGED <<nextId, poisoned, retained, event, life, handle, stream, tainted>>

-----------------------------------------------------------------------------
(* CommandQueue::begin *)

\* Every refusal drops the bindings passed by value.
BeginRefused(s) ==
  /\ place' = [place EXCEPT ![s] = "freed"]
  /\ reply' = "err"
  /\ UNCHANGED <<nextId, event, life, handle, retained, stream, tainted>>

\* Resources left behind by a leaked scope or completion.
LeftBehindIgnored == FALSE                  \* mutant: no check in begin
LeftBehind == retained # <<>>

Begin(s) ==
  /\ Idle
  /\ place[s] = "host"
  /\ \/ /\ poisoned \/ s \in ForeignSets
        /\ BeginRefused(s)
        /\ UNCHANGED poisoned
     \/ /\ ~poisoned /\ s \notin ForeignSets /\ LeftBehind
        /\ BeginRefused(s)
        /\ poisoned' = TRUE
     \/ /\ ~poisoned /\ s \notin ForeignSets /\ ~LeftBehind
        /\ nextId = MaxId
        /\ BeginRefused(s)
        /\ UNCHANGED poisoned
     \/ /\ ~poisoned /\ s \notin ForeignSets /\ ~LeftBehind
        /\ FreshId
        /\ handle' = [NoHandle EXCEPT !.phase = "scope", !.id = nextId, !.set = s]
        /\ place' = [place EXCEPT ![s] = "leased"]
        /\ reply' = "ok"
        /\ UNCHANGED <<poisoned, retained, event, life, stream, tainted>>

-----------------------------------------------------------------------------
(* Submission *)

\* require_command_capacity(n)
HasCapacity(n) == ~handle.failed /\ handle.submitted + n <= MaxCommands

NextCommand ==
  [scope |-> handle.id, set |-> handle.set, index |-> handle.submitted + 1]

\* record_submission: retain the function or plan of the command just handed
\* to the driver, or abort the process when the accounting is off.
RecordSubmission ==
  LET accounted == Len(retained) = handle.submitted /\ handle.submitted < MaxCommands
  IN  /\ retained' = IF accounted THEN Append(retained, NextCommand) ELSE retained
      /\ life' = IF accounted THEN life ELSE "miscounted"

\* record_cuda_submission and record_external_submission after a launch the
\* driver accepted.  merge: a second command of the same call is due.
LaunchAccepted(merge) ==
  /\ stream' = Append(stream, NextCommand)
  /\ RecordSubmission
  /\ handle' = [handle EXCEPT !.submitted = @ + 1, !.mergeDue = merge]
  /\ reply' = "ok"
  /\ UNCHANGED <<poisoned, tainted>>

\* record_failed_cuda_submission and record_failed_external_submission: the
\* driver reported an error, perhaps of earlier work, and may have queued
\* the command all the same.
LaunchFailed ==
  /\ stream' \in {stream, Append(stream, NextCommand)}
  /\ RecordSubmission
  /\ handle' = [handle EXCEPT !.submitted = @ + 1, !.failed = TRUE, !.mergeDue = FALSE]
  /\ poisoned' = TRUE
  /\ reply' = "err"
  /\ tainted' = TRUE

\* mutant: the scope remembers the failure, the queue does not
PreflightFailedUnpoisoned ==
  /\ handle' = [handle EXCEPT !.failed = TRUE]
  /\ reply' = "err"
  /\ tainted' = TRUE
  /\ UNCHANGED <<poisoned, retained, life, stream>>

\* record_preflight_driver_failure: nothing was submitted.
PreflightFailed ==
  /\ handle' = [handle EXCEPT !.failed = TRUE]
  /\ poisoned' = TRUE
  /\ reply' = "err"
  /\ tainted' = TRUE
  /\ UNCHANGED <<retained, life, stream>>

\* An operand, length, alignment or launch-contract error: nothing changes
\* but the call's own progress.
CallRefused ==
  /\ handle' = [handle EXCEPT !.mergeDue = FALSE]
  /\ reply' = IF handle.mergeDue /\ ~HasCapacity(1) THEN "merge_refused" ELSE "err"
  /\ UNCHANGED <<poisoned, retained, life, stream, tainted>>

\* enqueue_into of a plan with one command.
Enqueue ==
  /\ InScope
  /\ \/ HasCapacity(1) /\ (LaunchAccepted(FALSE) \/ LaunchFailed \/ PreflightFailed)
     \/ CallRefused
  /\ UNCHANGED <<nextId, event, place>>

\* require_command_capacity(2) of a plan with two kernels.
HasFirstCapacity == HasCapacity(1)          \* mutant
HasPairCapacity == HasCapacity(2)

\* enqueue_into of a split-K or tiled plan: room for both commands first, ...
EnqueuePair ==
  /\ InScope
  /\ \/ HasPairCapacity /\ (LaunchAccepted(TRUE) \/ LaunchFailed)
     \/ CallRefused
  /\ UNCHANGED <<nextId, event, place>>

\* ... then the partial kernel's result decides whether the merge is launched.
EnqueueMerge ==
  /\ life = "live" /\ handle.phase = "scope" /\ handle.mergeDue
  /\ \/ HasCapacity(1) /\ (LaunchAccepted(FALSE) \/ LaunchFailed)
     \/ CallRefused
  /\ UNCHANGED <<nextId, event, place>>

-----------------------------------------------------------------------------
(* The end of a scope *)

\* finish(): the fence is recorded only behind a healthy, non-empty scope.
FinishScope ==
  /\ InScope
  /\ LET fence == handle.submitted > 0 /\ ~handle.failed IN
     \/ /\ event' = IF fence THEN handle.id ELSE event
        /\ handle' = [handle EXCEPT !.phase = "completion"]
        /\ UNCHANGED tainted
     \/ /\ fence
        /\ handle' = [handle EXCEPT !.phase = "completion", !.recordErr = TRUE]
        /\ tainted' = TRUE
        /\ UNCHANGED event
  /\ reply' = "none"
  /\ UNCHANGED <<nextId, poisoned, retained, life, place, stream>>

\* The queue and its bindings after a handle has ended without a leak.
EndHandle(to) ==
  /\ handle' = NoHandle
  /\ place' = [place EXCEPT ![handle.set] = to]
  /\ retained' = <<>>

\* A dropped scope synchronizes the stream if it has submitted anything.
ScopeUndrained == TRUE                      \* mutant: no synchronization
ScopeDrained == handle.submitted > 0 => Quiescent

\* Drop for CommandScope.
DropScope ==
  /\ InScope
  /\ ScopeDrained
  /\ EndHandle("freed")
  /\ \/ /\ poisoned' = (poisoned \/ handle.failed)
        /\ UNCHANGED tainted
     \/ /\ handle.submitted > 0          \* the stream reported an error
        /\ poisoned' = TRUE
        /\ tainted' = TRUE
  /\ reply' = "none"
  /\ UNCHANGED <<nextId, event, life, stream>>

\* mem::forget of a scope or completion: Drop never runs, the bindings and
\* the retained resources stay where they are.
LeakHandle ==
  /\ InScope \/ InCompletion
  /\ handle' = NoHandle
  /\ place' = [place EXCEPT ![handle.set] = "leaked"]
  /\ reply' = "none"
  /\ UNCHANGED <<nextId, poisoned, retained, event, life, stream, tainted>>

-----------------------------------------------------------------------------
(* CommandCompletion *)

\* mutant: a failed record is forgotten, the event still holds an older fence
SuspectWithoutRecord == handle.failed \/ handle.pollErr

\* Errors after which the event says nothing about this scope.
Suspect == handle.failed \/ handle.recordErr \/ handle.pollErr

\* is_complete()
IsComplete ==
  /\ InCompletion
  /\ \/ /\ Suspect
        /\ reply' = "err"
        /\ UNCHANGED <<handle, tainted>>
     \/ /\ ~Suspect
        /\ reply' = IF handle.submitted = 0 \/ FenceReached THEN "ready" ELSE "pending"
        /\ UNCHANGED <<handle, tainted>>
     \/ /\ ~Suspect /\ handle.submitted > 0     \* the query failed
        /\ handle' = [handle EXCEPT !.pollErr = TRUE]
        /\ reply' = "err"
        /\ tainted' = TRUE
  /\ UNCHANGED <<nextId, poisoned, retained, event, life, place, stream>>

\* mutant: a failed poll is reported without waiting for the stream
SettledUnproven(ok) ==
  \/ handle.submitted = 0 /\ ok = ~handle.failed
  \/ handle.submitted > 0 /\ ~Suspect /\ ok /\ FenceReached
  \/ handle.submitted > 0 /\ ~ok /\ (Quiescent \/ handle.pollErr)

\* mutant: only the event is waited for, also when it will not be signalled
SettledByEvent(ok) ==
  \/ handle.submitted = 0 /\ ok = ~handle.failed
  \/ handle.submitted > 0 /\ ~Suspect /\ ok /\ FenceReached

\* settle() returns: ok means no failure to report.  With an earlier error,
\* or when the event reports one, quiescence comes from the stream or, if
\* that fails too, from the context.
Settled(ok) ==
  \/ handle.submitted = 0 /\ ok = ~handle.failed
  \/ handle.submitted > 0 /\ ~Suspect /\ ok /\ FenceReached
  \/ handle.submitted > 0 /\ ~ok /\ Quiescent

\* Bindings leave a completion for the caller only if nothing has failed.
PlaceRegardless(to, ok) == to               \* mutant
PlaceAfter(to, ok) == IF ok THEN to ELSE "freed"

\* wait() and Drop for CommandCompletion.
Settle(to) ==
  /\ InCompletion
  /\ \E ok \in BOOLEAN :
       /\ Settled(ok)
       /\ EndHandle(PlaceAfter(to, ok))
       /\ poisoned' = (poisoned \/ ~ok)
       /\ tainted' = (tainted \/ ~ok)
       /\ reply' = IF ok THEN "ok" ELSE "err"
  /\ UNCHANGED <<nextId, event, life, stream>>

Wait == Settle("host")
DropCompletion == Settle("freed")

\* synchronize_stream_or_abort when neither the stream nor the context can be
\* synchronized.
AbortUnproven ==
  /\ \/ InScope /\ handle.submitted > 0
     \/ InCompletion /\ handle.submitted > 0
     \/ Idle /\ LeftBehind
  /\ life' = "aborted"
  /\ UNCHANGED <<nextId, poisoned, retained, event, handle, place, stream,
                 reply, tainted>>

\* A dropped queue synchronizes if a leaked scope has left resources behind.
QueueUndrained == TRUE                      \* mutant: fields dropped at once
QueueDrained == LeftBehind => Quiescent

\* Drop for CommandQueue.
DropQueue ==
  /\ Idle
  /\ QueueDrained
  /\ retained' = <<>>
  /\ life' = "dropped"
  /\ reply' = "none"
  /\ UNCHANGED <<nextId, poisoned, event, handle, place, stream, tainted>>

-----------------------------------------------------------------------------
(* The device finishes the oldest command of the stream. *)
DeviceStep ==
  /\ life \in {"live", "dropped"}
  /\ stream # <<>>
  /\ stream' = Tail(stream)
  /\ UNCHANGED <<nextId, poisoned, retained, event, life, handle, place,
                 reply, tainted>>

Next ==
  \/ \E s \in Sets : CreateBindings(s) \/ DropBindings(s) \/ Begin(s)
  \/ Enqueue \/ EnqueuePair \/ EnqueueMerge
  \/ FinishScope \/ DropScope \/ LeakHandle
  \/ IsComplete \/ Wait \/ DropCompletion
  \/ AbortUnproven \/ DropQueue
  \/ DeviceStep

Spec == Init /\ [][Next]_vars

\* Kernels terminate, and a completion is an owned value that Rust waits for
\* or drops; the caller owes nothing else.
Fairness == WF_vars(DeviceStep) /\ WF_vars(Wait \/ DropCompletion)

FairSpec == Spec /\ Fairness
-----------------------------------------------------------------------------
(* Properties *)

\* Buffers the host holds or that were freed are never in use by a command
\* still on the stream: bindings leave a scope or completion only after
\* quiescence, whatever failed on the way (binding leases, settle and both
\* Drops).
NoHostAccessInFlight ==
  \A i \in DOMAIN stream : place[stream[i].set] \in {"leased", "leaked"}

\* The kernel function or plan of a command still on the stream is retained
\* by the queue, also after the scope was leaked and until the queue's Drop
\* has synchronized.
ResourcesOutliveWork ==
  life # "miscounted" =>
    \A i \in DOMAIN stream : \E j \in DOMAIN retained : retained[j] = stream[i]

\* record_submission never finds its accounting violated: its abort is
\* unreachable, so the process is aborted only for want of quiescence.
NeverMiscounted == life # "miscounted"

\* is_complete() answers true only when no command of this scope is on the
\* stream, although the one event is re-recorded by scope after scope and a
\* failed record leaves an older scope's fence in it.
ReadyMeansDone ==
  (InCompletion /\ reply = "ready") =>
    \A i \in DOMAIN stream : stream[i].scope # handle.id

\* A two-command plan that was admitted is never refused its merge command
\* for want of capacity: require_command_capacity(2) covers both.
PairNeverStranded == reply # "merge_refused"

\* After a failed submission, fence, poll or synchronization no scope is
\* admitted any more, also when the failing scope or completion was leaked
\* instead of dropped: the queue is poisoned, or its left-behind resources
\* poison it in begin().
NoScopeAfterFailure ==
  (handle.phase = "scope" /\ ~handle.failed) => ~tainted

\* A binding set comes back to the host from a completion only if every
\* submission, fence and poll of its scope succeeded and its work is done.
OnlyCleanBindingsReturn ==
  [][\A s \in Sets :
       place[s] = "leased" /\ place'[s] = "host" =>
         /\ ~(handle.failed \/ handle.recordErr \/ handle.pollErr)
         /\ \A i \in DOMAIN stream : stream[i].set # s]_vars

\* A completion that is waited for or dropped settles: no error path waits
\* for an event that is never reached.
CompletionSettles == InCompletion ~> ~InCompletion

-----------------------------------------------------------------------------
(* The inductive invariant behind the safety properties, in named parts. *)

Live == handle.phase # "none"

\* Exactly the set of the live handle is leased.
HandleOwnsSet ==
  /\ Live => handle.set \in Sets
  /\ \A s \in Sets : place[s] = "leased" <=> Live /\ s = handle.set

\* One retained resource per recorded command, also while a merge is due.
AccountingExact ==
  /\ Live => Len(retained) = handle.submitted /\ handle.submitted <= MaxCommands
  /\ handle.mergeDue => /\ handle.phase = "scope" /\ ~handle.failed
                        /\ handle.submitted < MaxCommands

\* While a handle lives the stream holds commands of its scope only: every
\* earlier scope was drained before the queue became free again.
StreamOfHandle ==
  Live => /\ \A i \in DOMAIN stream : /\ stream[i].scope = handle.id
                                      /\ stream[i].set = handle.set
          /\ handle.submitted = 0 => stream = <<>>

\* Errors of a completion concern submitted work, a healthy one has recorded
\* its own fence, and scopes have neither.
FenceIsOwn ==
  /\ handle.recordErr \/ handle.pollErr =>
       handle.phase = "completion" /\ handle.submitted > 0
  /\ handle.phase = "completion" /\ handle.submitted > 0
       /\ ~handle.failed /\ ~handle.recordErr => event = handle.id

\* A failure is remembered by the handle while it lives, and afterwards by
\* the queue: as poison, or as resources that begin() will find.
FailureRemembered ==
  /\ Live /\ ~Suspect => ~tainted
  /\ life = "live" /\ tainted => poisoned \/ retained # <<>>

Inductive ==
  /\ TypeOK /\ NeverMiscounted
  /\ HandleOwnsSet /\ AccountingExact /\ StreamOfHandle /\ FenceIsOwn
  /\ NoHostAccessInFlight /\ ResourcesOutliveWork
  /\ FailureRemembered /\ ReadyMeansDone

-----------------------------------------------------------------------------
(* The lifecycle implements Lease. *)

SetsOf(seq) == {seq[i].set : i \in DOMAIN seq}

LeaseOf == INSTANCE Lease WITH
  holder <- place, busy <- SetsOf(stream), kept <- SetsOf(retained)

\* Every behaviour of the queue, its errors, leaks and drops included, is a
\* behaviour of the lease the design promises.
ImplementsLease == LeaseOf!Spec
=============================================================================
