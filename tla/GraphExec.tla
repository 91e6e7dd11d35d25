----------------------------- MODULE GraphExec -----------------------------
(***************************************************************************)
(* One fixed-address CUDA graph of loom-infer-cuda, from the one-shot      *)
(* GraphQueue through CapturedGraph and GraphExec to the destruction of    *)
(* its handles (crates/loom-infer-cuda/src/graph/mod.rs).                  *)
(*                                                                         *)
(* The host owns the object of each phase by value; a live                 *)
(* GraphLaunchCompletion borrows the GraphExec.  Any owned value may be    *)
(* leaked with mem::forget.  A driver call may fail at any time: a failed  *)
(* launch may have been queued, a failed event record leaves the event at  *)
(* its older fence, and handles that cannot be destroyed, a capture that   *)
(* cannot be ended and quiescence that cannot be proved abort the process. *)
(***************************************************************************)
EXTENDS Naturals, Sequences

CONSTANTS
  Sets,         \* checked binding sets of the graph queue
  NoSet,        \* no binding set
  MaxCommands,  \* max_commands of the queue
  MaxLaunches   \* largest launch count the counter's type holds

ASSUME GraphExecAssumption ==
  /\ NoSet \notin Sets
  /\ MaxCommands \in Nat \ {0}
  /\ MaxLaunches \in Nat

VARIABLES
  phase,      \* which object the host owns, or what its call is doing
  set,        \* the binding set captured into the graph
  place,      \* who holds each binding set
  capturing,  \* the private stream is in capture mode
  commands,   \* commands submitted to the capture
  failed,     \* submission_error of the capturing scope
  retained,   \* retained resources of the scope, then of the graph
  graph,      \* the RawGraph handle is live
  exec,       \* the RawGraphExec handle is live
  replay,     \* launches, in_flight, record_error, poll_error, poisoned
  completion, \* a GraphLaunchCompletion borrows the exec
  event,      \* launch after which completion_event was last recorded
  stream,     \* replays the device has not finished
  returning,  \* where the bindings go at the end of a teardown
  reply,      \* what the last call returned
  tainted     \* history: a launch, fence, poll or settlement has failed

captureVars == <<capturing, commands, failed>>
ownerVars == <<set, place, retained, graph, exec>>
replayVars == <<replay, completion, event, stream, tainted>>
vars == <<phase, captureVars, ownerVars, replayVars, returning, reply>>

Replays ==
  [launches : 0 .. MaxLaunches, inFlight : BOOLEAN, recordErr : BOOLEAN,
   pollErr : BOOLEAN, poisoned : BOOLEAN]

TypeOK ==
  /\ phase \in {"queue", "recording", "unwinding", "discarding", "captured", "exec",
                "launch_failed", "tearing", "gone", "aborted"}
  /\ set \in Sets \cup {NoSet}
  /\ place \in [Sets -> {"none", "host", "leased", "freed", "leaked"}]
  /\ capturing \in BOOLEAN /\ failed \in BOOLEAN
  /\ commands \in 0 .. MaxCommands /\ retained \in 0 .. MaxCommands
  /\ graph \in BOOLEAN /\ exec \in BOOLEAN
  /\ replay \in Replays /\ completion \in BOOLEAN
  /\ event \in Nat /\ stream \in Seq(Nat)
  /\ returning \in {"host", "freed"}
  /\ reply \in {"none", "ok", "err", "ready", "pending"}
  /\ tainted \in BOOLEAN

\* GraphQueue::new
Init ==
  /\ phase = "queue" /\ set = NoSet
  /\ place = [s \in Sets |-> "none"]
  /\ capturing = FALSE /\ commands = 0 /\ failed = FALSE /\ retained = 0
  /\ graph = FALSE /\ exec = FALSE
  /\ replay = [launches |-> 0, inFlight |-> FALSE, recordErr |-> FALSE,
               pollErr |-> FALSE, poisoned |-> FALSE]
  /\ completion = FALSE /\ event = 0 /\ stream = <<>>
  /\ returning = "freed" /\ reply = "none" /\ tainted = FALSE

Quiescent == stream = <<>>

\* completion_event has been reached.
FenceReached == \A i \in DOMAIN stream : stream[i] > event

Abort ==
  /\ phase' = "aborted"
  /\ UNCHANGED <<captureVars, ownerVars, replayVars, returning, reply>>

-----------------------------------------------------------------------------
(* GraphQueue: bindings and capture *)

CreateBindings(s) ==
  /\ phase = "queue" /\ place[s] = "none"
  /\ place' = [place EXCEPT ![s] = "host"]
  /\ UNCHANGED <<phase, captureVars, set, retained, graph, exec, replayVars,
                 returning, reply>>

\* Sets that were not captured are dropped at any time.
DropBindings(s) ==
  /\ phase # "aborted" /\ place[s] = "host"
  /\ place' = [place EXCEPT ![s] = "freed"]
  /\ UNCHANGED <<phase, captureVars, set, retained, graph, exec, replayVars,
                 returning, reply>>

\* capture() consumes the queue: it synchronizes the context or aborts, and
\* opens a scope and a stream capture.  Each refusal drops the bindings.
Capture(s) ==
  /\ phase = "queue" /\ place[s] = "host"
  /\ \/ /\ phase' = "recording"
        /\ set' = s
        /\ place' = [place EXCEPT ![s] = "leased"]
        /\ capturing' = TRUE
        /\ UNCHANGED reply
     \/ /\ phase' = "gone"
        /\ place' = [place EXCEPT ![s] = "freed"]
        /\ reply' = "err"
        /\ UNCHANGED <<set, capturing>>
  /\ UNCHANGED <<commands, failed, retained, graph, exec, replayVars, returning>>

\* The closure enqueues a command: captured, recorded as failed, or failed in
\* a driver check before it.  Refused calls change nothing.
RecordCommand ==
  /\ phase = "recording" /\ ~failed
  /\ \/ /\ commands < MaxCommands
        /\ commands' = commands + 1
        /\ retained' = retained + 1
        /\ failed' \in BOOLEAN
     \/ /\ failed' = TRUE
        /\ UNCHANGED <<commands, retained>>
  /\ UNCHANGED <<phase, capturing, set, place, graph, exec, replayVars, returning, reply>>

\* The closure returns and guard.finish() ends the capture; a graph that is
\* not wanted is destroyed on the spot.
FinishCapture ==
  /\ phase = "recording"
  /\ capturing' = FALSE
  /\ \E recorded \in BOOLEAN, ended \in BOOLEAN :
       IF recorded /\ ended /\ ~failed /\ commands > 0
       THEN phase' = "captured" /\ graph' = TRUE /\ reply' = "ok"
       ELSE phase' = "discarding" /\ UNCHANGED graph /\ reply' = "err"
  /\ UNCHANGED <<commands, failed, set, place, retained, exec, replayVars, returning>>

\* The closure panics: locals are dropped in reverse order of declaration,
\* the capture guard before the scope.
Panic ==
  /\ phase = "recording"
  /\ phase' = "unwinding"
  /\ UNCHANGED <<captureVars, ownerVars, replayVars, returning, reply>>

GuardDropped ==
  /\ phase = "unwinding"
  /\ capturing' = FALSE
  /\ phase' = "discarding"
  /\ UNCHANGED <<commands, failed, ownerVars, replayVars, returning, reply>>

\* mutant: the guard is declared before the scope, so the scope goes first
DiscardScopeFirst ==
  /\ phase \in {"unwinding", "discarding"}
  /\ Quiescent
  /\ retained' = 0
  /\ place' = [place EXCEPT ![set] = "freed"]
  /\ phase' = "gone"
  /\ UNCHANGED <<captureVars, set, graph, exec, replayVars, returning, reply>>

\* Drop for the CommandScope of a capture that yields no graph.
DiscardScope ==
  /\ phase = "discarding"
  /\ Quiescent
  /\ retained' = 0
  /\ place' = [place EXCEPT ![set] = "freed"]
  /\ phase' = "gone"
  /\ UNCHANGED <<captureVars, set, graph, exec, replayVars, returning, reply>>

-----------------------------------------------------------------------------
(* CapturedGraph *)

\* instantiate(): a failure destroys the graph and drops the bindings.
Instantiate ==
  /\ phase = "captured"
  /\ \/ exec' = TRUE /\ phase' = "exec" /\ reply' = "ok" /\ UNCHANGED returning
     \/ phase' = "tearing" /\ returning' = "freed" /\ reply' = "err" /\ UNCHANGED exec
  /\ UNCHANGED <<captureVars, set, place, retained, graph, replayVars>>

DropCaptured ==
  /\ phase = "captured"
  /\ phase' = "tearing" /\ returning' = "freed"
  /\ UNCHANGED <<captureVars, ownerVars, replayVars, reply>>

-----------------------------------------------------------------------------
(* GraphExec *)

\* The host holds the exec and no completion borrows it.
Owned == phase = "exec" /\ ~completion

LaunchableInFlight ==                       \* mutant: in_flight is not looked at
  ~replay.poisoned /\ replay.launches < MaxLaunches
LaunchableUncounted ==                      \* mutant: launches + 1 without checked_add
  ~replay.poisoned /\ ~replay.inFlight
Launchable == ~replay.poisoned /\ ~replay.inFlight /\ replay.launches < MaxLaunches

\* launch(): poisoned, in flight, out of counts, or no context to bind.
LaunchRefused ==
  /\ Owned
  /\ reply' = "err"
  /\ UNCHANGED <<phase, captureVars, ownerVars, replayVars, returning>>

\* launch() accepted by the driver; the fence behind it may fail.
Launch ==
  /\ Owned /\ Launchable
  /\ stream' = Append(stream, replay.launches + 1)
  /\ completion' = TRUE
  /\ \E lost \in BOOLEAN :
       /\ event' = IF lost THEN event ELSE replay.launches + 1
       /\ replay' = [replay EXCEPT !.launches = @ + 1, !.inFlight = TRUE,
                                   !.recordErr = lost, !.pollErr = FALSE]
       /\ tainted' = (tainted \/ lost)
  /\ reply' = "ok"
  /\ UNCHANGED <<phase, captureVars, ownerVars, returning>>

\* cuGraphLaunch reports an error, perhaps an earlier one: the replay may run.
LaunchFails ==
  /\ Owned /\ Launchable
  /\ stream' \in {stream, Append(stream, replay.launches + 1)}
  /\ replay' = [replay EXCEPT !.inFlight = TRUE, !.recordErr = FALSE, !.pollErr = FALSE]
  /\ tainted' = TRUE
  /\ phase' = "launch_failed"
  /\ UNCHANGED <<captureVars, ownerVars, completion, event, returning, reply>>

\* ... and launch() returns only after the stream was synchronized.
FailedLaunchReturns ==
  /\ phase = "launch_failed"
  /\ Quiescent
  /\ phase' = "exec"
  /\ replay' = [replay EXCEPT !.inFlight = FALSE, !.poisoned = TRUE]
  /\ reply' = "err"
  /\ UNCHANGED <<captureVars, ownerVars, completion, event, stream, returning, tainted>>

\* Errors after which the event says nothing about this replay.
SuspectWithoutRecord == replay.pollErr      \* mutant: the failed record is forgotten
Suspect == replay.recordErr \/ replay.pollErr

\* GraphLaunchCompletion::is_complete()
IsComplete ==
  /\ phase = "exec" /\ completion
  /\ \/ Suspect /\ reply' = "err" /\ UNCHANGED <<replay, tainted>>
     \/ /\ ~Suspect
        /\ reply' = IF FenceReached THEN "ready" ELSE "pending"
        /\ UNCHANGED <<replay, tainted>>
     \/ /\ ~Suspect                          \* the query failed
        /\ replay' = [replay EXCEPT !.pollErr = TRUE]
        /\ tainted' = TRUE
        /\ reply' = "err"
  /\ UNCHANGED <<phase, captureVars, ownerVars, completion, event, stream, returning>>

\* settle_in_flight(): the event when nothing is suspect, otherwise, and when
\* the event reports an error, the stream or the context.
SettledByEvent(ok) ==                       \* mutant: errors wait for the event
  \/ ~replay.inFlight /\ ok
  \/ replay.inFlight /\ ~Suspect /\ ok /\ FenceReached
SettledUnproven(ok) == ok                   \* mutant: nothing is waited for
Settled(ok) ==
  \/ ~replay.inFlight /\ ok
  \/ replay.inFlight /\ ~Suspect /\ ok /\ FenceReached
  \/ replay.inFlight /\ ~ok /\ Quiescent

\* mutant: a failed settlement leaves the exec usable
AfterSettleUnpoisoned(ok) ==
  [replay EXCEPT !.inFlight = FALSE, !.recordErr = FALSE, !.pollErr = FALSE]
AfterSettle(ok) ==
  [replay EXCEPT !.inFlight = FALSE, !.recordErr = FALSE, !.pollErr = FALSE,
                 !.poisoned = @ \/ ~ok]

\* wait() and Drop for GraphLaunchCompletion.
SettleCompletion ==
  /\ phase = "exec" /\ completion
  /\ \E ok \in BOOLEAN :
       /\ Settled(ok)
       /\ replay' = AfterSettle(ok)
       /\ tainted' = (tainted \/ ~ok)
       /\ reply' = IF ok THEN "ok" ELSE "err"
  /\ completion' = FALSE
  /\ UNCHANGED <<phase, captureVars, ownerVars, event, stream, returning>>

\* mem::forget of the completion: in_flight stays set.
LeakCompletion ==
  /\ phase = "exec" /\ completion
  /\ completion' = FALSE
  /\ reply' = "none"
  /\ UNCHANGED <<phase, captureVars, ownerVars, replay, event, stream, tainted, returning>>

\* into_bindings() and Drop for GraphExec settle the replay first.  The
\* bindings come back only when that succeeds.
Teardown(to) ==
  /\ Owned
  /\ \E ok \in BOOLEAN :
       /\ Settled(ok)
       /\ replay' = AfterSettle(ok)
       /\ tainted' = (tainted \/ ~ok)
       /\ returning' = IF ok THEN to ELSE "freed"
       /\ reply' = IF ok THEN "ok" ELSE "err"
  /\ phase' = "tearing"
  /\ UNCHANGED <<captureVars, ownerVars, completion, event, stream>>

IntoBindings == Teardown("host")
DropExec == Teardown("freed")

\* mem::forget of a CapturedGraph or GraphExec.
LeakGraph ==
  /\ phase = "captured" \/ Owned
  /\ place' = [place EXCEPT ![set] = "leaked"]
  /\ phase' = "gone"
  /\ UNCHANGED <<captureVars, set, retained, graph, exec, replayVars, returning, reply>>

-----------------------------------------------------------------------------
(* Teardown: exec, graph, then resources and bindings *)

DestroyExec ==
  /\ phase = "tearing" /\ exec
  /\ exec' = FALSE
  /\ UNCHANGED <<phase, captureVars, set, place, retained, graph, replayVars,
                 returning, reply>>

DestroyGraph ==
  /\ phase = "tearing" /\ ~exec /\ graph
  /\ graph' = FALSE
  /\ UNCHANGED <<phase, captureVars, set, place, retained, exec, replayVars,
                 returning, reply>>

HandlesGone == ~exec /\ ~graph
ExecGone == ~exec                           \* mutant: bindings before the graph

Release ==
  /\ phase = "tearing" /\ HandlesGone
  /\ retained' = 0
  /\ place' = [place EXCEPT ![set] = returning]
  /\ phase' = "gone"
  /\ UNCHANGED <<captureVars, set, graph, exec, replayVars, returning, reply>>

\* The process aborts when a context synchronization before capture, the end
\* of a capture, a settlement, or the destruction of a handle fails.
AbortUnproven ==
  /\ \/ phase \in {"queue", "recording", "unwinding", "launch_failed"}
     \/ phase = "discarding" /\ commands > 0
     \/ phase = "exec" /\ replay.inFlight
     \/ phase = "tearing" /\ ~HandlesGone
  /\ Abort

\* The device finishes a replay.
DeviceStep ==
  /\ phase # "aborted"
  /\ stream # <<>>
  /\ stream' = Tail(stream)
  /\ UNCHANGED <<phase, captureVars, ownerVars, replay, completion, event, tainted,
                 returning, reply>>

Next ==
  \/ \E s \in Sets : CreateBindings(s) \/ DropBindings(s) \/ Capture(s)
  \/ RecordCommand \/ FinishCapture \/ Panic \/ GuardDropped \/ DiscardScope
  \/ Instantiate \/ DropCaptured \/ LeakGraph
  \/ Launch \/ LaunchFails \/ LaunchRefused \/ FailedLaunchReturns
  \/ IsComplete \/ SettleCompletion \/ LeakCompletion
  \/ IntoBindings \/ DropExec
  \/ DestroyExec \/ DestroyGraph \/ Release
  \/ AbortUnproven \/ DeviceStep

Spec == Init /\ [][Next]_vars

\* Replays terminate, and an owned completion is waited for or dropped.
Fairness == WF_vars(DeviceStep) /\ WF_vars(SettleCompletion)

FairSpec == Spec /\ Fairness
-----------------------------------------------------------------------------
(* Properties *)

\* While the stream captures, a graph handle exists or a replay runs, the
\* fixed bindings and every captured command's function or plan are still
\* held, and so is the executable while a replay of it runs: through panics,
\* failed launches, leaks, every drop order and every abort ("aborting before
\* releasing fixed bindings or retained resources").
FixedBindingsHeld ==
  /\ capturing \/ graph \/ exec \/ ~Quiescent =>
       place[set] \in {"leased", "leaked"} /\ retained = commands
  /\ ~Quiescent => exec

\* Concurrent replay is excluded, although a completion may be leaked.
OneReplay == Len(stream) <= 1

\* is_complete() answers true only when the replay it covers is done,
\* although each replay re-records the one event.
ReadyMeansReplayed == completion /\ reply = "ready" => Quiescent

\* After a failed launch, fence, poll or settlement no replay is accepted.
NoReplayAfterFailure == [][replay'.launches # replay.launches => ~tainted]_vars

\* A completion that is waited for or dropped settles: no error path waits for
\* an event that is never signalled.
ReplaySettles == completion ~> ~completion \/ phase = "aborted"

-----------------------------------------------------------------------------
(* The inductive invariant behind the safety properties, in named parts. *)

\* The phases in which an owned object holds the fixed bindings.
Holding == {"recording", "unwinding", "discarding", "captured", "exec",
            "launch_failed", "tearing"}

\* The set of the graph stays leased to the object of the phase, together with
\* one retained resource per captured command; a leaked graph leaves it leaked.
OwnerHoldsSet ==
  /\ phase = "queue" => commands = 0 /\ retained = 0
  /\ phase \in Holding => set \in Sets /\ place[set] = "leased" /\ retained = commands
  /\ phase \in {"captured", "exec", "launch_failed"} => commands > 0
  /\ phase = "gone" /\ (exec \/ graph \/ retained # 0) =>
       set \in Sets /\ place[set] = "leaked" /\ retained = commands

\* Which handles live in which phase, up to an abort that freezes everything.
HandlesOfPhase ==
  phase # "aborted" =>
    /\ capturing => phase \in {"recording", "unwinding"}
    /\ graph => phase \in {"captured", "exec", "launch_failed", "tearing", "gone"}
    /\ exec => phase \in {"exec", "launch_failed", "tearing", "gone"}
    /\ phase \in {"exec", "launch_failed"} => exec
    /\ ~Quiescent => exec /\ phase \in {"exec", "launch_failed", "gone"}
    /\ completion => phase = "exec"

\* in_flight covers whatever the stream runs, the event holds the fence of the
\* latest launch unless an error says otherwise, and a failure that is not yet
\* settled is remembered next to in_flight, a settled one as poison.
ReplayAccounted ==
  /\ phase \in {"queue", "recording", "unwinding", "discarding", "captured"} =>
       ~replay.inFlight /\ ~tainted
  /\ phase = "exec" =>
       /\ ~replay.inFlight => Quiescent
       /\ \A i \in DOMAIN stream : stream[i] = replay.launches
       /\ replay.inFlight /\ ~Suspect => event = replay.launches
       /\ completion => replay.inFlight
       /\ tainted => replay.poisoned \/ (replay.inFlight /\ Suspect)

Inductive ==
  /\ TypeOK /\ OwnerHoldsSet /\ HandlesOfPhase /\ ReplayAccounted
  /\ FixedBindingsHeld /\ OneReplay /\ ReadyMeansReplayed

-----------------------------------------------------------------------------
(* The graph lifecycle implements Lease. *)

LeaseOf == INSTANCE Lease WITH
  holder <- place,
  busy <- IF Quiescent THEN {} ELSE {set},
  kept <- IF retained = 0 THEN {} ELSE {set}

\* Every behaviour of the graph's objects is a behaviour of the lease.
ImplementsLease == LeaseOf!Spec
=============================================================================
