-------------------------- MODULE GraphExecProofs --------------------------
(* The safety of GraphExec for any sets, capacity and launch counter, and its *)
(* refinement of Lease.                                                       *)
EXTENDS GraphExec, TLAPS

\* The stream holds at most one replay: what launching and finishing make of it.
LEMMA StreamFacts ==
  /\ <<>> \in Seq(Nat) /\ Len(<<>>) = 0 /\ DOMAIN <<>> = {}
  /\ \A n \in Nat : /\ Append(<<>>, n) \in Seq(Nat) /\ Len(Append(<<>>, n)) = 1
                    /\ DOMAIN Append(<<>>, n) = {1} /\ Append(<<>>, n)[1] = n
                    /\ Append(<<>>, n) # <<>>
  /\ \A q \in Seq(Nat) : q # <<>> /\ Len(q) <= 1 => Tail(q) = <<>>
  /\ \A q \in Seq(Nat) : q # <<>> => DOMAIN q # {}
<1>1. <<>> \in Seq(Nat) /\ Len(<<>>) = 0 /\ DOMAIN <<>> = {}
  OBVIOUS
<1>2. ASSUME NEW n \in Nat
      PROVE  /\ Append(<<>>, n) \in Seq(Nat) /\ Len(Append(<<>>, n)) = 1
             /\ DOMAIN Append(<<>>, n) = {1} /\ Append(<<>>, n)[1] = n
             /\ Append(<<>>, n) # <<>>
  OBVIOUS
<1>3. ASSUME NEW q \in Seq(Nat), q # <<>>, Len(q) <= 1 PROVE Tail(q) = <<>>
  BY <1>3
<1>4. ASSUME NEW q \in Seq(Nat), q # <<>> PROVE DOMAIN q # {}
  BY <1>4
<1> QED BY <1>1, <1>2, <1>3, <1>4

\* GraphQueue::new establishes the invariant.
LEMMA InitInductive == Init => Inductive
<1> SUFFICES ASSUME Init PROVE Inductive
  OBVIOUS
<1>1. replay \in Replays /\ ~replay.inFlight
  BY GraphExecAssumption DEF Init, Replays
<1>2. stream \in Seq(Nat) /\ Len(stream) = 0 /\ DOMAIN stream = {}
  BY StreamFacts DEF Init
<1>3. 0 \in 0 .. MaxCommands
  BY GraphExecAssumption
<1>4. TypeOK
  <2>1. replay \in Replays /\ stream \in Seq(Nat)
    BY <1>1, <1>2
  <2>2. place \in [Sets -> {"none", "host", "leased", "freed", "leaked"}]
    BY DEF Init
  <2> QED BY <1>3, <2>1, <2>2 DEF Init, TypeOK
<1> QED
  BY <1>1, <1>2, <1>4
     DEF Init, Inductive, OwnerHoldsSet, Holding, HandlesOfPhase, ReplayAccounted,
         FixedBindingsHeld, OneReplay, ReadyMeansReplayed, Quiescent

\* Whatever still needs the fixed bindings needs a set of the queue.
LEMMA HeldSet ==
  ASSUME Inductive, phase # "aborted",
         capturing \/ graph \/ exec \/ ~Quiescent \/ retained # 0
  PROVE  set \in Sets /\ place[set] \in {"leased", "leaked"} /\ retained = commands
BY DEF Inductive, OwnerHoldsSet, Holding, HandlesOfPhase, TypeOK

-----------------------------------------------------------------------------
(* GraphQueue *)

\* Sets that the graph does not hold come and go.
LEMMA HostSetsInductive ==
  ASSUME Inductive, NEW s \in Sets, CreateBindings(s) \/ DropBindings(s)
  PROVE  Inductive'
<1> USE DEF Inductive
<1>1. PICK to \in {"host", "freed"} :
        /\ place' = [place EXCEPT ![s] = to] /\ place[s] \in {"none", "host"}
        /\ phase # "aborted"
        /\ UNCHANGED <<phase, captureVars, set, retained, graph, exec, replayVars,
                       returning, reply>>
  BY DEF CreateBindings, DropBindings
<1>2. place' \in [Sets -> {"none", "host", "leased", "freed", "leaked"}]
  BY <1>1 DEF TypeOK
<1>3. \A t \in Sets : place[t] \in {"leased", "leaked"} => place'[t] = place[t]
  BY <1>1 DEF TypeOK
<1>4. TypeOK'
  BY <1>1, <1>2 DEF TypeOK, captureVars, replayVars
<1>5. OwnerHoldsSet' /\ HandlesOfPhase' /\ ReplayAccounted'
  BY <1>1, <1>3
     DEF OwnerHoldsSet, HandlesOfPhase, ReplayAccounted, Quiescent, Suspect,
         captureVars, replayVars
<1>6. FixedBindingsHeld'
  BY <1>1, <1>3, HeldSet DEF FixedBindingsHeld, Quiescent, captureVars, replayVars
<1>7. OneReplay' /\ ReadyMeansReplayed'
  BY <1>1 DEF OneReplay, ReadyMeansReplayed, Quiescent, replayVars
<1> QED BY <1>4, <1>5, <1>6, <1>7

\* capture() leases the fixed set, or drops it with the queue.
LEMMA CaptureInductive ==
  ASSUME Inductive, NEW s \in Sets, Capture(s)
  PROVE  Inductive'
<1> USE DEF Inductive
<1>1. /\ phase = "queue" /\ place[s] = "host" /\ s \in Sets
      /\ commands = 0 /\ retained = 0 /\ ~graph /\ ~exec /\ Quiescent
      /\ ~capturing /\ ~completion /\ ~replay.inFlight /\ ~tainted
      /\ UNCHANGED <<commands, failed, retained, graph, exec, replayVars, returning>>
  BY DEF Capture, OwnerHoldsSet, HandlesOfPhase, ReplayAccounted
<1>2. /\ \/ /\ phase' = "recording" /\ set' = s /\ place'[s] = "leased"
            /\ capturing' = TRUE /\ UNCHANGED reply
         \/ /\ phase' = "gone" /\ capturing' = FALSE /\ UNCHANGED set
            /\ reply' = "err"
      /\ place' \in [Sets -> {"none", "host", "leased", "freed", "leaked"}]
  BY <1>1 DEF Capture, TypeOK
<1>3. TypeOK'
  BY <1>1, <1>2 DEF TypeOK, replayVars
<1>4. OwnerHoldsSet' /\ HandlesOfPhase' /\ ReplayAccounted'
  BY <1>1, <1>2
     DEF OwnerHoldsSet, Holding, HandlesOfPhase, ReplayAccounted, Quiescent, replayVars
<1>5. FixedBindingsHeld' /\ OneReplay' /\ ReadyMeansReplayed'
  BY <1>1, <1>2
     DEF FixedBindingsHeld, OneReplay, ReadyMeansReplayed, Quiescent, replayVars
<1> QED BY <1>3, <1>4, <1>5

\* Commands are captured, the capture ends, the closure panics.
LEMMA RecordingInductive ==
  ASSUME Inductive, RecordCommand \/ FinishCapture \/ Panic \/ GuardDropped
  PROVE  Inductive'
<1> USE DEF Inductive
<1>1. /\ phase \in {"recording", "unwinding"} /\ ~graph /\ ~exec /\ Quiescent
      /\ ~completion /\ ~replay.inFlight /\ ~tainted
      /\ set \in Sets /\ place[set] = "leased" /\ retained = commands
      /\ UNCHANGED <<set, place, exec, replayVars, returning>>
  BY DEF RecordCommand, FinishCapture, Panic, GuardDropped, OwnerHoldsSet, Holding,
    HandlesOfPhase, ReplayAccounted, ownerVars
<1>2. /\ commands' \in 0 .. MaxCommands /\ retained' = commands'
      /\ failed' \in BOOLEAN /\ capturing' \in BOOLEAN /\ graph' \in BOOLEAN
      /\ reply' \in {reply, "ok", "err"}
      /\ \/ phase' \in {"recording", "unwinding"} /\ ~graph'
         \/ phase' = "captured" /\ graph' /\ ~capturing' /\ commands' > 0
         \/ phase' = "discarding" /\ ~graph' /\ ~capturing'
  <2>1. CASE RecordCommand
    <3>1. commands \in Nat /\ MaxCommands \in Nat /\ commands <= MaxCommands
      BY GraphExecAssumption DEF TypeOK
    <3>2. /\ phase' = phase /\ ~graph' /\ UNCHANGED <<capturing, graph, reply>>
          /\ failed' \in BOOLEAN /\ phase = "recording"
      BY <1>1, <2>1 DEF RecordCommand
    <3>3. commands' \in 0 .. MaxCommands /\ retained' = commands'
      BY <1>1, <2>1, <3>1 DEF RecordCommand
    <3> QED BY <3>2, <3>3 DEF TypeOK
  <2>2. CASE FinishCapture
    BY <1>1, <2>2 DEF FinishCapture, TypeOK
  <2>3. CASE Panic
    BY <1>1, <2>3 DEF Panic, TypeOK, captureVars, ownerVars
  <2>4. CASE GuardDropped
    BY <1>1, <2>4 DEF GuardDropped, TypeOK, ownerVars
  <2> QED BY <2>1, <2>2, <2>3, <2>4
<1>3. TypeOK'
  BY <1>1, <1>2 DEF TypeOK, replayVars
<1>4. OwnerHoldsSet' /\ HandlesOfPhase' /\ ReplayAccounted'
  BY <1>1, <1>2
     DEF OwnerHoldsSet, Holding, HandlesOfPhase, ReplayAccounted, Quiescent, replayVars
<1>5. FixedBindingsHeld' /\ OneReplay' /\ ReadyMeansReplayed'
  BY <1>1, <1>2
     DEF FixedBindingsHeld, OneReplay, ReadyMeansReplayed, Quiescent, replayVars
<1> QED BY <1>3, <1>4, <1>5

\* A capture without a graph gives its resources and bindings up.
LEMMA DiscardScopeInductive ==
  ASSUME Inductive, DiscardScope
  PROVE  Inductive'
<1> USE DEF Inductive
<1>1. /\ ~capturing /\ ~graph /\ ~exec /\ Quiescent /\ ~completion
      /\ phase' = "gone" /\ retained' = 0
      /\ place' \in [Sets -> {"none", "host", "leased", "freed", "leaked"}]
      /\ UNCHANGED <<captureVars, set, graph, exec, replayVars, returning, reply>>
  BY DEF DiscardScope, HandlesOfPhase, OwnerHoldsSet, Holding, TypeOK
<1>2. TypeOK'
  BY <1>1, GraphExecAssumption DEF TypeOK, captureVars, replayVars
<1>3. OwnerHoldsSet' /\ HandlesOfPhase' /\ ReplayAccounted'
  BY <1>1
     DEF OwnerHoldsSet, Holding, HandlesOfPhase, ReplayAccounted, Quiescent,
         captureVars, replayVars
<1>4. FixedBindingsHeld' /\ OneReplay' /\ ReadyMeansReplayed'
  BY <1>1
     DEF FixedBindingsHeld, OneReplay, ReadyMeansReplayed, Quiescent, captureVars, replayVars
<1> QED BY <1>2, <1>3, <1>4

-----------------------------------------------------------------------------
(* CapturedGraph *)

\* instantiate(), Drop and mem::forget of a CapturedGraph.
LEMMA CapturedInductive ==
  ASSUME Inductive, Instantiate \/ DropCaptured
  PROVE  Inductive'
<1> USE DEF Inductive
<1>1. /\ phase = "captured" /\ ~capturing /\ ~exec /\ Quiescent
      /\ ~completion /\ ~replay.inFlight /\ ~tainted
      /\ set \in Sets /\ place[set] = "leased" /\ retained = commands /\ commands > 0
      /\ UNCHANGED <<captureVars, set, place, retained, graph, replayVars>>
  BY DEF Instantiate, DropCaptured, OwnerHoldsSet, Holding, HandlesOfPhase,
    ReplayAccounted, ownerVars
<1>2. /\ \/ phase' = "exec" /\ exec' = TRUE
         \/ phase' = "tearing" /\ exec' = exec
      /\ returning' \in {"host", "freed"} /\ reply' \in {reply, "ok", "err"}
  BY DEF Instantiate, DropCaptured, TypeOK, ownerVars
<1>3. TypeOK'
  BY <1>1, <1>2 DEF TypeOK, captureVars, replayVars
<1>4. OwnerHoldsSet' /\ HandlesOfPhase'
  BY <1>1, <1>2 DEF OwnerHoldsSet, Holding, HandlesOfPhase, Quiescent, captureVars, replayVars
<1>5. ReplayAccounted'
  <2>1. DOMAIN stream = {}
    BY <1>1, StreamFacts DEF Quiescent
  <2> QED BY <1>1, <1>2, <2>1 DEF ReplayAccounted, Quiescent, replayVars
<1>6. FixedBindingsHeld' /\ OneReplay' /\ ReadyMeansReplayed'
  BY <1>1, <1>2
     DEF FixedBindingsHeld, OneReplay, ReadyMeansReplayed, Quiescent, captureVars, replayVars
<1> QED BY <1>3, <1>4, <1>5, <1>6

\* A leaked graph keeps its handles, resources and bindings for good.
LEMMA LeakGraphInductive ==
  ASSUME Inductive, LeakGraph
  PROVE  Inductive'
<1> USE DEF Inductive
<1>1. /\ phase \in {"captured", "exec"} /\ ~capturing /\ ~completion
      /\ set \in Sets /\ retained = commands /\ phase' = "gone"
      /\ UNCHANGED <<captureVars, set, retained, graph, exec, replayVars, returning, reply>>
  BY DEF LeakGraph, Owned, OwnerHoldsSet, Holding, HandlesOfPhase
<1>2. /\ place' \in [Sets -> {"none", "host", "leased", "freed", "leaked"}]
      /\ place'[set] = "leaked"
  BY <1>1 DEF LeakGraph, TypeOK
<1>3. TypeOK'
  BY <1>1, <1>2 DEF TypeOK, captureVars, replayVars
<1>4. OwnerHoldsSet' /\ HandlesOfPhase' /\ ReplayAccounted'
  BY <1>1, <1>2
     DEF OwnerHoldsSet, Holding, HandlesOfPhase, ReplayAccounted, Quiescent,
         captureVars, replayVars
<1>5. FixedBindingsHeld' /\ OneReplay' /\ ReadyMeansReplayed'
  BY <1>1, <1>2
     DEF FixedBindingsHeld, OneReplay, ReadyMeansReplayed, HandlesOfPhase, Quiescent,
         captureVars, replayVars
<1> QED BY <1>3, <1>4, <1>5

-----------------------------------------------------------------------------
(* Launch and replay *)

\* Updating the replay's books keeps their type.
LEMMA ReplayUpdates ==
  ASSUME NEW n \in 0 .. MaxLaunches,
         NEW f \in BOOLEAN, NEW e \in BOOLEAN, NEW p \in BOOLEAN, NEW q \in BOOLEAN
  PROVE  [launches |-> n, inFlight |-> f, recordErr |-> e, pollErr |-> p,
          poisoned |-> q] \in Replays
BY DEF Replays

\* A replay's books after a step, in full.
LEMMA ReplayRecord ==
  ASSUME NEW r \in Replays
  PROVE  /\ r = [launches |-> r.launches, inFlight |-> r.inFlight,
                 recordErr |-> r.recordErr, pollErr |-> r.pollErr, poisoned |-> r.poisoned]
         /\ r.launches \in 0 .. MaxLaunches /\ r.inFlight \in BOOLEAN
         /\ r.recordErr \in BOOLEAN /\ r.pollErr \in BOOLEAN /\ r.poisoned \in BOOLEAN
BY DEF Replays

\* What holds of a graph that may be launched.
LEMMA LaunchableFacts ==
  ASSUME Inductive, Owned, Launchable
  PROVE  /\ stream = <<>> /\ replay.launches + 1 \in 0 .. MaxLaunches
         /\ ~tainted /\ exec /\ ~capturing /\ ~completion
         /\ set \in Sets /\ place[set] = "leased" /\ retained = commands /\ commands > 0
         /\ replay \in Replays
<1> USE DEF Inductive, Owned, Launchable
<1>1. replay.launches \in Nat /\ MaxLaunches \in Nat /\ replay \in Replays
  BY GraphExecAssumption DEF TypeOK, Replays
<1>2. replay.launches + 1 \in 0 .. MaxLaunches
  BY <1>1
<1> QED
  BY <1>1, <1>2 DEF OwnerHoldsSet, Holding, HandlesOfPhase, ReplayAccounted, Quiescent

\* launch() accepted by the driver starts the only replay on the stream.
LEMMA LaunchInductive ==
  ASSUME Inductive, Launch
  PROVE  Inductive'
<1> USE DEF Inductive
<1> DEFINE n == replay.launches + 1
<1>1. /\ stream = <<>> /\ n \in 0 .. MaxLaunches /\ n \in Nat
      /\ ~tainted /\ exec /\ ~capturing /\ phase = "exec"
      /\ set \in Sets /\ place[set] = "leased" /\ retained = commands /\ commands > 0
      /\ UNCHANGED <<phase, captureVars, ownerVars, returning>>
      /\ completion' = TRUE /\ reply' = "ok"
  BY LaunchableFacts, GraphExecAssumption DEF Launch, Owned
<1>2. PICK lost \in BOOLEAN :
        /\ event' = IF lost THEN event ELSE n
        /\ replay' = [replay EXCEPT !.launches = @ + 1, !.inFlight = TRUE,
                                    !.recordErr = lost, !.pollErr = FALSE]
        /\ tainted' = (tainted \/ lost)
  BY DEF Launch
<1>3. replay' = [launches |-> n, inFlight |-> TRUE, recordErr |-> lost,
                 pollErr |-> FALSE, poisoned |-> replay.poisoned]
  BY <1>2 DEF TypeOK, Replays
<1>4. replay' \in Replays
  BY <1>1, <1>3, ReplayUpdates, ReplayRecord DEF TypeOK
<1>5. /\ stream' \in Seq(Nat) /\ Len(stream') = 1 /\ DOMAIN stream' = {1}
      /\ stream'[1] = n /\ stream' # <<>>
  BY <1>1, StreamFacts DEF Launch
<1>6. event' \in Nat /\ tainted' \in BOOLEAN /\ (tainted' => lost)
  BY <1>1, <1>2 DEF TypeOK
<1>7. TypeOK'
  BY <1>1, <1>4, <1>5, <1>6 DEF TypeOK, captureVars, ownerVars
<1>8. OwnerHoldsSet' /\ HandlesOfPhase'
  BY <1>1 DEF OwnerHoldsSet, HandlesOfPhase, Quiescent, captureVars, ownerVars
<1>9. ReplayAccounted'
  BY <1>1, <1>2, <1>3, <1>5, <1>6 DEF ReplayAccounted, Suspect, Quiescent
<1>10. FixedBindingsHeld' /\ OneReplay' /\ ReadyMeansReplayed'
  BY <1>1, <1>5
     DEF FixedBindingsHeld, OneReplay, ReadyMeansReplayed, Quiescent, captureVars, ownerVars
<1> QED BY <1>7, <1>8, <1>9, <1>10

\* A launch the driver reports as failed, and the synchronization behind it.
LEMMA FailedLaunchInductive ==
  ASSUME Inductive, LaunchFails \/ FailedLaunchReturns
  PROVE  Inductive'
<1> USE DEF Inductive
<1>1. CASE LaunchFails
  <2>1. /\ stream = <<>> /\ replay.launches + 1 \in Nat
        /\ exec /\ ~capturing /\ phase = "exec" /\ ~completion /\ replay \in Replays
        /\ set \in Sets /\ place[set] = "leased" /\ retained = commands /\ commands > 0
        /\ phase' = "launch_failed" /\ tainted' = TRUE
        /\ UNCHANGED <<captureVars, ownerVars, completion, event, returning, reply>>
    BY <1>1, LaunchableFacts, GraphExecAssumption DEF LaunchFails, Owned
  <2>2. replay' = [launches |-> replay.launches, inFlight |-> TRUE, recordErr |-> FALSE,
                   pollErr |-> FALSE, poisoned |-> replay.poisoned]
    BY <1>1, <2>1 DEF LaunchFails, Replays
  <2>3. replay' \in Replays
    BY <2>1, <2>2, ReplayUpdates, ReplayRecord
  <2>4. stream' \in Seq(Nat) /\ Len(stream') <= 1
    <3>1. stream' = <<>> \/ stream' = Append(<<>>, replay.launches + 1)
      BY <1>1, <2>1 DEF LaunchFails
    <3>2. CASE stream' = <<>>
      BY <3>2
    <3>3. CASE stream' = Append(<<>>, replay.launches + 1)
      BY <2>1, <3>3
    <3> QED BY <3>1, <3>2, <3>3
  <2>5. TypeOK'
    BY <2>1, <2>3, <2>4 DEF TypeOK, captureVars, ownerVars
  <2>6. OwnerHoldsSet' /\ HandlesOfPhase' /\ ReplayAccounted'
    BY <2>1
       DEF OwnerHoldsSet, Holding, HandlesOfPhase, ReplayAccounted, Quiescent,
           captureVars, ownerVars
  <2>7. FixedBindingsHeld' /\ OneReplay' /\ ReadyMeansReplayed'
    BY <2>1, <2>4
       DEF FixedBindingsHeld, OneReplay, ReadyMeansReplayed, Quiescent, captureVars, ownerVars
  <2> QED BY <2>5, <2>6, <2>7
<1>2. CASE FailedLaunchReturns
  <2>1. /\ stream = <<>> /\ phase = "launch_failed" /\ phase' = "exec" /\ replay \in Replays
        /\ exec /\ ~capturing /\ ~completion /\ reply' = "err"
        /\ set \in Sets /\ place[set] = "leased" /\ retained = commands /\ commands > 0
        /\ UNCHANGED <<captureVars, ownerVars, completion, event, stream, returning, tainted>>
    BY <1>2 DEF FailedLaunchReturns, Quiescent, OwnerHoldsSet, Holding, HandlesOfPhase, TypeOK
  <2>2. replay' = [launches |-> replay.launches, inFlight |-> FALSE,
                   recordErr |-> replay.recordErr, pollErr |-> replay.pollErr,
                   poisoned |-> TRUE]
    BY <1>2, <2>1 DEF FailedLaunchReturns, Replays
  <2>3. replay' \in Replays
    BY <2>1, <2>2, ReplayUpdates, ReplayRecord
  <2>4. DOMAIN stream' = {}
    BY <2>1, StreamFacts
  <2>5. TypeOK'
    BY <2>1, <2>3 DEF TypeOK, captureVars, ownerVars
  <2>6. OwnerHoldsSet' /\ HandlesOfPhase'
    BY <2>1 DEF OwnerHoldsSet, Holding, HandlesOfPhase, Quiescent, captureVars, ownerVars
  <2>7. ReplayAccounted'
    BY <2>1, <2>2, <2>4 DEF ReplayAccounted, Quiescent
  <2>8. FixedBindingsHeld' /\ OneReplay' /\ ReadyMeansReplayed'
    BY <2>1
       DEF FixedBindingsHeld, OneReplay, ReadyMeansReplayed, Quiescent, captureVars, ownerVars
  <2> QED BY <2>5, <2>6, <2>7, <2>8
<1> QED BY <1>1, <1>2

\* is_complete() answers true only over an idle stream.
LEMMA IsCompleteInductive ==
  ASSUME Inductive, IsComplete \/ LaunchRefused
  PROVE  Inductive'
<1> USE DEF Inductive
<1>1. /\ phase = "exec" /\ exec /\ ~capturing /\ replay \in Replays
      /\ UNCHANGED <<phase, captureVars, ownerVars, completion, event, stream, returning>>
  BY DEF IsComplete, LaunchRefused, Owned, HandlesOfPhase, TypeOK, replayVars
<1>2. /\ replay' \in Replays /\ tainted' \in BOOLEAN
      /\ \/ UNCHANGED <<replay, tainted>>
         \/ /\ completion /\ ~Suspect /\ replay'.pollErr /\ reply' = "err"
            /\ replay'.launches = replay.launches /\ replay'.inFlight = replay.inFlight
  <2>1. CASE UNCHANGED <<replay, tainted>>
    BY <1>1, <2>1 DEF TypeOK
  <2>2. CASE /\ completion /\ ~Suspect /\ tainted' = TRUE /\ reply' = "err"
             /\ replay' = [replay EXCEPT !.pollErr = TRUE]
    <3>1. replay' = [launches |-> replay.launches, inFlight |-> replay.inFlight,
                     recordErr |-> replay.recordErr, pollErr |-> TRUE,
                     poisoned |-> replay.poisoned]
      BY <1>1, <2>2 DEF Replays
    <3>2. replay' \in Replays
      BY <1>1, <3>1, ReplayUpdates, ReplayRecord
    <3> QED BY <2>2, <3>1, <3>2
  <2> QED BY <2>1, <2>2 DEF IsComplete, LaunchRefused, replayVars
<1>3. reply' \in {"err", "ready", "pending"}
  BY DEF IsComplete, LaunchRefused
<1>4. TypeOK'
  BY <1>1, <1>2, <1>3 DEF TypeOK, captureVars, ownerVars
<1>5. OwnerHoldsSet' /\ HandlesOfPhase'
  BY <1>1 DEF OwnerHoldsSet, HandlesOfPhase, Quiescent, captureVars, ownerVars
<1>6. ReplayAccounted'
  BY <1>1, <1>2 DEF ReplayAccounted, Quiescent, Suspect
<1>7. FixedBindingsHeld' /\ OneReplay'
  BY <1>1 DEF FixedBindingsHeld, OneReplay, Quiescent, captureVars, ownerVars
<1>8. ReadyMeansReplayed'
  <2>1. SUFFICES ASSUME completion, reply' = "ready" PROVE Quiescent
    BY <1>1 DEF ReadyMeansReplayed, Quiescent
  <2>2. ~Suspect /\ FenceReached
    BY <2>1 DEF IsComplete, LaunchRefused
  <2>3. \A i \in DOMAIN stream : stream[i] = event /\ stream[i] > event
    BY <1>1, <2>1, <2>2 DEF ReplayAccounted, FenceReached
  <2>4. DOMAIN stream = {}
    BY <2>3 DEF TypeOK
  <2> QED BY <2>4, StreamFacts DEF Quiescent, TypeOK
<1> QED BY <1>4, <1>5, <1>6, <1>7, <1>8

\* settle_in_flight() returns only over an idle stream, without an error only
\* when nothing failed that is not already remembered as poison.
LEMMA SettledQuiet ==
  ASSUME Inductive, phase = "exec", NEW ok \in BOOLEAN, Settled(ok)
  PROVE  /\ Quiescent
         /\ ok /\ tainted => replay.poisoned
         /\ AfterSettle(ok) \in Replays
         /\ ~AfterSettle(ok).inFlight
         /\ AfterSettle(ok).launches = replay.launches
         /\ AfterSettle(ok).poisoned <=> replay.poisoned \/ ~ok
<1> USE DEF Inductive
<1>1. replay \in Replays /\ stream \in Seq(Nat) /\ event \in Nat
  BY DEF TypeOK
<1>2. Quiescent
  <2>1. CASE ~replay.inFlight \/ Quiescent
    BY <2>1 DEF ReplayAccounted
  <2>2. CASE replay.inFlight /\ ~Suspect /\ FenceReached
    <3>1. \A i \in DOMAIN stream : stream[i] = event /\ stream[i] > event
      BY <2>2 DEF ReplayAccounted, FenceReached
    <3>2. DOMAIN stream = {}
      BY <1>1, <3>1
    <3> QED BY <1>1, <3>2, StreamFacts DEF Quiescent
  <2> QED BY <2>1, <2>2 DEF Settled
<1>3. ok /\ tainted => replay.poisoned
  BY DEF Settled, ReplayAccounted
<1> DEFINE p == replay.poisoned \/ ~ok
<1>4. p \in BOOLEAN /\ (p <=> replay.poisoned \/ ~ok)
  OBVIOUS
<1>5. AfterSettle(ok) = [replay EXCEPT !.inFlight = FALSE, !.recordErr = FALSE,
                                       !.pollErr = FALSE, !.poisoned = p]
  BY DEF AfterSettle
<1> HIDE DEF p
<1>6. AfterSettle(ok) = [launches |-> replay.launches, inFlight |-> FALSE,
                         recordErr |-> FALSE, pollErr |-> FALSE, poisoned |-> p]
  BY <1>1, <1>5 DEF Replays
<1>7. AfterSettle(ok) \in Replays
  <2>1. replay.launches \in 0 .. MaxLaunches
    BY <1>1, ReplayRecord
  <2> QED BY <1>4, <1>6, <2>1 DEF Replays
<1> QED BY <1>2, <1>3, <1>4, <1>6, <1>7

\* wait() and Drop of a completion, and its leak, which leaves in_flight set.
LEMMA EndCompletionInductive ==
  ASSUME Inductive, SettleCompletion \/ LeakCompletion
  PROVE  Inductive'
<1> USE DEF Inductive
<1>1. /\ phase = "exec" /\ exec /\ ~capturing /\ completion' = FALSE
      /\ UNCHANGED <<phase, captureVars, ownerVars, event, stream, returning>>
  BY DEF SettleCompletion, LeakCompletion, HandlesOfPhase
<1>2. /\ replay' \in Replays /\ tainted' \in BOOLEAN /\ reply' \in {"ok", "err", "none"}
      /\ \/ UNCHANGED <<replay, tainted>>
         \/ /\ Quiescent /\ ~replay'.inFlight /\ (tainted' => replay'.poisoned)
            /\ replay'.launches = replay.launches
  <2>1. CASE LeakCompletion
    BY <2>1 DEF LeakCompletion, TypeOK
  <2>2. CASE SettleCompletion
    <3>1. PICK ok \in BOOLEAN :
            /\ Settled(ok) /\ replay' = AfterSettle(ok) /\ tainted' = (tainted \/ ~ok)
            /\ reply' = IF ok THEN "ok" ELSE "err"
      BY <2>2 DEF SettleCompletion
    <3> QED BY <1>1, <3>1, SettledQuiet DEF TypeOK
  <2> QED BY <2>1, <2>2
<1>3. TypeOK'
  BY <1>1, <1>2 DEF TypeOK, captureVars, ownerVars
<1>4. OwnerHoldsSet' /\ HandlesOfPhase'
  BY <1>1 DEF OwnerHoldsSet, HandlesOfPhase, Quiescent, captureVars, ownerVars
<1>5. ReplayAccounted'
  BY <1>1, <1>2 DEF ReplayAccounted, Quiescent, Suspect
<1>6. FixedBindingsHeld' /\ OneReplay' /\ ReadyMeansReplayed'
  BY <1>1
     DEF FixedBindingsHeld, OneReplay, ReadyMeansReplayed, Quiescent, captureVars, ownerVars
<1> QED BY <1>3, <1>4, <1>5, <1>6

-----------------------------------------------------------------------------
(* Teardown, abort and the device *)

\* into_bindings() and Drop settle the replay before anything is destroyed.
LEMMA TeardownInductive ==
  ASSUME Inductive, NEW to \in {"host", "freed"}, Teardown(to)
  PROVE  Inductive'
<1> USE DEF Inductive
<1>1. PICK ok \in BOOLEAN :
        /\ Settled(ok) /\ replay' = AfterSettle(ok) /\ tainted' = (tainted \/ ~ok)
        /\ returning' = IF ok THEN to ELSE "freed"
        /\ reply' = IF ok THEN "ok" ELSE "err"
  BY DEF Teardown
<1>2. /\ phase = "exec" /\ phase' = "tearing" /\ ~completion /\ ~capturing
      /\ set \in Sets /\ place[set] = "leased" /\ retained = commands
      /\ UNCHANGED <<captureVars, ownerVars, completion, event, stream>>
  BY DEF Teardown, Owned, HandlesOfPhase, OwnerHoldsSet, Holding
<1>3. Quiescent /\ replay' \in Replays /\ tainted' \in BOOLEAN
  BY <1>1, <1>2, SettledQuiet DEF TypeOK
<1>4. TypeOK'
  BY <1>1, <1>2, <1>3 DEF TypeOK, captureVars, ownerVars
<1>5. OwnerHoldsSet' /\ HandlesOfPhase' /\ ReplayAccounted'
  BY <1>2, <1>3
     DEF OwnerHoldsSet, Holding, HandlesOfPhase, ReplayAccounted, Quiescent,
         captureVars, ownerVars
<1>6. FixedBindingsHeld' /\ OneReplay' /\ ReadyMeansReplayed'
  BY <1>2, <1>3
     DEF FixedBindingsHeld, OneReplay, ReadyMeansReplayed, Quiescent, captureVars, ownerVars
<1> QED BY <1>4, <1>5, <1>6

\* The executable goes first, then the graph, then resources and bindings.
LEMMA DestroyInductive ==
  ASSUME Inductive, DestroyExec \/ DestroyGraph \/ Release
  PROVE  Inductive'
<1> USE DEF Inductive
<1>1. /\ phase = "tearing" /\ Quiescent /\ ~completion /\ ~capturing
      /\ set \in Sets /\ place[set] = "leased" /\ retained = commands
      /\ UNCHANGED <<captureVars, set, replayVars, returning, reply>>
  BY DEF DestroyExec, DestroyGraph, Release, HandlesOfPhase, OwnerHoldsSet, Holding
<1>2. /\ \/ phase' = "tearing" /\ UNCHANGED <<place, retained>>
         \/ phase' = "gone" /\ ~graph' /\ ~exec' /\ retained' = 0
      /\ graph' \in BOOLEAN /\ exec' \in BOOLEAN
      /\ place' \in [Sets -> {"none", "host", "leased", "freed", "leaked"}]
  <2>1. CASE DestroyExec \/ DestroyGraph
    BY <2>1 DEF DestroyExec, DestroyGraph, TypeOK
  <2>2. CASE Release
    BY <1>1, <2>2 DEF Release, HandlesGone, TypeOK
  <2> QED BY <2>1, <2>2
<1>3. TypeOK'
  BY <1>1, <1>2, GraphExecAssumption DEF TypeOK, captureVars, replayVars
<1>4. OwnerHoldsSet' /\ HandlesOfPhase' /\ ReplayAccounted'
  BY <1>1, <1>2
     DEF OwnerHoldsSet, Holding, HandlesOfPhase, ReplayAccounted, Quiescent,
         captureVars, replayVars
<1>5. FixedBindingsHeld' /\ OneReplay' /\ ReadyMeansReplayed'
  BY <1>1, <1>2
     DEF FixedBindingsHeld, OneReplay, ReadyMeansReplayed, Quiescent, captureVars, replayVars
<1> QED BY <1>3, <1>4, <1>5

\* An abort freezes the process as it stands.
LEMMA AbortInductive ==
  ASSUME Inductive, AbortUnproven
  PROVE  Inductive'
<1>1. /\ phase' = "aborted"
      /\ UNCHANGED <<captureVars, ownerVars, replayVars, returning, reply>>
  BY DEF AbortUnproven, Abort
<1> QED
  BY <1>1
     DEF Inductive, TypeOK, OwnerHoldsSet, Holding, HandlesOfPhase, ReplayAccounted,
         FixedBindingsHeld, OneReplay, ReadyMeansReplayed, Quiescent,
         captureVars, ownerVars, replayVars

\* The device finishes the replay.
LEMMA DeviceStepInductive ==
  ASSUME Inductive, DeviceStep
  PROVE  Inductive'
<1> USE DEF Inductive
<1>1. /\ stream # <<>> /\ stream' = <<>> /\ phase # "aborted"
      /\ UNCHANGED <<phase, captureVars, ownerVars, replay, completion, event, tainted,
                     returning, reply>>
  BY StreamFacts DEF DeviceStep, OneReplay, TypeOK
<1>2. stream' \in Seq(Nat) /\ Len(stream') = 0 /\ DOMAIN stream' = {}
  BY <1>1, StreamFacts
<1>3. TypeOK'
  BY <1>1, <1>2 DEF TypeOK, captureVars, ownerVars
<1>4. OwnerHoldsSet' /\ HandlesOfPhase'
  BY <1>1 DEF OwnerHoldsSet, HandlesOfPhase, Quiescent, captureVars, ownerVars
<1>5. ReplayAccounted'
  BY <1>1, <1>2 DEF ReplayAccounted, Quiescent, Suspect
<1>6. FixedBindingsHeld' /\ OneReplay' /\ ReadyMeansReplayed'
  BY <1>1, <1>2
     DEF FixedBindingsHeld, OneReplay, ReadyMeansReplayed, Quiescent, captureVars, ownerVars
<1> QED BY <1>3, <1>4, <1>5, <1>6

-----------------------------------------------------------------------------
(* The theorems *)

\* Every step of the graph's objects and of the device preserves the invariant.
LEMMA NextInductive == Inductive /\ [Next]_vars => Inductive'
<1> SUFFICES ASSUME Inductive, [Next]_vars PROVE Inductive'
  OBVIOUS
<1>1. ASSUME NEW s \in Sets, CreateBindings(s) \/ DropBindings(s) PROVE Inductive'
  BY <1>1, HostSetsInductive
<1>2. ASSUME NEW s \in Sets, Capture(s) PROVE Inductive'
  BY <1>2, CaptureInductive
<1>3. CASE RecordCommand \/ FinishCapture \/ Panic \/ GuardDropped
  BY <1>3, RecordingInductive
<1>4. CASE DiscardScope
  BY <1>4, DiscardScopeInductive
<1>5. CASE Instantiate \/ DropCaptured
  BY <1>5, CapturedInductive
<1>6. CASE LeakGraph
  BY <1>6, LeakGraphInductive
<1>7. CASE Launch
  BY <1>7, LaunchInductive
<1>8. CASE LaunchFails \/ FailedLaunchReturns
  BY <1>8, FailedLaunchInductive
<1>9. CASE IsComplete \/ LaunchRefused
  BY <1>9, IsCompleteInductive
<1>10. CASE SettleCompletion \/ LeakCompletion
  BY <1>10, EndCompletionInductive
<1>11. CASE IntoBindings \/ DropExec
  BY <1>11, TeardownInductive DEF IntoBindings, DropExec
<1>12. CASE DestroyExec \/ DestroyGraph \/ Release
  BY <1>12, DestroyInductive
<1>13. CASE AbortUnproven
  BY <1>13, AbortInductive
<1>14. CASE DeviceStep
  BY <1>14, DeviceStepInductive
<1>15. CASE UNCHANGED vars
  BY <1>15
     DEF vars, captureVars, ownerVars, replayVars, Inductive, TypeOK, OwnerHoldsSet,
         HandlesOfPhase, ReplayAccounted, FixedBindingsHeld, OneReplay,
         ReadyMeansReplayed, Quiescent, Suspect
<1> QED
  BY <1>1, <1>2, <1>3, <1>4, <1>5, <1>6, <1>7, <1>8, <1>9, <1>10, <1>11, <1>12, <1>13,
     <1>14, <1>15 DEF Next

\* The invariant holds in every reachable state of every graph.
THEOREM InductiveInvariant == Spec => []Inductive
BY InitInductive, NextInductive, PTL DEF Spec

\* Type correctness: neither the command count nor the launch count leaves its
\* bound (max_commands, checked_add of launch()).
THEOREM TypeCorrect == Spec => []TypeOK
<1>1. Inductive => TypeOK
  BY DEF Inductive
<1> QED BY <1>1, InductiveInvariant, PTL

\* The fixed bindings and the retained resources outlive the capture, both
\* graph handles and every replay, and the executable its replay.
THEOREM BindingsOutliveGraph == Spec => []FixedBindingsHeld
<1>1. Inductive => FixedBindingsHeld
  BY DEF Inductive
<1> QED BY <1>1, InductiveInvariant, PTL

\* Two replays of the graph never run at once, leaked completions included.
THEOREM ReplaysExclude == Spec => []OneReplay
<1>1. Inductive => OneReplay
  BY DEF Inductive
<1> QED BY <1>1, InductiveInvariant, PTL

\* is_complete() never answers true over a running replay.
THEOREM ReadyIsReplayed == Spec => []ReadyMeansReplayed
<1>1. Inductive => ReadyMeansReplayed
  BY DEF Inductive
<1> QED BY <1>1, InductiveInvariant, PTL

\* Only an accepted launch counts, and it meets a graph without a failure.
LEMMA LaunchesWhileClean ==
  Inductive /\ [Next]_vars => (replay'.launches # replay.launches => ~tainted)
<1> SUFFICES ASSUME Inductive, [Next]_vars, ~Launch
             PROVE  replay'.launches = replay.launches
  BY LaunchableFacts DEF Launch
<1>0. replay \in Replays
  BY DEF Inductive, TypeOK
<1>1. ASSUME NEW s \in Sets, CreateBindings(s) \/ DropBindings(s) \/ Capture(s)
      PROVE  UNCHANGED replay
  BY <1>1 DEF CreateBindings, DropBindings, Capture, replayVars
<1>2. CASE RecordCommand \/ FinishCapture \/ Panic \/ GuardDropped \/ DiscardScope
  BY <1>2 DEF RecordCommand, FinishCapture, Panic, GuardDropped, DiscardScope, replayVars
<1>3. CASE Instantiate \/ DropCaptured \/ LeakGraph \/ LaunchRefused \/ LeakCompletion
  BY <1>3 DEF Instantiate, DropCaptured, LeakGraph, LaunchRefused, LeakCompletion, replayVars
<1>4. CASE LaunchFails \/ FailedLaunchReturns \/ IsComplete
  BY <1>0, <1>4 DEF LaunchFails, FailedLaunchReturns, IsComplete, Replays
<1>5. CASE SettleCompletion \/ IntoBindings \/ DropExec
  <2>1. PICK ok \in BOOLEAN : Settled(ok) /\ replay' = AfterSettle(ok) /\ phase = "exec"
    BY <1>5 DEF SettleCompletion, IntoBindings, DropExec, Teardown, Owned
  <2> QED BY <2>1, SettledQuiet
<1>6. CASE DestroyExec \/ DestroyGraph \/ Release \/ AbortUnproven \/ DeviceStep \/ UNCHANGED vars
  BY <1>6 DEF DestroyExec, DestroyGraph, Release, AbortUnproven, Abort, DeviceStep,
    vars, replayVars
<1> QED BY <1>1, <1>2, <1>3, <1>4, <1>5, <1>6 DEF Next

\* After a failed launch, fence, poll or settlement no replay is accepted
\* (poisoned and in_flight of GraphExec::launch).
THEOREM FailureStopsReplay == Spec => NoReplayAfterFailure
<1>1. Inductive /\ [Next]_vars => [replay'.launches # replay.launches => ~tainted]_vars
  BY LaunchesWhileClean
<1> QED BY <1>1, InductiveInvariant, PTL DEF Spec, NoReplayAfterFailure

-----------------------------------------------------------------------------
(* The graph implements Lease. *)

\* Steps that leave holders, the stream and the retained resources alone.
LEMMA StutterKeeps ==
  ASSUME UNCHANGED <<set, place, retained, stream>>
  PROVE  UNCHANGED LeaseOf!leaseVars
BY DEF LeaseOf!leaseVars, Quiescent

\* Sets outside the graph, and the capture of the fixed set.
LEMMA HostSetsLease ==
  ASSUME Inductive, NEW s \in Sets, CreateBindings(s) \/ DropBindings(s) \/ Capture(s)
  PROVE  LeaseOf!Next
<1>1. CASE CreateBindings(s)
  <2>1. LeaseOf!Create(s)
    BY <1>1 DEF CreateBindings, LeaseOf!Create, Quiescent, replayVars
  <2> QED BY <2>1 DEF LeaseOf!Next
<1>2. CASE DropBindings(s)
  <2>1. ~Quiescent \/ retained # 0 => s # set
    BY <1>2, HeldSet DEF DropBindings
  <2>2. LeaseOf!Release(s, "freed")
    BY <1>2, <2>1 DEF DropBindings, LeaseOf!Release, Quiescent, replayVars
  <2> QED BY <2>2 DEF LeaseOf!Next
<1>3. CASE Capture(s)
  <2>1. /\ Quiescent /\ Quiescent' /\ retained = 0 /\ retained' = 0 /\ place[s] = "host"
    BY <1>3 DEF Capture, Inductive, OwnerHoldsSet, HandlesOfPhase, Quiescent, replayVars
  <2>2. CASE place' = [place EXCEPT ![s] = "leased"]
    <3>1. LeaseOf!Acquire(s)
      BY <2>1, <2>2 DEF LeaseOf!Acquire
    <3> QED BY <3>1 DEF LeaseOf!Next
  <2>3. CASE place' = [place EXCEPT ![s] = "freed"]
    <3>1. LeaseOf!Release(s, "freed")
      BY <2>1, <2>3 DEF LeaseOf!Release
    <3> QED BY <3>1 DEF LeaseOf!Next
  <2> QED BY <1>3, <2>2, <2>3 DEF Capture
<1> QED BY <1>1, <1>2, <1>3

\* A captured command, and a launch that may have been queued, use the set.
LEMMA SubmitUses ==
  ASSUME Inductive, RecordCommand \/ Launch \/ LaunchFails
  PROVE  [LeaseOf!Next]_LeaseOf!leaseVars
<1>1. /\ set \in Sets /\ place[set] = "leased" /\ stream = <<>> /\ UNCHANGED <<set, place>>
      /\ retained \in Nat
  <2>1. retained \in Nat
    BY GraphExecAssumption DEF Inductive, TypeOK
  <2>2. CASE RecordCommand
    BY <2>1, <2>2
       DEF RecordCommand, Inductive, OwnerHoldsSet, Holding, HandlesOfPhase, Quiescent
  <2>3. CASE Launch \/ LaunchFails
    BY <2>1, <2>3, LaunchableFacts DEF Launch, LaunchFails, ownerVars
  <2> QED BY <2>2, <2>3
<1>2. CASE UNCHANGED <<retained, stream>>
  BY <1>1, <1>2, StutterKeeps
<1>3. CASE retained' # 0
  <2>1. LeaseOf!Use(set)
    BY <1>1, <1>3 DEF LeaseOf!Use, Quiescent
  <2> QED BY <1>1, <2>1 DEF LeaseOf!Next
<1>4. retained' # 0 \/ UNCHANGED <<retained, stream>>
  <2>1. CASE RecordCommand
    <3>1. retained' = retained + 1 \/ UNCHANGED retained
      BY <2>1 DEF RecordCommand
    <3> QED BY <1>1, <2>1, <3>1 DEF RecordCommand, replayVars
  <2>2. CASE Launch \/ LaunchFails
    <3>1. retained' = commands /\ commands > 0
      BY <2>2, LaunchableFacts DEF Launch, LaunchFails, ownerVars
    <3> QED BY <3>1
  <2> QED BY <2>1, <2>2
<1> QED BY <1>2, <1>3, <1>4

\* Every step of the graph's objects is a step of the lease or nothing to it.
LEMMA StepLeases ==
  ASSUME Inductive, [Next]_vars
  PROVE  [LeaseOf!Next]_LeaseOf!leaseVars
<1>1. ASSUME NEW s \in Sets, CreateBindings(s) \/ DropBindings(s) \/ Capture(s)
      PROVE  LeaseOf!Next
  BY <1>1, HostSetsLease
<1>2. CASE RecordCommand \/ Launch \/ LaunchFails
  BY <1>2, SubmitUses
<1>3. CASE FinishCapture \/ Panic \/ GuardDropped \/ Instantiate \/ DropCaptured
  <2>1. UNCHANGED <<set, place, retained, stream>>
    BY <1>3 DEF FinishCapture, Panic, GuardDropped, Instantiate, DropCaptured,
      ownerVars, replayVars
  <2> QED BY <2>1, StutterKeeps
<1>4. CASE \/ LaunchRefused \/ FailedLaunchReturns \/ IsComplete \/ SettleCompletion
           \/ LeakCompletion \/ IntoBindings \/ DropExec
  <2>1. UNCHANGED <<set, place, retained, stream>>
    BY <1>4 DEF LaunchRefused, FailedLaunchReturns, IsComplete, SettleCompletion,
      LeakCompletion, IntoBindings, DropExec, Teardown, ownerVars, replayVars
  <2> QED BY <2>1, StutterKeeps
<1>5. CASE DestroyExec \/ DestroyGraph \/ AbortUnproven \/ UNCHANGED vars
  <2>1. UNCHANGED <<set, place, retained, stream>>
    BY <1>5 DEF DestroyExec, DestroyGraph, AbortUnproven, Abort, vars, ownerVars, replayVars
  <2> QED BY <2>1, StutterKeeps
<1>6. CASE LeakGraph
  <2>1. set \in Sets /\ place[set] = "leased"
    BY <1>6 DEF LeakGraph, Owned, Inductive, OwnerHoldsSet, Holding
  <2>2. LeaseOf!Leak(set)
    BY <1>6, <2>1 DEF LeakGraph, LeaseOf!Leak, Quiescent, replayVars
  <2> QED BY <2>1, <2>2 DEF LeaseOf!Next
<1>7. CASE DiscardScope \/ Release
  <2>1. /\ set \in Sets /\ place[set] = "leased" /\ Quiescent
        /\ returning \in {"host", "freed"}
    BY <1>7 DEF DiscardScope, Release, Inductive, TypeOK, OwnerHoldsSet, Holding,
      HandlesOfPhase
  <2>2. PICK to \in {"host", "freed"} :
          /\ place' = [place EXCEPT ![set] = to] /\ retained' = 0
          /\ UNCHANGED <<set, stream>>
    BY <1>7, <2>1 DEF DiscardScope, Release, replayVars
  <2>3. LeaseOf!Release(set, to)
    BY <2>1, <2>2 DEF LeaseOf!Release, Quiescent
  <2> QED BY <2>1, <2>3 DEF LeaseOf!Next
<1>8. CASE DeviceStep
  <2>1. /\ set \in Sets /\ stream # <<>> /\ stream' = <<>>
        /\ UNCHANGED <<set, place, retained>>
    BY <1>8, HeldSet, StreamFacts
       DEF DeviceStep, Inductive, OneReplay, TypeOK, Quiescent, ownerVars
  <2>2. LeaseOf!Finish(set)
    BY <2>1 DEF LeaseOf!Finish, Quiescent
  <2> QED BY <2>1, <2>2 DEF LeaseOf!Next
<1> QED BY <1>1, <1>2, <1>3, <1>4, <1>5, <1>6, <1>7, <1>8 DEF Next

\* The graph's objects, their errors, leaks and drop orders implement the
\* lease: the same promise as the command queue's, for a captured set.
THEOREM GraphImplementsLease == Spec => ImplementsLease
<1>1. Init => LeaseOf!Init
  BY DEF Init, LeaseOf!Init, Quiescent
<1> QED
  BY <1>1, StepLeases, InductiveInvariant, PTL DEF Spec, ImplementsLease, LeaseOf!Spec
=============================================================================
