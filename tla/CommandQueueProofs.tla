------------------------- MODULE CommandQueueProofs -------------------------
(* The safety of CommandQueue for every number of sets, commands and ids. *)
EXTENDS CommandQueue, TLAPS

\* Appending to a sequence keeps its elements and adds one at the end.
LEMMA AppendFacts ==
  ASSUME NEW S, NEW q \in Seq(S), NEW x \in S
  PROVE  /\ Append(q, x) \in Seq(S)
         /\ Append(q, x) # <<>>
         /\ Len(Append(q, x)) = Len(q) + 1
         /\ DOMAIN Append(q, x) = 1 .. Len(q) + 1
         /\ DOMAIN q = 1 .. Len(q)
         /\ \A i \in DOMAIN q : Append(q, x)[i] = q[i]
         /\ Append(q, x)[Len(q) + 1] = x
OBVIOUS

\* Every element of a sequence's tail is one of its elements.
LEMMA TailFacts ==
  ASSUME NEW S, NEW q \in Seq(S), q # <<>>
  PROVE  /\ Tail(q) \in Seq(S)
         /\ \A i \in DOMAIN Tail(q) : i + 1 \in DOMAIN q /\ Tail(q)[i] = q[i + 1]
OBVIOUS

\* A sequence without indices is empty.
LEMMA EmptyFacts ==
  ASSUME NEW S, NEW q \in Seq(S)
  PROVE  /\ q = <<>> <=> DOMAIN q = {}
         /\ <<>> \in Seq(S) /\ Len(<<>>) = 0 /\ DOMAIN <<>> = {}
OBVIOUS
\* CommandQueue::new establishes the invariant.
LEMMA InitInductive == Init => Inductive
<1> SUFFICES ASSUME Init PROVE Inductive
  OBVIOUS
<1>1. TypeOK
  <2>1. NoHandle \in Handles
    BY DEF NoHandle, Handles
  <2>2. <<>> \in Seq(Commands)
    BY EmptyFacts
  <2>3. nextId \in 1 .. MaxId /\ event \in Nat
    BY CommandQueueAssumption DEF Init
  <2>4. place \in [Sets -> {"none", "host", "leased", "freed", "leaked"}]
    BY DEF Init
  <2> QED
    BY <2>1, <2>2, <2>3, <2>4 DEF Init, TypeOK
<1>2. QED
  BY <1>1 DEF Init, Inductive, NeverMiscounted, HandleOwnsSet, Live, AccountingExact,
    StreamOfHandle, FenceIsOwn, NoHostAccessInFlight, ResourcesOutliveWork,
    FailureRemembered, ReadyMeansDone, Suspect, InCompletion, NoHandle

\* With nothing retained nothing is on the stream.
LEMMA NothingLeft ==
  ASSUME Inductive, retained = <<>>
  PROVE  stream = <<>>
<1>1. stream \in Seq(Commands) /\ DOMAIN retained = {}
  BY EmptyFacts DEF Inductive, TypeOK
<1>2. DOMAIN stream = {}
  BY <1>1 DEF Inductive, ResourcesOutliveWork, NeverMiscounted
<1> QED
  BY <1>1, <1>2, EmptyFacts

-----------------------------------------------------------------------------
(* Submission *)

\* Updating a field keeps a handle a handle.
LEMMA FieldUpdates ==
  ASSUME NEW h \in Handles, NEW n \in Nat, NEW b \in BOOLEAN
  PROVE  /\ [h EXCEPT !.submitted = n] \in Handles
         /\ [h EXCEPT !.failed = b] \in Handles
         /\ [h EXCEPT !.mergeDue = b] \in Handles
         /\ [h EXCEPT !.recordErr = b] \in Handles
         /\ [h EXCEPT !.pollErr = b] \in Handles
         /\ \A p \in {"scope", "completion"} : [h EXCEPT !.phase = p] \in Handles
BY DEF Handles

\* The handle after a call that leaves all but its progress alone.
HandleAfter(submitted, failed, mergeDue) ==
  /\ handle' \in Handles /\ handle'.phase = handle.phase /\ handle'.id = handle.id
  /\ handle'.set = handle.set /\ handle'.submitted = submitted
  /\ handle'.failed = failed /\ handle'.mergeDue = mergeDue
  /\ handle'.recordErr = handle.recordErr /\ handle'.pollErr = handle.pollErr

\* A command handed to the driver with capacity left is accounted for, and
\* its failure is remembered by the handle and the queue.
LEMMA RecordedInductive ==
  ASSUME Inductive, life = "live", handle.phase = "scope", HasCapacity(1),
         NEW fails \in BOOLEAN, NEW merge \in BOOLEAN,
         merge => ~fails /\ handle.submitted + 2 <= MaxCommands,
         RecordSubmission,
         stream' \in {stream, Append(stream, NextCommand)},
         HandleAfter(handle.submitted + 1, fails, merge),
         reply' \in {"ok", "err"},
         poisoned' = (poisoned \/ fails), tainted' = (tainted \/ fails),
         UNCHANGED <<nextId, event, place>>
  PROVE  Inductive'
<1> USE DEF Inductive
<1>1. /\ NextCommand \in Commands /\ NextCommand.scope = handle.id
      /\ NextCommand.set = handle.set
  BY DEF HandleOwnsSet, Live, NextCommand, TypeOK, Commands, Handles
<1>2. /\ life' = life /\ retained' = Append(retained, NextCommand)
      /\ handle.submitted + 1 <= MaxCommands /\ ~handle.failed
      /\ Len(retained) = handle.submitted /\ handle.submitted \in Nat
  BY CommandQueueAssumption
     DEF RecordSubmission, AccountingExact, HasCapacity, Live, TypeOK, Handles
<1>3. /\ handle' \in Handles /\ handle'.phase = handle.phase /\ handle'.id = handle.id
      /\ handle'.set = handle.set /\ handle'.submitted = handle.submitted + 1
      /\ handle'.failed = fails /\ handle'.mergeDue = merge
      /\ handle'.recordErr = handle.recordErr /\ handle'.pollErr = handle.pollErr
  BY DEF HandleAfter
<1>4. /\ stream \in Seq(Commands) /\ retained \in Seq(Commands)
      /\ DOMAIN stream = 1 .. Len(stream) /\ Len(stream) \in Nat
  BY DEF TypeOK
<1>5. /\ retained' \in Seq(Commands) /\ retained' # <<>>
      /\ Len(retained') = Len(retained) + 1
      /\ \A j \in DOMAIN retained : j \in DOMAIN retained' /\ retained'[j] = retained[j]
      /\ Len(retained) + 1 \in DOMAIN retained'
      /\ retained'[Len(retained) + 1] = NextCommand
  BY <1>1, <1>2, <1>4, AppendFacts
<1>6. /\ stream' \in Seq(Commands)
      /\ \A i \in DOMAIN stream' :
           (i \in DOMAIN stream /\ stream'[i] = stream[i]) \/ stream'[i] = NextCommand
  <2>1. CASE stream' = stream
    BY <1>4, <2>1
  <2>2. CASE stream' = Append(stream, NextCommand)
    BY <1>1, <1>4, <2>2, AppendFacts
  <2> QED BY <2>1, <2>2
<1>7. TypeOK'
  BY <1>2, <1>3, <1>5, <1>6 DEF TypeOK
<1>8. HandleOwnsSet' /\ NeverMiscounted' /\ ReadyMeansDone'
  BY <1>2, <1>3 DEF HandleOwnsSet, Live, NeverMiscounted, ReadyMeansDone, InCompletion
<1>9. AccountingExact'
  BY <1>2, <1>3, <1>5, CommandQueueAssumption DEF AccountingExact, Live
<1>10. StreamOfHandle'
  BY <1>1, <1>2, <1>3, <1>6 DEF StreamOfHandle, Live
<1>11. FenceIsOwn'
  BY <1>3 DEF FenceIsOwn, Live
<1>12. NoHostAccessInFlight'
  BY <1>1, <1>6 DEF NoHostAccessInFlight, HandleOwnsSet, Live
<1>13. ResourcesOutliveWork'
  BY <1>5, <1>6 DEF ResourcesOutliveWork, NeverMiscounted
<1>14. FailureRemembered'
  BY <1>2, <1>3, <1>5 DEF FailureRemembered, Live, Suspect, TypeOK, FenceIsOwn
<1> QED
  BY <1>7, <1>8, <1>9, <1>10, <1>11, <1>12, <1>13, <1>14

\* A launch, accepted or not, preserves the invariant.
LEMMA LaunchInductive ==
  ASSUME Inductive, life = "live", handle.phase = "scope", HasCapacity(1),
         NEW merge \in BOOLEAN, merge => handle.submitted + 2 <= MaxCommands,
         LaunchAccepted(merge) \/ LaunchFailed,
         UNCHANGED <<nextId, event, place>>
  PROVE  Inductive'
<1>0. handle \in Handles /\ ~handle.failed /\ poisoned \in BOOLEAN /\ tainted \in BOOLEAN
  BY DEF HasCapacity, Inductive, TypeOK
<1>1. CASE LaunchAccepted(merge)
  <2>1. HandleAfter(handle.submitted + 1, FALSE, merge)
    <3> DEFINE counted == [handle EXCEPT !.submitted = @ + 1]
    <3>1. counted \in Handles
      BY <1>0, FieldUpdates DEF Handles
    <3>2. handle' = [counted EXCEPT !.mergeDue = merge]
      BY <1>1 DEF LaunchAccepted
    <3>3. handle' \in Handles
      BY <3>1, <3>2, FieldUpdates
    <3>4. /\ handle'.phase = handle.phase /\ handle'.id = handle.id
          /\ handle'.set = handle.set /\ handle'.submitted = handle.submitted + 1
      BY <1>0, <3>2 DEF Handles
    <3>5. /\ handle'.failed = FALSE /\ handle'.mergeDue = merge
          /\ handle'.recordErr = handle.recordErr /\ handle'.pollErr = handle.pollErr
      BY <1>0, <3>2 DEF Handles
    <3> QED BY <3>3, <3>4, <3>5 DEF HandleAfter
  <2>2. poisoned' = (poisoned \/ FALSE) /\ tainted' = (tainted \/ FALSE)
    BY <1>0, <1>1 DEF LaunchAccepted
  <2>3. RecordSubmission /\ stream' = Append(stream, NextCommand) /\ reply' = "ok"
    BY <1>1 DEF LaunchAccepted
  <2> QED BY <2>1, <2>2, <2>3, RecordedInductive
<1>2. CASE LaunchFailed
  <2>1. HandleAfter(handle.submitted + 1, TRUE, FALSE)
    <3> DEFINE counted == [handle EXCEPT !.submitted = @ + 1]
               failed == [counted EXCEPT !.failed = TRUE]
    <3>1. counted \in Handles
      BY <1>0, FieldUpdates DEF Handles
    <3>2. failed \in Handles
      BY <3>1, FieldUpdates
    <3>3. handle' = [failed EXCEPT !.mergeDue = FALSE]
      BY <1>2 DEF LaunchFailed
    <3>4. handle' \in Handles
      BY <3>2, <3>3, FieldUpdates
    <3>5. /\ handle'.phase = handle.phase /\ handle'.id = handle.id
          /\ handle'.set = handle.set /\ handle'.submitted = handle.submitted + 1
      BY <1>0, <3>3 DEF Handles
    <3>6. /\ handle'.failed = TRUE /\ handle'.mergeDue = FALSE
          /\ handle'.recordErr = handle.recordErr /\ handle'.pollErr = handle.pollErr
      BY <1>0, <3>3 DEF Handles
    <3> QED BY <3>4, <3>5, <3>6 DEF HandleAfter
  <2>2. /\ poisoned' = (poisoned \/ TRUE) /\ tainted' = (tainted \/ TRUE)
        /\ RecordSubmission /\ stream' \in {stream, Append(stream, NextCommand)}
        /\ reply' = "err"
    BY <1>2 DEF LaunchFailed
  <2> QED BY <2>1, <2>2, RecordedInductive
<1> QED BY <1>1, <1>2

\* A refused call and a failed preflight check submit nothing.
LEMMA NotLaunchedInductive ==
  ASSUME Inductive, life = "live", handle.phase = "scope",
         CallRefused \/ PreflightFailed,
         handle.mergeDue => CallRefused,
         UNCHANGED <<nextId, event, place>>
  PROVE  Inductive'
<1> USE DEF Inductive, TypeOK
<1>1. /\ handle' \in Handles /\ handle'.phase = handle.phase /\ handle'.id = handle.id
      /\ handle'.set = handle.set /\ handle'.submitted = handle.submitted
      /\ handle'.recordErr = handle.recordErr /\ handle'.pollErr = handle.pollErr
      /\ ~handle'.mergeDue
      /\ handle.failed => handle'.failed
      /\ handle'.failed \/ UNCHANGED tainted
      /\ UNCHANGED <<life, retained, stream>> /\ reply' \in {"err", "merge_refused"}
      /\ UNCHANGED <<poisoned, tainted>> \/ (poisoned' = TRUE /\ tainted' = TRUE)
  BY DEF CallRefused, PreflightFailed, AccountingExact, Handles
<1>2. TypeOK'
  BY <1>1
<1>3. HandleOwnsSet' /\ AccountingExact' /\ StreamOfHandle' /\ FenceIsOwn'
  BY <1>1 DEF HandleOwnsSet, AccountingExact, StreamOfHandle, FenceIsOwn, Live
<1>4. NoHostAccessInFlight' /\ ResourcesOutliveWork' /\ NeverMiscounted' /\ ReadyMeansDone'
  BY <1>1 DEF NoHostAccessInFlight, ResourcesOutliveWork, NeverMiscounted, ReadyMeansDone,
    InCompletion
<1>5. FailureRemembered'
  BY <1>1 DEF FailureRemembered, Live, Suspect
<1> QED BY <1>2, <1>3, <1>4, <1>5
\* enqueue_into of one- and two-command plans, and the merge in between.
LEMMA EnqueueInductive ==
  ASSUME Inductive, Enqueue \/ EnqueuePair \/ EnqueueMerge
  PROVE  Inductive'
<1>0. handle.submitted \in Nat /\ handle.mergeDue \in BOOLEAN /\ MaxCommands \in Nat
  BY CommandQueueAssumption DEF Inductive, TypeOK, Handles
<1>1. CASE Enqueue
  BY <1>0, <1>1, LaunchInductive, NotLaunchedInductive DEF Enqueue, InScope
<1>2. CASE EnqueuePair
  <2>1. CASE CallRefused
    BY <1>2, <2>1, NotLaunchedInductive DEF EnqueuePair, InScope
  <2>2. CASE HasPairCapacity /\ (LaunchAccepted(TRUE) \/ LaunchFailed)
    <3>1. HasCapacity(1) /\ handle.submitted + 2 <= MaxCommands
      BY <1>0, <2>2 DEF HasCapacity, HasPairCapacity
    <3> QED BY <1>2, <2>2, <3>1, LaunchInductive DEF EnqueuePair, InScope
  <2> QED BY <1>2, <2>1, <2>2 DEF EnqueuePair
<1>3. CASE EnqueueMerge
  BY <1>0, <1>3, LaunchInductive, NotLaunchedInductive DEF EnqueueMerge
<1> QED BY <1>1, <1>2, <1>3

-----------------------------------------------------------------------------
(* The end of a scope and of a completion *)

\* finish() preserves the invariant.
LEMMA FinishScopeInductive ==
  ASSUME Inductive, FinishScope
  PROVE  Inductive'
<1> USE DEF Inductive
<1>1. handle \in Handles /\ handle.submitted \in Nat /\ handle.failed \in BOOLEAN
  BY DEF TypeOK, Handles
<1>2. /\ handle' \in Handles /\ handle'.phase = "completion" /\ handle'.id = handle.id
      /\ handle'.set = handle.set /\ handle'.submitted = handle.submitted
      /\ handle'.failed = handle.failed /\ ~handle'.mergeDue
      /\ handle'.pollErr = handle.pollErr
  <2> DEFINE finished == [handle EXCEPT !.phase = "completion"]
  <2>1. finished \in Handles
    BY <1>1, FieldUpdates
  <2>2. CASE handle' = finished
    BY <1>1, <2>1, <2>2 DEF FinishScope, InScope, Handles
  <2>3. CASE handle' = [finished EXCEPT !.recordErr = TRUE]
    <3>1. handle' \in Handles
      BY <2>1, <2>3, FieldUpdates
    <3> QED BY <1>1, <2>3, <3>1 DEF FinishScope, InScope, Handles
  <2> QED BY <2>2, <2>3 DEF FinishScope
<1>3. /\ handle.phase = "scope" /\ life = "live"
      /\ ~handle.recordErr /\ ~handle.pollErr
      /\ UNCHANGED <<nextId, poisoned, retained, life, place, stream>> /\ reply' = "none"
  BY DEF FinishScope, InScope, FenceIsOwn
<1>4. \/ /\ handle'.recordErr = handle.recordErr /\ UNCHANGED tainted
         /\ event' = IF handle.submitted > 0 /\ ~handle.failed THEN handle.id ELSE event
      \/ /\ handle'.recordErr = TRUE /\ tainted' = TRUE /\ UNCHANGED event
         /\ handle.submitted > 0
  <2>1. CASE handle' = [handle EXCEPT !.phase = "completion"] /\ UNCHANGED tainted
    BY <1>1, <2>1 DEF FinishScope, Handles
  <2>2. CASE handle' = [handle EXCEPT !.phase = "completion", !.recordErr = TRUE]
    BY <1>1, <2>2 DEF FinishScope, Handles
  <2> QED BY <2>1, <2>2 DEF FinishScope
<1>5. TypeOK'
  BY <1>1, <1>2, <1>3, <1>4 DEF TypeOK, Handles
<1>6. HandleOwnsSet' /\ AccountingExact' /\ StreamOfHandle'
  BY <1>2, <1>3 DEF HandleOwnsSet, AccountingExact, StreamOfHandle, Live
<1>7. NoHostAccessInFlight' /\ ResourcesOutliveWork' /\ NeverMiscounted' /\ ReadyMeansDone'
  BY <1>3 DEF NoHostAccessInFlight, ResourcesOutliveWork, NeverMiscounted, ReadyMeansDone
<1>8. FenceIsOwn'
  BY <1>2, <1>3, <1>4 DEF FenceIsOwn
<1>9. FailureRemembered'
  <2>1. Live /\ Live'
    BY <1>2, <1>3 DEF Live
  <2>2. tainted /\ ~Suspect => FALSE
    BY <2>1 DEF FailureRemembered
  <2>3. handle.submitted > 0 => retained # <<>>
    BY <2>1, EmptyFacts DEF AccountingExact, TypeOK
  <2>4. Suspect' \/ ~tainted'
    BY <1>2, <1>3, <1>4, <2>2 DEF Suspect
  <2> QED BY <1>3, <1>4, <2>3, <2>4 DEF FailureRemembered
<1> QED BY <1>5, <1>6, <1>7, <1>8, <1>9

\* A handle that ends over an empty stream leaves the invariant.
LEMMA EndHandleInductive ==
  ASSUME Inductive, life = "live", Live, stream = <<>>,
         NEW to \in {"host", "freed"}, EndHandle(to),
         reply' \in {"none", "ok", "err"},
         poisoned' \in BOOLEAN, tainted' \in BOOLEAN, tainted' => poisoned',
         UNCHANGED <<nextId, event, life, stream>>
  PROVE  Inductive'
<1> USE DEF Inductive
<1>1. /\ handle' \in Handles /\ handle' = NoHandle /\ handle'.phase = "none"
      /\ ~handle'.mergeDue /\ ~handle'.recordErr /\ ~handle'.pollErr
  BY DEF EndHandle, NoHandle, Handles
<1>2. retained' = <<>> /\ retained' \in Seq(Commands) /\ DOMAIN stream' = {}
  BY EmptyFacts DEF EndHandle
<1>3. /\ place' \in [Sets -> {"none", "host", "leased", "freed", "leaked"}]
      /\ \A s \in Sets : place'[s] # "leased"
  BY DEF EndHandle, TypeOK, HandleOwnsSet
<1>4. TypeOK'
  BY <1>1, <1>2, <1>3 DEF TypeOK
<1>5. HandleOwnsSet' /\ AccountingExact' /\ StreamOfHandle' /\ FenceIsOwn'
  BY <1>1, <1>3 DEF HandleOwnsSet, AccountingExact, StreamOfHandle, FenceIsOwn, Live
<1>6. NoHostAccessInFlight' /\ ResourcesOutliveWork' /\ NeverMiscounted' /\ ReadyMeansDone'
  BY <1>1, <1>2
     DEF NoHostAccessInFlight, ResourcesOutliveWork, NeverMiscounted, ReadyMeansDone,
         InCompletion
<1>7. FailureRemembered'
  BY <1>1 DEF FailureRemembered, Live
<1> QED BY <1>4, <1>5, <1>6, <1>7

\* Drop for CommandScope preserves the invariant.
LEMMA DropScopeInductive ==
  ASSUME Inductive, DropScope
  PROVE  Inductive'
<1>1. life = "live" /\ Live /\ EndHandle("freed")
  BY DEF DropScope, InScope, Live
<1>2. stream = <<>>
  BY <1>1 DEF DropScope, ScopeDrained, Quiescent, Inductive, StreamOfHandle, TypeOK, Handles
<1>3. tainted => handle.failed
  BY <1>1 DEF Inductive, FailureRemembered, Suspect, FenceIsOwn, DropScope, InScope
<1>4. poisoned' \in BOOLEAN /\ tainted' \in BOOLEAN /\ (tainted' => poisoned')
  <2>1. poisoned \in BOOLEAN /\ tainted \in BOOLEAN /\ handle.failed \in BOOLEAN
    BY DEF Inductive, TypeOK, Handles
  <2>2. CASE poisoned' = (poisoned \/ handle.failed) /\ tainted' = tainted
    BY <1>3, <2>1, <2>2, Zenon
  <2>3. CASE poisoned' = TRUE /\ tainted' = TRUE
    BY <2>3
  <2> QED BY <2>2, <2>3 DEF DropScope
<1> QED
  BY <1>1, <1>2, <1>4, EndHandleInductive DEF DropScope

\* A completion has settled only over an empty stream, also when it trusts
\* the event: the event holds the fence of this very scope.
LEMMA SettledDrained ==
  ASSUME Inductive, InCompletion, NEW ok \in BOOLEAN, Settled(ok)
  PROVE  /\ stream = <<>>
         /\ ok => ~Suspect
<1> USE DEF Inductive
<1>1. Live /\ handle \in Handles /\ stream \in Seq(Commands)
  BY DEF InCompletion, Live, TypeOK
<1>2. CASE handle.submitted = 0 /\ ok = ~handle.failed
  <2>1. ~handle.recordErr /\ ~handle.pollErr
    BY <1>1, <1>2 DEF FenceIsOwn
  <2> QED BY <1>1, <1>2, <2>1 DEF StreamOfHandle, Suspect
<1>3. CASE handle.submitted > 0 /\ ~Suspect /\ ok /\ FenceReached
  <2>1. event = handle.id
    BY <1>3 DEF FenceIsOwn, InCompletion, Suspect
  <2>2. \A i \in DOMAIN stream : stream[i].scope = handle.id /\ stream[i].scope > event
    BY <1>1, <1>3 DEF StreamOfHandle, FenceReached
  <2>3. handle.id \in Nat
    BY <1>1 DEF Handles
  <2>4. DOMAIN stream = {}
    <3>1. \A n \in Nat : ~(n > n)
      OBVIOUS
    <3>2. SUFFICES ASSUME NEW i \in DOMAIN stream PROVE FALSE
      OBVIOUS
    <3>3. handle.id > handle.id
      BY <2>1, <2>2
    <3> QED BY <2>3, <3>1, <3>3
  <2> QED BY <1>1, <1>3, <2>4, EmptyFacts
<1>4. CASE handle.submitted > 0 /\ ~ok /\ Quiescent
  BY <1>4 DEF Quiescent
<1> QED BY <1>2, <1>3, <1>4 DEF Settled

\* wait() and Drop for CommandCompletion preserve the invariant.
LEMMA SettleInductive ==
  ASSUME Inductive, NEW to \in {"host", "freed"}, Settle(to)
  PROVE  Inductive'
<1>1. PICK ok \in BOOLEAN :
        /\ Settled(ok)
        /\ EndHandle(PlaceAfter(to, ok))
        /\ poisoned' = (poisoned \/ ~ok)
        /\ tainted' = (tainted \/ ~ok)
        /\ reply' = IF ok THEN "ok" ELSE "err"
  BY DEF Settle
<1>2. life = "live" /\ Live /\ InCompletion
  BY DEF Settle, InCompletion, Live
<1>3. stream = <<>> /\ (ok => ~Suspect)
  BY <1>1, <1>2, SettledDrained
<1>4. PlaceAfter(to, ok) \in {"host", "freed"}
  BY DEF PlaceAfter
<1>5. tainted /\ ok => FALSE
  BY <1>2, <1>3 DEF Inductive, FailureRemembered
<1>6. poisoned \in BOOLEAN /\ tainted \in BOOLEAN
  BY DEF Inductive, TypeOK
<1>7. poisoned' \in BOOLEAN /\ tainted' \in BOOLEAN /\ (tainted' => poisoned')
  BY <1>1, <1>5, <1>6
<1>8. reply' \in {"none", "ok", "err"} /\ UNCHANGED <<nextId, event, life, stream>>
  BY <1>1 DEF Settle
<1> QED
  BY <1>1, <1>2, <1>3, <1>4, <1>7, <1>8, EndHandleInductive

\* mem::forget of a handle preserves the invariant: what the stream still
\* runs stays leaked and retained.
LEMMA LeakHandleInductive ==
  ASSUME Inductive, LeakHandle
  PROVE  Inductive'
<1> USE DEF Inductive
<1>1. /\ Live /\ life = "live" /\ reply' = "none"
      /\ UNCHANGED <<nextId, poisoned, retained, event, life, stream, tainted>>
  BY DEF LeakHandle, InScope, InCompletion, Live
<1>2. /\ handle' \in Handles /\ handle'.phase = "none"
      /\ ~handle'.mergeDue /\ ~handle'.recordErr /\ ~handle'.pollErr
  BY DEF LeakHandle, NoHandle, Handles
<1>3. /\ place' \in [Sets -> {"none", "host", "leased", "freed", "leaked"}]
      /\ place'[handle.set] = "leaked"
      /\ \A s \in Sets : place'[s] # "leased"
      /\ \A s \in Sets \ {handle.set} : place'[s] = place[s]
  BY <1>1 DEF LeakHandle, TypeOK, HandleOwnsSet
<1>4. TypeOK'
  BY <1>1, <1>2, <1>3 DEF TypeOK
<1>5. HandleOwnsSet' /\ AccountingExact' /\ StreamOfHandle' /\ FenceIsOwn'
  BY <1>2, <1>3 DEF HandleOwnsSet, AccountingExact, StreamOfHandle, FenceIsOwn, Live
<1>6. NoHostAccessInFlight'
  BY <1>1, <1>3 DEF NoHostAccessInFlight, StreamOfHandle
<1>7. ResourcesOutliveWork' /\ NeverMiscounted' /\ ReadyMeansDone'
  BY <1>1, <1>2 DEF ResourcesOutliveWork, NeverMiscounted, ReadyMeansDone, InCompletion
<1>8. FailureRemembered'
  BY <1>1, <1>2 DEF FailureRemembered, Live
<1> QED BY <1>4, <1>5, <1>6, <1>7, <1>8
\* is_complete() preserves the invariant; "ready" is answered over a fence of
\* this scope only.
LEMMA IsCompleteInductive ==
  ASSUME Inductive, IsComplete
  PROVE  Inductive'
<1> USE DEF Inductive
<1>1. /\ InCompletion /\ Live /\ handle.phase = "completion" /\ life = "live"
      /\ handle \in Handles
      /\ UNCHANGED <<nextId, poisoned, retained, event, life, place, stream>>
  BY DEF IsComplete, InCompletion, Live, TypeOK
<1>2. /\ handle' \in Handles /\ handle'.phase = handle.phase /\ handle'.id = handle.id
      /\ handle'.set = handle.set /\ handle'.submitted = handle.submitted
      /\ handle'.failed = handle.failed /\ handle'.mergeDue = handle.mergeDue
      /\ handle'.recordErr = handle.recordErr
  <2>1. CASE UNCHANGED handle
    BY <1>1, <2>1
  <2>2. CASE handle' = [handle EXCEPT !.pollErr = TRUE]
    <3>1. handle' \in Handles
      BY <1>1, <2>2, FieldUpdates
    <3> QED BY <1>1, <2>2, <3>1 DEF Handles
  <2> QED BY <2>1, <2>2 DEF IsComplete
<1>3. \/ UNCHANGED <<handle, tainted>>
      \/ handle'.pollErr = TRUE /\ tainted' = TRUE /\ handle.submitted > 0
  BY <1>1 DEF IsComplete, Handles
<1>4. tainted' \in BOOLEAN /\ reply' \in {"err", "ready", "pending"}
  BY DEF IsComplete, TypeOK
<1>5. TypeOK'
  BY <1>1, <1>2, <1>4 DEF TypeOK
<1>6. HandleOwnsSet' /\ AccountingExact' /\ StreamOfHandle'
  BY <1>1, <1>2 DEF HandleOwnsSet, AccountingExact, StreamOfHandle, Live
<1>7. NoHostAccessInFlight' /\ ResourcesOutliveWork' /\ NeverMiscounted'
  BY <1>1 DEF NoHostAccessInFlight, ResourcesOutliveWork, NeverMiscounted
<1>8. FenceIsOwn'
  BY <1>1, <1>2, <1>3 DEF FenceIsOwn
<1>9. FailureRemembered'
  <2>1. handle.submitted > 0 => retained # <<>>
    BY <1>1, EmptyFacts DEF AccountingExact, TypeOK
  <2>2. CASE UNCHANGED <<handle, tainted>>
    BY <1>1, <2>2 DEF FailureRemembered, Live, Suspect
  <2>3. CASE handle'.pollErr = TRUE /\ handle.submitted > 0
    BY <1>1, <2>1, <2>3 DEF FailureRemembered, Live, Suspect
  <2> QED BY <1>3, <2>2, <2>3
<1>10. ReadyMeansDone'
  <2>1. SUFFICES ASSUME reply' = "ready"
                 PROVE  \A i \in DOMAIN stream : stream[i].scope # handle.id
    BY <1>1, <1>2 DEF ReadyMeansDone
  <2>2. ~Suspect /\ (handle.submitted = 0 \/ FenceReached)
    BY <2>1 DEF IsComplete
  <2>3. CASE handle.submitted = 0
    BY <1>1, <2>3, EmptyFacts DEF StreamOfHandle, TypeOK
  <2>4. CASE handle.submitted > 0 /\ FenceReached
    <3>1. Settled(TRUE)
      BY <2>2, <2>4 DEF Settled
    <3>2. stream = <<>>
      BY <1>1, <3>1, SettledDrained
    <3> QED BY <3>2, EmptyFacts DEF TypeOK
  <2>5. handle.submitted = 0 \/ handle.submitted > 0
    BY <1>1 DEF Handles
  <2> QED BY <2>2, <2>3, <2>4, <2>5
<1> QED BY <1>5, <1>6, <1>7, <1>8, <1>9, <1>10

-----------------------------------------------------------------------------
(* Between scopes *)

\* Steps that touch neither the handle nor the lifecycle's books: only sets
\* nobody leases move, and nothing of them is on the stream.
LEMMA BindingsInductive ==
  ASSUME Inductive,
         NEW s \in Sets, NEW to \in {"host", "freed"},
         place[s] \in {"none", "host"},
         place' = [place EXCEPT ![s] = to] \/ UNCHANGED place,
         nextId' \in 1 .. MaxId, reply' \in {"none", "ok", "err"},
         poisoned' \in BOOLEAN, poisoned => poisoned',
         UNCHANGED <<retained, event, life, handle, stream, tainted>>
  PROVE  Inductive'
<1> USE DEF Inductive
<1>1. /\ place' \in [Sets -> {"none", "host", "leased", "freed", "leaked"}]
      /\ \A t \in Sets : place[t] \in {"leased", "leaked"} => place'[t] = place[t]
      /\ \A t \in Sets : place'[t] = "leased" => place[t] = "leased"
  BY DEF TypeOK
<1>2. TypeOK'
  BY <1>1 DEF TypeOK
<1>3. HandleOwnsSet' /\ AccountingExact' /\ StreamOfHandle' /\ FenceIsOwn'
  BY <1>1 DEF HandleOwnsSet, AccountingExact, StreamOfHandle, FenceIsOwn, Live
<1>4. NoHostAccessInFlight'
  <2>1. \A i \in DOMAIN stream : stream[i].set \in Sets
    <3>1. \A c \in Commands : c.set \in Sets
      BY DEF Commands
    <3>2. \A i \in DOMAIN stream : stream[i] \in Commands
      BY DEF TypeOK
    <3> QED BY <3>1, <3>2
  <2> QED BY <1>1, <2>1 DEF NoHostAccessInFlight
<1>5. ResourcesOutliveWork' /\ NeverMiscounted' /\ ReadyMeansDone'
  BY DEF ResourcesOutliveWork, NeverMiscounted, ReadyMeansDone, InCompletion
<1>6. FailureRemembered'
  BY DEF FailureRemembered, Live, Suspect
<1> QED BY <1>2, <1>3, <1>4, <1>5, <1>6

\* bindings() and the drop of a set the host holds.
LEMMA HostBindingsInductive ==
  ASSUME Inductive, NEW s \in Sets, CreateBindings(s) \/ DropBindings(s)
  PROVE  Inductive'
<1>0. nextId \in 1 .. MaxId /\ MaxId \in Nat /\ poisoned \in BOOLEAN
  BY CommandQueueAssumption DEF Inductive, TypeOK
<1>1. CASE CreateBindings(s)
  <2>1. nextId' \in 1 .. MaxId
    BY <1>0, <1>1 DEF CreateBindings, FreshId
  <2> QED BY <1>0, <1>1, <2>1, BindingsInductive DEF CreateBindings
<1>2. CASE DropBindings(s)
  BY <1>0, <1>2, BindingsInductive DEF DropBindings
<1> QED BY <1>1, <1>2

\* begin(): an admitted scope starts over an empty stream and a queue that has
\* seen no failure.
LEMMA BeginInductive ==
  ASSUME Inductive, NEW s \in Sets, Begin(s)
  PROVE  Inductive'
<1>0. nextId \in 1 .. MaxId /\ MaxId \in Nat /\ poisoned \in BOOLEAN
  BY CommandQueueAssumption DEF Inductive, TypeOK
<1>1. CASE BeginRefused(s) /\ (poisoned' = TRUE \/ UNCHANGED poisoned)
  BY <1>0, <1>1, BindingsInductive DEF Begin, BeginRefused
<1>2. CASE /\ ~poisoned /\ ~LeftBehind /\ FreshId
           /\ handle' = [NoHandle EXCEPT !.phase = "scope", !.id = nextId, !.set = s]
           /\ place' = [place EXCEPT ![s] = "leased"]
           /\ reply' = "ok"
           /\ UNCHANGED <<poisoned, retained, event, life, stream, tainted>>
  <2> USE DEF Inductive
  <2>1. life = "live" /\ ~Live /\ place[s] = "host"
    BY DEF Begin, Idle, Live
  <2>2. stream = <<>> /\ retained = <<>> /\ ~tainted
    BY <1>2, <2>1, NothingLeft DEF LeftBehind, FailureRemembered
  <2>3. handle' = [phase |-> "scope", id |-> nextId, set |-> s, submitted |-> 0,
                   failed |-> FALSE, recordErr |-> FALSE, pollErr |-> FALSE,
                   mergeDue |-> FALSE]
    BY <1>2 DEF NoHandle
  <2>4. handle' \in Handles
    BY <1>0, <2>3 DEF Handles
  <2>5. /\ place' \in [Sets -> {"none", "host", "leased", "freed", "leaked"}]
        /\ \A t \in Sets : place'[t] = "leased" <=> t = s
    BY <1>2, <2>1 DEF HandleOwnsSet, TypeOK
  <2>6. nextId' \in 1 .. MaxId
    BY <1>0, <1>2 DEF FreshId
  <2>7. TypeOK'
    BY <1>2, <2>4, <2>5, <2>6 DEF TypeOK
  <2>8. HandleOwnsSet'
    BY <2>3, <2>5 DEF HandleOwnsSet, Live
  <2>9. AccountingExact' /\ StreamOfHandle' /\ FenceIsOwn'
    <3>1. handle'.phase = "scope" /\ handle'.submitted = 0 /\ ~handle'.mergeDue
      BY <2>3
    <3>2. ~handle'.recordErr /\ ~handle'.pollErr
      BY <2>3
    <3>3. Len(retained') = 0 /\ DOMAIN stream' = {} /\ stream' = <<>>
      BY <1>2, <2>2, EmptyFacts
    <3> QED
      BY <3>1, <3>2, <3>3, CommandQueueAssumption
         DEF AccountingExact, StreamOfHandle, FenceIsOwn, Live
  <2>10. NoHostAccessInFlight' /\ ResourcesOutliveWork'
    BY <1>2, <2>2, EmptyFacts DEF NoHostAccessInFlight, ResourcesOutliveWork, TypeOK
  <2>11. NeverMiscounted' /\ ReadyMeansDone' /\ FailureRemembered'
    BY <1>2, <2>2, <2>3
       DEF NeverMiscounted, ReadyMeansDone, InCompletion, FailureRemembered
  <2> QED BY <2>7, <2>8, <2>9, <2>10, <2>11
<1> QED BY <1>1, <1>2 DEF Begin

\* The process aborts, or the queue is dropped once nothing is left to run.
LEMMA EndOfQueueInductive ==
  ASSUME Inductive, AbortUnproven \/ DropQueue
  PROVE  Inductive'
<1> USE DEF Inductive
<1>1. /\ UNCHANGED <<nextId, poisoned, event, handle, place, stream, tainted>>
      /\ life' \in {"dropped", "aborted"} /\ reply' \in {reply, "none"}
      /\ life = "live"
  BY DEF AbortUnproven, DropQueue, InScope, InCompletion, Idle
<1>2. UNCHANGED retained \/ (retained' = <<>> /\ stream = <<>> /\ ~Live)
  BY NothingLeft DEF AbortUnproven, DropQueue, QueueDrained, Quiescent, LeftBehind, Idle, Live
<1>3. TypeOK'
  BY <1>1, <1>2, EmptyFacts DEF TypeOK
<1>4. HandleOwnsSet' /\ AccountingExact' /\ StreamOfHandle' /\ FenceIsOwn'
  BY <1>1, <1>2 DEF HandleOwnsSet, AccountingExact, StreamOfHandle, FenceIsOwn, Live
<1>5. ResourcesOutliveWork'
  <2>1. CASE UNCHANGED retained
    BY <1>1, <2>1 DEF ResourcesOutliveWork
  <2>2. CASE stream = <<>>
    BY <1>1, <2>2, EmptyFacts DEF ResourcesOutliveWork, TypeOK
  <2> QED BY <1>2, <2>1, <2>2
<1>6. NoHostAccessInFlight' /\ NeverMiscounted' /\ ReadyMeansDone'
  BY <1>1 DEF NoHostAccessInFlight, NeverMiscounted, ReadyMeansDone, InCompletion
<1>7. FailureRemembered'
  BY <1>1 DEF FailureRemembered, Live, Suspect
<1> QED BY <1>3, <1>4, <1>5, <1>6, <1>7

\* The device finishing a command preserves the invariant.
LEMMA DeviceStepInductive ==
  ASSUME Inductive, DeviceStep
  PROVE  Inductive'
<1> USE DEF Inductive
<1>1. /\ stream \in Seq(Commands) /\ stream # <<>> /\ stream' = Tail(stream)
      /\ UNCHANGED <<nextId, poisoned, retained, event, life, handle, place, reply, tainted>>
  BY DEF DeviceStep, TypeOK
<1>2. /\ stream' \in Seq(Commands)
      /\ \A i \in DOMAIN stream' : \E j \in DOMAIN stream : stream'[i] = stream[j]
  BY <1>1, TailFacts
<1>3. TypeOK'
  BY <1>1, <1>2 DEF TypeOK
<1>4. HandleOwnsSet' /\ AccountingExact' /\ FenceIsOwn' /\ NeverMiscounted'
  BY <1>1 DEF HandleOwnsSet, AccountingExact, FenceIsOwn, NeverMiscounted, Live
<1>5. StreamOfHandle'
  BY <1>1, <1>2 DEF StreamOfHandle, Live
<1>6. NoHostAccessInFlight' /\ ReadyMeansDone'
  BY <1>1, <1>2 DEF NoHostAccessInFlight, ReadyMeansDone, InCompletion
<1>7. ResourcesOutliveWork'
  BY <1>1, <1>2 DEF ResourcesOutliveWork
<1>8. FailureRemembered'
  BY <1>1 DEF FailureRemembered, Live, Suspect
<1> QED BY <1>3, <1>4, <1>5, <1>6, <1>7, <1>8

-----------------------------------------------------------------------------
(* The theorems *)

\* Every step of the queue, the host and the device preserves the invariant.
LEMMA NextInductive == Inductive /\ [Next]_vars => Inductive'
<1> SUFFICES ASSUME Inductive, [Next]_vars PROVE Inductive'
  OBVIOUS
<1>1. ASSUME NEW s \in Sets, CreateBindings(s) \/ DropBindings(s) PROVE Inductive'
  BY <1>1, HostBindingsInductive
<1>2. ASSUME NEW s \in Sets, Begin(s) PROVE Inductive'
  BY <1>2, BeginInductive
<1>3. CASE Enqueue \/ EnqueuePair \/ EnqueueMerge
  BY <1>3, EnqueueInductive
<1>4. CASE FinishScope
  BY <1>4, FinishScopeInductive
<1>5. CASE DropScope
  BY <1>5, DropScopeInductive
<1>6. CASE LeakHandle
  BY <1>6, LeakHandleInductive
<1>7. CASE IsComplete
  BY <1>7, IsCompleteInductive
<1>8. CASE Wait \/ DropCompletion
  BY <1>8, SettleInductive DEF Wait, DropCompletion
<1>9. CASE AbortUnproven \/ DropQueue
  BY <1>9, EndOfQueueInductive
<1>10. CASE DeviceStep
  BY <1>10, DeviceStepInductive
<1>11. CASE UNCHANGED vars
  BY <1>11
     DEF vars, Inductive, TypeOK, NeverMiscounted, HandleOwnsSet, AccountingExact,
         StreamOfHandle, FenceIsOwn, NoHostAccessInFlight, ResourcesOutliveWork,
         FailureRemembered, ReadyMeansDone, Live, Suspect, InCompletion
<1> QED
  BY <1>1, <1>2, <1>3, <1>4, <1>5, <1>6, <1>7, <1>8, <1>9, <1>10, <1>11 DEF Next

\* The invariant holds in every reachable state of every queue.
THEOREM InductiveInvariant == Spec => []Inductive
BY InitInductive, NextInductive, PTL DEF Spec

\* Type correctness: ids stay in their type, every set has one holder.
THEOREM TypeCorrect == Spec => []TypeOK
<1>1. Inductive => TypeOK
  BY DEF Inductive
<1> QED BY <1>1, InductiveInvariant, PTL

\* Buffers that the host holds or has freed are never in use by a command on
\* the stream (binding leases, settle() and both Drops).
THEOREM NoHostAccess == Spec => []NoHostAccessInFlight
<1>1. Inductive => NoHostAccessInFlight
  BY DEF Inductive
<1> QED BY <1>1, InductiveInvariant, PTL

\* The function or plan of a command on the stream is retained until the queue
\* has synchronized (retained_resources).
THEOREM ResourcesSafe == Spec => []ResourcesOutliveWork
<1>1. Inductive => ResourcesOutliveWork
  BY DEF Inductive
<1> QED BY <1>1, InductiveInvariant, PTL

\* record_submission never finds its accounting violated and never aborts the
\* process.
THEOREM AccountingNeverAborts == Spec => []NeverMiscounted
<1>1. Inductive => NeverMiscounted
  BY DEF Inductive
<1> QED BY <1>1, InductiveInvariant, PTL

\* is_complete() never answers true over work of its scope.
THEOREM ReadyIsDone == Spec => []ReadyMeansDone
<1>1. Inductive => ReadyMeansDone
  BY DEF Inductive
<1> QED BY <1>1, InductiveInvariant, PTL

\* No scope is admitted after a failure, leaked handles included.
THEOREM FailureStopsQueue == Spec => []NoScopeAfterFailure
<1>1. Inductive => NoScopeAfterFailure
  BY DEF Inductive, NoScopeAfterFailure, FailureRemembered, FenceIsOwn, Suspect, Live
<1> QED BY <1>1, InductiveInvariant, PTL

-----------------------------------------------------------------------------
(* Two-command plans *)

\* The room require_command_capacity(2) found is still there when the merge is
\* due, so no call of the queue answers that the merge does not fit.
LEMMA MergeHasRoom ==
  ASSUME Inductive, handle.mergeDue
  PROVE  HasCapacity(1)
<1>1. handle.phase = "scope" /\ ~handle.failed /\ handle.submitted < MaxCommands
  BY DEF Inductive, AccountingExact
<1>2. handle.submitted \in Nat /\ MaxCommands \in Nat
  BY CommandQueueAssumption DEF Inductive, TypeOK, Handles
<1> QED BY <1>1, <1>2 DEF HasCapacity

\* No step of the queue refuses a merge command for want of capacity.
LEMMA MergeNotRefused ==
  ASSUME Inductive, PairNeverStranded, [Next]_vars
  PROVE  PairNeverStranded'
<1> USE DEF PairNeverStranded
<1>1. CASE Enqueue \/ EnqueuePair \/ EnqueueMerge
  <2>1. ASSUME CallRefused PROVE reply' = "err"
    BY <2>1, MergeHasRoom DEF CallRefused
  <2>2. CASE Enqueue
    BY <2>1, <2>2 DEF Enqueue, LaunchAccepted, LaunchFailed, PreflightFailed
  <2>3. CASE EnqueuePair
    BY <2>1, <2>3 DEF EnqueuePair, LaunchAccepted, LaunchFailed
  <2>4. CASE EnqueueMerge
    BY <2>1, <2>4 DEF EnqueueMerge, LaunchAccepted, LaunchFailed
  <2> QED BY <1>1, <2>2, <2>3, <2>4
<1>2. ASSUME NEW s \in Sets, CreateBindings(s) \/ DropBindings(s) \/ Begin(s)
      PROVE  PairNeverStranded'
  BY <1>2 DEF CreateBindings, DropBindings, Begin, BeginRefused
<1>3. CASE FinishScope \/ DropScope \/ LeakHandle \/ DropQueue
  BY <1>3 DEF FinishScope, DropScope, LeakHandle, DropQueue
<1>4. CASE IsComplete
  BY <1>4 DEF IsComplete
<1>5. CASE Wait \/ DropCompletion
  BY <1>5 DEF Wait, DropCompletion, Settle
<1>6. CASE AbortUnproven \/ DeviceStep \/ UNCHANGED vars
  BY <1>6 DEF AbortUnproven, DeviceStep, vars
<1> QED BY <1>1, <1>2, <1>3, <1>4, <1>5, <1>6 DEF Next

\* A split-K or tiled plan that was admitted is never refused its merge
\* command for want of capacity (require_command_capacity(2)).
THEOREM PairCapacity == Spec => []PairNeverStranded
<1>1. Init => PairNeverStranded
  BY DEF Init, PairNeverStranded
<1> QED BY <1>1, MergeNotRefused, InductiveInvariant, PTL DEF Spec

-----------------------------------------------------------------------------
(* Bindings that come back to the host *)

\* What OnlyCleanBindingsReturn says of one step.
CleanReturn ==
  \A s \in Sets :
    place[s] = "leased" /\ place'[s] = "host" =>
      /\ ~(handle.failed \/ handle.recordErr \/ handle.pollErr)
      /\ \A i \in DOMAIN stream : stream[i].set # s

\* wait() is the only call that hands leased bindings back, and it does so
\* over an empty stream and a healthy completion.
LEMMA StepReturnsClean == Inductive /\ [Next]_vars => CleanReturn
<1> SUFFICES ASSUME Inductive, [Next]_vars, NEW s \in Sets,
                    place[s] = "leased", place'[s] = "host"
             PROVE  /\ ~(handle.failed \/ handle.recordErr \/ handle.pollErr)
                    /\ \A i \in DOMAIN stream : stream[i].set # s
  BY DEF CleanReturn
<1>1. /\ place \in [Sets -> {"none", "host", "leased", "freed", "leaked"}]
      /\ stream \in Seq(Commands) /\ handle.set \in Sets
  BY DEF Inductive, TypeOK, HandleOwnsSet
<1>2. ASSUME NEW t \in Sets, CreateBindings(t) \/ DropBindings(t) \/ Begin(t)
      PROVE  FALSE
  BY <1>1, <1>2 DEF CreateBindings, DropBindings, Begin, BeginRefused
<1>3. CASE Enqueue \/ EnqueuePair \/ EnqueueMerge \/ FinishScope \/ IsComplete
  BY <1>3 DEF Enqueue, EnqueuePair, EnqueueMerge, FinishScope, IsComplete
<1>4. CASE DropScope \/ LeakHandle
  BY <1>1, <1>4 DEF DropScope, EndHandle, LeakHandle
<1>5. CASE Wait \/ DropCompletion
  <2>1. PICK to \in {"host", "freed"}, ok \in BOOLEAN :
          Settle(to) /\ Settled(ok) /\ EndHandle(PlaceAfter(to, ok))
    BY <1>5 DEF Wait, DropCompletion, Settle
  <2>2. stream = <<>> /\ (ok => ~Suspect)
    BY <2>1, SettledDrained DEF Settle
  <2>3. ok
    BY <1>1, <2>1 DEF EndHandle, PlaceAfter
  <2> QED BY <1>1, <2>2, <2>3, EmptyFacts DEF Suspect
<1>6. CASE AbortUnproven \/ DropQueue \/ DeviceStep \/ UNCHANGED vars
  BY <1>6 DEF AbortUnproven, DropQueue, DeviceStep, vars
<1> QED BY <1>2, <1>3, <1>4, <1>5, <1>6 DEF Next

\* A binding set comes back to the host from a completion only if nothing of
\* its scope failed and its work is done (CommandCompletion::wait).
THEOREM CleanBindingsReturn == Spec => OnlyCleanBindingsReturn
<1>1. Inductive /\ [Next]_vars => [CleanReturn]_vars
  BY StepReturnsClean
<1> QED
  BY <1>1, InductiveInvariant, PTL DEF Spec, OnlyCleanBindingsReturn, CleanReturn

-----------------------------------------------------------------------------
(* The queue implements Lease. *)

\* Resources are retained for sets that are leased or leaked, and while a
\* handle lives for its set alone: what releasing a set must give up.
KeptSetsAway ==
  \A j \in DOMAIN retained :
    /\ place[retained[j].set] \in {"leased", "leaked"}
    /\ Live => retained[j].set = handle.set

\* The sets of a sequence of commands are sets of the queue; appending adds
\* one, dropping the oldest command removes at most its own.
LEMMA SetsOfFacts ==
  ASSUME NEW q \in Seq(Commands)
  PROVE  /\ SetsOf(q) \subseteq Sets
         /\ SetsOf(q) = {} <=> q = <<>>
         /\ \A c \in Commands : SetsOf(Append(q, c)) = SetsOf(q) \cup {c.set}
         /\ q # <<>> => \/ SetsOf(Tail(q)) = SetsOf(q)
                        \/ SetsOf(Tail(q)) = SetsOf(q) \ {q[1].set}
         /\ q # <<>> => q[1].set \in SetsOf(q)
<1>0. /\ DOMAIN q = 1 .. Len(q) /\ Len(q) \in Nat
      /\ \A i \in DOMAIN q : q[i] \in Commands
      /\ \A c \in Commands : c.set \in Sets
  <2>1. \A c \in Commands : c.set \in Sets
    BY DEF Commands
  <2> QED BY <2>1
<1>1. SetsOf(q) \subseteq Sets
  BY <1>0 DEF SetsOf
<1>2. SetsOf(q) = {} <=> q = <<>>
  BY EmptyFacts DEF SetsOf
<1>3. ASSUME NEW c \in Commands
      PROVE  SetsOf(Append(q, c)) = SetsOf(q) \cup {c.set}
  <2>1. /\ DOMAIN Append(q, c) = DOMAIN q \cup {Len(q) + 1}
        /\ \A i \in DOMAIN q : Append(q, c)[i] = q[i]
        /\ Append(q, c)[Len(q) + 1] = c
    BY <1>0, <1>3, AppendFacts
  <2> QED BY <2>1 DEF SetsOf
<1>4. ASSUME q # <<>>
      PROVE  /\ \/ SetsOf(Tail(q)) = SetsOf(q)
                \/ SetsOf(Tail(q)) = SetsOf(q) \ {q[1].set}
             /\ q[1].set \in SetsOf(q)
  <2>1. 1 \in DOMAIN q
    BY <1>0, <1>4
  <2>2. /\ DOMAIN Tail(q) = 1 .. Len(q) - 1
        /\ \A i \in DOMAIN Tail(q) : i + 1 \in DOMAIN q /\ Tail(q)[i] = q[i + 1]
    BY <1>0, <1>4
  <2>3. \A i \in DOMAIN q \ {1} : i - 1 \in DOMAIN Tail(q) /\ Tail(q)[i - 1] = q[i]
    <3> SUFFICES ASSUME NEW i \in DOMAIN q, i # 1
                 PROVE  i - 1 \in DOMAIN Tail(q) /\ Tail(q)[i - 1] = q[i]
      OBVIOUS
    <3>1. i - 1 \in 1 .. Len(q) - 1 /\ (i - 1) + 1 = i
      BY <1>0
    <3> QED BY <2>2, <3>1
  <2>4. SetsOf(Tail(q)) \subseteq SetsOf(q)
    BY <2>2 DEF SetsOf
  <2>5. SetsOf(q) \subseteq SetsOf(Tail(q)) \cup {q[1].set}
    <3> SUFFICES ASSUME NEW i \in DOMAIN q
                 PROVE  q[i].set \in SetsOf(Tail(q)) \cup {q[1].set}
      BY DEF SetsOf
    <3>1. CASE i # 1
      <4>1. i - 1 \in DOMAIN Tail(q) /\ Tail(q)[i - 1] = q[i]
        BY <2>3, <3>1
      <4> QED BY <4>1 DEF SetsOf
    <3> QED BY <3>1
  <2>6. q[1].set \in SetsOf(q)
    BY <2>1 DEF SetsOf
  <2> QED BY <2>4, <2>5, <2>6
<1> QED BY <1>1, <1>2, <1>3, <1>4

\* What a step makes of the lease's variables, for the steps that submit work.
LEMMA SubmitUses ==
  ASSUME Inductive, KeptSetsAway, life = "live", handle.phase = "scope",
         HasCapacity(1), RecordSubmission,
         stream' \in {stream, Append(stream, NextCommand)},
         handle'.phase = handle.phase, handle'.set = handle.set,
         UNCHANGED place
  PROVE  LeaseOf!Use(handle.set) /\ handle.set \in Sets /\ KeptSetsAway'
<1>1. /\ Live /\ handle \in Handles /\ handle.set \in Sets
      /\ place[handle.set] = "leased"
      /\ stream \in Seq(Commands) /\ retained \in Seq(Commands)
  BY DEF Inductive, HandleOwnsSet, Live, TypeOK
<1>2. NextCommand \in Commands /\ NextCommand.set = handle.set
  BY <1>1 DEF NextCommand, Commands, Handles
<1>3. retained' = Append(retained, NextCommand)
  BY <1>1, CommandQueueAssumption
     DEF RecordSubmission, Inductive, AccountingExact, HasCapacity, Handles
<1>4. SetsOf(retained') = SetsOf(retained) \cup {handle.set}
  BY <1>1, <1>2, <1>3, SetsOfFacts
<1>5. SetsOf(stream') \in {SetsOf(stream), SetsOf(stream) \cup {handle.set}}
  BY <1>1, <1>2, SetsOfFacts
<1>6. LeaseOf!Use(handle.set)
  BY <1>1, <1>4, <1>5 DEF LeaseOf!Use
<1>7. KeptSetsAway'
  <2>1. \A j \in DOMAIN retained' :
          (j \in DOMAIN retained /\ retained'[j] = retained[j]) \/ retained'[j] = NextCommand
    BY <1>1, <1>2, <1>3, AppendFacts
  <2> QED BY <1>1, <1>2, <2>1 DEF KeptSetsAway, Live
<1> QED BY <1>1, <1>6, <1>7

\* Steps that leave the lease's variables alone.
LEMMA StutterKeeps ==
  ASSUME KeptSetsAway, UNCHANGED <<place, stream, retained>>,
         handle'.phase # "none" => Live /\ handle'.set = handle.set
  PROVE  UNCHANGED LeaseOf!leaseVars /\ KeptSetsAway'
BY DEF LeaseOf!leaseVars, SetsOf, KeptSetsAway, Live

\* Each enqueue is a use of the leased set, or nothing to the lease.
LEMMA EnqueueUses ==
  ASSUME Inductive, KeptSetsAway, Enqueue \/ EnqueuePair \/ EnqueueMerge
  PROVE  [LeaseOf!Next]_LeaseOf!leaseVars /\ KeptSetsAway'
<1>0. /\ handle \in Handles /\ handle.submitted \in Nat /\ MaxCommands \in Nat
      /\ life = "live" /\ handle.phase = "scope" /\ UNCHANGED place
  BY CommandQueueAssumption
     DEF Inductive, TypeOK, Handles, Enqueue, EnqueuePair, EnqueueMerge, InScope
<1>1. CASE CallRefused \/ PreflightFailed
  <2>1. /\ UNCHANGED <<stream, retained>> /\ handle'.phase = handle.phase
        /\ handle'.set = handle.set
    BY <1>0, <1>1 DEF CallRefused, PreflightFailed, Handles
  <2> QED BY <1>0, <2>1, StutterKeeps DEF Live
<1>2. CASE HasCapacity(1) /\ (LaunchAccepted(TRUE) \/ LaunchAccepted(FALSE) \/ LaunchFailed)
  <2>1. handle'.phase = handle.phase /\ handle'.set = handle.set
    BY <1>0, <1>2 DEF LaunchAccepted, LaunchFailed, Handles
  <2>2. RecordSubmission /\ stream' \in {stream, Append(stream, NextCommand)}
    BY <1>2 DEF LaunchAccepted, LaunchFailed
  <2>3. LeaseOf!Use(handle.set) /\ handle.set \in Sets /\ KeptSetsAway'
    BY <1>0, <1>2, <2>1, <2>2, SubmitUses
  <2> QED BY <2>3 DEF LeaseOf!Next
<1>3. HasPairCapacity => HasCapacity(1)
  BY <1>0 DEF HasPairCapacity, HasCapacity
<1> QED BY <1>1, <1>2, <1>3 DEF Enqueue, EnqueuePair, EnqueueMerge

\* A handle that ends gives its set back over an idle stream, and with it all
\* that was kept.
LEMMA EndReleases ==
  ASSUME Inductive, KeptSetsAway, Live, stream = <<>>,
         NEW to \in {"host", "freed"}, EndHandle(to), UNCHANGED stream
  PROVE  LeaseOf!Next /\ KeptSetsAway'
<1>1. /\ handle.set \in Sets /\ place[handle.set] = "leased"
      /\ retained \in Seq(Commands) /\ stream \in Seq(Commands)
  BY DEF Inductive, HandleOwnsSet, TypeOK
<1>2. SetsOf(stream) = {} /\ SetsOf(retained') = {} /\ DOMAIN retained' = {}
  BY <1>1, SetsOfFacts, EmptyFacts DEF EndHandle
<1>3. SetsOf(retained) \subseteq {handle.set}
  BY DEF KeptSetsAway, SetsOf
<1>4. SetsOf(stream') = SetsOf(stream)
  BY DEF SetsOf
<1>5. LeaseOf!Release(handle.set, to)
  BY <1>1, <1>2, <1>3, <1>4 DEF LeaseOf!Release, EndHandle
<1>6. LeaseOf!Next
  BY <1>1, <1>5 DEF LeaseOf!Next
<1> QED BY <1>2, <1>6 DEF KeptSetsAway

\* Every step of the queue is a step of the lease or nothing to it.
LEMMA StepLeases ==
  ASSUME Inductive, KeptSetsAway, [Next]_vars
  PROVE  [LeaseOf!Next]_LeaseOf!leaseVars /\ KeptSetsAway'
<1>0. /\ place \in [Sets -> {"none", "host", "leased", "freed", "leaked"}]
      /\ stream \in Seq(Commands) /\ retained \in Seq(Commands) /\ handle \in Handles
      /\ SetsOf(stream) \subseteq Sets /\ SetsOf(retained) \subseteq Sets
  BY SetsOfFacts DEF Inductive, TypeOK
<1>1. /\ \A s \in SetsOf(stream) : place[s] \in {"leased", "leaked"}
      /\ \A s \in SetsOf(retained) : place[s] \in {"leased", "leaked"}
  BY DEF Inductive, NoHostAccessInFlight, KeptSetsAway, SetsOf
<1>2. ASSUME NEW s \in Sets, place[s] = "host", UNCHANGED <<stream, retained, handle>>,
             place' = [place EXCEPT ![s] = "freed"]
      PROVE  LeaseOf!Next /\ KeptSetsAway'
  <2>1. s \notin SetsOf(stream) /\ s \notin SetsOf(retained)
    BY <1>1, <1>2
  <2>2. LeaseOf!Release(s, "freed")
    BY <1>0, <1>2, <2>1 DEF LeaseOf!Release, SetsOf
  <2>3. KeptSetsAway'
    BY <1>0, <1>2, <2>1 DEF KeptSetsAway, SetsOf, Live
  <2> QED BY <2>2, <2>3 DEF LeaseOf!Next
<1>3. ASSUME NEW s \in Sets, CreateBindings(s)
      PROVE  [LeaseOf!Next]_LeaseOf!leaseVars /\ KeptSetsAway'
  <2>1. CASE place' = [place EXCEPT ![s] = "host"]
    <3>1. LeaseOf!Create(s)
      BY <1>3, <2>1 DEF CreateBindings, LeaseOf!Create, SetsOf
    <3>2. s \notin SetsOf(retained)
      BY <1>1, <1>3 DEF CreateBindings
    <3>3. KeptSetsAway'
      BY <1>0, <1>3, <2>1, <3>2 DEF CreateBindings, KeptSetsAway, SetsOf, Live
    <3> QED BY <3>1, <3>3 DEF LeaseOf!Next
  <2>2. CASE UNCHANGED place
    BY <1>3, <2>2, StutterKeeps DEF CreateBindings, Idle
  <2> QED BY <1>3, <2>1, <2>2 DEF CreateBindings
<1>4. ASSUME NEW s \in Sets, DropBindings(s)
      PROVE  LeaseOf!Next /\ KeptSetsAway'
  BY <1>2, <1>4 DEF DropBindings
<1>5. ASSUME NEW s \in Sets, Begin(s)
      PROVE  LeaseOf!Next /\ KeptSetsAway'
  <2>1. CASE BeginRefused(s)
    BY <1>2, <1>5, <2>1 DEF Begin, BeginRefused
  <2>2. CASE /\ ~LeftBehind
             /\ handle' = [NoHandle EXCEPT !.phase = "scope", !.id = nextId, !.set = s]
             /\ place' = [place EXCEPT ![s] = "leased"]
             /\ UNCHANGED <<poisoned, retained, event, life, stream, tainted>>
    <3>1. LeaseOf!Acquire(s)
      BY <1>5, <2>2 DEF Begin, LeaseOf!Acquire, SetsOf
    <3>2. DOMAIN retained' = {}
      BY <2>2, EmptyFacts DEF LeftBehind
    <3> QED BY <3>1, <3>2 DEF LeaseOf!Next, KeptSetsAway
  <2> QED BY <1>5, <2>1, <2>2 DEF Begin
<1>6. CASE Enqueue \/ EnqueuePair \/ EnqueueMerge
  BY <1>6, EnqueueUses
<1>7. CASE FinishScope \/ IsComplete
  <2>1. /\ Live /\ UNCHANGED <<place, stream, retained>> /\ handle'.set = handle.set
    BY <1>0, <1>7 DEF FinishScope, IsComplete, InScope, InCompletion, Live, Handles
  <2> QED BY <2>1, StutterKeeps
<1>8. CASE DropScope
  <2>1. Live /\ EndHandle("freed") /\ UNCHANGED stream
    BY <1>8 DEF DropScope, InScope, Live
  <2>2. stream = <<>>
    BY <1>8, <2>1 DEF DropScope, ScopeDrained, Quiescent, Inductive, StreamOfHandle,
      TypeOK, Handles
  <2> QED BY <2>1, <2>2, EndReleases
<1>9. CASE LeakHandle
  <2>1. /\ Live /\ handle'.phase = "none" /\ UNCHANGED <<stream, retained>>
        /\ place' = [place EXCEPT ![handle.set] = "leaked"]
        /\ handle.set \in Sets /\ place[handle.set] = "leased"
    BY <1>9 DEF LeakHandle, InScope, InCompletion, Live, NoHandle, Inductive, HandleOwnsSet
  <2>2. LeaseOf!Leak(handle.set)
    BY <2>1 DEF LeaseOf!Leak, SetsOf
  <2>3. KeptSetsAway'
    BY <1>0, <2>1 DEF KeptSetsAway, Live
  <2> QED BY <2>1, <2>2, <2>3 DEF LeaseOf!Next
<1>10. CASE Wait \/ DropCompletion
  <2>1. PICK to \in {"host", "freed"}, ok \in BOOLEAN :
          Settle(to) /\ Settled(ok) /\ EndHandle(PlaceAfter(to, ok))
    BY <1>10 DEF Wait, DropCompletion, Settle
  <2>2. stream = <<>> /\ Live /\ UNCHANGED stream
    BY <2>1, SettledDrained DEF Settle, InCompletion, Live
  <2>3. PlaceAfter(to, ok) \in {"host", "freed"}
    BY DEF PlaceAfter
  <2> QED BY <2>1, <2>2, <2>3, EndReleases
<1>11. CASE DropQueue
  <2>1. stream = <<>> /\ retained' = <<>> /\ UNCHANGED <<place, stream>>
    BY <1>11, NothingLeft DEF DropQueue, QueueDrained, Quiescent, LeftBehind
  <2>2. SetsOf(stream) = {} /\ SetsOf(retained') = {} /\ DOMAIN retained' = {}
    BY <1>0, <2>1, SetsOfFacts, EmptyFacts
  <2>3. LeaseOf!Unload
    BY <2>1, <2>2 DEF LeaseOf!Unload
  <2> QED BY <2>2, <2>3 DEF LeaseOf!Next, KeptSetsAway
<1>12. CASE DeviceStep
  <2>1. /\ stream # <<>> /\ stream' = Tail(stream)
        /\ UNCHANGED <<place, retained, handle>>
    BY <1>12 DEF DeviceStep
  <2>2. KeptSetsAway'
    BY <2>1 DEF KeptSetsAway, Live
  <2>3. stream[1].set \in SetsOf(stream) /\ SetsOf(retained') = SetsOf(retained)
    BY <1>0, <2>1, SetsOfFacts
  <2>4. CASE SetsOf(stream') = SetsOf(stream)
    BY <2>1, <2>2, <2>3, <2>4 DEF LeaseOf!leaseVars
  <2>5. CASE SetsOf(stream') = SetsOf(stream) \ {stream[1].set}
    <3>1. LeaseOf!Finish(stream[1].set)
      BY <2>1, <2>3, <2>5 DEF LeaseOf!Finish
    <3> QED BY <1>0, <2>2, <2>3, <3>1 DEF LeaseOf!Next
  <2> QED BY <1>0, <2>1, <2>4, <2>5, SetsOfFacts
<1>13. CASE AbortUnproven \/ UNCHANGED vars
  BY <1>13, StutterKeeps DEF AbortUnproven, vars, Live
<1> QED
  BY <1>3, <1>4, <1>5, <1>6, <1>7, <1>8, <1>9, <1>10, <1>11, <1>12, <1>13 DEF Next

\* The queue with its scopes, completions, events and errors implements the
\* lease: every behaviour of it is one the design promises the caller.
THEOREM QueueImplementsLease == Spec => ImplementsLease
<1>1. Init => KeptSetsAway /\ LeaseOf!Init
  <2> SUFFICES ASSUME Init PROVE KeptSetsAway /\ LeaseOf!Init
    OBVIOUS
  <2>1. <<>> \in Seq(Commands) /\ DOMAIN <<>> = {}
    BY EmptyFacts
  <2>2. DOMAIN retained = {} /\ SetsOf(retained) = {} /\ SetsOf(stream) = {}
    BY <2>1 DEF Init, SetsOf
  <2> QED BY <2>2 DEF Init, LeaseOf!Init, KeptSetsAway
<1>2. Inductive /\ KeptSetsAway /\ [Next]_vars
        => [LeaseOf!Next]_LeaseOf!leaseVars /\ KeptSetsAway'
  BY StepLeases
<1> QED
  BY <1>1, <1>2, InductiveInvariant, PTL DEF Spec, ImplementsLease, LeaseOf!Spec

\* The promise of the lease follows from the lease alone: whatever implements
\* it never lets the device use memory the host holds, or unloaded resources.
LEMMA LeaseKeepsPromise == LeaseOf!Spec => [](LeaseOf!LeaseTypeOK /\ LeaseOf!Exclusive)
<1> DEFINE Kept == LeaseOf!LeaseTypeOK /\ LeaseOf!Exclusive
<1> USE DEF LeaseOf!LeaseTypeOK, LeaseOf!Exclusive, LeaseOf!Holders
<1>1. LeaseOf!Init => Kept
  BY DEF LeaseOf!Init
<1>2. Kept /\ [LeaseOf!Next]_LeaseOf!leaseVars => Kept'
  <2> SUFFICES ASSUME Kept, [LeaseOf!Next]_LeaseOf!leaseVars PROVE Kept'
    OBVIOUS
  <2>1. ASSUME NEW s \in Sets, LeaseOf!Create(s) \/ LeaseOf!Acquire(s) \/ LeaseOf!Leak(s)
        PROVE  Kept'
    BY <2>1 DEF LeaseOf!Create, LeaseOf!Acquire, LeaseOf!Leak
  <2>2. ASSUME NEW s \in Sets, LeaseOf!Use(s) \/ LeaseOf!Finish(s)
        PROVE  Kept'
    BY <2>2 DEF LeaseOf!Use, LeaseOf!Finish
  <2>3. ASSUME NEW s \in Sets, NEW to \in {"host", "freed"}, LeaseOf!Release(s, to)
        PROVE  Kept'
    BY <2>3 DEF LeaseOf!Release
  <2>4. CASE LeaseOf!Unload \/ UNCHANGED LeaseOf!leaseVars
    BY <2>4 DEF LeaseOf!Unload, LeaseOf!leaseVars
  <2> QED BY <2>1, <2>2, <2>3, <2>4 DEF LeaseOf!Next
<1> QED BY <1>1, <1>2, PTL DEF LeaseOf!Spec

\* So the queue keeps the promise: a set in use by the device is leased or
\* leaked, and its functions and plans are loaded.
THEOREM QueueIsExclusive == Spec => []LeaseOf!Exclusive
BY QueueImplementsLease, LeaseKeepsPromise, PTL DEF ImplementsLease
=============================================================================
