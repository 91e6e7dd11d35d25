------------------------------ MODULE Bindings ------------------------------
(***************************************************************************)
(* The binding arena and what every operator does with it                  *)
(* (crates/loom-infer-cuda/src/command/binding.rs, resolve.rs and the      *)
(* enqueue_into of each plan): allocations move into a set, opaque handles *)
(* name its slots, an enqueue resolves handles to disjoint buffers, checks *)
(* them, and records one command, or a partial and a merge.                *)
(*                                                                         *)
(* A handle is a Copy value.  Rust fixes its element type and whether it   *)
(* may be written; the arena checks everything else.  Extents are names:   *)
(* two operands have the same length if they have the same name, which an  *)
(* output and a workspace of partial states never have.  Launch faults and *)
(* the retention of functions are CommandQueue's.                          *)
(***************************************************************************)
EXTENDS Operators, FiniteSets

CONSTANTS
  Arenas,       \* binding sets
  MaxCommands,  \* command capacity of the queue
  Filled,       \* [calls, buffers, capacity, leases]: the host's calls, its
                \* allocations as [name, elem, extent, aligned, foreign], the
                \* slots of its sets, and the sets as they are filled so far
  MaxStrays     \* bound: arguments of an enqueue that are not the usual ones

ASSUME BindingsAssumption ==
  /\ MaxCommands \in Nat /\ MaxStrays \in 0 .. 2

\* A fill is what bindings can make: slots that hold allocations, none of them
\* twice if it may be written.  The calls are operators of the crate.
ASSUME FilledAssumption ==
  \A f \in Filled :
    /\ f.calls \subseteq OperatorCalls
    /\ \A c, d \in f.calls : c.name = d.name => c = d
    /\ f.leases \in [Arenas -> Seq([access : {"read", "read_write"}, buffer : f.buffers])]
    /\ \A a, c \in Arenas : \A i \in DOMAIN f.leases[a], j \in DOMAIN f.leases[c] :
         f.leases[a][i].access = "read_write" /\ f.leases[a][i].buffer = f.leases[c][j].buffer
           => a = c /\ i = j

VARIABLES
  owner,     \* owner[b]: "host", "shared" (in an Arc), "arena"
  capacity,  \* capacity[a]: slots that set a may have
  leases,    \* leases[a]: the slots of set a
  issued,    \* every handle given out, with the buffer it was given for
  calls,     \* the enqueues the host makes
  scope,     \* the set that is moved into the live scope, or NoArena
  commands   \* the commands of the scope: [call, stage, args, operands]

vars == <<owner, capacity, leases, issued, calls, scope, commands>>

NoArena == "none"
NoHandle == [arena |-> NoArena]     \* an optional workspace that is not given
Vacant == [access |-> "vacant"]
LeaseOf(buffer, access) == [access |-> access, buffer |-> buffer]

Handle(a, slot, buffer, access) ==
  [arena |-> a, slot |-> slot, elem |-> buffer.elem, writable |-> access = "read_write",
   buffer |-> buffer]
-----------------------------------------------------------------------------
(* Binding *)

\* mutant: a vacant slot is used again
VacantSlot(a) ==
  LET vacant == {i \in DOMAIN leases[a] : leases[a][i] = Vacant}
  IN IF vacant = {} THEN Len(leases[a]) + 1 ELSE CHOOSE i \in vacant : TRUE

\* reserve_slot: slots are never used again.
NextSlot(a) == Len(leases[a]) + 1

\* The slots of set a with one more, or with another lease in one of them.
WithLease(a, slot, lease) ==
  [i \in DOMAIN leases[a] \cup {slot} |-> IF i = slot THEN lease ELSE leases[a][i]]

\* check_buffer and reserve_slot; a refused buffer goes back to the caller.
Bind(a, b, access) ==
  /\ scope # a
  /\ ~b.foreign /\ NextSlot(a) <= capacity[a]
  /\ leases' = [leases EXCEPT ![a] = WithLease(a, NextSlot(a), LeaseOf(b, access))]
  /\ issued' = issued \cup {Handle(a, NextSlot(a), b, access)}
  /\ UNCHANGED <<capacity, calls, scope, commands>>

\* bind_read takes an Arc, of which the host may keep clones.
BindRead(a, b) ==
  /\ owner[b] \in {"host", "shared"}
  /\ Bind(a, b, "read")
  /\ owner' = [owner EXCEPT ![b] = "shared"]

\* bind_read_write takes the allocation.
BindReadWrite(a, b) ==
  /\ owner[b] = "host"
  /\ Bind(a, b, "read_write")
  /\ owner' = [owner EXCEPT ![b] = "arena"]

\* mutant: the lease stays when its allocation is handed out
Kept(a, slot) == leases

Emptied(a, slot) == [leases EXCEPT ![a][slot] = Vacant]

\* take_read_write, of the set the handle names: a read lease stays, a vacant
\* slot has nothing.
TakeReadWrite(a, h) ==
  /\ scope # a
  /\ h.writable
  /\ h.arena = a /\ h.slot \in DOMAIN leases[a]
  /\ leases[a][h.slot].access = "read_write" /\ leases[a][h.slot].buffer.elem = h.elem
  /\ owner' = [owner EXCEPT ![leases[a][h.slot].buffer] = "host"]
  /\ leases' = Emptied(a, h.slot)
  /\ UNCHANGED <<capacity, issued, calls, scope, commands>>

-----------------------------------------------------------------------------
(* Resolution *)

Slots(operands, args) == [i \in DOMAIN operands |-> args[operands[i].arg].slot]

\* mutant: one slot may be given twice
ValidBindingRequestOverlapping(a, operands, args) ==
  /\ \A i \in DOMAIN operands : args[operands[i].arg].arena = a
  /\ \A i \in DOMAIN operands : Slots(operands, args)[i] \in DOMAIN leases[a]

\* validate_binding_request
ValidBindingRequest(a, operands, args) ==
  /\ \A i \in DOMAIN operands : args[operands[i].arg].arena = a
  /\ IsInjective(Slots(operands, args))
  /\ \A i \in DOMAIN operands : Slots(operands, args)[i] \in DOMAIN leases[a]

\* ResolveElement::read and write
Resolvable(lease, operand) ==
  /\ lease # Vacant
  /\ lease.buffer.elem = operand.elem
  /\ operand.access = "write" => lease.access = "read_write"

\* The resolve_* functions: all operands of a stage, or none.
Resolves(a, stage, args) ==
  /\ ValidBindingRequest(a, stage.operands, args)
  /\ \A i \in DOMAIN stage.operands :
       Resolvable(leases[a][Slots(stage.operands, args)[i]], stage.operands[i])

Resolved(a, stage, args) ==
  [x \in {stage.operands[i].arg : i \in DOMAIN stage.operands} |->
     leases[a][args[x].slot].buffer]

\* The checks after resolution, of the plan and of the launch contract.
Accepted(stage, buffers) ==
  \A x \in DOMAIN buffers :
    /\ buffers[x].extent \in stage.extents[x]
    /\ x \in stage.packed => buffers[x].aligned

StageAccepted(a, stage, args) ==
  Resolves(a, stage, args) /\ Accepted(stage, Resolved(a, stage, args))
-----------------------------------------------------------------------------
(* Enqueue *)

Recording(call) == {k \in DOMAIN call.stages : call.stages[k].records}

\* Stages in order, up to the first that is refused.
Recorded(a, call, args) ==
  LET refused == {k \in DOMAIN call.stages : ~StageAccepted(a, call.stages[k], args)}
      done == {k \in Recording(call) : \A q \in refused : k < q}
  IN [i \in 1 .. Cardinality(done) |->
        LET k == CHOOSE k \in done : Cardinality({q \in done : q <= k}) = i
        IN [call |-> call.name, stage |-> k, args |-> args,
            operands |-> Resolved(a, call.stages[k], args)]]

\* What Rust lets the host pass: handles by element type and access.
Fits(h, type) == h.elem = type.elem /\ (type.access = "write" => h.writable)

Typed(call, x) ==
  {h \in issued : Fits(h, ArgType(call, x))}
  \cup (IF x \in call.optional THEN {NoHandle} ELSE {})

\* The usual arguments are the newest handles of the buffers named for them.
Usual(call) ==
  [x \in Args(call) |->
     LET own == {h \in issued : h.buffer.name = x /\ Fits(h, ArgType(call, x))}
     IN CHOOSE h \in own : \A g \in own : h.slot >= g.slot]
ArgLists(call) ==
  LET usual == Usual(call) IN
  {usual}
  \cup (IF MaxStrays < 1 THEN {} ELSE
        UNION {{[usual EXCEPT ![x] = h] : h \in Typed(call, x)} : x \in Args(call)})
  \cup (IF MaxStrays < 2 THEN {} ELSE
        UNION {{[usual EXCEPT ![x] = h, ![y] = g] :
                  h \in Typed(call, x), g \in Typed(call, y)} : x \in Args(call), y \in Args(call)})

\* enqueue_into, with handles the host was given: a workspace that is missing,
\* NoHandle, or too little room refuses the call before its first stage.
Enqueue(call, args) ==
  /\ scope # NoArena
  /\ \A x \in Args(call) : args[x] \in issued
  /\ Len(commands) + Cardinality(Recording(call)) <= MaxCommands
  /\ commands' = commands \o Recorded(scope, call, args)
  /\ UNCHANGED <<owner, capacity, leases, issued, calls, scope>>

\* begin() moves the set into a scope; a settled completion returns it.
Begin(a) ==
  /\ scope = NoArena
  /\ scope' = a
  /\ UNCHANGED <<owner, capacity, leases, issued, calls, commands>>

Settle ==
  /\ scope # NoArena
  /\ scope' = NoArena
  /\ commands' = <<>>
  /\ UNCHANGED <<owner, capacity, leases, issued, calls>>
-----------------------------------------------------------------------------
\* The owner that the bindings of a fill have left to an allocation.
FilledOwner(f, b) ==
  LET access == {l \in {"read", "read_write"} :
                   \E a \in Arenas : \E i \in DOMAIN f.leases[a] : f.leases[a][i] = LeaseOf(b, l)}
  IN IF access = {} THEN "host" ELSE IF "read_write" \in access THEN "arena" ELSE "shared"

FilledHandles(f) ==
  UNION {{Handle(a, i, f.leases[a][i].buffer, f.leases[a][i].access) : i \in DOMAIN f.leases[a]} :
           a \in Arenas}

\* Each set has been filled, by the bindings above, for the calls to come.
Init ==
  /\ \E f \in Filled :
       /\ calls = f.calls
       /\ capacity = f.capacity
       /\ leases = f.leases
       /\ issued = FilledHandles(f)
       /\ owner = [b \in f.buffers |-> FilledOwner(f, b)]
  /\ scope = NoArena
  /\ commands = <<>>

Next ==
  \/ \E a \in Arenas, b \in DOMAIN owner : BindRead(a, b) \/ BindReadWrite(a, b)
  \/ \E a \in Arenas, h \in issued : TakeReadWrite(a, h)
  \/ \E a \in Arenas : Begin(a)
  \/ \E call \in calls : \E args \in ArgLists(call) : Enqueue(call, args)
  \/ Settle

Spec == Init /\ [][Next]_vars
-----------------------------------------------------------------------------
(* Properties *)

\* The slots that hold allocations.
LeaseAt(x) == leases[x[1]][x[2]]
Held == {x \in UNION {{a} \X DOMAIN leases[a] : a \in Arenas} : LeaseAt(x) # Vacant}
Holders(b) == {x \in Held : LeaseAt(x).buffer = b}

\* An allocation is in one place: with the host, in an Arc that sets only
\* read, or owned by exactly one slot; none is lost on the way in or out.
OneOwner ==
  \A b \in DOMAIN owner :
    LET access == {LeaseAt(x).access : x \in Holders(b)}
    IN CASE owner[b] = "host"   -> Holders(b) = {}
         [] owner[b] = "shared" -> access \subseteq {"read"}
         [] owner[b] = "arena"  -> Cardinality(Holders(b)) = 1 /\ access = {"read_write"}

CallOf(command) == CHOOSE call \in calls : call.name = command.call
StageOf(command) == CallOf(command).stages[command.stage]

\* A recorded command writes no buffer that is any other of its operands, nor
\* one that the host has shared, although ReadWrite hands out read and write
\* handles of one slot and handles outlive the bindings they were made for.
OperandsDisjoint ==
  \A n \in DOMAIN commands :
    LET operands == StageOf(commands[n]).operands
        buffer(i) == commands[n].operands[operands[i].arg]
    IN \A i \in DOMAIN operands : operands[i].access = "write" =>
         /\ owner[buffer(i)] = "arena"
         /\ \A j \in DOMAIN operands \ {i} : buffer(j) # buffer(i)

\* A recorded command uses, for each argument, the buffer its handle was made
\* for: no handle of another set, and none left from before a take, ever
\* stands for a different buffer.
RunsOnItsHandles ==
  \A n \in DOMAIN commands :
    \A x \in DOMAIN commands[n].operands :
      commands[n].operands[x] = commands[n].args[x].buffer

\* A partial kernel is recorded only with the merge that reads its workspace:
\* once the first of two commands is submitted, no check of handles or
\* extents refuses the second.
PairComplete ==
  \A n \in DOMAIN commands :
    LET later == {k \in Recording(CallOf(commands[n])) : k > commands[n].stage}
    IN later # {} =>
         /\ n < Len(commands)
         /\ commands[n + 1].stage \in later
         /\ commands[n + 1].args = commands[n].args
-----------------------------------------------------------------------------
(* The inductive invariant behind them *)

\* The scope has the set, the sets hold slots, the slots hold allocations.
TypedSets ==
  /\ scope \in Arenas \cup {NoArena}
  /\ commands \in Seq(ToSet(commands)) /\ (scope = NoArena => commands = <<>>)
  /\ \E f \in Filled : calls = f.calls /\ owner \in [f.buffers -> {"host", "shared", "arena"}]
  /\ leases \in [Arenas -> Seq({Vacant} \cup
                               [access : {"read", "read_write"}, buffer : DOMAIN owner])]

\* A handle names a slot that holds its buffer, or held it until a take.
HandlesNameSlots ==
  \A h \in issued :
    /\ h.arena \in Arenas /\ h.slot \in DOMAIN leases[h.arena]
    /\ leases[h.arena][h.slot] # Vacant => leases[h.arena][h.slot].buffer = h.buffer

\* Who owns an allocation follows from the slots that hold it.
OwnersFollowLeases ==
  /\ \A x \in Held :
       owner[LeaseAt(x).buffer] = (IF LeaseAt(x).access = "read_write" THEN "arena" ELSE "shared")
  /\ \A x, y \in Held :
       LeaseAt(x).access = "read_write" /\ LeaseAt(x).buffer = LeaseAt(y).buffer => x = y
  /\ \A b \in DOMAIN owner : owner[b] = "arena" => \E x \in Held : LeaseAt(x).buffer = b

\* A recorded command is a stage of one of the calls, on handles the host had,
\* that the set in the scope still accepts.
AcceptedCommand(command) ==
  \E call \in calls :
    /\ call.name = command.call /\ command.stage \in Recording(call)
    /\ \A x \in Args(call) : command.args[x] \in issued
    /\ StageAccepted(scope, call.stages[command.stage], command.args)
    /\ command.operands = Resolved(scope, call.stages[command.stage], command.args)

CommandsAccepted == \A n \in DOMAIN commands : AcceptedCommand(commands[n])

Inductive ==
  TypedSets /\ HandlesNameSlots /\ OwnersFollowLeases /\ CommandsAccepted /\ PairComplete
=============================================================================
