-------------------------- MODULE BindingsProofs --------------------------
(***************************************************************************)
(* Proofs about the binding sets, for any sets, allocations, handles and   *)
(* list of the crate's operators.  The inductive invariant has three legs: *)
(* slots are only added and a lease is emptied but never replaced, so that *)
(* a handle names its buffer or nothing; the slots that hold an allocation *)
(* say who owns it; and the set in the scope accepts each recorded command *)
(* for as long as the scope has it.  Pairs follow from the operators: what *)
(* a partial kernel resolves contains all that its merge resolves.         *)
(***************************************************************************)
EXTENDS Bindings, FiniteSetTheorems, SequenceTheorems, TLAPS

(* The operators *)

\* What a stage resolves is an argument of its call.
LEMMA StageArgs ==
  ASSUME NEW call, NEW k \in DOMAIN call.stages, NEW i \in DOMAIN call.stages[k].operands
  PROVE  call.stages[k].operands[i].arg \in Args(call)
BY DEF Args, ToSet

\* Every operator but split-K decode and tiled prefill has one stage.
LEMMA OneStage ==
  ASSUME NEW call \in OperatorCalls, call # TiledPrefillCall, call # SplitKCall
  PROVE  DOMAIN call.stages = {1}
<1>1. CASE call \in {RmsNormCall(elem, packed) : elem \in {"f32", "f16", "bf16"}, packed \in BOOLEAN}
  BY <1>1 DEF RmsNormCall, Call
<1>2. CASE call \in {RopeCall, AppendCall, AppendTokensCall, GemmCall, SingleDecodeCall, PagedDecodeCall,
        PagedPrefillCall, RaggedPrefillCall}
  BY <1>2 DEF RopeCall, AppendCall, AppendTokensCall, GemmCall, SingleDecodeCall, PagedDecodeCall, PagedPrefillCall, RaggedPrefillCall, Call
<1> QED BY <1>1, <1>2 DEF OperatorCalls

\* Split-K decode: the partial, then the merge (enqueue_into).
LEMMA SplitKStages ==
  /\ SplitKCall.stages = <<SplitKCall.stages[1], MergeStage>>
  /\ Recording(SplitKCall) \subseteq {1, 2}
<1>1. SplitKCall.stages = <<SplitKCall.stages[1], MergeStage>>
  BY DEF SplitKCall, Call
<1> QED BY <1>1 DEF Recording

\* Tiled prefill: the check of all operands, which records nothing, then the
\* partial and the merge (enqueue_into).
LEMMA TiledStages ==
  /\ DOMAIN TiledPrefillCall.stages = {1, 2, 3}
  /\ TiledPrefillCall.stages[1].operands = RaggedOperands
  /\ TiledPrefillCall.stages[1].extents = RaggedExtents
  /\ TiledPrefillCall.stages[2] = TiledPartialStage
  /\ TiledPrefillCall.stages[3] = MergeStage
  /\ Recording(TiledPrefillCall) \subseteq {2, 3}
<1>1. TiledPrefillCall.stages = <<CheckStage(RaggedOperands, RaggedExtents, Qkvo), TiledPartialStage, MergeStage>>
  BY DEF TiledPrefillCall, Call
<1>2. ~TiledPrefillCall.stages[1].records
  BY <1>1 DEF CheckStage, Stage
<1>3. DOMAIN TiledPrefillCall.stages = {1, 2, 3}
  BY <1>1
<1>4. Recording(TiledPrefillCall) \subseteq {2, 3}
  BY <1>2, <1>3 DEF Recording
<1> QED BY <1>1, <1>3, <1>4 DEF CheckStage, Stage

\* The operands of the merge and the extents it accepts.
LEMMA MergeOperands ==
  /\ DOMAIN MergeStage.operands = {1, 2, 3}
  /\ MergeStage.operands[1] = Operand("workspace", "read", "f32")
  /\ MergeStage.operands[2] = Operand("output", "write", "bf16")
  /\ MergeStage.operands[3] = Operand("lse", "write", "f32")
  /\ MergeStage.extents["workspace"] = {"workspace"}
  /\ MergeStage.extents["output"] = {"q"}
  /\ MergeStage.extents["lse"] = {"lse"}
  /\ MergeStage.packed = {}
<1>1. MergeStage.operands = Signature(Rww, <<"workspace", "output", "lse">>, <<"f32", "bf16", "f32">>)
  BY DEF MergeStage, CommandStage, Stage
<1>2. /\ DOMAIN MergeStage.operands = {1, 2, 3}
      /\ MergeStage.operands[1] = Operand("workspace", "read", "f32")
      /\ MergeStage.operands[2] = Operand("output", "write", "bf16")
      /\ MergeStage.operands[3] = Operand("lse", "write", "f32")
  BY <1>1 DEF Signature, Rww, Rd, Wr
<1>3. /\ MergeStage.extents = [workspace |-> {"workspace"}, output |-> {"q"}, lse |-> {"lse"}]
      /\ MergeStage.packed = {}
  BY DEF MergeStage, CommandStage, Stage
<1> QED BY <1>2, <1>3

\* The operands that the split-K partial and the check before it resolve.
LEMMA SplitKOperands ==
  /\ {4, 5, 6} \subseteq DOMAIN SplitKCall.stages[1].operands
  /\ SplitKCall.stages[1].operands[4] = Operand("workspace", "write", "f32")
  /\ SplitKCall.stages[1].operands[5] = Operand("output", "write", "bf16")
  /\ SplitKCall.stages[1].operands[6] = Operand("lse", "write", "f32")
  /\ SplitKCall.stages[1].extents["workspace"] = {"workspace"}
  /\ SplitKCall.stages[1].extents["output"] = {"q"}
  /\ SplitKCall.stages[1].extents["lse"] = {"lse"}
<1>1. SplitKCall.stages[1].operands
        = Signature(Rrrwww, <<"query", "key", "value", "workspace", "output", "lse">>,
                    <<"bf16", "bf16", "bf16", "f32", "bf16", "f32">>)
  BY DEF SplitKCall, Call, CommandStage, Stage
<1>2. /\ {4, 5, 6} \subseteq DOMAIN SplitKCall.stages[1].operands
      /\ SplitKCall.stages[1].operands[4] = Operand("workspace", "write", "f32")
      /\ SplitKCall.stages[1].operands[5] = Operand("output", "write", "bf16")
      /\ SplitKCall.stages[1].operands[6] = Operand("lse", "write", "f32")
  BY <1>1 DEF Signature, Rrrwww, Rd, Wr
<1>3. SplitKCall.stages[1].extents
        = [query |-> {"q"}, key |-> {"kv"}, value |-> {"kv"},
           workspace |-> {"workspace"}, output |-> {"q"}, lse |-> {"lse"}]
  BY DEF SplitKCall, Call, CommandStage, Stage
<1> QED BY <1>2, <1>3

\* The operands that tiled prefill checks, and the workspace of its partial.
LEMMA RaggedFacts ==
  /\ {6, 7} \subseteq DOMAIN RaggedOperands
  /\ RaggedOperands[6] = Operand("output", "write", "bf16")
  /\ RaggedOperands[7] = Operand("lse", "write", "f32")
  /\ 6 \in DOMAIN TiledPartialStage.operands
  /\ TiledPartialStage.operands[6] = Operand("workspace", "write", "f32")
  /\ TiledPartialStage.extents = RaggedExtents
  /\ RaggedExtents["workspace"] = {"workspace"}
  /\ RaggedExtents["output"] = {"q"}
  /\ RaggedExtents["lse"] = {"lse"}
<1>2. /\ {6, 7} \subseteq DOMAIN RaggedOperands
      /\ RaggedOperands[6] = Operand("output", "write", "bf16")
      /\ RaggedOperands[7] = Operand("lse", "write", "f32")
  BY DEF RaggedOperands, Signature, Rrrrrww, Rd, Wr
<1>3. TiledPartialStage.operands
        = Signature(Rrrrrw, <<"query", "key", "value", "qo_indptr", "kv_indptr", "workspace">>,
                    <<"bf16", "bf16", "bf16", "i32", "i32", "f32">>)
      /\ TiledPartialStage.extents = RaggedExtents
  BY DEF TiledPartialStage, CommandStage, Stage
<1>4. /\ 6 \in DOMAIN TiledPartialStage.operands
      /\ TiledPartialStage.operands[6] = Operand("workspace", "write", "f32")
  BY <1>3 DEF Signature, Rrrrrw, Rd, Wr
<1>5. /\ RaggedExtents["workspace"] = {"workspace"}
      /\ RaggedExtents["output"] = {"q"}
      /\ RaggedExtents["lse"] = {"lse"}
  BY SMTT(30) DEF RaggedExtents
<1> QED BY <1>2, <1>3, <1>4, <1>5

\* Argument x names a slot of set a with a buffer that may be written.
WrittenSlot(a, args, x, elem, extent) ==
  /\ args[x].arena = a /\ args[x].slot \in DOMAIN leases[a]
  /\ leases[a][args[x].slot] # Vacant /\ leases[a][args[x].slot].access = "read_write"
  /\ leases[a][args[x].slot].buffer.elem = elem
  /\ leases[a][args[x].slot].buffer.extent = extent

\* Operand i of a stage is in a slot of set a that suits it.
OperandIn(a, stage, args, i) ==
  LET x == stage.operands[i].arg
      lease == leases[a][args[x].slot]
  IN /\ args[x].arena = a
     /\ args[x].slot \in DOMAIN leases[a]
     /\ lease # Vacant /\ lease.buffer.elem = stage.operands[i].elem
     /\ stage.operands[i].access = "write" => lease.access = "read_write"
     /\ lease.buffer.extent \in stage.extents[x]

\* What an accepted stage says of one of its operands.
LEMMA OperandAccepted ==
  ASSUME NEW a, NEW stage, NEW args, StageAccepted(a, stage, args),
         NEW i \in DOMAIN stage.operands
  PROVE  OperandIn(a, stage, args, i)
<1> DEFINE x == stage.operands[i].arg
<1>1. /\ args[x].arena = a
      /\ Slots(stage.operands, args)[i] = args[x].slot
      /\ Slots(stage.operands, args)[i] \in DOMAIN leases[a]
      /\ Resolvable(leases[a][args[x].slot], stage.operands[i])
  BY DEF StageAccepted, Resolves, ValidBindingRequest, Slots
<1>2. x \in DOMAIN Resolved(a, stage, args)
      /\ Resolved(a, stage, args)[x] = leases[a][args[x].slot].buffer
  BY SMTT(30) DEF Resolved
<1>3. Resolved(a, stage, args)[x].extent \in stage.extents[x]
  BY <1>2 DEF StageAccepted, Accepted
<1> QED BY <1>1, <1>2, <1>3 DEF Resolvable, OperandIn

\* The same of an operand that is written, by its name.
LEMMA WrittenOperand ==
  ASSUME NEW a, NEW stage, NEW args, StageAccepted(a, stage, args),
         NEW i \in DOMAIN stage.operands, NEW x, NEW elem, NEW extent,
         stage.operands[i] = Operand(x, "write", elem), stage.extents[x] = {extent}
  PROVE  WrittenSlot(a, args, x, elem, extent)
<1>1. /\ stage.operands[i].arg = x /\ stage.operands[i].access = "write"
      /\ stage.operands[i].elem = elem
  BY DEF Operand
<1>2. OperandIn(a, stage, args, i)
  BY OperandAccepted
<1> QED BY <1>1, <1>2 DEF OperandIn, WrittenSlot

\* Two operands of an accepted stage are two slots.
LEMMA OperandsApart ==
  ASSUME NEW a, NEW stage, NEW args, StageAccepted(a, stage, args),
         NEW i \in DOMAIN stage.operands, NEW j \in DOMAIN stage.operands, i # j
  PROVE  args[stage.operands[i].arg].slot # args[stage.operands[j].arg].slot
BY DEF StageAccepted, Resolves, ValidBindingRequest, Slots, IsInjective

\* What the merge asks of its three operands.
LEMMA MergeAccepted ==
  ASSUME NEW a, NEW args,
         WrittenSlot(a, args, "workspace", "f32", "workspace"),
         WrittenSlot(a, args, "output", "bf16", "q"),
         WrittenSlot(a, args, "lse", "f32", "lse")
  PROVE  StageAccepted(a, MergeStage, args)
<1> DEFINE ops == MergeStage.operands
<1>1. /\ DOMAIN ops = {1, 2, 3}
      /\ ops[1].arg = "workspace" /\ ops[2].arg = "output" /\ ops[3].arg = "lse"
      /\ ops[1].elem = "f32" /\ ops[2].elem = "bf16" /\ ops[3].elem = "f32"
  BY MergeOperands DEF Operand
<1> HIDE DEF ops
<1>2. /\ DOMAIN Slots(ops, args) = {1, 2, 3}
      /\ Slots(ops, args)[1] = args["workspace"].slot
      /\ Slots(ops, args)[2] = args["output"].slot
      /\ Slots(ops, args)[3] = args["lse"].slot
  BY <1>1 DEF Slots
<1>3. IsInjective(Slots(ops, args))
  BY <1>2 DEF WrittenSlot, IsInjective
<1>4. \A i \in DOMAIN ops : args[ops[i].arg].arena = a
  BY <1>1 DEF WrittenSlot
<1>5. \A i \in DOMAIN ops : Slots(ops, args)[i] \in DOMAIN leases[a]
  BY <1>1, <1>2 DEF WrittenSlot
<1>6. \A i \in DOMAIN ops : Resolvable(leases[a][Slots(ops, args)[i]], ops[i])
  BY <1>1, <1>2 DEF WrittenSlot, Resolvable
<1>7. Resolves(a, MergeStage, args)
  BY <1>3, <1>4, <1>5, <1>6 DEF Resolves, ValidBindingRequest, ops
<1>8. /\ DOMAIN Resolved(a, MergeStage, args) = {"workspace", "output", "lse"}
      /\ \A x \in {"workspace", "output", "lse"} :
           Resolved(a, MergeStage, args)[x] = leases[a][args[x].slot].buffer
  <2>1. {ops[i].arg : i \in DOMAIN ops} = {"workspace", "output", "lse"}
    BY <1>1
  <2> QED BY <2>1 DEF Resolved, ops
<1>9. Accepted(MergeStage, Resolved(a, MergeStage, args))
  BY <1>8, MergeOperands DEF Accepted, WrittenSlot
<1> QED BY <1>7, <1>9 DEF StageAccepted

\* The partial of split-K resolves all that its merge resolves.
LEMMA SplitKPairs ==
  ASSUME NEW a, NEW args, StageAccepted(a, SplitKCall.stages[1], args)
  PROVE  StageAccepted(a, MergeStage, args)
<1>1. WrittenSlot(a, args, "workspace", "f32", "workspace")
  BY SplitKOperands, WrittenOperand
<1>2. WrittenSlot(a, args, "output", "bf16", "q")
  BY SplitKOperands, WrittenOperand
<1>3. WrittenSlot(a, args, "lse", "f32", "lse")
  BY SplitKOperands, WrittenOperand
<1> QED BY <1>1, <1>2, <1>3, MergeAccepted

\* Tiled prefill checks the operands of its merge before the partial; the
\* workspace is neither of them, by its element type and its extent.
LEMMA TiledPairs ==
  ASSUME NEW a, NEW args, StageAccepted(a, TiledPrefillCall.stages[1], args),
         StageAccepted(a, TiledPrefillCall.stages[2], args)
  PROVE  StageAccepted(a, MergeStage, args)
<1>1. WrittenSlot(a, args, "workspace", "f32", "workspace")
  BY TiledStages, RaggedFacts, WrittenOperand
<1> PICK check : check = TiledPrefillCall.stages[1]
  OBVIOUS
<1>2. check.operands = RaggedOperands /\ check.extents = RaggedExtents
  BY TiledStages
<1>3. WrittenSlot(a, args, "output", "bf16", "q")
  BY <1>2, RaggedFacts, WrittenOperand
<1>4. WrittenSlot(a, args, "lse", "f32", "lse")
  BY <1>2, RaggedFacts, WrittenOperand
<1> QED BY <1>1, <1>3, <1>4, MergeAccepted
-----------------------------------------------------------------------------
(* What an enqueue records *)

\* The recording stages before every refused one.
Done(a, call, args) ==
  {k \in Recording(call) :
     \A q \in {r \in DOMAIN call.stages : ~StageAccepted(a, call.stages[r], args)} : k < q}

\* The command of one stage.
Entry(a, call, args, k) ==
  [call |-> call.name, stage |-> k, args |-> args, operands |-> Resolved(a, call.stages[k], args)]

\* The commands of a call are recorded all or not at all, and there are at
\* most two.
LEMMA AllOrNothing ==
  ASSUME NEW call \in OperatorCalls, NEW a, NEW args
  PROVE  /\ \E k \in {1, 2} : Recording(call) \subseteq {k, k + 1}
         /\ Done(a, call, args) \in {{}, Recording(call)}
<1>1. Recording(call) \subseteq DOMAIN call.stages
  BY DEF Recording
<1> PICK refused : refused = {r \in DOMAIN call.stages : ~StageAccepted(a, call.stages[r], args)}
  OBVIOUS
<1>2. Done(a, call, args) = {k \in Recording(call) : \A q \in refused : k < q}
  BY DEF Done
<1>3. CASE call # TiledPrefillCall /\ call # SplitKCall
  <2>1. DOMAIN call.stages = {1}
    BY <1>3, OneStage
  <2>2. Recording(call) \subseteq {1}
    BY <1>1, <2>1
  <2>3. CASE 1 \in refused
    <3>1. ~(1 < 1)
      OBVIOUS
    <3> QED BY <1>2, <2>2, <2>3, <3>1
  <2>4. CASE refused = {}
    BY <1>2, <2>2, <2>4
  <2> QED BY <2>1, <2>2, <2>3, <2>4
<1>4. CASE call = SplitKCall
  <2>1. DOMAIN call.stages = {1, 2} /\ call.stages[2] = MergeStage
        /\ Recording(call) \subseteq {1, 2}
    BY <1>4, SplitKStages
  <2>2. 2 \in refused => 1 \in refused
    BY <1>4, <2>1, SplitKPairs
  <2>3. CASE 1 \in refused
    <3>1. ~(1 < 1) /\ ~(2 < 1)
      OBVIOUS
    <3> QED BY <1>2, <2>1, <2>3, <3>1
  <2>4. CASE refused = {}
    BY <1>2, <2>1, <2>4
  <2> QED BY <2>1, <2>2, <2>3, <2>4
<1>5. CASE call = TiledPrefillCall
  <2>1. DOMAIN call.stages = {1, 2, 3} /\ call.stages[3] = MergeStage
        /\ Recording(call) \subseteq {2, 3}
    BY <1>5, TiledStages
  <2>2. 3 \in refused => 1 \in refused \/ 2 \in refused
    BY <1>5, <2>1, TiledPairs
  <2>3. CASE 1 \in refused \/ 2 \in refused
    <3>1. ~(2 < 1) /\ ~(3 < 1) /\ ~(2 < 2) /\ ~(3 < 2)
      OBVIOUS
    <3> QED BY <1>2, <2>1, <2>3, <3>1
  <2>4. CASE refused = {}
    BY <1>2, <2>1, <2>4
  <2> QED BY <2>1, <2>2, <2>3, <2>4
<1> QED BY <1>3, <1>4, <1>5

\* The i-th member of a set of numbers.
RankOf(D, i) == CHOOSE j \in D : Cardinality({q \in D : q <= j}) = i

\* The members of a set of one or two successive numbers, by their rank.
LEMMA Ranks ==
  ASSUME NEW k \in Nat, NEW D \in SUBSET {k, k + 1}
  PROVE  /\ D = {} => Cardinality(D) = 0
         /\ \A x : D = {x} => Cardinality(D) = 1 /\ RankOf(D, 1) = x
         /\ D = {k, k + 1} => Cardinality(D) = 2 /\ RankOf(D, 1) = k /\ RankOf(D, 2) = k + 1
<1>1. Cardinality({}) = 0 /\ \A x : IsFiniteSet({x}) /\ Cardinality({x}) = 1
  BY FS_EmptySet, FS_Singleton
<1>2. ASSUME NEW x, D = {x} PROVE Cardinality(D) = 1 /\ RankOf(D, 1) = x
  <2>1. x \in D /\ x \in Nat
    BY <1>2
  <2>2. {q \in D : q <= x} = {x}
    BY <1>2, <2>1
  <2>3. \E j \in D : Cardinality({q \in D : q <= j}) = 1
    BY <1>1, <2>1, <2>2
  <2>4. RankOf(D, 1) \in D
    BY <2>3 DEF RankOf
  <2> QED BY <1>1, <1>2, <2>4
<1>3. ASSUME D = {k, k + 1}
      PROVE  Cardinality(D) = 2 /\ RankOf(D, 1) = k /\ RankOf(D, 2) = k + 1
  <2>1. Cardinality(D) = 2
    <3>1. D = {k} \cup {k + 1} /\ k + 1 \notin {k}
      BY <1>3
    <3>2. Cardinality({k} \cup {k + 1}) = Cardinality({k}) + 1
      BY <1>1, <3>1, FS_AddElement
    <3>3. Cardinality(D) = Cardinality({k}) + 1
      BY <3>1, <3>2, Zenon
    <3>4. Cardinality({k}) = 1
      BY <1>1
    <3> QED BY <3>3, <3>4
  <2>2. {q \in D : q <= k} = {k} /\ {q \in D : q <= k + 1} = D
    BY <1>3
  <2>3. Cardinality({q \in D : q <= k}) = 1 /\ Cardinality({q \in D : q <= k + 1}) = 2
    BY <1>1, <2>1, <2>2
  <2>4. k \in D /\ k + 1 \in D /\ \A j \in D : j = k \/ j = k + 1
    BY <1>3
  <2>5. \A j \in D : Cardinality({q \in D : q <= j}) = 1 <=> j = k
    BY <2>3, <2>4
  <2>6. \A j \in D : Cardinality({q \in D : q <= j}) = 2 <=> j = k + 1
    BY <2>3, <2>4
  <2>7. RankOf(D, 1) = k
    BY <2>4, <2>5 DEF RankOf
  <2>8. RankOf(D, 2) = k + 1
    BY <2>4, <2>6 DEF RankOf
  <2> QED BY <2>1, <2>7, <2>8
<1> QED BY <1>1, <1>2, <1>3

\* The recorded commands, in the order of their stages.
LEMMA RecordedFacts ==
  ASSUME NEW call \in OperatorCalls, NEW a, NEW args
  PROVE  /\ Recorded(a, call, args) \in Seq(ToSet(Recorded(a, call, args)))
         /\ \A i \in DOMAIN Recorded(a, call, args) :
              \E k \in Done(a, call, args) :
                /\ Recorded(a, call, args)[i] = Entry(a, call, args, k)
                /\ {q \in Recording(call) : q > k} # {} =>
                     /\ i + 1 \in DOMAIN Recorded(a, call, args)
                     /\ \E q \in Recording(call) :
                          q > k /\ Recorded(a, call, args)[i + 1] = Entry(a, call, args, q)
<1> PICK D : D = Done(a, call, args)
  OBVIOUS
<1> PICK k \in {1, 2} : Recording(call) \subseteq {k, k + 1}
  BY AllOrNothing
<1>1. D \in {{}, Recording(call)} /\ D \in SUBSET {k, k + 1} /\ k \in Nat
  BY AllOrNothing
<1> PICK s : s = Recorded(a, call, args)
  OBVIOUS
<1>2. s = [i \in 1 .. Cardinality(D) |-> Entry(a, call, args, RankOf(D, i))]
  BY DEF Recorded, Done, Entry, RankOf
<1>3. /\ D = {} => Cardinality(D) = 0
      /\ \A x : D = {x} => Cardinality(D) = 1 /\ RankOf(D, 1) = x
      /\ D = {k, k + 1} => Cardinality(D) = 2 /\ RankOf(D, 1) = k /\ RankOf(D, 2) = k + 1
  BY <1>1, Ranks
<1>0. D = {} \/ D = {k} \/ D = {k + 1} \/ D = {k, k + 1}
  BY <1>1
<1>4. s \in Seq(ToSet(s))
  <2>1. s \in [1 .. Cardinality(D) -> ToSet(s)]
    BY <1>2 DEF ToSet
  <2>2. Cardinality(D) \in Nat
    BY <1>0, <1>3
  <2> QED BY <2>1, <2>2, SeqDef
<1>5. ASSUME NEW i \in DOMAIN s
      PROVE  \E j \in D : /\ s[i] = Entry(a, call, args, j)
                          /\ {q \in Recording(call) : q > j} # {} =>
                               /\ i + 1 \in DOMAIN s
                               /\ \E q \in Recording(call) :
                                    q > j /\ s[i + 1] = Entry(a, call, args, q)
  <2>1. i \in 1 .. Cardinality(D) /\ s[i] = Entry(a, call, args, RankOf(D, i))
    BY <1>2
  <2>2. D = Recording(call)
    BY <1>1, <1>3, <2>1
  <2>3. CASE D = {k, k + 1}
    <3>1. i = 1 \/ i = 2
      BY <1>3, <2>1, <2>3
    <3>2. CASE i = 1
      <4>0. Cardinality(D) = 2 /\ RankOf(D, 1) = k /\ RankOf(D, 2) = k + 1
        BY <1>3, <2>3
      <4>a. 2 \in DOMAIN s /\ s[2] = Entry(a, call, args, RankOf(D, 2))
        BY <1>2, <4>0
      <4>1. 2 \in DOMAIN s /\ s[2] = Entry(a, call, args, k + 1) /\ RankOf(D, i) = k
        BY <3>2, <4>0, <4>a
      <4>2. k + 1 > k
        OBVIOUS
      <4> QED BY <2>1, <2>2, <2>3, <3>2, <4>1, <4>2
    <3>3. CASE i = 2
      <4>1. RankOf(D, i) = k + 1
        BY <1>3, <2>3, <3>3
      <4>2. {q \in Recording(call) : q > k + 1} = {}
        BY <2>2, <2>3
      <4> QED BY <2>1, <2>3, <4>1, <4>2
    <3> QED BY <3>1, <3>2, <3>3
  <2>4. CASE \E x : D = {x}
    <3> PICK x : D = {x}
      BY <2>4
    <3>1. i = 1 /\ RankOf(D, i) = x /\ x \in Nat
      BY <1>1, <1>3, <2>1
    <3>2. {q \in D : q > x} = {}
      BY <3>1
    <3> QED BY <2>1, <2>2, <3>1, <3>2
  <2> QED BY <1>0, <1>3, <2>1, <2>3, <2>4
<1> QED BY <1>4, <1>5
-----------------------------------------------------------------------------
(* The invariant *)

\* A sequence over a set is one over any larger set.
LEMMA SeqMonotone ==
  ASSUME NEW S, NEW T, S \subseteq T
  PROVE  Seq(S) \subseteq Seq(T)
BY SeqDef

\* An element of a sequence is of its set.
LEMMA SeqElement ==
  ASSUME NEW S, NEW s \in Seq(S), NEW i \in DOMAIN s
  PROVE  s[i] \in S
OBVIOUS

\* What a handle says of itself.
LEMMA HandleFields ==
  ASSUME NEW a, NEW i, NEW b, NEW access
  PROVE  /\ Handle(a, i, b, access).arena = a /\ Handle(a, i, b, access).slot = i
         /\ Handle(a, i, b, access).buffer = b
BY DEF Handle

\* What a slot with an allocation says of it.
LEMMA LeaseFields ==
  ASSUME NEW b, NEW access \in {"read", "read_write"}
  PROVE  /\ LeaseOf(b, access).access = access /\ LeaseOf(b, access).buffer = b
         /\ LeaseOf(b, access) # Vacant
BY DEF LeaseOf, Vacant

\* A slot that holds an allocation.
LEMMA HeldSlot ==
  ASSUME NEW x
  PROVE  x \in Held <=> \E a \in Arenas : \E i \in DOMAIN leases[a] :
                          x = <<a, i>> /\ leases[a][i] # Vacant
BY DEF Held, LeaseAt

\* What a slot may hold.
LEMMA LeaseTyped ==
  ASSUME TypedSets, NEW a \in Arenas, NEW i \in DOMAIN leases[a], leases[a][i] # Vacant
  PROVE  /\ leases[a][i].access \in {"read", "read_write"}
         /\ leases[a][i].buffer \in DOMAIN owner
         /\ leases[a][i] = LeaseOf(leases[a][i].buffer, leases[a][i].access)
<1>1. leases[a] \in Seq({Vacant} \cup [access : {"read", "read_write"}, buffer : DOMAIN owner])
  BY DEF TypedSets
<1>2. leases[a][i] \in [access : {"read", "read_write"}, buffer : DOMAIN owner]
  BY <1>1
<1> QED BY <1>2 DEF LeaseOf

\* The assumption on the fills, of one of them.
LEMMA FilledFacts ==
  ASSUME NEW f \in Filled
  PROVE  /\ f.calls \subseteq OperatorCalls
         /\ \A c, d \in f.calls : c.name = d.name => c = d
         /\ f.leases \in [Arenas -> Seq([access : {"read", "read_write"}, buffer : f.buffers])]
         /\ \A a, c \in Arenas : \A i \in DOMAIN f.leases[a], j \in DOMAIN f.leases[c] :
              f.leases[a][i].access = "read_write"
              /\ f.leases[a][i].buffer = f.leases[c][j].buffer => a = c /\ i = j
BY FilledAssumption, Zenon

\* A fill of the sets by bindings starts the invariant.
LEMMA InitInductive == Init => Inductive
<1> SUFFICES ASSUME Init PROVE Inductive
  OBVIOUS
<1> PICK f \in Filled :
      /\ calls = f.calls /\ leases = f.leases /\ issued = FilledHandles(f)
      /\ owner = [b \in f.buffers |-> FilledOwner(f, b)]
  BY DEF Init
<1>1. scope = NoArena /\ commands = <<>>
  BY DEF Init
<1>2. f.leases \in [Arenas -> Seq([access : {"read", "read_write"}, buffer : f.buffers])]
  BY FilledFacts
<1>3. owner \in [f.buffers -> {"host", "shared", "arena"}]
  BY DEF FilledOwner
<1>4. ASSUME NEW a \in Arenas, NEW i \in DOMAIN leases[a]
      PROVE  /\ leases[a][i].access \in {"read", "read_write"} /\ leases[a][i].buffer \in f.buffers
             /\ leases[a][i] = LeaseOf(leases[a][i].buffer, leases[a][i].access)
  <2>0. leases[a] \in Seq([access : {"read", "read_write"}, buffer : f.buffers])
    BY <1>2
  <2>1. leases[a][i] \in [access : {"read", "read_write"}, buffer : f.buffers]
    BY <2>0, SeqElement
  <2> QED BY <2>1 DEF LeaseOf
<1>9. \A a, c \in Arenas : \A i \in DOMAIN leases[a], j \in DOMAIN leases[c] :
        leases[a][i].access = "read_write" /\ leases[a][i].buffer = leases[c][j].buffer
          => a = c /\ i = j
  <2>1. \A a, c \in Arenas : \A i \in DOMAIN f.leases[a], j \in DOMAIN f.leases[c] :
          f.leases[a][i].access = "read_write"
          /\ f.leases[a][i].buffer = f.leases[c][j].buffer => a = c /\ i = j
    BY FilledFacts
  <2> SUFFICES ASSUME NEW a \in Arenas, NEW c \in Arenas,
                      NEW i \in DOMAIN leases[a], NEW j \in DOMAIN leases[c],
                      leases[a][i].access = "read_write",
                      leases[a][i].buffer = leases[c][j].buffer
               PROVE  a = c /\ i = j
    OBVIOUS
  <2>2. f.leases[a] = leases[a] /\ f.leases[c] = leases[c]
    OBVIOUS
  <2> QED BY <2>1, <2>2
<1>5. TypedSets
  <2>1. leases \in [Arenas -> Seq({Vacant} \cup
                               [access : {"read", "read_write"}, buffer : DOMAIN owner])]
    <3>1. Seq([access : {"read", "read_write"}, buffer : f.buffers])
            \subseteq Seq({Vacant} \cup [access : {"read", "read_write"}, buffer : f.buffers])
      BY SeqMonotone
    <3>2. DOMAIN owner = f.buffers
      BY <1>3
    <3> QED BY <1>2, <3>1, <3>2
  <2>2. commands \in Seq(ToSet(commands))
    BY <1>1
  <2> QED BY <1>1, <1>3, <2>1, <2>2 DEF TypedSets
<1>6. HandlesNameSlots
  <2> SUFFICES ASSUME NEW h \in issued
               PROVE  /\ h.arena \in Arenas /\ h.slot \in DOMAIN leases[h.arena]
                      /\ leases[h.arena][h.slot].buffer = h.buffer
    BY DEF HandlesNameSlots
  <2> PICK a \in Arenas : h \in {Handle(a, i, f.leases[a][i].buffer, f.leases[a][i].access) :
                                   i \in DOMAIN f.leases[a]}
    BY DEF FilledHandles
  <2> PICK i \in DOMAIN f.leases[a] : h = Handle(a, i, f.leases[a][i].buffer, f.leases[a][i].access)
    OBVIOUS
  <2>1. h.arena = a /\ h.slot = i /\ h.buffer = f.leases[a][i].buffer
    BY HandleFields
  <2> QED BY <2>1
<1>7. OwnersFollowLeases
  <2>1. ASSUME NEW x \in Held
        PROVE  \E a \in Arenas : \E i \in DOMAIN leases[a] : x = <<a, i>> /\ LeaseAt(x) = leases[a][i]
    BY HeldSlot DEF LeaseAt
  <2>2. ASSUME NEW x \in Held, NEW y \in Held,
               LeaseAt(x).access = "read_write", LeaseAt(x).buffer = LeaseAt(y).buffer
        PROVE  x = y
    <3> PICK a \in Arenas : \E i \in DOMAIN leases[a] : x = <<a, i>> /\ LeaseAt(x) = leases[a][i]
      BY <2>1
    <3> PICK i \in DOMAIN leases[a] : x = <<a, i>> /\ LeaseAt(x) = leases[a][i]
      OBVIOUS
    <3> PICK c \in Arenas : \E j \in DOMAIN leases[c] : y = <<c, j>> /\ LeaseAt(y) = leases[c][j]
      BY <2>1
    <3> PICK j \in DOMAIN leases[c] : y = <<c, j>> /\ LeaseAt(y) = leases[c][j]
      OBVIOUS
    <3>1. a = c /\ i = j
      BY <1>9, <2>2, SMTT(30)
    <3> QED BY <3>1
  <2>3. ASSUME NEW x \in Held
        PROVE  owner[LeaseAt(x).buffer] = (IF LeaseAt(x).access = "read_write" THEN "arena" ELSE "shared")
    <3> PICK a \in Arenas : \E i \in DOMAIN leases[a] : x = <<a, i>> /\ LeaseAt(x) = leases[a][i]
      BY <2>1
    <3> PICK i \in DOMAIN leases[a] : x = <<a, i>> /\ LeaseAt(x) = leases[a][i]
      OBVIOUS
    <3> PICK b, l : b = leases[a][i].buffer /\ l = leases[a][i].access
      OBVIOUS
    <3>1. b \in f.buffers /\ l \in {"read", "read_write"} /\ leases[a][i] = LeaseOf(b, l)
      BY <1>4
    <3>2. CASE l = "read_write"
      BY <3>1, <3>2, SMTT(30) DEF FilledOwner
    <3>3. CASE l = "read"
      <4>1. ASSUME NEW c \in Arenas, NEW j \in DOMAIN leases[c]
            PROVE  leases[c][j] # LeaseOf(b, "read_write")
        <5> SUFFICES ASSUME leases[c][j] = LeaseOf(b, "read_write") PROVE FALSE
          OBVIOUS
        <5>1. leases[c][j].access = "read_write" /\ leases[c][j].buffer = b
          BY LeaseFields
        <5>2. c = a /\ j = i
          BY <1>9, <5>1
        <5> QED BY <3>3, <5>1, <5>2
      <4> QED BY <3>1, <3>3, <4>1 DEF FilledOwner
    <3> QED BY <3>1, <3>2, <3>3
  <2>4. ASSUME NEW b \in DOMAIN owner, owner[b] = "arena"
        PROVE  \E x \in Held : LeaseAt(x).buffer = b
    <3>1. \E a \in Arenas : \E i \in DOMAIN f.leases[a] : f.leases[a][i] = LeaseOf(b, "read_write")
      BY <1>3, <2>4 DEF FilledOwner
    <3> PICK a \in Arenas : \E i \in DOMAIN leases[a] : leases[a][i] = LeaseOf(b, "read_write")
      BY <3>1
    <3> PICK i \in DOMAIN leases[a] : leases[a][i] = LeaseOf(b, "read_write")
      OBVIOUS
    <3>2. leases[a][i] # Vacant /\ leases[a][i].buffer = b
      BY LeaseFields
    <3>3. <<a, i>> \in Held /\ LeaseAt(<<a, i>>).buffer = b
      BY <3>2, HeldSlot DEF LeaseAt
    <3> QED BY <3>3
  <2> QED BY <2>2, <2>3, <2>4 DEF OwnersFollowLeases
<1>8. CommandsAccepted /\ PairComplete
  BY <1>1 DEF CommandsAccepted, PairComplete
<1> QED BY <1>5, <1>6, <1>7, <1>8 DEF Inductive

\* What is accepted depends on the set in the scope alone.
LEMMA AcceptanceStays ==
  ASSUME scope' = scope, leases'[scope] = leases[scope]
  PROVE  /\ \A stage, args : StageAccepted(scope, stage, args)' <=> StageAccepted(scope, stage, args)
         /\ \A stage, args : Resolved(scope, stage, args)' = Resolved(scope, stage, args)
<1>1. \A operands, args :
        ValidBindingRequest(scope, operands, args)' <=> ValidBindingRequest(scope, operands, args)
  BY DEF ValidBindingRequest, Slots
<1>2. \A stage, args : Resolves(scope, stage, args)' <=> Resolves(scope, stage, args)
  <2> TAKE stage, args
  <2>1. ValidBindingRequest(scope, stage.operands, args)'
          <=> ValidBindingRequest(scope, stage.operands, args)
    BY <1>1
  <2>2. \A i : leases'[scope'][Slots(stage.operands, args)[i]]
              = leases[scope][Slots(stage.operands, args)[i]]
    OBVIOUS
  <2> QED BY <2>1, <2>2 DEF Resolves
<1>3. \A stage, args : Resolved(scope, stage, args)' = Resolved(scope, stage, args)
  BY DEF Resolved
<1>4. \A stage, args : StageAccepted(scope, stage, args)' <=> StageAccepted(scope, stage, args)
  BY <1>2, <1>3 DEF StageAccepted, Accepted
<1> QED BY <1>3, <1>4

\* A command keeps what was checked of it while the set in the scope stays.
LEMMA CommandStays ==
  ASSUME scope' = scope, leases'[scope] = leases[scope], calls' = calls, issued \subseteq issued',
         NEW command, AcceptedCommand(command)
  PROVE  AcceptedCommand(command)'
<1> PICK call \in calls :
      /\ call.name = command.call /\ command.stage \in Recording(call)
      /\ \A x \in Args(call) : command.args[x] \in issued
      /\ StageAccepted(scope, call.stages[command.stage], command.args)
      /\ command.operands = Resolved(scope, call.stages[command.stage], command.args)
  BY DEF AcceptedCommand
<1>1. /\ StageAccepted(scope, call.stages[command.stage], command.args)'
      /\ command.operands = Resolved(scope, call.stages[command.stage], command.args)'
  BY AcceptanceStays
<1> QED BY <1>1 DEF AcceptedCommand

\* The commands keep what was checked while the set in the scope stays.
LEMMA CommandsStay ==
  ASSUME TypedSets, CommandsAccepted, UNCHANGED <<calls, commands>>, issued \subseteq issued',
         scope # NoArena => scope' = scope /\ leases'[scope] = leases[scope]
  PROVE  CommandsAccepted'
<1>1. CASE scope = NoArena
  BY <1>1 DEF TypedSets, CommandsAccepted
<1>2. CASE scope # NoArena
  <2>1. \A command : AcceptedCommand(command) => AcceptedCommand(command)'
    BY <1>2, CommandStays
  <2> QED BY <2>1 DEF CommandsAccepted
<1> QED BY <1>1, <1>2

\* The pairs stay while the commands do.
LEMMA PairsStay ==
  ASSUME PairComplete, UNCHANGED <<calls, commands>>
  PROVE  PairComplete'
<1>1. \A command : CallOf(command)' = CallOf(command)
  BY DEF CallOf
<1> QED BY <1>1 DEF PairComplete, Recording

\* One more slot: what the sets hold afterwards.
LEMMA SlotAdded ==
  ASSUME TypedSets, NEW a \in Arenas, NEW b \in DOMAIN owner,
         NEW access \in {"read", "read_write"}, Bind(a, b, access),
         DOMAIN owner' = DOMAIN owner
  PROVE  /\ leases' \in [Arenas -> Seq({Vacant} \cup
                               [access : {"read", "read_write"}, buffer : DOMAIN owner'])]
         /\ \A c \in Arenas : c # a => leases'[c] = leases[c]
         /\ Len(leases[a]) + 1 \notin DOMAIN leases[a]
         /\ DOMAIN leases'[a] = DOMAIN leases[a] \cup {Len(leases[a]) + 1}
         /\ \A i \in DOMAIN leases[a] : leases'[a][i] = leases[a][i]
         /\ leases'[a][Len(leases[a]) + 1] = LeaseOf(b, access)
<1> DEFINE S == {Vacant} \cup [access : {"read", "read_write"}, buffer : DOMAIN owner]
<1>1. leases \in [Arenas -> Seq(S)]
  BY DEF TypedSets
<1>2. LeaseOf(b, access) \in S
  BY DEF LeaseOf
<1> HIDE DEF S
<1> PICK s, n, l : s \in Seq(S) /\ s = leases[a] /\ n = Len(s) + 1 /\ l = LeaseOf(b, access)
  BY <1>1
<1> PICK t : t = WithLease(a, n, l)
  OBVIOUS
<1>3. DOMAIN s = 1 .. n - 1 /\ n \in Nat \ {0} /\ Len(s) = n - 1
  OBVIOUS
<1>4. /\ DOMAIN t = (1 .. n - 1) \cup {n} /\ t[n] = l
      /\ \A i \in 1 .. n - 1 : t[i] = s[i]
  BY <1>3 DEF WithLease
<1>5. t \in Seq(S)
  <2>1. t = [i \in DOMAIN t |-> t[i]]
    BY DEF WithLease
  <2>2. DOMAIN t = 1 .. n
    <3>1. n \in Nat \ {0}
      BY <1>3
    <3>2. (1 .. n - 1) \cup {n} = 1 .. n
      BY <3>1
    <3>3. DOMAIN t = (1 .. n - 1) \cup {n}
      BY <1>4
    <3> QED BY <3>2, <3>3, Zenon
  <2>3. \A i \in 1 .. n - 1 : s[i] \in S
    BY <1>3
  <2>4. \A i \in 1 .. n : t[i] \in S
    BY <1>2, <1>3, <1>4, <2>3
  <2>5. t \in [1 .. n -> S]
    BY <2>1, <2>2, <2>4
  <2> QED BY <1>3, <2>5, SeqDef
<1>6. leases' = [leases EXCEPT ![a] = t]
  BY DEF Bind, NextSlot
<1>7. leases' \in [Arenas -> Seq(S)]
  BY <1>1, <1>5, <1>6
<1>8. leases'[a] = t /\ \A c \in Arenas : c # a => leases'[c] = leases[c]
  BY <1>1, <1>6
<1> QED BY <1>3, <1>4, <1>7, <1>8 DEF S

\* A binding moves an allocation that no slot may write into a new slot.
LEMMA BindKeeps ==
  ASSUME Inductive, NEW a \in Arenas, NEW b \in DOMAIN owner,
         NEW access \in {"read", "read_write"}, Bind(a, b, access),
         owner[b] = "host" \/ (access = "read" /\ owner[b] = "shared"),
         NEW o, o = (IF access = "read_write" THEN "arena" ELSE "shared"),
         owner' = [owner EXCEPT ![b] = o]
  PROVE  Inductive'
<1> PICK n : n = Len(leases[a]) + 1
  OBVIOUS
<1> PICK f \in Filled : calls = f.calls /\ owner \in [f.buffers -> {"host", "shared", "arena"}]
  BY DEF Inductive, TypedSets
<1>1. /\ owner' \in [f.buffers -> {"host", "shared", "arena"}] /\ DOMAIN owner' = DOMAIN owner
      /\ owner'[b] = (IF access = "read_write" THEN "arena" ELSE "shared")
      /\ \A d \in DOMAIN owner : d # b => owner'[d] = owner[d]
  OBVIOUS
<1>2. /\ UNCHANGED <<calls, scope, commands>> /\ scope # a
      /\ issued' = issued \cup {Handle(a, n, b, access)}
  BY DEF Bind, NextSlot
<1>3. /\ leases' \in [Arenas -> Seq({Vacant} \cup
                               [access : {"read", "read_write"}, buffer : DOMAIN owner'])]
      /\ \A c \in Arenas : c # a => leases'[c] = leases[c]
      /\ n \notin DOMAIN leases[a] /\ DOMAIN leases'[a] = DOMAIN leases[a] \cup {n}
      /\ \A i \in DOMAIN leases[a] : leases'[a][i] = leases[a][i]
      /\ leases'[a][n] = LeaseOf(b, access)
  BY <1>1, SlotAdded DEF Inductive
<1>4. TypedSets'
  BY <1>1, <1>2, <1>3 DEF Inductive, TypedSets
<1>5. \A c \in Arenas : /\ DOMAIN leases[c] \subseteq DOMAIN leases'[c]
                        /\ \A i \in DOMAIN leases[c] : leases'[c][i] = leases[c][i]
  BY <1>3
<1>6. HandlesNameSlots'
  <2> SUFFICES ASSUME NEW h \in issued'
               PROVE  /\ h.arena \in Arenas /\ h.slot \in DOMAIN leases'[h.arena]
                      /\ leases'[h.arena][h.slot] # Vacant
                           => leases'[h.arena][h.slot].buffer = h.buffer
    BY DEF HandlesNameSlots
  <2>1. CASE h \in issued
    BY <1>5, <2>1 DEF Inductive, HandlesNameSlots
  <2>2. CASE h = Handle(a, n, b, access)
    <3>1. h.arena = a /\ h.slot = n /\ h.buffer = b
      BY <2>2, HandleFields
    <3> QED BY <1>3, <3>1, LeaseFields
  <2> QED BY <1>2, <2>1, <2>2
<1>7. OwnersFollowLeases'
  <2>1. ASSUME NEW x \in Held'
        PROVE  \/ x \in Held /\ LeaseAt(x)' = LeaseAt(x)
               \/ x = <<a, n>> /\ LeaseAt(x)' = LeaseOf(b, access)
    <3>1. \E c \in Arenas : \E i \in DOMAIN leases'[c] : x = <<c, i>> /\ leases'[c][i] # Vacant
      BY DEF Held, LeaseAt
    <3> PICK c \in Arenas : \E i \in DOMAIN leases'[c] : x = <<c, i>> /\ leases'[c][i] # Vacant
      BY <3>1
    <3> PICK i \in DOMAIN leases'[c] : x = <<c, i>> /\ leases'[c][i] # Vacant
      OBVIOUS
    <3>2. CASE c = a /\ i = n
      BY <1>3, <3>2 DEF LeaseAt
    <3>3. CASE ~(c = a /\ i = n)
      <4>1. i \in DOMAIN leases[c] /\ leases'[c][i] = leases[c][i]
        BY <1>3, <3>3
      <4> QED BY <4>1, HeldSlot DEF LeaseAt
    <3> QED BY <3>2, <3>3
  <2>2. ASSUME NEW x \in Held
        PROVE  /\ x \in Held' /\ LeaseAt(x)' = LeaseAt(x)
               /\ LeaseAt(x).buffer \in DOMAIN owner /\ LeaseAt(x).access \in {"read", "read_write"}
    <3> PICK c \in Arenas : \E i \in DOMAIN leases[c] : x = <<c, i>> /\ leases[c][i] # Vacant
      BY HeldSlot
    <3> PICK i \in DOMAIN leases[c] : x = <<c, i>> /\ leases[c][i] # Vacant
      OBVIOUS
    <3>1. i \in DOMAIN leases'[c] /\ leases'[c][i] = leases[c][i]
      BY <1>5
    <3>2. leases[c][i].buffer \in DOMAIN owner /\ leases[c][i].access \in {"read", "read_write"}
      BY LeaseTyped DEF Inductive
    <3>3. LeaseAt(x)' = leases'[c][i] /\ LeaseAt(x) = leases[c][i]
      BY DEF LeaseAt
    <3>4. x \in Held'
      BY <3>1, <3>3 DEF Held
    <3> QED BY <3>1, <3>2, <3>3, <3>4
  <2>3. /\ <<a, n>> \in Held'
        /\ \A x : x = <<a, n>> => LeaseAt(x)' = LeaseOf(b, access)
        /\ LeaseOf(b, access).access = access /\ LeaseOf(b, access).buffer = b
    <3>1. \A x : x = <<a, n>> => LeaseAt(x)' = LeaseOf(b, access)
      BY <1>3 DEF LeaseAt
    <3>2. n \in DOMAIN leases'[a]
      BY <1>3
    <3> QED BY <3>1, <3>2, LeaseFields DEF Held
  \* A slot that already held the allocation may only read it.
  <2>4. ASSUME NEW x \in Held, LeaseAt(x).buffer = b
        PROVE  access = "read" /\ LeaseAt(x).access = "read"
    BY <2>2, <2>4 DEF Inductive, OwnersFollowLeases
  <2>5. ASSUME NEW x \in Held'
        PROVE  owner'[LeaseAt(x)'.buffer]
                 = (IF LeaseAt(x)'.access = "read_write" THEN "arena" ELSE "shared")
    <3>1. CASE x = <<a, n>>
      BY <1>1, <2>3, <3>1
    <3>2. CASE x \in Held /\ LeaseAt(x)' = LeaseAt(x)
      <4>1. owner[LeaseAt(x).buffer]
              = (IF LeaseAt(x).access = "read_write" THEN "arena" ELSE "shared")
        BY <3>2 DEF Inductive, OwnersFollowLeases
      <4>2. CASE LeaseAt(x).buffer = b
        BY <1>1, <2>4, <3>2, <4>2
      <4>3. CASE LeaseAt(x).buffer # b
        BY <1>1, <2>2, <3>2, <4>1, <4>3
      <4> QED BY <4>2, <4>3
    <3> QED BY <2>1, <3>1, <3>2
  <2>6. ASSUME NEW x \in Held', NEW y \in Held',
               LeaseAt(x)'.access = "read_write", LeaseAt(x)'.buffer = LeaseAt(y)'.buffer
        PROVE  x = y
    <3>1. CASE x \in Held /\ LeaseAt(x)' = LeaseAt(x) /\ y \in Held /\ LeaseAt(y)' = LeaseAt(y)
      BY <2>6, <3>1 DEF Inductive, OwnersFollowLeases
    <3>2. CASE x = <<a, n>> /\ y \in Held /\ LeaseAt(y)' = LeaseAt(y)
      BY <2>3, <2>4, <2>6, <3>2
    <3>3. CASE y = <<a, n>> /\ x \in Held /\ LeaseAt(x)' = LeaseAt(x)
      BY <2>3, <2>4, <2>6, <3>3
    <3> QED BY <2>1, <3>1, <3>2, <3>3
  <2>7. ASSUME NEW d \in DOMAIN owner', owner'[d] = "arena"
        PROVE  \E x \in Held' : LeaseAt(x)'.buffer = d
    <3>1. CASE d = b
      BY <2>3, <3>1
    <3>2. CASE d # b
      <4>1. d \in DOMAIN owner /\ owner[d] = "arena"
        BY <1>1, <2>7, <3>2
      <4> PICK x \in Held : LeaseAt(x).buffer = d
        BY <4>1 DEF Inductive, OwnersFollowLeases
      <4> QED BY <2>2
    <3> QED BY <3>1, <3>2
  <2> QED BY <2>5, <2>6, <2>7 DEF OwnersFollowLeases
<1>8. CommandsAccepted'
  <2>1. scope # NoArena => leases'[scope] = leases[scope]
    BY <1>2, <1>3 DEF Inductive, TypedSets
  <2> QED BY <1>2, <2>1, CommandsStay DEF Inductive
<1>9. PairComplete'
  BY <1>2, PairsStay DEF Inductive
<1> QED BY <1>4, <1>6, <1>7, <1>8, <1>9 DEF Inductive

\* A take empties the one slot that holds its allocation.
LEMMA TakeKeeps ==
  ASSUME Inductive, NEW a \in Arenas, NEW h \in issued, TakeReadWrite(a, h)
  PROVE  Inductive'
<1> PICK n : n = h.slot
  OBVIOUS
<1>1. /\ scope # a /\ n \in DOMAIN leases[a] /\ leases[a][n].access = "read_write"
      /\ owner' = [owner EXCEPT ![leases[a][n].buffer] = "host"]
      /\ leases' = [leases EXCEPT ![a][n] = Vacant]
      /\ UNCHANGED <<issued, calls, scope, commands>>
  BY DEF TakeReadWrite, Emptied
<1>2. leases[a][n] # Vacant
  BY <1>1 DEF Vacant
<1> PICK b : b = leases[a][n].buffer
  OBVIOUS
<1>3. b \in DOMAIN owner
  BY <1>1, <1>2, LeaseTyped DEF Inductive
<1> PICK f \in Filled : calls = f.calls /\ owner \in [f.buffers -> {"host", "shared", "arena"}]
  BY DEF Inductive, TypedSets
<1>4. /\ owner' \in [f.buffers -> {"host", "shared", "arena"}] /\ DOMAIN owner' = DOMAIN owner
      /\ owner'[b] = "host" /\ \A d \in DOMAIN owner : d # b => owner'[d] = owner[d]
  BY <1>1, <1>3
<1>5. /\ leases' \in [Arenas -> Seq({Vacant} \cup
                               [access : {"read", "read_write"}, buffer : DOMAIN owner'])]
      /\ \A c \in Arenas : c # a => leases'[c] = leases[c]
      /\ DOMAIN leases'[a] = DOMAIN leases[a]
      /\ \A i \in DOMAIN leases[a] : i # n => leases'[a][i] = leases[a][i]
      /\ leases'[a][n] = Vacant
  <2> DEFINE S == {Vacant} \cup [access : {"read", "read_write"}, buffer : DOMAIN owner]
  <2>1. leases \in [Arenas -> Seq(S)] /\ Vacant \in S
    BY DEF Inductive, TypedSets
  <2> HIDE DEF S
  <2> PICK t : t = [leases[a] EXCEPT ![n] = Vacant]
    OBVIOUS
  <2>2. /\ t \in Seq(S) /\ DOMAIN t = DOMAIN leases[a] /\ t[n] = Vacant
        /\ \A i \in DOMAIN leases[a] : i # n => t[i] = leases[a][i]
    BY <1>1, <2>1
  <2>3. leases' = [leases EXCEPT ![a] = t]
    BY <1>1
  <2>4. leases' \in [Arenas -> Seq(S)] /\ leases'[a] = t
        /\ \A c \in Arenas : c # a => leases'[c] = leases[c]
    BY <2>1, <2>2, <2>3
  <2> QED BY <1>4, <2>2, <2>4 DEF S
<1>6. TypedSets'
  BY <1>1, <1>4, <1>5 DEF Inductive, TypedSets
<1>7. \A c \in Arenas : /\ DOMAIN leases'[c] = DOMAIN leases[c]
                        /\ \A i \in DOMAIN leases[c] :
                             leases'[c][i] = (IF c = a /\ i = n THEN Vacant ELSE leases[c][i])
  BY <1>5
<1>8. HandlesNameSlots'
  BY <1>1, <1>7 DEF Inductive, HandlesNameSlots
<1>9. OwnersFollowLeases'
  <2>1. <<a, n>> \in Held /\ LeaseAt(<<a, n>>) = leases[a][n]
    BY <1>1, <1>2, HeldSlot DEF LeaseAt
  <2>2. ASSUME NEW x \in Held'
        PROVE  x \in Held /\ x # <<a, n>> /\ LeaseAt(x)' = LeaseAt(x)
    <3> PICK c \in Arenas : \E i \in DOMAIN leases'[c] : x = <<c, i>> /\ leases'[c][i] # Vacant
      BY DEF Held, LeaseAt
    <3> PICK i \in DOMAIN leases'[c] : x = <<c, i>> /\ leases'[c][i] # Vacant
      OBVIOUS
    <3>1. /\ i \in DOMAIN leases[c] /\ leases'[c][i] = leases[c][i] /\ ~(c = a /\ i = n)
      BY <1>7
    <3> QED BY <3>1, HeldSlot DEF LeaseAt
  <2>3. ASSUME NEW x \in Held, x # <<a, n>>
        PROVE  x \in Held' /\ LeaseAt(x)' = LeaseAt(x) /\ LeaseAt(x).buffer # b
    <3> PICK c \in Arenas : \E i \in DOMAIN leases[c] : x = <<c, i>> /\ leases[c][i] # Vacant
      BY HeldSlot
    <3> PICK i \in DOMAIN leases[c] : x = <<c, i>> /\ leases[c][i] # Vacant
      OBVIOUS
    <3>1. i \in DOMAIN leases'[c] /\ leases'[c][i] = leases[c][i]
      BY <1>7, <2>3
    <3>2. LeaseAt(x)' = leases'[c][i] /\ LeaseAt(x) = leases[c][i]
      BY DEF LeaseAt
    <3>3. x \in Held'
      BY <3>1, <3>2 DEF Held
    <3>4. LeaseAt(x).buffer # b
      BY <1>1, <2>1, <2>3 DEF Inductive, OwnersFollowLeases
    <3> QED BY <3>1, <3>2, <3>3, <3>4
  <2>4. ASSUME NEW x \in Held'
        PROVE  owner'[LeaseAt(x)'.buffer]
                 = (IF LeaseAt(x)'.access = "read_write" THEN "arena" ELSE "shared")
    <3>1. x \in Held /\ LeaseAt(x)' = LeaseAt(x) /\ LeaseAt(x).buffer # b
      BY <2>2, <2>3
    <3>2. LeaseAt(x).buffer \in DOMAIN owner
      <4> PICK c \in Arenas : \E i \in DOMAIN leases[c] : x = <<c, i>> /\ leases[c][i] # Vacant
        BY <3>1, HeldSlot
      <4> PICK i \in DOMAIN leases[c] : x = <<c, i>> /\ leases[c][i] # Vacant
        OBVIOUS
      <4> QED BY LeaseTyped DEF Inductive, LeaseAt
    <3>3. owner[LeaseAt(x).buffer]
            = (IF LeaseAt(x).access = "read_write" THEN "arena" ELSE "shared")
      BY <3>1 DEF Inductive, OwnersFollowLeases
    <3> QED BY <1>4, <3>1, <3>2, <3>3
  <2>5. ASSUME NEW x \in Held', NEW y \in Held',
               LeaseAt(x)'.access = "read_write", LeaseAt(x)'.buffer = LeaseAt(y)'.buffer
        PROVE  x = y
    BY <2>2, <2>5 DEF Inductive, OwnersFollowLeases
  <2>6. ASSUME NEW d \in DOMAIN owner', owner'[d] = "arena"
        PROVE  \E x \in Held' : LeaseAt(x)'.buffer = d
    <3>1. d # b /\ d \in DOMAIN owner /\ owner[d] = "arena"
      BY <1>4, <2>6
    <3> PICK x \in Held : LeaseAt(x).buffer = d
      BY <3>1 DEF Inductive, OwnersFollowLeases
    <3>2. x # <<a, n>>
      BY <2>1, <3>1
    <3> QED BY <2>3, <3>2
  <2> QED BY <2>4, <2>5, <2>6 DEF OwnersFollowLeases
<1>10. CommandsAccepted'
  <2>1. scope # NoArena => leases'[scope] = leases[scope]
    BY <1>1, <1>5 DEF Inductive, TypedSets
  <2> QED BY <1>1, <2>1, CommandsStay DEF Inductive
<1>11. PairComplete'
  BY <1>1, PairsStay DEF Inductive
<1> QED BY <1>6, <1>8, <1>9, <1>10, <1>11 DEF Inductive

\* Who owns what stays while neither the sets nor the owners change.
LEMMA OwnersStay ==
  ASSUME HandlesNameSlots, OwnersFollowLeases, UNCHANGED <<owner, leases, issued>>
  PROVE  HandlesNameSlots' /\ OwnersFollowLeases'
<1>1. Held' = Held /\ \A x : LeaseAt(x)' = LeaseAt(x)
  BY DEF Held, LeaseAt
<1> QED BY <1>1 DEF HandlesNameSlots, OwnersFollowLeases

\* Without commands there is nothing to keep.
LEMMA NoCommands ==
  ASSUME Inductive, UNCHANGED <<owner, leases, issued, calls>>, commands' = <<>>,
         scope' \in Arenas \cup {NoArena}
  PROVE  Inductive'
<1>1. TypedSets'
  BY DEF Inductive, TypedSets
<1>2. HandlesNameSlots' /\ OwnersFollowLeases'
  BY OwnersStay DEF Inductive
<1>3. CommandsAccepted' /\ PairComplete'
  BY DEF CommandsAccepted, PairComplete
<1> QED BY <1>1, <1>2, <1>3 DEF Inductive

\* The calls have distinct names, so that a command names its call.
LEMMA CallNamed ==
  ASSUME TypedSets, NEW call \in calls, NEW command, command.call = call.name
  PROVE  CallOf(command) = call /\ call \in OperatorCalls
<1> PICK f \in Filled : calls = f.calls
  BY DEF TypedSets
<1>1. call \in OperatorCalls /\ \A c \in calls : c.name = call.name => c = call
  BY FilledFacts
<1> QED BY <1>1 DEF CallOf

\* What a recorded command says of its stage.
LEMMA EntryFields ==
  ASSUME NEW a, NEW call, NEW args, NEW k
  PROVE  /\ Entry(a, call, args, k).call = call.name /\ Entry(a, call, args, k).stage = k
         /\ Entry(a, call, args, k).args = args
         /\ Entry(a, call, args, k).operands = Resolved(a, call.stages[k], args)
BY DEF Entry

\* What a sequence becomes with another one at its end.
LEMMA Concatenated ==
  ASSUME NEW S, NEW T, NEW s \in Seq(S), NEW t \in Seq(T), NEW u, u = s \o t
  PROVE  /\ u \in Seq(S \cup T) /\ Len(u) = Len(s) + Len(t)
         /\ \A i \in DOMAIN s : i \in DOMAIN u /\ u[i] = s[i]
         /\ \A i \in DOMAIN t : Len(s) + i \in DOMAIN u /\ u[Len(s) + i] = t[i]
<1>1. s \in Seq(S \cup T) /\ t \in Seq(S \cup T)
  BY SeqMonotone
<1>2. s \o t \in Seq(S \cup T) /\ Len(s \o t) = Len(s) + Len(t) /\ Len(s) \in Nat /\ Len(t) \in Nat
      /\ DOMAIN s = 1 .. Len(s) /\ DOMAIN t = 1 .. Len(t) /\ DOMAIN (s \o t) = 1 .. Len(s) + Len(t)
  BY <1>1
<1>3. \A i \in DOMAIN s : (s \o t)[i] = s[i]
  BY <1>1, <1>2
<1>4. \A i \in DOMAIN t : (s \o t)[Len(s) + i] = t[i]
  BY <1>1, <1>2
<1>6. /\ \A i \in 1 .. Len(s) : i \in 1 .. Len(s) + Len(t)
      /\ \A i \in 1 .. Len(t) : Len(s) + i \in 1 .. Len(s) + Len(t)
  BY <1>2
<1> QED BY <1>2, <1>3, <1>4, <1>6

\* An enqueue adds commands of one call, the merge with its partial.
LEMMA EnqueueKeeps ==
  ASSUME Inductive, NEW call \in calls, NEW args, Enqueue(call, args)
  PROVE  Inductive'
<1> PICK R : R = Recorded(scope, call, args)
  OBVIOUS
<1>1. /\ scope # NoArena /\ \A x \in Args(call) : args[x] \in issued
      /\ commands' = commands \o R /\ UNCHANGED <<owner, capacity, leases, issued, calls, scope>>
  BY DEF Enqueue
<1>2. call \in OperatorCalls
  <2> PICK f \in Filled : calls = f.calls
    BY DEF Inductive, TypedSets
  <2> QED BY FilledFacts
<1>3. /\ R \in Seq(ToSet(R))
      /\ \A i \in DOMAIN R :
           \E k \in Done(scope, call, args) :
             /\ R[i] = Entry(scope, call, args, k)
             /\ {q \in Recording(call) : q > k} # {} =>
                  /\ i + 1 \in DOMAIN R
                  /\ \E q \in Recording(call) : q > k /\ R[i + 1] = Entry(scope, call, args, q)
  BY <1>2, RecordedFacts
<1> PICK l : l = Len(commands)
  OBVIOUS
<1>4. /\ l \in Nat /\ commands' \in Seq(ToSet(commands) \cup ToSet(R)) /\ Len(commands') = l + Len(R)
      /\ DOMAIN commands = 1 .. l
      /\ \A n \in DOMAIN commands : n \in DOMAIN commands' /\ commands'[n] = commands[n]
      /\ \A i \in DOMAIN R : l + i \in DOMAIN commands' /\ commands'[l + i] = R[i]
      /\ \A n \in DOMAIN commands' : n \in DOMAIN commands \/ \E i \in DOMAIN R : n = l + i
  <2>1. commands \in Seq(ToSet(commands))
    BY DEF Inductive, TypedSets
  <2> PICK S, T, s, t : S = ToSet(commands) /\ T = ToSet(R) /\ s = commands /\ t = commands'
    OBVIOUS
  <2>2. t = s \o R /\ s \in Seq(S) /\ R \in Seq(T)
    BY <1>1, <1>3, <2>1
  <2>3. /\ t \in Seq(S \cup T) /\ Len(t) = Len(s) + Len(R)
        /\ \A i \in DOMAIN s : i \in DOMAIN t /\ t[i] = s[i]
    BY <2>2, Concatenated
  <2>4. \A i \in DOMAIN R : Len(s) + i \in DOMAIN t /\ t[Len(s) + i] = R[i]
    BY <2>2, Concatenated
  <2>5. ASSUME NEW n \in DOMAIN t, n \notin DOMAIN s
        PROVE  \E i \in DOMAIN R : n = Len(s) + i
    <3> PICK i, m, k : i = n - Len(s) /\ m = Len(s) /\ k = Len(R)
      OBVIOUS
    <3>1. /\ m \in Nat /\ k \in Nat /\ DOMAIN s = 1 .. m /\ DOMAIN R = 1 .. k
          /\ DOMAIN t = 1 .. m + k
      BY <2>2, <2>3
    <3>2. i \in 1 .. k /\ n = m + i
      BY <2>5, <3>1
    <3> QED BY <3>1, <3>2
  <2>6. l = Len(s) /\ l \in Nat /\ DOMAIN s = 1 .. l
    BY <2>2
  <2> QED BY <2>2, <2>3, <2>4, <2>5, <2>6
<1>5. TypedSets'
  <2>1. commands' \in Seq(ToSet(commands'))
    <3>1. commands' \in [1 .. Len(commands') -> ToSet(commands')] /\ Len(commands') \in Nat
      BY <1>4 DEF ToSet
    <3> QED BY <3>1, SeqDef
  <2> QED BY <1>1, <2>1 DEF Inductive, TypedSets
<1>6. HandlesNameSlots' /\ OwnersFollowLeases'
  BY <1>1, OwnersStay DEF Inductive
<1>8. CommandsAccepted'
  <2>1. \A command : AcceptedCommand(command) => AcceptedCommand(command)'
    BY <1>1, CommandStays
  <2> SUFFICES ASSUME NEW n \in DOMAIN commands', NEW command, command = commands'[n]
               PROVE  AcceptedCommand(command)
    BY <2>1 DEF CommandsAccepted
  <2>2. CASE n \in DOMAIN commands
    BY <1>4, <2>2 DEF Inductive, CommandsAccepted
  <2>3. CASE \E i \in DOMAIN R : n = l + i
    <3> PICK i \in DOMAIN R : n = l + i
      BY <2>3
    <3> PICK k \in Done(scope, call, args) : R[i] = Entry(scope, call, args, k)
      BY <1>3
    <3>1. /\ command.call = call.name /\ command.stage = k /\ command.args = args
          /\ command.operands = Resolved(scope, call.stages[k], args)
      BY <1>4, EntryFields
    <3>2. k \in Recording(call) /\ StageAccepted(scope, call.stages[k], args)
      <4>1. k \in Recording(call) /\ k \in DOMAIN call.stages /\ k \in Nat
        BY <1>2, AllOrNothing DEF Done, Recording
      <4>2. ~(k < k)
        BY <4>1
      <4> QED BY <4>1, <4>2 DEF Done
    <3> QED BY <1>1, <3>1, <3>2 DEF AcceptedCommand
  <2> QED BY <1>4, <2>2, <2>3
<1>9. PairComplete'
  <2> SUFFICES ASSUME NEW n \in DOMAIN commands',
                      {k \in Recording(CallOf(commands'[n])) : k > commands'[n].stage} # {}
               PROVE  /\ n < Len(commands')
                      /\ commands'[n + 1].stage \in
                           {k \in Recording(CallOf(commands'[n])) : k > commands'[n].stage}
                      /\ commands'[n + 1].args = commands'[n].args
    <3>1. \A command : CallOf(command)' = CallOf(command)
      BY <1>1 DEF CallOf
    <3> QED BY <3>1 DEF PairComplete, Recording
  <2>1. CASE n \in DOMAIN commands
    <3>1. commands'[n] = commands[n]
      BY <1>4, <2>1
    <3>2. /\ n < l /\ commands[n + 1].stage \in
                        {k \in Recording(CallOf(commands[n])) : k > commands[n].stage}
          /\ commands[n + 1].args = commands[n].args
      BY <2>1, <3>1 DEF Inductive, PairComplete
    <3>3. n + 1 \in DOMAIN commands /\ n < l + Len(R)
      BY <1>3, <1>4, <2>1, <3>2
    <3>4. commands'[n + 1] = commands[n + 1]
      BY <1>4, <3>3
    <3> QED BY <1>4, <3>1, <3>2, <3>3, <3>4
  <2>2. CASE \E i \in DOMAIN R : n = l + i
    <3> PICK i \in DOMAIN R : n = l + i
      BY <2>2
    <3> PICK k \in Done(scope, call, args) :
          /\ R[i] = Entry(scope, call, args, k)
          /\ {q \in Recording(call) : q > k} # {} =>
               /\ i + 1 \in DOMAIN R
               /\ \E q \in Recording(call) : q > k /\ R[i + 1] = Entry(scope, call, args, q)
      BY <1>3
    <3>1. commands'[n].call = call.name /\ commands'[n].stage = k /\ commands'[n].args = args
      BY <1>4, EntryFields
    <3>2. CallOf(commands'[n]) = call
      BY <3>1, CallNamed DEF Inductive
    <3>3. i + 1 \in DOMAIN R
      BY <3>1, <3>2
    <3> PICK q \in Recording(call) : q > k /\ R[i + 1] = Entry(scope, call, args, q)
      BY <3>1, <3>2
    <3>4. l + (i + 1) \in DOMAIN commands' /\ commands'[l + (i + 1)] = R[i + 1]
      BY <1>4, <3>3
    <3>5. n + 1 = l + (i + 1) /\ n < l + Len(R)
      BY <1>3, <1>4, <3>3
    <3>6. commands'[n + 1].stage = q /\ commands'[n + 1].args = args
      BY <3>4, <3>5, EntryFields
    <3> QED BY <1>4, <3>1, <3>2, <3>5, <3>6
  <2> QED BY <1>4, <2>1, <2>2
<1> QED BY <1>5, <1>6, <1>8, <1>9 DEF Inductive

\* Every step of the specification keeps the invariant.
LEMMA StepKeeps == Inductive /\ [Next]_vars => Inductive'
<1> SUFFICES ASSUME Inductive, [Next]_vars PROVE Inductive'
  OBVIOUS
<1>1. ASSUME NEW a \in Arenas, NEW b \in DOMAIN owner, BindRead(a, b)
      PROVE  Inductive'
  <2>1. /\ Bind(a, b, "read") /\ owner[b] \in {"host", "shared"}
        /\ owner' = [owner EXCEPT ![b] = "shared"]
    BY <1>1 DEF BindRead
  <2> QED BY <2>1, BindKeeps
<1>2. ASSUME NEW a \in Arenas, NEW b \in DOMAIN owner, BindReadWrite(a, b)
      PROVE  Inductive'
  <2>1. /\ Bind(a, b, "read_write") /\ owner[b] = "host"
        /\ owner' = [owner EXCEPT ![b] = "arena"]
    BY <1>2 DEF BindReadWrite
  <2> QED BY <2>1, BindKeeps
<1>3. ASSUME NEW a \in Arenas, NEW h \in issued, TakeReadWrite(a, h)
      PROVE  Inductive'
  BY <1>3, TakeKeeps
<1>4. ASSUME NEW a \in Arenas, Begin(a)
      PROVE  Inductive'
  BY <1>4, NoCommands DEF Begin, Inductive, TypedSets
<1>5. ASSUME NEW call \in calls, NEW args, Enqueue(call, args)
      PROVE  Inductive'
  BY <1>5, EnqueueKeeps
<1>6. CASE Settle
  BY <1>6, NoCommands DEF Settle
<1>7. CASE UNCHANGED vars
  <2>1. UNCHANGED <<owner, leases, issued, calls, scope, commands>>
    BY <1>7 DEF vars
  <2>2. TypedSets'
    BY <2>1 DEF Inductive, TypedSets
  <2>3. HandlesNameSlots' /\ OwnersFollowLeases'
    BY <2>1, OwnersStay DEF Inductive
  <2>4. CommandsAccepted' /\ PairComplete'
    BY <2>1, CommandsStay, PairsStay DEF Inductive
  <2> QED BY <2>2, <2>3, <2>4 DEF Inductive
<1> QED BY <1>1, <1>2, <1>3, <1>4, <1>5, <1>6, <1>7 DEF Next

\* The invariant holds in every reachable state, for every fill of the sets
\* with every list of the crate's operators, and every choice of handles.
THEOREM InductiveInvariant == Spec => []Inductive
BY InitInductive, StepKeeps, PTL DEF Spec
-----------------------------------------------------------------------------
(* What it says *)

\* PairComplete: no partial kernel is recorded without the merge that reads
\* its workspace (enqueue_into of the split-K and tiled prefill plans).
THEOREM PairsAreComplete == Spec => []PairComplete
BY InductiveInvariant, PTL DEF Inductive

\* OneOwner: an allocation is with the host, shared for reading, or owned by
\* exactly one slot (bind_read, bind_read_write and take_read_write).
THEOREM AllocationsHaveOneOwner == Spec => []OneOwner
<1>1. Inductive => OneOwner
  <2> SUFFICES ASSUME Inductive, NEW b \in DOMAIN owner
               PROVE  /\ owner[b] = "host" => Holders(b) = {}
                      /\ owner[b] = "shared" =>
                           {LeaseAt(x).access : x \in Holders(b)} \subseteq {"read"}
                      /\ owner[b] = "arena" =>
                           /\ Cardinality(Holders(b)) = 1
                           /\ {LeaseAt(x).access : x \in Holders(b)} = {"read_write"}
    <3> SUFFICES ASSUME Inductive, NEW b \in DOMAIN owner
                 PROVE  owner[b] \in {"host", "shared", "arena"}
      BY DEF OneOwner
    <3> PICK f \in Filled : owner \in [f.buffers -> {"host", "shared", "arena"}]
      BY DEF Inductive, TypedSets
    <3> QED OBVIOUS
  <2>1. ASSUME NEW x \in Holders(b)
        PROVE  /\ x \in Held /\ LeaseAt(x).buffer = b /\ LeaseAt(x).access \in {"read", "read_write"}
               /\ owner[b] = (IF LeaseAt(x).access = "read_write" THEN "arena" ELSE "shared")
    <3>1. x \in Held /\ LeaseAt(x).buffer = b
      BY DEF Holders
    <3> PICK a \in Arenas : \E i \in DOMAIN leases[a] : x = <<a, i>> /\ leases[a][i] # Vacant
      BY <3>1, HeldSlot
    <3> PICK i \in DOMAIN leases[a] : x = <<a, i>> /\ leases[a][i] # Vacant
      OBVIOUS
    <3>2. LeaseAt(x).access \in {"read", "read_write"}
      BY LeaseTyped DEF Inductive, LeaseAt
    <3> QED BY <3>1, <3>2 DEF Inductive, OwnersFollowLeases
  <2>2. CASE owner[b] = "host"
    BY <2>1, <2>2
  <2>3. CASE owner[b] = "shared"
    BY <2>1, <2>3
  <2>4. CASE owner[b] = "arena"
    <3> PICK x \in Held : LeaseAt(x).buffer = b
      BY <2>4 DEF Inductive, OwnersFollowLeases
    <3>1. x \in Holders(b) /\ \A y \in Holders(b) : LeaseAt(y).access = "read_write"
      BY <2>1, <2>4 DEF Holders
    <3>2. Holders(b) = {x}
      BY <2>1, <3>1 DEF Inductive, OwnersFollowLeases
    <3>3. Cardinality(Holders(b)) = 1
      BY <3>2, FS_Singleton
    <3> QED BY <2>4, <3>1, <3>2, <3>3
  <2> QED BY <2>2, <2>3, <2>4
<1> QED BY <1>1, InductiveInvariant, PTL

\* Argument x names a slot of set a, with the buffer x stands for.
SlotOf(a, args, buffers, x) ==
  /\ args[x].arena = a /\ args[x].slot \in DOMAIN leases[a] /\ leases[a][args[x].slot] # Vacant
  /\ buffers[x] = leases[a][args[x].slot].buffer

WritableSlot(a, args, x) == leases[a][args[x].slot].access = "read_write"

\* What the operands of an accepted stage are.
LEMMA AcceptedStage ==
  ASSUME NEW a, NEW stage, NEW args, StageAccepted(a, stage, args),
         NEW buffers, buffers = Resolved(a, stage, args)
  PROVE  /\ \A x \in DOMAIN buffers : \E i \in DOMAIN stage.operands : x = stage.operands[i].arg
         /\ \A i \in DOMAIN stage.operands :
              /\ SlotOf(a, args, buffers, stage.operands[i].arg)
              /\ stage.operands[i].access = "write" =>
                   WritableSlot(a, args, stage.operands[i].arg)
<1>1. \A x \in DOMAIN buffers : \E i \in DOMAIN stage.operands : x = stage.operands[i].arg
  BY DEF Resolved
<1>2. ASSUME NEW i \in DOMAIN stage.operands
      PROVE  buffers[stage.operands[i].arg] = leases[a][args[stage.operands[i].arg].slot].buffer
  BY SMTT(30) DEF Resolved
<1>3. ASSUME NEW i \in DOMAIN stage.operands
      PROVE  /\ SlotOf(a, args, buffers, stage.operands[i].arg)
             /\ stage.operands[i].access = "write" =>
                  WritableSlot(a, args, stage.operands[i].arg)
  <2>1. OperandIn(a, stage, args, i)
    BY OperandAccepted
  <2> QED BY <1>2, <2>1 DEF OperandIn, SlotOf, WritableSlot
<1> QED BY <1>1, <1>3

\* Such a slot holds an allocation.
LEMMA SlotHeld ==
  ASSUME NEW a \in Arenas, NEW args, NEW buffers, NEW x,
         SlotOf(a, args, buffers, x)
  PROVE  /\ <<a, args[x].slot>> \in Held /\ LeaseAt(<<a, args[x].slot>>).buffer = buffers[x]
         /\ WritableSlot(a, args, x) => LeaseAt(<<a, args[x].slot>>).access = "read_write"
<1>1. LeaseAt(<<a, args[x].slot>>) = leases[a][args[x].slot]
  BY DEF LeaseAt
<1>2. /\ args[x].slot \in DOMAIN leases[a] /\ leases[a][args[x].slot] # Vacant
      /\ buffers[x] = leases[a][args[x].slot].buffer
  BY SMTT(30) DEF SlotOf
<1>3. <<a, args[x].slot>> \in Held
  BY <1>2, HeldSlot, SMTT(30)
<1> QED BY <1>1, <1>2, <1>3 DEF WritableSlot

\* What an operand of a recorded command is: the buffer of one slot of the set
\* in the scope, named by a handle the host was given.
LEMMA CommandFacts ==
  ASSUME Inductive, NEW n \in DOMAIN commands
  PROVE  LET command == commands[n]
             stage == StageOf(command)
         IN /\ scope \in Arenas
            /\ \A i \in DOMAIN stage.operands : command.args[stage.operands[i].arg] \in issued
            /\ StageAccepted(scope, stage, command.args)
            /\ command.operands = Resolved(scope, stage, command.args)
<1> PICK command : command = commands[n]
  OBVIOUS
<1> PICK call \in calls :
      /\ call.name = command.call /\ command.stage \in Recording(call)
      /\ \A x \in Args(call) : command.args[x] \in issued
      /\ StageAccepted(scope, call.stages[command.stage], command.args)
      /\ command.operands = Resolved(scope, call.stages[command.stage], command.args)
  BY DEF Inductive, CommandsAccepted, AcceptedCommand
<1>1. StageOf(command) = call.stages[command.stage]
  BY CallNamed DEF Inductive, StageOf
<1>2. command.stage \in DOMAIN call.stages
  BY DEF Recording
<1>3. \A i \in DOMAIN call.stages[command.stage].operands :
        command.args[call.stages[command.stage].operands[i].arg] \in issued
  BY <1>2, StageArgs
<1>4. scope \in Arenas
  <2>1. commands # <<>>
    BY SMTT(30)
  <2> QED BY <2>1 DEF Inductive, TypedSets
<1> QED BY <1>1, <1>3, <1>4

\* RunsOnItsHandles: a recorded command uses the buffers its handles were made
\* for, whatever was taken and bound since (the resolve functions).
THEOREM CommandsUseTheirHandles == Spec => []RunsOnItsHandles
<1>1. Inductive => RunsOnItsHandles
  <2> SUFFICES ASSUME Inductive, NEW n \in DOMAIN commands,
                      NEW command, command = commands[n], NEW x \in DOMAIN command.operands
               PROVE  command.operands[x] = command.args[x].buffer
    BY DEF RunsOnItsHandles
  <2> PICK stage, args, buffers :
        stage = StageOf(command) /\ args = command.args /\ buffers = command.operands
    OBVIOUS
  <2>1. /\ \A i \in DOMAIN stage.operands : args[stage.operands[i].arg] \in issued
        /\ StageAccepted(scope, stage, args) /\ buffers = Resolved(scope, stage, args)
    BY CommandFacts
  <2>2. x \in DOMAIN buffers
    OBVIOUS
  <2> PICK i \in DOMAIN stage.operands : x = stage.operands[i].arg
    BY <2>1, <2>2, AcceptedStage, SMTT(30)
  <2>3. SlotOf(scope, args, buffers, x)
    BY <2>1, AcceptedStage, SMTT(30)
  <2>4. /\ args[x].arena = scope /\ leases[scope][args[x].slot] # Vacant
        /\ buffers[x] = leases[scope][args[x].slot].buffer
    BY <2>3 DEF SlotOf
  <2>5. args[x] \in issued
    BY <2>1
  <2> QED BY <2>4, <2>5 DEF Inductive, HandlesNameSlots
<1> QED BY <1>1, InductiveInvariant, PTL

\* An operand an accepted stage writes is owned by its slot of the set, and is
\* the buffer of no other operand of the stage.
LEMMA WritesApart ==
  ASSUME OwnersFollowLeases, NEW a \in Arenas, NEW stage, NEW args, NEW buffers,
         StageAccepted(a, stage, args), buffers = Resolved(a, stage, args),
         NEW i \in DOMAIN stage.operands, stage.operands[i].access = "write"
  PROVE  /\ owner[buffers[stage.operands[i].arg]] = "arena"
         /\ \A j \in DOMAIN stage.operands \ {i} :
              buffers[stage.operands[j].arg] # buffers[stage.operands[i].arg]
<1> PICK x, s : x = stage.operands[i].arg /\ s = args[x].slot
  OBVIOUS
<1>1. SlotOf(a, args, buffers, x) /\ WritableSlot(a, args, x)
  BY AcceptedStage
<1>2. /\ <<a, s>> \in Held /\ LeaseAt(<<a, s>>).buffer = buffers[x]
      /\ LeaseAt(<<a, s>>).access = "read_write"
  BY <1>1, SlotHeld
<1>3. owner[buffers[x]] = "arena"
  BY <1>2 DEF OwnersFollowLeases
<1>4. ASSUME NEW j \in DOMAIN stage.operands \ {i}
      PROVE  buffers[stage.operands[j].arg] # buffers[x]
  <2> PICK y, r : y = stage.operands[j].arg /\ r = args[y].slot
    OBVIOUS
  <2>1. SlotOf(a, args, buffers, y)
    BY AcceptedStage
  <2>2. <<a, r>> \in Held /\ LeaseAt(<<a, r>>).buffer = buffers[y]
    BY <2>1, SlotHeld
  <2>3. args[stage.operands[j].arg].slot # args[stage.operands[i].arg].slot
    BY OperandsApart
  <2>4. r # s
    BY <2>3
  <2>5. buffers[y] = buffers[x] => <<a, s>> = <<a, r>>
    BY <1>2, <2>2 DEF OwnersFollowLeases
  <2> QED BY <2>4, <2>5
<1> QED BY <1>3, <1>4

\* OperandsDisjoint: what a recorded command writes is owned by one slot of
\* the set, and is none of its other operands (validate_binding_request).
THEOREM CommandsWriteApart == Spec => []OperandsDisjoint
<1>1. Inductive => OperandsDisjoint
  <2> SUFFICES ASSUME Inductive, NEW n \in DOMAIN commands,
                      NEW command, command = commands[n], NEW stage, stage = StageOf(command),
                      NEW i \in DOMAIN stage.operands, stage.operands[i].access = "write"
               PROVE  /\ owner[command.operands[stage.operands[i].arg]] = "arena"
                      /\ \A j \in DOMAIN stage.operands \ {i} :
                           command.operands[stage.operands[j].arg]
                             # command.operands[stage.operands[i].arg]
    BY DEF OperandsDisjoint
  <2>1. /\ scope \in Arenas /\ StageAccepted(scope, stage, command.args)
        /\ command.operands = Resolved(scope, stage, command.args)
    BY CommandFacts
  <2>2. OwnersFollowLeases
    BY DEF Inductive
  <2> QED BY <2>1, <2>2, WritesApart
<1> QED BY <1>1, InductiveInvariant, PTL
=============================================================================
