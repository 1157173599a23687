------------------------ MODULE ApplicationDescription ------------------------
(***************************************************************************)
(* The description a MAGIA application is generated from                   *)
(* (MagiaApplicationCodegen/ApplicationDescription.h and .cpp): the tables  *)
(* of slices, subslices, L2 globals, reads, receives, sends, operations     *)
(* and writes, one plan per tile, and the functions that add a row to a     *)
(* table or an allocation to a memory.  The description is one record, and  *)
(* each function of the source is an operator from a description to a       *)
(* description, as the source passes it by reference from call to call.     *)
(*                                                                         *)
(* Tensors are of rank 2: an offset and a shape are pairs.  Row indices     *)
(* count from 1, the ids the source hands out count from 0.                 *)
(***************************************************************************)
EXTENDS Integers, Sequences, FiniteSets

CONSTANTS
  Harts,     \* the hartids of the mesh, natural numbers; -1 stands for L2
  L1Limit,   \* kGeneratedReadyFlagsOffset: slices stay below it
  Align,     \* kGeneratedL1AlignmentBytes and kGeneratedL2AlignmentBytes
  L2Base,    \* the first byte of the L2 application data
  L2End      \* the first byte after it

ASSUME HartsAssumption == Harts \subseteq Nat
ASSUME MemoryAssumption ==
  /\ L1Limit \in Nat
  /\ Align \in Nat \ {0}
  /\ L2Base \in Nat /\ L2End \in Nat /\ L2Base <= L2End
  /\ L2Base % Align = 0

L2 == -1

GlobalKinds == {"Input", "Output", "Initializer", "Intermediate"}

Put(table, key, value) ==
  [k \in DOMAIN table \cup {key} |-> IF k = key THEN value ELSE table[k]]

AlignTo(value, alignment) ==
  ((value + alignment - 1) \div alignment) * alignment

ElementByteWidth(elem) ==
  CASE elem \in {"f32", "i32"} -> 4
    [] elem = "f16" -> 2
    [] elem = "i8" -> 1
    [] OTHER -> 0

TensorBytes(shape, elemBytes) == shape[1] * shape[2] * elemBytes

Strides(shape, elemBytes) == <<shape[2] * elemBytes, elemBytes>>

OffsetBytes(offset, strides) ==
  offset[1] * strides[1] + offset[2] * strides[2]

-----------------------------------------------------------------------------
(* Ids, slices and subslices *)

\* A table of ids: a known name keeps its id, a new one takes the next.
IdOf(ids, name) ==
  IF name \in DOMAIN ids THEN ids[name] ELSE Cardinality(DOMAIN ids)

WithId(ids, name) == Put(ids, name, IdOf(ids, name))

EmptyPlan ==
  [ noted |-> FALSE, nextL1 |-> 0, slices |-> <<>>, initReads |-> <<>>,
    reads |-> <<>>, recvs |-> <<>>, sends |-> <<>>, ops |-> <<>>,
    writes |-> <<>> ]

NewSlice(name, kind, owner, fullOffset, shape, elemBytes, numSlots) ==
  [ name |-> name, kind |-> kind, owner |-> owner, fullOffset |-> fullOffset,
    shape |-> shape, elemBytes |-> elemBytes, numSlots |-> numSlots ]

SlotBytes(slice) == TensorBytes(slice.shape, slice.elemBytes)

L1Start(app, slice) == AlignTo(app.plans[slice.owner].nextL1, Align)

\* Mutant of L1Stop: room for one token slot, whatever the slice asks for.
L1StopOfOneSlot(app, slice) == L1Start(app, slice) + SlotBytes(slice)

L1Stop(app, slice) == L1Start(app, slice) + SlotBytes(slice) * slice.numSlots

FitsInTileL1(app, slice) == L1Stop(app, slice) <= L1Limit

\* A row of the table keeps the global id of its name instead of the name.
\* addGeneratedSlice: the slice gets the id of its name and the next id of its
\* owner; allocateSliceInTileL1, which every caller calls next, its place.
PlacedSlice(app, slice) ==
  [ kind |-> slice.kind, owner |-> slice.owner,
    fullOffset |-> slice.fullOffset, shape |-> slice.shape,
    elemBytes |-> slice.elemBytes, numSlots |-> slice.numSlots,
    globalId |-> IdOf(app.globalIds, slice.name),
    sliceId |-> app.nextSliceId[slice.owner],
    l1Offset |-> L1Start(app, slice), slotBytes |-> SlotBytes(slice) ]

PlanWithSlice(plan, stop, n) ==
  [plan EXCEPT !.noted = TRUE, !.nextL1 = stop, !.slices = Append(@, n)]

AllocateSliceInTileL1(app, slice) ==
  [app EXCEPT
    !.slices = Append(@, PlacedSlice(app, slice)),
    !.globalIds = WithId(@, slice.name),
    !.nextSliceId[slice.owner] = @ + 1,
    !.plans[slice.owner] =
      PlanWithSlice(@, L1Stop(app, slice), Len(app.slices) + 1)]

AddSubslice(app, subslice) == [app EXCEPT !.subslices = Append(@, subslice)]

WholeSubslice(app, sliceIndex) ==
  [ slice |-> sliceIndex, offset |-> <<0, 0>>,
    shape |-> app.slices[sliceIndex].shape ]

-----------------------------------------------------------------------------
(* L2 globals *)

L2Key(kind, name) == <<kind, name>>

IsPacked(kind, source) == kind = "Initializer" /\ source.isConstant

GlobalBytes(type) == TensorBytes(type.shape, ElementByteWidth(type.elem))

TokenStride(type) == AlignTo(GlobalBytes(type), Align)

L2Start(app) == AlignTo(app.nextL2, Align)

\* What getOrCreateL2Global requires of a global it has not met before.
PackedImageHolds(app, source) ==
  /\ app.hasPackedWeights
  /\ source.packedOffset % app.weightsAlignment = 0
  /\ source.packedOffset + source.packedSize <= app.weightsSize
  /\ source.packedShape = source.type.shape
  /\ source.packedSize = GlobalBytes(source.type)

\* Mutant of FitsInL2: the first token fits.
FirstTokenFitsInL2(app, type, numTokens) ==
  L2Start(app) + TokenStride(type) <= app.l2End

FitsInL2(app, type, numTokens) ==
  L2Start(app) + TokenStride(type) * numTokens <= app.l2End

CanGetL2Global(app, kind, source, numTokens) ==
  \/ L2Key(kind, source.name) \in DOMAIN app.l2Index
  \/ IsPacked(kind, source) /\ PackedImageHolds(app, source)
  \/ /\ ~IsPacked(kind, source)
     /\ kind = "Initializer" => ~app.hasPackedWeights /\ app.randomizeInputs
     /\ FitsInL2(app, source.type, numTokens)

NewL2Global(app, kind, source, numTokens) ==
  [ kind |-> kind, shape |-> source.type.shape,
    elemBytes |-> ElementByteWidth(source.type.elem),
    tensorBytes |-> GlobalBytes(source.type),
    tokenStride |-> TokenStride(source.type), numTokens |-> numTokens,
    globalId |-> IdOf(app.globalIds, source.name),
    isConstant |-> IsPacked(kind, source),
    address |-> IF IsPacked(kind, source)
                THEN app.l2Base + source.packedOffset
                ELSE L2Start(app) ]

\* A known kind and name keep the global they have, whatever type is asked for.
GetOrCreateL2Global(app, kind, source, numTokens) ==
  IF L2Key(kind, source.name) \in DOMAIN app.l2Index
  THEN app
  ELSE [app EXCEPT
         !.l2Globals = Append(@, NewL2Global(app, kind, source, numTokens)),
         !.l2Index = Put(@, L2Key(kind, source.name), Len(app.l2Globals) + 1),
         !.globalIds = WithId(@, source.name),
         !.nextL2 = IF IsPacked(kind, source) THEN @
                    ELSE L2Start(app) + TokenStride(source.type) * numTokens]

-----------------------------------------------------------------------------
(* Reads, writes, receives, sends and operations: a row in the table of the  *)
(* description, and its index in the plan of the tile that performs it.      *)

PlanWithRead(plan, isInitializer, n) ==
  IF isInitializer
  THEN [plan EXCEPT !.noted = TRUE, !.initReads = Append(@, n)]
  ELSE [plan EXCEPT !.noted = TRUE, !.reads = Append(@, n)]

AddL2Read(app, hart, isInitializer, read) ==
  [app EXCEPT
    !.reads = Append(@, read),
    !.plans[hart] = PlanWithRead(@, isInitializer, Len(app.reads) + 1)]

PlanWithWrite(plan, n) ==
  [plan EXCEPT !.noted = TRUE, !.writes = Append(@, n)]

AddL2Write(app, hart, write) ==
  [app EXCEPT !.writes = Append(@, write),
              !.plans[hart] = PlanWithWrite(@, Len(app.writes) + 1)]

PlanWithRecv(plan, n) == [plan EXCEPT !.noted = TRUE, !.recvs = Append(@, n)]

\* Mutant of AddRecv: the plan gets the index of the row before.
AddRecvBehind(app, recv) ==
  [app EXCEPT !.recvs = Append(@, recv),
              !.plans[recv.dst] = PlanWithRecv(@, Len(app.recvs))]

AddRecv(app, recv) ==
  [app EXCEPT !.recvs = Append(@, recv),
              !.plans[recv.dst] = PlanWithRecv(@, Len(app.recvs) + 1)]

PlanWithSend(plan, n) == [plan EXCEPT !.noted = TRUE, !.sends = Append(@, n)]

AddSend(app, send) ==
  [app EXCEPT !.sends = Append(@, send),
              !.plans[send.src] = PlanWithSend(@, Len(app.sends) + 1)]

PlanWithOp(plan, n) == [plan EXCEPT !.noted = TRUE, !.ops = Append(@, n)]

AddOp(app, op) ==
  [app EXCEPT !.ops = Append(@, op),
              !.plans[op.owner] = PlanWithOp(@, Len(app.ops) + 1)]

\* The description before anything is collected, under the options `options`.
NewApplication(options) ==
  [ target |-> options.target, l2Base |-> L2Base, l2End |-> L2End,
    nextL2 |-> L2Base, numTokens |-> options.numTokens, numTokenSlots |-> 0,
    randomizeInputs |-> options.randomizeInputs, hasPackedWeights |-> FALSE,
    weightsSize |-> 0, weightsAlignment |-> Align,
    globalIds |-> <<>>, transitionIds |-> <<>>,
    nextSliceId |-> [h \in Harts |-> 0],
    l2Index |-> <<>>, initSlots |-> <<>>,
    slices |-> <<>>, subslices |-> <<>>, l2Globals |-> <<>>, reads |-> <<>>,
    recvs |-> <<>>, sends |-> <<>>, ops |-> <<>>, writes |-> <<>>,
    plans |-> [h \in Harts |-> EmptyPlan] ]

-----------------------------------------------------------------------------
(* Types.  Rows refer to each other by index: an index names a row that is   *)
(* there.                                                                    *)

Pair == Nat \X Nat

SliceType ==
  [ kind : GlobalKinds, owner : Harts, fullOffset : Pair, shape : Pair,
    elemBytes : Nat, numSlots : Nat, globalId : Nat, sliceId : Nat, l1Offset : Nat, slotBytes : Nat ]

SubsliceType(a) == [slice : DOMAIN a.slices, offset : Pair, shape : Pair]

L2GlobalType ==
  [ kind : GlobalKinds, shape : Pair,
    elemBytes : Nat, tensorBytes : Nat, tokenStride : Nat, numTokens : Nat,
    globalId : Nat, isConstant : BOOLEAN, address : Nat ]

ReadType(a) ==
  [ global : DOMAIN a.l2Globals, subslice : DOMAIN a.subslices,
    address : Nat, stride : Nat ]

RecvType(a) ==
  [ transition : Nat, src : Harts, dst : Harts, subslice : DOMAIN a.subslices,
    producer : Nat ]

SendType(a) ==
  [ transition : Nat, src : Harts, dst : Harts,
    srcSubslice : DOMAIN a.subslices, dstSubslice : DOMAIN a.subslices,
    dstL1Offset : Nat, dstSlotBytes : Nat, producer : Nat ]

OpType(a) ==
  [ owner : Harts, inputs : Seq(DOMAIN a.subslices),
    output : DOMAIN a.subslices ]

PlanType(a) ==
  [ noted : BOOLEAN, nextL1 : Nat, slices : Seq(DOMAIN a.slices),
    initReads : Seq(DOMAIN a.reads), reads : Seq(DOMAIN a.reads),
    recvs : Seq(DOMAIN a.recvs), sends : Seq(DOMAIN a.sends),
    ops : Seq(DOMAIN a.ops), writes : Seq(DOMAIN a.writes) ]

IsTable(table, values) == table \in [DOMAIN table -> values]

IsIdTable(ids) == IsFiniteSet(DOMAIN ids) /\ IsTable(ids, Nat)

AppFields ==
  { "target", "l2Base", "l2End", "nextL2", "numTokens", "numTokenSlots",
    "randomizeInputs", "hasPackedWeights", "weightsSize", "weightsAlignment",
    "globalIds", "transitionIds", "nextSliceId", "l2Index", "initSlots",
    "slices", "subslices", "l2Globals", "reads", "recvs", "sends", "ops",
    "writes", "plans" }

ScalarsOK(a) ==
  /\ {a.l2Base, a.l2End, a.nextL2, a.numTokens, a.numTokenSlots,
      a.weightsSize, a.weightsAlignment} \subseteq Nat
  /\ {a.randomizeInputs, a.hasPackedWeights} \subseteq BOOLEAN

IdsOK(a) ==
  /\ IsIdTable(a.globalIds) /\ IsIdTable(a.transitionIds)
  /\ a.nextSliceId \in [Harts -> Nat]
  /\ IsTable(a.l2Index, DOMAIN a.l2Globals)
  /\ IsTable(a.initSlots, DOMAIN a.slices)

PlacesOK(a) ==
  /\ a.slices \in Seq(SliceType)
  /\ a.subslices \in Seq(SubsliceType(a))
  /\ a.l2Globals \in Seq(L2GlobalType)

RowsOK(a) ==
  /\ a.reads \in Seq(ReadType(a)) /\ a.writes \in Seq(ReadType(a))
  /\ a.recvs \in Seq(RecvType(a)) /\ a.sends \in Seq(SendType(a))
  /\ a.ops \in Seq(OpType(a))

AppOK(a) ==
  /\ DOMAIN a = AppFields
  /\ ScalarsOK(a) /\ IdsOK(a) /\ PlacesOK(a) /\ RowsOK(a)
  /\ a.plans \in [Harts -> PlanType(a)]
=============================================================================
