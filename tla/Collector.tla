------------------------------ MODULE Collector ------------------------------
(***************************************************************************)
(* The collection of a MAPS module into an application description         *)
(* (IRCollector.cpp and collectors/).  One module of `Programs` is picked  *)
(* at the start and walked four times: its attributes, the stores of its   *)
(* init region, every tile-to-tile receive of its run region, and then the *)
(* whole run region, operation by operation.  Each handler of a walk is an *)
(* action.  A handler that returns failure interrupts the collection: what *)
(* it had filled in already is dropped with the description by the caller  *)
(* (generateMagiaApplication), so only the phase "failed" is kept of it.   *)
(*                                                                         *)
(* A program is [options, attrs, init, run, inserts]: the command line,    *)
(* the attributes of the module, the operations of the two regions in the  *)
(* order of the walk, and the tensor.insert_slice operations of @main that *)
(* place a received output.  Operations are records told apart by `op`.    *)
(***************************************************************************)
EXTENDS ApplicationDescription

CONSTANTS
  Programs,   \* the modules that may be collected
  L2Bulk      \* kMagiaV3L2BulkBytes: room for a packed image on MAGIA v3

VARIABLES
  prog,    \* the module that is collected; never changes
  phase,   \* which walk is going on
  pos,     \* the operation the walk has reached
  app,     \* MagiaApplicationDescription
  run      \* RunCollectionState

vars == <<prog, phase, pos, app, run>>

NoBox == [none |-> TRUE]     \* an absent slice attribute
NoSource == [none |-> TRUE]  \* a send of what is not cut out of a tensor in L2

EmptyRun ==
  [ tileRecvs |-> <<>>, aggregates |-> <<>>, produced |-> <<>>,
    subsliceOf |-> <<>> ]

-----------------------------------------------------------------------------
(* What the handlers look up *)

\* A transfer's channel is its transition's name and its number there.
ChannelBaseName(channel) ==
  IF Len(channel) = 4 /\ channel[3] = "transfer"
  THEN <<channel[1], channel[2]>>
  ELSE channel

\* collectL2Sources: the last send from L2 of what is cut out of a tensor is the
\* one that counts on a channel.
IsL2Send(o) == o.op = "send" /\ o.src = L2

L2Sources(ops) ==
  LET sends == {i \in DOMAIN ops : IsL2Send(ops[i]) /\ ops[i].source # NoSource}
      last(c) == CHOOSE i \in sends :
                   /\ ops[i].channel = c
                   /\ \A j \in sends : ops[j].channel = c => j <= i
  IN [c \in {ops[i].channel : i \in sends} |-> ops[last(c)].source]

\* Mutant of SubsliceFromAttr: the attribute is ignored.
SubsliceOfWhole(a, sliceIndex, box) == WholeSubslice(a, sliceIndex)

SubsliceFromAttr(a, sliceIndex, box) ==
  IF box = NoBox
  THEN WholeSubslice(a, sliceIndex)
  ELSE [slice |-> sliceIndex, offset |-> box.off, shape |-> box.len]

-----------------------------------------------------------------------------
(* A module the dialect accepts: tiles are those of the mesh, tensors are    *)
(* ranked and static, boxes are pairs, and every store keeps what is sent    *)
(* to it on its channel.                                                     *)

BoxOK(box) == box = NoBox \/ (box.off \in Pair /\ box.len \in Pair)

SourceOK(source) ==
  /\ source.type.shape \in Pair /\ source.off \in Pair
  /\ source.isConstant \in BOOLEAN /\ source.packedOffset \in Nat

OpOK(o) ==
  /\ o.op \in {"store", "recv", "load", "compute"} => o.tile \in Harts
  /\ o.op \in {"store", "recv", "compute"} => o.type.shape \in Pair
  /\ o.op \in {"recv", "send"} => {o.src, o.dst} \subseteq Harts \cup {L2}
  /\ o.op = "recv" => o.dst \in Harts /\ BoxOK(o.parent) /\ BoxOK(o.sub)
  /\ o.op = "extract" => o.off \in Pair /\ o.len \in Pair
  /\ o.op = "compute" =>
       /\ o.fullOffset \in Pair
       /\ Len(o.operands) \in Nat
       /\ DOMAIN o.operands = 1..Len(o.operands)
  /\ o.op = "send" /\ o.src # L2 =>
       /\ o.rootType.shape \in Pair /\ o.rootOffset \in Pair
       /\ BoxOK(o.parent) /\ BoxOK(o.sub)

RegionOK(ops) ==
  /\ Len(ops) \in Nat /\ DOMAIN ops = 1..Len(ops)
  /\ \A i \in DOMAIN ops : OpOK(ops[i])
  /\ \A c \in DOMAIN L2Sources(ops) : SourceOK(L2Sources(ops)[c])

ProgramOK(p) ==
  /\ p.options.numTokens \in Nat /\ p.options.randomizeInputs \in BOOLEAN
  /\ {p.attrs.numTokenSlots, p.attrs.alignment, p.attrs.weightsSize,
      p.attrs.l2Capacity} \subseteq Nat
  /\ {p.attrs.bundle, p.attrs.limited, p.attrs.mesh, p.attrs.identified}
       \subseteq BOOLEAN
  /\ RegionOK(p.init) /\ RegionOK(p.run)
  /\ \A i \in DOMAIN p.init :
       p.init[i].op = "store" => p.init[i].channel \in DOMAIN L2Sources(p.init)
  /\ \A c \in DOMAIN p.inserts :
       p.inserts[c].off \in Pair /\ p.inserts[c].type.shape \in Pair

ASSUME ProgramsAssumption == \A p \in Programs : ProgramOK(p)
ASSUME BulkAssumption == L2Bulk \in Nat

-----------------------------------------------------------------------------
(* Module attributes: collectDeploymentIdentity, collectExecutionContract,   *)
(* collectBundleMetadata.  `mesh` says that the width and the height of the  *)
(* mesh are both positive numbers or both absent, `identified` that the      *)
(* bundle names a weights file of schema 1, little endian, with a SHA-256,   *)
(* and `limited` that the module gives a capacity of L2.                     *)

IsPowerOfTwo(n) == n \in {2^k : k \in 0..20}

Lesser(a, b) == IF a < b THEN a ELSE b

\* The L2 bytes the packed image may take, and where runtime data may end.
HasCapacity(attrs) == attrs.limited

InitializerCapacity(attrs, target) ==
  LET window == IF target = "magia-v3" THEN L2Bulk ELSE L2End - L2Base
  IN IF HasCapacity(attrs) THEN Lesser(window, attrs.l2Capacity) ELSE window

RuntimeL2End(attrs, target) ==
  IF attrs.bundle /\ HasCapacity(attrs) /\ target # "magia-v3"
  THEN Lesser(L2End, L2Base + attrs.l2Capacity)
  ELSE L2End

NoTarget == ""

AttrsHold(attrs, options) ==
  /\ attrs.target \in {NoTarget, options.target}
  /\ attrs.mesh
  /\ attrs.numTokenSlots > 0
  /\ attrs.bundle =>
       /\ attrs.identified
       /\ HasCapacity(attrs) => attrs.l2Capacity > 0
       /\ IsPowerOfTwo(attrs.alignment)
       /\ L2Base % attrs.alignment = 0
       /\ attrs.weightsSize <= InitializerCapacity(attrs, options.target)

\* Mutant of WithBundle: the runtime buffers start where the image does.
WithBundleUnderImage(a, attrs) ==
  IF ~attrs.bundle THEN a
  ELSE [a EXCEPT
         !.hasPackedWeights = TRUE,
         !.weightsSize = attrs.weightsSize,
         !.weightsAlignment = attrs.alignment,
         !.l2End = RuntimeL2End(attrs, a.target)]

\* On v2 the packed image and the runtime buffers share one window; on v3 the
\* image has memory of its own.
WithBundle(a, attrs) ==
  IF ~attrs.bundle THEN a
  ELSE [a EXCEPT
         !.hasPackedWeights = TRUE,
         !.weightsSize = attrs.weightsSize,
         !.weightsAlignment = attrs.alignment,
         !.l2End = RuntimeL2End(attrs, a.target),
         !.nextL2 = IF a.target = "magia-v3" THEN L2Base
                    ELSE AlignTo(L2Base + attrs.weightsSize, Align)]

CollectModuleAttrs ==
  /\ phase = "attrs"
  /\ AttrsHold(prog.attrs, prog.options)
  /\ app' = WithBundle([app EXCEPT !.numTokenSlots = prog.attrs.numTokenSlots],
                       prog.attrs)
  /\ phase' = "init" /\ pos' = 1
  /\ UNCHANGED <<prog, run>>

-----------------------------------------------------------------------------
(* Reading an L2 tensor into a slice, and producing a slice in a tile *)

\* Mutant of AddL2ReadForSlice: an initializer advances with the tokens too.
AddL2ReadAdvancing(a, sliceIndex, kind, source, numTokens) ==
  LET slice == a.slices[sliceIndex]
      b == AddSubslice(GetOrCreateL2Global(a, kind, source, numTokens),
                       WholeSubslice(a, sliceIndex))
      g == b.l2Index[L2Key(kind, source.name)]
      global == b.l2Globals[g]
      start == global.address
               + OffsetBytes(slice.fullOffset,
                             Strides(global.shape, global.elemBytes))
  IN AddL2Read(b, slice.owner, kind = "Initializer",
       [ global |-> g, subslice |-> Len(b.subslices), address |-> start,
         stride |-> global.tokenStride ])

\* addL2ReadForSlice: an input advances by its token stride, an initializer is
\* read from the same place for every token.
AddL2ReadForSlice(a, sliceIndex, kind, source, numTokens) ==
  LET slice == a.slices[sliceIndex]
      b == AddSubslice(GetOrCreateL2Global(a, kind, source, numTokens),
                       WholeSubslice(a, sliceIndex))
      g == b.l2Index[L2Key(kind, source.name)]
      global == b.l2Globals[g]
      start == global.address
               + OffsetBytes(slice.fullOffset,
                             Strides(global.shape, global.elemBytes))
  IN AddL2Read(b, slice.owner, kind = "Initializer",
       [ global |-> g, subslice |-> Len(b.subslices), address |-> start,
         stride |-> IF kind = "Input" THEN global.tokenStride ELSE 0 ])

\* getOrCreateProducedSlice: a key that is known keeps its slice and only
\* learns a new offset in the full tensor.
ProducedSlice(a, name, kind, owner, type, fullOffset) ==
  NewSlice(name, kind, owner, fullOffset, type.shape,
           ElementByteWidth(type.elem), a.numTokenSlots)

CanProduceSlice(a, key, slice) ==
  \/ key \in DOMAIN run.produced
  \/ slice.elemBytes # 0 /\ FitsInTileL1(a, slice)

ProduceSlice(a, key, slice) ==
  IF key \in DOMAIN run.produced
  THEN [a EXCEPT !.slices[run.produced[key]].fullOffset = slice.fullOffset]
  ELSE AllocateSliceInTileL1(a, slice)

ProducedIndex(a, key) ==
  IF key \in DOMAIN run.produced THEN run.produced[key] ELSE Len(a.slices) + 1

-----------------------------------------------------------------------------
(* The init region *)

Step(ops, kind) == pos <= Len(ops) /\ ops[pos].op = kind

StoreSlice(o, source) ==
  NewSlice(source.name, "Initializer", o.tile, source.off, o.type.shape,
           ElementByteWidth(o.type.elem), 1)

CanStore(o, source) ==
  /\ ElementByteWidth(o.type.elem) # 0
  /\ FitsInTileL1(app, StoreSlice(o, source))
  /\ CanGetL2Global(app, "Initializer", source, 1)

CollectInitializerStore ==
  /\ phase = "init" /\ Step(prog.init, "store")
  /\ LET o == prog.init[pos]
         source == L2Sources(prog.init)[o.channel]
         a == AllocateSliceInTileL1(app, StoreSlice(o, source))
         b == [a EXCEPT !.initSlots =
                          Put(@, <<o.tile, o.slot>>, Len(a.slices))]
     IN /\ CanStore(o, source)
        /\ app' = AddL2ReadForSlice(b, Len(a.slices), "Initializer", source, 1)
  /\ pos' = pos + 1
  /\ UNCHANGED <<prog, phase, run>>

-----------------------------------------------------------------------------
(* The receives between tiles, collected before any send *)

\* Mutant of AggregateKey: the tiles of one transition share their slice.
AggregateKeyOfAnyTile(o) == <<ChannelBaseName(o.channel), o.parent>>

AggregateKey(o) == <<o.tile, ChannelBaseName(o.channel), o.parent>>

AggregateSlice(o) ==
  IF o.parent # NoBox
  THEN NewSlice(ChannelBaseName(o.channel), "Intermediate", o.tile,
                o.parent.off, o.parent.len, ElementByteWidth(o.type.elem),
                app.numTokenSlots)
  ELSE NewSlice(ChannelBaseName(o.channel), "Intermediate", o.tile,
                <<0, 0>>, o.type.shape, ElementByteWidth(o.type.elem),
                app.numTokenSlots)

IsTileRecv(o) == o.op = "recv" /\ o.src >= 0

CanCollectTileRecv(o) ==
  \/ AggregateKey(o) \in DOMAIN run.aggregates
  \/ /\ ElementByteWidth(o.type.elem) # 0
     /\ FitsInTileL1(app, AggregateSlice(o))

\* The producers of one tile are numbered in the order of its receives.
CollectTileRecv ==
  /\ phase = "recvs" /\ pos <= Len(prog.run) /\ IsTileRecv(prog.run[pos])
  /\ LET o == prog.run[pos]
         known == AggregateKey(o) \in DOMAIN run.aggregates
         a == IF known THEN app
              ELSE AllocateSliceInTileL1(app, AggregateSlice(o))
         s == IF known THEN run.aggregates[AggregateKey(o)] ELSE Len(a.slices)
         b == AddSubslice(a, SubsliceFromAttr(a, s, o.sub))
         c == [b EXCEPT !.transitionIds = WithId(@, o.channel)]
         producer == Len(c.plans[o.dst].recvs)
     IN /\ CanCollectTileRecv(o)
        /\ app' = AddRecv(c, [ transition |-> IdOf(b.transitionIds, o.channel),
                               src |-> o.src, dst |-> o.dst,
                               subslice |-> Len(b.subslices),
                               producer |-> producer ])
        /\ run' = [run EXCEPT
                    !.aggregates = Put(@, AggregateKey(o), s),
                    !.tileRecvs = Put(@, o.channel,
                      [ slice |-> s, subslice |-> Len(b.subslices),
                        producer |-> producer ]),
                    !.subsliceOf = Put(@, o.result, Len(b.subslices))]
  /\ pos' = pos + 1
  /\ UNCHANGED <<prog, phase>>

-----------------------------------------------------------------------------
(* The run region *)

InputSlice(o, source) ==
  NewSlice(source.name, "Input", o.tile, source.off, o.type.shape,
           ElementByteWidth(o.type.elem), app.numTokenSlots)

CanCollectInput(o, source) ==
  /\ ElementByteWidth(o.type.elem) # 0
  /\ FitsInTileL1(app, InputSlice(o, source))
  /\ CanGetL2Global(app, "Input", source, app.numTokens)

CollectInputRecv ==
  /\ phase = "run" /\ Step(prog.run, "recv") /\ prog.run[pos].src = L2
  /\ LET o == prog.run[pos]
         sources == L2Sources(prog.run)
         a == AllocateSliceInTileL1(app, InputSlice(o, sources[o.channel]))
         b == AddSubslice(a, WholeSubslice(a, Len(a.slices)))
     IN /\ o.channel \in DOMAIN sources
        /\ CanCollectInput(o, sources[o.channel])
        /\ app' = AddL2ReadForSlice(b, Len(a.slices), "Input",
                                    sources[o.channel], app.numTokens)
        /\ run' = [run EXCEPT !.subsliceOf =
                                Put(@, o.result, Len(b.subslices))]
  /\ pos' = pos + 1
  /\ UNCHANGED <<prog, phase>>

CollectLoad ==
  /\ phase = "run" /\ Step(prog.run, "load")
  /\ LET o == prog.run[pos]
     IN /\ <<o.tile, o.slot>> \in DOMAIN app.initSlots
        /\ app' = AddSubslice(app,
                    WholeSubslice(app, app.initSlots[<<o.tile, o.slot>>]))
        /\ run' = [run EXCEPT !.subsliceOf =
                                Put(@, o.result, Len(app.subslices) + 1)]
  /\ pos' = pos + 1
  /\ UNCHANGED <<prog, phase>>

\* The alias takes the offsets of the extraction as they stand.
CollectExtractSliceAlias ==
  /\ phase = "run" /\ Step(prog.run, "extract")
  /\ LET o == prog.run[pos]
         known == o.operand \in DOMAIN run.subsliceOf
     IN IF known
        THEN /\ app' = AddSubslice(app,
                  [ slice |-> app.subslices[run.subsliceOf[o.operand]].slice,
                    offset |-> o.off, shape |-> o.len ])
             /\ run' = [run EXCEPT !.subsliceOf =
                                     Put(@, o.result, Len(app.subslices) + 1)]
        ELSE UNCHANGED <<app, run>>
  /\ pos' = pos + 1
  /\ UNCHANGED <<prog, phase>>

\* The assembled value is the whole slice the destination, or else the
\* inserted piece, lives in.
InsertTarget(o) ==
  IF o.dest \in DOMAIN run.subsliceOf
  THEN run.subsliceOf[o.dest] ELSE run.subsliceOf[o.source]

CollectInsertSliceAlias ==
  /\ phase = "run" /\ Step(prog.run, "insert")
  /\ LET o == prog.run[pos]
     IN IF {o.dest, o.source} \cap DOMAIN run.subsliceOf # {}
        THEN /\ app' = AddSubslice(app,
                  WholeSubslice(app, app.subslices[InsertTarget(o)].slice))
             /\ run' = [run EXCEPT !.subsliceOf =
                                     Put(@, o.result, Len(app.subslices) + 1)]
        ELSE UNCHANGED <<app, run>>
  /\ pos' = pos + 1
  /\ UNCHANGED <<prog, phase>>

OpKey(o) == <<"op", o.tile, o.result>>

OpSlice(o) ==
  ProducedSlice(app, o.result, "Intermediate", o.tile, o.type, o.fullOffset)

CanCollectOp(o) ==
  /\ \A v \in {o.operands[k] : k \in DOMAIN o.operands} :
       v \in DOMAIN run.subsliceOf
  /\ CanProduceSlice(app, OpKey(o), OpSlice(o))

\* A descriptor kernel, or a linalg operation that is recognised: the walk stops
\* for one without a handler, and passes over a generic one in silence.  One with
\* several results has a slice of each; here operations have one.
CollectComputeOp ==
  /\ phase = "run" /\ Step(prog.run, "compute")
  /\ LET o == prog.run[pos]
         s == ProducedIndex(app, OpKey(o))
         a == ProduceSlice(app, OpKey(o), OpSlice(o))
         b == AddSubslice(a, WholeSubslice(a, s))
     IN /\ CanCollectOp(o)
        /\ app' = AddOp(b, [ owner |-> o.tile,
                             inputs |-> [k \in DOMAIN o.operands |->
                                           run.subsliceOf[o.operands[k]]],
                             output |-> Len(b.subslices) ])
        /\ run' = [run EXCEPT !.produced = Put(@, OpKey(o), s),
                              !.subsliceOf = Put(@, o.result,
                                                 Len(b.subslices))]
  /\ pos' = pos + 1
  /\ UNCHANGED <<prog, phase>>

-----------------------------------------------------------------------------
(* The sends of a tile: to another tile, or to L2 as a model output *)

SendKind(o) == IF o.dst = L2 THEN "Output" ELSE "Intermediate"

SendName(o) == IF o.dst = L2 THEN o.globalName ELSE ChannelBaseName(o.channel)

\* A value that lives in a slice already is sent from there.
SentSubslice(o) == run.subsliceOf[o.root]

IsPlaced(o) == o.root \in DOMAIN run.subsliceOf

\* Mutant of OutputOffset: the place in the whole output is not looked up.
OutputOffsetInTile(o) ==
  IF o.parent # NoBox THEN o.parent.off ELSE o.rootOffset

OutputOffset(o) ==
  IF o.channel \in DOMAIN prog.inserts /\ o.dst = L2
  THEN prog.inserts[o.channel].off
  ELSE IF o.parent # NoBox THEN o.parent.off ELSE o.rootOffset

OutputSource(o) ==
  [ name |-> SendName(o), isConstant |-> FALSE,
    type |-> IF o.channel \in DOMAIN prog.inserts
             THEN prog.inserts[o.channel].type ELSE o.rootType ]

SendKey(o) == <<SendKind(o), o.src, SendName(o), o.root>>

SendSlice(o) ==
  ProducedSlice(app, SendName(o), SendKind(o), o.src, o.rootType,
                OutputOffset(o))

SourceIndex(o) ==
  IF IsPlaced(o) THEN app.subslices[SentSubslice(o)].slice
  ELSE ProducedIndex(app, SendKey(o))

\* The description once the sent value has a slice and a subslice of it.
WithSource(o) ==
  LET a == IF IsPlaced(o) THEN app ELSE ProduceSlice(app, SendKey(o), SendSlice(o))
  IN AddSubslice(a, SubsliceFromAttr(a, SourceIndex(o), o.sub))

CanPlaceSource(o) ==
  IsPlaced(o) \/ CanProduceSlice(app, SendKey(o), SendSlice(o))

IsTileSend(o) == o.op = "send" /\ o.src >= 0

CanCollectSend(o) ==
  /\ CanPlaceSource(o)
  /\ o.dst # L2 => o.channel \in DOMAIN run.tileRecvs
  /\ o.dst = L2 => CanGetL2Global(app, "Output", OutputSource(o), app.numTokens)

CollectOutputSend ==
  /\ phase = "run" /\ Step(prog.run, "send")
  /\ IsTileSend(prog.run[pos]) /\ prog.run[pos].dst = L2
  /\ LET o == prog.run[pos]
         a == GetOrCreateL2Global(WithSource(o), "Output", OutputSource(o),
                                  app.numTokens)
         g == a.l2Index[L2Key("Output", SendName(o))]
         global == a.l2Globals[g]
     IN /\ CanCollectSend(o)
        /\ app' = AddL2Write(a, o.src,
             [ global |-> g, subslice |-> Len(a.subslices),
               address |-> global.address
                           + OffsetBytes(OutputOffset(o),
                               Strides(global.shape, global.elemBytes)),
               stride |-> global.tokenStride ])
        /\ run' = [run EXCEPT !.produced =
                                Put(@, SendKey(o), SourceIndex(o))]
  /\ pos' = pos + 1
  /\ UNCHANGED <<prog, phase>>

\* The send carries what the destination's receive was given: its place in the
\* destination's L1 and its producer number there.
CollectTileSend ==
  /\ phase = "run" /\ Step(prog.run, "send")
  /\ IsTileSend(prog.run[pos]) /\ prog.run[pos].dst # L2
  /\ LET o == prog.run[pos]
         a == WithSource(o)
         b == [a EXCEPT !.transitionIds = WithId(@, o.channel)]
         recv == run.tileRecvs[o.channel]
         target == a.slices[recv.slice]
     IN /\ CanCollectSend(o)
        /\ app' = AddSend(b,
             [ transition |-> IdOf(a.transitionIds, o.channel),
               src |-> o.src, dst |-> o.dst,
               srcSubslice |-> Len(a.subslices),
               dstSubslice |-> recv.subslice,
               dstL1Offset |-> target.l1Offset,
               dstSlotBytes |-> target.slotBytes,
               producer |-> recv.producer ])
        /\ run' = [run EXCEPT !.produced =
                                Put(@, SendKey(o), SourceIndex(o))]
  /\ pos' = pos + 1
  /\ UNCHANGED <<prog, phase>>

-----------------------------------------------------------------------------
(* The walks *)

\* An operation the walk has no handler for, or a receive or send that another
\* walk deals with, is passed over.
IsPassedOver(o) ==
  CASE phase = "init"  -> o.op # "store"
    [] phase = "recvs" -> ~IsTileRecv(o)
    [] phase = "run"   -> \/ o.op \notin {"recv", "load", "extract", "insert",
                                          "compute", "send"}
                          \/ IsTileRecv(o)
                          \/ IsL2Send(o)
    [] OTHER -> FALSE

Walked == IF phase = "init" THEN prog.init ELSE prog.run

PassOver ==
  /\ phase \in {"init", "recvs", "run"}
  /\ pos <= Len(Walked) /\ IsPassedOver(Walked[pos])
  /\ pos' = pos + 1
  /\ UNCHANGED <<prog, phase, app, run>>

EndWalk ==
  /\ phase \in {"init", "recvs", "run"} /\ pos > Len(Walked)
  /\ phase' = CASE phase = "init" -> "recvs"
                [] phase = "recvs" -> "run"
                [] phase = "run" -> "done"
  /\ pos' = 1
  /\ UNCHANGED <<prog, app, run>>

\* What makes the handler of the operation that is reached return failure.
IsRefused(o) ==
  \/ /\ phase = "init" /\ o.op = "store"
     /\ ~CanStore(o, L2Sources(prog.init)[o.channel])
  \/ phase = "recvs" /\ IsTileRecv(o) /\ ~CanCollectTileRecv(o)
  \/ /\ phase = "run" /\ o.op = "recv" /\ o.src = L2
     /\ ~ /\ o.channel \in DOMAIN L2Sources(prog.run)
          /\ CanCollectInput(o, L2Sources(prog.run)[o.channel])
  \/ /\ phase = "run" /\ o.op = "load"
     /\ <<o.tile, o.slot>> \notin DOMAIN app.initSlots
  \/ phase = "run" /\ o.op = "compute" /\ ~CanCollectOp(o)
  \/ phase = "run" /\ IsTileSend(o) /\ ~CanCollectSend(o)

Refuse ==
  /\ \/ phase = "attrs" /\ ~AttrsHold(prog.attrs, prog.options)
     \/ /\ phase \in {"init", "recvs", "run"}
        /\ pos <= Len(Walked) /\ IsRefused(Walked[pos])
  /\ phase' = "failed"
  /\ UNCHANGED <<prog, pos, app, run>>

Init ==
  /\ prog \in Programs
  /\ phase = "attrs" /\ pos = 1
  /\ app = NewApplication(prog.options)
  /\ run = EmptyRun

Next ==
  \/ CollectModuleAttrs
  \/ CollectInitializerStore
  \/ CollectTileRecv
  \/ CollectInputRecv
  \/ CollectLoad
  \/ CollectExtractSliceAlias
  \/ CollectInsertSliceAlias
  \/ CollectComputeOp
  \/ CollectOutputSend
  \/ CollectTileSend
  \/ PassOver
  \/ EndWalk
  \/ Refuse

Spec == Init /\ [][Next]_vars

-----------------------------------------------------------------------------
\* Where a receive between tiles puts its data.
RecvPlace(a) ==
  [slice : DOMAIN a.slices, subslice : DOMAIN a.subslices, producer : Nat]

\* The tables of a collection refer to the slices and subslices of a.
RunFits(r, a) ==
  /\ DOMAIN r = {"tileRecvs", "aggregates", "produced", "subsliceOf"}
  /\ IsTable(r.tileRecvs, RecvPlace(a))
  /\ IsTable(r.aggregates, DOMAIN a.slices)
  /\ IsTable(r.produced, DOMAIN a.slices)
  /\ IsTable(r.subsliceOf, DOMAIN a.subslices)

RunOK == RunFits(run, app)

(***************************************************************************)
(* Every table of the description and of the collection keeps its shape,   *)
(* and every index kept in one of them, some across several walks, names a *)
(* row of another.                                                         *)
(***************************************************************************)
TypeOK ==
  /\ phase \in {"attrs", "init", "recvs", "run", "done", "failed"}
  /\ pos \in Nat \ {0}
  /\ AppOK(app)
  /\ RunOK
=============================================================================
