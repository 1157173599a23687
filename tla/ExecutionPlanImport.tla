------------------------- MODULE ExecutionPlanImport -------------------------
(***************************************************************************)
(* The import of an execution plan as a MAPS module                        *)
(* (tools/maps-translate/ExecutionPlanImporter.cpp): from the stages,       *)
(* layers and transitions of a plan to the operations of an init and a run *)
(* region, in the order in which a later walk meets them.                  *)
(*                                                                         *)
(* A plan is [options, attrs, tensors, tiles, stages, transitions]:        *)
(*   tensors[t]     = [initializer, type, packed], type = [shape, elem]    *)
(*   tiles          = the hartids of the mesh, in the order of the plan    *)
(*   stages[s]      = [tiles, layers]                                      *)
(*   layer          = [kind, inputs, output, boxes]: boxes[h] is the part  *)
(*                    of the output tensor tile h computes; the kind tells *)
(*                    a descriptor kernel, a linalg operation, and a       *)
(*                    transform left as tensor operations ("kernel",       *)
(*                    "linalg", "transform")                               *)
(*   input          = [tensor, source, transition, destinations]           *)
(*   transitions[t] = [kind, tensor, from, to, ends]                       *)
(* A box is [off, len], both pairs.  Names and values are tuples in which  *)
(* words and numbers alternate; stages and layers count from 1.            *)
(***************************************************************************)
EXTENDS Integers, Sequences, FiniteSets, SequencesExt

FromL2 == -1
Absent == [none |-> TRUE]

Sifted(s, Test(_)) == SelectSeq(s, Test)

\* One sequence after the other, F(1), F(2) up to F(n).
Each(n, F(_)) == FlattenSeq([i \in 1..n |-> F(i)])

TensorName(t) == <<"tensor", t>>

-----------------------------------------------------------------------------
(* Channel bindings *)

\* getInitializerChannelBindings: one channel and slot per destination of an
\* initializer input of a layer.
InitializerBindings(plan) ==
  Each(Len(plan.stages), LAMBDA s :
    Each(Len(plan.stages[s].layers), LAMBDA l :
      LET layer == plan.stages[s].layers[l]
      IN Each(Len(layer.inputs), LAMBDA i :
           IF layer.inputs[i].source # "INITIALIZER" THEN <<>>
           ELSE LET ends == layer.inputs[i].destinations
                IN [d \in DOMAIN ends |->
                     [ channel |-> <<"initializer", s, "layer", l, "input", i,
                                     "destination", d>>,
                       tensor |-> layer.inputs[i].tensor,
                       dst |-> ends[d].tile, box |-> ends[d].box,
                       stage |-> s, layer |-> l, input |-> i ]])))

\* getExecutionPlanChannelBindings, for each kind of transition.
InputBindings(plan) ==
  Each(Len(plan.transitions), LAMBDA t :
    LET tr == plan.transitions[t]
    IN IF tr.kind # "INPUT" THEN <<>>
       ELSE [d \in DOMAIN tr.ends |->
              [ channel |-> <<"transition", t, "destination", d>>,
                tensor |-> tr.tensor, dst |-> tr.ends[d].tile,
                box |-> tr.ends[d].box, stage |-> tr.to, transition |-> t ]])

IntermediateBindings(plan) ==
  Each(Len(plan.transitions), LAMBDA t :
    LET tr == plan.transitions[t]
    IN IF tr.kind # "INTERMEDIATE" THEN <<>>
       ELSE [n \in DOMAIN tr.ends |->
              [ channel |-> <<"transition", t, "transfer", n>>,
                tensor |-> tr.tensor, src |-> tr.ends[n].src,
                dst |-> tr.ends[n].dst, srcBox |-> tr.ends[n].srcBox,
                dstBox |-> tr.ends[n].dstBox,
                srcParent |-> tr.ends[n].srcParent,
                dstParent |-> tr.ends[n].dstParent,
                from |-> tr.from, to |-> tr.to, transition |-> t ]])

OutputBindings(plan) ==
  Each(Len(plan.transitions), LAMBDA t :
    LET tr == plan.transitions[t]
    IN IF tr.kind # "OUTPUT" THEN <<>>
       ELSE [n \in DOMAIN tr.ends |->
              [ channel |-> <<"transition", t, "source", n>>,
                tensor |-> tr.tensor, src |-> tr.ends[n].tile,
                box |-> tr.ends[n].box, from |-> tr.from ]])

\* getLocalStartsForSourceTile: the least start, per dimension, of what the
\* tile sends of this tensor.
LocalStart(bindings, b, dim) ==
  LET starts == {bindings[k].box.off[dim] :
                   k \in {j \in DOMAIN bindings :
                            /\ bindings[j].tensor = b.tensor
                            /\ bindings[j].src = b.src}}
  IN CHOOSE m \in starts : \A x \in starts : m <= x

-----------------------------------------------------------------------------
(* The init region: every initializer is sent to its tiles, which store it *)

L2Source(plan, t, box) ==
  LET tensor == plan.tensors[t]
  IN [ name |-> TensorName(t), type |-> tensor.type, off |-> box.off,
       isConstant |-> tensor.packed # Absent,
       packedOffset |-> IF tensor.packed # Absent THEN tensor.packed.offset ELSE 0,
       packedSize |-> IF tensor.packed # Absent THEN tensor.packed.size ELSE 0,
       packedShape |-> tensor.type.shape ]

SendFromL2(plan, b) ==
  [ op |-> "send", channel |-> b.channel, src |-> FromL2, dst |-> b.dst,
    source |-> L2Source(plan, b.tensor, b.box) ]

TypeOfBox(plan, t, box) ==
  [shape |-> box.len, elem |-> plan.tensors[t].type.elem]

InitOps(plan) ==
  LET bindings == InitializerBindings(plan)
      stores(h) == Sifted(bindings, LAMBDA b : b.dst = h)
  IN Each(Len(bindings), LAMBDA k : << SendFromL2(plan, bindings[k]) >>)
     \o Each(Len(plan.tiles), LAMBDA h :
          LET mine == stores(plan.tiles[h])
          IN [k \in DOMAIN mine |->
               [ op |-> "store", tile |-> plan.tiles[h],
                 channel |-> mine[k].channel, slot |-> mine[k].channel,
                 type |-> TypeOfBox(plan, mine[k].tensor, mine[k].box) ]])

-----------------------------------------------------------------------------
(* The values of a tile in a stage.  A value is [id, shape]. *)

TransfersTo(plan, s, h) ==
  Sifted(IntermediateBindings(plan), LAMBDA b : b.dst = h /\ b.to = s)

InputsOf(plan, s, h) ==
  Sifted(InputBindings(plan), LAMBDA b : b.dst = h /\ b.stage = s)

RecvId(b) == <<"recv", 0>> \o b.channel

\* A transition that reaches the tile in several transfers is assembled in a
\* tensor that spans them all.
Least(S) == CHOOSE m \in S : \A x \in S : m <= x
Greatest(S) == CHOOSE m \in S : \A x \in S : x <= m

SpanStart(bs, dim) == Least({bs[k].dstBox.off[dim] : k \in DOMAIN bs})

SpanShape(bs) ==
  [dim \in 1..2 |->
    Greatest({bs[k].dstBox.off[dim] + bs[k].dstBox.len[dim] : k \in DOMAIN bs})
      - SpanStart(bs, dim)]

InsertId(b) == <<"insert", 0>> \o b.channel

TransitionValue(plan, s, h, t) ==
  LET bs == Sifted(TransfersTo(plan, s, h), LAMBDA b : b.transition = t)
      ins == Sifted(InputsOf(plan, s, h), LAMBDA b : b.transition = t)
  IN CASE Len(bs) = 1 -> [id |-> RecvId(bs[1]), shape |-> bs[1].srcBox.len]
       [] Len(bs) > 1 -> [id |-> InsertId(bs[Len(bs)]), shape |-> SpanShape(bs)]
       [] Len(ins) > 0 -> [ id |-> RecvId(ins[Len(ins)]),
                            shape |-> ins[Len(ins)].box.len ]
       [] OTHER -> Absent

OpId(s, l, h) == <<"op", s, "layer", l, "tile", h>>
LoadId(b, h) == <<"load", h>> \o b.channel

InitializerAt(plan, s, l, i, h) ==
  LET bs == Sifted(InitializerBindings(plan), LAMBDA b :
              b.dst = h /\ b.stage = s /\ b.layer = l /\ b.input = i)
  IN IF bs = <<>> THEN Absent ELSE bs[1]

\* What an input of a layer assigns to its tensor before the layer computes.
Assigned(plan, s, l, i, h) ==
  LET input == plan.stages[s].layers[l].inputs[i]
  IN CASE input.source = "TRANSITION" ->
            TransitionValue(plan, s, h, input.transition)
       [] input.source = "INITIALIZER" ->
            LET b == InitializerAt(plan, s, l, i, h)
            IN IF b = Absent THEN Absent
               ELSE [id |-> LoadId(b, h), shape |-> b.box.len]
       [] OTHER -> Absent

\* tileValues: the value a tensor has on the tile once layer l has its inputs.
\* The output of an earlier layer and the inputs assigned so far compete: the
\* latest assignment counts.
InputValue(plan, s, l, t, h) ==
  LET layers == plan.stages[s].layers
      byOutput == {k \in 1..(l - 1) : layers[k].output = t}
      byInput == {k \in 1..l :
                    \E i \in DOMAIN layers[k].inputs :
                      /\ layers[k].inputs[i].tensor = t
                      /\ layers[k].inputs[i].source # "LOCAL"}
      last == Greatest(byOutput \cup byInput)
      input(k) == Greatest({i \in DOMAIN layers[k].inputs :
                              /\ layers[k].inputs[i].tensor = t
                              /\ layers[k].inputs[i].source # "LOCAL"})
  IN CASE byOutput \cup byInput = {} -> Absent
       [] last \in byOutput -> [ id |-> OpId(s, last, h),
                                 shape |-> layers[last].boxes[h].len ]
       [] OTHER -> Assigned(plan, s, last, input(last), h)

\* ... and once every layer has run.
FinalValue(plan, s, t, h) ==
  LET layers == plan.stages[s].layers
      last == {k \in DOMAIN layers : layers[k].output = t}
  IN IF Len(layers) \in last
     THEN [ id |-> OpId(s, Len(layers), h),
            shape |-> layers[Len(layers)].boxes[h].len ]
     ELSE InputValue(plan, s, Len(layers), t, h)

-----------------------------------------------------------------------------
(* The body of a tile in a stage *)

RecvTransfer(plan, b) ==
  [ op |-> "recv", tile |-> b.dst, channel |-> b.channel, src |-> b.src,
    dst |-> b.dst, parent |-> b.dstParent, sub |-> b.dstBox,
    type |-> TypeOfBox(plan, b.tensor, b.srcBox), result |-> RecvId(b) ]

RecvInput(plan, b) ==
  [ op |-> "recv", tile |-> b.dst, channel |-> b.channel, src |-> FromL2,
    dst |-> b.dst, parent |-> Absent, sub |-> Absent,
    type |-> TypeOfBox(plan, b.tensor, b.box), result |-> RecvId(b) ]

\* The pieces of each transition that has several, inserted one by one.
Assemble(plan, s, h) ==
  Each(Len(plan.transitions), LAMBDA t :
    LET bs == Sifted(TransfersTo(plan, s, h), LAMBDA b : b.transition = t)
    IN IF Len(bs) < 2 THEN <<>>
       ELSE [k \in DOMAIN bs |->
              [ op |-> "insert", source |-> RecvId(bs[k]),
                dest |-> IF k = 1 THEN <<"empty", t, "stage", s, "tile", h>>
                         ELSE InsertId(bs[k - 1]),
                result |-> InsertId(bs[k]) ]])

\* Only a kernel says where in the whole tensor its output lies.  The box of a
\* matmul has the rows of its left and the columns of its right operand.
LayerOp(plan, s, l, h) ==
  LET layer == plan.stages[s].layers[l]
  IN [ op |-> IF layer.kind = "transform" THEN "transform" ELSE "compute",
       tile |-> h, type |-> TypeOfBox(plan, layer.output, layer.boxes[h]),
       operands |-> [i \in DOMAIN layer.inputs |->
                       InputValue(plan, s, l, layer.inputs[i].tensor, h).id],
       fullOffset |-> IF layer.kind = "kernel" THEN layer.boxes[h].off
                      ELSE <<0, 0>>,
       result |-> OpId(s, l, h) ]

LayerOps(plan, s, h) ==
  Each(Len(plan.stages[s].layers), LAMBDA l :
    LET inputs == plan.stages[s].layers[l].inputs
    IN Each(Len(inputs), LAMBDA i :
         IF inputs[i].source # "INITIALIZER" THEN <<>>
         ELSE LET b == InitializerAt(plan, s, l, i, h)
              IN << [ op |-> "load", tile |-> h, slot |-> b.channel,
                      result |-> LoadId(b, h) ] >>)
       \o << LayerOp(plan, s, l, h) >>)

\* A slice of the value, then its send.  A tensor that has no value on the tile
\* is passed over in silence.
SendSliceOps(plan, b, value, off, len, parent, sub) ==
  LET piece == <<"extract", 0>> \o b.channel
  IN IF value = Absent THEN <<>>
     ELSE << [ op |-> "extract", operand |-> value.id, off |-> off,
               len |-> len, result |-> piece ],
             [ op |-> "send", channel |-> b.channel, src |-> b.src,
               dst |-> IF "dst" \in DOMAIN b THEN b.dst ELSE FromL2,
               root |-> value.id, rootOffset |-> off,
               rootType |-> [ shape |-> value.shape,
                              elem |-> plan.tensors[b.tensor].type.elem ],
               parent |-> parent, sub |-> sub,
               globalName |-> TensorName(b.tensor) ] >>

TransferSends(plan, s, h) ==
  LET bs == Sifted(IntermediateBindings(plan),
                   LAMBDA b : b.src = h /\ b.from = s)
  IN Each(Len(bs), LAMBDA k :
       SendSliceOps(plan, bs[k], FinalValue(plan, s, bs[k].tensor, h),
                    bs[k].srcBox.off, bs[k].srcBox.len, bs[k].srcParent,
                    bs[k].srcBox))

OutputSends(plan, s, h) ==
  LET all == OutputBindings(plan)
      bs == Sifted(all, LAMBDA b : b.src = h /\ b.from = s)
  IN Each(Len(bs), LAMBDA k :
       SendSliceOps(plan, bs[k], FinalValue(plan, s, bs[k].tensor, h),
                    [dim \in 1..2 |-> bs[k].box.off[dim]
                                        - LocalStart(all, bs[k], dim)],
                    bs[k].box.len, Absent, Absent))

TileOps(plan, s, h) ==
  LET transfers == TransfersTo(plan, s, h)
      inputs == InputsOf(plan, s, h)
  IN [k \in DOMAIN transfers |-> RecvTransfer(plan, transfers[k])]
     \o Assemble(plan, s, h)
     \o [k \in DOMAIN inputs |-> RecvInput(plan, inputs[k])]
     \o LayerOps(plan, s, h)
     \o TransferSends(plan, s, h)
     \o OutputSends(plan, s, h)

\* The inputs a stage reads from L2 are sent before the bodies of its tiles.
StageOps(plan, s) ==
  LET mine == Sifted(InputBindings(plan), LAMBDA b :
                b.stage = s /\ b.dst \in plan.stages[s].tiles)
      tiles == Sifted(plan.tiles, LAMBDA h : h \in plan.stages[s].tiles)
  IN [k \in DOMAIN mine |-> SendFromL2(plan, mine[k])]
     \o Each(Len(tiles), LAMBDA k : TileOps(plan, s, tiles[k]))

-----------------------------------------------------------------------------
(* The whole module *)

\* collectExtOutputTensorIds: what some layer computes and none takes as input.
OutputTensors(plan) ==
  LET layers == UNION {ToSet(plan.stages[s].layers) : s \in DOMAIN plan.stages}
  IN {layer.output : layer \in layers}
       \ UNION {{input.tensor : input \in ToSet(layer.inputs)} : layer \in layers}

\* Every layer has its inputs on every tile of its stage: the import gives up
\* on a plan that is short of one.  Only outputs go to the host: for another
\* tensor @main has nothing to insert what it receives into.
Importable(plan) ==
  /\ plan.attrs.numTokenSlots > 0
  /\ \A s \in DOMAIN plan.stages : \A h \in plan.stages[s].tiles :
       \A l \in DOMAIN plan.stages[s].layers :
         \A i \in DOMAIN plan.stages[s].layers[l].inputs :
           InputValue(plan, s, l,
             plan.stages[s].layers[l].inputs[i].tensor, h) # Absent
  /\ \A tr \in ToSet(plan.transitions) :
       tr.kind = "OUTPUT" => tr.tensor \in OutputTensors(plan)

Import(plan) ==
  LET outs == OutputBindings(plan)
      index(c) == CHOOSE k \in DOMAIN outs : outs[k].channel = c
  IN [ options |-> plan.options, attrs |-> plan.attrs,
       init |-> InitOps(plan),
       run |-> Each(Len(plan.stages), LAMBDA s : StageOps(plan, s)),
       inserts |-> [c \in {outs[k].channel : k \in DOMAIN outs} |->
                     [ off |-> outs[index(c)].box.off,
                       type |-> plan.tensors[outs[index(c)].tensor].type ]] ]
=============================================================================
