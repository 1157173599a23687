---------------------------- MODULE ModuleContract ----------------------------
(***************************************************************************)
(* What the collector takes for granted of the module it is given.  It      *)
(* compares no send with its receive and no slice with its tensor: the      *)
(* dialect accepts modules whose transfers do not fit together, and the     *)
(* importer (ExecutionPlanImporter.cpp) never writes one.  Each contract is *)
(* about the text of a module alone.  That imported modules keep them is    *)
(* checked for the modules TLC collects; what the collector makes of any    *)
(* module that keeps them is proved.                                        *)
(*                                                                         *)
(* A value of a tile lives in a slice of its L1.  `home` says of each value *)
(* the tile, the shape and the width of elements of that slice, as a typing *)
(* of the module would.                                                     *)
(***************************************************************************)
EXTENDS ApplicationProperties

Home(tile, shape, elem) ==
  [tile |-> tile, shape |-> shape, width |-> ElementByteWidth(elem)]

\* The part of a slice an attribute names: without one, all of it.
Part(box, shape) == IF box = NoBox THEN [off |-> <<0, 0>>, len |-> shape] ELSE box

FitsIn(part, shape) == \A d \in 1..2 : part.off[d] + part.len[d] <= shape[d]

-----------------------------------------------------------------------------
(* Values *)

TileRecvs(p) == {i \in DOMAIN p.run : IsTileRecv(p.run[i])}

TransferSends(p) == {i \in DOMAIN p.run : IsTileSend(p.run[i]) /\ p.run[i].dst # L2}

RecvHome(o) == Home(o.tile, Part(o.parent, o.type.shape).len, o.type.elem)

ValueHome(o) == Home(o.tile, o.type.shape, o.type.elem)

\* Slices of a value and values assembled from pieces live where those do.
HomesAgree(p, home) ==
  \A i \in DOMAIN p.run :
    LET o == p.run[i]
    IN /\ IsTileRecv(o) => home[o.result] = RecvHome(o)
       /\ o.op = "recv" /\ o.src = L2 => home[o.result] = ValueHome(o)
       /\ o.op = "compute" => home[o.result] = ValueHome(o)
       /\ o.op = "load" =>
            \A j \in DOMAIN p.init :
              /\ p.init[j].op = "store"
              /\ p.init[j].tile = o.tile /\ p.init[j].slot = o.slot
              => home[o.result] = ValueHome(p.init[j])
       /\ o.op = "extract" => home[o.result] = home[o.operand]
       /\ o.op = "insert" =>
            home[o.result] = home[o.source] /\ home[o.result] = home[o.dest]

\* What is sent has been placed when its send is reached, or the slice that is
\* then made for it is the one it should have.
RootIsKnown(p, home, i) ==
  LET o == p.run[i]
  IN \/ home[o.root] = Home(o.src, o.rootType.shape, o.rootType.elem)
     \/ \E k \in DOMAIN p.run :
          /\ p.run[k].op \in {"recv", "load", "compute"}
          /\ p.run[k].result = o.root
          /\ k < i \/ IsTileRecv(p.run[k])

-----------------------------------------------------------------------------
(* Transfers between tiles *)

PartBytes(box, home) ==
  Part(box, home.shape).len[1] * Part(box, home.shape).len[2] * home.width

\* Receives whose pieces are put together in the tile.
PutTogether(o, q) ==
  /\ o.tile = q.tile /\ o.parent = q.parent
  /\ ChannelBaseName(o.channel) = ChannelBaseName(q.channel)

\* A channel joins one send and one receive of the two tiles both name; both
\* are of a part of their slices, and of as many bytes.  Receives that are put
\* together live in one slice.
TransfersPair(p, home) ==
  /\ \A i, j \in TileRecvs(p) :
       /\ p.run[i].channel = p.run[j].channel => i = j
       /\ PutTogether(p.run[i], p.run[j]) =>
            home[p.run[i].result] = home[p.run[j].result]
  /\ \A i, j \in TransferSends(p) : p.run[i].channel = p.run[j].channel => i = j
  /\ \A i \in TileRecvs(p) :
       LET o == p.run[i]
       IN /\ o.tile = o.dst
          /\ FitsIn(Part(o.sub, home[o.result].shape), home[o.result].shape)
          /\ \E j \in TransferSends(p) : p.run[j].channel = o.channel
  /\ \A i \in TransferSends(p) :
       LET o == p.run[i]
       IN /\ RootIsKnown(p, home, i)
          /\ home[o.root].tile = o.src
          /\ FitsIn(Part(o.sub, home[o.root].shape), home[o.root].shape)
          /\ \E j \in TileRecvs(p) :
               LET r == p.run[j]
               IN /\ r.channel = o.channel /\ r.src = o.src /\ r.dst = o.dst
                  /\ PartBytes(r.sub, home[r.result]) = PartBytes(o.sub, home[o.root])

\* No receive is of nothing.
ReceivesHoldData(p, home) ==
  \A i \in TileRecvs(p) : \A d \in 1..2 :
    LET shape == home[p.run[i].result].shape
    IN shape[d] > 0 /\ Part(p.run[i].sub, shape).len[d] > 0

IsWired(p, home) == HomesAgree(p, home) /\ TransfersPair(p, home)

-----------------------------------------------------------------------------
(* The edge of the mesh.  `buffer` says of a kind and a name in L2 the type of  *)
(* the tensor that has them.                                                   *)

\* A tile reads a part of the tensor it reads from, and all who name a tensor
\* agree on its type.
ReadsFit(p, buffer) ==
  LET fits(kind, source, shape) ==
        /\ buffer[<<kind, source.name>>] = source.type
        /\ FitsIn([off |-> source.off, len |-> shape], source.type.shape)
  IN /\ \A i \in DOMAIN p.init :
          LET o == p.init[i]
          IN o.op = "store" =>
               fits("Initializer", L2Sources(p.init)[o.channel], o.type.shape)
     /\ \A i \in DOMAIN p.run :
          LET o == p.run[i]
          IN o.op = "recv" /\ o.src = L2 /\ o.channel \in DOMAIN L2Sources(p.run) =>
               fits("Input", L2Sources(p.run)[o.channel], o.type.shape)

OutputSends(p) == {i \in DOMAIN p.run : IsTileSend(p.run[i]) /\ p.run[i].dst = L2}

\* The part of the model output a send to L2 writes: @main inserts it there, or
\* it stands where it was computed.
OutputBox(p, home, o) ==
  [ off |-> IF o.channel \in DOMAIN p.inserts THEN p.inserts[o.channel].off
            ELSE IF o.parent # NoBox THEN o.parent.off ELSE o.rootOffset,
    len |-> Part(o.sub, home[o.root].shape).len ]

OutputType(p, o) ==
  IF o.channel \in DOMAIN p.inserts THEN p.inserts[o.channel].type ELSE o.rootType

CellOf(cell, box) ==
  \A d \in 1..2 : box.off[d] <= cell[d] /\ cell[d] < box.off[d] + box.len[d]

\* Each model output is put together from the parts that are sent to it: they lie
\* in it, and each of its elements is in one of them.
OutputsFit(p, home, buffer) ==
  \A i \in OutputSends(p) :
    LET o == p.run[i]
        type == buffer[<<"Output", o.globalName>>]
        parts == {j \in OutputSends(p) : p.run[j].globalName = o.globalName}
    IN /\ type = OutputType(p, o)
       /\ home[o.root].width = ElementByteWidth(type.elem)
       /\ RootIsKnown(p, home, i)
       /\ FitsIn(OutputBox(p, home, o), type.shape)
       /\ \A r \in 0..(type.shape[1] - 1), c \in 0..(type.shape[2] - 1) :
            \E j \in parts :
              /\ CellOf(<<r, c>>, OutputBox(p, home, p.run[j]))
              /\ \A k \in parts :
                   CellOf(<<r, c>>, OutputBox(p, home, p.run[k])) => k = j
=============================================================================
