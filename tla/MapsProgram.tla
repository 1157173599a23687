----------------------------- MODULE MapsProgram -----------------------------
(***************************************************************************)
(* A module of the MAPS dialect as the conversion to D2M sees it           *)
(* (MapsProgramAnalysis.cpp, PlacementAnalysis.cpp), and what the module   *)
(* means.  A program is [host, tiles, outs]:                               *)
(*   host   the sends of the host, in walk order: [chan, dst];             *)
(*   tiles  the maps.tile operations, in walk order: [id, coords, stage,   *)
(*          body], stage 0 being the init region;                          *)
(*   outs   the channels @main receives from tiles, in walk order.         *)
(* A body is a sequence of operations [kind, name, args, dst]: args are    *)
(* the places in the body of the operands, name is the channel of a recv   *)
(* or send, the slot of a load or store, the part a slice takes.           *)
(***************************************************************************)
EXTENDS Integers, Sequences, FiniteSets

Host == -1

\* The part of its operand a slice takes, as far as rows go.
Whole == "whole"
Parts == {Whole, "upper", "lower", "nested"}

Compose(outer, inner) ==
  IF outer = Whole THEN inner ELSE IF inner = Whole THEN outer ELSE "nested"

Where(body, kind) ==
  SelectSeq([i \in DOMAIN body |-> i], LAMBDA i : body[i].kind = kind)

Sends(body) == Where(body, "send")
Recvs(body) == Where(body, "recv")

IsList(s) == s \in Seq({s[i] : i \in DOMAIN s})

\* What the dialect and its operations say of any body: an operation takes the
\* results of operations before it, and as many as its kind asks for.
IsBody(body) ==
  /\ IsList(body)
  /\ \A i \in DOMAIN body :
       LET op == body[i]
       IN /\ IsList(op.args) /\ \A k \in DOMAIN op.args : op.args[k] \in 1..(i - 1)
          /\ op.kind \in {"slice", "send"} => Len(op.args) = 1
          /\ op.kind \in {"matmul", "add"} => Len(op.args) = 2
          /\ op.kind = "concat" => op.args # <<>>
          /\ op.kind \in {"recv", "load", "empty", "constant"} => op.args = <<>>
          /\ op.kind = "slice" => op.name \in Parts

\* isInitStorageTile: a tile that does nothing but keep what it receives.
IsInitStorage(tile) ==
  LET recvs == Recvs(tile.body)
      stores == Where(tile.body, "store")
  IN /\ \A i \in DOMAIN tile.body : tile.body[i].kind \in {"recv", "store"}
     /\ Len(recvs) = Len(stores)
     /\ \A k \in DOMAIN stores : tile.body[stores[k]].args = <<recvs[k]>>

ComputeTiles(p) == {t \in DOMAIN p.tiles : ~IsInitStorage(p.tiles[t])}

\* The sends of tiles, as places [tile, op].
TileSends(p) ==
  UNION {{[tile |-> t, op |-> i] :
            i \in {j \in DOMAIN p.tiles[t].body : p.tiles[t].body[j].kind = "send"}} :
         t \in DOMAIN p.tiles}

OpAt(p, s) == p.tiles[s.tile].body[s.op]
ChannelAt(p, s) == OpAt(p, s).name

HostChannels(p) == {p.host[k].chan : k \in DOMAIN p.host}
TileChannels(p) == {ChannelAt(p, s) : s \in TileSends(p)}
SenderOf(p, c) == CHOOSE s \in TileSends(p) : ChannelAt(p, s) = c
IsTileToTile(p, c) == c \in TileChannels(p) /\ OpAt(p, SenderOf(p, c)).dst # Host

Received(p) ==
  {p.outs[k] : k \in DOMAIN p.outs} \cup
  UNION {{p.tiles[t].body[i].name : i \in {j \in DOMAIN p.tiles[t].body :
            p.tiles[t].body[j].kind = "recv"}} : t \in DOMAIN p.tiles}

\* The slots that hold a value the host sends before the run.
Slots(p) ==
  UNION {{p.tiles[t].body[i].name : i \in {j \in DOMAIN p.tiles[t].body :
            p.tiles[t].body[j].kind = "store"}} :
         t \in DOMAIN p.tiles \ ComputeTiles(p)}

\* analyzeMapsProgram: one send a channel, and one for every receive.
ChannelsAreMatched(p) ==
  /\ Cardinality(HostChannels(p)) = Len(p.host)
  /\ Cardinality(TileChannels(p)) = Cardinality(TileSends(p))
  /\ HostChannels(p) \cap TileChannels(p) = {}
  /\ Received(p) \subseteq HostChannels(p) \cup TileChannels(p)

\* verifyMapsProgram: the compute tiles of a stage send something.
TilesSend(p) ==
  \A t \in ComputeTiles(p) : p.tiles[t].stage > 0 => Sends(p.tiles[t].body) # <<>>

\* analyzeMapsPlacement: a tile is where its number says, on the grid.
TilesArePlaced(p) ==
  \A t \in DOMAIN p.tiles :
    /\ Len(p.tiles[t].coords) = 2
    /\ p.tiles[t].coords[1] >= 0 /\ p.tiles[t].coords[2] >= 0
    /\ \A u \in DOMAIN p.tiles :
         p.tiles[t].id = p.tiles[u].id => p.tiles[t].coords = p.tiles[u].coords

HasPlacement(p, id) == \E t \in DOMAIN p.tiles : p.tiles[t].id = id

-----------------------------------------------------------------------------
(* What a program means: the data a value of a body is made of, as a set of *)
(* leaves <<name, part>>: the part taken of a channel or slot.              *)

Leaves(body) ==
  LET of[x \in (DOMAIN body) \X Parts] ==
        LET op == body[x[1]]
            part == x[2]
            arg(k, taken) == of[<<op.args[k], taken>>]
        IN CASE op.kind \in {"recv", "load"} -> {<<op.name, part>>}
             [] op.kind = "slice" -> arg(1, Compose(op.name, part))
             [] op.kind = "matmul" -> arg(1, part) \cup arg(2, Whole)
             [] OTHER -> UNION {arg(k, part) : k \in DOMAIN op.args}
  IN of

\* What is sent on a channel of a tile.
Sent(p, c) ==
  LET s == SenderOf(p, c)
  IN Leaves(p.tiles[s.tile].body)[<<OpAt(p, s).args[1], Whole>>]

\* The channels of tiles that must have been sent before channel c can be,
\* without those its own tile sends.
Reads(p, c) ==
  {l[1] : l \in Sent(p, c)} \cap
  {d \in TileChannels(p) : SenderOf(p, d).tile # SenderOf(p, c).tile}

\* The tiles stand in an order in which every one finds what it needs, as
\* those the importer writes do: it goes through the stages, and a tile sends
\* to tiles of later stages only.
InDependencyOrder(p) ==
  \A c \in TileChannels(p) : \A d \in Reads(p, c) :
    SenderOf(p, d).tile < SenderOf(p, c).tile
=============================================================================
