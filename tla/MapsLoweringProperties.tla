----------------------- MODULE MapsLoweringProperties -----------------------
(***************************************************************************)
(* What is expected of the conversion of a MAPS program to D2M.            *)
(***************************************************************************)
EXTENDS MapsLowering

-----------------------------------------------------------------------------
(* Which programs and channels the expectations are about *)

\* The operations a part of a value is asked of in the end: the part of what is
\* computed element by element takes that part of its operands.
Fringe(body) ==
  LET of[i \in DOMAIN body] ==
        IF body[i].kind \in {"exp", "generic"}
        THEN UNION {of[body[i].args[k]] : k \in DOMAIN body[i].args} ELSE {i}
  IN of

IsInside(body, i) == body[i].kind \notin {"recv", "load"}

\* An operand is cut out of a value computed in the tile itself: of the matmul of
\* which a part is asked, of the sum that is sent in shards.
TakesInside(body, i, part) ==
  \/ /\ part # Whole
     /\ \E j \in Fringe(body)[i] : body[j].kind = "matmul" /\ IsInside(body, body[j].args[1])
  \/ /\ body[i].kind = "add"
     /\ \E k \in 1..2 : /\ body[body[i].args[3 - k]].kind = "concat"
                        /\ IsInside(body, body[i].args[k])

\* A part is asked of something that is only taken whole.
LosesPart(body, i, part) ==
  part # Whole /\ \E j \in Fringe(body)[i] : body[j].kind \in {"recv", "load", "insert", "add"}

\* The computation behind a channel: its tile's body, the value and the part
\* the send asks for.
BodyOf(c) == program.tiles[SenderOf(program, c).tile].body
SentArg(c) == OpAt(program, SenderOf(program, c)).args[1]
IsSlice(c) == BodyOf(c)[SentArg(c)].kind = "slice"
Asked(c) ==
  IF IsSlice(c) THEN <<BodyOf(c)[SentArg(c)].args[1], BodyOf(c)[SentArg(c)].name>>
  ELSE <<SentArg(c), Whole>>
RootKind(c) == BodyOf(c)[Asked(c)[1]].kind
Computes(c) == RootKind(c) \in Residual

CutsOutErased(c) == Computes(c) /\ TakesInside(BodyOf(c), Asked(c)[1], Asked(c)[2])
Cuts(c) == Computes(c) /\ LosesPart(BodyOf(c), Asked(c)[1], Asked(c)[2])

IsSharded(c) ==
  /\ RootKind(c) = "add"
  /\ \E k \in 1..2 : BodyOf(c)[BodyOf(c)[Asked(c)[1]].args[k]].kind = "concat"

\* The operations the value of a place is computed from.
Behind(body) ==
  LET of[i \in DOMAIN body] ==
        {i} \cup UNION {of[body[i].args[k]] : k \in DOMAIN body[i].args}
  IN of

\* What a computed send lowers operation by operation: a sum its operands, one in
\* shards the inputs of the concatenation it is cut by, any other value itself.
Computed(c) ==
  LET body == BodyOf(c)
      args == body[Asked(c)[1]].args
      n == IF body[args[1]].kind = "concat" THEN 1 ELSE 2
  IN IF RootKind(c) # "add" THEN {Asked(c)[1]}
     ELSE IF IsSharded(c) THEN ToSet(body[args[n]].args)
     ELSE {args[1], args[2]}

\* The operations behind what is computed, and those behind what is only moved: the
\* value that is sent, or the slices and concatenations what is computed is made from.
ComputedFrom(c) ==
  IF Computes(c) THEN UNION {Behind(BodyOf(c))[i] : i \in Computed(c)} ELSE {}

MovedFrom(c) ==
  UNION {Behind(BodyOf(c))[i] :
         i \in IF Computes(c)
               THEN {j \in ComputedFrom(c) : BodyOf(c)[j].kind \in {"slice", "concat"}}
               ELSE {SentArg(c)}}

\* What the conversion is able to lower, if it comes in the right order: an
\* addition is the root of its send; what is only moved is not computed, neither
\* here nor by another tile; slots are filled; nothing is sent to oneself or without
\* a place.
IsSupported(c) ==
  LET body == BodyOf(c)
      dst == OpAt(program, SenderOf(program, c)).dst
  IN /\ \A i \in ComputedFrom(c) :
          body[i].kind \in {"recv", "load"} \cup Hoistable \cup (Residual \ {"add"})
     /\ \A i \in MovedFrom(c) :
          /\ body[i].kind \in {"recv", "load"} \cup Hoistable
          /\ body[i].kind = "recv" =>
               body[i].name \in HostChannels(program) \/ ~Computes(body[i].name)
     /\ \A i \in Behind(body)[SentArg(c)] :
          /\ body[i].kind = "load" => body[i].name \in Slots(program)
          /\ body[i].kind = "recv" =>
               \A j \in DOMAIN body : body[j].kind = "send" => body[j].name # body[i].name
     /\ dst = Host \/ HasPlacement(program, dst)

\* The host receives what is meant for it.
IsProgramSupported ==
  /\ IsWellFormed
  /\ \A c \in TileChannels(program) : IsSupported(c)
  /\ \A k \in DOMAIN program.outs :
       program.outs[k] \in TileChannels(program) /\ ~IsTileToTile(program, program.outs[k])

-----------------------------------------------------------------------------
(* Invariants *)

Exists(v) == v[2] \in DOMAIN block[v[1]]
ItemAt(v) == block[v[1]][v[2]]

\* Every value in a table is that of an operation that has been emitted; the
\* worklist holds compute tiles, and the send under way is one of its tile.
TypeOK ==
  /\ phase \in {"analyze", "collect", "lower", "finish", "done", "failed"}
  /\ progress \in BOOLEAN
  /\ {todo[k] : k \in DOMAIN todo} \cup {deferred[k] : k \in DOMAIN deferred}
       \cup lowered \subseteq ComputeTiles(program)
  /\ at \in 0..(IF phase = "collect" THEN Len(program.tiles)
                ELSE IF todo = <<>> THEN 0 ELSE Len(Body) + 1)
  /\ DOMAIN values = DOMAIN lists /\ DOMAIN values \subseteq TileChannels(program)
  /\ DOMAIN logical \subseteq DOMAIN values
  /\ \A c \in DOMAIN semaphores :
       /\ IsTileToTile(program, c)
       /\ Exists(semaphores[c]) /\ ItemAt(semaphores[c]).kind = "semaphore"
  /\ \A c \in DOMAIN values : \A v \in values[c].reads \ {Inside} : Exists(v)
  /\ \A c \in DOMAIN lists : lists[c] # <<>>

\* The worklist never loses or repeats a tile: each compute tile is lowered,
\* still to be tried or put off, and one of the three (lowerMapsProgramToD2M
\* moves its pending tiles between two lists).  In the end all are lowered.
NoTileIsLost ==
  /\ phase = "lower" =>
       /\ lowered \cup ToSet(todo) \cup ToSet(deferred) = ComputeTiles(program)
       /\ lowered \cap (ToSet(todo) \cup ToSet(deferred)) = {}
       /\ ToSet(todo) \cap ToSet(deferred) = {}
       /\ IsInjective(todo) /\ IsInjective(deferred)
  /\ phase \in {"finish", "done"} => lowered = ComputeTiles(program)

\* A tile is erased with its sends, which cannot be lowered later: by then all
\* its channels have a value for their receivers.
ErasedTilesHaveSent ==
  \A t \in lowered : \A k \in DOMAIN program.tiles[t].body :
    program.tiles[t].body[k].kind = "send" =>
      program.tiles[t].body[k].name \in DOMAIN values

Precedes(v, w) == v[1] < w[1] \/ (v[1] = w[1] /\ v[2] < w[2])

Emitted == UNION {{<<t, n>> : n \in DOMAIN block[t]} : t \in DOMAIN program.tiles}

\* In what a converted program has become, an operation stands behind those
\* whose results it takes, when its tiles stand in dependency order (the
\* operations of a tile are emitted in front of it, wherever those that give
\* its inputs are).  In such an order no tile that is put off is ever lowered.
DefinedBeforeUse ==
  phase = "done" /\ InDependencyOrder(program) =>
    \A w \in Emitted : \A v \in ItemAt(w).reads \ {Inside} : Precedes(v, w)

\* No operation takes a value from the body of a tile, which is erased with
\* the tile; except where an operand is cut out of one.
NothingErasedIsRead ==
  \A w \in Emitted : Inside \in ItemAt(w).reads =>
    \E c \in ItemAt(w).chans : CutsOutErased(c)

\* The data a receiver gets: the host all pieces, a tile the first.
Carried(c) ==
  IF IsTileToTile(program, c) THEN values[c].leaves
  ELSE UNION {lists[c][k].leaves : k \in DOMAIN lists[c]}

\* A channel stands for the data the program sends on it: all its pieces for
\* the host, one value for a tile.  Sums in shards sent to a tile and parts of
\* what can only be taken whole are not carried.
ChannelsCarryTheirValues ==
  \A c \in DOMAIN values :
    \/ Carried(c) = Sent(program, c)
    \/ Cuts(c)
    \/ IsTileToTile(program, c) /\ IsSharded(c)

\* What becomes of a channel in a converted program is the send of the program:
\* it stands for the data that is sent, and what is emitted for it (computations,
\* signals, waits) reads operations that have been emitted and stand before it.
\* The three above without their exceptions, for any value, part and order of the
\* tiles: "The `maps.send` operation sends an SSA value through a named MAPS
\* communication channel" (MapsOps.td:118).
ChannelsCarryWhatIsSent ==
  phase = "done" =>
    \A c \in DOMAIN values :
      /\ Carried(c) = Sent(program, c)
      /\ \A w \in Emitted : c \in ItemAt(w).chans =>
           \A v \in ItemAt(w).reads : v # Inside /\ Precedes(v, w)

SignalsOf(c) == {w \in Emitted : ItemAt(w).kind = "signal" /\ c \in ItemAt(w).chans}
WaitsFor(c) == {w \in Emitted : ItemAt(w).kind = "wait" /\ c \in ItemAt(w).chans}

\* In such an order a receiver that waits for a computed value is signalled, once
\* for each piece and before it starts to wait: on one core the signal would never
\* be sent otherwise.
WaitsComeAfterTheirSignal ==
  phase = "done" /\ InDependencyOrder(program) =>
    \A c \in DOMAIN semaphores :
      WaitsFor(c) # {} /\ Computes(c) =>
        /\ Cardinality(SignalsOf(c)) = Len(lists[c])
        /\ \A w \in WaitsFor(c) : \A v \in SignalsOf(c) : Precedes(v, w)

\* The same for all values: maps.recv "receives a value from a named MAPS
\* communication channel", whatever was sent through it.
EveryWaitIsSignalled ==
  \A c \in DOMAIN semaphores : WaitsFor(c) # {} => SignalsOf(c) # {}

\* A program that can be lowered is, when its tiles stand in dependency order.
OrderedProgramsAreLowered ==
  phase = "failed" => ~(IsProgramSupported /\ InDependencyOrder(program))

\* The same whatever the order of the tiles, as the comment on the worklist
\* says: "Lower compute tiles in dependency order".  The channels that depend
\* on each other only in a circle are out of it.
Reached ==
  LET after[n \in 0..Cardinality(TileChannels(program))] ==
        IF n = 0 THEN {}
        ELSE {c \in TileChannels(program) : Reads(program, c) \subseteq after[n - 1]}
  IN after[Cardinality(TileChannels(program))]

ResolvableProgramsAreLowered ==
  phase = "failed" => ~(IsProgramSupported /\ Reached = TileChannels(program))

-----------------------------------------------------------------------------
(* Refinement and liveness *)

\* Tiles are lowered in dependency order: a channel gets its value when those
\* it reads have theirs, and a tile goes when its channels have theirs.
Order == INSTANCE DependencyOrder WITH
  reads <- [c \in TileChannels(program) |->
              IF CutsOutErased(c) THEN {} ELSE Reads(program, c)],
  from <- [c \in TileChannels(program) |-> SenderOf(program, c).tile],
  tiles <- ComputeTiles(program),
  valued <- DOMAIN values,
  retired <- lowered,
  verdict <- CASE phase = "done" -> "accepted" [] phase = "failed" -> "refused"
               [] OTHER -> "open"

LowersInDependencyOrder == Order!Spec

\* The worklist comes to an end, whatever the tiles depend on.
LoweringEnds == <>(phase \in {"done", "failed"})
=============================================================================
