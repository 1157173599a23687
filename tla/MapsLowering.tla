---------------------------- MODULE MapsLowering ----------------------------
(***************************************************************************)
(* The conversion of a MAPS program to D2M (MapsPatternLowering.cpp,       *)
(* ComputeEmitter.cpp, ComputeOpRegistry.cpp, FinishEmitter.cpp).  After   *)
(* the analysis a worklist goes over the compute tiles in walk order.  A   *)
(* tile first waits for the semaphores of what it receives, then lowers    *)
(* its sends one after the other.  A send whose inputs have no value yet   *)
(* puts the whole tile off to the next pass; what the tile has emitted by  *)
(* then stays.  A pass that lowers nothing refuses the program.            *)
(*                                                                         *)
(* Everything a tile emits stands in front of the tile, in the order it is *)
(* emitted: block[t] are these operations, the value of the n-th of them   *)
(* is <<t, n>>.  The values of the host stand in front of all tiles that   *)
(* use them and are left out.  An operation remembers the data it is made  *)
(* of, as MapsProgram does for what the program means.                     *)
(***************************************************************************)
EXTENDS MapsProgram, SequencesExt

CONSTANT Programs   \* the programs that may be converted

\* Slots and channels are told apart by their names here; in the code they are
\* kept in tables of their own.
ASSUME ProgramsAssumption ==
  \A p \in Programs :
    /\ IsList(p.tiles) /\ IsList(p.host)
    /\ \A t \in DOMAIN p.tiles :
         /\ IsBody(p.tiles[t].body)
         /\ \A i \in DOMAIN p.tiles[t].body :
              p.tiles[t].body[i].kind = "load" =>
                p.tiles[t].body[i].name \notin HostChannels(p) \cup TileChannels(p)

VARIABLES
  program,    \* the program; never changes
  phase,      \* "analyze", "collect", "lower", "finish", then "done" or "failed"
  todo,       \* pendingTiles: the tiles this pass has still to try
  deferred,   \* deferredTiles: those it has put off
  progress,   \* madeProgress: whether it has lowered one
  at,         \* the operation of the first tile of todo its next send is looked
              \* for from; 0 before.  While the tiles are collected: the last
  lowered,    \* the tiles that have been erased
  block,      \* what has been emitted in front of each tile
  values,     \* channelValues
  lists,      \* channelValueLists
  logical,    \* logicalChannelValues
  semaphores, \* channelSemaphores
  outputs     \* what @forward returns

vars == <<program, phase, todo, deferred, progress, at, lowered, block,
          values, lists, logical, semaphores, outputs>>
emission == <<block, values, lists, logical, semaphores>>
worklist == <<todo, deferred, progress, lowered>>

\* A value inside the body of a tile, which is erased with its tile.
Inside == <<0, 0>>

Init ==
  /\ program \in Programs
  /\ phase = "analyze" /\ todo = <<>> /\ deferred = <<>> /\ progress = FALSE
  /\ at = 0 /\ lowered = {} /\ block = [t \in DOMAIN program.tiles |-> <<>>]
  /\ values = <<>> /\ lists = <<>> /\ logical = <<>> /\ semaphores = <<>>
  /\ outputs = <<>>

-----------------------------------------------------------------------------
(* Lowering a value: it is lowered, made of leaves and reading values that  *)
(* have been emitted; or not yet ("deferred"); or never ("failed").         *)

Lowered(leaves, reads) == [status |-> "lowered", leaves |-> leaves, reads |-> reads]
Deferred == [status |-> "deferred", leaves |-> {}, reads |-> {}]
Failed == [status |-> "failed", leaves |-> {}, reads |-> {}]
IsLowered(r) == r.status = "lowered"

Together(rs) ==
  Lowered(UNION {rs[k].leaves : k \in DOMAIN rs}, UNION {rs[k].reads : k \in DOMAIN rs})

\* Either all operands are lowered, or the value is put off.
AllOf(rs) ==
  IF \A k \in DOMAIN rs : IsLowered(rs[k]) THEN Together(rs) ELSE Deferred

\* The first operand that is not lowered decides.
FirstFault(rs) ==
  LET faults == {k \in DOMAIN rs : ~IsLowered(rs[k])}
  IN IF faults = {} THEN Together(rs)
     ELSE rs[CHOOSE k \in faults : \A j \in faults : k <= j]

PartOf(r, part) ==
  [r EXCEPT !.leaves = {<<l[1], Compose(l[2], part)>> : l \in @}]

\* Mutant of FromChannel: a channel without a value is not waited for.
FromAnyChannel(c, table) ==
  Lowered({<<c, Whole>>}, IF c \in DOMAIN table THEN table[c].reads ELSE {})

FromChannel(c, table) ==
  IF c \in HostChannels(program) THEN Lowered({<<c, Whole>>}, {})
  ELSE IF c \in DOMAIN table THEN Lowered({<<c, Whole>>}, table[c].reads)
  ELSE Deferred

FromSlot(s) == IF s \in Slots(program) THEN Lowered({<<s, Whole>>}, {}) ELSE Deferred

Hoistable == {"empty", "constant", "slice", "insert", "concat"}
Residual == {"exp", "generic", "matmul", "add"}

\* A part of a value of the body as it is.
AsItIs(body, i, part) == Lowered(Leaves(body)[<<i, part>>], {Inside})

\* Mutant of Unhoistable: what computes is taken as it is.
TakenAsItIs(body, i) == AsItIs(body, i, Whole)

Unhoistable(body, i) == Deferred

\* hoistValue: an operation that computes nothing is cloned in front of the tile.
Hoisted(body, forwarded) ==
  LET of[i \in DOMAIN body] ==
        LET op == body[i]
            args == [k \in DOMAIN op.args |-> of[op.args[k]]]
        IN CASE op.kind = "recv" -> FromChannel(op.name, forwarded)
             [] op.kind = "load" -> FromSlot(op.name)
             [] op.kind = "slice" -> PartOf(AllOf(args), op.name)
             [] op.kind \in Hoistable \ {"slice"} -> AllOf(args)
             [] OTHER -> Unhoistable(body, i)
  IN of

\* getSourceValue, and the part that is cut out of it: a value that is neither
\* received nor loaded is taken as it is.
SourceValue(body, i, part, table) ==
  CASE body[i].kind = "recv" -> PartOf(FromChannel(body[i].name, table), part)
    [] body[i].kind = "load" -> PartOf(FromSlot(body[i].name), part)
    [] OTHER -> AsItIs(body, i, part)

\* MatmulComputeEmitter: a part of the rows takes that part of the first operand,
\* out of its source as that stands.
MatmulOf(part, left, source, right) ==
  AllOf(<<IF part = Whole THEN left ELSE source, right>>)

\* lowerValue: a part of a value; what is received, loaded or assembled is
\* taken whole, whatever the part.  A generic is taken to be elementwise: an
\* operand that is broadcast, of which the code takes all whatever the part, is
\* left out.
LowerValue(body, table, forwarded) ==
  LET of[x \in (DOMAIN body) \X Parts] ==
        LET op == body[x[1]]
            part == x[2]
            arg(k, taken) == of[<<op.args[k], taken>>]
        IN CASE op.kind = "recv" -> FromChannel(op.name, table)
             [] op.kind = "load" -> FromSlot(op.name)
             [] op.kind = "empty" -> Lowered({}, {})
             [] op.kind = "insert" -> AllOf([k \in DOMAIN op.args |-> arg(k, Whole)])
             [] op.kind \in {"exp", "generic"} ->
                  FirstFault([k \in DOMAIN op.args |-> arg(k, part)])
             [] op.kind = "matmul" ->
                  MatmulOf(part, arg(1, Whole), SourceValue(body, op.args[1], part, table),
                           arg(2, Whole))
             [] op.kind = "add" -> Failed
             [] OTHER -> PartOf(Hoisted(body, forwarded)[x[1]], part)
  IN of

\* RootAddSendEmitter: the sum of a concatenation is cut into one shard for
\* each of its inputs; the share a shard takes of the other operand counts as
\* that operand.
AddShards(body, add, table, forwarded) ==
  LET args == body[add].args
      concats == {k \in 1..2 : body[args[k]].kind = "concat"}
      n == IF 1 \in concats THEN 1 ELSE 2
      inputs == body[args[n]].args
      whole(i) == LowerValue(body, table, forwarded)[<<i, Whole>>]
  IN IF concats = {} THEN <<AllOf(<<whole(args[1]), whole(args[2])>>)>>
     ELSE [k \in DOMAIN inputs |->
             AllOf(<<SourceValue(body, args[3 - n], Whole, table), whole(inputs[k])>>)]

-----------------------------------------------------------------------------
(* The sends of the tile that is under way *)

Tile == Head(todo)
Body == program.tiles[Tile].body

\* The sends are taken in the order of the body.
IsSend(k) == k \in DOMAIN Body /\ Body[k].kind = "send"
IsNextSend(k) == IsSend(k) /\ k >= at /\ \A j \in DOMAIN Body : IsSend(j) /\ j >= at => k <= j

NextSend == CHOOSE k \in DOMAIN Body : IsNextSend(k)
Send == Body[NextSend]
Channel == Send.name

\* A slice that is sent is not lowered itself; its part is.
SendsSlice(body, k) == body[body[k].args[1]].kind = "slice"

SentValue(body, k) ==
  IF SendsSlice(body, k) THEN body[body[k].args[1]].args[1] ELSE body[k].args[1]

\* Mutant of SentPart: the slice is taken off and forgotten.
SentWhole(body, k) == Whole

SentPart(body, k) == IF SendsSlice(body, k) THEN body[body[k].args[1]].name ELSE Whole

SentKind(body, k) == body[SentValue(body, k)].kind

\* lowerRegisteredSendValue: the values a send is made of.
PiecesOf(body, k, table, forwarded) ==
  IF SentKind(body, k) = "add" THEN AddShards(body, SentValue(body, k), table, forwarded)
  ELSE IF SentKind(body, k) \in Residual
  THEN <<LowerValue(body, table, forwarded)[<<SentValue(body, k), SentPart(body, k)>>]>>
  ELSE <<Hoisted(body, forwarded)[body[k].args[1]]>>

IsComputed == SentKind(Body, NextSend) \in Residual

Pieces == PiecesOf(Body, NextSend, values, logical)

ArePiecesLowered == \A k \in DOMAIN Pieces : IsLowered(Pieces[k])

\* Only the addition comes back to a send that lacks an input; any other
\* computation that is not lowered is reported as one of a kind not supported.
MayBeDeferred == ~IsComputed \/ SentKind(Body, NextSend) = "add"

IsPlaced == Send.dst = Host \/ HasPlacement(program, Send.dst)

Item(kind, chans, r) ==
  [kind |-> kind, chans |-> chans, reads |-> r.reads, leaves |-> r.leaves]

\* getOrCreateChannelSemaphore: a channel between tiles has one.
NewSemaphore ==
  IF IsTileToTile(program, Channel) /\ Channel \notin DOMAIN semaphores
  THEN <<Item("semaphore", {Channel}, Lowered({}, {}))>> ELSE <<>>

\* A table with the entry of a channel set.
Put(c, v, table) ==
  [d \in {c} \cup DOMAIN table |-> IF d = c THEN v ELSE table[d]]

Emit(items) == block' = [block EXCEPT ![Tile] = @ \o items]

\* The value of the k-th operation the step emits.
Fresh(k) == <<Tile, Len(block[Tile]) + k>>

\* Mutant of SemaphoreAt: it is taken for the operation behind.
SemaphoreBehind(k) ==
  IF NewSemaphore = <<>> THEN semaphores ELSE Put(Channel, Fresh(k + 1), semaphores)

\* The semaphores once that of the channel is the k-th operation of the step.
SemaphoreAt(k) ==
  IF NewSemaphore = <<>> THEN semaphores ELSE Put(Channel, Fresh(k), semaphores)

WithSemaphore == SemaphoreAt(1)

\* The piece that goes to a tile is copied for it and signalled.
Signal(k) ==
  LET computed == Fresh(Len(NewSemaphore) + 2 * k - 1)
  IN Item("signal", {Channel},
          Lowered(Pieces[k].leaves, {computed, WithSemaphore[Channel]}))

\* Mutant of PieceItems: the receiver is signalled before there is anything.
PieceItemsSignalledFirst(k) ==
  (IF IsTileToTile(program, Channel) THEN <<Signal(k)>> ELSE <<>>)
  \o <<Item("compute", {Channel}, Pieces[k])>>

\* Mutant of PieceItems: the receiver is not signalled.
PieceItemsUnsignalled(k) ==
  <<Item("compute", {Channel}, Pieces[k])>>
  \o (IF IsTileToTile(program, Channel)
      THEN <<[Signal(k) EXCEPT !.kind = "payload"]>> ELSE <<>>)

PieceItems(k) ==
  <<Item("compute", {Channel}, Pieces[k])>>
  \o (IF IsTileToTile(program, Channel) THEN <<Signal(k)>> ELSE <<>>)

\* The value of a channel, as its readers take it.
Stands(k, leaves) == [reads |-> {Fresh(k)}, leaves |-> leaves]

-----------------------------------------------------------------------------
(* Analysis *)

IsWellFormed ==
  /\ ChannelsAreMatched(program)
  /\ TilesSend(program)
  /\ TilesArePlaced(program)

Analyze ==
  /\ phase = "analyze" /\ IsWellFormed
  /\ phase' = "collect"
  /\ UNCHANGED <<program, worklist, at, emission, outputs>>

\* A program that is not well formed is refused.  (Of a store that is received
\* from a channel nobody sends on, the analysis has reported the fault before it
\* looks the channel up all the same; it is refused here too.)
RefuseProgram ==
  /\ phase = "analyze" /\ ~IsWellFormed
  /\ phase' = "failed"
  /\ UNCHANGED <<program, worklist, at, emission, outputs>>

\* Mutant of Listed: the tiles are taken from the last to the first.
ListedFirst(tile) == <<tile>> \o todo

Listed(tile) == Append(todo, tile)

\* The tiles are gone through in walk order: those that only store are
\* dropped, the others are the work of the first pass.
Collect ==
  /\ phase = "collect" /\ at < Len(program.tiles)
  /\ at' = at + 1
  /\ todo' = IF at + 1 \in ComputeTiles(program) THEN Listed(at + 1) ELSE todo
  /\ UNCHANGED <<program, phase, deferred, progress, lowered, emission, outputs>>

EndCollection ==
  /\ phase = "collect" /\ at = Len(program.tiles)
  /\ phase' = "lower" /\ at' = 0
  /\ UNCHANGED <<program, worklist, emission, outputs>>

-----------------------------------------------------------------------------
(* One tile of a pass *)

\* collectRecvSemaphores: the receives of channels that are sent already.
Awaited ==
  {k \in DOMAIN Body : /\ Body[k].kind = "recv"
                       /\ Body[k].name \in DOMAIN semaphores \cap DOMAIN values}

FirstAwaited == Body[CHOOSE k \in Awaited : \A j \in Awaited : k <= j].name

\* One operation waits for all of them; it takes the value of the first, and
\* stands for it from then on.
WaitItem ==
  LET first == values[FirstAwaited]
      chans == {Body[k].name : k \in Awaited}
  IN Item("wait", chans,
          Lowered(first.leaves, first.reads \cup {semaphores[c] : c \in chans}))

BeginTile ==
  /\ phase = "lower" /\ todo # <<>> /\ at = 0
  /\ at' = 1
  /\ IF Awaited = {} THEN UNCHANGED <<block, values>>
     ELSE /\ Emit(<<WaitItem>>)
          /\ values' = [values EXCEPT ![FirstAwaited].reads = {Fresh(1)}]
  /\ UNCHANGED <<program, phase, worklist, lists, logical, semaphores, outputs>>

HasSend ==
  /\ phase = "lower" /\ todo # <<>> /\ at > 0
  /\ \E k \in DOMAIN Body : IsNextSend(k)

\* A computed value: its pieces, each wrapped for the cores of the tile.
LowerSend ==
  /\ HasSend /\ IsComputed /\ IsPlaced /\ ArePiecesLowered
  /\ LET width == IF IsTileToTile(program, Channel) THEN 2 ELSE 1
         base == Len(NewSemaphore)
         stands == [k \in DOMAIN Pieces |-> Stands(base + k * width, Pieces[k].leaves)]
     IN /\ Emit(NewSemaphore \o FlattenSeq([k \in DOMAIN Pieces |-> PieceItems(k)]))
        /\ values' = Put(Channel, stands[1], values)
        /\ lists' = Put(Channel, stands, lists)
  /\ semaphores' = WithSemaphore
  /\ at' = NextSend + 1
  /\ UNCHANGED <<program, phase, worklist, logical, outputs>>

\* A value that is only passed on is cloned, and laid out for the device.  It
\* is not signalled.
ForwardSend ==
  /\ HasSend /\ ~IsComputed /\ IsPlaced /\ ArePiecesLowered
  /\ LET hoisted == Pieces[1]
         isCloned == Body[Send.args[1]].kind \notin {"recv", "load"}
         clone == IF isCloned THEN <<Item("clone", {Channel}, hoisted)>> ELSE <<>>
         source == IF isCloned THEN Stands(1, hoisted.leaves)
                   ELSE [reads |-> hoisted.reads, leaves |-> hoisted.leaves]
         stands == Stands(Len(clone) + Len(NewSemaphore) + 1, hoisted.leaves)
     IN /\ Emit(clone \o NewSemaphore
                \o <<Item("layout", {Channel}, Lowered(source.leaves, source.reads))>>)
        /\ logical' = Put(Channel, source, logical)
        /\ values' = Put(Channel, stands, values)
        /\ lists' = Put(Channel, <<stands>>, lists)
        /\ semaphores' = SemaphoreAt(Len(clone) + 1)
  /\ at' = NextSend + 1
  /\ UNCHANGED <<program, phase, worklist, outputs>>

\* Mutant of PutOff: a tile that is put off is forgotten.
PutOffLost == deferred

PutOff == Append(deferred, Tile)

\* The tile is put off; what it has emitted stays, and is emitted once more
\* when it is tried again.  Of the send that puts it off this is the semaphore;
\* the operands of a sum that were lowered before the one that was not stay as
\* well, but nothing reads them and the cleanup erases them: they are left out.
DeferTile ==
  /\ HasSend /\ MayBeDeferred /\ ~ArePiecesLowered
  /\ IsComputed => IsPlaced
  /\ IF IsComputed THEN Emit(NewSemaphore) /\ semaphores' = WithSemaphore
     ELSE UNCHANGED <<block, semaphores>>
  /\ at' = 0 /\ todo' = Tail(todo) /\ deferred' = PutOff
  /\ UNCHANGED <<program, phase, progress, lowered, values, lists, logical, outputs>>

\* The destination has no place, or a computation is reported as unsupported.
AbortTile ==
  /\ HasSend
  /\ \/ ~IsPlaced /\ (IsComputed \/ ArePiecesLowered)
     \/ IsPlaced /\ ~MayBeDeferred /\ ~ArePiecesLowered
  /\ phase' = "failed"
  /\ UNCHANGED <<program, worklist, at, emission, outputs>>

\* Mutant of IsThrough: the first send is the only one.
IsThroughFirst == at > 1 \/ \A k \in DOMAIN Body : ~IsSend(k)

IsThrough == \A k \in DOMAIN Body : IsSend(k) => k < at

\* All sends are lowered: the tile is erased with its body.
FinishTile ==
  /\ phase = "lower" /\ todo # <<>> /\ at > 0 /\ IsThrough
  /\ lowered' = lowered \cup {Tile} /\ progress' = TRUE
  /\ at' = 0 /\ todo' = Tail(todo)
  /\ UNCHANGED <<program, phase, deferred, emission, outputs>>

-----------------------------------------------------------------------------
(* The end of a pass, and of the conversion *)

\* Mutant of MayTryAgain: a pass that lowered nothing is repeated.
TryForEver == TRUE

MayTryAgain == progress

NextPass ==
  /\ phase = "lower" /\ todo = <<>> /\ deferred # <<>> /\ MayTryAgain
  /\ todo' = deferred /\ deferred' = <<>> /\ progress' = FALSE
  /\ UNCHANGED <<program, phase, at, lowered, emission, outputs>>

RefuseDependencies ==
  /\ phase = "lower" /\ todo = <<>> /\ deferred # <<>> /\ ~MayTryAgain
  /\ phase' = "failed"
  /\ UNCHANGED <<program, worklist, at, emission, outputs>>

EndLowering ==
  /\ phase = "lower" /\ todo = <<>> /\ deferred = <<>>
  /\ phase' = "finish"
  /\ UNCHANGED <<program, worklist, at, emission, outputs>>

\* A receive of @main that stands for a value sent to the host.
IsFinish(c) == c \in DOMAIN values /\ ~IsTileToTile(program, c)

\* lowerFinishTransfers: @forward, which as the importer builds it returns
\* nothing of its own, returns what its receives stand for.  One that stands for
\* nothing is left, and verifyNoMapsOps refuses it.
FinishTransfers ==
  /\ phase = "finish"
  /\ phase' = IF \A k \in DOMAIN program.outs : IsFinish(program.outs[k])
              THEN "done" ELSE "failed"
  /\ LET sent == SelectSeq(program.outs, IsFinish)
     IN outputs' = FlattenSeq([k \in DOMAIN sent |-> lists[sent[k]]])
  /\ UNCHANGED <<program, worklist, at, emission>>

Next ==
  \/ Analyze \/ RefuseProgram \/ Collect \/ EndCollection
  \/ BeginTile \/ LowerSend \/ ForwardSend \/ DeferTile \/ AbortTile \/ FinishTile
  \/ NextPass \/ RefuseDependencies \/ EndLowering \/ FinishTransfers

\* The pass runs in one thread and does not stop before it is through.
Spec == Init /\ [][Next]_vars /\ WF_vars(Next)
=============================================================================
