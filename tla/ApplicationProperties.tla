------------------------ MODULE ApplicationProperties ------------------------
(***************************************************************************)
(* What the emitter of the application, and the runtime that executes it,  *)
(* rely on in a collected description.  The tables of the description are   *)
(* emitted as they are: nothing later compares a send with its receive or  *)
(* an address with the buffer it points into.                              *)
(***************************************************************************)
EXTENDS Collector

Rows(table) == {table[i] : i \in DOMAIN table}

-----------------------------------------------------------------------------
(* Memory *)

End(slice) == slice.l1Offset + slice.slotBytes * slice.numSlots

\* The slices of a tile lie one after the other below the cursor of its plan.
L1Apart(a) ==
  /\ \A h \in Harts : a.plans[h].nextL1 <= L1Limit
  /\ \A i \in DOMAIN a.slices :
       /\ a.slices[i].l1Offset % Align = 0
       /\ End(a.slices[i]) <= a.plans[a.slices[i].owner].nextL1
       /\ \A j \in 1..(i - 1) :
            a.slices[j].owner = a.slices[i].owner =>
              End(a.slices[j]) <= a.slices[i].l1Offset

\* Slices of one tile never share a byte of its L1, whatever the token slot,
\* start aligned and stay below the ready flags (allocateSliceInTileL1, and
\* every handler of the collectors that places a slice).
SlicesApart == L1Apart(app)

IsRuntime(global) == ~global.isConstant

BufferEnd(global) == global.address + global.tokenStride * global.numTokens

HasImageInL2(a) == a.hasPackedWeights /\ a.target # "magia-v3"

ImageEnd(a) == IF HasImageInL2(a) THEN L2Base + a.weightsSize ELSE L2Base

\* A buffer has an aligned place per token, above the packed image and below
\* both the end of L2 and the cursor.
BufferPlaced(a, b) ==
  /\ b.address % Align = 0 /\ b.tokenStride % Align = 0
  /\ b.tensorBytes <= b.tokenStride
  /\ ImageEnd(a) <= b.address
  /\ BufferEnd(b) <= a.l2End /\ BufferEnd(b) <= a.nextL2

L2Apart(a) ==
  /\ a.l2Base = L2Base /\ a.l2End <= L2End
  /\ ImageEnd(a) <= L2End /\ ImageEnd(a) <= a.nextL2
  /\ \A g \in DOMAIN a.l2Globals :
       IF IsRuntime(a.l2Globals[g])
       THEN /\ BufferPlaced(a, a.l2Globals[g])
            /\ \A other \in 1..(g - 1) :
                 IsRuntime(a.l2Globals[other]) =>
                   BufferEnd(a.l2Globals[other]) <= a.l2Globals[g].address
       ELSE a.l2Globals[g].address + a.l2Globals[g].tensorBytes
              <= L2Base + a.weightsSize

\* The buffers of the tensors a run reads and writes in L2 share no byte with
\* each other nor, on MAGIA v2, with the packed initializers, and a packed
\* initializer lies in the image (getOrCreateL2Global, collectBundleMetadata).
BuffersApart == L2Apart(app)

\* The two allocators implement the abstract memory map: regions are granted
\* one at a time, apart from all others, and never move.
L1Regions(h) ==
  [ i \in {k \in DOMAIN app.slices : app.slices[k].owner = h} |->
      [ start |-> app.slices[i].l1Offset,
        size |-> app.slices[i].slotBytes * app.slices[i].numSlots ] ]

\* The packed image of MAGIA v2 is region 0.
L2Regions ==
  [ g \in {k \in DOMAIN app.l2Globals : IsRuntime(app.l2Globals[k])}
         \cup (IF HasImageInL2(app) THEN {0} ELSE {})
    |-> IF g = 0
        THEN [start |-> L2Base, size |-> app.weightsSize]
        ELSE [ start |-> app.l2Globals[g].address,
               size |-> app.l2Globals[g].tokenStride
                        * app.l2Globals[g].numTokens ] ]

Memory ==
  INSTANCE RegionMap WITH
    Spaces <- Harts \cup {L2},
    Lo <- [s \in Harts \cup {L2} |-> IF s = L2 THEN L2Base ELSE 0],
    Hi <- [s \in Harts \cup {L2} |-> IF s = L2 THEN L2End ELSE L1Limit],
    regions <- [s \in Harts \cup {L2} |->
                  IF s = L2 THEN L2Regions ELSE L1Regions(s)]

\* The L1 of every tile and the L2 application data are planned as the abstract
\* memory map says: allocateSliceInTileL1 and getOrCreateL2Global, with all the
\* handlers that call them, only ever add a region apart from all others.
MemoryRefinement == Memory!Spec

-----------------------------------------------------------------------------
(* Transfers between tiles *)

SubSlice(sub) == app.slices[app.subslices[sub].slice]

\* The coordinates a subslice covers, inside its slice.
Cells(sub) ==
  LET s == app.subslices[sub]
  IN ((s.offset[1])..(s.offset[1] + s.shape[1] - 1))
     \X ((s.offset[2])..(s.offset[2] + s.shape[2] - 1))

Bytes(sub) ==
  app.subslices[sub].shape[1] * app.subslices[sub].shape[2] * SubSlice(sub).elemBytes

InsideItsSlice(sub) ==
  \A d \in 1..2 : app.subslices[sub].offset[d] + app.subslices[sub].shape[d]
                    <= SubSlice(sub).shape[d]

Meet(send, recv) ==
  /\ send.transition = recv.transition
  /\ send.src = recv.src /\ send.dst = recv.dst
  /\ send.producer = recv.producer
  /\ send.dstSubslice = recv.subslice

\* A send and the receive it meets were collected in different walks, from
\* different tiles.  They agree on the transition, the two tiles, the producer
\* number, which is the place of the receive among those of its tile, the
\* number of bytes, and the slice of the destination, whose address the send
\* has copied; no two sends share a receive, and once the collection is done
\* no receive waits for a send that nobody makes.
SendsMeetReceives ==
  /\ \A i \in DOMAIN app.sends :
       LET s == app.sends[i]
           target == SubSlice(s.dstSubslice)
       IN /\ \E r \in Rows(app.recvs) : Meet(s, r)
          /\ app.recvs[app.plans[s.dst].recvs[s.producer + 1]].subslice
               = s.dstSubslice
          /\ target.owner = s.dst /\ SubSlice(s.srcSubslice).owner = s.src
          /\ target.l1Offset = s.dstL1Offset
          /\ target.slotBytes = s.dstSlotBytes
          /\ InsideItsSlice(s.srcSubslice) /\ InsideItsSlice(s.dstSubslice)
          /\ Bytes(s.srcSubslice) = Bytes(s.dstSubslice)
          /\ \A j \in 1..(i - 1) :
               <<app.sends[j].dst, app.sends[j].producer>> # <<s.dst, s.producer>>
  /\ phase = "done" =>
       \A r \in Rows(app.recvs) : \E s \in Rows(app.sends) : Meet(s, r)

-----------------------------------------------------------------------------
(* The data a tile computes with *)

\* What is put into the cell of a slice before operation k of its tile runs:
\* reads from L2, receives, and the outputs of the operations before it.
Fillers(slice, cell, before) ==
  LET fills(sub) == app.subslices[sub].slice = slice /\ cell \in Cells(sub)
  IN {<<"read", i>> : i \in {i \in DOMAIN app.reads :
                               fills(app.reads[i].subslice)}}
     \cup {<<"recv", i>> : i \in {i \in DOMAIN app.recvs :
                                    fills(app.recvs[i].subslice)}}
     \cup {<<"op", k>> : k \in {k \in before : fills(app.ops[k].output)}}

\* What a tile receives from others of one transition is cut so that each element
\* of what it is put into arrives once.
PiecesTile(h) ==
  LET mine == {i \in DOMAIN prog.run :
                 /\ prog.run[i].op = "recv" /\ prog.run[i].tile = h
                 /\ prog.run[i].parent # NoBox}
      Beside(i) == {j \in mine :
                      /\ prog.run[j].parent = prog.run[i].parent
                      /\ ChannelBaseName(prog.run[j].channel)
                           = ChannelBaseName(prog.run[i].channel)}
      Holds(box, cell) ==
        \A d \in 1..2 : cell[d] \in (box.off[d])..(box.off[d] + box.len[d] - 1)
  IN \A i \in mine :
       LET shape == prog.run[i].parent.len
       IN \A cell \in (0..(shape[1] - 1)) \X (0..(shape[2] - 1)) :
            Cardinality({j \in Beside(i) : Holds(prog.run[j].sub, cell)}) = 1

\* Every operand of an operation lies in its tile's own L1, and each of its
\* elements is put there once, by one read, one receive or one earlier
\* operation of the tile: no element is missing when pieces are assembled, and
\* no two producers write the same one.  The pieces must have been cut that way.
OperandsFilledOnce ==
  phase = "done" =>
    \A h \in {h \in Harts : PiecesTile(h)} : \A n \in DOMAIN app.plans[h].ops :
      LET op == app.ops[app.plans[h].ops[n]]
          before == {app.plans[h].ops[m] : m \in 1..(n - 1)}
      IN /\ op.owner = h
         /\ \A sub \in Rows(op.inputs) :
              /\ SubSlice(sub).owner = h
              /\ \A cell \in Cells(sub) :
                   Cardinality(Fillers(app.subslices[sub].slice, cell, before)) = 1

-----------------------------------------------------------------------------
(* The data that crosses the edge of the mesh *)

\* The bytes of its buffer, for the first token, a row of the table of reads or
\* writes reaches: one row of the subslice after the other, by the strides of
\* the whole tensor.
Touched(row) ==
  LET g == app.l2Globals[row.global]
      s == app.subslices[row.subslice]
      strides == Strides(g.shape, g.elemBytes)
  IN { row.address - g.address + OffsetBytes(<<i, j>>, strides) :
         i \in 0..(s.shape[1] - 1), j \in 0..(s.shape[2] - 1) }

ElementStarts(g) == {k * g.elemBytes : k \in 0..(g.shape[1] * g.shape[2] - 1)}

\* For every token, every element of a model output is written by exactly one
\* tile: the pieces the tiles write to L2 tile the whole tensor.
OutputsTiled ==
  phase = "done" =>
    \A g \in DOMAIN app.l2Globals :
      app.l2Globals[g].kind = "Output" =>
        LET mine == {w \in DOMAIN app.writes : app.writes[w].global = g}
        IN /\ \A e \in ElementStarts(app.l2Globals[g]) :
                Cardinality({w \in mine : e \in Touched(app.writes[w])}) = 1
           /\ \A w \in mine :
                /\ Touched(app.writes[w]) \subseteq ElementStarts(app.l2Globals[g])
                /\ app.writes[w].stride = app.l2Globals[g].tokenStride

\* A tile reads, for every token it is run for, only elements of the tensor it
\* reads from, in the buffer of that token; an initializer has one buffer for
\* all tokens.
ReadsInsideTheirTensor ==
  \A r \in Rows(app.reads) :
    LET g == app.l2Globals[r.global]
    IN \A token \in 0..(app.numTokens - 1) :
         /\ Touched(r) \subseteq ElementStarts(g)
         /\ token * r.stride + g.tensorBytes <= g.tokenStride * g.numTokens
=============================================================================
