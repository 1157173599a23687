---------------------------- MODULE EmittedLayout ----------------------------
(***************************************************************************)
(* The payloads of the transfers in the L1 of their destinations            *)
(* (planGatheredFifoLayouts, and the part of Emitter.cpp that prints        *)
(* addresses).  A tile keeps a FIFO at the start of its L1 and its slices   *)
(* behind it.  The FIFO has one ring per receive; on MAGIA v3 the receives  *)
(* that together make up a slice may be gathered: their payloads go to one  *)
(* shared ring that is laid out as the slice.  The receiver's rings and the *)
(* payload mode of every sender are printed from the layouts of this step.  *)
(***************************************************************************)
EXTENDS ApplicationProperties
LOCAL INSTANCE FiniteSetsExt

CONSTANTS
  AliasSlices, AliasSlots,   \* kRuntimeAliasMaxSlices, kRuntimeAliasMaxSlots
  \* The sizes the runtime's headers give to the parts of a FIFO
  FifoHeader, RingState, SlotMeta, SlotOffset, PayloadRing

ASSUME LayoutAssumption ==
  /\ AliasSlices \in Nat /\ AliasSlots \in Nat
  /\ FifoHeader \in Nat /\ RingState \in Nat /\ SlotMeta \in Nat
  /\ SlotOffset \in Nat /\ PayloadRing \in Nat

VARIABLE layouts   \* fifoPayloadRings and fifoSharedRingBytes of every plan

NotPlanned == <<>>
NoGathering == [rings |-> <<>>, ringBytes |-> <<>>]

-----------------------------------------------------------------------------
(* Which slices are gathered *)

Positions(a, h) == DOMAIN a.plans[h].recvs

TargetAt(a, h, i) == a.subslices[a.recvs[a.plans[h].recvs[i]].subslice]

ReceivesInto(a, h, slice) == {i \in Positions(a, h) : TargetAt(a, h, i).slice = slice}

\* isSliceInplaceEligible: only operations of the tile use the slice.
IsSliceInplaceEligible(a, h, slice) ==
  LET plan == a.plans[h]
      Uses(subslice) == a.subslices[subslice].slice = slice
  IN /\ \A n \in Rows(plan.reads) : ~Uses(a.reads[n].subslice)
     /\ \A n \in Rows(plan.sends) : ~Uses(a.sends[n].srcSubslice)
     /\ \A n \in Rows(plan.writes) : ~Uses(a.writes[n].subslice)

\* The i-th receive of h fills a slice that nothing else of the tile fills.
IsRecvInplaceEligible(a, h, i) ==
  LET dst == TargetAt(a, h, i)
      slice == a.slices[dst.slice]
  IN /\ slice.kind # "Initializer"
     /\ dst.offset = <<0, 0>> /\ dst.shape = slice.shape
     /\ ReceivesInto(a, h, dst.slice) = {i}
     /\ IsSliceInplaceEligible(a, h, dst.slice)

Inside(box, shape) == \A d \in 1..2 : box.offset[d] + box.shape[d] <= shape[d]

Overlapping(box, other) ==
  \A d \in 1..2 : /\ box.offset[d] < other.offset[d] + other.shape[d]
                  /\ other.offset[d] < box.offset[d] + box.shape[d]

Elements(a, h, i) == TargetAt(a, h, i).shape[1] * TargetAt(a, h, i).shape[2]

\* The elements of those receives, added up in their order.
Covered(a, h, into) ==
  LET covered[n \in 0..Len(a.plans[h].recvs)] ==
        IF n = 0 THEN 0
        ELSE covered[n - 1] + IF n \in into THEN Elements(a, h, n) ELSE 0
  IN covered[Len(a.plans[h].recvs)]

\* Mutant of MayAlias: the slice behind the last entry of the table is taken.
MayAliasBehindTable(a, h, slice) ==
  /\ a.slices[slice].kind # "Initializer"
  /\ a.slices[slice].sliceId <= AliasSlices
  /\ a.numTokenSlots <= AliasSlots
  /\ IsSliceInplaceEligible(a, h, slice)

MayAlias(a, h, slice) ==
  /\ a.slices[slice].kind # "Initializer"
  /\ a.slices[slice].sliceId < AliasSlices
  /\ a.numTokenSlots <= AliasSlots
  /\ IsSliceInplaceEligible(a, h, slice)

\* Mutant of IsSliceGatherEligible: pieces that overlap are not noticed.
IsSliceGatherEligibleByArea(a, h, slice) ==
  LET into == ReceivesInto(a, h, slice)
      shape == a.slices[slice].shape
  IN /\ MayAlias(a, h, slice)
     /\ \A i \in into : Inside(TargetAt(a, h, i), shape)
     /\ Covered(a, h, into) # 0 /\ Covered(a, h, into) = shape[1] * shape[2]

IsSliceGatherEligible(a, h, slice) ==
  LET into == ReceivesInto(a, h, slice)
      shape == a.slices[slice].shape
  IN /\ MayAlias(a, h, slice)
     /\ \A i \in into : Inside(TargetAt(a, h, i), shape)
     /\ \A i \in into : \A j \in {j \in into : j < i} :
          ~Overlapping(TargetAt(a, h, i), TargetAt(a, h, j))
     /\ Covered(a, h, into) # 0 /\ Covered(a, h, into) = shape[1] * shape[2]

\* The first receives of the slices that are gathered: one per shared ring.
Gathering(a, h) ==
  {i \in Positions(a, h) :
     LET slice == TargetAt(a, h, i).slice
     IN /\ \A j \in ReceivesInto(a, h, slice) : i <= j
        /\ ~IsRecvInplaceEligible(a, h, i)
        /\ IsSliceGatherEligible(a, h, slice)}

\* Rings are numbered in the order of those receives.
RingNumber(a, h, first) == Cardinality({g \in Gathering(a, h) : g <= first})

\* planGatheredFifoLayout: 0 means that the payloads of a receive stay in the
\* slots of its own.
GatheredFifoLayout(a, h) ==
  LET Ring(i) == {RingNumber(a, h, f) :
                    f \in {f \in Gathering(a, h) :
                            TargetAt(a, h, f).slice = TargetAt(a, h, i).slice}}
      First(r) == CHOOSE f \in Gathering(a, h) : RingNumber(a, h, f) = r
  IN IF Gathering(a, h) = {} THEN NoGathering
     ELSE [ rings |-> [i \in Positions(a, h) |->
                         IF Ring(i) = {} THEN 0 ELSE CHOOSE r \in Ring(i) : TRUE],
            ringBytes |-> [r \in 1..Cardinality(Gathering(a, h)) |->
                             a.slices[TargetAt(a, h, First(r)).slice].slotBytes] ]

\* generateMagiaApplication refuses a description without these.
IsComplete == app.hasPackedWeights /\ app.numTokens # 0

\* A tile without a plan has no receives, and nothing to gather.
PlanGatheredFifoLayouts ==
  /\ phase = "done" /\ layouts = NotPlanned /\ IsComplete
  /\ layouts' = [h \in Harts |->
                   IF app.target = "magia-v3"
                   THEN GatheredFifoLayout(app, h) ELSE NoGathering]
  /\ UNCHANGED vars

LayoutInit == Init /\ layouts = NotPlanned

LayoutNext ==
  \/ Next /\ UNCHANGED layouts
  \/ PlanGatheredFifoLayouts

LayoutSpec == LayoutInit /\ [][LayoutNext]_<<vars, layouts>>

-----------------------------------------------------------------------------
(* What is printed from the layouts.  A build with MAPS_FIFO_INPLACE_RECV=0 *)
(* (`inplace` FALSE) ignores the shared rings.                              *)

IsGatheredSend(s) ==
  layouts[s.dst].rings # <<>> /\ layouts[s.dst].rings[s.producer + 1] # 0

\* Mutant of DstOffsetBytes: the place of the piece in the sender's slice.
SrcOffsetBytes(s) ==
  LET src == app.subslices[s.srcSubslice]
      slice == app.slices[src.slice]
  IN IF IsGatheredSend(s)
     THEN OffsetBytes(src.offset, Strides(slice.shape, slice.elemBytes)) ELSE 0

DstOffsetBytes(s) ==
  LET dst == app.subslices[s.dstSubslice]
      slice == app.slices[dst.slice]
  IN IF IsGatheredSend(s)
     THEN OffsetBytes(dst.offset, Strides(slice.shape, slice.elemBytes)) ELSE 0

\* getFifoSlotDataSize
SlotDataBytes(h, i) ==
  Elements(app, h, i) * app.slices[TargetAt(app, h, i).slice].elemBytes

WordAligned(bytes) == AlignTo(bytes, 4)

\* On MAGIA v2 the slots of every ring have the size of the largest.
UniformFifoBytes(h) ==
  LET n == Cardinality(Positions(app, h))
      largest == IF n = 0 THEN 0 ELSE Max({SlotDataBytes(h, i) : i \in Positions(app, h)})
  IN FifoHeader + n * RingState
     + n * app.numTokenSlots * (SlotMeta + WordAligned(largest))

\* emitFifoVariantBytes
VariableFifoBytes(h, shared) ==
  LET n == Cardinality(Positions(app, h))
      Ring(i) == IF shared THEN layouts[h].rings[i] ELSE 0
      Slots(i) == app.numTokenSlots * (SlotMeta
                    + WordAligned(IF Ring(i) # 0 THEN 0 ELSE SlotDataBytes(h, i)))
      Shared(r) == app.numTokenSlots * WordAligned(layouts[h].ringBytes[r])
  IN FifoHeader + n * RingState + (n + 1) * SlotOffset
     + MapThenSumSet(Slots, Positions(app, h))
     + IF shared THEN n * PayloadRing
                      + MapThenSumSet(Shared, DOMAIN layouts[h].ringBytes)
       ELSE 0

\* emitL1DataBaseOffset: the slices of a tile start behind its FIFO.
L1DataBase(h, inplace) ==
  IF app.target # "magia-v3" THEN UniformFifoBytes(h)
  ELSE VariableFifoBytes(h, inplace /\ layouts[h].ringBytes # <<>>)

-----------------------------------------------------------------------------
(* Properties *)

SliceCells(slice) ==
  (0..(app.slices[slice].shape[1] - 1)) \X (0..(app.slices[slice].shape[2] - 1))

SubsliceAt(h, i) == app.recvs[app.plans[h].recvs[i]].subslice

\* Every element of the slice is received once, and nothing else is received.
TiledByReceives(h, slice) ==
  LET into == ReceivesInto(app, h, slice)
  IN /\ \A cell \in SliceCells(slice) :
          Cardinality({i \in into : cell \in Cells(SubsliceAt(h, i))}) = 1
     /\ \A i \in into : Cells(SubsliceAt(h, i)) \subseteq SliceCells(slice)

RingOf(h, i) == IF layouts[h].rings = <<>> THEN 0 ELSE layouts[h].rings[i]

\* "Slices whose receives tile them exactly ... get a shared payload ring": the
\* areas and pairwise overlaps the planner computes from the boxes find those
\* slices among the ones whose storage may be lent to the FIFO, and no others,
\* and two receives share a ring when they share the slice
\* (isSliceGatherEligible, planGatheredFifoLayout).
GatheredWhenTiled ==
  layouts # NotPlanned =>
    \A h \in Harts : \A i \in Positions(app, h) :
      LET slice == TargetAt(app, h, i).slice
      IN /\ RingOf(h, i) # 0 <=>
              /\ app.target = "magia-v3" /\ MayAlias(app, h, slice)
              /\ Cardinality(ReceivesInto(app, h, slice)) > 1
              /\ TiledByReceives(h, slice)
         /\ RingOf(h, i) # 0 =>
              \A j \in Positions(app, h) :
                RingOf(h, j) = RingOf(h, i) <=> TargetAt(app, h, j).slice = slice

\* "The runtime registers each gathered slice in its slice alias table, indexed
\* by (slice id, token slot), and traps outside": what a tile registers for its
\* shared rings lies in the table, and each ring has an entry of its own per token
\* slot.  The ids are given by the handlers that place slices, the rings by the
\* planner (allocateSliceIdForHart, isSliceGatherEligible).
AliasTableHolds ==
  layouts # NotPlanned =>
    \A h \in Harts :
      LET gathered == {i \in Positions(app, h) : RingOf(h, i) # 0}
          entries == { <<app.slices[TargetAt(app, h, i).slice].sliceId, slot>> :
                         i \in gathered, slot \in 0..(app.numTokenSlots - 1) }
      IN /\ entries \subseteq (0..(AliasSlices - 1)) \X (0..(AliasSlots - 1))
         /\ Cardinality(entries) = Len(layouts[h].ringBytes) * app.numTokenSlots

IsShared(s, inplace) == inplace /\ IsGatheredSend(s)

\* Where the bytes of a send arrive at its destination: row by row in a shared
\* ring, or packed in the slots of its own ring.
Arriving(s, inplace) ==
  LET dst == app.subslices[s.dstSubslice]
      slice == app.slices[dst.slice]
      At(i, j) == DstOffsetBytes(s)
                    + OffsetBytes(<<i, j>>, Strides(slice.shape, slice.elemBytes))
  IN IF IsShared(s, inplace)
     THEN { <<"shared", RingOf(s.dst, s.producer + 1), At(i, j) + k>> :
              i \in 0..(dst.shape[1] - 1), j \in 0..(dst.shape[2] - 1),
              k \in 0..(slice.elemBytes - 1) }
     ELSE {<<"slot", s.producer + 1, k>> : k \in 0..(Bytes(s.srcSubslice) - 1)}

\* What the FIFO of tile h has room for in one token slot.
Room(h, inplace) ==
  LET slots == UNION { {<<"slot", i, k>> : k \in 0..(SlotDataBytes(h, i) - 1)} :
                         i \in {i \in Positions(app, h) : ~(inplace /\ RingOf(h, i) # 0)} }
      shared == UNION { {<<"shared", r, k>> : k \in 0..(layouts[h].ringBytes[r] - 1)} :
                          r \in DOMAIN layouts[h].ringBytes }
  IN IF inplace THEN slots \cup shared ELSE slots

\* The layout of a tile's FIFO and the payload modes and offsets of the sends of
\* all other tiles are printed separately, for builds with and without shared
\* rings.  In both, every byte of the FIFO of a tile is written by one send: no
\* two sends write one byte, none leaves its ring, and no part of a slot or of
\* a shared ring stays unwritten (emitSendDesc, emitFifoSlotDataSizes).
PayloadsFillTheFifo ==
  layouts # NotPlanned =>
    \A h \in Harts : \A inplace \in BOOLEAN :
      LET mine == {n \in DOMAIN app.sends : app.sends[n].dst = h}
      IN /\ \A n \in mine : \A m \in {m \in mine : m < n} :
              Arriving(app.sends[n], inplace) \cap Arriving(app.sends[m], inplace) = {}
         /\ UNION {Arriving(app.sends[n], inplace) : n \in mine} = Room(h, inplace)

\* "Collection and emission agree on allocation size": the slices a tile was
\* granted below the ready flags are below them where the emitter puts them
\* (allocateSliceInTileL1 and emitL1DataBaseOffset, on MAGIA v2; on MAGIA v3 a
\* static assertion of the emitted source compares the two).
DataBelowReadyFlags ==
  layouts # NotPlanned /\ app.target # "magia-v3" =>
    \A h \in Harts :
      app.plans[h].noted => L1DataBase(h, TRUE) + app.plans[h].nextL1 <= L1Limit
=============================================================================
