--------------------------- MODULE CollectorProofs ---------------------------
(***************************************************************************)
(* What the collector keeps for every mesh, every memory size and every    *)
(* well-formed module: the tables of the description stay typed, slices    *)
(* and buffers never overlap, and memory is planned as RegionMap says.     *)
(***************************************************************************)
EXTENDS ApplicationProperties, FiniteSetTheorems, TLAPS

-----------------------------------------------------------------------------
(* Helpers *)

\* AlignTo (alignTo) returns the first multiple of the alignment at or after
\* a byte.
LEMMA AlignToUp ==
  ASSUME NEW v \in Nat
  PROVE  /\ AlignTo(v, Align) \in Nat
         /\ v <= AlignTo(v, Align)
         /\ AlignTo(v, Align) % Align = 0
<1> DEFINE q == (v + Align - 1) \div Align
<1>1. Align \in Nat /\ Align > 0
  BY MemoryAssumption
<1>2. q \in Nat /\ v <= q * Align /\ q * Align \in Nat
  BY <1>1
<1>3. (q * Align) % Align = 0
  BY <1>1, <1>2
<1> QED
  BY <1>2, <1>3 DEF AlignTo

\* A sequence over a set is a sequence over any larger set.
LEMMA SeqGrows ==
  ASSUME NEW S, NEW T, S \subseteq T, NEW s \in Seq(S)
  PROVE  s \in Seq(T)
OBVIOUS

\* What Append does to the domain and the elements of a sequence: every table of
\* the description grows at its end.
LEMMA AppendIs ==
  ASSUME NEW S, NEW s \in Seq(S), NEW e \in S
  PROVE  /\ Append(s, e) \in Seq(S)
         /\ DOMAIN Append(s, e) = DOMAIN s \cup {Len(s) + 1}
         /\ DOMAIN s = 1..Len(s) /\ Len(s) \in Nat
         /\ Append(s, e)[Len(s) + 1] = e
         /\ \A i \in DOMAIN s : Append(s, e)[i] = s[i]
OBVIOUS

\* A table (Put) keeps its type when a typed value is put into it.
LEMMA PutTable ==
  ASSUME NEW V, NEW t, IsTable(t, V), NEW k, NEW v \in V
  PROVE  IsTable(Put(t, k, v), V)
BY DEF IsTable, Put

\* A table over a set is a table over any larger set.
LEMMA TableGrows ==
  ASSUME NEW V, NEW W, V \subseteq W, NEW t, IsTable(t, V)
  PROVE  IsTable(t, W)
BY DEF IsTable

\* An id table hands out naturals, for names it knows and names it does not.
LEMMA IdTable ==
  ASSUME NEW ids, IsIdTable(ids), NEW name
  PROVE  IdOf(ids, name) \in Nat /\ IsIdTable(WithId(ids, name))
<1>1. IsFiniteSet(DOMAIN ids) /\ IsTable(ids, Nat)
  BY DEF IsIdTable
<1>2. IdOf(ids, name) \in Nat
  BY <1>1, FS_CardinalityType DEF IdOf, IsTable
<1>3. IsTable(WithId(ids, name), Nat)
  BY <1>1, <1>2, PutTable DEF WithId
<1>4. DOMAIN WithId(ids, name) = DOMAIN ids \cup {name}
  BY DEF WithId, Put
<1>5. IsFiniteSet(DOMAIN WithId(ids, name))
  BY <1>1, <1>4, FS_AddElement
<1> QED
  BY <1>2, <1>3, <1>5 DEF IsIdTable

-----------------------------------------------------------------------------
(* Types *)

UnplacedOK(slice) ==
  /\ slice.kind \in GlobalKinds /\ slice.owner \in Harts
  /\ slice.fullOffset \in Pair /\ slice.shape \in Pair
  /\ slice.elemBytes \in Nat /\ slice.numSlots \in Nat

\* What a step from description a to description b keeps of the two memories.
SameL1(a, b) ==
  /\ b.slices = a.slices
  /\ \A h \in Harts : b.plans[h].nextL1 = a.plans[h].nextL1

SameL2(a, b) ==
  /\ b.target = a.target /\ b.hasPackedWeights = a.hasPackedWeights
  /\ b.weightsSize = a.weightsSize
  /\ b.weightsAlignment = a.weightsAlignment
  /\ b.randomizeInputs = a.randomizeInputs
  /\ b.l2Base = a.l2Base /\ b.l2End = a.l2End /\ b.nextL2 = a.nextL2
  /\ b.l2Globals = a.l2Globals /\ b.l2Index = a.l2Index

\* b is typed, no slice or subslice of a is gone, and both memories are apart
\* in b if they are in a.
Extends(a, b) ==
  /\ AppOK(b)
  /\ DOMAIN a.slices \subseteq DOMAIN b.slices
  /\ DOMAIN a.subslices \subseteq DOMAIN b.subslices
  /\ L1Apart(a) => L1Apart(b)
  /\ L2Apart(a) => L2Apart(b)

\* Handlers are chains of helpers: what each helper keeps, the chain keeps.
LEMMA ExtendsTransitive ==
  ASSUME NEW a, NEW b, NEW c, Extends(a, b), Extends(b, c)
  PROVE  Extends(a, c)
BY DEF Extends

\* A step that changes no slice and no cursor keeps the slices of L1 apart.
LEMMA SameL1Apart ==
  ASSUME NEW a, AppOK(a), NEW b, SameL1(a, b), L1Apart(a)
  PROVE  L1Apart(b)
<1>1. a.slices \in Seq(SliceType)
  BY DEF AppOK, PlacesOK
<1>2. ASSUME NEW i \in DOMAIN a.slices PROVE a.slices[i].owner \in Harts
  <2>1. a.slices[i] \in SliceType
    BY <1>1
  <2> QED
    BY <2>1 DEF SliceType
<1>3. b.slices = a.slices /\ \A h \in Harts : b.plans[h].nextL1 = a.plans[h].nextL1
  BY DEF SameL1
<1>4. ASSUME NEW i \in DOMAIN a.slices
      PROVE  b.plans[a.slices[i].owner].nextL1 = a.plans[a.slices[i].owner].nextL1
  BY <1>2, <1>3
<1> QED
  BY <1>3, <1>4 DEF L1Apart

\* A step that changes no buffer and no bound of L2 keeps the buffers apart.
LEMMA SameL2Apart ==
  ASSUME NEW a, NEW b, SameL2(a, b), L2Apart(a)
  PROVE  L2Apart(b)
BY DEF SameL2, L2Apart, ImageEnd, HasImageInL2, BufferPlaced

\* The size of a tensor in bytes is a natural number.
LEMMA TensorBytesNat ==
  ASSUME NEW shape \in Pair, NEW elemBytes \in Nat
  PROVE  TensorBytes(shape, elemBytes) \in Nat
<1>1. shape[1] \in Nat /\ shape[2] \in Nat
  BY DEF Pair
<1>2. shape[1] * shape[2] \in Nat
  BY <1>1
<1> QED
  BY <1>2 DEF TensorBytes

\* A description whose rows are the rows of another, and whose slices,
\* subslices and globals are at least those of it, has well-typed rows.
LEMMA RowsGrow ==
  ASSUME NEW a, NEW b, RowsOK(a),
         DOMAIN a.subslices \subseteq DOMAIN b.subslices,
         DOMAIN a.l2Globals \subseteq DOMAIN b.l2Globals,
         b.reads = a.reads, b.writes = a.writes, b.recvs = a.recvs,
         b.sends = a.sends, b.ops = a.ops
  PROVE  RowsOK(b)
<1>1. ReadType(a) \subseteq ReadType(b)
  BY DEF ReadType
<1>2. RecvType(a) \subseteq RecvType(b)
  BY DEF RecvType
<1>3. SendType(a) \subseteq SendType(b)
  BY DEF SendType
<1>4. OpType(a) \subseteq OpType(b)
  BY SeqGrows DEF OpType
<1> QED
  BY <1>1, <1>2, <1>3, <1>4, SeqGrows DEF RowsOK

\* A plan stays typed when the tables it points into grow.
LEMMA PlansGrow ==
  ASSUME NEW a, NEW b,
         DOMAIN a.slices \subseteq DOMAIN b.slices,
         DOMAIN a.reads \subseteq DOMAIN b.reads,
         DOMAIN a.recvs \subseteq DOMAIN b.recvs,
         DOMAIN a.sends \subseteq DOMAIN b.sends,
         DOMAIN a.ops \subseteq DOMAIN b.ops,
         DOMAIN a.writes \subseteq DOMAIN b.writes
  PROVE  PlanType(a) \subseteq PlanType(b)
BY SeqGrows DEF PlanType

\* A slice that has been given its offset and its slot size is typed.
LEMMA PlacedType ==
  ASSUME NEW a, AppOK(a), NEW s, UnplacedOK(s)
  PROVE  PlacedSlice(a, s) \in SliceType /\ L1Stop(a, s) \in Nat
<1>0. /\ IdsOK(a) /\ a.plans \in [Harts -> PlanType(a)] /\ s.owner \in Harts
  BY DEF AppOK, UnplacedOK
<1>1. a.plans[s.owner].nextL1 \in Nat
  BY <1>0 DEF PlanType
<1>2. L1Start(a, s) \in Nat
  BY <1>1, AlignToUp DEF L1Start
<1>3. SlotBytes(s) \in Nat
  BY TensorBytesNat DEF SlotBytes, UnplacedOK
<1>4. IdOf(a.globalIds, s.name) \in Nat
  BY <1>0, IdTable DEF IdsOK
<1>5. a.nextSliceId[s.owner] \in Nat
  BY <1>0 DEF IdsOK
<1>6. PlacedSlice(a, s) \in SliceType
  BY <1>2, <1>3, <1>4, <1>5 DEF PlacedSlice, SliceType, UnplacedOK
<1> QED
  BY <1>2, <1>3, <1>6 DEF L1Stop, UnplacedOK

\* allocateSliceInTileL1 keeps the description typed.
LEMMA AllocateTypes ==
  ASSUME NEW a, AppOK(a), NEW s, UnplacedOK(s)
  PROVE  LET b == AllocateSliceInTileL1(a, s)
         IN /\ AppOK(b) /\ SameL2(a, b)
            /\ b.subslices = a.subslices
            /\ DOMAIN a.slices \subseteq DOMAIN b.slices
            /\ Len(b.slices) = Len(a.slices) + 1
            /\ Len(b.slices) \in DOMAIN b.slices
<1> DEFINE b == AllocateSliceInTileL1(a, s)
           new == PlacedSlice(a, s)
           plan == PlanWithSlice(a.plans[s.owner], L1Stop(a, s),
                                 Len(a.slices) + 1)
<1>1. /\ DOMAIN a = AppFields /\ ScalarsOK(a) /\ IdsOK(a) /\ PlacesOK(a)
      /\ RowsOK(a) /\ a.plans \in [Harts -> PlanType(a)] /\ s.owner \in Harts
  BY DEF AppOK, UnplacedOK
<1>2. new \in SliceType /\ L1Stop(a, s) \in Nat
  BY PlacedType
<1>3. /\ DOMAIN b = AppFields
      /\ b.slices = Append(a.slices, new)
      /\ b.globalIds = WithId(a.globalIds, s.name)
      /\ b.nextSliceId = [a.nextSliceId EXCEPT ![s.owner] = @ + 1]
      /\ b.plans = [a.plans EXCEPT ![s.owner] = plan]
  BY <1>1 DEF AppFields, AllocateSliceInTileL1
<1>4. /\ b.transitionIds = a.transitionIds /\ b.l2Index = a.l2Index
      /\ b.initSlots = a.initSlots /\ b.subslices = a.subslices
      /\ b.l2Globals = a.l2Globals /\ b.reads = a.reads
      /\ b.writes = a.writes /\ b.recvs = a.recvs /\ b.sends = a.sends
      /\ b.ops = a.ops
  BY <1>1 DEF AppFields, AllocateSliceInTileL1
<1>5. ScalarsOK(b)
  BY <1>1 DEF AppFields, AllocateSliceInTileL1, ScalarsOK
<1>11. SameL2(a, b)
  BY <1>1 DEF AppFields, AllocateSliceInTileL1, SameL2
<1> HIDE DEF b, new
<1>6. /\ b.slices \in Seq(SliceType)
      /\ DOMAIN a.slices \subseteq DOMAIN b.slices
      /\ Len(b.slices) = Len(a.slices) + 1
      /\ Len(b.slices) \in DOMAIN b.slices
  BY <1>1, <1>2, <1>3, AppendIs DEF PlacesOK
<1>7. IdsOK(b)
  <2>1. IsIdTable(b.globalIds)
    BY <1>1, <1>3, IdTable DEF IdsOK
  <2>2. b.nextSliceId \in [Harts -> Nat]
    BY <1>1, <1>3 DEF IdsOK
  <2>3. IsTable(b.initSlots, DOMAIN b.slices)
    BY <1>1, <1>4, <1>6, TableGrows DEF IdsOK
  <2> QED
    BY <1>1, <1>4, <2>1, <2>2, <2>3 DEF IdsOK
<1>8. PlacesOK(b)
  <2>1. SubsliceType(a) \subseteq SubsliceType(b)
    BY <1>6 DEF SubsliceType
  <2> QED
    BY <1>1, <1>4, <1>6, <2>1, SeqGrows DEF PlacesOK
<1>9. RowsOK(b)
  BY <1>1, <1>4, RowsGrow
<1>10. b.plans \in [Harts -> PlanType(b)]
  <2>1. PlanType(a) \subseteq PlanType(b)
    BY <1>4, <1>6, PlansGrow
  <2>2. plan \in PlanType(b)
    <3> DEFINE p == a.plans[s.owner]
    <3>1. p \in PlanType(b)
      BY <1>1, <2>1
    <3> HIDE DEF p
    <3>2. p.slices \in Seq(DOMAIN b.slices)
      BY <3>1 DEF PlanType
    <3>3. Len(a.slices) + 1 \in DOMAIN b.slices
      BY <1>6
    <3>4. Append(p.slices, Len(a.slices) + 1) \in Seq(DOMAIN b.slices)
      BY <3>2, <3>3, AppendIs
    <3> QED
      BY <1>2, <3>1, <3>4 DEF PlanType, PlanWithSlice, p
  <2> HIDE DEF plan
  <2> QED
    BY <1>1, <1>3, <2>1, <2>2
<1> QED
  BY <1>3, <1>4, <1>5, <1>6, <1>7, <1>8, <1>9, <1>10, <1>11 DEF AppOK, b

\* A slice that fits is placed above every slice of its tile.
LEMMA AllocateKeepsL1 ==
  ASSUME NEW a, AppOK(a), NEW s, UnplacedOK(s), FitsInTileL1(a, s), L1Apart(a)
  PROVE  L1Apart(AllocateSliceInTileL1(a, s))
<1> DEFINE b == AllocateSliceInTileL1(a, s)
           new == PlacedSlice(a, s)
           start == L1Start(a, s)
           stop == L1Stop(a, s)
<1>1. /\ DOMAIN a = AppFields /\ a.slices \in Seq(SliceType)
      /\ a.plans \in [Harts -> PlanType(a)] /\ s.owner \in Harts
  BY DEF AppOK, PlacesOK, UnplacedOK
<1>2. /\ b.slices = Append(a.slices, new)
      /\ b.plans = [a.plans EXCEPT ![s.owner] =
                      PlanWithSlice(@, stop, Len(a.slices) + 1)]
  BY <1>1 DEF AllocateSliceInTileL1, AppFields
<1>3. /\ a.plans[s.owner].nextL1 \in Nat /\ start \in Nat /\ stop \in Nat
      /\ a.plans[s.owner].nextL1 <= start /\ start <= stop /\ stop <= L1Limit
      /\ start % Align = 0
  <2>1. a.plans[s.owner].nextL1 \in Nat
    BY <1>1 DEF PlanType
  <2>2. /\ start \in Nat /\ a.plans[s.owner].nextL1 <= start
        /\ start % Align = 0
    BY <2>1, AlignToUp DEF L1Start
  <2>3. SlotBytes(s) * s.numSlots \in Nat
    BY TensorBytesNat DEF SlotBytes, UnplacedOK
  <2> QED
    BY <2>1, <2>2, <2>3 DEF L1Stop, FitsInTileL1
<1>4. new.l1Offset = start /\ End(new) = stop /\ new.owner = s.owner
  BY DEF PlacedSlice, End, L1Stop
<1> HIDE DEF b, new, start, stop
<1>5. ASSUME NEW h \in Harts
      PROVE  /\ b.plans[h].nextL1 = IF h = s.owner THEN stop ELSE a.plans[h].nextL1
             /\ a.plans[h].nextL1 \in Nat
             /\ a.plans[h].nextL1 <= b.plans[h].nextL1
             /\ b.plans[h].nextL1 <= L1Limit
  <2>1. a.plans[h] \in PlanType(a) /\ a.plans[s.owner] \in PlanType(a)
    BY <1>1
  <2>2. PlanWithSlice(a.plans[s.owner], stop, Len(a.slices) + 1).nextL1 = stop
    BY <2>1 DEF PlanWithSlice, PlanType
  <2>3. b.plans[h].nextL1 = IF h = s.owner THEN stop ELSE a.plans[h].nextL1
    BY <1>1, <1>2, <2>2
  <2>4. a.plans[h].nextL1 \in Nat
    BY <2>1 DEF PlanType
  <2> QED
    BY <1>3, <2>3, <2>4 DEF L1Apart
<1>6. ASSUME NEW i \in DOMAIN a.slices
      PROVE  /\ b.slices[i] = a.slices[i] /\ a.slices[i].owner \in Harts
             /\ End(a.slices[i]) \in Nat
  <2>1. a.slices[i] \in SliceType
    BY <1>1
  <2>2. a.slices[i].slotBytes * a.slices[i].numSlots \in Nat
    BY <2>1 DEF SliceType
  <2>3. a.slices[i].owner \in Harts /\ End(a.slices[i]) \in Nat
    BY <2>1, <2>2 DEF SliceType, End
  <2>4. new \in SliceType
    BY PlacedType DEF new
  <2> QED
    BY <1>1, <1>2, <2>3, <2>4, AppendIs
<1>7. /\ DOMAIN b.slices = DOMAIN a.slices \cup {Len(a.slices) + 1}
      /\ DOMAIN a.slices = 1..Len(a.slices) /\ Len(a.slices) \in Nat
      /\ b.slices[Len(a.slices) + 1] = new
  BY <1>1, <1>2, AppendIs
<1>8. ASSUME NEW i \in DOMAIN a.slices
      PROVE  /\ b.slices[i].l1Offset % Align = 0
             /\ End(b.slices[i]) <= b.plans[b.slices[i].owner].nextL1
             /\ \A j \in 1..(i - 1) :
                  b.slices[j].owner = b.slices[i].owner =>
                    End(b.slices[j]) <= b.slices[i].l1Offset
  <2>1. End(a.slices[i]) <= a.plans[a.slices[i].owner].nextL1
    BY DEF L1Apart
  <2>2. End(b.slices[i]) <= b.plans[b.slices[i].owner].nextL1
    <3>1. /\ b.plans[a.slices[i].owner].nextL1 \in Nat
          /\ a.plans[a.slices[i].owner].nextL1 \in Nat
          /\ a.plans[a.slices[i].owner].nextL1
               <= b.plans[a.slices[i].owner].nextL1
      BY <1>3, <1>5, <1>6
    <3> QED
      BY <1>6, <2>1, <3>1
  <2>3. \A j \in 1..(i - 1) : j \in DOMAIN a.slices
    BY <1>7
  <2> QED
    BY <1>6, <2>2, <2>3 DEF L1Apart
<1>9. LET i == Len(a.slices) + 1
      IN /\ b.slices[i].l1Offset % Align = 0
         /\ End(b.slices[i]) <= b.plans[b.slices[i].owner].nextL1
         /\ \A j \in 1..(i - 1) :
              b.slices[j].owner = b.slices[i].owner =>
                End(b.slices[j]) <= b.slices[i].l1Offset
  <2>1. b.plans[s.owner].nextL1 = stop
    BY <1>1, <1>5
  <2>2. ASSUME NEW j \in DOMAIN a.slices, a.slices[j].owner = s.owner
        PROVE  End(a.slices[j]) <= start
    <3>1. End(a.slices[j]) <= a.plans[s.owner].nextL1
      BY <2>2 DEF L1Apart
    <3> QED
      BY <1>3, <1>6, <3>1
  <2>3. 1..(Len(a.slices) + 1 - 1) = DOMAIN a.slices
    BY <1>7
  <2> QED
    BY <1>3, <1>4, <1>6, <1>7, <2>1, <2>2, <2>3
<1> QED
  BY <1>5, <1>7, <1>8, <1>9 DEF L1Apart, b

\* b is a but for the fields of S.
SameBut(S, a, b) ==
  /\ DOMAIN a = AppFields /\ DOMAIN b = AppFields
  /\ \A f \in AppFields \ S : b[f] = a[f]

\* The tables of rows, which no other table refers to.
RowFields == {"reads", "writes", "recvs", "sends", "ops", "plans"}

\* Nothing but the rows and the plans depends on the rows.
LEMMA OnlyRows ==
  ASSUME NEW a, AppOK(a), NEW S, S \subseteq RowFields, NEW b, SameBut(S, a, b)
  PROVE  /\ DOMAIN b = AppFields
         /\ b.slices = a.slices /\ b.subslices = a.subslices
         /\ b.l2Globals = a.l2Globals
         /\ ScalarsOK(b) /\ IdsOK(b) /\ PlacesOK(b)
<1>1. /\ b.slices = a.slices /\ b.subslices = a.subslices
      /\ b.l2Globals = a.l2Globals
  BY DEF SameBut, AppFields, RowFields
<1>2. ScalarsOK(b)
  <2>1. ScalarsOK(a)
    BY DEF AppOK
  <2> QED
    BY <2>1 DEF ScalarsOK, SameBut, AppFields, RowFields
<1>3. IdsOK(b)
  <2>1. IdsOK(a)
    BY DEF AppOK
  <2>2. /\ b.globalIds = a.globalIds /\ b.transitionIds = a.transitionIds
        /\ b.nextSliceId = a.nextSliceId /\ b.l2Index = a.l2Index
        /\ b.initSlots = a.initSlots
    BY DEF SameBut, AppFields, RowFields
  <2> QED
    BY <1>1, <2>1, <2>2 DEF IdsOK
<1>4. PlacesOK(b)
  <2>1. PlacesOK(a)
    BY DEF AppOK
  <2> QED
    BY <1>1, <2>1 DEF PlacesOK, SubsliceType
<1> QED
  BY <1>1, <1>2, <1>3, <1>4 DEF SameBut

\* A description of which only the tables of rows and one plan have changed,
\* all of them typed, is typed, and plans both memories as before.
LEMMA RowAdded ==
  ASSUME NEW a, AppOK(a), NEW S, S \subseteq RowFields, NEW b, SameBut(S, a, b),
         RowsOK(b), PlanType(a) \subseteq PlanType(b),
         NEW hart \in Harts, NEW plan \in PlanType(b),
         b.plans = [a.plans EXCEPT ![hart] = plan],
         plan.nextL1 = a.plans[hart].nextL1
  PROVE  Extends(a, b) /\ SameL2(a, b)
<1>1. a.plans \in [Harts -> PlanType(a)]
  BY DEF AppOK
<1>2. b.plans \in [Harts -> PlanType(b)]
  BY <1>1
<1>3. \A h \in Harts : b.plans[h].nextL1 = a.plans[h].nextL1
  BY <1>1
<1>4. AppOK(b) /\ b.subslices = a.subslices /\ SameL1(a, b)
  BY <1>2, <1>3, OnlyRows DEF AppOK, SameL1
<1>5. SameL2(a, b)
  BY DEF SameL2, SameBut, AppFields, RowFields
<1> QED
  BY <1>4, <1>5, SameL1Apart, SameL2Apart DEF Extends, SameL1

\* addGeneratedRecv keeps the description typed.
LEMMA AddRecvTypes ==
  ASSUME NEW a, AppOK(a), NEW recv \in RecvType(a)
  PROVE  LET b == AddRecv(a, recv)
         IN Extends(a, b) /\ SameL2(a, b)
<1> DEFINE b == AddRecv(a, recv)
           p == a.plans[recv.dst]
           n == Len(a.recvs) + 1
           plan == PlanWithRecv(p, n)
<1>1. /\ DOMAIN a = AppFields /\ RowsOK(a)
      /\ a.plans \in [Harts -> PlanType(a)] /\ recv.dst \in Harts
  BY DEF AppOK, RecvType
<1>2. SameBut({"recvs", "plans"}, a, b)
  BY <1>1 DEF SameBut, AddRecv, AppFields
<1>3. b.recvs = Append(a.recvs, recv) /\ b.plans = [a.plans EXCEPT ![recv.dst] = plan]
  BY <1>1 DEF AddRecv, AppFields
<1> HIDE DEF b
<1>4. /\ b.slices = a.slices /\ b.subslices = a.subslices
      /\ b.l2Globals = a.l2Globals
      /\ b.reads = a.reads /\ b.writes = a.writes
      /\ b.sends = a.sends /\ b.ops = a.ops
  BY <1>2 DEF SameBut, AppFields
<1>5. /\ b.recvs \in Seq(RecvType(a))
      /\ DOMAIN a.recvs \subseteq DOMAIN b.recvs
      /\ n \in DOMAIN b.recvs
  BY <1>1, <1>3, AppendIs DEF RowsOK
<1>6. RowsOK(b)
  BY <1>1, <1>4, <1>5
  DEF RowsOK, ReadType, RecvType, SendType, OpType
<1>7. PlanType(a) \subseteq PlanType(b)
  BY <1>4, <1>5, PlansGrow
<1>8. p \in PlanType(b)
  BY <1>1, <1>7
<1> HIDE DEF p, n
<1>9. plan \in PlanType(b) /\ plan.nextL1 = p.nextL1
  <2>1. Append(p.recvs, n) \in Seq(DOMAIN b.recvs)
    <3>1. p.recvs \in Seq(DOMAIN b.recvs)
      BY <1>8 DEF PlanType
    <3> QED
      BY <1>5, <3>1, AppendIs
  <2> QED
    BY <1>8, <2>1 DEF PlanType, PlanWithRecv
<1> HIDE DEF plan
<1> QED
  BY <1>1, <1>2, <1>3, <1>6, <1>7, <1>9, RowAdded DEF RowFields, p, b

\* addGeneratedSend keeps the description typed.
LEMMA AddSendTypes ==
  ASSUME NEW a, AppOK(a), NEW send \in SendType(a)
  PROVE  LET b == AddSend(a, send)
         IN Extends(a, b) /\ SameL2(a, b)
<1> DEFINE b == AddSend(a, send)
           p == a.plans[send.src]
           n == Len(a.sends) + 1
           plan == PlanWithSend(p, n)
<1>1. /\ DOMAIN a = AppFields /\ RowsOK(a)
      /\ a.plans \in [Harts -> PlanType(a)] /\ send.src \in Harts
  BY DEF AppOK, SendType
<1>2. SameBut({"sends", "plans"}, a, b)
  BY <1>1 DEF SameBut, AddSend, AppFields
<1>3. b.sends = Append(a.sends, send) /\ b.plans = [a.plans EXCEPT ![send.src] = plan]
  BY <1>1 DEF AddSend, AppFields
<1> HIDE DEF b
<1>4. /\ b.slices = a.slices /\ b.subslices = a.subslices
      /\ b.l2Globals = a.l2Globals
      /\ b.reads = a.reads /\ b.writes = a.writes
      /\ b.recvs = a.recvs /\ b.ops = a.ops
  BY <1>2 DEF SameBut, AppFields
<1>5. /\ b.sends \in Seq(SendType(a))
      /\ DOMAIN a.sends \subseteq DOMAIN b.sends
      /\ n \in DOMAIN b.sends
  BY <1>1, <1>3, AppendIs DEF RowsOK
<1>6. RowsOK(b)
  BY <1>1, <1>4, <1>5
  DEF RowsOK, ReadType, RecvType, SendType, OpType
<1>7. PlanType(a) \subseteq PlanType(b)
  BY <1>4, <1>5, PlansGrow
<1>8. p \in PlanType(b)
  BY <1>1, <1>7
<1> HIDE DEF p, n
<1>9. plan \in PlanType(b) /\ plan.nextL1 = p.nextL1
  <2>1. Append(p.sends, n) \in Seq(DOMAIN b.sends)
    <3>1. p.sends \in Seq(DOMAIN b.sends)
      BY <1>8 DEF PlanType
    <3> QED
      BY <1>5, <3>1, AppendIs
  <2> QED
    BY <1>8, <2>1 DEF PlanType, PlanWithSend
<1> HIDE DEF plan
<1> QED
  BY <1>1, <1>2, <1>3, <1>6, <1>7, <1>9, RowAdded DEF RowFields, p, b

\* addGeneratedOp keeps the description typed.
LEMMA AddOpTypes ==
  ASSUME NEW a, AppOK(a), NEW op \in OpType(a)
  PROVE  LET b == AddOp(a, op)
         IN Extends(a, b) /\ SameL2(a, b)
<1> DEFINE b == AddOp(a, op)
           p == a.plans[op.owner]
           n == Len(a.ops) + 1
           plan == PlanWithOp(p, n)
<1>1. /\ DOMAIN a = AppFields /\ RowsOK(a)
      /\ a.plans \in [Harts -> PlanType(a)] /\ op.owner \in Harts
  BY DEF AppOK, OpType
<1>2. SameBut({"ops", "plans"}, a, b)
  BY <1>1 DEF SameBut, AddOp, AppFields
<1>3. b.ops = Append(a.ops, op) /\ b.plans = [a.plans EXCEPT ![op.owner] = plan]
  BY <1>1 DEF AddOp, AppFields
<1> HIDE DEF b
<1>4. /\ b.slices = a.slices /\ b.subslices = a.subslices
      /\ b.l2Globals = a.l2Globals
      /\ b.reads = a.reads /\ b.writes = a.writes
      /\ b.recvs = a.recvs /\ b.sends = a.sends
  BY <1>2 DEF SameBut, AppFields
<1>5. /\ b.ops \in Seq(OpType(a))
      /\ DOMAIN a.ops \subseteq DOMAIN b.ops
      /\ n \in DOMAIN b.ops
  BY <1>1, <1>3, AppendIs DEF RowsOK
<1>6. RowsOK(b)
  BY <1>1, <1>4, <1>5
  DEF RowsOK, ReadType, RecvType, SendType, OpType
<1>7. PlanType(a) \subseteq PlanType(b)
  BY <1>4, <1>5, PlansGrow
<1>8. p \in PlanType(b)
  BY <1>1, <1>7
<1> HIDE DEF p, n
<1>9. plan \in PlanType(b) /\ plan.nextL1 = p.nextL1
  <2>1. Append(p.ops, n) \in Seq(DOMAIN b.ops)
    <3>1. p.ops \in Seq(DOMAIN b.ops)
      BY <1>8 DEF PlanType
    <3> QED
      BY <1>5, <3>1, AppendIs
  <2> QED
    BY <1>8, <2>1 DEF PlanType, PlanWithOp
<1> HIDE DEF plan
<1> QED
  BY <1>1, <1>2, <1>3, <1>6, <1>7, <1>9, RowAdded DEF RowFields, p, b

\* addGeneratedL2Write keeps the description typed.
LEMMA AddL2WriteTypes ==
  ASSUME NEW a, AppOK(a), NEW hart \in Harts, NEW write \in ReadType(a)
  PROVE  LET b == AddL2Write(a, hart, write)
         IN Extends(a, b) /\ SameL2(a, b)
<1> DEFINE b == AddL2Write(a, hart, write)
           p == a.plans[hart]
           n == Len(a.writes) + 1
           plan == PlanWithWrite(p, n)
<1>1. /\ DOMAIN a = AppFields /\ RowsOK(a)
      /\ a.plans \in [Harts -> PlanType(a)] /\ hart \in Harts
  BY DEF AppOK, ReadType
<1>2. SameBut({"writes", "plans"}, a, b)
  BY <1>1 DEF SameBut, AddL2Write, AppFields
<1>3. b.writes = Append(a.writes, write) /\ b.plans = [a.plans EXCEPT ![hart] = plan]
  BY <1>1 DEF AddL2Write, AppFields
<1> HIDE DEF b
<1>4. /\ b.slices = a.slices /\ b.subslices = a.subslices
      /\ b.l2Globals = a.l2Globals
      /\ b.reads = a.reads /\ b.recvs = a.recvs
      /\ b.sends = a.sends /\ b.ops = a.ops
  BY <1>2 DEF SameBut, AppFields
<1>5. /\ b.writes \in Seq(ReadType(a))
      /\ DOMAIN a.writes \subseteq DOMAIN b.writes
      /\ n \in DOMAIN b.writes
  BY <1>1, <1>3, AppendIs DEF RowsOK
<1>6. RowsOK(b)
  BY <1>1, <1>4, <1>5
  DEF RowsOK, ReadType, RecvType, SendType, OpType
<1>7. PlanType(a) \subseteq PlanType(b)
  BY <1>4, <1>5, PlansGrow
<1>8. p \in PlanType(b)
  BY <1>1, <1>7
<1> HIDE DEF p, n
<1>9. plan \in PlanType(b) /\ plan.nextL1 = p.nextL1
  <2>1. Append(p.writes, n) \in Seq(DOMAIN b.writes)
    <3>1. p.writes \in Seq(DOMAIN b.writes)
      BY <1>8 DEF PlanType
    <3> QED
      BY <1>5, <3>1, AppendIs
  <2> QED
    BY <1>8, <2>1 DEF PlanType, PlanWithWrite
<1> HIDE DEF plan
<1> QED
  BY <1>1, <1>2, <1>3, <1>6, <1>7, <1>9, RowAdded DEF RowFields, p, b

\* addGeneratedL2Read keeps the description typed, in the initializer reads of
\* the plan as in its token reads.
LEMMA AddL2ReadTypes ==
  ASSUME NEW a, AppOK(a), NEW hart \in Harts, NEW read \in ReadType(a),
         NEW isInitializer
  PROVE  LET b == AddL2Read(a, hart, isInitializer, read)
         IN Extends(a, b) /\ SameL2(a, b)
<1> DEFINE b == AddL2Read(a, hart, isInitializer, read)
           p == a.plans[hart]
           n == Len(a.reads) + 1
           plan == PlanWithRead(p, isInitializer, n)
<1>1. /\ DOMAIN a = AppFields /\ RowsOK(a)
      /\ a.plans \in [Harts -> PlanType(a)] /\ hart \in Harts
  BY DEF AppOK, ReadType
<1>2. SameBut({"reads", "plans"}, a, b)
  BY <1>1 DEF SameBut, AddL2Read, AppFields
<1>3. b.reads = Append(a.reads, read) /\ b.plans = [a.plans EXCEPT ![hart] = plan]
  BY <1>1 DEF AddL2Read, AppFields
<1> HIDE DEF b
<1>4. /\ b.slices = a.slices /\ b.subslices = a.subslices
      /\ b.l2Globals = a.l2Globals
      /\ b.writes = a.writes /\ b.recvs = a.recvs
      /\ b.sends = a.sends /\ b.ops = a.ops
  BY <1>2 DEF SameBut, AppFields
<1>5. /\ b.reads \in Seq(ReadType(a))
      /\ DOMAIN a.reads \subseteq DOMAIN b.reads
      /\ n \in DOMAIN b.reads
  BY <1>1, <1>3, AppendIs DEF RowsOK
<1>6. RowsOK(b)
  BY <1>1, <1>4, <1>5
  DEF RowsOK, ReadType, RecvType, SendType, OpType
<1>7. PlanType(a) \subseteq PlanType(b)
  BY <1>4, <1>5, PlansGrow
<1>8. p \in PlanType(b)
  BY <1>1, <1>7
<1> HIDE DEF p, n
<1>9. plan \in PlanType(b) /\ plan.nextL1 = p.nextL1
  <2>1. /\ Append(p.initReads, n) \in Seq(DOMAIN b.reads)
        /\ Append(p.reads, n) \in Seq(DOMAIN b.reads)
    <3>1. p.initReads \in Seq(DOMAIN b.reads) /\ p.reads \in Seq(DOMAIN b.reads)
      BY <1>8 DEF PlanType
    <3> QED
      BY <1>5, <3>1, AppendIs
  <2>2. CASE isInitializer
    BY <1>8, <2>1, <2>2 DEF PlanType, PlanWithRead
  <2>3. CASE ~isInitializer
    BY <1>8, <2>1, <2>3 DEF PlanType, PlanWithRead
  <2> QED
    BY <2>2, <2>3
<1> HIDE DEF plan
<1> QED
  BY <1>1, <1>2, <1>3, <1>6, <1>7, <1>9, RowAdded DEF RowFields, p, b

-----------------------------------------------------------------------------
(* Slices and subslices added to a description *)

\* An allocation that fits extends the description by one slice.
LEMMA AllocateExtends ==
  ASSUME NEW a, AppOK(a), NEW s, UnplacedOK(s), FitsInTileL1(a, s)
  PROVE  LET b == AllocateSliceInTileL1(a, s)
         IN /\ Extends(a, b) /\ SameL2(a, b)
            /\ b.subslices = a.subslices
            /\ Len(b.slices) = Len(a.slices) + 1
            /\ Len(b.slices) \in DOMAIN b.slices
<1> DEFINE b == AllocateSliceInTileL1(a, s)
<1>1. /\ AppOK(b) /\ SameL2(a, b)
      /\ b.subslices = a.subslices
      /\ DOMAIN a.slices \subseteq DOMAIN b.slices
      /\ Len(b.slices) = Len(a.slices) + 1
      /\ Len(b.slices) \in DOMAIN b.slices
  BY AllocateTypes
<1>2. L1Apart(a) => L1Apart(b)
  BY AllocateKeepsL1
<1> HIDE DEF b
<1>3. L2Apart(a) => L2Apart(b)
  BY <1>1, SameL2Apart
<1> QED
  BY <1>1, <1>2, <1>3 DEF Extends, b

\* The whole of a slice, and the part an attribute of the dialect names, are
\* subslices of it.
LEMMA SubsliceOfSlice ==
  ASSUME NEW a, AppOK(a), NEW i \in DOMAIN a.slices, NEW box, BoxOK(box)
  PROVE  /\ WholeSubslice(a, i) \in SubsliceType(a)
         /\ SubsliceFromAttr(a, i, box) \in SubsliceType(a)
<1>1. a.slices \in Seq(SliceType)
  BY DEF AppOK, PlacesOK
<1>2. a.slices[i].shape \in Pair
  <2>1. a.slices[i] \in SliceType
    BY <1>1
  <2> QED
    BY <2>1 DEF SliceType
<1>3. WholeSubslice(a, i) \in SubsliceType(a)
  BY <1>2 DEF WholeSubslice, SubsliceType, Pair
<1>4. CASE box = NoBox
  BY <1>3, <1>4 DEF SubsliceFromAttr
<1>5. CASE box # NoBox
  BY <1>3, <1>5 DEF SubsliceFromAttr, SubsliceType, BoxOK
<1> QED
  BY <1>3, <1>4, <1>5

\* Adding a subslice leaves both memories as they are.
LEMMA AddSubsliceExtends ==
  ASSUME NEW a, AppOK(a), NEW x \in SubsliceType(a)
  PROVE  LET b == AddSubslice(a, x)
         IN /\ Extends(a, b) /\ SameL2(a, b)
            /\ b.slices = a.slices
            /\ Len(b.subslices) = Len(a.subslices) + 1
            /\ Len(b.subslices) \in DOMAIN b.subslices
<1> DEFINE b == AddSubslice(a, x)
<1>1. /\ DOMAIN a = AppFields /\ ScalarsOK(a) /\ IdsOK(a) /\ PlacesOK(a)
      /\ RowsOK(a) /\ a.plans \in [Harts -> PlanType(a)]
  BY DEF AppOK
<1>2. SameBut({"subslices"}, a, b) /\ b.subslices = Append(a.subslices, x)
  BY <1>1 DEF SameBut, AddSubslice, AppFields
<1> HIDE DEF b
<1>3. /\ b.slices = a.slices /\ b.l2Globals = a.l2Globals
      /\ b.reads = a.reads /\ b.writes = a.writes /\ b.recvs = a.recvs
      /\ b.sends = a.sends /\ b.ops = a.ops /\ b.plans = a.plans
      /\ b.globalIds = a.globalIds /\ b.transitionIds = a.transitionIds
      /\ b.nextSliceId = a.nextSliceId /\ b.l2Index = a.l2Index
      /\ b.initSlots = a.initSlots
  BY <1>2 DEF SameBut, AppFields
<1>4. SameL1(a, b) /\ SameL2(a, b)
  BY <1>2 DEF SameBut, AppFields, SameL1, SameL2
<1>5. /\ b.subslices \in Seq(SubsliceType(a))
      /\ DOMAIN a.subslices \subseteq DOMAIN b.subslices
      /\ Len(b.subslices) = Len(a.subslices) + 1
      /\ Len(b.subslices) \in DOMAIN b.subslices
  BY <1>1, <1>2, AppendIs DEF PlacesOK
<1>6. ScalarsOK(b)
  BY <1>1, <1>2 DEF ScalarsOK, SameBut, AppFields
<1>7. IdsOK(b)
  BY <1>1, <1>3 DEF IdsOK
<1>8. PlacesOK(b)
  BY <1>1, <1>3, <1>5 DEF PlacesOK, SubsliceType
<1>9. RowsOK(b)
  BY <1>1, <1>3, <1>5, RowsGrow
<1>10. b.plans \in [Harts -> PlanType(b)]
  BY <1>1, <1>3, <1>5, PlansGrow
<1>11. AppOK(b)
  BY <1>2, <1>6, <1>7, <1>8, <1>9, <1>10 DEF AppOK, SameBut
<1> QED
  BY <1>3, <1>4, <1>5, <1>11, SameL1Apart, SameL2Apart DEF Extends, b

\* The id table of the transitions is used by nothing else.
LEMMA TransitionIdExtends ==
  ASSUME NEW a, AppOK(a), NEW channel
  PROVE  LET b == [a EXCEPT !.transitionIds = WithId(@, channel)]
         IN /\ Extends(a, b) /\ SameL2(a, b)
            /\ b.slices = a.slices /\ b.subslices = a.subslices
<1> DEFINE b == [a EXCEPT !.transitionIds = WithId(@, channel)]
<1>1. /\ DOMAIN a = AppFields /\ ScalarsOK(a) /\ IdsOK(a) /\ PlacesOK(a)
      /\ RowsOK(a) /\ a.plans \in [Harts -> PlanType(a)]
  BY DEF AppOK
<1>2. /\ SameBut({"transitionIds"}, a, b)
      /\ b.transitionIds = WithId(a.transitionIds, channel)
  BY <1>1 DEF SameBut, AppFields
<1> HIDE DEF b
<1>3. /\ b.slices = a.slices /\ b.subslices = a.subslices
      /\ b.l2Globals = a.l2Globals
      /\ b.reads = a.reads /\ b.writes = a.writes /\ b.recvs = a.recvs
      /\ b.sends = a.sends /\ b.ops = a.ops /\ b.plans = a.plans
      /\ b.globalIds = a.globalIds
      /\ b.nextSliceId = a.nextSliceId /\ b.l2Index = a.l2Index
      /\ b.initSlots = a.initSlots
  BY <1>2 DEF SameBut, AppFields
<1>4. SameL1(a, b) /\ SameL2(a, b)
  BY <1>2 DEF SameBut, AppFields, SameL1, SameL2
<1>6. ScalarsOK(b)
  BY <1>1, <1>2 DEF ScalarsOK, SameBut, AppFields
<1>7. IdsOK(b)
  BY <1>1, <1>2, <1>3, IdTable DEF IdsOK
<1>8. PlacesOK(b)
  BY <1>1, <1>3 DEF PlacesOK, SubsliceType
<1>9. RowsOK(b)
  BY <1>1, <1>3, RowsGrow
<1>10. b.plans \in [Harts -> PlanType(b)]
  BY <1>1, <1>3, PlansGrow
<1>11. AppOK(b)
  BY <1>2, <1>6, <1>7, <1>8, <1>9, <1>10 DEF AppOK, SameBut
<1> QED
  BY <1>3, <1>4, <1>11, SameL1Apart, SameL2Apart DEF Extends, b

\* Nor is the table of the initializer slots.
LEMMA InitSlotExtends ==
  ASSUME NEW a, AppOK(a), NEW slot, NEW i \in DOMAIN a.slices
  PROVE  LET b == [a EXCEPT !.initSlots = Put(@, slot, i)]
         IN /\ Extends(a, b) /\ SameL2(a, b)
            /\ b.slices = a.slices /\ b.subslices = a.subslices
<1> DEFINE b == [a EXCEPT !.initSlots = Put(@, slot, i)]
<1>1. /\ DOMAIN a = AppFields /\ ScalarsOK(a) /\ IdsOK(a) /\ PlacesOK(a)
      /\ RowsOK(a) /\ a.plans \in [Harts -> PlanType(a)]
  BY DEF AppOK
<1>2. /\ SameBut({"initSlots"}, a, b)
      /\ b.initSlots = Put(a.initSlots, slot, i)
  BY <1>1 DEF SameBut, AppFields
<1> HIDE DEF b
<1>3. /\ b.slices = a.slices /\ b.subslices = a.subslices
      /\ b.l2Globals = a.l2Globals
      /\ b.reads = a.reads /\ b.writes = a.writes /\ b.recvs = a.recvs
      /\ b.sends = a.sends /\ b.ops = a.ops /\ b.plans = a.plans
      /\ b.globalIds = a.globalIds /\ b.transitionIds = a.transitionIds
      /\ b.nextSliceId = a.nextSliceId /\ b.l2Index = a.l2Index
  BY <1>2 DEF SameBut, AppFields
<1>4. SameL1(a, b) /\ SameL2(a, b)
  BY <1>2 DEF SameBut, AppFields, SameL1, SameL2
<1>6. ScalarsOK(b)
  BY <1>1, <1>2 DEF ScalarsOK, SameBut, AppFields
<1>7. IdsOK(b)
  <2>1. IsTable(b.initSlots, DOMAIN b.slices)
    BY <1>1, <1>2, <1>3, PutTable DEF IdsOK
  <2> QED
    BY <1>1, <1>3, <2>1 DEF IdsOK
<1>8. PlacesOK(b)
  BY <1>1, <1>3 DEF PlacesOK, SubsliceType
<1>9. RowsOK(b)
  BY <1>1, <1>3, RowsGrow
<1>10. b.plans \in [Harts -> PlanType(b)]
  BY <1>1, <1>3, PlansGrow
<1>11. AppOK(b)
  BY <1>2, <1>6, <1>7, <1>8, <1>9, <1>10 DEF AppOK, SameBut
<1> QED
  BY <1>3, <1>4, <1>11, SameL1Apart, SameL2Apart DEF Extends, b
-----------------------------------------------------------------------------
(* L2 globals and the reads from them *)

\* The width of an element is a natural number.
LEMMA ElementByteWidthNat ==
  ASSUME NEW elem
  PROVE  ElementByteWidth(elem) \in Nat
BY DEF ElementByteWidth

\* The byte offset of a subslice is a natural number.
LEMMA OffsetBytesNat ==
  ASSUME NEW offset \in Pair, NEW shape \in Pair, NEW elemBytes \in Nat
  PROVE  OffsetBytes(offset, Strides(shape, elemBytes)) \in Nat
<1>1. /\ offset[1] \in Nat /\ offset[2] \in Nat
      /\ shape[1] \in Nat /\ shape[2] \in Nat
  BY DEF Pair
<1>2. shape[2] * elemBytes \in Nat
  BY <1>1
<1>3. /\ offset[1] * (shape[2] * elemBytes) \in Nat
      /\ offset[2] * elemBytes \in Nat
  BY <1>1, <1>2
<1> QED
  BY <1>3 DEF OffsetBytes, Strides

\* The sizes of a buffer, and the byte a new one starts at.
LEMMA BufferSizes ==
  ASSUME NEW a, AppOK(a), NEW type, type.shape \in Pair, NEW numTokens \in Nat
  PROVE  /\ GlobalBytes(type) \in Nat /\ TokenStride(type) \in Nat
         /\ GlobalBytes(type) <= TokenStride(type)
         /\ TokenStride(type) % Align = 0
         /\ TokenStride(type) * numTokens \in Nat
         /\ L2Start(a) \in Nat /\ a.nextL2 \in Nat /\ a.nextL2 <= L2Start(a)
         /\ L2Start(a) % Align = 0
<1>1. GlobalBytes(type) \in Nat
  BY ElementByteWidthNat, TensorBytesNat DEF GlobalBytes
<1>2. /\ TokenStride(type) \in Nat /\ GlobalBytes(type) <= TokenStride(type)
      /\ TokenStride(type) % Align = 0
  BY <1>1, AlignToUp DEF TokenStride
<1>3. TokenStride(type) * numTokens \in Nat
  BY <1>2
<1>4. a.nextL2 \in Nat
  BY DEF AppOK, ScalarsOK
<1>5. /\ L2Start(a) \in Nat /\ a.nextL2 <= L2Start(a)
      /\ L2Start(a) % Align = 0
  BY <1>4, AlignToUp DEF L2Start
<1> QED
  BY <1>1, <1>2, <1>3, <1>4, <1>5

\* What a caller of getOrCreateL2Global passes.
WantedGlobal(kind, source, numTokens) ==
  /\ kind \in GlobalKinds /\ numTokens \in Nat
  /\ source.type.shape \in Pair
  /\ source.isConstant \in BOOLEAN
  /\ source.isConstant => source.packedOffset \in Nat

\* Whether a buffer can be had depends on the L2 part of the description alone.
LEMMA SameL2Can ==
  ASSUME NEW a, NEW b, SameL2(a, b), NEW kind, NEW source, NEW numTokens,
         CanGetL2Global(a, kind, source, numTokens)
  PROVE  CanGetL2Global(b, kind, source, numTokens)
BY DEF SameL2, CanGetL2Global, PackedImageHolds, FitsInL2, L2Start

\* A buffer that getOrCreateL2Global appends is typed.
LEMMA NewL2GlobalType ==
  ASSUME NEW a, AppOK(a), NEW kind, NEW source, NEW numTokens,
         WantedGlobal(kind, source, numTokens)
  PROVE  NewL2Global(a, kind, source, numTokens) \in L2GlobalType
<1>1. /\ a.l2Base \in Nat /\ IsIdTable(a.globalIds)
  BY DEF AppOK, ScalarsOK, IdsOK
<1>2. /\ kind \in GlobalKinds /\ numTokens \in Nat /\ source.type.shape \in Pair
      /\ IsPacked(kind, source) \in BOOLEAN
      /\ IsPacked(kind, source) => source.packedOffset \in Nat
  BY DEF WantedGlobal, IsPacked
<1>3. /\ GlobalBytes(source.type) \in Nat /\ TokenStride(source.type) \in Nat
      /\ L2Start(a) \in Nat
  BY <1>2, BufferSizes
<1>4. ElementByteWidth(source.type.elem) \in Nat
  BY ElementByteWidthNat
<1>5. IdOf(a.globalIds, source.name) \in Nat
  BY <1>1, IdTable
<1>6. (IF IsPacked(kind, source) THEN a.l2Base + source.packedOffset
       ELSE L2Start(a)) \in Nat
  BY <1>1, <1>2, <1>3
<1> QED
  BY <1>2, <1>3, <1>4, <1>5, <1>6 DEF NewL2Global, L2GlobalType

\* A new global keeps the description typed.
LEMMA NewGlobalTypes ==
  ASSUME NEW a, AppOK(a), NEW kind, NEW source, NEW numTokens,
         WantedGlobal(kind, source, numTokens),
         L2Key(kind, source.name) \notin DOMAIN a.l2Index
  PROVE  LET b == GetOrCreateL2Global(a, kind, source, numTokens)
             key == L2Key(kind, source.name)
         IN /\ AppOK(b) /\ SameL1(a, b)
            /\ b.subslices = a.subslices
            /\ key \in DOMAIN b.l2Index
            /\ b.l2Index[key] \in DOMAIN b.l2Globals
<1> DEFINE b == GetOrCreateL2Global(a, kind, source, numTokens)
           key == L2Key(kind, source.name)
           new == NewL2Global(a, kind, source, numTokens)
           next == IF IsPacked(kind, source) THEN a.nextL2
                   ELSE L2Start(a) + TokenStride(source.type) * numTokens
<1>1. /\ DOMAIN a = AppFields /\ ScalarsOK(a) /\ IdsOK(a) /\ PlacesOK(a)
      /\ RowsOK(a) /\ a.plans \in [Harts -> PlanType(a)]
  BY DEF AppOK
<1>2. /\ SameBut({"l2Globals", "l2Index", "globalIds", "nextL2"}, a, b)
      /\ b.l2Globals = Append(a.l2Globals, new)
      /\ b.l2Index = Put(a.l2Index, key, Len(a.l2Globals) + 1)
      /\ b.globalIds = WithId(a.globalIds, source.name)
      /\ b.nextL2 = next
  BY <1>1 DEF SameBut, AppFields, GetOrCreateL2Global
<1>3. new \in L2GlobalType
  BY NewL2GlobalType
<1>4. next \in Nat
  <2>1. source.type.shape \in Pair /\ numTokens \in Nat
    BY DEF WantedGlobal
  <2>2. /\ a.nextL2 \in Nat /\ L2Start(a) \in Nat
        /\ TokenStride(source.type) * numTokens \in Nat
    BY <2>1, BufferSizes
  <2> QED
    BY <2>2
<1> HIDE DEF b, new, next, key
<1>5. /\ b.slices = a.slices /\ b.subslices = a.subslices
      /\ b.reads = a.reads /\ b.writes = a.writes /\ b.recvs = a.recvs
      /\ b.sends = a.sends /\ b.ops = a.ops /\ b.plans = a.plans
      /\ b.transitionIds = a.transitionIds
      /\ b.nextSliceId = a.nextSliceId /\ b.initSlots = a.initSlots
  BY <1>2 DEF SameBut, AppFields
<1>6. /\ b.l2Globals \in Seq(L2GlobalType)
      /\ DOMAIN a.l2Globals \subseteq DOMAIN b.l2Globals
      /\ Len(a.l2Globals) + 1 \in DOMAIN b.l2Globals
  BY <1>1, <1>2, <1>3, AppendIs DEF PlacesOK
<1>7. ScalarsOK(b)
  BY <1>1, <1>2, <1>4 DEF ScalarsOK, SameBut, AppFields
<1>8. IdsOK(b)
  <2>1. IsIdTable(b.globalIds)
    BY <1>1, <1>2, IdTable DEF IdsOK
  <2>2. IsTable(b.l2Index, DOMAIN b.l2Globals)
    <3>1. IsTable(a.l2Index, DOMAIN b.l2Globals)
      BY <1>1, <1>6, TableGrows DEF IdsOK
    <3> QED
      BY <1>2, <1>6, <3>1, PutTable
  <2> QED
    BY <1>1, <1>5, <2>1, <2>2 DEF IdsOK
<1>9. PlacesOK(b)
  BY <1>1, <1>5, <1>6 DEF PlacesOK, SubsliceType
<1>10. RowsOK(b)
  BY <1>1, <1>5, <1>6, RowsGrow
<1>11. b.plans \in [Harts -> PlanType(b)]
  BY <1>1, <1>5, PlansGrow
<1>12. AppOK(b)
  BY <1>2, <1>7, <1>8, <1>9, <1>10, <1>11 DEF AppOK, SameBut
<1>13. key \in DOMAIN b.l2Index /\ b.l2Index[key] \in DOMAIN b.l2Globals
  BY <1>2, <1>6 DEF Put
<1> QED
  BY <1>5, <1>12, <1>13 DEF SameL1, b, key

\* A runtime buffer that fits is placed above the packed image and above every
\* other buffer, and a packed initializer in the image.
LEMMA NewGlobalKeepsL2 ==
  ASSUME NEW a, AppOK(a), NEW kind, NEW source, NEW numTokens,
         WantedGlobal(kind, source, numTokens),
         L2Key(kind, source.name) \notin DOMAIN a.l2Index,
         CanGetL2Global(a, kind, source, numTokens), L2Apart(a)
  PROVE  L2Apart(GetOrCreateL2Global(a, kind, source, numTokens))
<1> DEFINE b == GetOrCreateL2Global(a, kind, source, numTokens)
           new == NewL2Global(a, kind, source, numTokens)
           n == Len(a.l2Globals) + 1
           next == IF IsPacked(kind, source) THEN a.nextL2
                   ELSE L2Start(a) + TokenStride(source.type) * numTokens
<1>1. DOMAIN a = AppFields /\ a.l2Globals \in Seq(L2GlobalType)
  BY DEF AppOK, PlacesOK
<1>2. /\ SameBut({"l2Globals", "l2Index", "globalIds", "nextL2"}, a, b)
      /\ b.l2Globals = Append(a.l2Globals, new)
      /\ b.nextL2 = next
  BY <1>1 DEF SameBut, AppFields, GetOrCreateL2Global
<1>3. /\ source.type.shape \in Pair /\ numTokens \in Nat
      /\ IsPacked(kind, source) => source.packedOffset \in Nat
      /\ IsPacked(kind, source) \in BOOLEAN
  BY DEF WantedGlobal, IsPacked
<1>4. /\ GlobalBytes(source.type) \in Nat /\ TokenStride(source.type) \in Nat
      /\ GlobalBytes(source.type) <= TokenStride(source.type)
      /\ TokenStride(source.type) % Align = 0
      /\ TokenStride(source.type) * numTokens \in Nat
      /\ L2Start(a) \in Nat /\ a.nextL2 \in Nat /\ a.nextL2 <= L2Start(a)
      /\ L2Start(a) % Align = 0
  BY <1>3, BufferSizes
<1>5. a.weightsSize \in Nat /\ a.l2End \in Nat /\ L2Base \in Nat
  BY MemoryAssumption DEF AppOK, ScalarsOK
<1>6. /\ new.tokenStride = TokenStride(source.type) /\ new.numTokens = numTokens
      /\ new.tensorBytes = GlobalBytes(source.type)
      /\ new.isConstant = IsPacked(kind, source)
      /\ new.address = IF IsPacked(kind, source)
                       THEN a.l2Base + source.packedOffset ELSE L2Start(a)
      /\ new \in L2GlobalType
  BY NewL2GlobalType DEF NewL2Global
<1> HIDE DEF b, new, next, n
<1>7. /\ b.target = a.target /\ b.hasPackedWeights = a.hasPackedWeights
      /\ b.weightsSize = a.weightsSize
      /\ b.l2Base = a.l2Base /\ b.l2End = a.l2End
  BY <1>2 DEF SameBut, AppFields
<1>8. ImageEnd(b) = ImageEnd(a) /\ ImageEnd(a) \in Nat
  BY <1>5, <1>7 DEF ImageEnd, HasImageInL2
<1>9. next \in Nat /\ a.nextL2 <= next
  BY <1>4 DEF next
<1>10. /\ a.l2Base = L2Base /\ a.l2End <= L2End
       /\ ImageEnd(a) <= L2End /\ ImageEnd(a) <= a.nextL2
  BY DEF L2Apart
<1>11. /\ DOMAIN b.l2Globals = DOMAIN a.l2Globals \cup {n}
       /\ DOMAIN a.l2Globals = 1..(n - 1) /\ n \in Nat
       /\ b.l2Globals[n] = new
       /\ \A g \in DOMAIN a.l2Globals : b.l2Globals[g] = a.l2Globals[g]
  BY <1>1, <1>2, <1>6, AppendIs DEF n
<1>12. ASSUME NEW g \in DOMAIN a.l2Globals
       PROVE  /\ BufferEnd(a.l2Globals[g]) \in Nat
              /\ a.l2Globals[g].address \in Nat
  <2>1. a.l2Globals[g] \in L2GlobalType
    BY <1>1
  <2>2. /\ a.l2Globals[g].tokenStride \in Nat /\ a.l2Globals[g].numTokens \in Nat
        /\ a.l2Globals[g].address \in Nat
    BY <2>1 DEF L2GlobalType
  <2>3. a.l2Globals[g].tokenStride * a.l2Globals[g].numTokens \in Nat
    BY <2>2
  <2> QED
    BY <2>2, <2>3 DEF BufferEnd
<1>13. ASSUME NEW g \in DOMAIN a.l2Globals
       PROVE  IF IsRuntime(b.l2Globals[g])
              THEN /\ BufferPlaced(b, b.l2Globals[g])
                   /\ \A other \in 1..(g - 1) :
                        IsRuntime(b.l2Globals[other]) =>
                          BufferEnd(b.l2Globals[other]) <= b.l2Globals[g].address
              ELSE b.l2Globals[g].address + b.l2Globals[g].tensorBytes
                     <= L2Base + b.weightsSize
  <2>1. IF IsRuntime(a.l2Globals[g])
        THEN /\ BufferPlaced(a, a.l2Globals[g])
             /\ \A other \in 1..(g - 1) :
                  IsRuntime(a.l2Globals[other]) =>
                    BufferEnd(a.l2Globals[other]) <= a.l2Globals[g].address
        ELSE a.l2Globals[g].address + a.l2Globals[g].tensorBytes
               <= L2Base + a.weightsSize
    BY DEF L2Apart
  <2>2. \A other \in 1..(g - 1) : other \in DOMAIN a.l2Globals
    BY <1>11
  <2>3. BufferPlaced(a, a.l2Globals[g]) => BufferPlaced(b, a.l2Globals[g])
    <3>1. BufferEnd(a.l2Globals[g]) <= a.nextL2 => BufferEnd(a.l2Globals[g]) <= next
      BY <1>4, <1>9, <1>12
    <3> QED
      BY <1>2, <1>7, <1>8, <3>1 DEF BufferPlaced
  <2> QED
    BY <1>7, <1>11, <2>1, <2>2, <2>3
<1>14. IF IsRuntime(b.l2Globals[n])
       THEN /\ BufferPlaced(b, b.l2Globals[n])
            /\ \A other \in 1..(n - 1) :
                 IsRuntime(b.l2Globals[other]) =>
                   BufferEnd(b.l2Globals[other]) <= b.l2Globals[n].address
       ELSE b.l2Globals[n].address + b.l2Globals[n].tensorBytes
              <= L2Base + b.weightsSize
  <2>1. CASE IsPacked(kind, source)
    <3>1. /\ PackedImageHolds(a, source)
      BY <2>1 DEF CanGetL2Global
    <3>2. /\ source.packedOffset + GlobalBytes(source.type) <= a.weightsSize
      BY <3>1 DEF PackedImageHolds
    <3>3. new.address + new.tensorBytes <= L2Base + a.weightsSize
      BY <1>3, <1>4, <1>5, <1>6, <1>10, <2>1, <3>2
    <3> QED
      BY <1>6, <1>7, <1>11, <2>1, <3>3 DEF IsRuntime
  <2>2. CASE ~IsPacked(kind, source)
    <3>1. FitsInL2(a, source.type, numTokens)
      BY <2>2 DEF CanGetL2Global
    <3>2. BufferEnd(new) = next /\ next <= a.l2End
      BY <1>6, <2>2, <3>1 DEF BufferEnd, next, FitsInL2
    <3>3. BufferPlaced(b, new)
      <4>1. ImageEnd(a) <= L2Start(a)
        BY <1>4, <1>8, <1>10
      <4> QED
        BY <1>2, <1>4, <1>6, <1>7, <1>8, <1>9, <2>2, <3>2, <4>1 DEF BufferPlaced
    <3>4. ASSUME NEW other \in DOMAIN a.l2Globals, IsRuntime(a.l2Globals[other])
          PROVE  BufferEnd(a.l2Globals[other]) <= new.address
      <4>1. BufferEnd(a.l2Globals[other]) <= a.nextL2
        BY <3>4 DEF L2Apart, BufferPlaced
      <4> QED
        BY <1>4, <1>6, <1>12, <2>2, <4>1
    <3> QED
      BY <1>6, <1>11, <2>2, <3>3, <3>4 DEF IsRuntime
  <2> QED
    BY <2>1, <2>2
<1>15. /\ b.l2Base = L2Base /\ b.l2End <= L2End
       /\ ImageEnd(b) <= L2End /\ ImageEnd(b) <= b.nextL2
  BY <1>2, <1>4, <1>7, <1>8, <1>9, <1>10
<1> QED
  BY <1>11, <1>13, <1>14, <1>15 DEF L2Apart, b

\* getOrCreateL2Global: whether the global is known or new, it has a row.
LEMMA GetGlobalExtends ==
  ASSUME NEW a, AppOK(a), NEW kind, NEW source, NEW numTokens,
         WantedGlobal(kind, source, numTokens),
         CanGetL2Global(a, kind, source, numTokens)
  PROVE  LET b == GetOrCreateL2Global(a, kind, source, numTokens)
             key == L2Key(kind, source.name)
         IN /\ Extends(a, b)
            /\ b.slices = a.slices /\ b.subslices = a.subslices
            /\ b.l2Index[key] \in DOMAIN b.l2Globals
<1> DEFINE b == GetOrCreateL2Global(a, kind, source, numTokens)
           key == L2Key(kind, source.name)
<1>1. CASE key \in DOMAIN a.l2Index
  <2>1. b = a
    BY <1>1 DEF GetOrCreateL2Global
  <2>2. a.l2Index[key] \in DOMAIN a.l2Globals
    BY <1>1 DEF AppOK, IdsOK, IsTable
  <2> QED
    BY <2>1, <2>2 DEF Extends
<1>2. CASE key \notin DOMAIN a.l2Index
  <2>1. /\ AppOK(b) /\ SameL1(a, b) /\ b.subslices = a.subslices
        /\ b.l2Index[key] \in DOMAIN b.l2Globals
    BY <1>2, NewGlobalTypes
  <2>2. L2Apart(a) => L2Apart(b)
    BY <1>2, NewGlobalKeepsL2
  <2> HIDE DEF b, key
  <2>3. L1Apart(a) => L1Apart(b)
    BY <2>1, SameL1Apart
  <2> QED
    BY <2>1, <2>2, <2>3 DEF Extends, SameL1, b, key
<1> QED
  BY <1>1, <1>2

\* addL2ReadForSlice
LEMMA ReadForSliceExtends ==
  ASSUME NEW a, AppOK(a), NEW i \in DOMAIN a.slices,
         NEW kind, NEW source, NEW numTokens,
         WantedGlobal(kind, source, numTokens),
         CanGetL2Global(a, kind, source, numTokens)
  PROVE  Extends(a, AddL2ReadForSlice(a, i, kind, source, numTokens))
<1> DEFINE c == GetOrCreateL2Global(a, kind, source, numTokens)
           b == AddSubslice(c, WholeSubslice(a, i))
           g == b.l2Index[L2Key(kind, source.name)]
           global == b.l2Globals[g]
           slice == a.slices[i]
           read == [ global |-> g, subslice |-> Len(b.subslices),
                     address |-> global.address
                       + OffsetBytes(slice.fullOffset,
                                     Strides(global.shape, global.elemBytes)),
                     stride |-> IF kind = "Input" THEN global.tokenStride
                                ELSE 0 ]
<1>1. /\ Extends(a, c) /\ c.slices = a.slices
      /\ c.l2Index[L2Key(kind, source.name)] \in DOMAIN c.l2Globals
  BY GetGlobalExtends
<1>2. AppOK(c)
  BY <1>1 DEF Extends
<1>3. WholeSubslice(a, i) = WholeSubslice(c, i)
  BY <1>1 DEF WholeSubslice
<1>4. WholeSubslice(a, i) \in SubsliceType(c)
  <2>1. BoxOK(NoBox)
    BY DEF BoxOK
  <2> QED
    BY <1>1, <1>2, <1>3, <2>1, SubsliceOfSlice
<1>5. /\ Extends(c, b) /\ SameL2(c, b)
      /\ Len(b.subslices) \in DOMAIN b.subslices
  BY <1>2, <1>4, AddSubsliceExtends
<1>6. AppOK(b) /\ b.l2Globals \in Seq(L2GlobalType)
  BY <1>5 DEF Extends, AppOK, PlacesOK
<1>7. g \in DOMAIN b.l2Globals
  BY <1>1, <1>5 DEF SameL2
<1>8. global \in L2GlobalType
  BY <1>6, <1>7
<1>9. slice \in SliceType
  BY DEF AppOK, PlacesOK
<1>10. AddL2ReadForSlice(a, i, kind, source, numTokens)
         = AddL2Read(b, slice.owner, kind = "Initializer", read)
  BY DEF AddL2ReadForSlice
<1> HIDE DEF c, b, g, global, slice
<1>11. read \in ReadType(b)
  <2>1. /\ global.address \in Nat /\ global.tokenStride \in Nat
        /\ global.shape \in Pair /\ global.elemBytes \in Nat
    BY <1>8 DEF L2GlobalType
  <2>2. slice.fullOffset \in Pair
    BY <1>9 DEF SliceType
  <2>3. OffsetBytes(slice.fullOffset,
                    Strides(global.shape, global.elemBytes)) \in Nat
    BY <2>1, <2>2, OffsetBytesNat
  <2> QED
    BY <1>5, <1>7, <2>1, <2>3 DEF ReadType
<1>12. slice.owner \in Harts
  BY <1>9 DEF SliceType
<1> HIDE DEF read
<1>13. Extends(b, AddL2Read(b, slice.owner, kind = "Initializer", read))
  BY <1>6, <1>11, <1>12, AddL2ReadTypes
<1> QED
  BY <1>1, <1>5, <1>10, <1>13, ExtendsTransitive
-----------------------------------------------------------------------------
(* The state of the collection *)

\* What fits a description fits any extension of it.
LEMMA RunFitsLater ==
  ASSUME NEW r, NEW a, RunFits(r, a), NEW b, Extends(a, b)
  PROVE  RunFits(r, b)
<1>1. /\ DOMAIN a.slices \subseteq DOMAIN b.slices
      /\ DOMAIN a.subslices \subseteq DOMAIN b.subslices
  BY DEF Extends
<1>2. RecvPlace(a) \subseteq RecvPlace(b)
  BY <1>1 DEF RecvPlace
<1>3. IsTable(r.tileRecvs, RecvPlace(b))
  BY <1>2, TableGrows DEF RunFits
<1>4. /\ IsTable(r.aggregates, DOMAIN b.slices)
      /\ IsTable(r.produced, DOMAIN b.slices)
      /\ IsTable(r.subsliceOf, DOMAIN b.subslices)
  BY <1>1, TableGrows DEF RunFits
<1> QED
  BY <1>3, <1>4 DEF RunFits

\* The inductive invariant.  The module that is collected is a well-formed one,
\* and no handler has run while the attributes are still to be read, so that
\* there is no buffer yet when the packed image takes its place in L2.
IInv ==
  /\ prog \in Programs
  /\ TypeOK /\ SlicesApart /\ BuffersApart
  /\ phase = "attrs" => app = NewApplication(prog.options)

\* A step that extends the description keeps the invariant.
LEMMA StepKeeps ==
  ASSUME IInv, prog' = prog,
         phase' \in {"init", "recvs", "run", "done", "failed"},
         pos' \in Nat \ {0}, Extends(app, app'), RunFits(run', app')
  PROVE  IInv'
<1>1. AppOK(app') /\ L1Apart(app') /\ L2Apart(app')
  BY DEF Extends, IInv, TypeOK, SlicesApart, BuffersApart
<1> QED
  BY <1>1 DEF IInv, TypeOK, SlicesApart, BuffersApart, RunOK

\* What a handler may rely on.
LEMMA Facts ==
  ASSUME IInv
  PROVE  /\ AppOK(app) /\ RunFits(run, app) /\ ProgramOK(prog)
         /\ Extends(app, app) /\ pos \in Nat \ {0} /\ pos + 1 \in Nat \ {0}
         /\ pos <= Len(prog.init) => OpOK(prog.init[pos])
         /\ pos <= Len(prog.run) => OpOK(prog.run[pos])
         /\ app.numTokens \in Nat /\ app.numTokenSlots \in Nat
<1>1. AppOK(app) /\ RunFits(run, app) /\ pos \in Nat \ {0}
  BY DEF IInv, TypeOK, RunOK
<1>2. ProgramOK(prog)
  BY ProgramsAssumption DEF IInv
<1>3. RegionOK(prog.init) /\ RegionOK(prog.run)
  BY <1>2 DEF ProgramOK
<1>4. pos <= Len(prog.init) => OpOK(prog.init[pos])
  BY <1>1, <1>3 DEF RegionOK
<1>5. pos <= Len(prog.run) => OpOK(prog.run[pos])
  BY <1>1, <1>3 DEF RegionOK
<1> QED
  BY <1>1, <1>2, <1>4, <1>5 DEF AppOK, ScalarsOK, Extends

\* A description that differs in the places of its slices in their full tensors
\* alone plans its memories as before.
LEMMA OffsetExtends ==
  ASSUME NEW a, AppOK(a), NEW i \in DOMAIN a.slices, NEW offset \in Pair
  PROVE  LET b == [a EXCEPT !.slices[i].fullOffset = offset]
         IN /\ Extends(a, b) /\ SameL2(a, b)
            /\ b.subslices = a.subslices /\ DOMAIN b.slices = DOMAIN a.slices
<1> DEFINE b == [a EXCEPT !.slices[i].fullOffset = offset]
           row == [a.slices[i] EXCEPT !.fullOffset = offset]
<1>1. /\ DOMAIN a = AppFields /\ ScalarsOK(a) /\ IdsOK(a) /\ PlacesOK(a)
      /\ RowsOK(a) /\ a.plans \in [Harts -> PlanType(a)]
  BY DEF AppOK
<1>2. SameBut({"slices"}, a, b) /\ b.slices = [a.slices EXCEPT ![i] = row]
  BY <1>1 DEF SameBut, AppFields
<1>3. a.slices \in Seq(SliceType) /\ a.slices[i] \in SliceType
  BY <1>1 DEF PlacesOK
<1>4. /\ row \in SliceType /\ row.owner = a.slices[i].owner
      /\ row.l1Offset = a.slices[i].l1Offset
      /\ row.slotBytes = a.slices[i].slotBytes
      /\ row.numSlots = a.slices[i].numSlots
  BY <1>3 DEF SliceType
<1> HIDE DEF b, row
<1>5. /\ b.subslices = a.subslices /\ b.l2Globals = a.l2Globals
      /\ b.reads = a.reads /\ b.writes = a.writes /\ b.recvs = a.recvs
      /\ b.sends = a.sends /\ b.ops = a.ops /\ b.plans = a.plans
      /\ b.globalIds = a.globalIds /\ b.transitionIds = a.transitionIds
      /\ b.nextSliceId = a.nextSliceId /\ b.l2Index = a.l2Index
      /\ b.initSlots = a.initSlots
  BY <1>2 DEF SameBut, AppFields
<1>6. b.slices \in Seq(SliceType) /\ DOMAIN b.slices = DOMAIN a.slices
  BY <1>2, <1>3, <1>4
<1>7. ScalarsOK(b)
  BY <1>1, <1>2 DEF ScalarsOK, SameBut, AppFields
<1>8. IdsOK(b)
  BY <1>1, <1>5, <1>6 DEF IdsOK
<1>9. PlacesOK(b)
  BY <1>1, <1>5, <1>6 DEF PlacesOK, SubsliceType
<1>10. RowsOK(b)
  BY <1>1, <1>5, RowsGrow
<1>11. b.plans \in [Harts -> PlanType(b)]
  BY <1>1, <1>5, <1>6, PlansGrow
<1>12. AppOK(b)
  BY <1>2, <1>7, <1>8, <1>9, <1>10, <1>11 DEF AppOK, SameBut
<1>13. \A k \in DOMAIN a.slices :
         /\ b.slices[k].owner = a.slices[k].owner
         /\ b.slices[k].l1Offset = a.slices[k].l1Offset
         /\ End(b.slices[k]) = End(a.slices[k])
  BY <1>2, <1>3, <1>4 DEF End
<1>14. L1Apart(a) => L1Apart(b)
  <2>1. \A k \in DOMAIN a.slices : \A j \in 1..(k - 1) : j \in DOMAIN a.slices
    BY <1>3
  <2> QED
    BY <1>5, <1>6, <1>13, <2>1 DEF L1Apart
<1>15. SameL2(a, b)
  BY <1>2 DEF SameBut, AppFields, SameL2
<1> QED
  BY <1>5, <1>6, <1>12, <1>14, <1>15, SameL2Apart DEF Extends, b

\* getOrCreateProducedSlice
LEMMA ProduceExtends ==
  ASSUME RunFits(run, app), AppOK(app), NEW key, NEW s, UnplacedOK(s),
         CanProduceSlice(app, key, s)
  PROVE  LET b == ProduceSlice(app, key, s)
         IN /\ Extends(app, b) /\ SameL2(app, b)
            /\ b.subslices = app.subslices
            /\ ProducedIndex(app, key) \in DOMAIN b.slices
<1>1. CASE key \in DOMAIN run.produced
  <2>1. run.produced[key] \in DOMAIN app.slices /\ s.fullOffset \in Pair
    BY <1>1 DEF RunFits, IsTable, UnplacedOK
  <2> DEFINE b == [app EXCEPT !.slices[run.produced[key]].fullOffset =
                                s.fullOffset]
  <2>2. /\ Extends(app, b) /\ SameL2(app, b)
        /\ b.subslices = app.subslices /\ DOMAIN b.slices = DOMAIN app.slices
    BY <2>1, OffsetExtends
  <2>3. b = ProduceSlice(app, key, s)
    BY <1>1 DEF ProduceSlice
  <2> HIDE DEF b
  <2> QED
    BY <1>1, <2>1, <2>2, <2>3 DEF ProducedIndex
<1>2. CASE key \notin DOMAIN run.produced
  <2>1. FitsInTileL1(app, s)
    BY <1>2 DEF CanProduceSlice
  <2> QED
    BY <1>2, <2>1, AllocateExtends DEF ProduceSlice, ProducedIndex
<1> QED
  BY <1>1, <1>2
-----------------------------------------------------------------------------
(* The start: an empty description, and the attributes of the module *)

\* The tables of a new description are tables over any set.
LEMMA EmptyTable ==
  ASSUME NEW S
  PROVE  <<>> \in Seq(S) /\ IsTable(<<>>, S) /\ IsIdTable(<<>>)
<1>1. DOMAIN <<>> = {}
  OBVIOUS
<1>2. IsTable(<<>>, S) /\ IsTable(<<>>, Nat)
  BY <1>1 DEF IsTable
<1>3. IsFiniteSet(DOMAIN <<>>)
  BY <1>1, FS_EmptySet
<1> QED
  BY <1>2, <1>3 DEF IsIdTable

\* A new description is typed, and nothing overlaps in it.
LEMMA EmptyDescription ==
  ASSUME NEW options, options.numTokens \in Nat,
         options.randomizeInputs \in BOOLEAN
  PROVE  /\ AppOK(NewApplication(options))
         /\ L1Apart(NewApplication(options))
         /\ L2Apart(NewApplication(options))
<1> DEFINE a == NewApplication(options)
<1>1. /\ DOMAIN a = AppFields
      /\ a.l2Base = L2Base /\ a.l2End = L2End /\ a.nextL2 = L2Base
      /\ a.numTokens = options.numTokens /\ a.numTokenSlots = 0
      /\ a.randomizeInputs = options.randomizeInputs
      /\ a.hasPackedWeights = FALSE
      /\ a.weightsSize = 0 /\ a.weightsAlignment = Align
  BY DEF NewApplication, AppFields
<1>2. /\ a.globalIds = <<>> /\ a.transitionIds = <<>>
      /\ a.nextSliceId = [h \in Harts |-> 0]
      /\ a.l2Index = <<>> /\ a.initSlots = <<>>
      /\ a.slices = <<>> /\ a.subslices = <<>> /\ a.l2Globals = <<>>
      /\ a.reads = <<>> /\ a.recvs = <<>> /\ a.sends = <<>>
      /\ a.ops = <<>> /\ a.writes = <<>>
      /\ a.plans = [h \in Harts |-> EmptyPlan]
  BY DEF NewApplication
<1> HIDE DEF a
<1>3. ScalarsOK(a)
  <2>1. /\ a.l2Base \in Nat /\ a.l2End \in Nat /\ a.nextL2 \in Nat
        /\ a.numTokens \in Nat /\ a.numTokenSlots \in Nat
        /\ a.weightsSize \in Nat /\ a.weightsAlignment \in Nat
    BY <1>1, MemoryAssumption
  <2>2. a.randomizeInputs \in BOOLEAN /\ a.hasPackedWeights \in BOOLEAN
    BY <1>1
  <2> QED
    BY <2>1, <2>2 DEF ScalarsOK
<1>4. IdsOK(a)
  BY <1>2, EmptyTable DEF IdsOK
<1>5. PlacesOK(a)
  BY <1>2, EmptyTable DEF PlacesOK
<1>6. RowsOK(a)
  BY <1>2, EmptyTable DEF RowsOK
<1>7. EmptyPlan \in PlanType(a)
  BY EmptyTable DEF EmptyPlan, PlanType
<1>8. a.plans \in [Harts -> PlanType(a)]
  BY <1>2, <1>7
<1>9. \A h \in Harts : a.plans[h].nextL1 = 0
  BY <1>2 DEF EmptyPlan
<1>10. DOMAIN a.slices = {} /\ DOMAIN a.l2Globals = {}
  BY <1>2
<1>11. L1Apart(a)
  BY <1>9, <1>10, MemoryAssumption DEF L1Apart
<1>12. L2Apart(a)
  BY <1>1, <1>10, MemoryAssumption DEF L2Apart, ImageEnd, HasImageInL2
<1> QED
  BY <1>1, <1>3, <1>4, <1>5, <1>6, <1>8, <1>11, <1>12 DEF AppOK, a

\* Reading the attributes keeps both memories: the packed image of MAGIA v2
\* takes the first bytes of L2, the runtime buffers start above it.
LEMMA BundleExtends ==
  ASSUME NEW a, AppOK(a), L2Apart(a), a.l2Globals = <<>>,
         a.l2Base = L2Base, a.l2End = L2End, a.nextL2 = L2Base,
         a.hasPackedWeights = FALSE,
         NEW attrs, attrs.numTokenSlots \in Nat, attrs.alignment \in Nat,
         attrs.weightsSize \in Nat, attrs.l2Capacity \in Nat,
         attrs.bundle \in BOOLEAN,
         attrs.bundle =>
           attrs.weightsSize <= InitializerCapacity(attrs, a.target)
  PROVE  Extends(a, WithBundle([a EXCEPT !.numTokenSlots =
                                           attrs.numTokenSlots], attrs))
<1> DEFINE c == [a EXCEPT !.numTokenSlots = attrs.numTokenSlots]
           b == WithBundle(c, attrs)
           Image == {"numTokenSlots", "hasPackedWeights", "weightsSize",
                     "weightsAlignment", "l2End", "nextL2"}
           next == IF a.target = "magia-v3" THEN L2Base
                   ELSE AlignTo(L2Base + attrs.weightsSize, Align)
<1>1. /\ DOMAIN a = AppFields /\ ScalarsOK(a) /\ IdsOK(a) /\ PlacesOK(a)
      /\ RowsOK(a) /\ a.plans \in [Harts -> PlanType(a)]
  BY DEF AppOK
<1>2. SameBut(Image, a, b)
  BY <1>1 DEF SameBut, AppFields, WithBundle
<1>3. b.numTokenSlots = attrs.numTokenSlots
  BY <1>1 DEF AppFields, WithBundle
<1>4. attrs.bundle =>
        /\ b.hasPackedWeights = TRUE /\ b.weightsSize = attrs.weightsSize
        /\ b.weightsAlignment = attrs.alignment
        /\ b.l2End = RuntimeL2End(attrs, a.target) /\ b.nextL2 = next
  BY <1>1 DEF AppFields, WithBundle
<1>5. ~attrs.bundle =>
        /\ b.hasPackedWeights = FALSE /\ b.weightsSize = a.weightsSize
        /\ b.weightsAlignment = a.weightsAlignment
        /\ b.l2End = L2End /\ b.nextL2 = L2Base
  BY <1>1 DEF AppFields, WithBundle
<1> HIDE DEF c, b
<1>6. /\ b.slices = a.slices /\ b.subslices = a.subslices
      /\ b.l2Globals = a.l2Globals
      /\ b.reads = a.reads /\ b.writes = a.writes /\ b.recvs = a.recvs
      /\ b.sends = a.sends /\ b.ops = a.ops /\ b.plans = a.plans
      /\ b.globalIds = a.globalIds /\ b.transitionIds = a.transitionIds
      /\ b.nextSliceId = a.nextSliceId /\ b.l2Index = a.l2Index
      /\ b.initSlots = a.initSlots
      /\ b.l2Base = a.l2Base /\ b.numTokens = a.numTokens
      /\ b.randomizeInputs = a.randomizeInputs /\ b.target = a.target
  BY <1>2 DEF SameBut, AppFields
<1>7. /\ L2Base + attrs.weightsSize \in Nat
      /\ next \in Nat /\ L2Base <= next
      /\ a.target # "magia-v3" => L2Base + attrs.weightsSize <= next
  <2>1. L2Base \in Nat /\ L2Base + attrs.weightsSize \in Nat
    BY MemoryAssumption
  <2>2. /\ AlignTo(L2Base + attrs.weightsSize, Align) \in Nat
        /\ L2Base + attrs.weightsSize
             <= AlignTo(L2Base + attrs.weightsSize, Align)
    BY <2>1, AlignToUp
  <2> QED
    BY <2>1, <2>2
<1> HIDE DEF next
<1>8. /\ RuntimeL2End(attrs, a.target) \in Nat
      /\ RuntimeL2End(attrs, a.target) <= L2End
  BY MemoryAssumption DEF RuntimeL2End, Lesser
<1>9. ScalarsOK(b)
  BY <1>1, <1>3, <1>4, <1>5, <1>6, <1>7, <1>8, MemoryAssumption DEF ScalarsOK
<1>10. IdsOK(b)
  BY <1>1, <1>6, Zenon DEF IdsOK
<1>11. PlacesOK(b)
  BY <1>1, <1>6 DEF PlacesOK, SubsliceType
<1>12. RowsOK(b)
  BY <1>1, <1>6, RowsGrow
<1>13. b.plans \in [Harts -> PlanType(b)]
  BY <1>1, <1>6, PlansGrow
<1>14. AppOK(b)
  BY <1>2, <1>9, <1>10, <1>11, <1>12, <1>13 DEF AppOK, SameBut
<1>15. L1Apart(a) => L1Apart(b)
  BY <1>6, SameL1Apart DEF SameL1
<1>16. ImageEnd(b) <= L2End /\ ImageEnd(b) <= b.nextL2
  <2>1. CASE attrs.bundle /\ a.target # "magia-v3"
    <3>1. ImageEnd(b) = L2Base + attrs.weightsSize /\ b.nextL2 = next
      BY <1>4, <1>6, <2>1 DEF ImageEnd, HasImageInL2
    <3>2. InitializerCapacity(attrs, a.target) <= L2End - L2Base
      BY <2>1, MemoryAssumption DEF InitializerCapacity, Lesser
    <3>3. InitializerCapacity(attrs, a.target) \in Int
      BY <2>1, MemoryAssumption DEF InitializerCapacity, Lesser
    <3> QED
      BY <1>7, <2>1, <3>1, <3>2, <3>3, MemoryAssumption
  <2>2. CASE attrs.bundle /\ a.target = "magia-v3"
    BY <1>4, <1>6, <1>7, <2>2, MemoryAssumption DEF ImageEnd, HasImageInL2
  <2>3. CASE ~attrs.bundle
    BY <1>5, <2>3, MemoryAssumption DEF ImageEnd, HasImageInL2
  <2> QED
    BY <2>1, <2>2, <2>3
<1>17. L2Apart(b)
  <2>1. DOMAIN b.l2Globals = {}
    BY <1>6
  <2>2. b.l2End <= L2End /\ b.l2Base = L2Base
    BY <1>4, <1>5, <1>6, <1>8, MemoryAssumption
  <2> QED
    BY <1>16, <2>1, <2>2 DEF L2Apart
<1> QED
  BY <1>6, <1>14, <1>15, <1>17 DEF Extends, b, c

\* The invariant holds before the collection starts.
LEMMA InitKeeps ==
  ASSUME Init
  PROVE  IInv
<1>1. ProgramOK(prog)
  BY ProgramsAssumption DEF Init
<1>2. AppOK(app) /\ L1Apart(app) /\ L2Apart(app)
  BY <1>1, EmptyDescription DEF Init, ProgramOK
<1>3. RunOK
  BY EmptyTable DEF Init, EmptyRun, RunOK, RunFits
<1> QED
  BY <1>2, <1>3 DEF Init, IInv, TypeOK, SlicesApart, BuffersApart

\* The invariant survives the reading of the module's attributes: the runtime
\* buffers start behind the packed image.
LEMMA AttrsKeep ==
  ASSUME IInv, CollectModuleAttrs
  PROVE  IInv'
<1>1. /\ AppOK(app) /\ RunFits(run, app) /\ ProgramOK(prog)
  BY Facts
<1>2. L2Apart(app) /\ app = NewApplication(prog.options)
  BY DEF IInv, CollectModuleAttrs, BuffersApart
<1>3. /\ app.l2Globals = <<>> /\ app.l2Base = L2Base /\ app.l2End = L2End
      /\ app.nextL2 = L2Base /\ app.hasPackedWeights = FALSE
      /\ app.target = prog.options.target
  BY <1>2 DEF NewApplication
<1>4. /\ prog.attrs.numTokenSlots \in Nat /\ prog.attrs.alignment \in Nat
      /\ prog.attrs.weightsSize \in Nat /\ prog.attrs.l2Capacity \in Nat
      /\ prog.attrs.bundle \in BOOLEAN
  BY <1>1 DEF ProgramOK
<1>5. prog.attrs.bundle =>
        prog.attrs.weightsSize <= InitializerCapacity(prog.attrs, app.target)
  BY <1>3 DEF CollectModuleAttrs, AttrsHold
<1>6. Extends(app, app')
  BY <1>1, <1>2, <1>3, <1>4, <1>5, BundleExtends DEF CollectModuleAttrs
<1>7. RunFits(run', app')
  BY <1>1, <1>6, RunFitsLater DEF CollectModuleAttrs
<1> QED
  BY <1>6, <1>7, StepKeeps DEF CollectModuleAttrs
-----------------------------------------------------------------------------
(* Every handler keeps the invariant *)

\* Placing a subslice of the whole of a slice.
LEMMA WholeExtends ==
  ASSUME NEW a, AppOK(a), NEW i \in DOMAIN a.slices
  PROVE  LET b == AddSubslice(a, WholeSubslice(a, i))
         IN /\ Extends(a, b) /\ SameL2(a, b)
            /\ b.slices = a.slices
            /\ Len(b.subslices) = Len(a.subslices) + 1
            /\ Len(b.subslices) \in DOMAIN b.subslices
<1>1. BoxOK(NoBox)
  BY DEF BoxOK
<1>2. WholeSubslice(a, i) \in SubsliceType(a)
  BY <1>1, SubsliceOfSlice
<1> QED
  BY <1>2, AddSubsliceExtends

\* The invariant survives collectInitializerStore.
LEMMA StoreKeeps ==
  ASSUME IInv, CollectInitializerStore
  PROVE  IInv'
<1> DEFINE o == prog.init[pos]
           source == L2Sources(prog.init)[o.channel]
           s == StoreSlice(o, source)
           a == AllocateSliceInTileL1(app, s)
           b == [a EXCEPT !.initSlots =
                            Put(@, <<o.tile, o.slot>>, Len(a.slices))]
<1>1. /\ phase = "init" /\ pos <= Len(prog.init) /\ o.op = "store"
      /\ CanStore(o, source)
      /\ app' = AddL2ReadForSlice(b, Len(a.slices), "Initializer", source, 1)
      /\ pos' = pos + 1 /\ prog' = prog /\ phase' = phase /\ run' = run
  BY DEF CollectInitializerStore, Step
<1>2. /\ AppOK(app) /\ RunFits(run, app) /\ OpOK(o) /\ pos + 1 \in Nat \ {0}
  BY <1>1, Facts
<1>3. SourceOK(source)
  <2>1. ProgramOK(prog) /\ pos \in Nat \ {0}
    BY Facts
  <2>2. pos \in DOMAIN prog.init
    <3>1. RegionOK(prog.init)
      BY ONLY <2>1 DEF ProgramOK
    <3>2. Len(prog.init) \in Nat /\ DOMAIN prog.init = 1..Len(prog.init)
      BY ONLY <3>1 DEF RegionOK
    <3> QED
      BY ONLY <1>1, <2>1, <3>2
  <2>3. o.channel \in DOMAIN L2Sources(prog.init)
    BY <1>1, <2>1, <2>2 DEF ProgramOK
  <2> QED
    BY <2>1, <2>3 DEF ProgramOK, RegionOK
<1> HIDE DEF o, source
<1>4. UnplacedOK(s)
  BY <1>1, <1>2, <1>3, ElementByteWidthNat
  DEF UnplacedOK, StoreSlice, NewSlice, OpOK, SourceOK, GlobalKinds
<1>5. /\ Extends(app, a) /\ SameL2(app, a) /\ Len(a.slices) \in DOMAIN a.slices
  BY <1>1, <1>2, <1>4, AllocateExtends DEF CanStore
<1>6. AppOK(a)
  BY <1>5 DEF Extends
<1> HIDE DEF a
<1>7. /\ Extends(a, b) /\ SameL2(a, b) /\ b.slices = a.slices
  BY <1>5, <1>6, InitSlotExtends
<1>8. AppOK(b)
  BY <1>7 DEF Extends
<1> HIDE DEF b
<1>9. WantedGlobal("Initializer", source, 1)
  BY <1>3 DEF WantedGlobal, SourceOK, GlobalKinds
<1>10. CanGetL2Global(b, "Initializer", source, 1)
  BY <1>1, <1>5, <1>7, SameL2Can DEF CanStore
<1>11. Extends(b, app')
  BY <1>1, <1>5, <1>7, <1>8, <1>9, <1>10, ReadForSliceExtends
<1>12. Extends(app, app')
  BY <1>5, <1>7, <1>11, ExtendsTransitive
<1> QED
  BY <1>1, <1>2, <1>12, RunFitsLater, StepKeeps

\* The invariant survives collectInputRecv.
LEMMA InputKeeps ==
  ASSUME IInv, CollectInputRecv
  PROVE  IInv'
<1> DEFINE o == prog.run[pos]
           source == L2Sources(prog.run)[o.channel]
           s == InputSlice(o, source)
           a == AllocateSliceInTileL1(app, s)
           b == AddSubslice(a, WholeSubslice(a, Len(a.slices)))
<1>1. /\ phase = "run" /\ pos <= Len(prog.run) /\ o.op = "recv"
      /\ o.channel \in DOMAIN L2Sources(prog.run)
      /\ CanCollectInput(o, source)
      /\ app' = AddL2ReadForSlice(b, Len(a.slices), "Input", source,
                                  app.numTokens)
      /\ run' = [run EXCEPT !.subsliceOf = Put(@, o.result, Len(b.subslices))]
      /\ pos' = pos + 1 /\ prog' = prog /\ phase' = phase
  BY DEF CollectInputRecv, Step
<1>2. /\ AppOK(app) /\ RunFits(run, app) /\ OpOK(o) /\ pos + 1 \in Nat \ {0}
      /\ app.numTokens \in Nat /\ app.numTokenSlots \in Nat
  BY <1>1, Facts
<1>3. SourceOK(source)
  BY <1>1, Facts DEF ProgramOK, RegionOK
<1> HIDE DEF o, source
<1>4. UnplacedOK(s)
  BY <1>1, <1>2, <1>3, ElementByteWidthNat
  DEF UnplacedOK, InputSlice, NewSlice, OpOK, SourceOK, GlobalKinds
<1>5. /\ Extends(app, a) /\ SameL2(app, a) /\ Len(a.slices) \in DOMAIN a.slices
  BY <1>1, <1>2, <1>4, AllocateExtends DEF CanCollectInput
<1>6. AppOK(a)
  BY <1>5 DEF Extends
<1> HIDE DEF a
<1>7. /\ Extends(a, b) /\ SameL2(a, b) /\ b.slices = a.slices
      /\ Len(b.subslices) \in DOMAIN b.subslices
  BY <1>5, <1>6, WholeExtends
<1>8. AppOK(b)
  BY <1>7 DEF Extends
<1> HIDE DEF b
<1>9. WantedGlobal("Input", source, app.numTokens)
  BY <1>2, <1>3 DEF WantedGlobal, SourceOK, GlobalKinds
<1>10. CanGetL2Global(b, "Input", source, app.numTokens)
  BY <1>1, <1>5, <1>7, SameL2Can DEF CanCollectInput
<1>11. Extends(b, app')
  BY <1>1, <1>5, <1>7, <1>8, <1>9, <1>10, ReadForSliceExtends
<1>12. Extends(app, app')
  BY <1>5, <1>7, <1>11, ExtendsTransitive
<1>13. RunFits(run', app')
  <2>1. RunFits(run, app')
    BY <1>2, <1>12, RunFitsLater
  <2>2. Len(b.subslices) \in DOMAIN app'.subslices
    BY <1>7, <1>11 DEF Extends
  <2> QED
    BY <1>1, <2>1, <2>2, PutTable DEF RunFits
<1> QED
  BY <1>1, <1>2, <1>12, <1>13, StepKeeps

\* A value that is given a subslice, already added to the description.
LEMMA AliasKeeps ==
  ASSUME IInv, phase = "run", prog' = prog, phase' = phase, pos' = pos + 1,
         NEW x \in SubsliceType(app), NEW result,
         app' = AddSubslice(app, x),
         run' = [run EXCEPT !.subsliceOf =
                              Put(@, result, Len(app.subslices) + 1)]
  PROVE  IInv'
<1>1. AppOK(app) /\ RunFits(run, app) /\ pos + 1 \in Nat \ {0}
  BY Facts
<1>2. /\ Extends(app, app')
      /\ Len(app.subslices) + 1 \in DOMAIN app'.subslices
  BY <1>1, AddSubsliceExtends
<1>3. RunFits(run, app')
  BY <1>1, <1>2, RunFitsLater
<1>4. RunFits(run', app')
  BY <1>2, <1>3, PutTable DEF RunFits
<1> QED
  BY <1>1, <1>2, <1>4, StepKeeps

\* The invariant survives collectLoad.
LEMMA LoadKeeps ==
  ASSUME IInv, CollectLoad
  PROVE  IInv'
<1> DEFINE o == prog.run[pos]
           i == app.initSlots[<<o.tile, o.slot>>]
<1>1. /\ phase = "run" /\ <<o.tile, o.slot>> \in DOMAIN app.initSlots
      /\ app' = AddSubslice(app, WholeSubslice(app, i))
      /\ run' = [run EXCEPT !.subsliceOf =
                              Put(@, o.result, Len(app.subslices) + 1)]
      /\ pos' = pos + 1 /\ prog' = prog /\ phase' = phase
  BY DEF CollectLoad
<1>2. AppOK(app)
  BY Facts
<1>3. i \in DOMAIN app.slices
  BY <1>1, <1>2 DEF AppOK, IdsOK, IsTable
<1> HIDE DEF o, i
<1>4. WholeSubslice(app, i) \in SubsliceType(app)
  <2>1. BoxOK(NoBox)
    BY DEF BoxOK
  <2> QED
    BY <1>2, <1>3, <2>1, SubsliceOfSlice
<1> QED
  BY <1>1, <1>4, AliasKeeps

\* Passing over an operation, or ending a walk, changes neither table.
LEMMA UnchangedKeeps ==
  ASSUME IInv, prog' = prog, app' = app, run' = run,
         phase' \in {"init", "recvs", "run", "done", "failed"},
         pos' \in Nat \ {0}
  PROVE  IInv'
<1>1. Extends(app, app) /\ RunFits(run, app)
  BY Facts
<1> QED
  BY <1>1, StepKeeps

\* The invariant survives collectExtractSliceAlias.
LEMMA ExtractKeeps ==
  ASSUME IInv, CollectExtractSliceAlias
  PROVE  IInv'
<1> DEFINE o == prog.run[pos]
           x == [ slice |-> app.subslices[run.subsliceOf[o.operand]].slice,
                  offset |-> o.off, shape |-> o.len ]
<1>1. /\ phase = "run" /\ pos <= Len(prog.run) /\ o.op = "extract"
      /\ IF o.operand \in DOMAIN run.subsliceOf
         THEN /\ app' = AddSubslice(app, x)
              /\ run' = [run EXCEPT !.subsliceOf =
                                      Put(@, o.result, Len(app.subslices) + 1)]
         ELSE UNCHANGED <<app, run>>
      /\ pos' = pos + 1 /\ prog' = prog /\ phase' = phase
  BY DEF CollectExtractSliceAlias, Step
<1>2. AppOK(app) /\ RunFits(run, app) /\ OpOK(o) /\ pos + 1 \in Nat \ {0}
  BY <1>1, Facts
<1>3. CASE o.operand \in DOMAIN run.subsliceOf
  <2>1. run.subsliceOf[o.operand] \in DOMAIN app.subslices
    BY <1>2, <1>3 DEF RunFits, IsTable
  <2>2. app.subslices[run.subsliceOf[o.operand]] \in SubsliceType(app)
    BY <1>2, <2>1 DEF AppOK, PlacesOK
  <2>3. x \in SubsliceType(app)
    BY <1>1, <1>2, <2>2 DEF SubsliceType, OpOK
  <2> QED
    BY <1>1, <1>3, <2>3, AliasKeeps
<1>4. CASE o.operand \notin DOMAIN run.subsliceOf
  BY <1>1, <1>2, <1>4, UnchangedKeeps
<1> QED
  BY <1>3, <1>4

\* The invariant survives collectInsertSliceAlias.
LEMMA InsertKeeps ==
  ASSUME IInv, CollectInsertSliceAlias
  PROVE  IInv'
<1> DEFINE o == prog.run[pos]
           i == app.subslices[InsertTarget(o)].slice
           known == {o.dest, o.source} \cap DOMAIN run.subsliceOf # {}
<1>1. /\ phase = "run" /\ pos <= Len(prog.run)
      /\ IF known
         THEN /\ app' = AddSubslice(app, WholeSubslice(app, i))
              /\ run' = [run EXCEPT !.subsliceOf =
                                      Put(@, o.result, Len(app.subslices) + 1)]
         ELSE UNCHANGED <<app, run>>
      /\ pos' = pos + 1 /\ prog' = prog /\ phase' = phase
  BY DEF CollectInsertSliceAlias, Step
<1>2. AppOK(app) /\ RunFits(run, app) /\ pos + 1 \in Nat \ {0}
  BY <1>1, Facts
<1>3. CASE known
  <2>1. InsertTarget(o) \in DOMAIN app.subslices
    BY <1>2, <1>3 DEF InsertTarget, RunFits, IsTable
  <2>2. app.subslices[InsertTarget(o)] \in SubsliceType(app)
    BY <1>2, <2>1 DEF AppOK, PlacesOK
  <2>3. i \in DOMAIN app.slices
    BY <2>2 DEF SubsliceType
  <2> HIDE DEF i
  <2>4. WholeSubslice(app, i) \in SubsliceType(app)
    <3>1. BoxOK(NoBox)
      BY DEF BoxOK
    <3> QED
      BY <1>2, <2>3, <3>1, SubsliceOfSlice
  <2> QED
    BY <1>1, <1>3, <2>4, AliasKeeps
<1>4. CASE ~known
  BY <1>1, <1>2, <1>4, UnchangedKeeps
<1> QED
  BY <1>3, <1>4
\* The invariant survives collectTileRecv, whose slice may be a new one or the
\* aggregate an earlier receive placed.
LEMMA TileRecvKeeps ==
  ASSUME IInv, CollectTileRecv
  PROVE  IInv'
<1> DEFINE o == prog.run[pos]
           known == AggregateKey(o) \in DOMAIN run.aggregates
           a == IF known THEN app
                ELSE AllocateSliceInTileL1(app, AggregateSlice(o))
           s == IF known THEN run.aggregates[AggregateKey(o)]
                ELSE Len(a.slices)
           b == AddSubslice(a, SubsliceFromAttr(a, s, o.sub))
           c == [b EXCEPT !.transitionIds = WithId(@, o.channel)]
           producer == Len(c.plans[o.dst].recvs)
           recv == [ transition |-> IdOf(b.transitionIds, o.channel),
                     src |-> o.src, dst |-> o.dst,
                     subslice |-> Len(b.subslices), producer |-> producer ]
           place == [ slice |-> s, subslice |-> Len(b.subslices),
                      producer |-> producer ]
<1>1. /\ phase = "recvs" /\ pos <= Len(prog.run) /\ IsTileRecv(o)
      /\ CanCollectTileRecv(o)
      /\ app' = AddRecv(c, recv)
      /\ run' = [run EXCEPT
                  !.aggregates = Put(@, AggregateKey(o), s),
                  !.tileRecvs = Put(@, o.channel, place),
                  !.subsliceOf = Put(@, o.result, Len(b.subslices))]
      /\ pos' = pos + 1 /\ prog' = prog /\ phase' = phase
  BY DEF CollectTileRecv
<1>2. /\ AppOK(app) /\ RunFits(run, app) /\ OpOK(o) /\ pos + 1 \in Nat \ {0}
      /\ app.numTokenSlots \in Nat /\ Extends(app, app)
  BY <1>1, Facts
<1> HIDE DEF o
<1>3. /\ o.src \in Harts /\ o.dst \in Harts /\ o.tile \in Harts
      /\ o.type.shape \in Pair /\ BoxOK(o.parent) /\ BoxOK(o.sub)
  <2>1. OpOK(o) /\ o.op = "recv" /\ o.src >= 0
    BY <1>1, <1>2 DEF IsTileRecv
  <2>2. /\ o.tile \in Harts /\ o.type.shape \in Pair
        /\ o.dst \in Harts /\ BoxOK(o.parent) /\ BoxOK(o.sub)
        /\ o.src \in Harts \cup {-1}
    BY ONLY <2>1 DEF OpOK, L2
  <2> QED
    BY ONLY <2>1, <2>2
<1>4. UnplacedOK(AggregateSlice(o))
  <2>1. o.parent = NoBox \/ (o.parent.off \in Pair /\ o.parent.len \in Pair)
    BY <1>3 DEF BoxOK
  <2>2. <<0, 0>> \in Pair
    BY DEF Pair
  <2> QED
    BY <1>2, <1>3, <2>1, <2>2, ElementByteWidthNat
    DEF UnplacedOK, AggregateSlice, NewSlice, GlobalKinds
<1>5. Extends(app, a) /\ s \in DOMAIN a.slices
  <2>1. CASE known
    BY <1>2, <2>1 DEF RunFits, IsTable
  <2>2. CASE ~known
    BY <1>1, <1>2, <1>4, <2>2, AllocateExtends DEF CanCollectTileRecv
  <2> QED
    BY <2>1, <2>2
<1> HIDE DEF a, s
<1>6. AppOK(a)
  BY <1>5 DEF Extends
<1>7. SubsliceFromAttr(a, s, o.sub) \in SubsliceType(a)
  BY <1>3, <1>5, <1>6, SubsliceOfSlice
<1>8. /\ Extends(a, b) /\ Len(b.subslices) \in DOMAIN b.subslices
      /\ b.slices = a.slices
  BY <1>6, <1>7, AddSubsliceExtends
<1>9. AppOK(b)
  BY <1>8 DEF Extends
<1> HIDE DEF b
<1>10. Extends(b, c) /\ c.subslices = b.subslices /\ c.slices = b.slices
  BY <1>9, TransitionIdExtends
<1>11. AppOK(c)
  BY <1>10 DEF Extends
<1> HIDE DEF c
<1>12. producer \in Nat
  <2>1. c.plans[o.dst] \in PlanType(c)
    BY <1>3, <1>11 DEF AppOK
  <2>2. c.plans[o.dst].recvs \in Seq(DOMAIN c.recvs)
    BY <2>1 DEF PlanType
  <2> QED
    BY <2>2
<1> HIDE DEF producer
<1>13. recv \in RecvType(c)
  <2>1. IdOf(b.transitionIds, o.channel) \in Nat
    BY <1>9, IdTable DEF AppOK, IdsOK
  <2> QED
    BY <1>3, <1>8, <1>10, <1>12, <2>1 DEF RecvType
<1> HIDE DEF recv
<1>14. Extends(c, app')
  BY <1>1, <1>11, <1>13, AddRecvTypes
<1>15. Extends(app, app')
  BY <1>5, <1>8, <1>10, <1>14, ExtendsTransitive
<1>16. RunFits(run', app')
  <2>1. RunFits(run, app')
    BY <1>2, <1>15, RunFitsLater
  <2>2. s \in DOMAIN app'.slices /\ Len(b.subslices) \in DOMAIN app'.subslices
    BY <1>5, <1>8, <1>10, <1>14 DEF Extends
  <2>3. place \in RecvPlace(app')
    BY <1>12, <2>2 DEF RecvPlace
  <2> HIDE DEF place
  <2>4. /\ IsTable(Put(run.aggregates, AggregateKey(o), s), DOMAIN app'.slices)
        /\ IsTable(Put(run.tileRecvs, o.channel, place), RecvPlace(app'))
        /\ IsTable(Put(run.subsliceOf, o.result, Len(b.subslices)),
                   DOMAIN app'.subslices)
    BY <2>1, <2>2, <2>3, PutTable DEF RunFits
  <2> QED
    BY <1>1, <2>1, <2>4 DEF RunFits
<1> QED
  BY <1>1, <1>2, <1>15, <1>16, StepKeeps

\* The invariant survives collectComputeOp.
LEMMA ComputeKeeps ==
  ASSUME IInv, CollectComputeOp
  PROVE  IInv'
<1> DEFINE o == prog.run[pos]
           s == ProducedIndex(app, OpKey(o))
           a == ProduceSlice(app, OpKey(o), OpSlice(o))
           b == AddSubslice(a, WholeSubslice(a, s))
           inputs == [k \in DOMAIN o.operands |-> run.subsliceOf[o.operands[k]]]
           op == [ owner |-> o.tile, inputs |-> inputs,
                   output |-> Len(b.subslices) ]
<1>1. /\ phase = "run" /\ pos <= Len(prog.run) /\ o.op = "compute"
      /\ CanCollectOp(o)
      /\ app' = AddOp(b, op)
      /\ run' = [run EXCEPT !.produced = Put(@, OpKey(o), s),
                            !.subsliceOf = Put(@, o.result, Len(b.subslices))]
      /\ pos' = pos + 1 /\ prog' = prog /\ phase' = phase
  BY DEF CollectComputeOp, Step
<1>2. /\ AppOK(app) /\ RunFits(run, app) /\ OpOK(o) /\ pos + 1 \in Nat \ {0}
      /\ app.numTokenSlots \in Nat
  BY <1>1, Facts
<1> HIDE DEF o
<1>3. UnplacedOK(OpSlice(o))
  BY <1>1, <1>2, ElementByteWidthNat
  DEF UnplacedOK, OpSlice, ProducedSlice, NewSlice, OpOK, GlobalKinds
<1>4. Extends(app, a) /\ a.subslices = app.subslices /\ s \in DOMAIN a.slices
  BY <1>1, <1>2, <1>3, ProduceExtends DEF CanCollectOp
<1>5. AppOK(a)
  BY <1>4 DEF Extends
<1> HIDE DEF a, s
<1>6. /\ Extends(a, b) /\ Len(b.subslices) \in DOMAIN b.subslices
  BY <1>4, <1>5, WholeExtends
<1>7. AppOK(b)
  BY <1>6 DEF Extends
<1> HIDE DEF b
<1>8. inputs \in Seq(DOMAIN b.subslices)
  <2>1. \A k \in DOMAIN o.operands :
          run.subsliceOf[o.operands[k]] \in DOMAIN app.subslices
    BY <1>1, <1>2 DEF CanCollectOp, RunFits, IsTable
  <2>2. DOMAIN app.subslices \subseteq DOMAIN b.subslices
    BY <1>4, <1>6 DEF Extends
  <2>3. /\ Len(o.operands) \in Nat
        /\ DOMAIN o.operands = 1..Len(o.operands)
    BY <1>1, <1>2 DEF OpOK
  <2> QED
    BY <2>1, <2>2, <2>3
<1> HIDE DEF inputs
<1>9. op \in OpType(b)
  BY <1>1, <1>2, <1>6, <1>8 DEF OpType, OpOK
<1> HIDE DEF op
<1>10. Extends(b, app')
  BY <1>1, <1>7, <1>9, AddOpTypes
<1>11. Extends(app, app')
  BY <1>4, <1>6, <1>10, ExtendsTransitive
<1>12. RunFits(run', app')
  <2>1. RunFits(run, app')
    BY <1>2, <1>11, RunFitsLater
  <2>2. s \in DOMAIN app'.slices /\ Len(b.subslices) \in DOMAIN app'.subslices
    BY <1>4, <1>6, <1>10 DEF Extends
  <2>3. /\ IsTable(Put(run.produced, OpKey(o), s), DOMAIN app'.slices)
        /\ IsTable(Put(run.subsliceOf, o.result, Len(b.subslices)),
                   DOMAIN app'.subslices)
    BY <2>1, <2>2, PutTable DEF RunFits
  <2> QED
    BY <1>1, <2>1, <2>3 DEF RunFits
<1> QED
  BY <1>1, <1>2, <1>11, <1>12, StepKeeps

\* What a send may rely on once its source has a place.
LEMMA SourcePlaced ==
  ASSUME IInv, NEW o, OpOK(o), o.op = "send", IsTileSend(o), CanPlaceSource(o)
  PROVE  LET a == WithSource(o)
         IN /\ Extends(app, a) /\ SameL2(app, a)
            /\ Len(a.subslices) \in DOMAIN a.subslices
            /\ SourceIndex(o) \in DOMAIN a.slices
            /\ o.src \in Harts
            /\ o.dst # L2 => o.dst \in Harts
            /\ OutputOffset(o) \in Pair
            /\ WantedGlobal("Output", OutputSource(o), app.numTokens)
<1> DEFINE b == IF IsPlaced(o) THEN app
                ELSE ProduceSlice(app, SendKey(o), SendSlice(o))
           a == AddSubslice(b, SubsliceFromAttr(b, SourceIndex(o), o.sub))
<1>1. /\ AppOK(app) /\ RunFits(run, app) /\ ProgramOK(prog) /\ Extends(app, app)
      /\ app.numTokens \in Nat /\ app.numTokenSlots \in Nat
  BY Facts
<1>2. /\ o.src \in Harts /\ o.src # L2
      /\ o.dst # L2 => o.dst \in Harts
  BY HartsAssumption DEF OpOK, IsTileSend, L2
<1>3. /\ o.rootType.shape \in Pair /\ o.rootOffset \in Pair
      /\ BoxOK(o.parent) /\ BoxOK(o.sub)
  BY <1>2 DEF OpOK
<1>4. o.channel \in DOMAIN prog.inserts =>
        /\ prog.inserts[o.channel].off \in Pair
        /\ prog.inserts[o.channel].type.shape \in Pair
  BY <1>1 DEF ProgramOK
<1>5. OutputOffset(o) \in Pair
  BY <1>3, <1>4 DEF OutputOffset, BoxOK
<1>6. WantedGlobal("Output", OutputSource(o), app.numTokens)
  BY <1>1, <1>3, <1>4 DEF WantedGlobal, OutputSource, GlobalKinds
<1>7. UnplacedOK(SendSlice(o))
  BY <1>1, <1>2, <1>3, <1>5, ElementByteWidthNat
  DEF UnplacedOK, SendSlice, ProducedSlice, NewSlice, SendKind, GlobalKinds
<1>8. Extends(app, b) /\ SameL2(app, b) /\ SourceIndex(o) \in DOMAIN b.slices
  <2>1. CASE IsPlaced(o)
    <3>1. SentSubslice(o) \in DOMAIN app.subslices
      BY <1>1, <2>1 DEF IsPlaced, SentSubslice, RunFits, IsTable
    <3>2. app.subslices[SentSubslice(o)] \in SubsliceType(app)
      BY <1>1, <3>1 DEF AppOK, PlacesOK
    <3>3. app.subslices[SentSubslice(o)].slice \in DOMAIN app.slices
      BY <3>2 DEF SubsliceType
    <3> QED
      BY <1>1, <2>1, <3>3 DEF SourceIndex, SameL2
  <2>2. CASE ~IsPlaced(o)
    BY <1>1, <1>7, <2>2, ProduceExtends DEF CanPlaceSource, SourceIndex
  <2> QED
    BY <2>1, <2>2
<1>9. a = WithSource(o)
  BY DEF WithSource
<1> HIDE DEF b
<1>10. AppOK(b)
  BY <1>8 DEF Extends
<1>11. SubsliceFromAttr(b, SourceIndex(o), o.sub) \in SubsliceType(b)
  BY <1>3, <1>8, <1>10, SubsliceOfSlice
<1>12. /\ Extends(b, a) /\ SameL2(b, a) /\ a.slices = b.slices
       /\ Len(a.subslices) \in DOMAIN a.subslices
  BY <1>10, <1>11, AddSubsliceExtends
<1> HIDE DEF a
<1>13. Extends(app, a)
  BY <1>8, <1>12, ExtendsTransitive
<1>14. SameL2(app, a)
  BY <1>8, <1>12 DEF SameL2
<1> QED
  BY <1>2, <1>5, <1>6, <1>8, <1>9, <1>12, <1>13, <1>14

\* The invariant survives a send to L2: a slice for a value not placed yet, and
\* the buffer of the output.
LEMMA OutputSendKeeps ==
  ASSUME IInv, CollectOutputSend
  PROVE  IInv'
<1> DEFINE o == prog.run[pos]
           c == WithSource(o)
           a == GetOrCreateL2Global(c, "Output", OutputSource(o), app.numTokens)
           g == a.l2Index[L2Key("Output", SendName(o))]
           global == a.l2Globals[g]
           write == [ global |-> g, subslice |-> Len(a.subslices),
                      address |-> global.address
                        + OffsetBytes(OutputOffset(o),
                                      Strides(global.shape, global.elemBytes)),
                      stride |-> global.tokenStride ]
<1>1. /\ phase = "run" /\ pos <= Len(prog.run) /\ o.op = "send"
      /\ IsTileSend(o) /\ o.dst = L2 /\ CanCollectSend(o)
      /\ app' = AddL2Write(a, o.src, write)
      /\ run' = [run EXCEPT !.produced = Put(@, SendKey(o), SourceIndex(o))]
      /\ pos' = pos + 1 /\ prog' = prog /\ phase' = phase
  BY DEF CollectOutputSend, Step
<1>2. /\ AppOK(app) /\ RunFits(run, app) /\ OpOK(o) /\ pos + 1 \in Nat \ {0}
  BY <1>1, Facts
<1> HIDE DEF o
<1>3. /\ Extends(app, c) /\ SameL2(app, c)
      /\ Len(c.subslices) \in DOMAIN c.subslices
      /\ SourceIndex(o) \in DOMAIN c.slices
      /\ o.src \in Harts /\ OutputOffset(o) \in Pair
      /\ WantedGlobal("Output", OutputSource(o), app.numTokens)
  BY <1>1, <1>2, SourcePlaced DEF CanCollectSend
<1>4. AppOK(c)
  BY <1>3 DEF Extends
<1>5. CanGetL2Global(c, "Output", OutputSource(o), app.numTokens)
  BY <1>1, <1>3, SameL2Can DEF CanCollectSend
<1> HIDE DEF c
<1>6. OutputSource(o).name = SendName(o)
  BY DEF OutputSource
<1>7. /\ Extends(c, a) /\ a.slices = c.slices /\ a.subslices = c.subslices
      /\ g \in DOMAIN a.l2Globals
  BY <1>3, <1>4, <1>5, <1>6, GetGlobalExtends
<1> HIDE DEF a, g
<1>8. AppOK(a) /\ a.l2Globals \in Seq(L2GlobalType)
  BY <1>7 DEF Extends, AppOK, PlacesOK
<1>9. global \in L2GlobalType
  BY <1>7, <1>8
<1> HIDE DEF global
<1>10. write \in ReadType(a)
  <2>1. /\ global.address \in Nat /\ global.tokenStride \in Nat
        /\ global.shape \in Pair /\ global.elemBytes \in Nat
    BY <1>9 DEF L2GlobalType
  <2>2. OffsetBytes(OutputOffset(o),
                    Strides(global.shape, global.elemBytes)) \in Nat
    BY <1>3, <2>1, OffsetBytesNat
  <2> QED
    BY <1>3, <1>7, <2>1, <2>2 DEF ReadType
<1> HIDE DEF write
<1>11. Extends(a, app')
  BY <1>1, <1>3, <1>8, <1>10, AddL2WriteTypes
<1>12. Extends(app, app')
  BY <1>3, <1>7, <1>11, ExtendsTransitive
<1>13. RunFits(run', app')
  <2>1. RunFits(run, app')
    BY <1>2, <1>12, RunFitsLater
  <2>2. SourceIndex(o) \in DOMAIN app'.slices
    BY <1>3, <1>7, <1>11 DEF Extends
  <2>3. IsTable(Put(run.produced, SendKey(o), SourceIndex(o)),
                DOMAIN app'.slices)
    BY <2>1, <2>2, PutTable DEF RunFits
  <2> QED
    BY <1>1, <2>1, <2>3 DEF RunFits
<1> QED
  BY <1>1, <1>2, <1>12, <1>13, StepKeeps

\* The invariant survives a send to a tile.
LEMMA TileSendKeeps ==
  ASSUME IInv, CollectTileSend
  PROVE  IInv'
<1> DEFINE o == prog.run[pos]
           a == WithSource(o)
           b == [a EXCEPT !.transitionIds = WithId(@, o.channel)]
           recv == run.tileRecvs[o.channel]
           target == a.slices[recv.slice]
           send == [ transition |-> IdOf(a.transitionIds, o.channel),
                     src |-> o.src, dst |-> o.dst,
                     srcSubslice |-> Len(a.subslices),
                     dstSubslice |-> recv.subslice,
                     dstL1Offset |-> target.l1Offset,
                     dstSlotBytes |-> target.slotBytes,
                     producer |-> recv.producer ]
<1>1. /\ phase = "run" /\ pos <= Len(prog.run) /\ o.op = "send"
      /\ IsTileSend(o) /\ o.dst # L2 /\ CanCollectSend(o)
      /\ app' = AddSend(b, send)
      /\ run' = [run EXCEPT !.produced = Put(@, SendKey(o), SourceIndex(o))]
      /\ pos' = pos + 1 /\ prog' = prog /\ phase' = phase
  BY DEF CollectTileSend, Step
<1>2. /\ AppOK(app) /\ RunFits(run, app) /\ OpOK(o) /\ pos + 1 \in Nat \ {0}
  BY <1>1, Facts
<1> HIDE DEF o
<1>3. /\ Extends(app, a) /\ Len(a.subslices) \in DOMAIN a.subslices
      /\ SourceIndex(o) \in DOMAIN a.slices
      /\ o.src \in Harts /\ o.dst \in Harts
  BY <1>1, <1>2, SourcePlaced DEF CanCollectSend
<1>4. AppOK(a) /\ a.slices \in Seq(SliceType)
  BY <1>3 DEF Extends, AppOK, PlacesOK
<1> HIDE DEF a
<1>5. recv \in RecvPlace(app)
  BY <1>1, <1>2 DEF CanCollectSend, RunFits, IsTable
<1> HIDE DEF recv
<1>6. /\ recv.slice \in DOMAIN a.slices /\ recv.subslice \in DOMAIN a.subslices
      /\ recv.producer \in Nat
  BY <1>3, <1>5 DEF RecvPlace, Extends
<1>7. target \in SliceType
  BY <1>4, <1>6
<1> HIDE DEF target
<1>8. /\ Extends(a, b) /\ b.slices = a.slices /\ b.subslices = a.subslices
  BY <1>4, TransitionIdExtends
<1> HIDE DEF b
<1>9. AppOK(b)
  BY <1>8 DEF Extends
<1>10. send \in SendType(b)
  <2>1. IdOf(a.transitionIds, o.channel) \in Nat
    BY <1>4, IdTable DEF AppOK, IdsOK
  <2>2. target.l1Offset \in Nat /\ target.slotBytes \in Nat
    BY <1>7 DEF SliceType
  <2> QED
    BY <1>3, <1>6, <1>8, <2>1, <2>2 DEF SendType
<1> HIDE DEF send
<1>11. Extends(b, app')
  BY <1>1, <1>9, <1>10, AddSendTypes
<1>12. Extends(app, app')
  BY <1>3, <1>8, <1>11, ExtendsTransitive
<1>13. RunFits(run', app')
  <2>1. RunFits(run, app')
    BY <1>2, <1>12, RunFitsLater
  <2>2. SourceIndex(o) \in DOMAIN app'.slices
    BY <1>3, <1>8, <1>11 DEF Extends
  <2>3. IsTable(Put(run.produced, SendKey(o), SourceIndex(o)),
                DOMAIN app'.slices)
    BY <2>1, <2>2, PutTable DEF RunFits
  <2> QED
    BY <1>1, <2>1, <2>3 DEF RunFits
<1> QED
  BY <1>1, <1>2, <1>12, <1>13, StepKeeps

-----------------------------------------------------------------------------
(* The theorems *)

\* IInv is inductive.
LEMMA NextKeeps ==
  ASSUME IInv, [Next]_vars
  PROVE  IInv'
<1>1. CASE CollectModuleAttrs
  BY <1>1, AttrsKeep
<1>2. CASE CollectInitializerStore
  BY <1>2, StoreKeeps
<1>3. CASE CollectTileRecv
  BY <1>3, TileRecvKeeps
<1>4. CASE CollectInputRecv
  BY <1>4, InputKeeps
<1>5. CASE CollectLoad
  BY <1>5, LoadKeeps
<1>6. CASE CollectExtractSliceAlias
  BY <1>6, ExtractKeeps
<1>7. CASE CollectInsertSliceAlias
  BY <1>7, InsertKeeps
<1>8. CASE CollectComputeOp
  BY <1>8, ComputeKeeps
<1>9. CASE CollectOutputSend
  BY <1>9, OutputSendKeeps
<1>10. CASE CollectTileSend
  BY <1>10, TileSendKeeps
<1>11. CASE PassOver
  BY <1>11, Facts, UnchangedKeeps DEF PassOver
<1>12. CASE EndWalk
  <2>1. phase' \in {"recvs", "run", "done"} /\ pos' = 1
    BY <1>12 DEF EndWalk
  <2> QED
    BY <1>12, <2>1, UnchangedKeeps DEF EndWalk
<1>13. CASE Refuse
  BY <1>13, Facts, UnchangedKeeps DEF Refuse
<1>14. CASE UNCHANGED vars
  BY <1>14 DEF vars, IInv, TypeOK, SlicesApart, BuffersApart, RunOK
<1> QED
  BY <1>1, <1>2, <1>3, <1>4, <1>5, <1>6, <1>7, <1>8, <1>9, <1>10, <1>11,
     <1>12, <1>13, <1>14 DEF Next

\* The inductive invariant holds throughout every collection.
LEMMA Invariance == Spec => []IInv
<1>1. Init => IInv
  BY InitKeeps
<1>2. IInv /\ [Next]_vars => IInv'
  BY NextKeeps
<1> QED
  BY <1>1, <1>2, PTL DEF Spec

\* Whatever well-formed module is collected, for whatever mesh and memory
\* sizes, the tables stay typed and no index kept in one of them dangles.
THEOREM TypeCorrect == Spec => []TypeOK
<1>1. IInv => TypeOK
  BY DEF IInv
<1> QED
  BY <1>1, Invariance, PTL

\* No slice of a tile ever shares a byte of L1 with another, starts unaligned
\* or reaches past the limit of collection.
THEOREM SlicesNeverOverlap == Spec => []SlicesApart
<1>1. IInv => SlicesApart
  BY DEF IInv
<1> QED
  BY <1>1, Invariance, PTL

\* No runtime buffer in L2 ever shares a byte with another or with the packed
\* image of MAGIA v2, and every packed initializer lies in its image.
THEOREM BuffersNeverOverlap == Spec => []BuffersApart
<1>1. IInv => BuffersApart
  BY DEF IInv
<1> QED
  BY <1>1, Invariance, PTL

-----------------------------------------------------------------------------
(* The collector implements the abstract memory map, for every mesh, every   *)
(* memory size and every well-formed module: each of its steps grants at     *)
(* most one region in each memory, apart from all others, and moves none.    *)

(* The abstract step, and the regions of a description *)

L1Of(a, h) ==
  [ i \in {k \in DOMAIN a.slices : a.slices[k].owner = h} |->
      [ start |-> a.slices[i].l1Offset,
        size |-> a.slices[i].slotBytes * a.slices[i].numSlots ] ]

RuntimeOf(a) == {k \in DOMAIN a.l2Globals : IsRuntime(a.l2Globals[k])}

L2Of(a) ==
  [ g \in RuntimeOf(a) \cup (IF HasImageInL2(a) THEN {0} ELSE {})
    |-> IF g = 0
        THEN [start |-> L2Base, size |-> a.weightsSize]
        ELSE [ start |-> a.l2Globals[g].address,
               size |-> a.l2Globals[g].tokenStride * a.l2Globals[g].numTokens ] ]

\* RegionMap!Grant of one space, of which r are the regions before the step and
\* q those after it.
Granted(r, q, lo, hi) ==
  \E id \in DOMAIN q :
    /\ id \notin DOMAIN r
    /\ DOMAIN q = DOMAIN r \cup {id}
    /\ \A old \in DOMAIN r :
         /\ q[old] = r[old]
         /\ \/ r[old].start + r[old].size <= q[id].start
            \/ q[id].start + q[id].size <= r[old].start
    /\ q[id].start % Align = 0
    /\ lo <= q[id].start
    /\ q[id].start + q[id].size <= hi

\* What a step from description a to description b may do to the slices: the
\* old ones stay where they are, and one may be added.
SamePlace(s, t) ==
  /\ t.owner = s.owner /\ t.l1Offset = s.l1Offset
  /\ t.slotBytes = s.slotBytes /\ t.numSlots = s.numSlots

SlicesStay(a, b) ==
  /\ \/ DOMAIN b.slices = DOMAIN a.slices
     \/ DOMAIN b.slices = DOMAIN a.slices \cup {Len(a.slices) + 1}
  /\ \A i \in DOMAIN a.slices : SamePlace(a.slices[i], b.slices[i])

\* The same of the buffers; the packed image stays what it is.
SameImage(a, b) ==
  /\ b.target = a.target /\ b.hasPackedWeights = a.hasPackedWeights
  /\ b.weightsSize = a.weightsSize

BuffersStay(a, b) ==
  /\ SameImage(a, b)
  /\ \/ DOMAIN b.l2Globals = DOMAIN a.l2Globals
     \/ DOMAIN b.l2Globals = DOMAIN a.l2Globals \cup {Len(a.l2Globals) + 1}
  /\ \A g \in DOMAIN a.l2Globals : b.l2Globals[g] = a.l2Globals[g]

\* A step that leaves the slices where they are and adds at most one grants at
\* most one region of L1, to the tile that owns the new slice.
LEMMA SliceGrant ==
  ASSUME NEW a, AppOK(a), NEW b, AppOK(b), L1Apart(b), SlicesStay(a, b),
         NEW h \in Harts
  PROVE  L1Of(b, h) = L1Of(a, h) \/ Granted(L1Of(a, h), L1Of(b, h), 0, L1Limit)
<1> DEFINE r == L1Of(a, h)
           q == L1Of(b, h)
           n == Len(a.slices) + 1
<1>1. /\ a.slices \in Seq(SliceType) /\ b.slices \in Seq(SliceType)
      /\ DOMAIN a.slices = 1..(n - 1) /\ n \in Nat
      /\ b.plans \in [Harts -> PlanType(b)]
  BY DEF AppOK, PlacesOK
<1>2. ASSUME NEW i \in DOMAIN a.slices
      PROVE  SamePlace(a.slices[i], b.slices[i]) /\ i \in DOMAIN b.slices
  BY DEF SlicesStay
<1>3. ASSUME NEW i \in DOMAIN r
      PROVE  i \in DOMAIN q /\ q[i] = r[i]
  BY <1>2 DEF L1Of, SamePlace
<1>4. ASSUME NEW i \in DOMAIN b.slices
      PROVE  /\ b.slices[i].l1Offset \in Nat
             /\ b.slices[i].slotBytes * b.slices[i].numSlots \in Nat
             /\ b.slices[i].owner \in Harts
             /\ b.plans[b.slices[i].owner].nextL1 \in Nat
  <2>1. b.slices[i] \in SliceType
    BY <1>1
  <2>2. b.slices[i].owner \in Harts
    BY <2>1 DEF SliceType
  <2>3. b.plans[b.slices[i].owner] \in PlanType(b)
    BY <1>1, <2>2
  <2> QED
    BY <2>1, <2>2, <2>3, SMTT(30) DEF SliceType, PlanType
<1>5. CASE n \notin DOMAIN q
  <2>1. DOMAIN q = DOMAIN r
    <3>1. ASSUME NEW i \in DOMAIN q PROVE i \in DOMAIN r
      BY <1>2, <1>5 DEF L1Of, SlicesStay, SamePlace
    <3> QED
      BY <1>3, <3>1
  <2>2. q = [i \in DOMAIN q |-> q[i]] /\ r = [i \in DOMAIN r |-> r[i]]
    BY DEF L1Of
  <2> HIDE DEF q, r
  <2> QED
    BY <1>3, <2>1, <2>2 DEF q, r
<1>6. CASE n \in DOMAIN q
  <2>1. /\ n \in DOMAIN b.slices /\ b.slices[n].owner = h
        /\ q[n].start = b.slices[n].l1Offset
        /\ q[n].size = b.slices[n].slotBytes * b.slices[n].numSlots
    BY <1>6 DEF L1Of
  <2>2. n \notin DOMAIN r
    BY <1>1 DEF L1Of
  <2>3. DOMAIN q = DOMAIN r \cup {n}
    <3>1. ASSUME NEW i \in DOMAIN q PROVE i \in DOMAIN r \cup {n}
      BY <1>2 DEF L1Of, SlicesStay, SamePlace
    <3> QED
      BY <1>3, <1>6, <3>1
  <2>4. ASSUME NEW old \in DOMAIN r
        PROVE  q[old] = r[old] /\ r[old].start + r[old].size <= q[n].start
    <3>1. /\ old \in DOMAIN a.slices /\ old \in DOMAIN b.slices
          /\ old \in 1..(n - 1) /\ b.slices[old].owner = h
          /\ r[old].start = b.slices[old].l1Offset
          /\ r[old].size = b.slices[old].slotBytes * b.slices[old].numSlots
      BY <1>1, <1>2 DEF L1Of, SamePlace
    <3>2. End(b.slices[old]) <= b.slices[n].l1Offset
      BY <2>1, <3>1 DEF L1Apart
    <3> QED
      BY <1>3, <2>1, <3>1, <3>2 DEF End
  <2>5. /\ q[n].start % Align = 0 /\ 0 <= q[n].start
        /\ q[n].start + q[n].size <= L1Limit
    <3>1. /\ b.slices[n].l1Offset % Align = 0
          /\ End(b.slices[n]) <= b.plans[h].nextL1
          /\ b.plans[h].nextL1 <= L1Limit
      BY <2>1 DEF L1Apart
    <3>2. /\ q[n].start \in Nat /\ q[n].size \in Nat
          /\ b.plans[h].nextL1 \in Nat
      BY <1>4, <2>1
    <3>3. q[n].start + q[n].size <= b.plans[h].nextL1
      BY <2>1, <3>1 DEF End
    <3> HIDE DEF q, n
    <3> QED
      BY <2>1, <3>1, <3>2, <3>3, MemoryAssumption
  <2> HIDE DEF q, r, n
  <2> QED
    BY <1>6, <2>2, <2>3, <2>4, <2>5 DEF Granted, q, r
<1> QED
  BY <1>5, <1>6

\* The same of the buffers in L2: apart from each other and from the image.
LEMMA BufferGrant ==
  ASSUME NEW a, AppOK(a), NEW b, AppOK(b), L2Apart(b), BuffersStay(a, b)
  PROVE  L2Of(b) = L2Of(a) \/ Granted(L2Of(a), L2Of(b), L2Base, L2End)
<1> DEFINE r == L2Of(a)
           q == L2Of(b)
           n == Len(a.l2Globals) + 1
<1>1. /\ a.l2Globals \in Seq(L2GlobalType) /\ b.l2Globals \in Seq(L2GlobalType)
      /\ DOMAIN a.l2Globals = 1..(n - 1) /\ n \in Nat \ {0}
      /\ a.weightsSize \in Nat /\ b.l2End \in Nat
  <2>1. PlacesOK(a) /\ PlacesOK(b) /\ ScalarsOK(a) /\ ScalarsOK(b)
    BY DEF AppOK
  <2>2. a.weightsSize \in Nat /\ b.l2End \in Nat
    BY <2>1 DEF ScalarsOK
  <2> QED
    BY <2>1, <2>2 DEF PlacesOK
<1>2. ASSUME NEW g \in DOMAIN a.l2Globals
      PROVE  b.l2Globals[g] = a.l2Globals[g] /\ g \in DOMAIN b.l2Globals /\ g # 0
  BY <1>1 DEF BuffersStay
<1>3. /\ HasImageInL2(b) = HasImageInL2(a) /\ b.weightsSize = a.weightsSize
      /\ ImageEnd(b) = ImageEnd(a)
  BY DEF BuffersStay, SameImage, HasImageInL2, ImageEnd
<1>4. ASSUME NEW g \in DOMAIN r
      PROVE  g \in DOMAIN q /\ q[g] = r[g]
  BY <1>2, <1>3 DEF L2Of, RuntimeOf
<1>5. ASSUME NEW g \in DOMAIN b.l2Globals
      PROVE  /\ b.l2Globals[g].address \in Nat
             /\ b.l2Globals[g].tokenStride * b.l2Globals[g].numTokens \in Nat
  <2>1. b.l2Globals[g] \in L2GlobalType
    BY <1>1
  <2> QED
    BY <2>1 DEF L2GlobalType
<1>6. CASE n \notin DOMAIN q
  <2>1. ASSUME NEW g \in DOMAIN q PROVE g \in DOMAIN r
    BY <1>2, <1>3, <1>6 DEF L2Of, RuntimeOf, BuffersStay
  <2>2. q = [g \in DOMAIN q |-> q[g]] /\ r = [g \in DOMAIN r |-> r[g]]
    BY DEF L2Of
  <2>3. DOMAIN q = DOMAIN r
    BY <1>4, <2>1
  <2> HIDE DEF q, r
  <2> QED
    BY <1>4, <2>2, <2>3 DEF q, r
<1>7. CASE n \in DOMAIN q
  <2>1. /\ n \in DOMAIN b.l2Globals /\ IsRuntime(b.l2Globals[n])
        /\ q[n].start = b.l2Globals[n].address
        /\ q[n].size = b.l2Globals[n].tokenStride * b.l2Globals[n].numTokens
    BY <1>1, <1>7 DEF L2Of, RuntimeOf
  <2>2. n \notin DOMAIN r
    BY <1>1 DEF L2Of, RuntimeOf
  <2>3. DOMAIN q = DOMAIN r \cup {n}
    <3>1. ASSUME NEW g \in DOMAIN q PROVE g \in DOMAIN r \cup {n}
      BY <1>2, <1>3 DEF L2Of, RuntimeOf, BuffersStay
    <3> QED
      BY <1>4, <1>7, <3>1
  <2>4. /\ b.l2Globals[n].address % Align = 0
        /\ ImageEnd(b) <= b.l2Globals[n].address
        /\ BufferEnd(b.l2Globals[n]) <= b.l2End /\ b.l2End <= L2End
        /\ \A other \in 1..(n - 1) :
             IsRuntime(b.l2Globals[other]) =>
               BufferEnd(b.l2Globals[other]) <= b.l2Globals[n].address
    BY <2>1 DEF L2Apart, BufferPlaced
  <2>5. ASSUME NEW old \in DOMAIN r
        PROVE  q[old] = r[old] /\ r[old].start + r[old].size <= q[n].start
    <3>1. CASE old = 0
      <4>1. HasImageInL2(a) /\ r[old] = [start |-> L2Base, size |-> a.weightsSize]
        BY <1>1, <3>1 DEF L2Of, RuntimeOf
      <4>2. ImageEnd(b) = L2Base + a.weightsSize
        BY <1>3, <4>1 DEF ImageEnd
      <4> QED
        BY <1>4, <2>1, <2>4, <4>1, <4>2
    <3>2. CASE old # 0
      <4>1. /\ old \in 1..(n - 1) /\ IsRuntime(b.l2Globals[old])
            /\ r[old].start = b.l2Globals[old].address
            /\ r[old].size = b.l2Globals[old].tokenStride
                               * b.l2Globals[old].numTokens
        BY <1>1, <1>2, <3>2 DEF L2Of, RuntimeOf
      <4>2. BufferEnd(b.l2Globals[old]) <= b.l2Globals[n].address
        BY <2>4, <4>1
      <4> QED
        BY <1>4, <2>1, <4>1, <4>2 DEF BufferEnd
    <3> QED
      BY <3>1, <3>2
  <2>6. /\ q[n].start % Align = 0 /\ L2Base <= q[n].start
        /\ q[n].start + q[n].size <= L2End
    <3>1. q[n].start \in Nat /\ q[n].size \in Nat
      BY <1>5, <2>1
    <3>2. q[n].start + q[n].size <= b.l2End
      BY <2>1, <2>4 DEF BufferEnd
    <3>3. L2Base <= ImageEnd(b) /\ ImageEnd(b) \in Nat
      BY <1>1, <1>3, MemoryAssumption DEF ImageEnd
    <3> HIDE DEF q, n
    <3> QED
      BY <1>1, <2>1, <2>4, <3>1, <3>2, <3>3, MemoryAssumption, SMTT(30)
  <2> HIDE DEF q, r, n
  <2> QED
    BY <1>7, <2>2, <2>3, <2>5, <2>6 DEF Granted, q, r
<1> QED
  BY <1>6, <1>7

-----------------------------------------------------------------------------
(* What each helper of the handlers does to the regions *)

\* A row added at the end leaves the others where they are.
LEMMA AppendKeeps ==
  ASSUME NEW S, NEW s \in Seq(S), NEW e
  PROVE  /\ DOMAIN Append(s, e) = DOMAIN s \cup {Len(s) + 1}
         /\ \A i \in DOMAIN s : Append(s, e)[i] = s[i]
<1>1. s \in Seq(S \cup {e}) /\ e \in S \cup {e}
  BY SeqGrows
<1> QED
  BY <1>1, AppendIs

\* Helpers that add a row, a subslice, an id or a slot place nothing.
SameRegions(a, b) ==
  /\ DOMAIN b = AppFields /\ SameImage(a, b)
  /\ b.slices = a.slices /\ b.l2Globals = a.l2Globals

\* These are such helpers.
LEMMA RowsPlaceNothing ==
  ASSUME NEW a, DOMAIN a = AppFields, NEW x
  PROVE  /\ SameRegions(a, AddSubslice(a, x))
         /\ \A h : SameRegions(a, AddL2Write(a, h, x))
         /\ SameRegions(a, AddRecv(a, x))
         /\ SameRegions(a, AddSend(a, x))
         /\ SameRegions(a, AddOp(a, x))
         /\ SameRegions(a, [a EXCEPT !.transitionIds = x])
         /\ SameRegions(a, [a EXCEPT !.initSlots = x])
BY DEF SameRegions, SameImage, AppFields, AddSubslice, AddL2Write, AddRecv,
       AddSend, AddOp

\* Helpers that place at most one slice, and no buffer.
OnlySlices(a, b) ==
  /\ DOMAIN b = AppFields /\ SameImage(a, b)
  /\ b.l2Globals = a.l2Globals /\ SlicesStay(a, b)

\* A change of no region is one of slices at most.
LEMMA SameIsOnlySlices ==
  ASSUME NEW a, NEW b, SameRegions(a, b)
  PROVE  OnlySlices(a, b)
BY DEF SameRegions, OnlySlices, SlicesStay, SamePlace

\* Followed by one of no region, it still is.
LEMMA OnlySlicesThenSame ==
  ASSUME NEW a, NEW b, NEW c, OnlySlices(a, b), SameRegions(b, c)
  PROVE  OnlySlices(a, c)
BY DEF SameRegions, OnlySlices, SlicesStay, SamePlace, SameImage

\* allocateSliceInTileL1 adds a slice behind the others.
LEMMA AllocationAddsSlice ==
  ASSUME AppOK(app), NEW s
  PROVE  OnlySlices(app, AllocateSliceInTileL1(app, s))
<1> DEFINE b == AllocateSliceInTileL1(app, s)
           new == PlacedSlice(app, s)
<1>1. DOMAIN app = AppFields /\ app.slices \in Seq(SliceType)
  BY DEF AppOK, PlacesOK
<1>2. /\ DOMAIN b = AppFields /\ SameImage(app, b)
      /\ b.l2Globals = app.l2Globals /\ b.slices = Append(app.slices, new)
  BY <1>1 DEF AllocateSliceInTileL1, SameImage, AppFields
<1> HIDE DEF b, new
<1>3. SlicesStay(app, b)
  BY <1>1, <1>2, AppendKeeps DEF SlicesStay, SamePlace
<1> QED
  BY <1>2, <1>3 DEF OnlySlices, b

\* getOrCreateProducedSlice adds a slice, or moves the place of a known one in
\* its full tensor, which is no place in memory.
LEMMA ProductionAddsSlice ==
  ASSUME RunFits(run, app), AppOK(app), NEW key, NEW s
  PROVE  OnlySlices(app, ProduceSlice(app, key, s))
<1>1. CASE key \in DOMAIN run.produced
  <2> DEFINE i == run.produced[key]
             b == ProduceSlice(app, key, s)
  <2>1. DOMAIN app = AppFields /\ app.slices \in Seq(SliceType)
    BY DEF AppOK, PlacesOK
  <2>2. /\ DOMAIN b = AppFields /\ SameImage(app, b)
        /\ b.l2Globals = app.l2Globals
        /\ b.slices = [app.slices EXCEPT ![i].fullOffset = s.fullOffset]
    BY <1>1, <2>1 DEF ProduceSlice, SameImage, AppFields
  <2> HIDE DEF b, i
  <2>3. DOMAIN b.slices = DOMAIN app.slices
    BY <2>2
  <2>4. ASSUME NEW j \in DOMAIN app.slices
        PROVE  SamePlace(app.slices[j], b.slices[j])
    <3>1. app.slices[j] \in SliceType
      BY <2>1
    <3> QED
      BY <2>2, <3>1 DEF SamePlace, SliceType
  <2> QED
    BY <2>2, <2>3, <2>4 DEF OnlySlices, SlicesStay, b
<1>2. CASE key \notin DOMAIN run.produced
  BY <1>2, AllocationAddsSlice DEF ProduceSlice
<1> QED
  BY <1>1, <1>2

\* What a handler does: it places at most one slice and at most one buffer.
Stays(a, b) == SlicesStay(a, b) /\ BuffersStay(a, b)

\* Those are a part of what a handler does.
LEMMA OnlySlicesStays ==
  ASSUME NEW a, NEW b, OnlySlices(a, b)
  PROVE  Stays(a, b)
BY DEF OnlySlices, Stays, BuffersStay

\* getOrCreateL2Global, after at most one slice was placed, adds a buffer behind
\* the others or none; the rows that are added then place nothing.
LEMMA GlobalAddsBuffer ==
  ASSUME AppOK(app), NEW a, OnlySlices(app, a),
         NEW kind, NEW source, NEW numTokens,
         NEW b, SameRegions(GetOrCreateL2Global(a, kind, source, numTokens), b)
  PROVE  Stays(app, b)
<1> DEFINE c == GetOrCreateL2Global(a, kind, source, numTokens)
           new == NewL2Global(a, kind, source, numTokens)
<1>1. /\ DOMAIN a = AppFields /\ a.l2Globals = app.l2Globals
      /\ SlicesStay(app, a) /\ SameImage(app, a)
      /\ app.l2Globals \in Seq(L2GlobalType)
  BY DEF OnlySlices, AppOK, PlacesOK
<1>2. /\ SameImage(a, c) /\ c.slices = a.slices
      /\ \/ c.l2Globals = a.l2Globals
         \/ c.l2Globals = Append(a.l2Globals, new)
  BY <1>1 DEF GetOrCreateL2Global, SameImage, AppFields
<1> HIDE DEF c, new
<1>3. /\ SameImage(app, b) /\ b.slices = a.slices
      /\ \/ b.l2Globals = app.l2Globals
         \/ b.l2Globals = Append(app.l2Globals, new)
  BY <1>1, <1>2 DEF SameRegions, SameImage, c
<1>4. SlicesStay(app, b)
  BY <1>1, <1>3 DEF SlicesStay
<1>5. BuffersStay(app, b)
  BY <1>1, <1>3, AppendKeeps DEF BuffersStay
<1> QED
  BY <1>4, <1>5 DEF Stays

\* addL2ReadForSlice after at most one slice was placed.
LEMMA ReadStays ==
  ASSUME AppOK(app), NEW a, OnlySlices(app, a), NEW i,
         NEW kind, NEW source, NEW numTokens
  PROVE  Stays(app, AddL2ReadForSlice(a, i, kind, source, numTokens))
<1> DEFINE c == GetOrCreateL2Global(a, kind, source, numTokens)
           b == AddSubslice(c, WholeSubslice(a, i))
<1>1. DOMAIN a = AppFields
  BY DEF OnlySlices
<1>2. DOMAIN c = AppFields
  BY <1>1 DEF GetOrCreateL2Global
<1>3. PICK read : AddL2ReadForSlice(a, i, kind, source, numTokens)
                    = AddL2Read(b, a.slices[i].owner, kind = "Initializer", read)
  BY DEF AddL2ReadForSlice
<1> HIDE DEF c
<1>4. SameRegions(c, b)
  BY <1>2, RowsPlaceNothing
<1>5. DOMAIN b = AppFields
  BY <1>4 DEF SameRegions
<1> HIDE DEF b
<1>6. SameRegions(b, AddL2ReadForSlice(a, i, kind, source, numTokens))
  BY <1>3, <1>5 DEF SameRegions, SameImage, AppFields, AddL2Read
<1>7. SameRegions(c, AddL2ReadForSlice(a, i, kind, source, numTokens))
  BY <1>4, <1>6 DEF SameRegions, SameImage
<1> QED
  BY <1>7, GlobalAddsBuffer DEF c

-----------------------------------------------------------------------------
(* What each handler does to them *)

\* collectInitializerStore places a slice and the buffer it is read from.
LEMMA StoreStays ==
  ASSUME IInv, CollectInitializerStore
  PROVE  Stays(app, app')
<1> DEFINE o == prog.init[pos]
           source == L2Sources(prog.init)[o.channel]
           a == AllocateSliceInTileL1(app, StoreSlice(o, source))
           b == [a EXCEPT !.initSlots =
                            Put(@, <<o.tile, o.slot>>, Len(a.slices))]
<1>1. AppOK(app) /\ app' = AddL2ReadForSlice(b, Len(a.slices), "Initializer", source, 1)
  BY Facts DEF CollectInitializerStore
<1>2. OnlySlices(app, a)
  BY <1>1, AllocationAddsSlice
<1> HIDE DEF a
<1>3. SameRegions(a, b)
  BY <1>2, RowsPlaceNothing DEF OnlySlices
<1> HIDE DEF b
<1> QED
  BY <1>1, <1>2, <1>3, OnlySlicesThenSame, ReadStays

\* collectInputRecv does the same.
LEMMA InputStays ==
  ASSUME IInv, CollectInputRecv
  PROVE  Stays(app, app')
<1> DEFINE o == prog.run[pos]
           source == L2Sources(prog.run)[o.channel]
           a == AllocateSliceInTileL1(app, InputSlice(o, source))
           b == AddSubslice(a, WholeSubslice(a, Len(a.slices)))
<1>1. AppOK(app) /\ app' = AddL2ReadForSlice(b, Len(a.slices), "Input", source,
                                             app.numTokens)
  BY Facts DEF CollectInputRecv
<1>2. OnlySlices(app, a)
  BY <1>1, AllocationAddsSlice
<1> HIDE DEF a
<1>3. SameRegions(a, b)
  BY <1>2, RowsPlaceNothing DEF OnlySlices
<1> HIDE DEF b
<1> QED
  BY <1>1, <1>2, <1>3, OnlySlicesThenSame, ReadStays

\* collectTileRecv places the slice of an aggregate it has not met.
LEMMA TileRecvStays ==
  ASSUME IInv, CollectTileRecv
  PROVE  Stays(app, app')
<1> DEFINE o == prog.run[pos]
           known == AggregateKey(o) \in DOMAIN run.aggregates
           a == IF known THEN app
                ELSE AllocateSliceInTileL1(app, AggregateSlice(o))
           s == IF known THEN run.aggregates[AggregateKey(o)]
                ELSE Len(a.slices)
           b == AddSubslice(a, SubsliceFromAttr(a, s, o.sub))
           c == [b EXCEPT !.transitionIds = WithId(@, o.channel)]
<1>0. AppOK(app)
  BY Facts
<1>1. PICK recv : app' = AddRecv(c, recv)
  BY DEF CollectTileRecv
<1>2. OnlySlices(app, a)
  <2>1. DOMAIN app = AppFields
    BY <1>0 DEF AppOK
  <2> QED
    BY <1>0, <2>1, AllocationAddsSlice, SameIsOnlySlices DEF SameRegions, SameImage
<1> HIDE DEF a, s
<1>3. SameRegions(a, b)
  BY <1>2, RowsPlaceNothing DEF OnlySlices
<1> HIDE DEF b
<1>4. SameRegions(b, c)
  BY <1>3, RowsPlaceNothing DEF SameRegions
<1> HIDE DEF c
<1>5. SameRegions(c, AddRecv(c, recv))
  BY <1>4, RowsPlaceNothing DEF SameRegions
<1> QED
  BY <1>1, <1>2, <1>3, <1>4, <1>5, OnlySlicesThenSame, OnlySlicesStays

\* collectComputeOp places the slice of its result.
LEMMA ComputeStays ==
  ASSUME IInv, CollectComputeOp
  PROVE  Stays(app, app')
<1> DEFINE o == prog.run[pos]
           a == ProduceSlice(app, OpKey(o), OpSlice(o))
           b == AddSubslice(a, WholeSubslice(a, ProducedIndex(app, OpKey(o))))
<1>0. AppOK(app) /\ RunFits(run, app)
  BY Facts
<1>1. PICK op : app' = AddOp(b, op)
  BY DEF CollectComputeOp
<1>2. OnlySlices(app, a)
  BY <1>0, ProductionAddsSlice
<1> HIDE DEF a
<1>3. SameRegions(a, b)
  BY <1>2, RowsPlaceNothing DEF OnlySlices
<1> HIDE DEF b
<1>4. SameRegions(b, AddOp(b, op))
  <2>1. DOMAIN b = AppFields
    BY <1>3 DEF SameRegions
  <2> QED
    BY ONLY <2>1, RowsPlaceNothing
<1> QED
  BY <1>1, <1>2, <1>3, <1>4, OnlySlicesThenSame, OnlySlicesStays

\* The source of a send gets a slice if it has none.
LEMMA SourceStays ==
  ASSUME IInv, NEW o
  PROVE  OnlySlices(app, WithSource(o))
<1> DEFINE b == IF IsPlaced(o) THEN app
                ELSE ProduceSlice(app, SendKey(o), SendSlice(o))
<1>1. AppOK(app) /\ RunFits(run, app) /\ DOMAIN app = AppFields
  BY Facts DEF AppOK
<1>2. OnlySlices(app, b)
  BY <1>1, ProductionAddsSlice, SameIsOnlySlices DEF SameRegions, SameImage
<1>3. PICK x : WithSource(o) = AddSubslice(b, x)
  BY DEF WithSource
<1> HIDE DEF b
<1>4. SameRegions(b, AddSubslice(b, x))
  BY <1>2, RowsPlaceNothing DEF OnlySlices
<1> QED
  BY <1>2, <1>3, <1>4, OnlySlicesThenSame

\* A send to L2 also gets the buffer of its output.
LEMMA OutputSendStays ==
  ASSUME IInv, CollectOutputSend
  PROVE  Stays(app, app')
<1> DEFINE o == prog.run[pos]
           c == WithSource(o)
           a == GetOrCreateL2Global(c, "Output", OutputSource(o), app.numTokens)
<1>0. AppOK(app)
  BY Facts
<1>1. PICK write : app' = AddL2Write(a, o.src, write)
  BY DEF CollectOutputSend
<1>2. OnlySlices(app, c)
  BY SourceStays
<1>3. DOMAIN a = AppFields
  BY <1>2 DEF OnlySlices, GetOrCreateL2Global
<1> HIDE DEF c
<1>4. SameRegions(a, AddL2Write(a, o.src, write))
  <2> HIDE DEF a
  <2> QED
    BY <1>3, RowsPlaceNothing
<1> QED
  BY <1>0, <1>1, <1>2, <1>4, GlobalAddsBuffer

\* A send to a tile gets a number for its transition.
LEMMA TileSendStays ==
  ASSUME IInv, CollectTileSend
  PROVE  Stays(app, app')
<1> DEFINE o == prog.run[pos]
           a == WithSource(o)
           b == [a EXCEPT !.transitionIds = WithId(@, o.channel)]
<1>1. PICK send : app' = AddSend(b, send)
  BY DEF CollectTileSend
<1>2. OnlySlices(app, a)
  BY SourceStays
<1> HIDE DEF a
<1>3. SameRegions(a, b)
  BY <1>2, RowsPlaceNothing DEF OnlySlices
<1> HIDE DEF b
<1>4. SameRegions(b, AddSend(b, send))
  BY <1>3, RowsPlaceNothing DEF SameRegions
<1> QED
  BY <1>1, <1>2, <1>3, <1>4, OnlySlicesThenSame, OnlySlicesStays

\* Every step of a walk: a load, an extraction and an assembly only add a
\* subslice, and the rest leaves the description as it is.
LEMMA WalkStays ==
  ASSUME IInv, [Next]_vars, ~CollectModuleAttrs
  PROVE  Stays(app, app')
<1>1. DOMAIN app = AppFields
  BY Facts DEF AppOK
<1>2. CASE CollectLoad \/ CollectExtractSliceAlias \/ CollectInsertSliceAlias
  <2>1. app' = app \/ \E x : app' = AddSubslice(app, x)
    BY <1>2 DEF CollectLoad, CollectExtractSliceAlias, CollectInsertSliceAlias
  <2>2. SameRegions(app, app')
    BY <1>1, <2>1, RowsPlaceNothing DEF SameRegions, SameImage
  <2> QED
    BY <2>2, SameIsOnlySlices, OnlySlicesStays
<1>3. CASE PassOver \/ EndWalk \/ Refuse \/ UNCHANGED vars
  <2>1. app' = app
    BY <1>3 DEF PassOver, EndWalk, Refuse, vars
  <2> QED
    BY <1>1, <2>1, SameIsOnlySlices, OnlySlicesStays DEF SameRegions, SameImage
<1> QED
  BY <1>2, <1>3, StoreStays, InputStays, TileRecvStays, ComputeStays,
     OutputSendStays, TileSendStays
  DEF Next

\* The attributes place nothing but the packed image, while there is no buffer.
LEMMA AttrsPlaceImage ==
  ASSUME IInv, CollectModuleAttrs, L2Apart(app')
  PROVE  /\ \A h \in Harts : L1Of(app', h) = L1Of(app, h)
         /\ \/ L2Of(app') = L2Of(app)
            \/ Granted(L2Of(app), L2Of(app'), L2Base, L2End)
<1> DEFINE r == L2Of(app)
           q == L2Of(app')
<1>1. DOMAIN app = AppFields /\ app = NewApplication(prog.options)
  BY Facts DEF IInv, CollectModuleAttrs, AppOK
<1>2. /\ app.slices = <<>> /\ app.l2Globals = <<>> /\ ~HasImageInL2(app)
  BY <1>1 DEF NewApplication, HasImageInL2
<1>3. app'.slices = app.slices /\ app'.l2Globals = app.l2Globals
  BY <1>1 DEF CollectModuleAttrs, WithBundle, AppFields
<1>4. \A h \in Harts : L1Of(app', h) = L1Of(app, h)
  BY <1>3 DEF L1Of
<1>5. DOMAIN <<>> = {}
  OBVIOUS
<1>6. RuntimeOf(app) = {} /\ RuntimeOf(app') = {}
  BY <1>2, <1>3, <1>5 DEF RuntimeOf
<1>7. DOMAIN r = {} /\ DOMAIN q = IF HasImageInL2(app') THEN {0} ELSE {}
  BY <1>2, <1>6 DEF L2Of
<1>8. CASE ~HasImageInL2(app')
  <2>1. q = [g \in DOMAIN q |-> q[g]] /\ r = [g \in DOMAIN r |-> r[g]]
    BY DEF L2Of
  <2> HIDE DEF q, r
  <2>2. q = r
    BY <1>7, <1>8, <2>1
  <2> QED
    BY <1>4, <2>2 DEF q, r
<1>9. CASE HasImageInL2(app')
  <2>1. q[0] = [start |-> L2Base, size |-> app'.weightsSize]
    BY <1>7, <1>9 DEF L2Of
  <2>2. L2Base + app'.weightsSize <= L2End
    BY <1>9 DEF L2Apart, ImageEnd
  <2>3. L2Base \in Nat /\ L2Base % Align = 0
    BY MemoryAssumption
  <2> HIDE DEF q, r
  <2> QED
    BY <1>4, <1>7, <1>9, <2>1, <2>2, <2>3 DEF Granted, q, r
<1> QED
  BY <1>8, <1>9

-----------------------------------------------------------------------------
(* The refinement *)

\* The regions the collection is mapped to (ApplicationProperties, Memory).
Spaces == Harts \cup {L2}
Regions == [s \in Spaces |-> IF s = L2 THEN L2Regions ELSE L1Regions(s)]

\* The regions of a tile and of L2.
LEMMA RegionsOfApp ==
  /\ L2 \in Spaces /\ Harts \subseteq Spaces
  /\ Regions[L2] = L2Of(app) /\ Regions'[L2] = L2Of(app')
  /\ \A h \in Harts : Regions[h] = L1Of(app, h) /\ Regions'[h] = L1Of(app', h)
<1>1. L2 \notin Harts
  BY HartsAssumption DEF L2
<1>2. L2Regions = L2Of(app) /\ L2Regions' = L2Of(app')
  BY DEF L2Regions, L2Of, RuntimeOf
<1>3. \A h \in Harts : L1Regions(h) = L1Of(app, h) /\ L1Regions(h)' = L1Of(app', h)
  BY DEF L1Regions, L1Of
<1> QED
  BY <1>1, <1>2, <1>3 DEF Spaces, Regions

\* Nothing is placed at the start.
LEMMA InitRefines ==
  ASSUME Init
  PROVE  Memory!Init
<1>1. /\ app.slices = <<>> /\ app.l2Globals = <<>> /\ ~HasImageInL2(app)
  BY DEF Init, NewApplication, HasImageInL2
<1>2. DOMAIN <<>> = {}
  OBVIOUS
<1>3. DOMAIN L2Of(app) = {} /\ \A h \in Harts : DOMAIN L1Of(app, h) = {}
  BY <1>1, <1>2 DEF L2Of, L1Of, RuntimeOf
<1>4. \A s \in Spaces : DOMAIN Regions[s] = {}
  BY <1>3, RegionsOfApp DEF Spaces
<1> QED
  BY <1>4 DEF Memory!Init, Regions, Spaces

\* A step of the collection leaves each memory as it is or is granted one
\* region in it.
LEMMA StepGrants ==
  ASSUME IInv, IInv', [Next]_vars
  PROVE  /\ \/ L2Of(app') = L2Of(app)
            \/ Granted(L2Of(app), L2Of(app'), L2Base, L2End)
         /\ \A h \in Harts :
              \/ L1Of(app', h) = L1Of(app, h)
              \/ Granted(L1Of(app, h), L1Of(app', h), 0, L1Limit)
<1>1. AppOK(app) /\ AppOK(app') /\ L1Apart(app') /\ L2Apart(app')
  BY DEF IInv, TypeOK, SlicesApart, BuffersApart
<1>2. CASE CollectModuleAttrs
  BY <1>1, <1>2, AttrsPlaceImage
<1>3. CASE ~CollectModuleAttrs
  <2>1. SlicesStay(app, app') /\ BuffersStay(app, app')
    BY <1>3, WalkStays DEF Stays
  <2> QED
    BY <1>1, <2>1, SliceGrant, BufferGrant
<1> QED
  BY <1>2, <1>3

\* Every step of the collector is one of the memory map, or none.
LEMMA StepRefines ==
  ASSUME IInv, IInv', [Next]_vars
  PROVE  [Memory!Next]_Regions
<1>1. ASSUME NEW s \in Spaces
      PROVE  Memory!Grant(s) \/ Regions'[s] = Regions[s]
  <2>1. CASE s = L2
    <3>1. CASE L2Of(app') = L2Of(app)
      BY <2>1, <3>1, RegionsOfApp
    <3>2. CASE Granted(L2Of(app), L2Of(app'), L2Base, L2End)
      <4>1. Granted(Regions[s], Regions'[s], L2Base, L2End)
        BY <2>1, <3>2, RegionsOfApp
      <4> QED
        BY <2>1, <4>1
        DEF Granted, Memory!Grant, Memory!Disjoint, Memory!Stop, Regions, Spaces
    <3> QED
      BY <3>1, <3>2, StepGrants
  <2>2. CASE s \in Harts
    <3>1. CASE L1Of(app', s) = L1Of(app, s)
      BY <2>2, <3>1, RegionsOfApp
    <3>2. CASE Granted(L1Of(app, s), L1Of(app', s), 0, L1Limit)
      <4>1. Granted(Regions[s], Regions'[s], 0, L1Limit) /\ s # L2
        BY <2>2, <3>2, RegionsOfApp, HartsAssumption DEF L2
      <4> QED
        BY <4>1
        DEF Granted, Memory!Grant, Memory!Disjoint, Memory!Stop, Regions, Spaces
    <3> QED
      BY <2>2, <3>1, <3>2, StepGrants
  <2> QED
    BY <2>1, <2>2 DEF Spaces
<1> QED
  BY <1>1 DEF Memory!Next, Regions, Spaces

\* The collector implements the abstract memory map: whatever well-formed module
\* is collected, for whatever mesh and memories, its allocators
\* (allocateSliceInTileL1, getOrCreateL2Global, collectBundleMetadata), with all
\* handlers that call them, only ever add regions that are aligned, inside their
\* memory and apart from all others, and never move or take back one.
THEOREM CollectorImplementsRegionMap == Spec => MemoryRefinement
<1>1. Init => Memory!Init
  BY InitRefines
<1>2. IInv /\ IInv' /\ [Next]_vars => [Memory!Next]_Regions
  BY StepRefines
<1> QED
  BY <1>1, <1>2, Invariance, PTL DEF Spec, MemoryRefinement, Memory!Spec, Regions, Spaces

-----------------------------------------------------------------------------
(* What every handler keeps *)

\* A slice never moves, only its place in the full tensor may change.
SameRoom(s, t) ==
  /\ t.kind = s.kind /\ t.owner = s.owner /\ t.shape = s.shape
  /\ t.elemBytes = s.elemBytes /\ t.sliceId = s.sliceId
  /\ t.l1Offset = s.l1Offset /\ t.slotBytes = s.slotBytes

SlicesGrow(a, b) ==
  /\ DOMAIN a.slices \subseteq DOMAIN b.slices
  /\ \A i \in DOMAIN a.slices : SameRoom(a.slices[i], b.slices[i])

SubslicesGrow(a, b) ==
  /\ DOMAIN a.subslices \subseteq DOMAIN b.subslices
  /\ \A i \in DOMAIN a.subslices : b.subslices[i] = a.subslices[i]

IdsGrow(a, b) ==
  \A c \in DOMAIN a.transitionIds :
    c \in DOMAIN b.transitionIds /\ b.transitionIds[c] = a.transitionIds[c]

Grows(a, b) == SlicesGrow(a, b) /\ SubslicesGrow(a, b) /\ IdsGrow(a, b)

SameRecvs(a, b) ==
  /\ b.recvs = a.recvs
  /\ \A h \in Harts : b.plans[h].recvs = a.plans[h].recvs

SameTransfers(a, b) == SameRecvs(a, b) /\ b.sends = a.sends

\* A handler that has nothing to do with transfers or stores.
Quiet(a, b) == Grows(a, b) /\ SameTransfers(a, b) /\ b.initSlots = a.initSlots

\* Handlers are chains of helpers.
LEMMA GrowsTransitive ==
  ASSUME NEW a, NEW b, NEW c, Grows(a, b), Grows(b, c)
  PROVE  Grows(a, c)
<1>1. SlicesGrow(a, c)
  BY DEF Grows, SlicesGrow, SameRoom
<1>2. SubslicesGrow(a, c)
  BY DEF Grows, SubslicesGrow
<1>3. IdsGrow(a, c)
  BY DEF Grows, IdsGrow
<1> QED
  BY <1>1, <1>2, <1>3 DEF Grows

\* The same of quiet ones.
LEMMA QuietTransitive ==
  ASSUME NEW a, NEW b, NEW c, Quiet(a, b), Quiet(b, c)
  PROVE  Quiet(a, c)
<1>1. Grows(a, c)
  BY GrowsTransitive DEF Quiet
<1> QED
  BY <1>1 DEF Quiet, SameTransfers, SameRecvs

\* What has nothing new is quiet.
LEMMA QuietWhenSame ==
  ASSUME NEW a, NEW b, SlicesGrow(a, b), SubslicesGrow(a, b),
         b.transitionIds = a.transitionIds, b.initSlots = a.initSlots,
         SameTransfers(a, b)
  PROVE  Quiet(a, b)
<1>1. IdsGrow(a, b)
  BY DEF IdsGrow
<1> QED
  BY <1>1 DEF Quiet, Grows

\* Tables that are the same have grown.
LEMMA SameGrow ==
  ASSUME NEW a, NEW b
  PROVE  /\ b.slices = a.slices => SlicesGrow(a, b)
         /\ b.subslices = a.subslices => SubslicesGrow(a, b)
         /\ b.transitionIds = a.transitionIds => IdsGrow(a, b)
BY DEF SlicesGrow, SameRoom, SubslicesGrow, IdsGrow

\* Doing nothing is quiet.
LEMMA NothingIsQuiet ==
  ASSUME NEW a
  PROVE  Quiet(a, a)
BY SameGrow, QuietWhenSame DEF SameTransfers, SameRecvs

\* A list that has got another element at its end.
LEMMA AppendedList ==
  ASSUME NEW S, NEW s \in Seq(S), NEW e
  PROVE  /\ DOMAIN Append(s, e) = DOMAIN s \cup {Len(s) + 1}
         /\ Len(Append(s, e)) = Len(s) + 1
         /\ Append(s, e)[Len(s) + 1] = e
         /\ \A i \in DOMAIN s : Append(s, e)[i] = s[i]
         /\ DOMAIN s = 1..Len(s) /\ Len(s) \in Nat
         /\ Len(s) + 1 \notin DOMAIN s
OBVIOUS

\* allocateSliceInTileL1 adds one slice, of the shape it is asked for.
LEMMA AllocateIsQuiet ==
  ASSUME NEW a, AppOK(a), NEW s, UnplacedOK(s)
  PROVE  LET b == AllocateSliceInTileL1(a, s)
         IN /\ Quiet(a, b) /\ b.subslices = a.subslices
            /\ Len(b.slices) = Len(a.slices) + 1
            /\ DOMAIN b.slices = DOMAIN a.slices \cup {Len(b.slices)}
            /\ b.slices[Len(b.slices)] = PlacedSlice(a, s)
<1> DEFINE b == AllocateSliceInTileL1(a, s)
<1>1. /\ DOMAIN a = AppFields /\ a.slices \in Seq(SliceType)
      /\ a.plans \in [Harts -> PlanType(a)] /\ s.owner \in Harts
  BY DEF AppOK, PlacesOK, UnplacedOK
<1>2. /\ SameBut({"slices", "globalIds", "nextSliceId", "plans"}, a, b)
      /\ b.slices = Append(a.slices, PlacedSlice(a, s))
      /\ b.plans = [a.plans EXCEPT ![s.owner] =
                      PlanWithSlice(@, L1Stop(a, s), Len(a.slices) + 1)]
  BY <1>1 DEF SameBut, AllocateSliceInTileL1, AppFields
<1> HIDE DEF b
<1>3. /\ b.subslices = a.subslices /\ b.transitionIds = a.transitionIds
      /\ b.recvs = a.recvs /\ b.sends = a.sends /\ b.initSlots = a.initSlots
  BY <1>2 DEF SameBut, AppFields
<1>4. ASSUME NEW h \in Harts PROVE b.plans[h].recvs = a.plans[h].recvs
  <2>1. a.plans[h] \in PlanType(a)
    BY <1>1
  <2>2. PlanWithSlice(a.plans[h], L1Stop(a, s), Len(a.slices) + 1).recvs
          = a.plans[h].recvs
    BY <2>1 DEF PlanWithSlice, PlanType
  <2>3. b.plans[h] = IF h = s.owner
                     THEN PlanWithSlice(a.plans[h], L1Stop(a, s), Len(a.slices) + 1)
                     ELSE a.plans[h]
    BY ONLY <1>1, <1>2, h \in Harts
  <2> QED
    BY ONLY <2>2, <2>3
<1>5. SlicesGrow(a, b)
  BY <1>1, <1>2, AppendedList DEF SlicesGrow, SameRoom
<1>6. Quiet(a, b)
  BY <1>3, <1>4, <1>5, SameGrow, QuietWhenSame DEF SameTransfers, SameRecvs
<1> QED
  BY <1>1, <1>2, <1>3, <1>6, AppendedList DEF b

\* Adding a subslice.
LEMMA SubsliceIsQuiet ==
  ASSUME NEW a, AppOK(a), NEW x
  PROVE  LET b == AddSubslice(a, x)
         IN /\ Quiet(a, b) /\ b.slices = a.slices
            /\ Len(b.subslices) = Len(a.subslices) + 1
            /\ Len(b.subslices) \in DOMAIN b.subslices
            /\ Len(b.subslices) \notin DOMAIN a.subslices
            /\ b.subslices[Len(b.subslices)] = x
<1> DEFINE b == AddSubslice(a, x)
<1>1. DOMAIN a = AppFields /\ a.subslices \in Seq(SubsliceType(a))
  BY DEF AppOK, PlacesOK
<1>2. SameBut({"subslices"}, a, b) /\ b.subslices = Append(a.subslices, x)
  BY <1>1 DEF SameBut, AddSubslice, AppFields
<1> HIDE DEF b
<1>3. /\ b.slices = a.slices /\ b.transitionIds = a.transitionIds
      /\ b.recvs = a.recvs /\ b.sends = a.sends /\ b.initSlots = a.initSlots
      /\ b.plans = a.plans
  BY <1>2 DEF SameBut, AppFields
<1>4. SubslicesGrow(a, b)
  BY <1>1, <1>2, AppendedList DEF SubslicesGrow
<1>5. Quiet(a, b)
  BY <1>3, <1>4, SameGrow, QuietWhenSame DEF SameTransfers, SameRecvs
<1> QED
  BY <1>1, <1>2, <1>3, <1>5, AppendedList DEF b

\* A slice that learns a new offset in the full tensor.
LEMMA OffsetIsQuiet ==
  ASSUME NEW a, AppOK(a), NEW i \in DOMAIN a.slices, NEW offset
  PROVE  LET b == [a EXCEPT !.slices[i].fullOffset = offset]
         IN /\ Quiet(a, b) /\ b.subslices = a.subslices
            /\ DOMAIN b.slices = DOMAIN a.slices
<1> DEFINE b == [a EXCEPT !.slices[i].fullOffset = offset]
           row == [a.slices[i] EXCEPT !.fullOffset = offset]
<1>1. DOMAIN a = AppFields /\ a.slices \in Seq(SliceType)
  BY DEF AppOK, PlacesOK
<1>2. SameBut({"slices"}, a, b) /\ b.slices = [a.slices EXCEPT ![i] = row]
  BY <1>1 DEF SameBut, AppFields
<1>3. SameRoom(a.slices[i], row)
  <2>1. a.slices[i] \in SliceType
    BY <1>1
  <2> QED
    BY <2>1 DEF SliceType, SameRoom
<1> HIDE DEF b, row
<1>4. /\ b.subslices = a.subslices /\ b.transitionIds = a.transitionIds
      /\ b.recvs = a.recvs /\ b.sends = a.sends /\ b.initSlots = a.initSlots
      /\ b.plans = a.plans
  BY <1>2 DEF SameBut, AppFields
<1>5. SlicesGrow(a, b) /\ DOMAIN b.slices = DOMAIN a.slices
  BY <1>2, <1>3 DEF SlicesGrow, SameRoom
<1>6. Quiet(a, b)
  BY <1>4, <1>5, SameGrow, QuietWhenSame DEF SameTransfers, SameRecvs
<1> QED
  BY <1>4, <1>5, <1>6 DEF b

\* Rows of the other tables change no transfer.
LEMMA RowIsQuiet ==
  ASSUME NEW a, AppOK(a), NEW b, SameBut({"reads", "writes", "ops", "plans"}, a, b),
         \A h \in Harts : b.plans[h].recvs = a.plans[h].recvs
  PROVE  Quiet(a, b) /\ b.slices = a.slices /\ b.subslices = a.subslices
<1>1. /\ b.slices = a.slices /\ b.subslices = a.subslices
      /\ b.transitionIds = a.transitionIds /\ b.initSlots = a.initSlots
      /\ b.recvs = a.recvs /\ b.sends = a.sends
  BY DEF SameBut, AppFields
<1> QED
  BY <1>1, SameGrow, QuietWhenSame DEF SameTransfers, SameRecvs

\* A plan that gets a row of another table keeps its receives.
LEMMA PlanKeepsRecvs ==
  ASSUME NEW a, AppOK(a), NEW h \in Harts, NEW plan, NEW b,
         b.plans = [a.plans EXCEPT ![h] = plan], plan.recvs = a.plans[h].recvs
  PROVE  \A x \in Harts : b.plans[x].recvs = a.plans[x].recvs
<1>1. a.plans \in [Harts -> PlanType(a)]
  BY DEF AppOK
<1> QED
  BY ONLY <1>1, b.plans = [a.plans EXCEPT ![h] = plan],
          plan.recvs = a.plans[h].recvs

\* The rows of reads, writes and operations.
LEMMA RowsAreQuiet ==
  ASSUME NEW a, AppOK(a), NEW hart \in Harts, NEW row, NEW f \in BOOLEAN
  PROVE  /\ Quiet(a, AddL2Read(a, hart, f, row))
         /\ Quiet(a, AddL2Write(a, hart, row))
         /\ row.owner \in Harts => Quiet(a, AddOp(a, row))
         /\ AddL2Read(a, hart, f, row).slices = a.slices
         /\ AddL2Read(a, hart, f, row).subslices = a.subslices
         /\ AddL2Write(a, hart, row).slices = a.slices
         /\ AddL2Write(a, hart, row).subslices = a.subslices
         /\ AddOp(a, row).slices = a.slices
         /\ AddOp(a, row).subslices = a.subslices
<1>1. DOMAIN a = AppFields /\ a.plans \in [Harts -> PlanType(a)]
  BY DEF AppOK
<1>2. a.plans[hart] \in PlanType(a)
  BY <1>1
<1>3. /\ Quiet(a, AddL2Read(a, hart, f, row))
      /\ AddL2Read(a, hart, f, row).slices = a.slices
      /\ AddL2Read(a, hart, f, row).subslices = a.subslices
  <2> DEFINE b == AddL2Read(a, hart, f, row)
             plan == PlanWithRead(a.plans[hart], f, Len(a.reads) + 1)
  <2>1. /\ SameBut({"reads", "plans"}, a, b)
        /\ b.plans = [a.plans EXCEPT ![hart] = plan]
    BY <1>1 DEF SameBut, AddL2Read, AppFields
  <2>2. plan.recvs = a.plans[hart].recvs
    BY <1>2 DEF PlanWithRead, PlanType
  <2> HIDE DEF b, plan
  <2>3. \A h \in Harts : b.plans[h].recvs = a.plans[h].recvs
    BY <2>1, <2>2, PlanKeepsRecvs
  <2>4. SameBut({"reads", "writes", "ops", "plans"}, a, b)
    BY <2>1 DEF SameBut
  <2> QED
    BY <2>3, <2>4, RowIsQuiet DEF b
<1>4. /\ Quiet(a, AddL2Write(a, hart, row))
      /\ AddL2Write(a, hart, row).slices = a.slices
      /\ AddL2Write(a, hart, row).subslices = a.subslices
  <2> DEFINE b == AddL2Write(a, hart, row)
             plan == PlanWithWrite(a.plans[hart], Len(a.writes) + 1)
  <2>1. /\ SameBut({"writes", "plans"}, a, b)
        /\ b.plans = [a.plans EXCEPT ![hart] = plan]
    BY <1>1 DEF SameBut, AddL2Write, AppFields
  <2>2. plan.recvs = a.plans[hart].recvs
    BY <1>2 DEF PlanWithWrite, PlanType
  <2> HIDE DEF b, plan
  <2>3. \A h \in Harts : b.plans[h].recvs = a.plans[h].recvs
    BY <2>1, <2>2, PlanKeepsRecvs
  <2>4. SameBut({"reads", "writes", "ops", "plans"}, a, b)
    BY <2>1 DEF SameBut
  <2> QED
    BY <2>3, <2>4, RowIsQuiet DEF b
<1>5. AddOp(a, row).slices = a.slices /\ AddOp(a, row).subslices = a.subslices
  BY <1>1 DEF AddOp, AppFields
<1>6. ASSUME row.owner \in Harts PROVE Quiet(a, AddOp(a, row))
  <2> DEFINE b == AddOp(a, row)
             plan == PlanWithOp(a.plans[row.owner], Len(a.ops) + 1)
  <2>1. /\ SameBut({"ops", "plans"}, a, b)
        /\ b.plans = [a.plans EXCEPT ![row.owner] = plan]
    BY <1>1 DEF SameBut, AddOp, AppFields
  <2>2. plan.recvs = a.plans[row.owner].recvs
    <3>1. a.plans[row.owner] \in PlanType(a)
      BY <1>1, <1>6
    <3> QED
      BY <3>1 DEF PlanWithOp, PlanType
  <2> HIDE DEF b, plan
  <2>3. \A h \in Harts : b.plans[h].recvs = a.plans[h].recvs
    BY <1>6, <2>1, <2>2, PlanKeepsRecvs
  <2>4. SameBut({"reads", "writes", "ops", "plans"}, a, b)
    BY <2>1 DEF SameBut
  <2> QED
    BY <2>3, <2>4, RowIsQuiet DEF b
<1> QED
  BY <1>3, <1>4, <1>5, <1>6

\* A global of L2 is no part of a tile's memory.
LEMMA GlobalIsQuiet ==
  ASSUME NEW a, AppOK(a), NEW kind, NEW source, NEW n
  PROVE  LET b == GetOrCreateL2Global(a, kind, source, n)
         IN Quiet(a, b) /\ b.slices = a.slices /\ b.subslices = a.subslices
<1> DEFINE b == GetOrCreateL2Global(a, kind, source, n)
<1>1. DOMAIN a = AppFields
  BY DEF AppOK
<1>2. /\ b.slices = a.slices /\ b.subslices = a.subslices
      /\ b.transitionIds = a.transitionIds /\ b.initSlots = a.initSlots
      /\ b.recvs = a.recvs /\ b.sends = a.sends /\ b.plans = a.plans
  BY <1>1 DEF GetOrCreateL2Global, AppFields
<1> HIDE DEF b
<1>3. Quiet(a, b)
  BY <1>2, SameGrow, QuietWhenSame DEF SameTransfers, SameRecvs
<1> QED
  BY <1>2, <1>3 DEF b

\* addL2ReadForSlice places no slice.
LEMMA ReadIsQuiet ==
  ASSUME NEW a, AppOK(a), NEW i \in DOMAIN a.slices,
         NEW kind, NEW source, NEW n, WantedGlobal(kind, source, n),
         CanGetL2Global(a, kind, source, n)
  PROVE  Quiet(a, AddL2ReadForSlice(a, i, kind, source, n))
<1> DEFINE c == GetOrCreateL2Global(a, kind, source, n)
           b == AddSubslice(c, WholeSubslice(a, i))
           g == b.l2Index[L2Key(kind, source.name)]
           global == b.l2Globals[g]
           slice == a.slices[i]
           read == [ global |-> g, subslice |-> Len(b.subslices),
                     address |-> global.address
                       + OffsetBytes(slice.fullOffset,
                                     Strides(global.shape, global.elemBytes)),
                     stride |-> IF kind = "Input" THEN global.tokenStride
                                ELSE 0 ]
<1>1. /\ Quiet(a, c) /\ c.slices = a.slices /\ AppOK(c)
  BY GetGlobalExtends, GlobalIsQuiet DEF Extends
<1>2. AppOK(b)
  <2>1. WholeSubslice(a, i) = WholeSubslice(c, i)
    BY <1>1 DEF WholeSubslice
  <2>2. WholeSubslice(c, i) \in SubsliceType(c)
    <3>1. BoxOK(NoBox)
      BY DEF BoxOK
    <3> QED
      BY <1>1, <3>1, SubsliceOfSlice
  <2> QED
    BY <1>1, <2>1, <2>2, AddSubsliceExtends DEF Extends
<1>3. Quiet(c, b)
  BY <1>1, SubsliceIsQuiet
<1>4. slice.owner \in Harts
  <2>1. slice \in SliceType
    BY DEF AppOK, PlacesOK
  <2> QED
    BY <2>1 DEF SliceType
<1>5. AddL2ReadForSlice(a, i, kind, source, n)
        = AddL2Read(b, slice.owner, kind = "Initializer", read)
  BY DEF AddL2ReadForSlice
<1> HIDE DEF c, b, read, slice
<1>6. Quiet(b, AddL2Read(b, slice.owner, kind = "Initializer", read))
  BY <1>2, <1>4, RowsAreQuiet
<1> QED
  BY <1>1, <1>3, <1>5, <1>6, QuietTransitive

\* getOrCreateProducedSlice finds the slice of a key again, or makes one of the
\* shape it is asked for.
LEMMA ProduceIsQuiet ==
  ASSUME RunFits(run, app), AppOK(app), NEW key, NEW s, UnplacedOK(s)
  PROVE  LET b == ProduceSlice(app, key, s)
             i == ProducedIndex(app, key)
         IN /\ Quiet(app, b) /\ b.subslices = app.subslices
            /\ i \in DOMAIN b.slices
            /\ key \in DOMAIN run.produced =>
                 i = run.produced[key] /\ i \in DOMAIN app.slices
            /\ key \notin DOMAIN run.produced =>
                 /\ b.slices[i].owner = s.owner /\ b.slices[i].shape = s.shape
                 /\ b.slices[i].elemBytes = s.elemBytes
<1>1. CASE key \in DOMAIN run.produced
  <2>1. run.produced[key] \in DOMAIN app.slices /\ s.fullOffset \in Pair
    BY <1>1 DEF RunFits, IsTable, UnplacedOK
  <2> DEFINE b == [app EXCEPT !.slices[run.produced[key]].fullOffset =
                                s.fullOffset]
  <2>2. /\ Quiet(app, b) /\ b.subslices = app.subslices
        /\ DOMAIN b.slices = DOMAIN app.slices
    BY <2>1, OffsetIsQuiet
  <2>3. b = ProduceSlice(app, key, s)
    BY <1>1 DEF ProduceSlice
  <2> HIDE DEF b
  <2> QED
    BY <1>1, <2>1, <2>2, <2>3 DEF ProducedIndex
<1>2. CASE key \notin DOMAIN run.produced
  <2> DEFINE b == AllocateSliceInTileL1(app, s)
  <2>1. /\ Quiet(app, b) /\ b.subslices = app.subslices
        /\ Len(b.slices) = Len(app.slices) + 1
        /\ DOMAIN b.slices = DOMAIN app.slices \cup {Len(b.slices)}
        /\ b.slices[Len(b.slices)] = PlacedSlice(app, s)
    BY AllocateIsQuiet
  <2>2. b = ProduceSlice(app, key, s) /\ ProducedIndex(app, key) = Len(app.slices) + 1
    BY <1>2 DEF ProduceSlice, ProducedIndex
  <2> HIDE DEF b
  <2> QED
    BY <1>2, <2>1, <2>2 DEF PlacedSlice
<1> QED
  BY <1>1, <1>2

-----------------------------------------------------------------------------
(* The edge of the mesh: what crosses it, and the handlers that have nothing  *)
(* to do with it.                                                             *)

\* Helpers that touch no buffer, read, write or subslice.
SameEdge(a, b) ==
  /\ DOMAIN b = AppFields /\ b.numTokens = a.numTokens
  /\ b.reads = a.reads /\ b.writes = a.writes
  /\ b.l2Globals = a.l2Globals /\ b.l2Index = a.l2Index
  /\ b.subslices = a.subslices

\* Handlers that add at most a subslice.
Still(a, b) ==
  /\ DOMAIN b = AppFields /\ b.numTokens = a.numTokens
  /\ b.reads = a.reads /\ b.writes = a.writes
  /\ b.l2Globals = a.l2Globals /\ b.l2Index = a.l2Index
  /\ \/ b.subslices = a.subslices
     \/ \E x : b.subslices = Append(a.subslices, x)

\* Most helpers leave the edge alone.
LEMMA HelpersLeaveEdge ==
  ASSUME NEW a, DOMAIN a = AppFields, NEW x
  PROVE  /\ SameEdge(a, a)
         /\ SameEdge(a, AllocateSliceInTileL1(a, x))
         /\ SameEdge(a, AddRecv(a, x))
         /\ SameEdge(a, AddSend(a, x))
         /\ SameEdge(a, AddOp(a, x))
         /\ SameEdge(a, [a EXCEPT !.transitionIds = x])
         /\ SameEdge(a, [a EXCEPT !.initSlots = x])
         /\ SameEdge(a, [a EXCEPT !.slices = x])
BY DEF SameEdge, AppFields, AllocateSliceInTileL1, AddRecv, AddSend, AddOp

\* So does getOrCreateProducedSlice.
LEMMA ProduceLeavesEdge ==
  ASSUME DOMAIN app = AppFields, NEW key, NEW s
  PROVE  SameEdge(app, ProduceSlice(app, key, s))
<1>1. CASE key \in DOMAIN run.produced
  <2> DEFINE i == run.produced[key]
             x == [app.slices EXCEPT ![i].fullOffset = s.fullOffset]
             b == ProduceSlice(app, key, s)
  <2>1. b = [app EXCEPT !.slices = x]
    BY <1>1 DEF ProduceSlice
  <2> HIDE DEF x
  <2>2. SameEdge(app, [app EXCEPT !.slices = x])
    BY HelpersLeaveEdge
  <2> QED
    BY ONLY <2>1, <2>2
<1>2. CASE key \notin DOMAIN run.produced
  BY <1>2, HelpersLeaveEdge DEF ProduceSlice
<1> QED
  BY <1>1, <1>2

\* A chain of helpers, one of which may add a subslice.
LEMMA StillChains ==
  ASSUME NEW a, NEW b, NEW c
  PROVE  /\ SameEdge(a, b) => Still(a, b)
         /\ SameEdge(a, b) /\ SameEdge(b, c) => SameEdge(a, c)
         /\ SameEdge(a, b) /\ Still(b, c) => Still(a, c)
         /\ Still(a, b) /\ SameEdge(b, c) => Still(a, c)
         /\ DOMAIN a = AppFields => \A x : Still(a, AddSubslice(a, x))
<1>1. SameEdge(a, b) => Still(a, b)
  BY DEF SameEdge, Still
<1>2. SameEdge(a, b) /\ SameEdge(b, c) => SameEdge(a, c)
  BY DEF SameEdge
<1>3. SameEdge(a, b) /\ Still(b, c) => Still(a, c)
  BY DEF SameEdge, Still
<1>4. Still(a, b) /\ SameEdge(b, c) => Still(a, c)
  BY DEF SameEdge, Still
<1>5. ASSUME DOMAIN a = AppFields, NEW x PROVE Still(a, AddSubslice(a, x))
  BY <1>5 DEF Still, AddSubslice, AppFields
<1> QED
  BY <1>1, <1>2, <1>3, <1>4, <1>5

\* No subslice is lost or changed.
LEMMA StillGrows ==
  ASSUME NEW a, AppOK(a), NEW b, Still(a, b)
  PROVE  SubslicesGrow(a, b)
<1>1. a.subslices \in Seq(SubsliceType(a))
  BY DEF AppOK, PlacesOK
<1>2. CASE b.subslices = a.subslices
  BY <1>2 DEF SubslicesGrow
<1>3. ASSUME NEW x, b.subslices = Append(a.subslices, x) PROVE SubslicesGrow(a, b)
  BY <1>1, <1>3, AppendKeeps DEF SubslicesGrow
<1> QED
  BY <1>2, <1>3 DEF Still

\* The attributes of the module.
LEMMA AttrsStill ==
  ASSUME IInv, CollectModuleAttrs
  PROVE  Still(app, app')
<1> DEFINE c == [app EXCEPT !.numTokenSlots = prog.attrs.numTokenSlots]
<1>1. DOMAIN app = AppFields /\ app' = WithBundle(c, prog.attrs)
  BY Facts DEF CollectModuleAttrs, AppOK
<1>2. SameEdge(app, c)
  BY <1>1 DEF SameEdge, AppFields
<1> HIDE DEF c
<1>3. SameEdge(c, app')
  BY <1>1, <1>2 DEF SameEdge, WithBundle, AppFields
<1> QED
  BY <1>2, <1>3, StillChains

\* collectTileRecv.
LEMMA TileRecvStill ==
  ASSUME IInv, CollectTileRecv
  PROVE  Still(app, app')
<1> DEFINE o == prog.run[pos]
           known == AggregateKey(o) \in DOMAIN run.aggregates
           a == IF known THEN app
                ELSE AllocateSliceInTileL1(app, AggregateSlice(o))
           s == IF known THEN run.aggregates[AggregateKey(o)]
                ELSE Len(a.slices)
           b == AddSubslice(a, SubsliceFromAttr(a, s, o.sub))
           c == [b EXCEPT !.transitionIds = WithId(@, o.channel)]
<1>0. DOMAIN app = AppFields
  BY Facts DEF AppOK
<1>1. PICK recv : app' = AddRecv(c, recv)
  BY DEF CollectTileRecv
<1>2. SameEdge(app, a)
  BY <1>0, HelpersLeaveEdge
<1> HIDE DEF a, s
<1>3. Still(a, b)
  BY <1>2, StillChains DEF SameEdge
<1> HIDE DEF b
<1>4. SameEdge(b, c)
  BY <1>3, HelpersLeaveEdge DEF Still
<1> HIDE DEF c
<1>5. SameEdge(c, AddRecv(c, recv))
  BY <1>4, HelpersLeaveEdge DEF SameEdge
<1>6. Still(app, c)
  BY <1>2, <1>3, <1>4, StillChains
<1> QED
  BY <1>1, <1>5, <1>6, StillChains

\* collectComputeOp.
LEMMA ComputeStill ==
  ASSUME IInv, CollectComputeOp
  PROVE  Still(app, app')
<1> DEFINE o == prog.run[pos]
           a == ProduceSlice(app, OpKey(o), OpSlice(o))
           b == AddSubslice(a, WholeSubslice(a, ProducedIndex(app, OpKey(o))))
<1>0. DOMAIN app = AppFields
  BY Facts DEF AppOK
<1>1. PICK op : app' = AddOp(b, op)
  BY DEF CollectComputeOp
<1>2. SameEdge(app, a)
  BY <1>0, ProduceLeavesEdge
<1> HIDE DEF a
<1>3. Still(a, b)
  BY <1>2, StillChains DEF SameEdge
<1> HIDE DEF b
<1>4. SameEdge(b, AddOp(b, op))
  BY <1>3, HelpersLeaveEdge DEF Still
<1>5. Still(app, b)
  BY <1>2, <1>3, StillChains
<1> QED
  BY <1>1, <1>4, <1>5, StillChains

\* The source of a send.
LEMMA SourceStill ==
  ASSUME IInv, NEW o
  PROVE  Still(app, WithSource(o))
<1> DEFINE b == IF IsPlaced(o) THEN app
                ELSE ProduceSlice(app, SendKey(o), SendSlice(o))
<1>1. DOMAIN app = AppFields
  BY Facts DEF AppOK
<1>2. SameEdge(app, b)
  BY <1>1, ProduceLeavesEdge, HelpersLeaveEdge
<1>3. PICK x : WithSource(o) = AddSubslice(b, x)
  BY DEF WithSource
<1> HIDE DEF b
<1>4. Still(b, AddSubslice(b, x))
  BY <1>2, StillChains DEF SameEdge
<1> QED
  BY <1>2, <1>3, <1>4, StillChains

\* A send to a tile.
LEMMA TileSendStill ==
  ASSUME IInv, CollectTileSend
  PROVE  Still(app, app')
<1> DEFINE o == prog.run[pos]
           a == WithSource(o)
           b == [a EXCEPT !.transitionIds = WithId(@, o.channel)]
<1>1. PICK send : app' = AddSend(b, send)
  BY DEF CollectTileSend
<1>2. Still(app, a)
  BY SourceStill
<1> HIDE DEF a
<1>3. SameEdge(a, b)
  BY <1>2, HelpersLeaveEdge DEF Still
<1> HIDE DEF b
<1>4. SameEdge(b, AddSend(b, send))
  BY <1>3, HelpersLeaveEdge DEF SameEdge
<1>5. Still(app, b)
  BY <1>2, <1>3, StillChains
<1> QED
  BY <1>1, <1>4, <1>5, StillChains

\* Whatever reads or writes no tensor in L2.
LEMMA InnerStepsStill ==
  ASSUME IInv, Next, ~CollectInitializerStore, ~CollectInputRecv,
         ~CollectOutputSend
  PROVE  Still(app, app')
<1>0. DOMAIN app = AppFields /\ Still(app, app)
  BY Facts, HelpersLeaveEdge, StillChains DEF AppOK
<1>1. CASE CollectLoad
  BY <1>0, <1>1, StillChains DEF CollectLoad
<1>2. CASE CollectExtractSliceAlias
  BY <1>0, <1>2, StillChains DEF CollectExtractSliceAlias
<1>3. CASE CollectInsertSliceAlias
  BY <1>0, <1>3, StillChains DEF CollectInsertSliceAlias
<1>4. CASE PassOver \/ EndWalk \/ Refuse
  BY <1>0, <1>4 DEF PassOver, EndWalk, Refuse
<1> QED
  BY <1>1, <1>2, <1>3, <1>4, AttrsStill, TileRecvStill, ComputeStill, TileSendStill
  DEF Next

-----------------------------------------------------------------------------
(* Slices have room for elements *)

\* The width of the elements of a slice is known, and a slot holds all of them.
WidthsKnown(a) ==
  \A i \in DOMAIN a.slices :
    a.slices[i].elemBytes # 0 /\ a.slices[i].slotBytes = SlotBytes(a.slices[i])

WidthsStay(a, b) == DOMAIN b = AppFields /\ (WidthsKnown(a) => WidthsKnown(b))

\* Steps that keep the widths known, one after the other.
LEMMA WidthsChain ==
  ASSUME NEW a, NEW b, NEW c, WidthsStay(a, b), WidthsStay(b, c)
  PROVE  WidthsStay(a, c)
BY DEF WidthsStay

\* A slice is only made of elements whose width is known.
LEMMA AllocateWidths ==
  ASSUME NEW a, AppOK(a), NEW s, s.elemBytes # 0
  PROVE  WidthsStay(a, AllocateSliceInTileL1(a, s))
<1> DEFINE b == AllocateSliceInTileL1(a, s)
           x == PlacedSlice(a, s)
<1>1. /\ DOMAIN a = AppFields /\ a.slices \in Seq(SliceType)
  BY DEF AppOK, PlacesOK
<1>2. DOMAIN b = AppFields /\ b.slices = Append(a.slices, x)
  BY <1>1 DEF AllocateSliceInTileL1, AppFields
<1>3. x.elemBytes # 0 /\ x.slotBytes = SlotBytes(x)
  BY DEF PlacedSlice, SlotBytes
<1> HIDE DEF b, x
<1>4. /\ DOMAIN b.slices = DOMAIN a.slices \cup {Len(a.slices) + 1}
      /\ b.slices[Len(a.slices) + 1] = x
      /\ \A i \in DOMAIN a.slices : b.slices[i] = a.slices[i]
  BY <1>1, <1>2, AppendedList
<1> QED
  BY <1>2, <1>3, <1>4 DEF WidthsStay, WidthsKnown, b

\* getOrCreateProducedSlice makes none either, and changes no width.
LEMMA ProduceWidths ==
  ASSUME AppOK(app), NEW key, NEW s, CanProduceSlice(app, key, s)
  PROVE  WidthsStay(app, ProduceSlice(app, key, s))
<1> DEFINE b == ProduceSlice(app, key, s)
<1>1. CASE key \in DOMAIN run.produced
  <2> DEFINE k == run.produced[key]
  <2>1. DOMAIN app = AppFields /\ app.slices \in Seq(SliceType)
    BY DEF AppOK, PlacesOK
  <2>2. /\ DOMAIN b = AppFields
        /\ b.slices = [app.slices EXCEPT ![k].fullOffset = s.fullOffset]
    BY <1>1, <2>1 DEF ProduceSlice, AppFields
  <2> HIDE DEF b, k
  <2>3. DOMAIN b.slices = DOMAIN app.slices
    BY <2>2
  <2>4. ASSUME NEW i \in DOMAIN app.slices
        PROVE  /\ b.slices[i].elemBytes = app.slices[i].elemBytes
               /\ b.slices[i].shape = app.slices[i].shape
               /\ b.slices[i].slotBytes = app.slices[i].slotBytes
    <3>1. app.slices[i] \in SliceType
      BY <2>1
    <3> QED
      BY <2>2, <3>1 DEF SliceType
  <2> QED
    BY <2>2, <2>3, <2>4 DEF WidthsStay, WidthsKnown, SlotBytes, b
<1>2. CASE key \notin DOMAIN run.produced
  BY <1>2, AllocateWidths DEF ProduceSlice, CanProduceSlice
<1> QED
  BY <1>1, <1>2

\* All other helpers leave the slices as they are.
SameSlices(a, b) == DOMAIN b = AppFields /\ b.slices = a.slices

\* What leaves the slices leaves their widths.
LEMMA SameWidths ==
  ASSUME NEW a, NEW b, SameSlices(a, b)
  PROVE  WidthsStay(a, b)
BY DEF SameSlices, WidthsStay, WidthsKnown

\* What places no slice.
LEMMA HelpersKeepSlices ==
  ASSUME NEW a, DOMAIN a = AppFields, NEW x, NEW y, NEW z, NEW w
  PROVE  /\ SameSlices(a, a)
         /\ SameSlices(a, AddSubslice(a, x))
         /\ SameSlices(a, AddRecv(a, x))
         /\ SameSlices(a, AddSend(a, x))
         /\ SameSlices(a, AddOp(a, x))
         /\ SameSlices(a, AddL2Write(a, x, y))
         /\ SameSlices(a, AddL2Read(a, x, y, z))
         /\ SameSlices(a, GetOrCreateL2Global(a, x, y, z))
         /\ SameSlices(a, WithBundle(a, x))
         /\ SameSlices(a, [a EXCEPT !.transitionIds = x])
         /\ SameSlices(a, [a EXCEPT !.initSlots = x])
         /\ SameSlices(a, [a EXCEPT !.numTokenSlots = x])
BY DEF SameSlices, AppFields, AddSubslice, AddRecv, AddSend, AddOp, AddL2Write,
       AddL2Read, GetOrCreateL2Global, WithBundle

\* addL2ReadForSlice places none.
LEMMA ReadKeepsSlices ==
  ASSUME NEW a, DOMAIN a = AppFields, NEW i, NEW kind, NEW source, NEW n
  PROVE  SameSlices(a, AddL2ReadForSlice(a, i, kind, source, n))
<1> DEFINE c == GetOrCreateL2Global(a, kind, source, n)
           b == AddSubslice(c, WholeSubslice(a, i))
<1>1. SameSlices(a, c)
  BY HelpersKeepSlices
<1> HIDE DEF c
<1>2. SameSlices(a, b)
  BY <1>1, HelpersKeepSlices DEF SameSlices
<1>3. PICK x, y, z : AddL2ReadForSlice(a, i, kind, source, n) = AddL2Read(b, x, y, z)
  BY DEF AddL2ReadForSlice, c
<1> HIDE DEF b
<1>4. SameSlices(b, AddL2Read(b, x, y, z))
  BY <1>2, HelpersKeepSlices DEF SameSlices
<1> QED
  BY <1>2, <1>3, <1>4 DEF SameSlices

\* collectInitializerStore.
LEMMA StoreWidths ==
  ASSUME IInv, CollectInitializerStore
  PROVE  WidthsStay(app, app')
<1> DEFINE o == prog.init[pos]
           source == L2Sources(prog.init)[o.channel]
           a == AllocateSliceInTileL1(app, StoreSlice(o, source))
           b == [a EXCEPT !.initSlots = Put(@, <<o.tile, o.slot>>, Len(a.slices))]
<1>1. /\ CanStore(o, source)
      /\ app' = AddL2ReadForSlice(b, Len(a.slices), "Initializer", source, 1)
  BY DEF CollectInitializerStore
<1>2. StoreSlice(o, source).elemBytes # 0
  BY <1>1 DEF CanStore, StoreSlice, NewSlice
<1>3. WidthsStay(app, a)
  BY <1>2, Facts, AllocateWidths
<1>4. SameSlices(a, b)
  <2>1. b = [a EXCEPT !.initSlots = Put(a.initSlots, <<o.tile, o.slot>>, Len(a.slices))]
    OBVIOUS
  <2> HIDE DEF a, b, o
  <2> QED
    BY <1>3, <2>1, HelpersKeepSlices DEF WidthsStay
<1> HIDE DEF a
<1>5. SameSlices(b, app')
  <2> HIDE DEF b, o, source
  <2> QED
    BY <1>1, <1>4, ReadKeepsSlices DEF SameSlices
<1> QED
  BY <1>3, <1>4, <1>5, SameWidths, WidthsChain

\* collectInputRecv.
LEMMA InputWidths ==
  ASSUME IInv, CollectInputRecv
  PROVE  WidthsStay(app, app')
<1> DEFINE o == prog.run[pos]
           source == L2Sources(prog.run)[o.channel]
           a == AllocateSliceInTileL1(app, InputSlice(o, source))
           b == AddSubslice(a, WholeSubslice(a, Len(a.slices)))
<1>1. /\ CanCollectInput(o, source)
      /\ app' = AddL2ReadForSlice(b, Len(a.slices), "Input", source, app.numTokens)
  BY DEF CollectInputRecv
<1>2. InputSlice(o, source).elemBytes # 0
  BY <1>1 DEF CanCollectInput, InputSlice, NewSlice
<1>3. WidthsStay(app, a)
  BY <1>2, Facts, AllocateWidths
<1> HIDE DEF a
<1>4. SameSlices(a, b)
  BY <1>3, HelpersKeepSlices DEF WidthsStay
<1> HIDE DEF b, o, source
<1>5. SameSlices(b, app')
  BY <1>1, <1>4, ReadKeepsSlices DEF SameSlices
<1> QED
  BY <1>3, <1>4, <1>5, SameWidths, WidthsChain

\* collectTileRecv.
LEMMA TileRecvWidths ==
  ASSUME IInv, CollectTileRecv
  PROVE  WidthsStay(app, app')
<1> DEFINE o == prog.run[pos]
           known == AggregateKey(o) \in DOMAIN run.aggregates
           a == IF known THEN app
                ELSE AllocateSliceInTileL1(app, AggregateSlice(o))
           s == IF known THEN run.aggregates[AggregateKey(o)] ELSE Len(a.slices)
           b == AddSubslice(a, SubsliceFromAttr(a, s, o.sub))
           ids == WithId(b.transitionIds, o.channel)
           c == [b EXCEPT !.transitionIds = ids]
<1>1. CanCollectTileRecv(o) /\ \E recv : app' = AddRecv(c, recv)
  BY DEF CollectTileRecv
<1>2. AppOK(app) /\ DOMAIN app = AppFields
  BY Facts DEF AppOK
<1>3. WidthsStay(app, a)
  <2>1. CASE known
    BY <1>2, <2>1, HelpersKeepSlices, SameWidths
  <2>2. CASE ~known
    <3>1. AggregateSlice(o).elemBytes # 0
      BY <1>1, <2>2 DEF CanCollectTileRecv, AggregateSlice, NewSlice
    <3> QED
      BY <1>2, <2>2, <3>1, AllocateWidths
  <2> QED
    BY <2>1, <2>2
<1> HIDE DEF a, s
<1>4. SameSlices(a, b)
  BY <1>3, HelpersKeepSlices DEF WidthsStay
<1> HIDE DEF b, ids
<1>5. SameSlices(b, c)
  BY <1>4, HelpersKeepSlices DEF SameSlices
<1> HIDE DEF c
<1>6. SameSlices(c, app')
  BY <1>1, <1>5, HelpersKeepSlices DEF SameSlices
<1> QED
  BY <1>3, <1>4, <1>5, <1>6, SameWidths, WidthsChain

\* collectComputeOp.
LEMMA ComputeWidths ==
  ASSUME IInv, CollectComputeOp
  PROVE  WidthsStay(app, app')
<1> DEFINE o == prog.run[pos]
           a == ProduceSlice(app, OpKey(o), OpSlice(o))
           b == AddSubslice(a, WholeSubslice(a, ProducedIndex(app, OpKey(o))))
<1>1. CanCollectOp(o) /\ \E op : app' = AddOp(b, op)
  BY DEF CollectComputeOp
<1>2. WidthsStay(app, a)
  BY <1>1, Facts, ProduceWidths DEF CanCollectOp
<1> HIDE DEF a
<1>3. SameSlices(a, b)
  BY <1>2, HelpersKeepSlices DEF WidthsStay
<1> HIDE DEF b
<1>4. SameSlices(b, app')
  BY <1>1, <1>3, HelpersKeepSlices DEF SameSlices
<1> QED
  BY <1>2, <1>3, <1>4, SameWidths, WidthsChain

\* The source of a send.
LEMMA SourceWidths ==
  ASSUME IInv, NEW o, CanPlaceSource(o)
  PROVE  WidthsStay(app, WithSource(o))
<1> DEFINE a == IF IsPlaced(o) THEN app
                ELSE ProduceSlice(app, SendKey(o), SendSlice(o))
<1>1. AppOK(app) /\ DOMAIN app = AppFields
  BY Facts DEF AppOK
<1>2. WidthsStay(app, a)
  <2>1. CASE IsPlaced(o)
    BY <1>1, <2>1, HelpersKeepSlices, SameWidths
  <2>2. CASE ~IsPlaced(o)
    BY <1>1, <2>2, ProduceWidths DEF CanPlaceSource
  <2> QED
    BY <2>1, <2>2
<1>3. PICK x : WithSource(o) = AddSubslice(a, x)
  BY DEF WithSource
<1> HIDE DEF a
<1>4. SameSlices(a, AddSubslice(a, x))
  BY <1>2, HelpersKeepSlices DEF WidthsStay
<1> QED
  BY <1>2, <1>3, <1>4, SameWidths, WidthsChain

\* collectOutputSend.
LEMMA OutputSendWidths ==
  ASSUME IInv, CollectOutputSend
  PROVE  WidthsStay(app, app')
<1> DEFINE o == prog.run[pos]
           c == WithSource(o)
           a == GetOrCreateL2Global(c, "Output", OutputSource(o), app.numTokens)
<1>1. CanCollectSend(o) /\ \E write : app' = AddL2Write(a, o.src, write)
  BY DEF CollectOutputSend
<1>2. WidthsStay(app, c)
  BY <1>1, SourceWidths DEF CanCollectSend
<1> HIDE DEF c
<1>3. SameSlices(c, a)
  BY <1>2, HelpersKeepSlices DEF WidthsStay
<1> HIDE DEF a, o
<1>4. SameSlices(a, app')
  BY <1>1, <1>3, HelpersKeepSlices DEF SameSlices
<1> QED
  BY <1>2, <1>3, <1>4, SameWidths, WidthsChain

\* collectTileSend.
LEMMA TileSendWidths ==
  ASSUME IInv, CollectTileSend
  PROVE  WidthsStay(app, app')
<1> DEFINE o == prog.run[pos]
           c == WithSource(o)
           ids == WithId(c.transitionIds, o.channel)
           a == [c EXCEPT !.transitionIds = ids]
<1>1. CanCollectSend(o) /\ \E send : app' = AddSend(a, send)
  BY DEF CollectTileSend
<1>2. WidthsStay(app, c)
  BY <1>1, SourceWidths DEF CanCollectSend
<1> HIDE DEF c, ids
<1>3. SameSlices(c, a)
  BY <1>2, HelpersKeepSlices DEF WidthsStay
<1> HIDE DEF a, o
<1>4. SameSlices(a, app')
  BY <1>1, <1>3, HelpersKeepSlices DEF SameSlices
<1> QED
  BY <1>2, <1>3, <1>4, SameWidths, WidthsChain

\* No step makes a slice of elements whose width is not known.
LEMMA NextWidths ==
  ASSUME IInv, WidthsKnown(app), [Next]_vars
  PROVE  WidthsKnown(app')
<1>1. DOMAIN app = AppFields
  BY Facts DEF AppOK
<1>2. CASE CollectModuleAttrs
  <2> DEFINE a == [app EXCEPT !.numTokenSlots = prog.attrs.numTokenSlots]
  <2>1. SameSlices(app, a) /\ app' = WithBundle(a, prog.attrs)
    BY <1>1, <1>2, HelpersKeepSlices DEF CollectModuleAttrs
  <2> HIDE DEF a
  <2>2. SameSlices(a, app')
    BY <2>1, HelpersKeepSlices DEF SameSlices
  <2> QED
    BY <2>1, <2>2, SameWidths DEF WidthsStay
<1>3. CASE CollectLoad \/ CollectExtractSliceAlias \/ CollectInsertSliceAlias
  <2>1. app' = app \/ \E x : app' = AddSubslice(app, x)
    BY <1>3 DEF CollectLoad, CollectExtractSliceAlias, CollectInsertSliceAlias
  <2>2. SameSlices(app, app) /\ \A x : SameSlices(app, AddSubslice(app, x))
    BY <1>1, HelpersKeepSlices
  <2>3. SameSlices(app, app')
    BY ONLY <2>1, <2>2
  <2> QED
    BY <2>3, SameWidths DEF WidthsStay
<1>4. CASE PassOver \/ EndWalk \/ Refuse \/ UNCHANGED vars
  BY <1>4 DEF PassOver, EndWalk, Refuse, vars, WidthsKnown
<1> QED
  BY <1>2, <1>3, <1>4, StoreWidths, InputWidths, TileRecvWidths, ComputeWidths,
     OutputSendWidths, TileSendWidths DEF Next, WidthsStay
=============================================================================
