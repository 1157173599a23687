--------------------------- MODULE ContractProofs ---------------------------
(***************************************************************************)
(* What the collector makes of modules that keep the contracts of          *)
(* ModuleContract: sends meet their receives, what is read lies inside its *)
(* tensor, and what is written tiles the outputs.                          *)
(***************************************************************************)
EXTENDS CollectorProofs, ModuleContract

-----------------------------------------------------------------------------
(* The invariant.  x is the home of a value, m the homes of them all. *)

LivesAt(a, i, x) ==
  /\ i \in DOMAIN a.slices
  /\ a.slices[i].owner = x.tile
  /\ a.slices[i].shape = x.shape
  /\ a.slices[i].elemBytes = x.width

IsPart(a, sub, box, x) ==
  /\ sub \in DOMAIN a.subslices
  /\ LivesAt(a, a.subslices[sub].slice, x)
  /\ a.subslices[sub].offset = Part(box, x.shape).off
  /\ a.subslices[sub].shape = Part(box, x.shape).len

\* Every table of slices a collection keeps leads to slices where the values live.
ValuesHoused(a, table, m) ==
  \A v \in DOMAIN table : LivesAt(a, a.subslices[table[v]].slice, m[v])

AggregatesHoused(a, table, p, m) ==
  \A i \in TileRecvs(p) :
    LET key == AggregateKey(p.run[i])
    IN key \in DOMAIN table => LivesAt(a, table[key], m[p.run[i].result])

OpsHoused(a, table, p, m) ==
  \A i \in DOMAIN p.run :
    LET key == OpKey(p.run[i])
    IN p.run[i].op = "compute" /\ key \in DOMAIN table =>
         LivesAt(a, table[key], m[p.run[i].result])

\* Sends that share a slice made for what they send, if they all know it.
KnownSends(p, m) ==
  {i \in DOMAIN p.run :
     /\ IsTileSend(p.run[i])
     /\ \A j \in DOMAIN p.run :
          IsTileSend(p.run[j]) /\ SendKey(p.run[j]) = SendKey(p.run[i]) =>
            RootIsKnown(p, m, j)}

RootsHoused(a, table, p, m) ==
  \A i \in KnownSends(p, m) :
    LET key == SendKey(p.run[i])
    IN key \in DOMAIN table => LivesAt(a, table[key], m[p.run[i].root])

SlotsHoused(a, p, m) ==
  \A i \in DOMAIN p.run :
    LET key == <<p.run[i].tile, p.run[i].slot>>
    IN p.run[i].op = "load" /\ key \in DOMAIN a.initSlots =>
         LivesAt(a, a.initSlots[key], m[p.run[i].result])

Housed(a, r, p, m) ==
  /\ ValuesHoused(a, r.subsliceOf, m)
  /\ AggregatesHoused(a, r.aggregates, p, m)
  /\ OpsHoused(a, r.produced, p, m)
  /\ RootsHoused(a, r.produced, p, m)
  /\ SlotsHoused(a, p, m)

\* The values that have a slice when the walk of phase ph has reached k.
Known(p, ph, k, i) ==
  \/ IsTileRecv(p.run[i]) /\ ((ph = "recvs" /\ i < k) \/ ph = "run")
  \/ ph = "run" /\ i < k /\ p.run[i].op \in {"recv", "load", "compute"}

Recorded(r, p, ph, k) ==
  \A i \in DOMAIN p.run :
    Known(p, ph, k, i) => p.run[i].result \in DOMAIN r.subsliceOf

\* The receives that may have been collected, the sends that may have been,
\* and the sends that have been for sure.
Met(ph, k, i) == (ph = "recvs" /\ i < k) \/ ph \in {"run", "done", "failed"}
Sent(ph, k, i) == (ph = "run" /\ i < k) \/ ph \in {"done", "failed"}
Done(ph, k, i) == (ph = "run" /\ i < k) \/ ph = "done"

RecvRow(a, o, place) ==
  [ transition |-> a.transitionIds[o.channel], src |-> o.src, dst |-> o.dst,
    subslice |-> place.subslice, producer |-> place.producer ]

RecvPlaced(a, o, place, x) ==
  /\ o.dst \in Harts /\ o.channel \in DOMAIN a.transitionIds
  /\ IsPart(a, place.subslice, o.sub, x)
  /\ a.subslices[place.subslice].slice = place.slice
  /\ place.producer + 1 \in DOMAIN a.plans[o.dst].recvs
  /\ a.plans[o.dst].recvs[place.producer + 1] \in DOMAIN a.recvs
  /\ a.recvs[a.plans[o.dst].recvs[place.producer + 1]] = RecvRow(a, o, place)

\* Channels, rows of the table of receives and places in the plans of the
\* destinations belong to each other.
ChannelsPlaced(a, places, p, m, ph, k) ==
  \A c \in DOMAIN places : \E i \in TileRecvs(p) :
    /\ p.run[i].channel = c /\ Met(ph, k, i)
    /\ RecvPlaced(a, p.run[i], places[c], m[p.run[i].result])

RecvsNamed(a, places, p) ==
  \A n \in DOMAIN a.recvs : \E i \in TileRecvs(p) :
    /\ p.run[i].channel \in DOMAIN places
    /\ p.run[i].channel \in DOMAIN a.transitionIds
    /\ a.recvs[n] = RecvRow(a, p.run[i], places[p.run[i].channel])

ProducersApart(places, p) ==
  \A i, j \in TileRecvs(p) :
    /\ p.run[i].channel \in DOMAIN places /\ p.run[j].channel \in DOMAIN places
    /\ p.run[i].dst = p.run[j].dst
    /\ places[p.run[i].channel].producer = places[p.run[j].channel].producer
    => i = j

\* The producers of a tile are numbered in the order of its receives.
PlansPlaced(a) ==
  \A h \in Harts : \A n \in DOMAIN a.plans[h].recvs :
    /\ a.plans[h].recvs[n] \in DOMAIN a.recvs
    /\ a.recvs[a.plans[h].recvs[n]].dst = h
    /\ a.recvs[a.plans[h].recvs[n]].producer + 1 = n

RecvsMeet(a, places, p, m, ph, k) ==
  /\ ChannelsPlaced(a, places, p, m, ph, k)
  /\ RecvsNamed(a, places, p)
  /\ ProducersApart(places, p)
  /\ PlansPlaced(a)

SentRow(a, o, place, x, s) ==
  /\ o.channel \in DOMAIN a.transitionIds /\ place.slice \in DOMAIN a.slices
  /\ s.transition = a.transitionIds[o.channel]
  /\ s.src = o.src /\ s.dst = o.dst
  /\ s.dstSubslice = place.subslice /\ s.producer = place.producer
  /\ s.dstL1Offset = a.slices[place.slice].l1Offset
  /\ s.dstSlotBytes = a.slices[place.slice].slotBytes
  /\ IsPart(a, s.srcSubslice, o.sub, x)

RowOf(a, places, p, m, i, n) ==
  /\ p.run[i].channel \in DOMAIN places
  /\ SentRow(a, p.run[i], places[p.run[i].channel], m[p.run[i].root], a.sends[n])

\* Each row of the table of sends is that of a send the walk has passed, no two
\* are of the same, and each send that is passed has one.
SendsMeet(a, places, p, m, ph, k) ==
  /\ \A n \in DOMAIN a.sends : \E i \in TransferSends(p) :
       Sent(ph, k, i) /\ RowOf(a, places, p, m, i, n)
  /\ \A n1, n2 \in DOMAIN a.sends :
       /\ a.sends[n1].dst = a.sends[n2].dst
       /\ a.sends[n1].producer = a.sends[n2].producer
       => n1 = n2
  /\ \A i \in TransferSends(p) : Done(ph, k, i) =>
       \E n \in DOMAIN a.sends : RowOf(a, places, p, m, i, n)

TransfersMeet(a, r, p, m, ph, k) ==
  /\ RecvsMeet(a, r.tileRecvs, p, m, ph, k)
  /\ SendsMeet(a, r.tileRecvs, p, m, ph, k)

Wiring(a, r, p, m, ph, k) ==
  /\ Housed(a, r, p, m)
  /\ Recorded(r, p, ph, k)
  /\ TransfersMeet(a, r, p, m, ph, k)

-----------------------------------------------------------------------------
(* What is kept when the tables grow *)

\* A value stays in its slice.
LEMMA LivesLater ==
  ASSUME NEW a, NEW b, Grows(a, b), NEW i, NEW x, LivesAt(a, i, x)
  PROVE  LivesAt(b, i, x)
BY DEF LivesAt, Grows, SlicesGrow, SameRoom

\* A subslice stays a part of the home of its value.
LEMMA PartLater ==
  ASSUME NEW a, NEW b, Grows(a, b), NEW sub, NEW box, NEW x, IsPart(a, sub, box, x)
  PROVE  IsPart(b, sub, box, x) /\ b.subslices[sub] = a.subslices[sub]
<1>1. sub \in DOMAIN b.subslices /\ b.subslices[sub] = a.subslices[sub]
  BY DEF Grows, SubslicesGrow, IsPart
<1>2. LivesAt(b, b.subslices[sub].slice, x)
  BY <1>1, LivesLater DEF IsPart
<1> QED
  BY <1>1, <1>2 DEF IsPart

\* What is housed stays housed, if the slots of initializers are.
LEMMA TablesLater ==
  ASSUME NEW a, NEW b, Grows(a, b), NEW r, RunFits(r, a), NEW p, NEW m,
         Housed(a, r, p, m), SlotsHoused(b, p, m)
  PROVE  Housed(b, r, p, m)
<1>1. ValuesHoused(b, r.subsliceOf, m)
  <2> SUFFICES ASSUME NEW v \in DOMAIN r.subsliceOf
               PROVE  LivesAt(b, b.subslices[r.subsliceOf[v]].slice, m[v])
    BY DEF ValuesHoused
  <2>1. r.subsliceOf[v] \in DOMAIN a.subslices
    BY DEF RunFits, IsTable
  <2>2. b.subslices[r.subsliceOf[v]] = a.subslices[r.subsliceOf[v]]
    BY <2>1 DEF Grows, SubslicesGrow
  <2> QED
    BY <2>2, LivesLater DEF Housed, ValuesHoused
<1>2. AggregatesHoused(b, r.aggregates, p, m)
  BY LivesLater DEF Housed, AggregatesHoused
<1>3. OpsHoused(b, r.produced, p, m)
  BY LivesLater DEF Housed, OpsHoused
<1>4. RootsHoused(b, r.produced, p, m)
  BY LivesLater DEF Housed, RootsHoused
<1> QED
  BY <1>1, <1>2, <1>3, <1>4 DEF Housed

\* They are if none is given away.
LEMMA HousedLater ==
  ASSUME NEW a, NEW b, Grows(a, b), b.initSlots = a.initSlots,
         NEW r, RunFits(r, a), NEW p, NEW m, Housed(a, r, p, m)
  PROVE  Housed(b, r, p, m)
<1>1. SlotsHoused(b, p, m)
  BY LivesLater DEF Housed, SlotsHoused
<1> QED
  BY <1>1, TablesLater

\* A receive stays where it is placed, if no row is added to the receives.
LEMMA PlacedLater ==
  ASSUME NEW a, NEW b, Grows(a, b), SameRecvs(a, b),
         NEW o, NEW place, NEW x, RecvPlaced(a, o, place, x)
  PROVE  RecvPlaced(b, o, place, x)
<1>1. /\ IsPart(b, place.subslice, o.sub, x)
      /\ b.subslices[place.subslice] = a.subslices[place.subslice]
  BY PartLater DEF RecvPlaced
<1>2. RecvRow(b, o, place) = RecvRow(a, o, place) /\ o.channel \in DOMAIN b.transitionIds
  BY DEF RecvPlaced, Grows, IdsGrow, RecvRow
<1> QED
  BY <1>1, <1>2 DEF RecvPlaced, SameRecvs

\* The row of a send stays that of the send.
LEMMA RowLater ==
  ASSUME NEW a, NEW b, Grows(a, b), NEW o, NEW place, NEW x, NEW s,
         SentRow(a, o, place, x, s)
  PROVE  SentRow(b, o, place, x, s)
<1>1. IsPart(b, s.srcSubslice, o.sub, x)
  BY PartLater DEF SentRow
<1>2. /\ o.channel \in DOMAIN b.transitionIds
      /\ b.transitionIds[o.channel] = a.transitionIds[o.channel]
  BY DEF SentRow, Grows, IdsGrow
<1>3. /\ place.slice \in DOMAIN b.slices
      /\ b.slices[place.slice].l1Offset = a.slices[place.slice].l1Offset
      /\ b.slices[place.slice].slotBytes = a.slices[place.slice].slotBytes
  BY DEF SentRow, Grows, SlicesGrow, SameRoom
<1> QED
  BY <1>1, <1>2, <1>3 DEF SentRow

\* The walks only go on.
Onward(p, ph, k, ph2, k2) ==
  /\ \A i \in TileRecvs(p) : Met(ph, k, i) => Met(ph2, k2, i)
  /\ \A i \in TransferSends(p) :
       /\ Sent(ph, k, i) => Sent(ph2, k2, i)
       /\ Done(ph2, k2, i) => Done(ph, k, i)

\* Receives that meet their rows meet them later.
LEMMA RecvsLater ==
  ASSUME NEW a, NEW b, Grows(a, b), SameRecvs(a, b), NEW places, NEW p, NEW m,
         NEW ph, NEW k, NEW ph2, NEW k2,
         \A i \in TileRecvs(p) : Met(ph, k, i) => Met(ph2, k2, i),
         RecvsMeet(a, places, p, m, ph, k)
  PROVE  RecvsMeet(b, places, p, m, ph2, k2)
<1>1. ChannelsPlaced(b, places, p, m, ph2, k2)
  <2> SUFFICES ASSUME NEW c \in DOMAIN places
               PROVE  \E i \in TileRecvs(p) :
                        /\ p.run[i].channel = c /\ Met(ph2, k2, i)
                        /\ RecvPlaced(b, p.run[i], places[c], m[p.run[i].result])
    BY DEF ChannelsPlaced
  <2>1. PICK i \in TileRecvs(p) :
          /\ p.run[i].channel = c /\ Met(ph, k, i)
          /\ RecvPlaced(a, p.run[i], places[c], m[p.run[i].result])
    BY DEF RecvsMeet, ChannelsPlaced
  <2>2. RecvPlaced(b, p.run[i], places[c], m[p.run[i].result])
    BY <2>1, PlacedLater
  <2> QED
    BY <2>1, <2>2
<1>2. RecvsNamed(b, places, p)
  <2> SUFFICES ASSUME NEW n \in DOMAIN b.recvs
               PROVE  \E i \in TileRecvs(p) :
                        /\ p.run[i].channel \in DOMAIN places
                        /\ p.run[i].channel \in DOMAIN b.transitionIds
                        /\ b.recvs[n] = RecvRow(b, p.run[i], places[p.run[i].channel])
    BY DEF RecvsNamed
  <2>1. PICK i \in TileRecvs(p) :
          /\ p.run[i].channel \in DOMAIN places
          /\ p.run[i].channel \in DOMAIN a.transitionIds
          /\ a.recvs[n] = RecvRow(a, p.run[i], places[p.run[i].channel])
    BY DEF RecvsMeet, RecvsNamed, SameRecvs
  <2>2. /\ p.run[i].channel \in DOMAIN b.transitionIds
        /\ b.transitionIds[p.run[i].channel] = a.transitionIds[p.run[i].channel]
    BY <2>1 DEF Grows, IdsGrow
  <2> QED
    BY <2>1, <2>2 DEF RecvRow, SameRecvs
<1>3. PlansPlaced(b)
  BY DEF RecvsMeet, PlansPlaced, SameRecvs
<1> QED
  BY <1>1, <1>2, <1>3 DEF RecvsMeet

\* Sends that have their rows keep them.
LEMMA SendsLater ==
  ASSUME NEW a, NEW b, Grows(a, b), b.sends = a.sends, NEW places, NEW p, NEW m,
         NEW ph, NEW k, NEW ph2, NEW k2, Onward(p, ph, k, ph2, k2),
         SendsMeet(a, places, p, m, ph, k)
  PROVE  SendsMeet(b, places, p, m, ph2, k2)
<1>1. ASSUME NEW i, NEW n, RowOf(a, places, p, m, i, n)
      PROVE  RowOf(b, places, p, m, i, n)
  BY <1>1, RowLater DEF RowOf
<1>2. \A n \in DOMAIN b.sends : \E i \in TransferSends(p) :
        Sent(ph2, k2, i) /\ RowOf(b, places, p, m, i, n)
  BY <1>1 DEF SendsMeet, Onward
<1>3. \A i \in TransferSends(p) : Done(ph2, k2, i) =>
        \E n \in DOMAIN b.sends : RowOf(b, places, p, m, i, n)
  BY <1>1 DEF SendsMeet, Onward
<1> QED
  BY <1>2, <1>3 DEF SendsMeet

\* Transfers that are kept as they are.
LEMMA TransfersLater ==
  ASSUME NEW a, NEW b, Grows(a, b), SameTransfers(a, b), NEW r, NEW r2,
         r2.tileRecvs = r.tileRecvs, NEW p, NEW m,
         NEW ph, NEW k, NEW ph2, NEW k2, Onward(p, ph, k, ph2, k2),
         TransfersMeet(a, r, p, m, ph, k)
  PROVE  TransfersMeet(b, r2, p, m, ph2, k2)
<1>1. RecvsMeet(b, r.tileRecvs, p, m, ph2, k2)
  BY RecvsLater DEF TransfersMeet, Onward, SameTransfers
<1>2. SendsMeet(b, r.tileRecvs, p, m, ph2, k2)
  BY SendsLater DEF TransfersMeet, SameTransfers, SameRecvs
<1> QED
  BY <1>1, <1>2 DEF TransfersMeet

-----------------------------------------------------------------------------
(* Steps of the walks *)

\* What is put into the table of values is housed if its slice is a home.
LEMMA ValuePut ==
  ASSUME NEW a, NEW m, NEW table, ValuesHoused(a, table, m), NEW v, NEW sub,
         LivesAt(a, a.subslices[sub].slice, m[v])
  PROVE  ValuesHoused(a, Put(table, v, sub), m)
BY DEF ValuesHoused, Put

\* A table has what is put into it, and what was there.
LEMMA PutDomain ==
  ASSUME NEW table, NEW v, NEW x
  PROVE  /\ DOMAIN Put(table, v, x) = DOMAIN table \cup {v}
         /\ Put(table, v, x)[v] = x
         /\ \A w \in DOMAIN table : w # v => Put(table, v, x)[w] = table[w]
BY DEF Put

\* The operations of a well-formed module are numbered.
LEMMA Numbered ==
  ASSUME NEW p, ProgramOK(p)
  PROVE  /\ Len(p.run) \in Nat /\ DOMAIN p.run = 1..Len(p.run)
         /\ \A i \in DOMAIN p.run : OpOK(p.run[i]) /\ i \in Nat \ {0}
         /\ TransferSends(p) \subseteq DOMAIN p.run
         /\ TileRecvs(p) \subseteq DOMAIN p.run
<1>1. RegionOK(p.run)
  BY DEF ProgramOK
<1>2. Len(p.run) \in Nat /\ DOMAIN p.run = 1..Len(p.run)
  BY <1>1 DEF RegionOK
<1> QED
  BY <1>1, <1>2 DEF RegionOK, TransferSends, TileRecvs

\* Passing an operation that is no send to a tile.
LEMMA PassedOn ==
  ASSUME NEW p, ProgramOK(p), NEW k \in Nat \ {0}, NEW ph,
         ph = "run" => k \notin TransferSends(p)
  PROVE  Onward(p, ph, k, ph, k + 1)
<1>1. \A i \in TransferSends(p) \cup TileRecvs(p) : i \in Nat
  BY Numbered
<1> QED
  BY <1>1 DEF Onward, Met, Sent, Done

\* The handlers that collect no transfer have their values and their slices to
\* care for alone.
LEMMA StepWired ==
  ASSUME NEW p, ProgramOK(p), NEW k \in Nat \ {0}, NEW ph, NEW m,
         NEW a, NEW r, RunFits(r, a), Wiring(a, r, p, m, ph, k),
         NEW b, Grows(a, b), SameTransfers(a, b),
         NEW r2, r2.tileRecvs = r.tileRecvs, Housed(b, r2, p, m),
         DOMAIN r.subsliceOf \subseteq DOMAIN r2.subsliceOf,
         ph = "run" => k \notin TransferSends(p),
         k \in DOMAIN p.run /\ Known(p, ph, k + 1, k) =>
           p.run[k].result \in DOMAIN r2.subsliceOf
  PROVE  Wiring(b, r2, p, m, ph, k + 1)
<1>1. TransfersMeet(b, r2, p, m, ph, k + 1)
  BY PassedOn, TransfersLater DEF Wiring
<1>2. Recorded(r2, p, ph, k + 1)
  <2> SUFFICES ASSUME NEW i \in DOMAIN p.run, Known(p, ph, k + 1, i)
               PROVE  p.run[i].result \in DOMAIN r2.subsliceOf
    BY DEF Recorded
  <2>1. i = k \/ Known(p, ph, k, i)
    BY Numbered DEF Known
  <2> QED
    BY <2>1 DEF Wiring, Recorded
<1> QED
  BY <1>1, <1>2 DEF Wiring

\* A value that is given a subslice by a handler that has placed its slice.
LEMMA ValueWired ==
  ASSUME IInv, NEW m, Wiring(app, run, prog, m, phase, pos),
         pos \notin TransferSends(prog),
         Quiet(app, app'), NEW n, NEW result,
         LivesAt(app', app'.subslices[n].slice, m[result]),
         run' = [run EXCEPT !.subsliceOf = Put(@, result, n)],
         pos \in DOMAIN prog.run /\ Known(prog, phase, pos + 1, pos) =>
           prog.run[pos].result = result
  PROVE  Wiring(app', run', prog, m, phase, pos + 1)
<1>1. AppOK(app) /\ RunFits(run, app) /\ ProgramOK(prog) /\ pos \in Nat \ {0}
  BY Facts
<1>2. /\ run'.tileRecvs = run.tileRecvs /\ run'.aggregates = run.aggregates
      /\ run'.produced = run.produced
      /\ run'.subsliceOf = Put(run.subsliceOf, result, n)
  BY <1>1 DEF RunFits
<1>3. Housed(app', run, prog, m)
  BY <1>1, HousedLater DEF Wiring, Quiet
<1>4. ValuesHoused(app', run'.subsliceOf, m)
  BY <1>2, <1>3, ValuePut DEF Housed
<1>5. Housed(app', run', prog, m)
  BY <1>2, <1>3, <1>4 DEF Housed
<1>6. /\ DOMAIN run.subsliceOf \subseteq DOMAIN run'.subsliceOf
      /\ result \in DOMAIN run'.subsliceOf
  BY ONLY <1>2 DEF Put
<1> QED
  BY <1>1, <1>2, <1>5, <1>6, StepWired DEF Quiet

\* A value that is given a subslice of a slice where it may live.
LEMMA AliasWired ==
  ASSUME IInv, NEW m, Wiring(app, run, prog, m, phase, pos),
         pos \notin TransferSends(prog),
         NEW x \in SubsliceType(app), NEW result, LivesAt(app, x.slice, m[result]),
         app' = AddSubslice(app, x),
         run' = [run EXCEPT !.subsliceOf =
                              Put(@, result, Len(app.subslices) + 1)],
         pos \in DOMAIN prog.run /\ Known(prog, phase, pos + 1, pos) =>
           prog.run[pos].result = result
  PROVE  Wiring(app', run', prog, m, phase, pos + 1)
<1>1. AppOK(app)
  BY Facts
<1>2. /\ Quiet(app, app') /\ app'.slices = app.slices
      /\ app'.subslices[Len(app.subslices) + 1] = x
  BY <1>1, SubsliceIsQuiet
<1>3. LivesAt(app', app'.subslices[Len(app.subslices) + 1].slice, m[result])
  BY <1>2, LivesLater DEF Quiet
<1> QED
  BY <1>2, <1>3, ValueWired

\* Nothing is collected from the attributes of the module.
LEMMA BundleIsStill ==
  ASSUME NEW a, DOMAIN a = AppFields, NEW n, NEW attrs
  PROVE  LET b == WithBundle([a EXCEPT !.numTokenSlots = n], attrs)
         IN Quiet(a, b)
<1> DEFINE c == [a EXCEPT !.numTokenSlots = n]
           b == WithBundle(c, attrs)
<1>1. SameBut({"numTokenSlots", "hasPackedWeights", "weightsSize",
               "weightsAlignment", "l2End", "nextL2"}, a, b)
  <2>1. DOMAIN c = AppFields /\ SameBut({"numTokenSlots"}, a, c)
    BY DEF SameBut, AppFields
  <2> HIDE DEF c
  <2>2. SameBut({"hasPackedWeights", "weightsSize", "weightsAlignment",
                 "l2End", "nextL2"}, c, b)
    BY <2>1 DEF WithBundle, SameBut, AppFields
  <2> HIDE DEF b
  <2> QED
    BY <2>1, <2>2 DEF SameBut
<1> HIDE DEF b
<1>2. /\ b.slices = a.slices /\ b.subslices = a.subslices
      /\ b.transitionIds = a.transitionIds /\ b.initSlots = a.initSlots
      /\ b.recvs = a.recvs /\ b.sends = a.sends /\ b.plans = a.plans
  BY <1>1 DEF SameBut, AppFields
<1> QED
  BY <1>2, SameGrow, QuietWhenSame DEF SameTransfers, SameRecvs, b, c

\* A step that leaves the tables of the collection as they are.
LEMMA SameRunWired ==
  ASSUME IInv, NEW m, Wiring(app, run, prog, m, phase, pos),
         Quiet(app, app'), run' = run,
         Onward(prog, phase, pos, phase', pos'),
         \A i \in DOMAIN prog.run :
           Known(prog, phase', pos', i) => Known(prog, phase, pos, i)
  PROVE  Wiring(app', run', prog, m, phase', pos')
<1>1. RunFits(run, app)
  BY Facts
<1>2. Housed(app', run', prog, m)
  BY <1>1, HousedLater DEF Wiring, Quiet
<1>3. TransfersMeet(app', run', prog, m, phase', pos')
  BY TransfersLater DEF Wiring, Quiet
<1>4. Recorded(run', prog, phase', pos')
  BY DEF Wiring, Recorded
<1> QED
  BY <1>2, <1>3, <1>4 DEF Wiring

\* An operation that has nothing to alias.
LEMMA IdleWired ==
  ASSUME IInv, NEW m, Wiring(app, run, prog, m, phase, pos),
         app' = app, run' = run, phase' = phase, pos' = pos + 1,
         pos \notin TransferSends(prog), ~Known(prog, phase, pos + 1, pos)
  PROVE  Wiring(app', run', prog, m, phase', pos')
<1>1. ProgramOK(prog) /\ pos \in Nat \ {0}
  BY Facts
<1>2. Onward(prog, phase, pos, phase', pos')
  BY <1>1, PassedOn
<1>3. ASSUME NEW i \in DOMAIN prog.run, Known(prog, phase, pos + 1, i)
      PROVE  Known(prog, phase, pos, i)
  <2>1. i # pos
    BY <1>3
  <2> QED
    BY <1>1, <1>3, <2>1, Numbered DEF Known
<1> QED
  BY <1>2, <1>3, NothingIsQuiet, SameRunWired

\* The wiring survives the reading of the attributes.
LEMMA AttrsWired ==
  ASSUME IInv, NEW m, Wiring(app, run, prog, m, phase, pos), CollectModuleAttrs
  PROVE  Wiring(app', run', prog, m, phase', pos')
<1>1. Quiet(app, app') /\ run' = run /\ phase = "attrs" /\ phase' = "init"
  BY Facts, BundleIsStill DEF CollectModuleAttrs, AppOK
<1>2. Onward(prog, phase, pos, phase', pos')
  BY <1>1 DEF Onward, Met, Sent, Done
<1> QED
  BY <1>1, <1>2, SameRunWired DEF Known

\* The wiring survives the operations no handler is for.
LEMMA PassWired ==
  ASSUME IInv, NEW m, Wiring(app, run, prog, m, phase, pos), PassOver
  PROVE  Wiring(app', run', prog, m, phase', pos')
<1>1. /\ Quiet(app, app') /\ run' = run /\ phase' = phase /\ pos' = pos + 1
      /\ phase \in {"init", "recvs", "run"} /\ IsPassedOver(Walked[pos])
  BY NothingIsQuiet DEF PassOver
<1>2. ProgramOK(prog) /\ pos \in Nat \ {0}
  BY Facts
<1>3. ASSUME phase = "run"
      PROVE  /\ pos \notin TransferSends(prog)
             /\ /\ pos \in DOMAIN prog.run
                /\ prog.run[pos].op \in {"recv", "load", "compute"}
                => IsTileRecv(prog.run[pos])
  <2>1. /\ IsPassedOver(prog.run[pos]) /\ L2 = -1
        /\ pos \in DOMAIN prog.run => OpOK(prog.run[pos])
    BY <1>1, <1>2, <1>3, Numbered DEF Walked, L2
  <2> DEFINE o == prog.run[pos]
  <2>2. \/ o.op \notin {"recv", "load", "extract", "insert", "compute", "send"}
        \/ IsTileRecv(o) \/ IsL2Send(o)
    BY <1>3, <2>1 DEF IsPassedOver
  <2> QED
    BY <2>1, <2>2 DEF TransferSends, IsTileSend, IsTileRecv, IsL2Send
<1>4. Onward(prog, phase, pos, phase', pos')
  BY <1>1, <1>2, <1>3, PassedOn
<1>5. \A i \in DOMAIN prog.run :
        Known(prog, phase', pos', i) => Known(prog, phase, pos, i)
  <2> SUFFICES ASSUME NEW i \in DOMAIN prog.run, Known(prog, phase, pos + 1, i),
                      ~Known(prog, phase, pos, i)
               PROVE  FALSE
    BY <1>1
  <2>1. i = pos
    BY <1>2, Numbered DEF Known
  <2>2. phase # "init"
    BY DEF Known
  <2>3. CASE phase = "run"
    BY <1>3, <2>1, <2>3 DEF Known
  <2>4. CASE phase = "recvs"
    BY <1>1, <2>1, <2>4 DEF Known, IsPassedOver, Walked
  <2> QED
    BY <1>1, <2>2, <2>3, <2>4
<1> QED
  BY <1>1, <1>4, <1>5, SameRunWired

\* The wiring survives the end of a walk: all receives between tiles are known
\* when the run region is walked, and all its sends have been passed in the end.
LEMMA EndWired ==
  ASSUME IInv, NEW m, Wiring(app, run, prog, m, phase, pos), EndWalk
  PROVE  Wiring(app', run', prog, m, phase', pos')
<1>1. /\ Quiet(app, app') /\ run' = run /\ pos' = 1 /\ pos > Len(Walked)
      /\ \/ phase = "init" /\ phase' = "recvs"
         \/ phase = "recvs" /\ phase' = "run"
         \/ phase = "run" /\ phase' = "done"
  BY NothingIsQuiet DEF EndWalk
<1>2. ProgramOK(prog) /\ pos \in Nat \ {0}
  BY Facts
<1>3. phase # "init" => \A i \in DOMAIN prog.run : i < pos
  BY <1>1, <1>2, Numbered DEF Walked
<1>4. \A i \in DOMAIN prog.run : ~(i < 1)
  BY <1>2, Numbered
<1>5. Onward(prog, phase, pos, phase', pos')
  BY <1>1, <1>2, <1>3, <1>4, Numbered DEF Onward, Met, Sent, Done
<1>6. \A i \in DOMAIN prog.run :
        Known(prog, phase', pos', i) => Known(prog, phase, pos, i)
  BY <1>1, <1>3, <1>4 DEF Known
<1> QED
  BY <1>1, <1>5, <1>6, SameRunWired

\* The wiring survives a refusal.
LEMMA RefuseWired ==
  ASSUME IInv, NEW m, Wiring(app, run, prog, m, phase, pos), Refuse
  PROVE  Wiring(app', run', prog, m, phase', pos')
<1>1. Quiet(app, app') /\ run' = run /\ phase' = "failed"
  BY NothingIsQuiet DEF Refuse
<1>2. Onward(prog, phase, pos, phase', pos')
  BY <1>1 DEF Onward, Met, Sent, Done
<1> QED
  BY <1>1, <1>2, SameRunWired DEF Known

-----------------------------------------------------------------------------
(* The handlers that collect no transfer *)

\* The wiring survives collectInitializerStore, which gives an initializer's
\* slot its slice.
LEMMA StoreWired ==
  ASSUME IInv, NEW m, HomesAgree(prog, m),
         Wiring(app, run, prog, m, phase, pos), CollectInitializerStore
  PROVE  Wiring(app', run', prog, m, phase', pos')
<1> DEFINE o == prog.init[pos]
           source == L2Sources(prog.init)[o.channel]
           s == StoreSlice(o, source)
           a == AllocateSliceInTileL1(app, s)
           b == [a EXCEPT !.initSlots =
                            Put(@, <<o.tile, o.slot>>, Len(a.slices))]
<1>1. /\ phase = "init" /\ pos <= Len(prog.init) /\ o.op = "store"
      /\ CanStore(o, source)
      /\ app' = AddL2ReadForSlice(b, Len(a.slices), "Initializer", source, 1)
      /\ pos' = pos + 1 /\ prog' = prog /\ phase' = phase /\ run' = run
  BY DEF CollectInitializerStore, Step
<1>2. /\ AppOK(app) /\ RunFits(run, app) /\ OpOK(o) /\ ProgramOK(prog)
      /\ pos \in Nat \ {0}
  BY <1>1, Facts
<1>3. pos \in DOMAIN prog.init
  <2>1. RegionOK(prog.init)
    BY <1>2 DEF ProgramOK
  <2>2. Len(prog.init) \in Nat /\ DOMAIN prog.init = 1..Len(prog.init)
    BY <2>1 DEF RegionOK
  <2>3. pos <= Len(prog.init) /\ pos \in Nat \ {0}
    BY <1>1, <1>2
  <2> QED
    BY ONLY <2>2, <2>3
<1>4. SourceOK(source)
  BY <1>1, <1>2, <1>3 DEF ProgramOK, RegionOK
<1>5. UnplacedOK(s)
  BY <1>1, <1>2, <1>4, ElementByteWidthNat
  DEF UnplacedOK, StoreSlice, NewSlice, OpOK, SourceOK, GlobalKinds
<1>6. /\ s.owner = o.tile /\ s.shape = o.type.shape
      /\ s.elemBytes = ElementByteWidth(o.type.elem)
  BY DEF StoreSlice, NewSlice
<1>7. \A i \in DOMAIN prog.run :
        /\ prog.run[i].op = "load"
        /\ prog.run[i].tile = o.tile /\ prog.run[i].slot = o.slot
        => m[prog.run[i].result] = ValueHome(o)
  BY <1>1, <1>3 DEF HomesAgree
<1>20. FitsInTileL1(app, s)
  BY <1>1 DEF CanStore
<1> HIDE DEF o, source, s
<1>8. /\ Quiet(app, a) /\ AppOK(a) /\ SameL2(app, a)
      /\ Len(a.slices) \in DOMAIN a.slices
      /\ a.slices[Len(a.slices)] = PlacedSlice(app, s)
  <2>1. /\ Quiet(app, a) /\ a.slices[Len(a.slices)] = PlacedSlice(app, s)
        /\ DOMAIN a.slices = DOMAIN app.slices \cup {Len(a.slices)}
    BY <1>2, <1>5, AllocateIsQuiet
  <2>2. Extends(app, a) /\ SameL2(app, a)
    BY <1>2, <1>5, <1>20, AllocateExtends
  <2> QED
    BY <2>1, <2>2 DEF Extends
<1>9. LivesAt(a, Len(a.slices), ValueHome(o))
  BY <1>6, <1>8 DEF LivesAt, ValueHome, Home, PlacedSlice
<1> HIDE DEF a
<1>10. /\ Extends(a, b) /\ SameL2(a, b) /\ b.slices = a.slices
       /\ b.subslices = a.subslices
  <2>1. AppOK(a) /\ Len(a.slices) \in DOMAIN a.slices
    BY <1>8
  <2> DEFINE slot == <<o.tile, o.slot>>
             i == Len(a.slices)
  <2>2. b = [a EXCEPT !.initSlots = Put(@, slot, i)]
    OBVIOUS
  <2> HIDE DEF b, slot, i
  <2> QED
    BY ONLY <2>1, <2>2, InitSlotExtends DEF i
<1>11. /\ SameBut({"initSlots"}, a, b)
       /\ b.initSlots = Put(app.initSlots, <<o.tile, o.slot>>, Len(a.slices))
  <2>1. DOMAIN a = AppFields /\ a.initSlots = app.initSlots
    BY <1>8 DEF AppOK, Quiet
  <2> QED
    BY <2>1 DEF SameBut, AppFields
<1> HIDE DEF b
<1>12. Grows(a, b) /\ SameTransfers(a, b)
  <2>1. /\ b.transitionIds = a.transitionIds
        /\ b.recvs = a.recvs /\ b.sends = a.sends /\ b.plans = a.plans
    BY <1>11 DEF SameBut, AppFields
  <2> QED
    BY <1>10, <2>1, SameGrow DEF Grows, SameTransfers, SameRecvs
<1>13. AppOK(b) /\ Len(a.slices) \in DOMAIN b.slices
  BY <1>8, <1>10 DEF Extends
<1>14. Quiet(b, app')
  <2>1. WantedGlobal("Initializer", source, 1)
    BY <1>4 DEF WantedGlobal, SourceOK, GlobalKinds
  <2>2. CanGetL2Global(b, "Initializer", source, 1)
    BY <1>1, <1>8, <1>10, SameL2Can DEF CanStore
  <2> QED
    BY <1>1, <1>13, <2>1, <2>2, ReadIsQuiet
<1>15. Grows(app, b) /\ Grows(b, app') /\ Grows(app, app')
  BY <1>8, <1>12, <1>14, GrowsTransitive DEF Quiet
<1>16. SameTransfers(app, app')
  BY <1>8, <1>12, <1>14 DEF Quiet, SameTransfers, SameRecvs
<1>17. Housed(app', run, prog, m)
  <2>1. SlotsHoused(app', prog, m)
    <3> SUFFICES ASSUME NEW i \in DOMAIN prog.run, prog.run[i].op = "load",
                        <<prog.run[i].tile, prog.run[i].slot>> \in DOMAIN app'.initSlots
                 PROVE  LivesAt(app', app'.initSlots[<<prog.run[i].tile, prog.run[i].slot>>],
                                m[prog.run[i].result])
      BY DEF SlotsHoused
    <3> DEFINE key == <<prog.run[i].tile, prog.run[i].slot>>
    <3>1. app'.initSlots = Put(app.initSlots, <<o.tile, o.slot>>, Len(a.slices))
      BY <1>11, <1>14 DEF Quiet
    <3>2. CASE key = <<o.tile, o.slot>>
      <4>1. m[prog.run[i].result] = ValueHome(o)
        BY <1>7, <3>2
      <4>2. LivesAt(b, Len(a.slices), ValueHome(o))
        BY <1>9, <1>12, LivesLater
      <4>3. LivesAt(app', Len(a.slices), ValueHome(o))
        BY <1>15, <4>2, LivesLater
      <4>4. app'.initSlots[key] = Len(a.slices)
        BY ONLY <3>1, <3>2 DEF Put
      <4> QED
        BY <4>1, <4>3, <4>4
    <3>3. CASE key # <<o.tile, o.slot>>
      <4>1. key \in DOMAIN app.initSlots /\ app'.initSlots[key] = app.initSlots[key]
        BY ONLY <3>1, <3>3, key \in DOMAIN app'.initSlots DEF Put
      <4>2. LivesAt(app, app.initSlots[key], m[prog.run[i].result])
        BY <4>1 DEF Wiring, Housed, SlotsHoused
      <4> QED
        BY <1>15, <4>1, <4>2, LivesLater
    <3> QED
      BY <3>2, <3>3
  <2> QED
    BY <1>2, <1>15, <2>1, TablesLater DEF Wiring
<1>18. ~Known(prog, phase, pos + 1, pos)
  BY <1>1 DEF Known
<1>19. Wiring(app', run, prog, m, phase, pos + 1)
  BY <1>1, <1>2, <1>15, <1>16, <1>17, <1>18, StepWired
<1> QED
  BY <1>1, <1>19

\* The wiring survives collectInputRecv.
LEMMA InputWired ==
  ASSUME IInv, NEW m, HomesAgree(prog, m),
         Wiring(app, run, prog, m, phase, pos), CollectInputRecv
  PROVE  Wiring(app', run', prog, m, phase', pos')
<1> DEFINE o == prog.run[pos]
           source == L2Sources(prog.run)[o.channel]
           s == InputSlice(o, source)
           a == AllocateSliceInTileL1(app, s)
           b == AddSubslice(a, WholeSubslice(a, Len(a.slices)))
           n == Len(b.subslices)
<1>1. /\ phase = "run" /\ pos <= Len(prog.run) /\ o.op = "recv" /\ o.src = L2
      /\ o.channel \in DOMAIN L2Sources(prog.run)
      /\ CanCollectInput(o, source)
      /\ app' = AddL2ReadForSlice(b, Len(a.slices), "Input", source,
                                  app.numTokens)
      /\ run' = [run EXCEPT !.subsliceOf = Put(@, o.result, n)]
      /\ pos' = pos + 1 /\ prog' = prog /\ phase' = phase
  BY DEF CollectInputRecv, Step
<1>2. /\ AppOK(app) /\ RunFits(run, app) /\ OpOK(o) /\ ProgramOK(prog)
      /\ pos \in Nat \ {0} /\ app.numTokens \in Nat /\ app.numTokenSlots \in Nat
  BY <1>1, Facts
<1>3. pos \in DOMAIN prog.run
  BY <1>1, <1>2, Numbered
<1>4. SourceOK(source)
  BY <1>1, <1>2 DEF ProgramOK, RegionOK
<1>5. /\ m[o.result] = ValueHome(o) /\ prog.run[pos].result = o.result
      /\ pos \notin TransferSends(prog)
  BY <1>1, <1>3 DEF HomesAgree, TransferSends, IsTileSend
<1>6. UnplacedOK(s)
  BY <1>1, <1>2, <1>4, ElementByteWidthNat
  DEF UnplacedOK, InputSlice, NewSlice, OpOK, SourceOK, GlobalKinds
<1>7. /\ s.owner = o.tile /\ s.shape = o.type.shape
      /\ s.elemBytes = ElementByteWidth(o.type.elem)
  BY DEF InputSlice, NewSlice
<1>8. FitsInTileL1(app, s) /\ CanGetL2Global(app, "Input", source, app.numTokens)
  BY <1>1 DEF CanCollectInput
<1> HIDE DEF o, source, s
<1>9. /\ Quiet(app, a) /\ AppOK(a) /\ SameL2(app, a)
      /\ Len(a.slices) \in DOMAIN a.slices
      /\ a.slices[Len(a.slices)] = PlacedSlice(app, s)
  <2>1. /\ Quiet(app, a) /\ a.slices[Len(a.slices)] = PlacedSlice(app, s)
        /\ DOMAIN a.slices = DOMAIN app.slices \cup {Len(a.slices)}
    BY <1>2, <1>6, AllocateIsQuiet
  <2>2. Extends(app, a) /\ SameL2(app, a)
    BY <1>2, <1>6, <1>8, AllocateExtends
  <2> QED
    BY <2>1, <2>2 DEF Extends
<1>10. LivesAt(a, Len(a.slices), ValueHome(o))
  BY <1>7, <1>9 DEF LivesAt, ValueHome, Home, PlacedSlice
<1> HIDE DEF a
<1>11. /\ Quiet(a, b) /\ AppOK(b) /\ SameL2(a, b) /\ b.slices = a.slices
       /\ n \in DOMAIN b.subslices
       /\ b.subslices[n].slice = Len(a.slices)
  <2>1. /\ Quiet(a, b) /\ n \in DOMAIN b.subslices
        /\ b.subslices[n] = WholeSubslice(a, Len(a.slices))
    BY <1>9, SubsliceIsQuiet
  <2>2. Extends(a, b) /\ SameL2(a, b) /\ b.slices = a.slices
    BY <1>9, WholeExtends
  <2> QED
    BY <2>1, <2>2 DEF Extends, WholeSubslice
<1> HIDE DEF b, n
<1>12. Quiet(b, app')
  <2>1. WantedGlobal("Input", source, app.numTokens)
    BY <1>2, <1>4 DEF WantedGlobal, SourceOK, GlobalKinds
  <2>2. CanGetL2Global(b, "Input", source, app.numTokens)
    BY <1>8, <1>9, <1>11, SameL2Can
  <2> QED
    BY <1>1, <1>9, <1>11, <2>1, <2>2, ReadIsQuiet
<1>13. Quiet(app, app')
  BY <1>9, <1>11, <1>12, QuietTransitive
<1>14. LivesAt(app', app'.subslices[n].slice, m[o.result])
  <2>1. app'.subslices[n].slice = Len(a.slices)
    BY <1>11, <1>12 DEF Quiet, Grows, SubslicesGrow
  <2>2. LivesAt(b, Len(a.slices), ValueHome(o))
    BY <1>10, <1>11, LivesLater DEF Quiet
  <2> QED
    BY <1>5, <1>12, <2>1, <2>2, LivesLater DEF Quiet
<1> QED
  BY <1>1, <1>2, <1>3, <1>5, <1>13, <1>14, ValueWired

\* The wiring survives collectLoad: the value lives where the slot does.
LEMMA LoadWired ==
  ASSUME IInv, NEW m, Wiring(app, run, prog, m, phase, pos), CollectLoad
  PROVE  Wiring(app', run', prog, m, phase', pos')
<1> DEFINE o == prog.run[pos]
           i == app.initSlots[<<o.tile, o.slot>>]
<1>1. /\ phase = "run" /\ pos <= Len(prog.run) /\ o.op = "load"
      /\ <<o.tile, o.slot>> \in DOMAIN app.initSlots
      /\ app' = AddSubslice(app, WholeSubslice(app, i))
      /\ run' = [run EXCEPT !.subsliceOf =
                              Put(@, o.result, Len(app.subslices) + 1)]
      /\ pos' = pos + 1 /\ phase' = phase
  BY DEF CollectLoad, Step
<1>2. AppOK(app) /\ ProgramOK(prog) /\ pos \in Nat \ {0}
  BY Facts
<1>3. pos \in DOMAIN prog.run
  BY <1>1, <1>2, Numbered
<1>4. LivesAt(app, i, m[o.result])
  BY <1>1, <1>3 DEF Wiring, Housed, SlotsHoused
<1>5. pos \notin TransferSends(prog) /\ prog.run[pos].result = o.result
  BY <1>1 DEF TransferSends, IsTileSend
<1> HIDE DEF o, i
<1>6. WholeSubslice(app, i) \in SubsliceType(app)
  <2>1. BoxOK(NoBox)
    BY DEF BoxOK
  <2> QED
    BY <1>2, <1>4, <2>1, SubsliceOfSlice DEF LivesAt
<1>7. WholeSubslice(app, i).slice = i
  BY DEF WholeSubslice
<1> QED
  BY <1>1, <1>4, <1>5, <1>6, <1>7, AliasWired

\* The wiring survives collectExtractSliceAlias: the part lives with the whole.
LEMMA ExtractWired ==
  ASSUME IInv, NEW m, HomesAgree(prog, m),
         Wiring(app, run, prog, m, phase, pos), CollectExtractSliceAlias
  PROVE  Wiring(app', run', prog, m, phase', pos')
<1> DEFINE o == prog.run[pos]
           x == [ slice |-> app.subslices[run.subsliceOf[o.operand]].slice,
                  offset |-> o.off, shape |-> o.len ]
<1>1. /\ phase = "run" /\ pos <= Len(prog.run) /\ o.op = "extract"
      /\ IF o.operand \in DOMAIN run.subsliceOf
         THEN /\ app' = AddSubslice(app, x)
              /\ run' = [run EXCEPT !.subsliceOf =
                                      Put(@, o.result, Len(app.subslices) + 1)]
         ELSE UNCHANGED <<app, run>>
      /\ pos' = pos + 1 /\ phase' = phase
  BY DEF CollectExtractSliceAlias, Step
<1>2. /\ AppOK(app) /\ RunFits(run, app) /\ OpOK(o) /\ ProgramOK(prog)
      /\ pos \in Nat \ {0}
  BY <1>1, Facts
<1>3. pos \in DOMAIN prog.run
  BY <1>1, <1>2, Numbered
<1>4. pos \notin TransferSends(prog) /\ ~Known(prog, phase, pos + 1, pos)
  BY <1>1 DEF TransferSends, IsTileSend, Known, IsTileRecv
<1>5. m[o.result] = m[o.operand]
  BY <1>1, <1>3 DEF HomesAgree
<1>6. CASE o.operand \in DOMAIN run.subsliceOf
  <2>1. run.subsliceOf[o.operand] \in DOMAIN app.subslices
    BY <1>2, <1>6 DEF RunFits, IsTable
  <2>2. app.subslices[run.subsliceOf[o.operand]] \in SubsliceType(app)
    BY <1>2, <2>1 DEF AppOK, PlacesOK
  <2>3. x \in SubsliceType(app)
    BY <1>1, <1>2, <2>2 DEF SubsliceType, OpOK
  <2>4. LivesAt(app, x.slice, m[o.result])
    BY <1>5, <1>6 DEF Wiring, Housed, ValuesHoused
  <2> HIDE DEF o, x
  <2> QED
    BY <1>1, <1>4, <1>6, <2>3, <2>4, AliasWired
<1>7. CASE o.operand \notin DOMAIN run.subsliceOf
  BY <1>1, <1>2, <1>4, <1>7, IdleWired
<1> QED
  BY <1>6, <1>7

\* The wiring survives collectInsertSliceAlias: the assembled value lives where
\* its pieces do.
LEMMA InsertWired ==
  ASSUME IInv, NEW m, HomesAgree(prog, m),
         Wiring(app, run, prog, m, phase, pos), CollectInsertSliceAlias
  PROVE  Wiring(app', run', prog, m, phase', pos')
<1> DEFINE o == prog.run[pos]
           i == app.subslices[InsertTarget(o)].slice
           known == {o.dest, o.source} \cap DOMAIN run.subsliceOf # {}
<1>1. /\ phase = "run" /\ pos <= Len(prog.run) /\ o.op = "insert"
      /\ IF known
         THEN /\ app' = AddSubslice(app, WholeSubslice(app, i))
              /\ run' = [run EXCEPT !.subsliceOf =
                                      Put(@, o.result, Len(app.subslices) + 1)]
         ELSE UNCHANGED <<app, run>>
      /\ pos' = pos + 1 /\ phase' = phase
  BY DEF CollectInsertSliceAlias, Step
<1>2. /\ AppOK(app) /\ ProgramOK(prog) /\ pos \in Nat \ {0}
  BY <1>1, Facts
<1>3. pos \in DOMAIN prog.run
  BY <1>1, <1>2, Numbered
<1>4. pos \notin TransferSends(prog) /\ ~Known(prog, phase, pos + 1, pos)
  BY <1>1 DEF TransferSends, IsTileSend, Known, IsTileRecv
<1>5. m[o.result] = m[o.source] /\ m[o.result] = m[o.dest]
  BY <1>1, <1>3 DEF HomesAgree
<1>6. CASE known
  <2>1. LivesAt(app, i, m[o.result])
    BY <1>5, <1>6 DEF InsertTarget, Wiring, Housed, ValuesHoused
  <2> HIDE DEF i, o
  <2>2. WholeSubslice(app, i) \in SubsliceType(app)
    <3>1. BoxOK(NoBox)
      BY DEF BoxOK
    <3> QED
      BY <1>2, <2>1, <3>1, SubsliceOfSlice DEF LivesAt
  <2>3. WholeSubslice(app, i).slice = i
    BY DEF WholeSubslice
  <2> QED
    BY <1>1, <1>4, <1>6, <2>1, <2>2, <2>3, AliasWired
<1>7. CASE ~known
  BY <1>1, <1>2, <1>4, <1>7, IdleWired
<1> QED
  BY <1>6, <1>7

\* The keys of computed values and of sent ones differ, and those of what is
\* sent to tiles from those of what is sent to L2.
LEMMA KeysApart ==
  ASSUME NEW o1, NEW o2
  PROVE  /\ OpKey(o1) # SendKey(o2)
         /\ OpKey(o1) = OpKey(o2) => o1.result = o2.result
         /\ SendKey(o1) = SendKey(o2) => o1.root = o2.root
         /\ SendKey(o1) = SendKey(o2) =>
              /\ o1.dst = L2 <=> o2.dst = L2
              /\ o1.dst = L2 => o1.globalName = o2.globalName
BY DEF OpKey, SendKey, SendKind, SendName

\* A computed value's slice is remembered where it lives.
LEMMA OpPut ==
  ASSUME NEW a, NEW table, NEW p, NEW m, OpsHoused(a, table, p, m),
         RootsHoused(a, table, p, m), NEW o, NEW s, LivesAt(a, s, m[o.result])
  PROVE  /\ OpsHoused(a, Put(table, OpKey(o), s), p, m)
         /\ RootsHoused(a, Put(table, OpKey(o), s), p, m)
<1> DEFINE t == Put(table, OpKey(o), s)
<1>1. /\ DOMAIN t = DOMAIN table \cup {OpKey(o)}
      /\ t[OpKey(o)] = s
      /\ \A w \in DOMAIN table : w # OpKey(o) => t[w] = table[w]
  BY DEF Put
<1> HIDE DEF t
<1>2. OpsHoused(a, t, p, m)
  <2> SUFFICES ASSUME NEW i \in DOMAIN p.run, p.run[i].op = "compute",
                      OpKey(p.run[i]) \in DOMAIN t
               PROVE  LivesAt(a, t[OpKey(p.run[i])], m[p.run[i].result])
    BY DEF OpsHoused
  <2>1. CASE OpKey(p.run[i]) = OpKey(o)
    <3>1. p.run[i].result = o.result
      BY <2>1, KeysApart
    <3> QED
      BY <1>1, <2>1, <3>1
  <2>2. CASE OpKey(p.run[i]) # OpKey(o)
    BY <1>1, <2>2 DEF OpsHoused
  <2> QED
    BY <2>1, <2>2
<1>3. RootsHoused(a, t, p, m)
  <2> SUFFICES ASSUME NEW i \in KnownSends(p, m), SendKey(p.run[i]) \in DOMAIN t
               PROVE  LivesAt(a, t[SendKey(p.run[i])], m[p.run[i].root])
    BY DEF RootsHoused
  <2>1. SendKey(p.run[i]) # OpKey(o)
    BY KeysApart
  <2> QED
    BY <1>1, <2>1 DEF RootsHoused
<1> QED
  BY <1>2, <1>3 DEF t

\* So is that of a sent value, if it is known.
LEMMA RootPut ==
  ASSUME NEW a, NEW table, NEW p, NEW m, OpsHoused(a, table, p, m),
         RootsHoused(a, table, p, m), NEW k \in DOMAIN p.run,
         IsTileSend(p.run[k]), NEW o, o = p.run[k], NEW s,
         k \in KnownSends(p, m) => LivesAt(a, s, m[o.root])
  PROVE  /\ OpsHoused(a, Put(table, SendKey(o), s), p, m)
         /\ RootsHoused(a, Put(table, SendKey(o), s), p, m)
<1> DEFINE t == Put(table, SendKey(o), s)
<1>1. /\ DOMAIN t = DOMAIN table \cup {SendKey(o)}
      /\ t[SendKey(o)] = s
      /\ \A w \in DOMAIN table : w # SendKey(o) => t[w] = table[w]
  BY DEF Put
<1> HIDE DEF t
<1>2. OpsHoused(a, t, p, m)
  <2> SUFFICES ASSUME NEW i \in DOMAIN p.run, p.run[i].op = "compute",
                      OpKey(p.run[i]) \in DOMAIN t
               PROVE  LivesAt(a, t[OpKey(p.run[i])], m[p.run[i].result])
    BY DEF OpsHoused
  <2>1. OpKey(p.run[i]) # SendKey(o)
    BY KeysApart
  <2> QED
    BY <1>1, <2>1 DEF OpsHoused
<1>3. RootsHoused(a, t, p, m)
  <2> SUFFICES ASSUME NEW i \in KnownSends(p, m), SendKey(p.run[i]) \in DOMAIN t
               PROVE  LivesAt(a, t[SendKey(p.run[i])], m[p.run[i].root])
    BY DEF RootsHoused
  <2>1. CASE SendKey(p.run[i]) = SendKey(o)
    <3>1. p.run[i].root = o.root
      BY <2>1, KeysApart
    <3>2. k \in KnownSends(p, m)
      BY <2>1 DEF KnownSends
    <3> QED
      BY <1>1, <2>1, <3>1, <3>2
  <2>2. CASE SendKey(p.run[i]) # SendKey(o)
    BY <1>1, <2>2 DEF RootsHoused
  <2> QED
    BY <2>1, <2>2
<1> QED
  BY <1>2, <1>3 DEF t

\* The wiring survives collectComputeOp.
LEMMA ComputeWired ==
  ASSUME IInv, NEW m, HomesAgree(prog, m),
         Wiring(app, run, prog, m, phase, pos), CollectComputeOp
  PROVE  Wiring(app', run', prog, m, phase', pos')
<1> DEFINE o == prog.run[pos]
           s == ProducedIndex(app, OpKey(o))
           a == ProduceSlice(app, OpKey(o), OpSlice(o))
           b == AddSubslice(a, WholeSubslice(a, s))
           n == Len(b.subslices)
           op == [ owner |-> o.tile,
                   inputs |-> [k \in DOMAIN o.operands |->
                                 run.subsliceOf[o.operands[k]]],
                   output |-> n ]
<1>1. /\ phase = "run" /\ pos <= Len(prog.run) /\ o.op = "compute"
      /\ CanCollectOp(o)
      /\ app' = AddOp(b, op)
      /\ run' = [run EXCEPT !.produced = Put(@, OpKey(o), s),
                            !.subsliceOf = Put(@, o.result, n)]
      /\ pos' = pos + 1 /\ phase' = phase
  BY DEF CollectComputeOp, Step
<1>2. /\ AppOK(app) /\ RunFits(run, app) /\ OpOK(o) /\ ProgramOK(prog)
      /\ pos \in Nat \ {0} /\ app.numTokenSlots \in Nat
  BY <1>1, Facts
<1>3. pos \in DOMAIN prog.run
  BY <1>1, <1>2, Numbered
<1>4. /\ m[o.result] = ValueHome(o) /\ prog.run[pos].result = o.result
      /\ pos \notin TransferSends(prog)
  BY <1>1, <1>3 DEF HomesAgree, TransferSends, IsTileSend
<1>5. OpKey(o) \in DOMAIN run.produced =>
        LivesAt(app, run.produced[OpKey(o)], m[o.result])
  BY <1>1, <1>3 DEF Wiring, Housed, OpsHoused
<1> HIDE DEF o
<1>6. UnplacedOK(OpSlice(o))
  BY <1>1, <1>2, ElementByteWidthNat
  DEF UnplacedOK, OpSlice, ProducedSlice, NewSlice, OpOK, GlobalKinds
<1>7. /\ OpSlice(o).owner = o.tile /\ OpSlice(o).shape = o.type.shape
      /\ OpSlice(o).elemBytes = ElementByteWidth(o.type.elem)
  BY DEF OpSlice, ProducedSlice, NewSlice
<1>8. Extends(app, a)
  BY <1>1, <1>2, <1>6, ProduceExtends DEF CanCollectOp
<1>9. /\ Quiet(app, a) /\ s \in DOMAIN a.slices
      /\ OpKey(o) \in DOMAIN run.produced => s = run.produced[OpKey(o)]
      /\ OpKey(o) \notin DOMAIN run.produced =>
           /\ a.slices[s].owner = o.tile /\ a.slices[s].shape = o.type.shape
           /\ a.slices[s].elemBytes = ElementByteWidth(o.type.elem)
  BY <1>2, <1>6, <1>7, ProduceIsQuiet
<1>10. LivesAt(a, s, m[o.result])
  <2>1. CASE OpKey(o) \in DOMAIN run.produced
    BY <1>5, <1>9, <2>1, LivesLater DEF Quiet
  <2>2. CASE OpKey(o) \notin DOMAIN run.produced
    BY <1>4, <1>9, <2>2 DEF LivesAt, ValueHome, Home
  <2> QED
    BY <2>1, <2>2
<1>11. AppOK(a)
  BY <1>8 DEF Extends
<1> HIDE DEF a, s
<1>12. /\ Quiet(a, b) /\ n \in DOMAIN b.subslices
       /\ b.subslices[n] = WholeSubslice(a, s) /\ AppOK(b)
  BY <1>9, <1>11, SubsliceIsQuiet, WholeExtends DEF Extends
<1> HIDE DEF b, n
<1>13. Quiet(b, app')
  <2>1. op.owner \in Harts
    BY <1>1, <1>2 DEF OpOK
  <2> HIDE DEF op
  <2> QED
    BY <1>1, <1>12, <2>1, RowsAreQuiet
<1>14. Quiet(app, app')
  BY <1>9, <1>12, <1>13, QuietTransitive
<1>15. LivesAt(app', s, m[o.result])
  <2>1. LivesAt(b, s, m[o.result])
    BY <1>10, <1>12, LivesLater DEF Quiet
  <2> QED
    BY <1>13, <2>1, LivesLater DEF Quiet
<1>16. app'.subslices[n].slice = s
  BY <1>12, <1>13 DEF Quiet, Grows, SubslicesGrow, WholeSubslice
<1>17. /\ run'.tileRecvs = run.tileRecvs /\ run'.aggregates = run.aggregates
       /\ run'.produced = Put(run.produced, OpKey(o), s)
       /\ run'.subsliceOf = Put(run.subsliceOf, o.result, n)
  BY <1>1, <1>2 DEF RunFits
<1>18. Housed(app', run, prog, m)
  BY <1>2, <1>14, HousedLater DEF Wiring, Quiet
<1>19. Housed(app', run', prog, m)
  <2>1. ValuesHoused(app', run'.subsliceOf, m)
    BY <1>15, <1>16, <1>17, <1>18, ValuePut DEF Housed
  <2>2. /\ OpsHoused(app', run'.produced, prog, m)
        /\ RootsHoused(app', run'.produced, prog, m)
    BY <1>15, <1>17, <1>18, OpPut DEF Housed
  <2> QED
    BY <1>17, <1>18, <2>1, <2>2 DEF Housed
<1>20. /\ DOMAIN run.subsliceOf \subseteq DOMAIN run'.subsliceOf
       /\ o.result \in DOMAIN run'.subsliceOf
  BY ONLY <1>17 DEF Put
<1>21. Wiring(app', run', prog, m, phase, pos + 1)
  BY <1>2, <1>4, <1>14, <1>17, <1>19, <1>20, StepWired DEF Quiet
<1> QED
  BY <1>1, <1>21

\* A slice that is not there yet, or the one the value is known to live in.
LEMMA SourceHoused ==
  ASSUME IInv, NEW m, Wiring(app, run, prog, m, phase, pos), phase = "run",
         NEW o, o = prog.run[pos], pos \in DOMAIN prog.run,
         o.op = "send", IsTileSend(o), CanPlaceSource(o)
  PROVE  LET a == WithSource(o)
             n == Len(a.subslices)
         IN /\ Quiet(app, a) /\ AppOK(a)
            /\ n \in DOMAIN a.subslices
            /\ pos \in KnownSends(prog, m) =>
                 /\ LivesAt(a, SourceIndex(o), m[o.root])
                 /\ IsPart(a, n, o.sub, m[o.root])
<1> DEFINE b == IF IsPlaced(o) THEN app
                ELSE ProduceSlice(app, SendKey(o), SendSlice(o))
           s == SourceIndex(o)
           a == AddSubslice(b, SubsliceFromAttr(b, s, o.sub))
           n == Len(a.subslices)
           known == pos \in KnownSends(prog, m)
<1>1. /\ AppOK(app) /\ RunFits(run, app) /\ ProgramOK(prog) /\ OpOK(o)
      /\ app.numTokenSlots \in Nat
  BY Facts, Numbered
<1>2. /\ Extends(app, WithSource(o)) /\ o.src \in Harts
      /\ OutputOffset(o) \in Pair
  BY <1>1, SourcePlaced
<1>3. o.src # L2
  BY DEF IsTileSend, L2
<1>4. UnplacedOK(SendSlice(o))
  BY <1>1, <1>2, <1>3, ElementByteWidthNat
  DEF UnplacedOK, SendSlice, ProducedSlice, NewSlice, SendKind, GlobalKinds, OpOK
<1>5. /\ SendSlice(o).owner = o.src /\ SendSlice(o).shape = o.rootType.shape
      /\ SendSlice(o).elemBytes = ElementByteWidth(o.rootType.elem)
  BY DEF SendSlice, ProducedSlice, NewSlice
<1>6. Quiet(app, b) /\ (known => LivesAt(b, s, m[o.root]))
  <2>1. CASE IsPlaced(o)
    <3>1. LivesAt(app, s, m[o.root])
      BY <2>1 DEF SourceIndex, SentSubslice, IsPlaced, Wiring, Housed, ValuesHoused
    <3> QED
      BY <2>1, <3>1, NothingIsQuiet
  <2>2. CASE ~IsPlaced(o)
    <3>1. b = ProduceSlice(app, SendKey(o), SendSlice(o))
          /\ s = ProducedIndex(app, SendKey(o))
      BY <2>2 DEF SourceIndex
    <3> HIDE DEF b, s
    <3>2. /\ Quiet(app, b) /\ s \in DOMAIN b.slices
          /\ SendKey(o) \in DOMAIN run.produced => s = run.produced[SendKey(o)]
          /\ SendKey(o) \notin DOMAIN run.produced =>
               /\ b.slices[s].owner = o.src /\ b.slices[s].shape = o.rootType.shape
               /\ b.slices[s].elemBytes = ElementByteWidth(o.rootType.elem)
      BY <1>1, <1>4, <1>5, <3>1, ProduceIsQuiet
    <3>3. ASSUME known, SendKey(o) \in DOMAIN run.produced
          PROVE  LivesAt(b, s, m[o.root])
      <4>1. LivesAt(app, run.produced[SendKey(o)], m[o.root])
        BY <3>3 DEF Wiring, Housed, RootsHoused
      <4> QED
        BY <3>2, <3>3, <4>1, LivesLater DEF Quiet
    <3>4. ASSUME known, SendKey(o) \notin DOMAIN run.produced
          PROVE  LivesAt(b, s, m[o.root])
      <4>1. m[o.root] = Home(o.src, o.rootType.shape, o.rootType.elem)
        <5> SUFFICES ASSUME NEW k \in DOMAIN prog.run,
                            prog.run[k].op \in {"recv", "load", "compute"},
                            prog.run[k].result = o.root,
                            k < pos \/ IsTileRecv(prog.run[k])
                     PROVE  FALSE
          BY <3>4 DEF KnownSends, RootIsKnown
        <5>1. Known(prog, phase, pos, k)
          BY DEF Known
        <5>2. o.root \in DOMAIN run.subsliceOf
          BY <5>1 DEF Wiring, Recorded
        <5> QED
          BY <2>2, <5>2 DEF IsPlaced
      <4> QED
        BY <3>2, <3>4, <4>1 DEF LivesAt, Home
    <3> QED
      BY <3>2, <3>3, <3>4
  <2> QED
    BY <2>1, <2>2
<1>7. a = WithSource(o)
  BY DEF WithSource
<1>8. AppOK(b)
  <2>1. CASE IsPlaced(o)
    BY <1>1, <2>1
  <2>2. CASE ~IsPlaced(o)
    BY <1>1, <1>4, <2>2, ProduceExtends DEF CanPlaceSource, Extends
  <2> QED
    BY <2>1, <2>2
<1> HIDE DEF b, s
<1>9. /\ Quiet(b, a) /\ n \in DOMAIN a.subslices
      /\ a.subslices[n] = SubsliceFromAttr(b, s, o.sub)
  BY <1>8, SubsliceIsQuiet
<1>10. AppOK(a)
  BY <1>2, <1>7 DEF Extends
<1> HIDE DEF a, n
<1>11. Quiet(app, a)
  BY <1>6, <1>9, QuietTransitive
<1>12. ASSUME known
       PROVE  LivesAt(a, s, m[o.root]) /\ IsPart(a, n, o.sub, m[o.root])
  <2>1. LivesAt(b, s, m[o.root]) /\ LivesAt(a, s, m[o.root])
    BY <1>6, <1>9, <1>12, LivesLater DEF Quiet
  <2>2. /\ a.subslices[n].slice = s
        /\ a.subslices[n].offset = Part(o.sub, m[o.root].shape).off
        /\ a.subslices[n].shape = Part(o.sub, m[o.root].shape).len
    BY <1>9, <2>1 DEF LivesAt, Part, SubsliceFromAttr, WholeSubslice
  <2> QED
    BY <1>9, <2>1, <2>2 DEF IsPart
<1> QED
  BY <1>7, <1>9, <1>10, <1>11, <1>12 DEF n, s

\* The wiring survives a send to L2.
LEMMA OutputSendWired ==
  ASSUME IInv, NEW m, Wiring(app, run, prog, m, phase, pos), CollectOutputSend
  PROVE  Wiring(app', run', prog, m, phase', pos')
<1> DEFINE o == prog.run[pos]
           c == WithSource(o)
           a == GetOrCreateL2Global(c, "Output", OutputSource(o), app.numTokens)
           g == a.l2Index[L2Key("Output", SendName(o))]
           global == a.l2Globals[g]
           write == [ global |-> g, subslice |-> Len(a.subslices),
                      address |-> global.address
                        + OffsetBytes(OutputOffset(o),
                                      Strides(global.shape, global.elemBytes)),
                      stride |-> global.tokenStride ]
<1>1. /\ phase = "run" /\ pos <= Len(prog.run) /\ o.op = "send"
      /\ IsTileSend(o) /\ o.dst = L2 /\ CanCollectSend(o)
      /\ app' = AddL2Write(a, o.src, write)
      /\ run' = [run EXCEPT !.produced = Put(@, SendKey(o), SourceIndex(o))]
      /\ pos' = pos + 1 /\ phase' = phase
  BY DEF CollectOutputSend, Step
<1>2. /\ AppOK(app) /\ RunFits(run, app) /\ OpOK(o) /\ ProgramOK(prog)
      /\ pos \in Nat \ {0}
  BY <1>1, Facts
<1>3. pos \in DOMAIN prog.run
  <2>1. Len(prog.run) \in Nat /\ DOMAIN prog.run = 1..Len(prog.run)
    BY <1>2, Numbered
  <2>2. pos <= Len(prog.run) /\ pos \in Nat \ {0}
    BY <1>1, <1>2
  <2> QED
    BY ONLY <2>1, <2>2
<1>4. pos \notin TransferSends(prog) /\ ~Known(prog, phase, pos + 1, pos)
  BY <1>1 DEF TransferSends, Known, IsTileRecv
<1>5. /\ Quiet(app, c) /\ AppOK(c)
      /\ pos \in KnownSends(prog, m) => LivesAt(c, SourceIndex(o), m[o.root])
  BY <1>1, <1>3, SourceHoused DEF CanCollectSend
<1>15. o = prog.run[pos]
  OBVIOUS
<1>6. SameL2(app, c) /\ o.src \in Harts
      /\ WantedGlobal("Output", OutputSource(o), app.numTokens)
  BY <1>1, <1>2, SourcePlaced DEF CanCollectSend
<1> HIDE DEF o, c
<1>7. Quiet(c, a) /\ AppOK(a)
  <2>1. CanGetL2Global(c, "Output", OutputSource(o), app.numTokens)
    BY <1>1, <1>6, SameL2Can DEF CanCollectSend
  <2> QED
    BY <1>5, <1>6, <2>1, GlobalIsQuiet, GetGlobalExtends DEF Extends
<1> HIDE DEF a, write
<1>8. Quiet(a, app')
  BY <1>1, <1>6, <1>7, RowsAreQuiet
<1>9. Quiet(app, app')
  BY <1>5, <1>7, <1>8, QuietTransitive
<1>10. /\ run'.tileRecvs = run.tileRecvs /\ run'.aggregates = run.aggregates
       /\ run'.produced = Put(run.produced, SendKey(o), SourceIndex(o))
       /\ run'.subsliceOf = run.subsliceOf
  BY <1>1, <1>2 DEF RunFits
<1>11. Housed(app', run, prog, m)
  BY <1>2, <1>9, HousedLater DEF Wiring, Quiet
<1>16. pos \in KnownSends(prog, m) => LivesAt(app', SourceIndex(o), m[o.root])
  BY <1>5, <1>7, <1>8, LivesLater DEF Quiet
<1>12. /\ OpsHoused(app', run'.produced, prog, m)
       /\ RootsHoused(app', run'.produced, prog, m)
  BY <1>1, <1>3, <1>10, <1>11, <1>15, <1>16, RootPut DEF Housed
<1>13. Housed(app', run', prog, m)
  BY <1>10, <1>11, <1>12 DEF Housed
<1>14. Wiring(app', run', prog, m, phase, pos + 1)
  BY <1>2, <1>4, <1>9, <1>10, <1>13, StepWired DEF Quiet
<1> QED
  BY <1>1, <1>14

-----------------------------------------------------------------------------
(* Receives between tiles *)

\* A channel is given the number it has, or one of its own.
LEMMA IdGiven ==
  ASSUME NEW a, AppOK(a), NEW channel
  PROVE  LET b == [a EXCEPT !.transitionIds = WithId(@, channel)]
         IN /\ Quiet(a, b) /\ b.slices = a.slices /\ b.subslices = a.subslices
            /\ channel \in DOMAIN b.transitionIds
            /\ b.transitionIds[channel] = IdOf(a.transitionIds, channel)
<1> DEFINE b == [a EXCEPT !.transitionIds = WithId(@, channel)]
<1>1. /\ SameBut({"transitionIds"}, a, b)
      /\ b.transitionIds = WithId(a.transitionIds, channel)
  BY DEF AppOK, SameBut, AppFields
<1> HIDE DEF b
<1>2. /\ b.slices = a.slices /\ b.subslices = a.subslices
      /\ b.initSlots = a.initSlots /\ b.plans = a.plans
      /\ b.recvs = a.recvs /\ b.sends = a.sends
  BY <1>1 DEF SameBut, AppFields
<1>3. /\ channel \in DOMAIN b.transitionIds
      /\ b.transitionIds[channel] = IdOf(a.transitionIds, channel)
      /\ IdsGrow(a, b)
  BY ONLY <1>1 DEF WithId, Put, IdOf, IdsGrow
<1>4. Quiet(a, b)
  BY <1>2, <1>3, SameGrow DEF Quiet, Grows, SameTransfers, SameRecvs
<1> QED
  BY <1>2, <1>3, <1>4 DEF b

\* addGeneratedRecv
LEMMA AddRecvGrows ==
  ASSUME NEW a, AppOK(a), NEW recv, recv.dst \in Harts
  PROVE  LET b == AddRecv(a, recv)
         IN /\ Grows(a, b) /\ b.slices = a.slices /\ b.subslices = a.subslices
            /\ b.transitionIds = a.transitionIds
            /\ b.initSlots = a.initSlots /\ b.sends = a.sends
            /\ b.recvs = Append(a.recvs, recv)
            /\ \A h \in Harts : b.plans[h].recvs =
                 IF h = recv.dst
                 THEN Append(a.plans[h].recvs, Len(a.recvs) + 1)
                 ELSE a.plans[h].recvs
<1> DEFINE b == AddRecv(a, recv)
           plan == PlanWithRecv(a.plans[recv.dst], Len(a.recvs) + 1)
<1>1. DOMAIN a = AppFields /\ a.plans \in [Harts -> PlanType(a)]
  BY DEF AppOK
<1>2. /\ SameBut({"recvs", "plans"}, a, b)
      /\ b.recvs = Append(a.recvs, recv)
      /\ b.plans = [a.plans EXCEPT ![recv.dst] = plan]
  BY <1>1 DEF SameBut, AddRecv, AppFields
<1>3. plan.recvs = Append(a.plans[recv.dst].recvs, Len(a.recvs) + 1)
  <2>1. a.plans[recv.dst] \in PlanType(a)
    BY <1>1
  <2> QED
    BY <2>1 DEF PlanWithRecv, PlanType
<1> HIDE DEF b, plan
<1>4. /\ b.slices = a.slices /\ b.subslices = a.subslices
      /\ b.transitionIds = a.transitionIds
      /\ b.initSlots = a.initSlots /\ b.sends = a.sends
  BY <1>2 DEF SameBut, AppFields
<1>5. Grows(a, b)
  BY <1>4, SameGrow DEF Grows
<1>6. ASSUME NEW h \in Harts
      PROVE  b.plans[h].recvs =
               IF h = recv.dst THEN Append(a.plans[h].recvs, Len(a.recvs) + 1)
               ELSE a.plans[h].recvs
  <2>1. b.plans[h] = IF h = recv.dst THEN plan ELSE a.plans[h]
    BY ONLY <1>1, <1>2, h \in Harts
  <2> QED
    BY ONLY <1>3, <2>1
<1> QED
  BY <1>2, <1>4, <1>5, <1>6 DEF b

\* No channel is received twice.
ChannelsApart(p) ==
  \A i, j \in TileRecvs(p) : p.run[i].channel = p.run[j].channel => i = j

\* What a receive adds to a description: a row, named by the plan of its tile.
AddsRecv(a, b, o, place, x) ==
  /\ a.recvs \in Seq(RecvType(a))
  /\ \A h \in Harts : a.plans[h].recvs \in Seq(DOMAIN a.recvs)
  /\ Grows(a, b)
  /\ o.dst \in Harts /\ o.channel \in DOMAIN b.transitionIds
  /\ b.recvs = Append(a.recvs, RecvRow(b, o, place))
  /\ \A h \in Harts : b.plans[h].recvs =
       IF h = o.dst THEN Append(a.plans[h].recvs, Len(a.recvs) + 1)
       ELSE a.plans[h].recvs
  /\ place.producer = Len(a.plans[o.dst].recvs)
  /\ IsPart(b, place.subslice, o.sub, x)
  /\ b.subslices[place.subslice].slice = place.slice

\* The next receive of its tile: the row, its place in the plan and the place of
\* its channel belong to each other, and no place is taken twice.
LEMMA RecvAdded ==
  ASSUME NEW p, ChannelsApart(p), NEW k \in TileRecvs(p),
         TileRecvs(p) \subseteq Nat, NEW m, NEW places, NEW place,
         NEW a, RecvsMeet(a, places, p, m, "recvs", k),
         NEW b, NEW o, o = p.run[k], AddsRecv(a, b, o, place, m[o.result])
  PROVE  RecvsMeet(b, Put(places, o.channel, place), p, m, "recvs", k + 1)
<1> SUFFICES
      ASSUME a.recvs \in Seq(RecvType(a)),
             \A h \in Harts : a.plans[h].recvs \in Seq(DOMAIN a.recvs),
             Grows(a, b),
             o.dst \in Harts, o.channel \in DOMAIN b.transitionIds,
             b.recvs = Append(a.recvs, RecvRow(b, o, place)),
             \A h \in Harts : b.plans[h].recvs =
               IF h = o.dst THEN Append(a.plans[h].recvs, Len(a.recvs) + 1)
               ELSE a.plans[h].recvs,
             place.producer = Len(a.plans[o.dst].recvs),
             IsPart(b, place.subslice, o.sub, m[o.result]),
             b.subslices[place.subslice].slice = place.slice
      PROVE  RecvsMeet(b, Put(places, o.channel, place), p, m, "recvs", k + 1)
  BY DEF AddsRecv
<1> DEFINE later == Put(places, o.channel, place)
<1>1. /\ DOMAIN b.recvs = DOMAIN a.recvs \cup {Len(a.recvs) + 1}
      /\ Len(a.recvs) \in Nat
      /\ b.recvs[Len(a.recvs) + 1] = RecvRow(b, o, place)
      /\ \A n \in DOMAIN a.recvs : b.recvs[n] = a.recvs[n]
  BY AppendedList
<1>2. ASSUME NEW h \in Harts, NEW n \in DOMAIN a.plans[h].recvs
      PROVE  /\ n \in DOMAIN b.plans[h].recvs
             /\ b.plans[h].recvs[n] = a.plans[h].recvs[n]
  <2> DEFINE s == a.plans[h].recvs
             t == b.plans[h].recvs
  <2>1. /\ s \in Seq(DOMAIN a.recvs) /\ n \in DOMAIN s
        /\ t = IF h = o.dst THEN Append(s, Len(a.recvs) + 1) ELSE s
    OBVIOUS
  <2> HIDE DEF s, t
  <2>2. n \in DOMAIN t /\ t[n] = s[n]
    BY ONLY <2>1, AppendedList
  <2> QED
    BY <2>2 DEF s, t
<1>3. /\ DOMAIN later = DOMAIN places \cup {o.channel}
      /\ later[o.channel] = place
      /\ \A c \in DOMAIN places : c # o.channel => later[c] = places[c]
  BY DEF Put
<1>4. o.channel \notin DOMAIN places
  <2> SUFFICES ASSUME o.channel \in DOMAIN places
               PROVE  FALSE
    OBVIOUS
  <2>1. PICK i \in TileRecvs(p) : p.run[i].channel = o.channel /\ Met("recvs", k, i)
    BY DEF RecvsMeet, ChannelsPlaced
  <2>2. i = k
    BY <2>1 DEF ChannelsApart
  <2> QED
    BY <2>1, <2>2 DEF Met
<1>5. ASSUME NEW c \in DOMAIN places
      PROVE  \E i \in TileRecvs(p) :
               /\ p.run[i].channel = c /\ Met("recvs", k + 1, i)
               /\ RecvPlaced(a, p.run[i], places[c], m[p.run[i].result])
               /\ RecvPlaced(b, p.run[i], places[c], m[p.run[i].result])
  <2>1. PICK i \in TileRecvs(p) :
          /\ p.run[i].channel = c /\ Met("recvs", k, i)
          /\ RecvPlaced(a, p.run[i], places[c], m[p.run[i].result])
    BY DEF RecvsMeet, ChannelsPlaced
  <2> DEFINE u == p.run[i]
             x == m[p.run[i].result]
             q == places[c]
  <2>2. /\ IsPart(b, q.subslice, u.sub, x)
        /\ b.subslices[q.subslice] = a.subslices[q.subslice]
    <3>1. IsPart(a, q.subslice, u.sub, x)
      BY <2>1 DEF RecvPlaced
    <3> HIDE DEF u, q, x
    <3> QED
      BY <3>1, PartLater
  <2>3. RecvRow(b, u, q) = RecvRow(a, u, q) /\ u.channel \in DOMAIN b.transitionIds
    BY <2>1 DEF RecvPlaced, Grows, IdsGrow, RecvRow
  <2>4. /\ u.dst \in Harts
        /\ q.producer + 1 \in DOMAIN a.plans[u.dst].recvs
        /\ a.plans[u.dst].recvs[q.producer + 1] \in DOMAIN a.recvs
        /\ a.recvs[a.plans[u.dst].recvs[q.producer + 1]] = RecvRow(a, u, q)
        /\ a.subslices[q.subslice].slice = q.slice
    BY <2>1 DEF RecvPlaced
  <2>5. RecvPlaced(b, u, q, x)
    <3> HIDE DEF u, q, x
    <3>1. /\ q.producer + 1 \in DOMAIN b.plans[u.dst].recvs
          /\ b.plans[u.dst].recvs[q.producer + 1] = a.plans[u.dst].recvs[q.producer + 1]
      BY <1>2, <2>4
    <3> QED
      BY <1>1, <2>2, <2>3, <2>4, <3>1, Zenon DEF RecvPlaced
  <2>6. Met("recvs", k + 1, i)
    BY <2>1 DEF Met
  <2> QED
    BY <2>1, <2>5, <2>6
<1>6. RecvPlaced(b, o, place, m[o.result])
  <2> DEFINE s == a.plans[o.dst].recvs
             t == b.plans[o.dst].recvs
  <2>1. /\ s \in Seq(DOMAIN a.recvs) /\ place.producer = Len(s)
        /\ t = Append(s, Len(a.recvs) + 1)
    OBVIOUS
  <2> HIDE DEF s, t
  <2>2. place.producer + 1 \in DOMAIN t /\ t[place.producer + 1] = Len(a.recvs) + 1
    BY ONLY <2>1, AppendedList
  <2>3. /\ place.producer + 1 \in DOMAIN b.plans[o.dst].recvs
        /\ b.plans[o.dst].recvs[place.producer + 1] = Len(a.recvs) + 1
    BY <2>2 DEF t
  <2> QED
    BY <1>1, <2>3 DEF RecvPlaced
<1> HIDE DEF later
<1>7. ChannelsPlaced(b, later, p, m, "recvs", k + 1)
  <2> SUFFICES ASSUME NEW c \in DOMAIN later
               PROVE  \E i \in TileRecvs(p) :
                        /\ p.run[i].channel = c /\ Met("recvs", k + 1, i)
                        /\ RecvPlaced(b, p.run[i], later[c], m[p.run[i].result])
    BY DEF ChannelsPlaced
  <2>1. CASE c = o.channel
    <3>1. Met("recvs", k + 1, k)
      BY DEF Met
    <3> QED
      BY <1>3, <1>6, <2>1, <3>1
  <2>2. CASE c # o.channel
    <3>1. c \in DOMAIN places /\ later[c] = places[c]
      BY <1>3, <2>2
    <3> QED
      BY <1>5, <3>1
  <2> QED
    BY <2>1, <2>2
<1>8. RecvsNamed(b, later, p)
  <2> SUFFICES ASSUME NEW n \in DOMAIN b.recvs
               PROVE  \E i \in TileRecvs(p) :
                        /\ p.run[i].channel \in DOMAIN later
                        /\ p.run[i].channel \in DOMAIN b.transitionIds
                        /\ b.recvs[n] = RecvRow(b, p.run[i], later[p.run[i].channel])
    BY DEF RecvsNamed
  <2>1. CASE n = Len(a.recvs) + 1
    BY <1>1, <1>3, <2>1
  <2>2. CASE n \in DOMAIN a.recvs
    <3>1. PICK i \in TileRecvs(p) :
            /\ p.run[i].channel \in DOMAIN places
            /\ p.run[i].channel \in DOMAIN a.transitionIds
            /\ a.recvs[n] = RecvRow(a, p.run[i], places[p.run[i].channel])
      BY <2>2 DEF RecvsMeet, RecvsNamed
    <3>2. /\ p.run[i].channel \in DOMAIN b.transitionIds
          /\ b.transitionIds[p.run[i].channel] = a.transitionIds[p.run[i].channel]
      BY <3>1 DEF Grows, IdsGrow
    <3>3. /\ p.run[i].channel \in DOMAIN later
          /\ later[p.run[i].channel] = places[p.run[i].channel]
      BY <1>3, <1>4, <3>1
    <3>4. b.recvs[n] = a.recvs[n]
      BY <1>1, <2>2
    <3> QED
      BY <3>1, <3>2, <3>3, <3>4 DEF RecvRow
  <2> QED
    BY <1>1, <2>1, <2>2
<1>9. ASSUME NEW i \in TileRecvs(p), p.run[i].channel \in DOMAIN places,
             p.run[i].dst = o.dst
      PROVE  places[p.run[i].channel].producer # place.producer
  <2>1. RecvPlaced(a, p.run[i], places[p.run[i].channel], m[p.run[i].result])
    BY <1>5, <1>9 DEF ChannelsApart
  <2>2. /\ places[p.run[i].channel].producer + 1 \in DOMAIN a.plans[o.dst].recvs
        /\ a.plans[o.dst].recvs \in Seq(DOMAIN a.recvs)
    BY <1>9, <2>1 DEF RecvPlaced
  <2>3. Len(a.plans[o.dst].recvs) + 1 \notin DOMAIN a.plans[o.dst].recvs
    BY <2>2, AppendedList
  <2> QED
    BY <2>2, <2>3
<1>10. ProducersApart(later, p)
  <2> SUFFICES ASSUME NEW i \in TileRecvs(p), NEW j \in TileRecvs(p),
                      p.run[i].channel \in DOMAIN later,
                      p.run[j].channel \in DOMAIN later,
                      p.run[i].dst = p.run[j].dst,
                      later[p.run[i].channel].producer = later[p.run[j].channel].producer
               PROVE  i = j
    BY DEF ProducersApart
  <2>1. CASE p.run[i].channel = o.channel /\ p.run[j].channel = o.channel
    BY <2>1 DEF ChannelsApart
  <2>2. CASE p.run[i].channel # o.channel /\ p.run[j].channel = o.channel
    <3>1. j = k
      BY <2>2 DEF ChannelsApart
    <3> QED
      BY <1>3, <1>9, <2>2, <3>1
  <2>3. CASE p.run[i].channel = o.channel /\ p.run[j].channel # o.channel
    <3>1. i = k
      BY <2>3 DEF ChannelsApart
    <3> QED
      BY <1>3, <1>9, <2>3, <3>1
  <2>4. CASE p.run[i].channel # o.channel /\ p.run[j].channel # o.channel
    BY <1>3, <2>4 DEF RecvsMeet, ProducersApart
  <2> QED
    BY <2>1, <2>2, <2>3, <2>4
<1>11. PlansPlaced(b)
  <2> SUFFICES ASSUME NEW h \in Harts, NEW n \in DOMAIN b.plans[h].recvs
               PROVE  /\ b.plans[h].recvs[n] \in DOMAIN b.recvs
                      /\ b.recvs[b.plans[h].recvs[n]].dst = h
                      /\ b.recvs[b.plans[h].recvs[n]].producer + 1 = n
    BY DEF PlansPlaced
  <2> DEFINE s == a.plans[h].recvs
             t == b.plans[h].recvs
  <2>1. CASE n \in DOMAIN s
    <3>1. /\ s[n] \in DOMAIN a.recvs
          /\ a.recvs[s[n]].dst = h /\ a.recvs[s[n]].producer + 1 = n
      BY <2>1 DEF RecvsMeet, PlansPlaced
    <3>2. t[n] = s[n]
      BY <1>2, <2>1
    <3> QED
      BY <1>1, <3>1, <3>2
  <2>2. CASE n \notin DOMAIN s
    <3>1. /\ s \in Seq(DOMAIN a.recvs)
          /\ t = IF h = o.dst THEN Append(s, Len(a.recvs) + 1) ELSE s
      OBVIOUS
    <3>2. h = o.dst /\ n \in DOMAIN t
      BY <2>2, <3>1
    <3>3. t = Append(s, Len(a.recvs) + 1) /\ place.producer = Len(s)
      BY <3>1, <3>2
    <3> HIDE DEF s, t
    <3>4. n = Len(s) + 1 /\ t[n] = Len(a.recvs) + 1
      BY ONLY <2>2, <3>1, <3>2, <3>3, AppendedList
    <3>5. b.recvs[t[n]].dst = h /\ b.recvs[t[n]].producer + 1 = n
      <4>1. b.recvs[t[n]] = RecvRow(b, o, place)
        BY ONLY <1>1, <3>4, Zenon
      <4>2. RecvRow(b, o, place).dst = o.dst /\ RecvRow(b, o, place).producer = place.producer
        BY DEF RecvRow
      <4>3. place.producer + 1 = n
        BY <3>3, <3>4
      <4> QED
        BY ONLY <3>2, <4>1, <4>2, <4>3
    <3> QED
      BY <1>1, <3>4, <3>5 DEF t
  <2> QED
    BY <2>1, <2>2
<1> QED
  BY <1>7, <1>8, <1>10, <1>11 DEF RecvsMeet, later

\* The slice of an aggregate is remembered where its pieces live.
LEMMA AggregatePut ==
  ASSUME NEW a, NEW table, NEW p, NEW m, AggregatesHoused(a, table, p, m),
         NEW k \in TileRecvs(p), NEW s, LivesAt(a, s, m[p.run[k].result]),
         \A i \in TileRecvs(p) : AggregateKey(p.run[i]) = AggregateKey(p.run[k]) =>
           m[p.run[i].result] = m[p.run[k].result]
  PROVE  AggregatesHoused(a, Put(table, AggregateKey(p.run[k]), s), p, m)
<1> DEFINE t == Put(table, AggregateKey(p.run[k]), s)
<1>1. /\ DOMAIN t = DOMAIN table \cup {AggregateKey(p.run[k])}
      /\ t[AggregateKey(p.run[k])] = s
      /\ \A w \in DOMAIN table : w # AggregateKey(p.run[k]) => t[w] = table[w]
  BY DEF Put
<1> HIDE DEF t
<1>2. ASSUME NEW i \in TileRecvs(p), AggregateKey(p.run[i]) \in DOMAIN t
      PROVE  LivesAt(a, t[AggregateKey(p.run[i])], m[p.run[i].result])
  <2>1. CASE AggregateKey(p.run[i]) = AggregateKey(p.run[k])
    BY <1>1, <2>1
  <2>2. CASE AggregateKey(p.run[i]) # AggregateKey(p.run[k])
    BY <1>1, <1>2, <2>2 DEF AggregatesHoused
  <2> QED
    BY <2>1, <2>2
<1> QED
  BY <1>2 DEF AggregatesHoused, t

\* What the wiring contract says of a receive between tiles.
LEMMA RecvContract ==
  ASSUME NEW p, NEW m, IsWired(p, m), ProgramOK(p), NEW k \in TileRecvs(p)
  PROVE  /\ ChannelsApart(p) /\ TileRecvs(p) \subseteq Nat
         /\ m[p.run[k].result] = RecvHome(p.run[k])
         /\ \A i \in TileRecvs(p) : AggregateKey(p.run[i]) = AggregateKey(p.run[k]) =>
              m[p.run[i].result] = m[p.run[k].result]
         /\ p.run[k].tile = p.run[k].dst
<1>1. k \in DOMAIN p.run /\ IsTileRecv(p.run[k])
  BY DEF TileRecvs
<1>2. m[p.run[k].result] = RecvHome(p.run[k])
  BY <1>1 DEF IsWired, HomesAgree
<1>3. TileRecvs(p) \subseteq Nat
  BY Numbered
<1>4. \A i \in TileRecvs(p) : AggregateKey(p.run[i]) = AggregateKey(p.run[k]) =>
        m[p.run[i].result] = m[p.run[k].result]
  BY DEF IsWired, TransfersPair, AggregateKey, PutTogether
<1> QED
  BY <1>2, <1>3, <1>4 DEF IsWired, TransfersPair, ChannelsApart

\* The wiring survives collectTileRecv.
LEMMA TileRecvWired ==
  ASSUME IInv, NEW m, IsWired(prog, m),
         Wiring(app, run, prog, m, phase, pos), CollectTileRecv
  PROVE  Wiring(app', run', prog, m, phase', pos')
<1> DEFINE o == prog.run[pos]
           x == m[o.result]
           known == AggregateKey(o) \in DOMAIN run.aggregates
           a == IF known THEN app
                ELSE AllocateSliceInTileL1(app, AggregateSlice(o))
           s == IF known THEN run.aggregates[AggregateKey(o)]
                ELSE Len(a.slices)
           b == AddSubslice(a, SubsliceFromAttr(a, s, o.sub))
           n == Len(b.subslices)
           c == [b EXCEPT !.transitionIds = WithId(@, o.channel)]
           producer == Len(c.plans[o.dst].recvs)
           recv == [ transition |-> IdOf(b.transitionIds, o.channel),
                     src |-> o.src, dst |-> o.dst,
                     subslice |-> n, producer |-> producer ]
           place == [ slice |-> s, subslice |-> n, producer |-> producer ]
<1>1. /\ phase = "recvs" /\ pos <= Len(prog.run) /\ IsTileRecv(o)
      /\ app' = AddRecv(c, recv)
      /\ run' = [run EXCEPT
                  !.aggregates = Put(@, AggregateKey(o), s),
                  !.tileRecvs = Put(@, o.channel, place),
                  !.subsliceOf = Put(@, o.result, n)]
      /\ pos' = pos + 1 /\ phase' = phase /\ CanCollectTileRecv(o)
  BY DEF CollectTileRecv
<1>2. /\ AppOK(app) /\ RunFits(run, app) /\ OpOK(o) /\ ProgramOK(prog)
      /\ pos \in Nat \ {0} /\ app.numTokenSlots \in Nat
  BY <1>1, Facts
<1>3. pos \in TileRecvs(prog) /\ prog.run[pos] = o
  <2>1. Len(prog.run) \in Nat /\ DOMAIN prog.run = 1..Len(prog.run)
    BY <1>2, Numbered
  <2>2. pos <= Len(prog.run) /\ pos \in Nat \ {0}
    BY <1>1, <1>2
  <2>3. pos \in DOMAIN prog.run
    BY ONLY <2>1, <2>2
  <2> QED
    BY <1>1, <2>3 DEF TileRecvs
<1>4. /\ ChannelsApart(prog) /\ TileRecvs(prog) \subseteq Nat
      /\ x = RecvHome(o)
      /\ \A i \in TileRecvs(prog) : AggregateKey(prog.run[i]) = AggregateKey(o) =>
           m[prog.run[i].result] = x
  BY <1>2, <1>3, RecvContract
<1>5. known => LivesAt(app, run.aggregates[AggregateKey(o)], x)
  BY <1>3 DEF Wiring, Housed, AggregatesHoused
<1>6. DOMAIN app.sends = {}
  BY <1>1 DEF Wiring, TransfersMeet, SendsMeet, Sent
<1> HIDE DEF o, x
<1>7. /\ o.dst \in Harts /\ o.tile \in Harts
      /\ o.type.shape \in Pair /\ BoxOK(o.parent) /\ BoxOK(o.sub)
  BY <1>1, <1>2 DEF OpOK, IsTileRecv
<1>8. UnplacedOK(AggregateSlice(o))
  <2>1. o.parent = NoBox \/ (o.parent.off \in Pair /\ o.parent.len \in Pair)
    BY <1>7 DEF BoxOK
  <2>2. <<0, 0>> \in Pair
    BY DEF Pair
  <2> QED
    BY <1>2, <1>7, <2>1, <2>2, ElementByteWidthNat
    DEF UnplacedOK, AggregateSlice, NewSlice, GlobalKinds
<1>9. /\ AggregateSlice(o).owner = x.tile /\ AggregateSlice(o).shape = x.shape
      /\ AggregateSlice(o).elemBytes = x.width
  BY <1>4 DEF AggregateSlice, NewSlice, RecvHome, Home, Part
<1>10. Quiet(app, a) /\ AppOK(a) /\ LivesAt(a, s, x)
  <2>1. CASE known
    BY <1>2, <1>5, <2>1, NothingIsQuiet
  <2>2. CASE ~known
    <3>1. a = AllocateSliceInTileL1(app, AggregateSlice(o)) /\ s = Len(a.slices)
      BY <2>2
    <3>2. FitsInTileL1(app, AggregateSlice(o))
      BY <1>1, <2>2 DEF CanCollectTileRecv
    <3> HIDE DEF a, s
    <3>3. /\ Quiet(app, a)
          /\ DOMAIN a.slices = DOMAIN app.slices \cup {Len(a.slices)}
          /\ a.slices[Len(a.slices)] = PlacedSlice(app, AggregateSlice(o))
      BY <1>2, <1>8, <3>1, AllocateIsQuiet
    <3>4. Extends(app, a)
      BY <1>2, <1>8, <3>1, <3>2, AllocateExtends
    <3> QED
      BY <1>9, <3>1, <3>3, <3>4 DEF LivesAt, PlacedSlice, Extends
  <2> QED
    BY <2>1, <2>2
<1> HIDE DEF a, s
<1>11. /\ Quiet(a, b) /\ AppOK(b) /\ n \in DOMAIN b.subslices
       /\ b.subslices[n] = SubsliceFromAttr(a, s, o.sub)
  <2>1. SubsliceFromAttr(a, s, o.sub) \in SubsliceType(a)
    BY <1>7, <1>10, SubsliceOfSlice DEF LivesAt
  <2> QED
    BY <1>10, <2>1, SubsliceIsQuiet, AddSubsliceExtends DEF Extends
<1>12. IsPart(b, n, o.sub, x) /\ b.subslices[n].slice = s
  <2>1. LivesAt(b, s, x)
    BY <1>10, <1>11, LivesLater DEF Quiet
  <2>2. /\ b.subslices[n].slice = s
        /\ b.subslices[n].offset = Part(o.sub, x.shape).off
        /\ b.subslices[n].shape = Part(o.sub, x.shape).len
    BY <1>10, <1>11 DEF LivesAt, Part, SubsliceFromAttr, WholeSubslice
  <2> QED
    BY <1>11, <2>1, <2>2 DEF IsPart
<1> HIDE DEF b, n
<1>13. /\ Quiet(b, c) /\ AppOK(c) /\ c.subslices = b.subslices
       /\ o.channel \in DOMAIN c.transitionIds
       /\ c.transitionIds[o.channel] = IdOf(b.transitionIds, o.channel)
  <2>1. /\ Quiet(b, c) /\ c.subslices = b.subslices
        /\ o.channel \in DOMAIN c.transitionIds
        /\ c.transitionIds[o.channel] = IdOf(b.transitionIds, o.channel)
    BY <1>11, IdGiven
  <2>2. Extends(b, c)
    BY <1>11, TransitionIdExtends
  <2> QED
    BY ONLY <2>1, <2>2 DEF Extends
<1> HIDE DEF c
<1>14. Quiet(app, c)
  BY <1>10, <1>11, <1>13, QuietTransitive
<1>15. recv.dst = o.dst
  OBVIOUS
<1> HIDE DEF recv
<1>16. /\ Grows(c, app') /\ app'.transitionIds = c.transitionIds
       /\ app'.subslices = c.subslices
       /\ app'.initSlots = c.initSlots /\ app'.sends = c.sends
       /\ app'.recvs = Append(c.recvs, recv)
       /\ \A h \in Harts : app'.plans[h].recvs =
            IF h = o.dst THEN Append(c.plans[h].recvs, Len(c.recvs) + 1)
            ELSE c.plans[h].recvs
  BY <1>1, <1>7, <1>13, <1>15, AddRecvGrows
<1>17. Grows(app, app') /\ Grows(b, app')
  BY <1>13, <1>14, <1>16, GrowsTransitive DEF Quiet
<1>18. IsPart(app', n, o.sub, x) /\ app'.subslices[n].slice = s
  BY <1>12, <1>17, PartLater
<1>19. recv = RecvRow(app', o, place)
  BY <1>13, <1>16 DEF recv, RecvRow
<1>20. /\ place.producer = Len(app.plans[o.dst].recvs)
       /\ place.subslice = n /\ place.slice = s
  BY <1>7, <1>14 DEF Quiet, SameTransfers, SameRecvs
<1> HIDE DEF place, producer
<1>21. RecvsMeet(app', Put(run.tileRecvs, o.channel, place), prog, m, "recvs", pos + 1)
  <2>1. app.recvs \in Seq(RecvType(app))
    BY <1>2 DEF AppOK, RowsOK
  <2>2. \A h \in Harts : app.plans[h].recvs \in Seq(DOMAIN app.recvs)
    <3> SUFFICES ASSUME NEW h \in Harts
                 PROVE  app.plans[h].recvs \in Seq(DOMAIN app.recvs)
      OBVIOUS
    <3>1. app.plans[h] \in PlanType(app)
      BY <1>2 DEF AppOK
    <3> QED
      BY <3>1 DEF PlanType
  <2>3. RecvsMeet(app, run.tileRecvs, prog, m, "recvs", pos)
    BY <1>1 DEF Wiring, TransfersMeet
  <2>4. app'.recvs = Append(app.recvs, RecvRow(app', o, place))
    BY <1>14, <1>16, <1>19 DEF Quiet, SameTransfers, SameRecvs
  <2>5. \A h \in Harts : app'.plans[h].recvs =
          IF h = o.dst THEN Append(app.plans[h].recvs, Len(app.recvs) + 1)
          ELSE app.plans[h].recvs
    BY <1>14, <1>16 DEF Quiet, SameTransfers, SameRecvs
  <2>6. o.channel \in DOMAIN app'.transitionIds
    BY <1>13, <1>16
  <2>7. IsPart(app', place.subslice, o.sub, m[o.result])
    BY <1>18, <1>20 DEF x
  <2>8. app'.subslices[place.subslice].slice = place.slice
    BY <1>18, <1>20
  <2>9. place.producer = Len(app.plans[o.dst].recvs)
    BY <1>20
  <2> QED
    <3>1. AddsRecv(app, app', o, place, m[o.result])
      BY ONLY <1>7, <1>17, <2>1, <2>2, <2>4, <2>5, <2>6, <2>7, <2>8, <2>9
      DEF AddsRecv
    <3> QED
      BY ONLY <1>3, <1>4, <2>3, <3>1, RecvAdded
<1>22. /\ run'.tileRecvs = Put(run.tileRecvs, o.channel, place)
       /\ run'.aggregates = Put(run.aggregates, AggregateKey(o), s)
       /\ run'.produced = run.produced
       /\ run'.subsliceOf = Put(run.subsliceOf, o.result, n)
  BY <1>1, <1>2 DEF RunFits
<1>23. SendsMeet(app', run'.tileRecvs, prog, m, "recvs", pos + 1)
  <2>1. DOMAIN app'.sends = {}
    BY <1>6, <1>14, <1>16 DEF Quiet, SameTransfers, SameRecvs
  <2> QED
    BY <2>1 DEF SendsMeet, Done
<1>24. app'.initSlots = app.initSlots
  BY <1>14, <1>16 DEF Quiet
<1>25. Housed(app', run, prog, m)
  BY <1>2, <1>17, <1>24, HousedLater DEF Wiring
<1>26. LivesAt(app', s, x)
  BY <1>18 DEF IsPart
<1>27. Housed(app', run', prog, m)
  <2>1. ValuesHoused(app', run'.subsliceOf, m)
    <3>1. LivesAt(app', app'.subslices[n].slice, m[o.result])
      BY <1>18, <1>26 DEF x
    <3> QED
      BY <1>22, <1>25, <3>1, ValuePut DEF Housed
  <2>2. AggregatesHoused(app', run'.aggregates, prog, m)
    <3>1. LivesAt(app', s, m[prog.run[pos].result])
      BY <1>3, <1>26 DEF x
    <3>2. \A i \in TileRecvs(prog) :
            AggregateKey(prog.run[i]) = AggregateKey(prog.run[pos]) =>
              m[prog.run[i].result] = m[prog.run[pos].result]
      BY <1>3, <1>4 DEF x
    <3> QED
      BY <1>3, <1>22, <1>25, <3>1, <3>2, AggregatePut DEF Housed
  <2> QED
    BY <1>22, <1>25, <2>1, <2>2 DEF Housed
<1>28. Recorded(run', prog, "recvs", pos + 1)
  <2> SUFFICES ASSUME NEW i \in DOMAIN prog.run, Known(prog, "recvs", pos + 1, i)
               PROVE  prog.run[i].result \in DOMAIN run'.subsliceOf
    BY DEF Recorded
  <2>1. i = pos \/ Known(prog, "recvs", pos, i)
    BY <1>2, Numbered DEF Known
  <2>2. /\ DOMAIN run.subsliceOf \subseteq DOMAIN run'.subsliceOf
        /\ o.result \in DOMAIN run'.subsliceOf
    BY ONLY <1>22 DEF Put
  <2>3. CASE i = pos
    BY <1>3, <2>2, <2>3
  <2>4. CASE Known(prog, "recvs", pos, i)
    BY <1>1, <2>2, <2>4 DEF Wiring, Recorded
  <2> QED
    BY <2>1, <2>3, <2>4
<1> QED
  BY <1>1, <1>21, <1>22, <1>23, <1>27, <1>28 DEF Wiring, TransfersMeet

-----------------------------------------------------------------------------
(* Sends between tiles *)

\* addGeneratedSend
LEMMA AddSendGrows ==
  ASSUME NEW a, AppOK(a), NEW send, send.src \in Harts
  PROVE  LET b == AddSend(a, send)
         IN /\ Grows(a, b) /\ b.initSlots = a.initSlots
            /\ b.recvs = a.recvs /\ b.sends = Append(a.sends, send)
            /\ \A h \in Harts : b.plans[h].recvs = a.plans[h].recvs
<1> DEFINE b == AddSend(a, send)
           plan == PlanWithSend(a.plans[send.src], Len(a.sends) + 1)
<1>1. DOMAIN a = AppFields /\ a.plans \in [Harts -> PlanType(a)]
  BY DEF AppOK
<1>2. /\ SameBut({"sends", "plans"}, a, b)
      /\ b.sends = Append(a.sends, send)
      /\ b.plans = [a.plans EXCEPT ![send.src] = plan]
  BY <1>1 DEF SameBut, AddSend, AppFields
<1>3. plan.recvs = a.plans[send.src].recvs
  <2>1. a.plans[send.src] \in PlanType(a)
    BY <1>1
  <2> QED
    BY <2>1 DEF PlanWithSend, PlanType
<1> HIDE DEF b, plan
<1>4. /\ b.slices = a.slices /\ b.subslices = a.subslices
      /\ b.transitionIds = a.transitionIds
      /\ b.initSlots = a.initSlots /\ b.recvs = a.recvs
  BY <1>2 DEF SameBut, AppFields
<1>5. Grows(a, b)
  BY <1>4, SameGrow DEF Grows
<1>6. \A h \in Harts : b.plans[h].recvs = a.plans[h].recvs
  BY <1>2, <1>3, PlanKeepsRecvs
<1> QED
  BY <1>2, <1>4, <1>5, <1>6 DEF b

\* What the wiring contract says of all sends between tiles: no channel is sent
\* twice, and each is received on the tile it is sent to.
SendsPaired(p) ==
  /\ \A i, j \in TransferSends(p) : p.run[i].channel = p.run[j].channel => i = j
  /\ \A i \in TransferSends(p) : \E j \in TileRecvs(p) :
       p.run[j].channel = p.run[i].channel /\ p.run[j].dst = p.run[i].dst

\* The next send: its row is no other's.
LEMMA SendAdded ==
  ASSUME NEW p, SendsPaired(p), NEW k \in TransferSends(p),
         TransferSends(p) \subseteq Nat, NEW m, NEW places,
         ProducersApart(places, p),
         NEW a, a.sends \in Seq(SendType(a)),
         SendsMeet(a, places, p, m, "run", k),
         NEW b, Grows(a, b), NEW s, b.sends = Append(a.sends, s),
         p.run[k].channel \in DOMAIN places,
         SentRow(b, p.run[k], places[p.run[k].channel], m[p.run[k].root], s)
  PROVE  SendsMeet(b, places, p, m, "run", k + 1)
<1> DEFINE last == Len(a.sends) + 1
<1>1. /\ DOMAIN b.sends = DOMAIN a.sends \cup {last}
      /\ last \notin DOMAIN a.sends
      /\ b.sends[last] = s
      /\ \A n \in DOMAIN a.sends : b.sends[n] = a.sends[n]
  BY AppendedList
<1> HIDE DEF last
<1>2. RowOf(b, places, p, m, k, last)
  BY <1>1 DEF RowOf
<1>3. ASSUME NEW i, NEW n \in DOMAIN a.sends, RowOf(a, places, p, m, i, n)
      PROVE  RowOf(b, places, p, m, i, n)
  BY <1>1, <1>3, RowLater DEF RowOf
<1>4. ASSUME NEW n \in DOMAIN b.sends
      PROVE  \E i \in TransferSends(p) :
               Sent("run", k + 1, i) /\ RowOf(b, places, p, m, i, n)
  <2>1. CASE n = last
    <3>1. Sent("run", k + 1, k)
      BY DEF Sent
    <3> QED
      BY <1>2, <2>1, <3>1
  <2>2. CASE n \in DOMAIN a.sends
    <3>1. PICK i \in TransferSends(p) :
            Sent("run", k, i) /\ RowOf(a, places, p, m, i, n)
      BY <2>2 DEF SendsMeet
    <3>2. Sent("run", k + 1, i)
      BY <3>1 DEF Sent
    <3> QED
      BY <1>3, <2>2, <3>1, <3>2
  <2> QED
    BY <1>1, <2>1, <2>2
<1>5. ASSUME NEW n \in DOMAIN a.sends, a.sends[n].dst = s.dst,
             a.sends[n].producer = s.producer
      PROVE  FALSE
  <2>1. PICK i \in TransferSends(p) :
          Sent("run", k, i) /\ RowOf(a, places, p, m, i, n)
    BY DEF SendsMeet
  <2>2. /\ p.run[i].channel \in DOMAIN places
        /\ p.run[i].dst = p.run[k].dst
        /\ places[p.run[i].channel].producer = places[p.run[k].channel].producer
    BY <1>5, <2>1 DEF RowOf, SentRow
  <2>3. PICK j \in TileRecvs(p) :
          p.run[j].channel = p.run[i].channel /\ p.run[j].dst = p.run[i].dst
    BY DEF SendsPaired
  <2>4. PICK l \in TileRecvs(p) :
          p.run[l].channel = p.run[k].channel /\ p.run[l].dst = p.run[k].dst
    BY DEF SendsPaired
  <2>5. j = l
    BY <2>2, <2>3, <2>4 DEF ProducersApart
  <2>6. i = k
    BY <2>3, <2>4, <2>5 DEF SendsPaired
  <2> QED
    BY <2>1, <2>6 DEF Sent
<1>6. ASSUME NEW n1 \in DOMAIN b.sends, NEW n2 \in DOMAIN b.sends,
             b.sends[n1].dst = b.sends[n2].dst,
             b.sends[n1].producer = b.sends[n2].producer
      PROVE  n1 = n2
  <2>1. CASE n1 = last /\ n2 # last
    BY <1>1, <1>5, <1>6, <2>1
  <2>2. CASE n1 # last /\ n2 = last
    BY <1>1, <1>5, <1>6, <2>2
  <2>3. CASE n1 # last /\ n2 # last
    BY <1>1, <1>6, <2>3 DEF SendsMeet
  <2> QED
    BY <2>1, <2>2, <2>3
<1>7. ASSUME NEW i \in TransferSends(p), Done("run", k + 1, i)
      PROVE  \E n \in DOMAIN b.sends : RowOf(b, places, p, m, i, n)
  <2>1. CASE i = k
    BY <1>1, <1>2, <2>1
  <2>2. CASE i # k
    <3>1. Done("run", k, i)
      BY <1>7, <2>2 DEF Done
    <3>2. PICK n \in DOMAIN a.sends : RowOf(a, places, p, m, i, n)
      BY <3>1 DEF SendsMeet
    <3> QED
      BY <1>1, <1>3, <3>2
  <2> QED
    BY <2>1, <2>2
<1> QED
  BY <1>4, <1>6, <1>7 DEF SendsMeet

\* What the wiring contract says of a send between tiles.
LEMMA SendContract ==
  ASSUME NEW p, NEW m, IsWired(p, m), ProgramOK(p), NEW k \in TransferSends(p)
  PROVE  /\ SendsPaired(p) /\ TransferSends(p) \subseteq Nat
         /\ k \in KnownSends(p, m)
<1>1. TransferSends(p) \subseteq Nat
  BY Numbered
<1>2. SendsPaired(p)
  BY DEF IsWired, TransfersPair, SendsPaired
<1>3. k \in KnownSends(p, m)
  <2>1. ASSUME NEW j \in DOMAIN p.run, IsTileSend(p.run[j]),
               SendKey(p.run[j]) = SendKey(p.run[k])
        PROVE  RootIsKnown(p, m, j)
    <3>1. j \in TransferSends(p)
      BY <2>1, KeysApart DEF TransferSends
    <3> QED
      BY <3>1 DEF IsWired, TransfersPair
  <2> QED
    BY <2>1 DEF KnownSends, TransferSends
<1> QED
  BY <1>1, <1>2, <1>3

\* The wiring survives a send to a tile: it takes the place its channel has
\* been given.
LEMMA TileSendWired ==
  ASSUME IInv, NEW m, IsWired(prog, m),
         Wiring(app, run, prog, m, phase, pos), CollectTileSend
  PROVE  Wiring(app', run', prog, m, phase', pos')
<1> DEFINE o == prog.run[pos]
           x == m[o.root]
           a == WithSource(o)
           n == Len(a.subslices)
           b == [a EXCEPT !.transitionIds = WithId(@, o.channel)]
           recv == run.tileRecvs[o.channel]
           target == a.slices[recv.slice]
           send == [ transition |-> IdOf(a.transitionIds, o.channel),
                     src |-> o.src, dst |-> o.dst,
                     srcSubslice |-> n,
                     dstSubslice |-> recv.subslice,
                     dstL1Offset |-> target.l1Offset,
                     dstSlotBytes |-> target.slotBytes,
                     producer |-> recv.producer ]
<1>1. /\ phase = "run" /\ pos <= Len(prog.run) /\ o.op = "send"
      /\ IsTileSend(o) /\ o.dst # L2 /\ CanCollectSend(o)
      /\ app' = AddSend(b, send)
      /\ run' = [run EXCEPT !.produced = Put(@, SendKey(o), SourceIndex(o))]
      /\ pos' = pos + 1 /\ phase' = phase
  BY DEF CollectTileSend, Step
<1>2. /\ AppOK(app) /\ RunFits(run, app) /\ OpOK(o) /\ ProgramOK(prog)
      /\ pos \in Nat \ {0}
  BY <1>1, Facts
<1>3. pos \in DOMAIN prog.run
  <2>1. Len(prog.run) \in Nat /\ DOMAIN prog.run = 1..Len(prog.run)
    BY <1>2, Numbered
  <2>2. pos <= Len(prog.run) /\ pos \in Nat \ {0}
    BY <1>1, <1>2
  <2> QED
    BY ONLY <2>1, <2>2
<1>4. pos \in TransferSends(prog) /\ prog.run[pos] = o
  BY <1>1, <1>3 DEF TransferSends
<1>5. /\ SendsPaired(prog) /\ TransferSends(prog) \subseteq Nat
      /\ pos \in KnownSends(prog, m)
  BY <1>2, <1>4, SendContract
<1>6. /\ Quiet(app, a) /\ AppOK(a) /\ n \in DOMAIN a.subslices
      /\ LivesAt(a, SourceIndex(o), x) /\ IsPart(a, n, o.sub, x)
  BY <1>1, <1>3, <1>5, SourceHoused DEF CanCollectSend
<1>7. o.src \in Harts /\ o.channel \in DOMAIN run.tileRecvs
  <2>1. o.src \in Harts
    BY <1>1, <1>2, SourcePlaced DEF CanCollectSend
  <2>2. o.channel \in DOMAIN run.tileRecvs
    BY <1>1 DEF CanCollectSend
  <2> QED
    BY ONLY <2>1, <2>2
<1> HIDE DEF o, x, a, n
<1>8. /\ Quiet(a, b) /\ AppOK(b) /\ b.slices = a.slices
      /\ o.channel \in DOMAIN b.transitionIds
      /\ b.transitionIds[o.channel] = IdOf(a.transitionIds, o.channel)
  <2>1. /\ Quiet(a, b) /\ b.slices = a.slices
        /\ o.channel \in DOMAIN b.transitionIds
        /\ b.transitionIds[o.channel] = IdOf(a.transitionIds, o.channel)
    BY <1>6, IdGiven
  <2>2. Extends(a, b)
    BY <1>6, TransitionIdExtends
  <2> QED
    BY ONLY <2>1, <2>2 DEF Extends
<1> HIDE DEF b
<1>9. Quiet(app, b)
  BY <1>6, <1>8, QuietTransitive
<1>10. send.src = o.src
  OBVIOUS
<1> HIDE DEF send
<1>11. /\ Grows(b, app') /\ app'.initSlots = b.initSlots
       /\ app'.recvs = b.recvs /\ app'.sends = Append(b.sends, send)
       /\ \A h \in Harts : app'.plans[h].recvs = b.plans[h].recvs
  BY <1>1, <1>7, <1>8, <1>10, AddSendGrows
<1>12. Grows(app, app') /\ Grows(a, app')
  BY <1>8, <1>9, <1>11, GrowsTransitive DEF Quiet
<1>13. recv \in RecvPlace(app)
  BY <1>2, <1>7 DEF RunFits, IsTable
<1> HIDE DEF recv
<1>14. /\ recv.slice \in DOMAIN a.slices /\ recv.slice \in DOMAIN app'.slices
       /\ app'.slices[recv.slice].l1Offset = target.l1Offset
       /\ app'.slices[recv.slice].slotBytes = target.slotBytes
  BY <1>6, <1>12, <1>13 DEF RecvPlace, Quiet, Grows, SlicesGrow, SameRoom
<1>15. SentRow(app', o, recv, x, send)
  <2>1. IsPart(app', n, o.sub, x)
    BY <1>6, <1>12, PartLater
  <2>2. /\ o.channel \in DOMAIN app'.transitionIds
        /\ app'.transitionIds[o.channel] = IdOf(a.transitionIds, o.channel)
    BY <1>8, <1>11 DEF Grows, IdsGrow
  <2> HIDE DEF target
  <2> QED
    BY <1>14, <2>1, <2>2 DEF SentRow, send
<1>16. SendsMeet(app', run.tileRecvs, prog, m, "run", pos + 1)
  <2>1. app.sends \in Seq(SendType(app))
    BY <1>2 DEF AppOK, RowsOK
  <2>2. /\ ProducersApart(run.tileRecvs, prog)
        /\ SendsMeet(app, run.tileRecvs, prog, m, "run", pos)
    BY <1>1 DEF Wiring, TransfersMeet, RecvsMeet
  <2>3. app'.sends = Append(app.sends, send)
    BY <1>9, <1>11 DEF Quiet, SameTransfers, SameRecvs
  <2>4. SentRow(app', prog.run[pos], run.tileRecvs[prog.run[pos].channel],
                m[prog.run[pos].root], send)
    BY <1>4, <1>15 DEF x, recv
  <2>5. prog.run[pos].channel \in DOMAIN run.tileRecvs
    BY <1>4, <1>7
  <2> QED
    BY ONLY <1>4, <1>5, <1>12, <2>1, <2>2, <2>3, <2>4, <2>5, SendAdded
<1>17. RecvsMeet(app', run.tileRecvs, prog, m, "run", pos + 1)
  <2>2. RecvsMeet(app, run.tileRecvs, prog, m, "run", pos)
    BY <1>1 DEF Wiring, TransfersMeet
  <2>3. \A i \in TileRecvs(prog) : Met("run", pos, i) => Met("run", pos + 1, i)
    BY DEF Met
  <2>4. /\ app'.recvs = app.recvs
        /\ \A h \in Harts : app'.plans[h].recvs = app.plans[h].recvs
    BY <1>9, <1>11 DEF Quiet, SameTransfers, SameRecvs
  <2> QED
    BY <1>12, <2>2, <2>3, <2>4, RecvsLater DEF SameRecvs
<1>18. /\ run'.tileRecvs = run.tileRecvs /\ run'.aggregates = run.aggregates
       /\ run'.produced = Put(run.produced, SendKey(o), SourceIndex(o))
       /\ run'.subsliceOf = run.subsliceOf
  BY <1>1, <1>2 DEF RunFits
<1>19. Housed(app', run, prog, m)
  BY <1>2, <1>9, <1>11, <1>12, HousedLater DEF Wiring, Quiet
<1>20. Housed(app', run', prog, m)
  <2>1. LivesAt(app', SourceIndex(o), m[o.root])
    BY <1>6, <1>12, LivesLater DEF x
  <2>2. /\ OpsHoused(app', run'.produced, prog, m)
        /\ RootsHoused(app', run'.produced, prog, m)
    BY <1>1, <1>3, <1>4, <1>18, <1>19, <2>1, RootPut DEF Housed
  <2> QED
    BY <1>18, <1>19, <2>2 DEF Housed
<1>21. Recorded(run', prog, "run", pos + 1)
  <2> SUFFICES ASSUME NEW i \in DOMAIN prog.run, Known(prog, "run", pos + 1, i)
               PROVE  prog.run[i].result \in DOMAIN run'.subsliceOf
    BY DEF Recorded
  <2>1. i # pos
    <3>1. prog.run[pos].op = "send"
      BY <1>1, <1>4
    <3> QED
      BY <3>1 DEF Known, IsTileRecv
  <2>2. Known(prog, "run", pos, i)
    BY <1>2, <2>1, Numbered DEF Known
  <2> QED
    BY <1>1, <1>18, <2>2 DEF Wiring, Recorded
<1> QED
  BY <1>1, <1>16, <1>17, <1>18, <1>20, <1>21 DEF Wiring, TransfersMeet
-----------------------------------------------------------------------------
(* The wiring holds throughout *)

\* Nothing is wired before the first walk.
LEMMA InitWired ==
  ASSUME NEW m, Init
  PROVE  Wiring(app, run, prog, m, phase, pos)
<1>1. /\ phase = "attrs" /\ run = EmptyRun
      /\ app.initSlots = <<>> /\ app.recvs = <<>> /\ app.sends = <<>>
  BY DEF Init, NewApplication
<1>2. DOMAIN <<>> = {}
  OBVIOUS
<1>3. /\ DOMAIN run.tileRecvs = {} /\ DOMAIN run.aggregates = {}
      /\ DOMAIN run.produced = {} /\ DOMAIN run.subsliceOf = {}
      /\ DOMAIN app.initSlots = {} /\ DOMAIN app.recvs = {} /\ DOMAIN app.sends = {}
  BY <1>1, <1>2 DEF EmptyRun
<1>4. Housed(app, run, prog, m)
  BY <1>3 DEF Housed, ValuesHoused, AggregatesHoused, OpsHoused, RootsHoused, SlotsHoused
<1>5. Recorded(run, prog, phase, pos)
  BY <1>1 DEF Recorded, Known
<1>6. RecvsMeet(app, run.tileRecvs, prog, m, phase, pos)
  <2>1. PlansPlaced(app)
    <3>1. \A h \in Harts : app.plans[h].recvs = <<>>
      BY DEF Init, NewApplication, EmptyPlan
    <3> QED
      BY <1>2, <3>1 DEF PlansPlaced
  <2> QED
    BY <1>3, <2>1 DEF RecvsMeet, ChannelsPlaced, RecvsNamed, ProducersApart
<1>7. SendsMeet(app, run.tileRecvs, prog, m, phase, pos)
  BY <1>1, <1>3 DEF SendsMeet, Done
<1> QED
  BY <1>4, <1>5, <1>6, <1>7 DEF Wiring, TransfersMeet

\* The walks do not change the module.
LEMMA ModuleStays ==
  ASSUME [Next]_vars
  PROVE  prog' = prog
<1>1. Next => prog' = prog
  BY DEF Next, CollectModuleAttrs, CollectInitializerStore, CollectTileRecv,
         CollectInputRecv, CollectLoad, CollectExtractSliceAlias,
         CollectInsertSliceAlias, CollectComputeOp, CollectOutputSend,
         CollectTileSend, PassOver, EndWalk, Refuse, Step
<1> QED
  BY <1>1 DEF vars

\* Every step of a collection keeps the wiring of a module that keeps its
\* contracts.
LEMMA NextWired ==
  ASSUME IInv, NEW m, IsWired(prog, m),
         Wiring(app, run, prog, m, phase, pos), [Next]_vars
  PROVE  Wiring(app', run', prog', m, phase', pos')
<1>1. HomesAgree(prog, m)
  BY DEF IsWired
<1>2. prog' = prog
  BY ModuleStays
<1>3. CASE CollectModuleAttrs
  BY <1>2, <1>3, AttrsWired
<1>4. CASE CollectInitializerStore
  BY <1>1, <1>2, <1>4, StoreWired
<1>5. CASE CollectTileRecv
  BY <1>2, <1>5, TileRecvWired
<1>6. CASE CollectInputRecv
  BY <1>1, <1>2, <1>6, InputWired
<1>7. CASE CollectLoad
  BY <1>2, <1>7, LoadWired
<1>8. CASE CollectExtractSliceAlias
  BY <1>1, <1>2, <1>8, ExtractWired
<1>9. CASE CollectInsertSliceAlias
  BY <1>1, <1>2, <1>9, InsertWired
<1>10. CASE CollectComputeOp
  BY <1>1, <1>2, <1>10, ComputeWired
<1>11. CASE CollectOutputSend
  BY <1>2, <1>11, OutputSendWired
<1>12. CASE CollectTileSend
  BY <1>2, <1>12, TileSendWired
<1>13. CASE PassOver
  BY <1>2, <1>13, PassWired
<1>14. CASE EndWalk
  BY <1>2, <1>14, EndWired
<1>15. CASE Refuse
  BY <1>2, <1>15, RefuseWired
<1>16. CASE UNCHANGED vars
  BY <1>16 DEF vars
<1> QED
  BY <1>3, <1>4, <1>5, <1>6, <1>7, <1>8, <1>9, <1>10, <1>11, <1>12, <1>13,
     <1>14, <1>15, <1>16 DEF Next

-----------------------------------------------------------------------------
(* What is wired meets *)

\* A part that fits in the home of its value lies inside its slice, and has the
\* bytes the contract counts.
LEMMA PartInside ==
  ASSUME NEW sub, NEW box, NEW x, IsPart(app, sub, box, x)
  PROVE  /\ SubSlice(sub).owner = x.tile
         /\ FitsIn(Part(box, x.shape), x.shape) => InsideItsSlice(sub)
         /\ Bytes(sub) = PartBytes(box, x)
BY DEF IsPart, LivesAt, SubSlice, FitsIn, InsideItsSlice, Bytes, PartBytes

\* The receive of the channel of a send is the one the contract pairs it with.
LEMMA Paired ==
  ASSUME NEW p, NEW m, IsWired(p, m), NEW i \in TransferSends(p),
         NEW j \in TileRecvs(p), p.run[j].channel = p.run[i].channel
  PROVE  LET o == p.run[i]
             r == p.run[j]
         IN /\ r.src = o.src /\ r.dst = o.dst
            /\ m[r.result].tile = r.dst /\ m[o.root].tile = o.src
            /\ FitsIn(Part(r.sub, m[r.result].shape), m[r.result].shape)
            /\ FitsIn(Part(o.sub, m[o.root].shape), m[o.root].shape)
            /\ PartBytes(r.sub, m[r.result]) = PartBytes(o.sub, m[o.root])
<1> DEFINE o == p.run[i]
           r == p.run[j]
<1>1. ChannelsApart(p)
  BY DEF IsWired, TransfersPair, ChannelsApart
<1>2. /\ r.tile = r.dst
      /\ FitsIn(Part(r.sub, m[r.result].shape), m[r.result].shape)
  BY DEF IsWired, TransfersPair
<1>3. /\ m[o.root].tile = o.src
      /\ FitsIn(Part(o.sub, m[o.root].shape), m[o.root].shape)
      /\ \E n \in TileRecvs(p) :
           /\ p.run[n].channel = o.channel
           /\ p.run[n].src = o.src /\ p.run[n].dst = o.dst
           /\ PartBytes(p.run[n].sub, m[p.run[n].result]) = PartBytes(o.sub, m[o.root])
  BY DEF IsWired, TransfersPair
<1>4. \A n \in TileRecvs(p) : p.run[n].channel = o.channel => n = j
  BY <1>1 DEF ChannelsApart
<1>5. /\ r.src = o.src /\ r.dst = o.dst
      /\ PartBytes(r.sub, m[r.result]) = PartBytes(o.sub, m[o.root])
  BY <1>3, <1>4
<1>6. m[r.result].tile = r.tile
  <2>1. m[r.result] = RecvHome(r)
    BY DEF IsWired, HomesAgree, TileRecvs
  <2> QED
    BY <2>1 DEF RecvHome, Home
<1> QED
  BY <1>2, <1>3, <1>5, <1>6

\* A row of the table of sends, and the receive its channel leads to.
LEMMA SendRowMeets ==
  ASSUME NEW p, NEW m, NEW ph, NEW k, IsWired(p, m),
         TransfersMeet(app, run, p, m, ph, k), NEW n \in DOMAIN app.sends
  PROVE  LET s == app.sends[n]
             r == app.recvs[app.plans[s.dst].recvs[s.producer + 1]]
             target == SubSlice(s.dstSubslice)
         IN /\ s.producer + 1 \in DOMAIN app.plans[s.dst].recvs
            /\ r \in Rows(app.recvs) /\ Meet(s, r)
            /\ r.subslice = s.dstSubslice
            /\ target.owner = s.dst /\ SubSlice(s.srcSubslice).owner = s.src
            /\ target.l1Offset = s.dstL1Offset
            /\ target.slotBytes = s.dstSlotBytes
            /\ InsideItsSlice(s.srcSubslice) /\ InsideItsSlice(s.dstSubslice)
            /\ Bytes(s.srcSubslice) = Bytes(s.dstSubslice)
<1> DEFINE s == app.sends[n]
<1>1. PICK i \in TransferSends(p) : RowOf(app, run.tileRecvs, p, m, i, n)
  BY DEF TransfersMeet, SendsMeet
<1> DEFINE o == p.run[i]
           place == run.tileRecvs[o.channel]
<1>2. PICK j \in TileRecvs(p) :
        /\ p.run[j].channel = o.channel
        /\ RecvPlaced(app, p.run[j], place, m[p.run[j].result])
  BY <1>1 DEF RowOf, TransfersMeet, RecvsMeet, ChannelsPlaced
<1> DEFINE e == p.run[j]
           row == app.plans[e.dst].recvs[place.producer + 1]
<1>3. /\ e.src = o.src /\ e.dst = o.dst
      /\ m[e.result].tile = e.dst /\ m[o.root].tile = o.src
      /\ FitsIn(Part(e.sub, m[e.result].shape), m[e.result].shape)
      /\ FitsIn(Part(o.sub, m[o.root].shape), m[o.root].shape)
      /\ PartBytes(e.sub, m[e.result]) = PartBytes(o.sub, m[o.root])
  BY <1>2, Paired
<1>4. SentRow(app, o, place, m[o.root], s)
  BY <1>1 DEF RowOf
<1>5. /\ s.transition = app.transitionIds[o.channel]
      /\ s.src = o.src /\ s.dst = o.dst
      /\ s.dstSubslice = place.subslice /\ s.producer = place.producer
      /\ s.dstL1Offset = app.slices[place.slice].l1Offset
      /\ s.dstSlotBytes = app.slices[place.slice].slotBytes
      /\ IsPart(app, s.srcSubslice, o.sub, m[o.root])
  BY <1>4 DEF SentRow
<1>6. /\ IsPart(app, place.subslice, e.sub, m[e.result])
      /\ app.subslices[place.subslice].slice = place.slice
      /\ place.producer + 1 \in DOMAIN app.plans[e.dst].recvs
      /\ row \in DOMAIN app.recvs
      /\ app.recvs[row] = RecvRow(app, e, place)
  BY <1>2 DEF RecvPlaced
<1>7. e.channel = o.channel
  BY <1>2
<1>8. /\ app.plans[s.dst].recvs[s.producer + 1] = row
      /\ s.producer + 1 \in DOMAIN app.plans[s.dst].recvs
  BY <1>3, <1>5, <1>6
<1>9. SubSlice(place.subslice) = app.slices[place.slice]
  BY <1>6 DEF SubSlice
<1> HIDE DEF s, o, place, e, row
<1>10. /\ SubSlice(s.dstSubslice).owner = e.dst
       /\ InsideItsSlice(s.dstSubslice)
       /\ Bytes(s.dstSubslice) = PartBytes(e.sub, m[e.result])
  BY <1>3, <1>5, <1>6, PartInside
<1>11. /\ SubSlice(s.srcSubslice).owner = o.src
       /\ InsideItsSlice(s.srcSubslice)
       /\ Bytes(s.srcSubslice) = PartBytes(o.sub, m[o.root])
  BY <1>3, <1>5, PartInside
<1>12. Meet(s, app.recvs[row]) /\ app.recvs[row].subslice = s.dstSubslice
  <2>1. /\ app.recvs[row].transition = app.transitionIds[e.channel]
        /\ app.recvs[row].src = e.src /\ app.recvs[row].dst = e.dst
        /\ app.recvs[row].subslice = place.subslice
        /\ app.recvs[row].producer = place.producer
    BY <1>6 DEF RecvRow
  <2> QED
    BY <1>3, <1>5, <1>7, <2>1 DEF Meet
<1>13. app.recvs[row] \in Rows(app.recvs)
  BY <1>6 DEF Rows
<1>14. /\ SubSlice(s.dstSubslice).owner = s.dst
       /\ SubSlice(s.srcSubslice).owner = s.src
       /\ SubSlice(s.dstSubslice).l1Offset = s.dstL1Offset
       /\ SubSlice(s.dstSubslice).slotBytes = s.dstSlotBytes
       /\ Bytes(s.srcSubslice) = Bytes(s.dstSubslice)
  BY <1>3, <1>5, <1>9, <1>10, <1>11
<1> QED
  BY <1>8, <1>10, <1>11, <1>12, <1>13, <1>14 DEF s

\* When the collection is done, every receive has the send of its channel.
LEMMA RecvRowMeets ==
  ASSUME NEW p, NEW m, NEW k, IsWired(p, m),
         TransfersMeet(app, run, p, m, "done", k), NEW n \in DOMAIN app.recvs
  PROVE  \E s \in Rows(app.sends) : Meet(s, app.recvs[n])
<1>1. PICK j \in TileRecvs(p) :
        app.recvs[n] = RecvRow(app, p.run[j], run.tileRecvs[p.run[j].channel])
  BY DEF TransfersMeet, RecvsMeet, RecvsNamed
<1>2. PICK i \in TransferSends(p) : p.run[j].channel = p.run[i].channel
  BY DEF IsWired, TransfersPair
<1>3. PICK q \in DOMAIN app.sends : RowOf(app, run.tileRecvs, p, m, i, q)
  BY DEF TransfersMeet, SendsMeet, Done
<1> DEFINE o == p.run[i]
           e == p.run[j]
           place == run.tileRecvs[o.channel]
           s == app.sends[q]
<1>4. e.src = o.src /\ e.dst = o.dst /\ e.channel = o.channel
  BY <1>2, Paired
<1>5. /\ s.transition = app.transitionIds[o.channel]
      /\ s.src = o.src /\ s.dst = o.dst
      /\ s.dstSubslice = place.subslice /\ s.producer = place.producer
  BY <1>3 DEF RowOf, SentRow
<1>6. /\ app.recvs[n].transition = app.transitionIds[o.channel]
      /\ app.recvs[n].src = e.src /\ app.recvs[n].dst = e.dst
      /\ app.recvs[n].subslice = place.subslice
      /\ app.recvs[n].producer = place.producer
  BY <1>1, <1>4 DEF RecvRow
<1> HIDE DEF o, e, place
<1>7. Meet(s, app.recvs[n])
  BY <1>4, <1>5, <1>6 DEF Meet
<1> QED
  BY <1>7 DEF Rows

\* The wiring is what the transfers need.
LEMMA WiringMeets ==
  ASSUME IInv, NEW m, IsWired(prog, m), Wiring(app, run, prog, m, phase, pos)
  PROVE  SendsMeetReceives
<1>1. TransfersMeet(app, run, prog, m, phase, pos)
  BY DEF Wiring
<1>2. app.sends \in Seq(SendType(app))
  BY DEF IInv, TypeOK, AppOK, RowsOK
<1>3. ASSUME NEW i \in DOMAIN app.sends
      PROVE  \A j \in 1..(i - 1) :
               <<app.sends[j].dst, app.sends[j].producer>>
                 # <<app.sends[i].dst, app.sends[i].producer>>
  <2>1. \A j \in 1..(i - 1) : j \in DOMAIN app.sends /\ j # i
    BY <1>2, <1>3
  <2>2. \A n1, n2 \in DOMAIN app.sends :
          /\ app.sends[n1].dst = app.sends[n2].dst
          /\ app.sends[n1].producer = app.sends[n2].producer
          => n1 = n2
    BY <1>1 DEF TransfersMeet, SendsMeet
  <2> QED
    BY <1>3, <2>1, <2>2
<1>4. \A i \in DOMAIN app.sends :
        LET s == app.sends[i]
            r == app.recvs[app.plans[s.dst].recvs[s.producer + 1]]
            target == SubSlice(s.dstSubslice)
        IN /\ r \in Rows(app.recvs) /\ Meet(s, r)
           /\ r.subslice = s.dstSubslice
           /\ target.owner = s.dst /\ SubSlice(s.srcSubslice).owner = s.src
           /\ target.l1Offset = s.dstL1Offset
           /\ target.slotBytes = s.dstSlotBytes
           /\ InsideItsSlice(s.srcSubslice) /\ InsideItsSlice(s.dstSubslice)
           /\ Bytes(s.srcSubslice) = Bytes(s.dstSubslice)
  BY <1>1, SendRowMeets
<1>5. phase = "done" =>
        \A n \in DOMAIN app.recvs : \E s \in Rows(app.sends) : Meet(s, app.recvs[n])
  BY <1>1, RecvRowMeets
<1>6. phase = "done" =>
        \A r \in Rows(app.recvs) : \E s \in Rows(app.sends) : Meet(s, r)
  <2>1. \A r \in Rows(app.recvs) : \E n \in DOMAIN app.recvs : r = app.recvs[n]
    BY DEF Rows
  <2> QED
    BY <1>5, <2>1
<1> QED
  BY <1>3, <1>4, <1>6 DEF SendsMeetReceives

\* The wiring is kept from the start.
LEMMA WiringHolds ==
  ASSUME NEW homes, \A p \in Programs : IsWired(p, homes[p])
  PROVE  Spec => [](IInv /\ Wiring(app, run, prog, homes[prog], phase, pos))
<1> DEFINE Wired == Wiring(app, run, prog, homes[prog], phase, pos)
<1>1. Init => Wired
  BY InitWired
<1>2. IInv /\ Wired /\ [Next]_vars => Wired'
  BY NextWired, ModuleStays DEF IInv
<1> QED
  BY <1>1, <1>2, Invariance, PTL DEF Spec

\* Whatever modules are collected, if each keeps the contracts of ModuleContract
\* for some typing of its values, then throughout the collection every send
\* between tiles (collectTileSend) meets the receive that collectTileRecv has
\* made for it in an earlier walk: the same tiles, the same place among the
\* producers of the destination, the address and the bytes of the slice it
\* arrives in; no two sends share a receive, and none waits for ever.
THEOREM SendsAlwaysMeet ==
  ASSUME NEW homes, \A p \in Programs : IsWired(p, homes[p])
  PROVE  Spec => []SendsMeetReceives
<1> DEFINE Wired == Wiring(app, run, prog, homes[prog], phase, pos)
<1>1. IInv /\ Wired => SendsMeetReceives
  BY WiringMeets DEF IInv
<1> HIDE DEF Wired
<1>2. Spec => [](IInv /\ Wired)
  BY WiringHolds DEF Wired
<1> QED
  BY <1>1, <1>2, PTL

-----------------------------------------------------------------------------
(* Buffers.  T says of a kind and a name in L2 the type of the tensor. *)

\* An initializer has one buffer for all tokens.
BufferTokens(a, kind) == IF kind = "Initializer" THEN 1 ELSE a.numTokens

IsBuffer(g, kind, type, n) ==
  /\ g.kind = kind /\ g.shape = type.shape
  /\ g.elemBytes = ElementByteWidth(type.elem)
  /\ g.tensorBytes = GlobalBytes(type) /\ g.tokenStride = TokenStride(type)
  /\ g.numTokens = n

\* The buffers of the kinds K are of the types T says.
BuffersTyped(a, T, K) ==
  \A key \in DOMAIN a.l2Index :
    key[1] \in K =>
      IsBuffer(a.l2Globals[a.l2Index[key]], key[1], T[key], BufferTokens(a, key[1]))

\* No buffer is lost or changed.
BuffersGrow(a, b) ==
  /\ DOMAIN a.l2Globals \subseteq DOMAIN b.l2Globals
  /\ \A g \in DOMAIN a.l2Globals : b.l2Globals[g] = a.l2Globals[g]

\* getOrCreateL2Global keeps the buffers it finds, and makes one of the type it
\* is asked for.
LEMMA GlobalTyped ==
  ASSUME NEW a, AppOK(a), NEW kind, NEW source, NEW n,
         WantedGlobal(kind, source, n), NEW T, NEW K, BuffersTyped(a, T, K),
         kind \in K => /\ T[L2Key(kind, source.name)] = source.type
                       /\ n = BufferTokens(a, kind)
  PROVE  LET b == GetOrCreateL2Global(a, kind, source, n)
             key == L2Key(kind, source.name)
         IN /\ BuffersTyped(b, T, K) /\ BuffersGrow(a, b)
            /\ SameBut({"l2Globals", "l2Index", "globalIds", "nextL2"}, a, b)
            /\ key \in DOMAIN b.l2Index /\ b.l2Index[key] \in DOMAIN b.l2Globals
            /\ kind \in K =>
                 IsBuffer(b.l2Globals[b.l2Index[key]], kind, source.type, n)
<1> DEFINE b == GetOrCreateL2Global(a, kind, source, n)
           key == L2Key(kind, source.name)
           new == NewL2Global(a, kind, source, n)
           m == Len(a.l2Globals) + 1
<1>1. /\ DOMAIN a = AppFields /\ IsTable(a.l2Index, DOMAIN a.l2Globals)
      /\ a.l2Globals \in Seq(L2GlobalType)
  BY DEF AppOK, IdsOK, PlacesOK
<1>2. key[1] = kind
  BY DEF L2Key
<1>3. CASE key \in DOMAIN a.l2Index
  <2>1. b = a
    BY <1>3 DEF GetOrCreateL2Global
  <2> HIDE DEF b, key
  <2>2. a.l2Index[key] \in DOMAIN a.l2Globals
    BY <1>1, <1>3 DEF IsTable
  <2>3. kind \in K => IsBuffer(a.l2Globals[a.l2Index[key]], kind, source.type, n)
    BY <1>2, <1>3 DEF BuffersTyped, key
  <2> QED
    BY <1>1, <1>3, <2>1, <2>2, <2>3 DEF BuffersGrow, SameBut, b, key
<1>4. CASE key \notin DOMAIN a.l2Index
  <2>1. /\ SameBut({"l2Globals", "l2Index", "globalIds", "nextL2"}, a, b)
        /\ b.l2Globals = Append(a.l2Globals, new)
        /\ b.l2Index = Put(a.l2Index, key, m)
    BY <1>1, <1>4 DEF SameBut, AppFields, GetOrCreateL2Global
  <2>2. IsBuffer(new, kind, source.type, n)
    BY DEF NewL2Global, IsBuffer
  <2>3. b.numTokens = a.numTokens
    BY <2>1 DEF SameBut, AppFields
  <2> HIDE DEF b, key, new
  <2>4. /\ DOMAIN b.l2Globals = DOMAIN a.l2Globals \cup {m}
        /\ b.l2Globals[m] = new
        /\ \A g \in DOMAIN a.l2Globals : b.l2Globals[g] = a.l2Globals[g]
    BY <1>1, <2>1, AppendedList
  <2>5. /\ DOMAIN b.l2Index = DOMAIN a.l2Index \cup {key} /\ b.l2Index[key] = m
        /\ \A k \in DOMAIN a.l2Index : k # key => b.l2Index[k] = a.l2Index[k]
    BY ONLY <2>1 DEF Put
  <2> HIDE DEF m
  <2>6. ASSUME NEW k \in DOMAIN b.l2Index, k[1] \in K
        PROVE  IsBuffer(b.l2Globals[b.l2Index[k]], k[1], T[k], BufferTokens(b, k[1]))
    <3>1. CASE k = key
      BY <1>2, <2>2, <2>3, <2>4, <2>5, <2>6, <3>1 DEF BufferTokens, key
    <3>2. CASE k # key
      <4>1. k \in DOMAIN a.l2Index /\ b.l2Index[k] = a.l2Index[k]
        BY <2>5, <3>2
      <4>2. a.l2Index[k] \in DOMAIN a.l2Globals
        BY <1>1, <4>1 DEF IsTable
      <4>3. b.l2Globals[b.l2Index[k]] = a.l2Globals[a.l2Index[k]]
        BY <2>4, <4>1, <4>2
      <4>4. IsBuffer(a.l2Globals[a.l2Index[k]], k[1], T[k], BufferTokens(a, k[1]))
        BY <2>6, <4>1 DEF BuffersTyped
      <4>5. BufferTokens(b, k[1]) = BufferTokens(a, k[1])
        BY <2>3 DEF BufferTokens
      <4> QED
        BY ONLY <4>3, <4>4, <4>5
    <3> QED
      BY <3>1, <3>2
  <2>7. BuffersTyped(b, T, K)
    BY <2>6 DEF BuffersTyped
  <2> QED
    BY <2>1, <2>2, <2>4, <2>5, <2>7 DEF BuffersGrow, b, key
<1> QED
  BY <1>3, <1>4

-----------------------------------------------------------------------------
(* What tiles read *)

ReadFields(a, r) ==
  /\ r.global \in DOMAIN a.l2Globals /\ r.subslice \in DOMAIN a.subslices

\* A read starts at a place of its tensor where its subslice fits.
ReadPlaced(a, r) ==
  LET g == a.l2Globals[r.global]
      s == a.subslices[r.subslice]
  IN /\ ReadFields(a, r)
     /\ \E off \in Pair :
          /\ r.address = g.address + OffsetBytes(off, Strides(g.shape, g.elemBytes))
          /\ FitsIn([off |-> off, len |-> s.shape], g.shape)
     /\ g.tensorBytes <= g.tokenStride
     /\ \/ r.stride = 0 /\ g.numTokens = 1
        \/ r.stride = g.tokenStride /\ g.numTokens = a.numTokens

ReadsPlaced(a) == \A i \in DOMAIN a.reads : ReadPlaced(a, a.reads[i])

ReadKinds == {"Input", "Initializer"}

ReadsInv(a, T) == BuffersTyped(a, T, ReadKinds) /\ ReadsPlaced(a)

\* A read stays where it is while subslices and buffers are added.
LEMMA ReadLater ==
  ASSUME NEW a, NEW b, SubslicesGrow(a, b), BuffersGrow(a, b),
         b.numTokens = a.numTokens, NEW r, ReadPlaced(a, r)
  PROVE  ReadPlaced(b, r)
<1>1. ReadFields(a, r)
  BY DEF ReadPlaced
<1>2. /\ ReadFields(b, r) /\ b.l2Globals[r.global] = a.l2Globals[r.global]
      /\ b.subslices[r.subslice] = a.subslices[r.subslice]
  BY <1>1 DEF ReadFields, SubslicesGrow, BuffersGrow
<1> QED
  BY <1>2 DEF ReadPlaced

\* The table of reads as a whole.
LEMMA ReadsLater ==
  ASSUME NEW a, NEW b, SubslicesGrow(a, b), BuffersGrow(a, b),
         b.numTokens = a.numTokens, b.reads = a.reads, ReadsPlaced(a)
  PROVE  ReadsPlaced(b)
BY ReadLater DEF ReadsPlaced

\* What adds at most a subslice.
LEMMA StillReads ==
  ASSUME NEW a, AppOK(a), NEW b, Still(a, b), NEW T, ReadsInv(a, T)
  PROVE  ReadsInv(b, T)
<1>1. SubslicesGrow(a, b)
  BY StillGrows
<1>2. BuffersGrow(a, b) /\ b.numTokens = a.numTokens /\ b.reads = a.reads
  BY DEF Still, BuffersGrow
<1>3. ReadsPlaced(b)
  BY <1>1, <1>2, ReadsLater DEF ReadsInv
<1>4. BuffersTyped(b, T, ReadKinds)
  BY DEF ReadsInv, BuffersTyped, Still, BufferTokens
<1> QED
  BY <1>3, <1>4 DEF ReadsInv

\* addL2ReadForSlice reads a part of the tensor, if the slice is one.
LEMMA ReadAdded ==
  ASSUME NEW a, AppOK(a), NEW i \in DOMAIN a.slices, NEW kind \in ReadKinds,
         NEW source, NEW n, WantedGlobal(kind, source, n),
         CanGetL2Global(a, kind, source, n), n = BufferTokens(a, kind),
         NEW T, ReadsInv(a, T), T[L2Key(kind, source.name)] = source.type,
         FitsIn([off |-> a.slices[i].fullOffset, len |-> a.slices[i].shape],
                source.type.shape)
  PROVE  ReadsInv(AddL2ReadForSlice(a, i, kind, source, n), T)
<1> DEFINE c == GetOrCreateL2Global(a, kind, source, n)
           key == L2Key(kind, source.name)
           b == AddSubslice(c, WholeSubslice(a, i))
           g == b.l2Index[key]
           global == b.l2Globals[g]
           slice == a.slices[i]
           read == [ global |-> g, subslice |-> Len(b.subslices),
                     address |-> global.address
                       + OffsetBytes(slice.fullOffset,
                                     Strides(global.shape, global.elemBytes)),
                     stride |-> IF kind = "Input" THEN global.tokenStride
                                ELSE 0 ]
           d == AddL2ReadForSlice(a, i, kind, source, n)
<1>1. /\ AppOK(c) /\ c.subslices = a.subslices
      /\ BuffersTyped(c, T, ReadKinds) /\ BuffersGrow(a, c)
      /\ SameBut({"l2Globals", "l2Index", "globalIds", "nextL2"}, a, c)
      /\ c.l2Index[key] \in DOMAIN c.l2Globals
      /\ IsBuffer(c.l2Globals[c.l2Index[key]], kind, source.type, n)
  BY GetGlobalExtends, GlobalTyped DEF Extends, ReadsInv
<1>2. d = AddL2Read(b, slice.owner, kind = "Initializer", read)
  BY DEF AddL2ReadForSlice
<1>3. slice \in SliceType
  BY DEF AppOK, PlacesOK
<1> HIDE DEF c, key
<1>4. /\ SameBut({"subslices"}, c, b)
      /\ b.subslices = Append(c.subslices, WholeSubslice(a, i))
      /\ DOMAIN c = AppFields /\ c.subslices \in Seq(SubsliceType(c))
  BY <1>1 DEF AddSubslice, SameBut, AppFields, AppOK, PlacesOK
<1>5. /\ SubslicesGrow(a, b) /\ Len(b.subslices) \in DOMAIN b.subslices
      /\ b.subslices[Len(b.subslices)] = WholeSubslice(a, i)
  BY <1>1, <1>4, AppendedList DEF SubslicesGrow
<1>6. /\ b.l2Globals = c.l2Globals /\ b.l2Index = c.l2Index
      /\ b.numTokens = a.numTokens /\ b.reads = a.reads
  BY <1>1, <1>4 DEF SameBut, AppFields
<1> HIDE DEF b
<1>7. /\ SameBut({"reads", "plans"}, b, d) /\ d.reads = Append(b.reads, read)
  BY <1>2, <1>4 DEF AddL2Read, SameBut, AppFields
<1>8. /\ d.subslices = b.subslices /\ d.l2Globals = b.l2Globals
      /\ d.l2Index = b.l2Index /\ d.numTokens = b.numTokens
  BY <1>7 DEF SameBut, AppFields
<1>9. BuffersTyped(d, T, ReadKinds)
  <2>1. c.numTokens = a.numTokens
    BY <1>1 DEF SameBut, AppFields
  <2> QED
    BY <1>1, <1>6, <1>8, <2>1 DEF BuffersTyped, BufferTokens
<1>10. SubslicesGrow(a, d) /\ BuffersGrow(a, d)
  BY <1>1, <1>5, <1>6, <1>8 DEF SubslicesGrow, BuffersGrow
<1>11. ReadPlaced(d, read)
  <2>1. /\ read.global \in DOMAIN d.l2Globals /\ read.subslice \in DOMAIN d.subslices
        /\ d.l2Globals[read.global] = global
        /\ d.subslices[read.subslice].shape = slice.shape
        /\ IsBuffer(global, kind, source.type, n)
    BY <1>1, <1>5, <1>6, <1>8 DEF WholeSubslice
  <2>2. global.tensorBytes <= global.tokenStride
    <3>1. n \in Nat /\ source.type.shape \in Pair
      BY DEF WantedGlobal
    <3>2. GlobalBytes(source.type) <= TokenStride(source.type)
      BY <3>1, BufferSizes
    <3> QED
      BY <2>1, <3>2 DEF IsBuffer
  <2>3. \/ read.stride = 0 /\ global.numTokens = 1
        \/ read.stride = global.tokenStride /\ global.numTokens = d.numTokens
    BY <1>6, <1>8, <2>1 DEF IsBuffer, BufferTokens, ReadKinds
  <2>4. /\ slice.fullOffset \in Pair
        /\ read.address = global.address
             + OffsetBytes(slice.fullOffset, Strides(global.shape, global.elemBytes))
        /\ FitsIn([off |-> slice.fullOffset, len |-> slice.shape], global.shape)
    BY <1>3, <2>1 DEF SliceType, IsBuffer
  <2> HIDE DEF read, global, slice, d
  <2> QED
    BY <2>1, <2>2, <2>3, <2>4 DEF ReadPlaced, ReadFields
<1> HIDE DEF read, d
<1>12. ReadsPlaced(d)
  <2>1. a.reads \in Seq(ReadType(a))
    BY DEF AppOK, RowsOK
  <2>2. d.reads = Append(a.reads, read)
    BY <1>6, <1>7
  <2>3. ASSUME NEW k \in DOMAIN d.reads PROVE ReadPlaced(d, d.reads[k])
    <3>1. CASE k \in DOMAIN a.reads
      <4>1. d.reads[k] = a.reads[k]
        BY <2>1, <2>2, <3>1, AppendedList
      <4>2. ReadPlaced(a, a.reads[k])
        BY <3>1 DEF ReadsInv, ReadsPlaced
      <4> QED
        BY <1>6, <1>8, <1>10, <4>1, <4>2, ReadLater
    <3>2. CASE k \notin DOMAIN a.reads
      <4>1. d.reads[k] = read
        BY <2>1, <2>2, <3>2, AppendedList
      <4> QED
        BY <1>11, <4>1
    <3> QED
      BY <3>1, <3>2
  <2> QED
    BY <2>3 DEF ReadsPlaced
<1> QED
  BY <1>9, <1>12 DEF ReadsInv, d

\* What the two handlers that read from L2 do: they place a slice, and read a
\* tensor into it, of a module that keeps the contract a part that fits.
ReadsTensor(b, i, kind, source, n) ==
  /\ AppOK(b) /\ Still(app, b) /\ i \in DOMAIN b.slices
  /\ WantedGlobal(kind, source, n) /\ CanGetL2Global(b, kind, source, n)
  /\ n = BufferTokens(b, kind)
  /\ app' = AddL2ReadForSlice(b, i, kind, source, n)

PartOfTensor(T, b, i, kind, source) ==
  /\ T[L2Key(kind, source.name)] = source.type
  /\ FitsIn([off |-> b.slices[i].fullOffset, len |-> b.slices[i].shape],
            source.type.shape)

\* collectInitializerStore.
LEMMA StoreReads ==
  ASSUME IInv, CollectInitializerStore
  PROVE  \E b, i, source :
           /\ ReadsTensor(b, i, "Initializer", source, 1)
           /\ \A T : ReadsFit(prog, T) => PartOfTensor(T, b, i, "Initializer", source)
<1> DEFINE o == prog.init[pos]
           source == L2Sources(prog.init)[o.channel]
           s == StoreSlice(o, source)
           a == AllocateSliceInTileL1(app, s)
           b == [a EXCEPT !.initSlots =
                            Put(@, <<o.tile, o.slot>>, Len(a.slices))]
<1>1. /\ phase = "init" /\ pos <= Len(prog.init) /\ o.op = "store"
      /\ CanStore(o, source)
      /\ app' = AddL2ReadForSlice(b, Len(a.slices), "Initializer", source, 1)
  BY DEF CollectInitializerStore, Step
<1>2. /\ AppOK(app) /\ RunFits(run, app) /\ OpOK(o) /\ ProgramOK(prog)
      /\ pos \in Nat \ {0}
  BY <1>1, Facts
<1>3. pos \in DOMAIN prog.init
  <2>1. RegionOK(prog.init)
    BY <1>2 DEF ProgramOK
  <2>2. Len(prog.init) \in Nat /\ DOMAIN prog.init = 1..Len(prog.init)
    BY <2>1 DEF RegionOK
  <2>3. pos <= Len(prog.init) /\ pos \in Nat \ {0}
    BY <1>1, <1>2
  <2> QED
    BY ONLY <2>2, <2>3
<1>4. SourceOK(source)
  BY <1>1, <1>2, <1>3 DEF ProgramOK, RegionOK
<1>5. UnplacedOK(s)
  BY <1>1, <1>2, <1>4, ElementByteWidthNat
  DEF UnplacedOK, StoreSlice, NewSlice, OpOK, SourceOK, GlobalKinds
<1>6. s.fullOffset = source.off /\ s.shape = o.type.shape
  BY DEF StoreSlice, NewSlice
<1>7. \A T : ReadsFit(prog, T) =>
        /\ T[L2Key("Initializer", source.name)] = source.type
        /\ FitsIn([off |-> source.off, len |-> o.type.shape], source.type.shape)
  BY <1>1, <1>3 DEF ReadsFit, L2Key
<1>8. FitsInTileL1(app, s) /\ CanGetL2Global(app, "Initializer", source, 1)
  BY <1>1 DEF CanStore
<1> HIDE DEF o, source, s
<1>9. /\ AppOK(a) /\ SameL2(app, a) /\ Len(a.slices) \in DOMAIN a.slices
      /\ a.slices[Len(a.slices)] = PlacedSlice(app, s)
      /\ SameEdge(app, a)
  <2>1. a.slices[Len(a.slices)] = PlacedSlice(app, s)
    BY <1>2, <1>5, AllocateIsQuiet
  <2>2. /\ Extends(app, a) /\ SameL2(app, a)
        /\ Len(a.slices) \in DOMAIN a.slices
    BY <1>2, <1>5, <1>8, AllocateExtends
  <2> QED
    BY <1>2, <2>1, <2>2, HelpersLeaveEdge DEF Extends, AppOK
<1> HIDE DEF a
<1>10. /\ Extends(a, b) /\ SameL2(a, b) /\ b.slices = a.slices
       /\ SameEdge(a, b)
  <2>1. AppOK(a) /\ Len(a.slices) \in DOMAIN a.slices /\ DOMAIN a = AppFields
    BY <1>9 DEF AppOK
  <2> DEFINE slot == <<o.tile, o.slot>>
             i == Len(a.slices)
  <2>2. b = [a EXCEPT !.initSlots = Put(@, slot, i)]
    OBVIOUS
  <2>3. SameEdge(a, b)
    BY <2>1 DEF SameEdge, AppFields
  <2> HIDE DEF b, slot, i
  <2> QED
    BY ONLY <2>1, <2>2, <2>3, InitSlotExtends DEF i
<1> HIDE DEF b
<1>11. ReadsTensor(b, Len(a.slices), "Initializer", source, 1)
  <2>1. WantedGlobal("Initializer", source, 1)
    BY <1>4 DEF WantedGlobal, SourceOK, GlobalKinds
  <2>2. CanGetL2Global(b, "Initializer", source, 1)
    BY <1>8, <1>9, <1>10, SameL2Can
  <2>3. Still(app, b)
    BY <1>9, <1>10, StillChains
  <2> QED
    BY <1>1, <1>9, <1>10, <2>1, <2>2, <2>3 DEF ReadsTensor, Extends, BufferTokens
<1>12. ASSUME NEW T, ReadsFit(prog, T)
       PROVE  PartOfTensor(T, b, Len(a.slices), "Initializer", source)
  BY <1>6, <1>7, <1>9, <1>10, <1>12 DEF PartOfTensor, PlacedSlice
<1> QED
  BY <1>11, <1>12

\* collectInputRecv.
LEMMA InputReads ==
  ASSUME IInv, CollectInputRecv
  PROVE  \E b, i, source, n :
           /\ ReadsTensor(b, i, "Input", source, n)
           /\ \A T : ReadsFit(prog, T) => PartOfTensor(T, b, i, "Input", source)
<1> DEFINE o == prog.run[pos]
           source == L2Sources(prog.run)[o.channel]
           s == InputSlice(o, source)
           a == AllocateSliceInTileL1(app, s)
           b == AddSubslice(a, WholeSubslice(a, Len(a.slices)))
<1>1. /\ phase = "run" /\ pos <= Len(prog.run) /\ o.op = "recv" /\ o.src = L2
      /\ o.channel \in DOMAIN L2Sources(prog.run)
      /\ CanCollectInput(o, source)
      /\ app' = AddL2ReadForSlice(b, Len(a.slices), "Input", source,
                                  app.numTokens)
  BY DEF CollectInputRecv, Step
<1>2. /\ AppOK(app) /\ RunFits(run, app) /\ OpOK(o) /\ ProgramOK(prog)
      /\ pos \in Nat \ {0} /\ app.numTokens \in Nat /\ app.numTokenSlots \in Nat
  BY <1>1, Facts
<1>3. pos \in DOMAIN prog.run
  BY <1>1, <1>2, Numbered
<1>4. SourceOK(source)
  BY <1>1, <1>2 DEF ProgramOK, RegionOK
<1>5. UnplacedOK(s)
  BY <1>1, <1>2, <1>4, ElementByteWidthNat
  DEF UnplacedOK, InputSlice, NewSlice, OpOK, SourceOK, GlobalKinds
<1>6. s.fullOffset = source.off /\ s.shape = o.type.shape
  BY DEF InputSlice, NewSlice
<1>7. \A T : ReadsFit(prog, T) =>
        /\ T[L2Key("Input", source.name)] = source.type
        /\ FitsIn([off |-> source.off, len |-> o.type.shape], source.type.shape)
  BY <1>1, <1>3 DEF ReadsFit, L2Key
<1>8. FitsInTileL1(app, s) /\ CanGetL2Global(app, "Input", source, app.numTokens)
  BY <1>1 DEF CanCollectInput
<1> HIDE DEF o, source, s
<1>9. /\ AppOK(a) /\ SameL2(app, a) /\ Len(a.slices) \in DOMAIN a.slices
      /\ a.slices[Len(a.slices)] = PlacedSlice(app, s)
      /\ SameEdge(app, a)
  <2>1. a.slices[Len(a.slices)] = PlacedSlice(app, s)
    BY <1>2, <1>5, AllocateIsQuiet
  <2>2. /\ Extends(app, a) /\ SameL2(app, a)
        /\ Len(a.slices) \in DOMAIN a.slices
    BY <1>2, <1>5, <1>8, AllocateExtends
  <2> QED
    BY <1>2, <2>1, <2>2, HelpersLeaveEdge DEF Extends, AppOK
<1> HIDE DEF a
<1>10. /\ AppOK(b) /\ SameL2(a, b) /\ b.slices = a.slices /\ Still(a, b)
  BY <1>9, WholeExtends, StillChains DEF Extends, AppOK
<1> HIDE DEF b
<1>11. ReadsTensor(b, Len(a.slices), "Input", source, app.numTokens)
  <2>1. WantedGlobal("Input", source, app.numTokens)
    BY <1>2, <1>4 DEF WantedGlobal, SourceOK, GlobalKinds
  <2>2. CanGetL2Global(b, "Input", source, app.numTokens)
    BY <1>8, <1>9, <1>10, SameL2Can
  <2>3. Still(app, b)
    BY <1>9, <1>10, StillChains
  <2>4. app.numTokens = BufferTokens(b, "Input")
    BY <2>3 DEF Still, BufferTokens
  <2> QED
    BY <1>1, <1>9, <1>10, <2>1, <2>2, <2>3, <2>4 DEF ReadsTensor
<1>12. ASSUME NEW T, ReadsFit(prog, T)
       PROVE  PartOfTensor(T, b, Len(a.slices), "Input", source)
  BY <1>6, <1>7, <1>9, <1>10, <1>12 DEF PartOfTensor, PlacedSlice
<1> QED
  BY <1>11, <1>12

\* What a send to L2 does: its source gets a slice and a subslice, its output a
\* buffer, and the write a row.
OutputRow(a, o) ==
  LET g == a.l2Index[L2Key("Output", SendName(o))]
      global == a.l2Globals[g]
  IN [ global |-> g, subslice |-> Len(a.subslices),
       address |-> global.address
                   + OffsetBytes(OutputOffset(o),
                                 Strides(global.shape, global.elemBytes)),
       stride |-> global.tokenStride ]

WritesTensor(c, a, o) ==
  /\ AppOK(c) /\ Still(app, c) /\ c = WithSource(o)
  /\ WantedGlobal("Output", OutputSource(o), app.numTokens)
  /\ CanGetL2Global(c, "Output", OutputSource(o), app.numTokens)
  /\ OutputSource(o).name = SendName(o)
  /\ a = GetOrCreateL2Global(c, "Output", OutputSource(o), app.numTokens)
  /\ AppOK(a) /\ a.subslices = c.subslices /\ a.slices = c.slices
  /\ Len(c.subslices) \in DOMAIN c.subslices /\ OutputOffset(o) \in Pair
  /\ app' = AddL2Write(a, o.src, OutputRow(a, o))
  /\ SameBut({"writes", "plans"}, a, app')
  /\ app'.writes = Append(a.writes, OutputRow(a, o))
  /\ run' = [run EXCEPT !.produced = Put(@, SendKey(o), SourceIndex(o))]

\* collectOutputSend.
LEMMA OutputWrites ==
  ASSUME IInv, CollectOutputSend
  PROVE  \E a : WritesTensor(WithSource(prog.run[pos]), a, prog.run[pos])
<1> DEFINE o == prog.run[pos]
           c == WithSource(o)
           a == GetOrCreateL2Global(c, "Output", OutputSource(o), app.numTokens)
<1>1. /\ phase = "run" /\ pos <= Len(prog.run) /\ o.op = "send"
      /\ IsTileSend(o) /\ o.dst = L2 /\ CanCollectSend(o)
      /\ app' = AddL2Write(a, o.src, OutputRow(a, o))
      /\ run' = [run EXCEPT !.produced = Put(@, SendKey(o), SourceIndex(o))]
  BY DEF CollectOutputSend, Step, OutputRow
<1>2. AppOK(app) /\ OpOK(o)
  BY <1>1, Facts
<1> HIDE DEF o
<1>3. /\ Extends(app, c) /\ SameL2(app, c)
      /\ Len(c.subslices) \in DOMAIN c.subslices /\ OutputOffset(o) \in Pair
      /\ WantedGlobal("Output", OutputSource(o), app.numTokens)
  BY <1>1, <1>2, SourcePlaced DEF CanCollectSend
<1>4. AppOK(c) /\ Still(app, c)
  BY <1>3, SourceStill DEF Extends
<1>5. CanGetL2Global(c, "Output", OutputSource(o), app.numTokens)
  BY <1>1, <1>3, SameL2Can DEF CanCollectSend
<1> HIDE DEF c
<1>6. OutputSource(o).name = SendName(o)
  BY DEF OutputSource
<1>7. AppOK(a) /\ a.subslices = c.subslices /\ a.slices = c.slices
  BY <1>3, <1>4, <1>5, GetGlobalExtends DEF Extends
<1>20. a = GetOrCreateL2Global(c, "Output", OutputSource(o), app.numTokens)
  OBVIOUS
<1> HIDE DEF a
<1>8. /\ SameBut({"writes", "plans"}, a, app')
      /\ app'.writes = Append(a.writes, OutputRow(a, o))
  BY <1>1, <1>7 DEF AddL2Write, SameBut, AppFields, AppOK
<1>9. WritesTensor(c, a, o)
  BY <1>1, <1>3, <1>4, <1>5, <1>6, <1>7, <1>8, <1>20 DEF WritesTensor, c
<1> QED
  BY <1>9 DEF c, o

\* An output is no tensor that is read.
LEMMA WriteReads ==
  ASSUME IInv, NEW T, ReadsInv(app, T), CollectOutputSend
  PROVE  ReadsInv(app', T)
<1> DEFINE o == prog.run[pos]
           c == WithSource(o)
<1>1. PICK a : WritesTensor(c, a, o)
  BY OutputWrites
<1>2. AppOK(app)
  BY Facts
<1> HIDE DEF o, c
<1>3. ReadsInv(c, T)
  BY <1>1, <1>2, StillReads DEF WritesTensor
<1>4. /\ BuffersTyped(a, T, ReadKinds) /\ BuffersGrow(c, a)
      /\ SameBut({"l2Globals", "l2Index", "globalIds", "nextL2"}, c, a)
  BY <1>1, <1>3, GlobalTyped DEF WritesTensor, ReadsInv, ReadKinds
<1>5. /\ a.reads = c.reads /\ a.numTokens = c.numTokens
      /\ a.subslices = c.subslices
  BY <1>4 DEF SameBut, AppFields
<1>6. /\ app'.reads = a.reads /\ app'.numTokens = a.numTokens
      /\ app'.subslices = a.subslices /\ app'.l2Globals = a.l2Globals
      /\ app'.l2Index = a.l2Index
  BY <1>1 DEF WritesTensor, SameBut, AppFields
<1>7. SubslicesGrow(c, app') /\ BuffersGrow(c, app')
  BY <1>4, <1>5, <1>6 DEF SubslicesGrow, BuffersGrow
<1>8. ReadsPlaced(app')
  BY <1>3, <1>5, <1>6, <1>7, ReadsLater DEF ReadsInv
<1>9. BuffersTyped(app', T, ReadKinds)
  BY <1>4, <1>6 DEF BuffersTyped, BufferTokens
<1> QED
  BY <1>8, <1>9 DEF ReadsInv

\* Every step of a collection keeps the reads of a module that keeps the
\* contract where they are.
LEMMA NextReads ==
  ASSUME IInv, NEW T, ReadsFit(prog, T), ReadsInv(app, T), [Next]_vars
  PROVE  ReadsInv(app', T)
<1>1. AppOK(app)
  BY Facts
<1>2. ASSUME NEW b, NEW i, NEW kind \in ReadKinds, NEW source, NEW n,
             ReadsTensor(b, i, kind, source, n), PartOfTensor(T, b, i, kind, source)
      PROVE  ReadsInv(app', T)
  <2>1. ReadsInv(b, T)
    BY <1>1, <1>2, StillReads DEF ReadsTensor
  <2> QED
    BY <1>2, <2>1, ReadAdded DEF ReadsTensor, PartOfTensor
<1>3. CASE CollectInitializerStore
  BY <1>2, <1>3, StoreReads DEF ReadKinds
<1>4. CASE CollectInputRecv
  BY <1>2, <1>4, InputReads DEF ReadKinds
<1>5. CASE CollectOutputSend
  BY <1>5, WriteReads
<1>6. CASE UNCHANGED vars
  BY <1>6 DEF vars
<1>7. CASE /\ Next /\ ~CollectInitializerStore /\ ~CollectInputRecv
           /\ ~CollectOutputSend
  BY <1>1, <1>7, InnerStepsStill, StillReads
<1> QED
  BY <1>3, <1>4, <1>5, <1>6, <1>7

-----------------------------------------------------------------------------
(* The bytes of a part of a tensor *)

\* A column times a width is monotone in the column.
LEMMA ProductGrows ==
  ASSUME NEW x \in Nat, NEW y \in Nat, x <= y, NEW w \in Nat
  PROVE  x * w \in Nat /\ y * w \in Nat /\ x * w <= y * w
<1> DEFINE d == y - x
<1>1. d \in Nat /\ y = x + d
  OBVIOUS
<1> HIDE DEF d
<1>2. x * w \in Nat /\ d * w \in Nat
  BY <1>1
<1>3. y * w = x * w + d * w
  BY <1>1
<1> QED
  BY <1>2, <1>3

\* An element of a tensor has a number, and starts that many elements behind the
\* first.
LEMMA ElementNumber ==
  ASSUME NEW h \in Nat, NEW w \in Nat, NEW e \in Nat, NEW r \in Nat, NEW c \in Nat,
         r < h, c < w
  PROVE  /\ r * w + c \in 0..(h * w - 1)
         /\ OffsetBytes(<<r, c>>, Strides(<<h, w>>, e)) = (r * w + c) * e
<1>1. /\ r * w \in Nat /\ (r + 1) * w \in Nat /\ h * w \in Nat
      /\ (r + 1) * w <= h * w
  BY ProductGrows
<1>2. (r + 1) * w = r * w + w
  OBVIOUS
<1>3. r * w + c \in 0..(h * w - 1)
  BY <1>1, <1>2
<1>4. r * (w * e) + c * e = (r * w + c) * e
  OBVIOUS
<1>5. OffsetBytes(<<r, c>>, Strides(<<h, w>>, e)) = r * (w * e) + c * e
  BY DEF OffsetBytes, Strides
<1> QED
  BY <1>3, <1>4, <1>5

\* Offsets of offsets.
LEMMA OffsetAdds ==
  ASSUME NEW off \in Pair, NEW i \in Nat, NEW j \in Nat, NEW shape \in Pair, NEW e \in Nat
  PROVE  OffsetBytes(off, Strides(shape, e)) + OffsetBytes(<<i, j>>, Strides(shape, e))
           = OffsetBytes(<<off[1] + i, off[2] + j>>, Strides(<<shape[1], shape[2]>>, e))
<1> DEFINE a == off[1]
           b == off[2]
           w == shape[2]
<1>1. a \in Nat /\ b \in Nat /\ w \in Nat
  BY DEF Pair
<1> HIDE DEF a, b, w
<1>2. a * (w * e) + b * e + (i * (w * e) + j * e) = (a + i) * (w * e) + (b + j) * e
  BY <1>1
<1> QED
  BY <1>2 DEF OffsetBytes, Strides, a, b, w

\* A placed row touches elements of its tensor.
TouchedAt(address, g, s) ==
  { address - g.address + OffsetBytes(<<i, j>>, Strides(g.shape, g.elemBytes)) :
      i \in 0..(s.shape[1] - 1), j \in 0..(s.shape[2] - 1) }

\* A byte where an element of a part of a tensor starts.
StartsIn(x, g, part) ==
  \E r \in 0..(g.shape[1] - 1), c \in 0..(g.shape[2] - 1) :
    /\ CellOf(<<r, c>>, part)
    /\ x = (r * g.shape[2] + c) * g.elemBytes
    /\ r * g.shape[2] + c \in 0..(g.shape[1] * g.shape[2] - 1)

\* What is touched starts where the elements of the part do.
LEMMA TouchedElements ==
  ASSUME NEW g \in L2GlobalType, NEW s, s.shape \in Pair, NEW off \in Pair,
         NEW address,
         address = g.address + OffsetBytes(off, Strides(g.shape, g.elemBytes)),
         FitsIn([off |-> off, len |-> s.shape], g.shape)
  PROVE  \A x \in TouchedAt(address, g, s) :
           StartsIn(x, g, [off |-> off, len |-> s.shape])
<1> DEFINE h == g.shape[1]
           w == g.shape[2]
           e == g.elemBytes
           m == s.shape[1]
           n == s.shape[2]
           a == off[1]
           b == off[2]
<1>1. /\ g.shape \in Pair /\ h \in Nat /\ w \in Nat /\ e \in Nat /\ g.address \in Nat
      /\ m \in Nat /\ n \in Nat /\ a \in Nat /\ b \in Nat
  BY DEF L2GlobalType, Pair
<1>2. a + m <= h /\ b + n <= w
  BY DEF FitsIn
<1>3. OffsetBytes(off, Strides(g.shape, e)) \in Nat
  BY <1>1, OffsetBytesNat
<1> DEFINE part == [off |-> off, len |-> s.shape]
<1> SUFFICES ASSUME NEW x \in TouchedAt(address, g, s)
             PROVE  StartsIn(x, g, part)
  OBVIOUS
<1>12. PICK i \in 0..(m - 1), j \in 0..(n - 1) :
         x = address - g.address + OffsetBytes(<<i, j>>, Strides(g.shape, g.elemBytes))
  BY DEF TouchedAt
<1>4. /\ i \in Nat /\ j \in Nat /\ i < m /\ j < n
      /\ a + i \in Nat /\ b + j \in Nat /\ a + i < h /\ b + j < w
  BY <1>1, <1>2
<1>5. CellOf(<<a + i, b + j>>, [off |-> off, len |-> s.shape])
  BY <1>1, <1>4 DEF CellOf
<1>6. OffsetBytes(off, Strides(g.shape, e)) + OffsetBytes(<<i, j>>, Strides(g.shape, e))
        = OffsetBytes(<<a + i, b + j>>, Strides(<<h, w>>, e))
  BY <1>1, <1>4, OffsetAdds
<1>7. /\ OffsetBytes(<<a + i, b + j>>, Strides(<<h, w>>, e)) = ((a + i) * w + (b + j)) * e
      /\ (a + i) * w + (b + j) \in 0..(h * w - 1)
  <2> DEFINE r == a + i
             c == b + j
  <2>1. /\ r \in Nat /\ c \in Nat /\ h \in Nat /\ w \in Nat /\ e \in Nat
        /\ r < h /\ c < w
    BY <1>1, <1>4
  <2> HIDE DEF r, c, h, w, e
  <2>2. /\ OffsetBytes(<<r, c>>, Strides(<<h, w>>, e)) = (r * w + c) * e
        /\ r * w + c \in 0..(h * w - 1)
    BY ONLY <2>1, ElementNumber
  <2> QED
    BY <2>2 DEF r, c
<1>8. OffsetBytes(<<i, j>>, Strides(g.shape, e)) \in Nat
  BY <1>1, <1>4, OffsetBytesNat DEF Pair
<1>9. address - g.address = OffsetBytes(off, Strides(g.shape, e))
  BY <1>1, <1>3
<1>10. address - g.address + OffsetBytes(<<i, j>>, Strides(g.shape, e))
         = ((a + i) * w + (b + j)) * e
  BY ONLY <1>6, <1>7, <1>9
<1>11. StartsIn(((a + i) * w + (b + j)) * e, g, part)
  <2>1. a + i \in 0..(h - 1) /\ b + j \in 0..(w - 1)
    BY <1>1, <1>4
  <2> QED
    BY ONLY <1>5, <1>7, <2>1 DEF StartsIn
<1> QED
  BY <1>10, <1>11, <1>12

\* What is placed is read inside its tensor.
LEMMA PlacedReadsInside ==
  ASSUME IInv, ReadsPlaced(app)
  PROVE  ReadsInsideTheirTensor
<1> SUFFICES ASSUME NEW k \in DOMAIN app.reads, NEW token \in 0..(app.numTokens - 1)
             PROVE  LET r == app.reads[k]
                        g == app.l2Globals[r.global]
                    IN /\ Touched(r) \subseteq ElementStarts(g)
                       /\ token * r.stride + g.tensorBytes <= g.tokenStride * g.numTokens
  BY DEF ReadsInsideTheirTensor, Rows
<1> DEFINE r == app.reads[k]
           g == app.l2Globals[r.global]
           s == app.subslices[r.subslice]
<1>1. AppOK(app) /\ ReadPlaced(app, r) /\ app.numTokens \in Nat
  BY Facts DEF ReadsPlaced
<1>2. g \in L2GlobalType /\ s.shape \in Pair
  <2>1. r.global \in DOMAIN app.l2Globals /\ r.subslice \in DOMAIN app.subslices
    BY <1>1 DEF ReadPlaced, ReadFields
  <2>2. s \in SubsliceType(app)
    BY <1>1, <2>1 DEF AppOK, PlacesOK
  <2> QED
    BY <1>1, <2>1, <2>2 DEF AppOK, PlacesOK, SubsliceType
<1>3. PICK off \in Pair :
        /\ r.address = g.address + OffsetBytes(off, Strides(g.shape, g.elemBytes))
        /\ FitsIn([off |-> off, len |-> s.shape], g.shape)
  BY <1>1 DEF ReadPlaced
<1>4. g.tensorBytes <= g.tokenStride
  BY <1>1 DEF ReadPlaced
<1>5. \/ r.stride = 0 /\ g.numTokens = 1
      \/ r.stride = g.tokenStride /\ g.numTokens = app.numTokens
  BY <1>1 DEF ReadPlaced
<1>6. Touched(r) = TouchedAt(r.address, g, s)
  BY DEF Touched, TouchedAt
<1> HIDE DEF r, g, s
<1>7. Touched(r) \subseteq ElementStarts(g)
  <2> SUFFICES ASSUME NEW x \in TouchedAt(r.address, g, s)
               PROVE  x \in ElementStarts(g)
    BY <1>6
  <2>1. \E n \in 0..(g.shape[1] * g.shape[2] - 1) : x = n * g.elemBytes
    <3>1. PICK start \in Pair :
             StartsIn(x, g, [off |-> start, len |-> s.shape])
      BY <1>2, <1>3, TouchedElements
    <3> QED
      BY ONLY <3>1 DEF StartsIn
  <2> QED
    BY ONLY <2>1 DEF ElementStarts
<1>8. token * r.stride + g.tensorBytes <= g.tokenStride * g.numTokens
  <2> DEFINE S == g.tokenStride
             t == g.tensorBytes
             N == app.numTokens
  <2>1. S \in Nat /\ t \in Nat /\ N \in Nat /\ t <= S /\ token \in Nat /\ token + 1 <= N
    BY <1>1, <1>2, <1>4 DEF L2GlobalType
  <2> HIDE DEF S, t, N
  <2>2. CASE r.stride = 0 /\ g.numTokens = 1
    BY <2>1, <2>2 DEF S, t
  <2>3. CASE r.stride = S /\ g.numTokens = N
    <3>1. (token + 1) * S \in Nat /\ N * S \in Nat /\ (token + 1) * S <= N * S
      BY <2>1, ProductGrows
    <3>2. (token + 1) * S = token * S + S /\ token * S \in Nat /\ S * N = N * S
      BY <2>1
    <3>3. token * S + t <= S * N
      BY ONLY <2>1, <3>1, <3>2
    <3> QED
      BY ONLY <2>3, <3>3 DEF S, t
  <2> QED
    BY <1>5, <2>2, <2>3 DEF S, N
<1> QED
  BY <1>7, <1>8 DEF r, g

\* Whatever modules are collected, if the reads of each fit into the tensors it
\* names, then a tile reads, for every token, only elements of the tensor it reads
\* from, in the buffer of that token (addL2ReadForSlice and getOrCreateL2Global,
\* called by collectInitializerStore and collectInputRecv).
THEOREM ReadsStayInside ==
  ASSUME NEW types, \A p \in Programs : ReadsFit(p, types[p])
  PROVE  Spec => []ReadsInsideTheirTensor
<1> DEFINE Placed == ReadsInv(app, types[prog])
<1>1. Init => Placed
  <2> SUFFICES ASSUME Init PROVE ReadsInv(app, types[prog])
    OBVIOUS
  <2>1. app.l2Index = <<>> /\ app.reads = <<>>
    BY DEF Init, NewApplication
  <2>2. DOMAIN <<>> = {}
    OBVIOUS
  <2> QED
    BY <2>1, <2>2 DEF ReadsInv, BuffersTyped, ReadsPlaced
<1>2. IInv /\ Placed /\ [Next]_vars => Placed'
  BY NextReads, ModuleStays DEF IInv
<1>3. IInv /\ Placed => ReadsInsideTheirTensor
  BY PlacedReadsInside DEF ReadsInv
<1> QED
  BY <1>1, <1>2, <1>3, Invariance, PTL DEF Spec

-----------------------------------------------------------------------------
(* What tiles write *)

OutKey(o) == L2Key("Output", o.globalName)

\* Buffers are found by one key each, and outputs by the name a send gives them.
IndexApart(a, p) ==
  /\ \A k1, k2 \in DOMAIN a.l2Index : a.l2Index[k1] = a.l2Index[k2] => k1 = k2
  /\ \A g \in DOMAIN a.l2Globals :
       a.l2Globals[g].kind = "Output" =>
         \E i \in OutputSends(p) : /\ OutKey(p.run[i]) \in DOMAIN a.l2Index
                                   /\ a.l2Index[OutKey(p.run[i])] = g

IndexGrows(a, b) ==
  \A key \in DOMAIN a.l2Index :
    key \in DOMAIN b.l2Index /\ b.l2Index[key] = a.l2Index[key]

\* The row of a write is that of a send: its part of the output, in the buffer
\* its output is found by.
WriteRow(a, p, m, o, row) ==
  LET g == a.l2Globals[row.global]
      box == OutputBox(p, m, o)
  IN /\ OutKey(o) \in DOMAIN a.l2Index /\ row.global = a.l2Index[OutKey(o)]
     /\ row.global \in DOMAIN a.l2Globals
     /\ row.address = g.address + OffsetBytes(box.off, Strides(g.shape, g.elemBytes))
     /\ row.stride = g.tokenStride
     /\ row.subslice \in DOMAIN a.subslices
     /\ a.subslices[row.subslice].shape = box.len
     /\ box.off \in Pair /\ m[o.root].width # 0

\* Every write is that of a send that was passed, no two of the same, and every
\* send that was passed has one.
WritesServe(a, p, m, ph, k, f) ==
  /\ f \in [DOMAIN a.writes -> OutputSends(p)]
  /\ \A w \in DOMAIN a.writes :
       Sent(ph, k, f[w]) /\ WriteRow(a, p, m, p.run[f[w]], a.writes[w])
  /\ \A w1, w2 \in DOMAIN a.writes : f[w1] = f[w2] => w1 = w2
  /\ \A i \in OutputSends(p) : Done(ph, k, i) => \E w \in DOMAIN a.writes : f[w] = i

WritesMeet(a, p, m, ph, k) == \E f : WritesServe(a, p, m, ph, k, f)

OutputsInv(a, p, m, T, ph, k) ==
  /\ BuffersTyped(a, T, {"Output"})
  /\ IndexApart(a, p)
  /\ WritesMeet(a, p, m, ph, k)

\* The walk goes on to what is no send to L2.
OutOnward(p, ph, k, ph2, k2) ==
  \A i \in OutputSends(p) :
    /\ Sent(ph, k, i) => Sent(ph2, k2, i)
    /\ Done(ph2, k2, i) => Done(ph, k, i)

\* A write stays where it is while the tables grow.
LEMMA WriteLater ==
  ASSUME NEW a, NEW b, SubslicesGrow(a, b), BuffersGrow(a, b), IndexGrows(a, b),
         NEW p, NEW m, NEW o, NEW row, WriteRow(a, p, m, o, row)
  PROVE  WriteRow(b, p, m, o, row)
<1>1. /\ row.global \in DOMAIN a.l2Globals /\ row.subslice \in DOMAIN a.subslices
      /\ OutKey(o) \in DOMAIN a.l2Index /\ row.global = a.l2Index[OutKey(o)]
  BY DEF WriteRow
<1>2. /\ row.global \in DOMAIN b.l2Globals /\ row.subslice \in DOMAIN b.subslices
      /\ b.l2Globals[row.global] = a.l2Globals[row.global]
      /\ b.subslices[row.subslice] = a.subslices[row.subslice]
      /\ OutKey(o) \in DOMAIN b.l2Index /\ row.global = b.l2Index[OutKey(o)]
  BY <1>1 DEF BuffersGrow, SubslicesGrow, IndexGrows
<1> QED
  BY <1>2 DEF WriteRow

\* So do they all.
LEMMA WritesLater ==
  ASSUME NEW a, NEW b, SubslicesGrow(a, b), BuffersGrow(a, b), IndexGrows(a, b),
         b.writes = a.writes, NEW p, NEW m, NEW ph, NEW k, WritesMeet(a, p, m, ph, k),
         NEW ph2, NEW k2, OutOnward(p, ph, k, ph2, k2)
  PROVE  WritesMeet(b, p, m, ph2, k2)
<1>1. PICK f : WritesServe(a, p, m, ph, k, f)
  BY DEF WritesMeet
<1>2. \A w \in DOMAIN b.writes :
        Sent(ph2, k2, f[w]) /\ WriteRow(b, p, m, p.run[f[w]], b.writes[w])
  BY <1>1, WriteLater DEF WritesServe, OutOnward
<1>3. WritesServe(b, p, m, ph2, k2, f)
  BY <1>1, <1>2 DEF WritesServe, OutOnward
<1> QED
  BY <1>3 DEF WritesMeet

\* What adds at most a subslice.
LEMMA StillOutputs ==
  ASSUME NEW a, AppOK(a), NEW b, Still(a, b), NEW p, NEW m, NEW T, NEW ph, NEW k,
         OutputsInv(a, p, m, T, ph, k), NEW ph2, NEW k2, OutOnward(p, ph, k, ph2, k2)
  PROVE  OutputsInv(b, p, m, T, ph2, k2)
<1>1. SubslicesGrow(a, b)
  BY StillGrows
<1>2. BuffersGrow(a, b) /\ IndexGrows(a, b) /\ b.writes = a.writes
  BY DEF Still, BuffersGrow, IndexGrows
<1>3. WritesMeet(b, p, m, ph2, k2)
  BY <1>1, <1>2, WritesLater DEF OutputsInv
<1>4. BuffersTyped(b, T, {"Output"})
  BY DEF OutputsInv, BuffersTyped, Still, BufferTokens
<1>5. IndexApart(b, p)
  BY DEF OutputsInv, IndexApart, Still
<1> QED
  BY <1>3, <1>4, <1>5 DEF OutputsInv

\* getOrCreateL2Global gives a buffer it makes a key of its own.
LEMMA GlobalIndexed ==
  ASSUME NEW a, AppOK(a), NEW kind, NEW source, NEW n,
         NEW p, IndexApart(a, p),
         kind = "Output" => \E i \in OutputSends(p) :
                              OutKey(p.run[i]) = L2Key(kind, source.name)
  PROVE  LET b == GetOrCreateL2Global(a, kind, source, n)
         IN IndexApart(b, p) /\ IndexGrows(a, b)
<1> DEFINE b == GetOrCreateL2Global(a, kind, source, n)
           key == L2Key(kind, source.name)
           new == NewL2Global(a, kind, source, n)
           m == Len(a.l2Globals) + 1
<1>1. /\ DOMAIN a = AppFields /\ IsTable(a.l2Index, DOMAIN a.l2Globals)
      /\ a.l2Globals \in Seq(L2GlobalType)
  BY DEF AppOK, IdsOK, PlacesOK
<1>3. CASE key \in DOMAIN a.l2Index
  <2>1. b = a
    BY <1>3 DEF GetOrCreateL2Global
  <2> QED
    BY <2>1 DEF IndexGrows
<1>4. CASE key \notin DOMAIN a.l2Index
  <2>1. /\ b.l2Globals = Append(a.l2Globals, new)
        /\ b.l2Index = Put(a.l2Index, key, m)
    BY <1>1, <1>4 DEF AppFields, GetOrCreateL2Global
  <2>2. new.kind = kind
    BY DEF NewL2Global
  <2> HIDE DEF b, key, new
  <2>4. /\ DOMAIN b.l2Globals = DOMAIN a.l2Globals \cup {m}
        /\ b.l2Globals[m] = new /\ m \notin DOMAIN a.l2Globals
        /\ \A g \in DOMAIN a.l2Globals : b.l2Globals[g] = a.l2Globals[g]
    BY <1>1, <2>1, AppendedList
  <2>5. /\ DOMAIN b.l2Index = DOMAIN a.l2Index \cup {key} /\ b.l2Index[key] = m
        /\ \A k \in DOMAIN a.l2Index : k # key => b.l2Index[k] = a.l2Index[k]
    BY ONLY <2>1 DEF Put
  <2> HIDE DEF m
  <2>6. IndexGrows(a, b)
    BY <1>4, <2>5 DEF IndexGrows
  <2>7. \A k \in DOMAIN a.l2Index : b.l2Index[k] \in DOMAIN a.l2Globals
    BY <1>1, <2>6 DEF IsTable, IndexGrows
  <2>8. ASSUME NEW k1 \in DOMAIN b.l2Index, NEW k2 \in DOMAIN b.l2Index,
               b.l2Index[k1] = b.l2Index[k2]
        PROVE  k1 = k2
    <3>1. CASE k1 = key \/ k2 = key
      BY <2>4, <2>5, <2>7, <2>8, <3>1
    <3>2. CASE k1 # key /\ k2 # key
      BY <2>5, <2>8, <3>2 DEF IndexApart
    <3> QED
      BY <3>1, <3>2
  <2>9. ASSUME NEW g \in DOMAIN b.l2Globals, b.l2Globals[g].kind = "Output"
        PROVE  \E i \in OutputSends(p) : /\ OutKey(p.run[i]) \in DOMAIN b.l2Index
                                         /\ b.l2Index[OutKey(p.run[i])] = g
    <3>1. CASE g \in DOMAIN a.l2Globals
      BY <2>4, <2>6, <2>9, <3>1 DEF IndexApart, IndexGrows
    <3>2. CASE g \notin DOMAIN a.l2Globals
      <4>1. g = m /\ kind = "Output"
        BY <2>2, <2>4, <2>9, <3>2
      <4> QED
        BY <2>5, <4>1 DEF key
    <3> QED
      BY <3>1, <3>2
  <2>10. IndexApart(b, p)
    BY <2>8, <2>9 DEF IndexApart
  <2> QED
    BY <2>6, <2>10 DEF b
<1> QED
  BY <1>3, <1>4

\* What addL2ReadForSlice does to the tables of the edge.
LEMMA ReadEdge ==
  ASSUME NEW a, AppOK(a), NEW i, NEW kind, NEW source, NEW n,
         WantedGlobal(kind, source, n), CanGetL2Global(a, kind, source, n)
  PROVE  LET c == GetOrCreateL2Global(a, kind, source, n)
             d == AddL2ReadForSlice(a, i, kind, source, n)
         IN /\ SubslicesGrow(a, d) /\ d.writes = a.writes
            /\ d.numTokens = c.numTokens
            /\ d.l2Globals = c.l2Globals /\ d.l2Index = c.l2Index
<1> DEFINE c == GetOrCreateL2Global(a, kind, source, n)
           b == AddSubslice(c, WholeSubslice(a, i))
           d == AddL2ReadForSlice(a, i, kind, source, n)
<1>1. /\ AppOK(c) /\ c.subslices = a.subslices
      /\ c.writes = a.writes
  <2>1. AppOK(c) /\ c.subslices = a.subslices
    BY GetGlobalExtends DEF Extends
  <2>2. c.writes = a.writes
    BY DEF GetOrCreateL2Global, AppOK, AppFields
  <2> QED
    BY <2>1, <2>2
<1>2. PICK read : d = AddL2Read(b, a.slices[i].owner, kind = "Initializer", read)
  BY DEF AddL2ReadForSlice
<1> HIDE DEF c
<1>4. /\ SameBut({"subslices"}, c, b)
      /\ b.subslices = Append(c.subslices, WholeSubslice(a, i))
      /\ DOMAIN c = AppFields /\ c.subslices \in Seq(SubsliceType(c))
  BY <1>1 DEF AddSubslice, SameBut, AppFields, AppOK, PlacesOK
<1>5. SubslicesGrow(a, b)
  BY <1>1, <1>4, AppendedList DEF SubslicesGrow
<1>6. /\ b.l2Globals = c.l2Globals /\ b.l2Index = c.l2Index
      /\ b.numTokens = c.numTokens /\ b.writes = a.writes
  BY <1>1, <1>4 DEF SameBut, AppFields
<1> HIDE DEF b
<1>7. SameBut({"reads", "plans"}, b, d)
  BY <1>2, <1>4 DEF AddL2Read, SameBut, AppFields
<1>8. /\ d.subslices = b.subslices /\ d.l2Globals = b.l2Globals
      /\ d.l2Index = b.l2Index /\ d.numTokens = b.numTokens
      /\ d.writes = b.writes
  BY <1>7 DEF SameBut, AppFields
<1> HIDE DEF d
<1> QED
  BY <1>5, <1>6, <1>8 DEF SubslicesGrow, c, d

\* What is read is no output.
LEMMA ReadOutputs ==
  ASSUME IInv, NEW b, NEW i, NEW kind \in ReadKinds, NEW source, NEW n,
         ReadsTensor(b, i, kind, source, n), NEW p, NEW m, NEW T, NEW ph, NEW k,
         OutputsInv(app, p, m, T, ph, k), NEW ph2, NEW k2, OutOnward(p, ph, k, ph2, k2)
  PROVE  OutputsInv(app', p, m, T, ph2, k2)
<1> DEFINE c == GetOrCreateL2Global(b, kind, source, n)
<1>1. AppOK(app) /\ AppOK(b) /\ kind # "Output"
  BY Facts DEF ReadsTensor, ReadKinds
<1>2. OutOnward(p, ph, k, ph, k)
  BY DEF OutOnward
<1>3. OutputsInv(b, p, m, T, ph, k)
  BY <1>1, <1>2, StillOutputs DEF ReadsTensor
<1>4. /\ BuffersTyped(c, T, {"Output"}) /\ BuffersGrow(b, c)
      /\ IndexApart(c, p) /\ IndexGrows(b, c)
  BY <1>1, <1>3, GlobalTyped, GlobalIndexed DEF ReadsTensor, OutputsInv
<1>5. /\ SubslicesGrow(b, app') /\ app'.writes = b.writes
      /\ app'.numTokens = c.numTokens
      /\ app'.l2Globals = c.l2Globals /\ app'.l2Index = c.l2Index
  BY <1>1, ReadEdge DEF ReadsTensor
<1> HIDE DEF c
<1>6. BuffersTyped(app', T, {"Output"}) /\ IndexApart(app', p)
  BY <1>4, <1>5 DEF BuffersTyped, BufferTokens, IndexApart
<1>7. BuffersGrow(b, app') /\ IndexGrows(b, app')
  BY <1>4, <1>5 DEF BuffersGrow, IndexGrows
<1>8. WritesMeet(app', p, m, ph2, k2)
  BY <1>3, <1>5, <1>7, WritesLater DEF OutputsInv
<1> QED
  BY <1>6, <1>8 DEF OutputsInv

-----------------------------------------------------------------------------
(* Sends to L2 *)

\* Passing an operation that is no send to L2.
LEMMA OutPassed ==
  ASSUME IInv, pos' = pos + 1, phase' = phase,
         phase = "run" => pos \notin OutputSends(prog)
  PROVE  OutOnward(prog, phase, pos, phase', pos')
<1>1. pos \in Nat
  BY Facts
<1>2. \A i \in OutputSends(prog) : i \in Nat
  BY Facts, Numbered DEF OutputSends
<1>3. ASSUME NEW i \in OutputSends(prog), i < pos + 1, phase = "run"
      PROVE  i < pos
  BY <1>1, <1>2, <1>3
<1>4. ASSUME NEW i \in OutputSends(prog), i < pos
      PROVE  i < pos + 1
  BY <1>1, <1>2, <1>4
<1> QED
  BY <1>3, <1>4 DEF OutOnward, Sent, Done

\* Only collectOutputSend passes one.
LEMMA StepOnward ==
  ASSUME IInv, Next, ~CollectOutputSend
  PROVE  OutOnward(prog, phase, pos, phase', pos')
<1>1. \A i \in OutputSends(prog) :
        IsTileSend(prog.run[i]) /\ prog.run[i].op = "send" /\ prog.run[i].dst = L2
  BY DEF OutputSends, IsTileSend
<1>2. CASE CollectModuleAttrs \/ Refuse
  BY <1>2 DEF CollectModuleAttrs, Refuse, OutOnward, Sent, Done
<1>3. CASE CollectInitializerStore \/ CollectTileRecv
  BY <1>3, OutPassed DEF CollectInitializerStore, CollectTileRecv
<1>4. CASE CollectInputRecv \/ CollectLoad \/ CollectExtractSliceAlias
           \/ CollectInsertSliceAlias \/ CollectComputeOp \/ CollectTileSend
  <2>1. /\ pos' = pos + 1 /\ phase' = phase
        /\ prog.run[pos].op = "send" => prog.run[pos].dst # L2
    BY <1>4 DEF CollectInputRecv, CollectLoad, CollectExtractSliceAlias,
                CollectInsertSliceAlias, CollectComputeOp, CollectTileSend, Step
  <2> QED
    BY <1>1, <2>1, OutPassed
<1>5. CASE PassOver
  <2>1. pos' = pos + 1 /\ phase' = phase /\ IsPassedOver(Walked[pos])
    BY <1>5 DEF PassOver
  <2>2. ASSUME phase = "run", pos \in OutputSends(prog) PROVE FALSE
    <3>1. IsPassedOver(prog.run[pos])
      BY <2>1, <2>2 DEF Walked
    <3>2. /\ IsTileSend(prog.run[pos]) /\ prog.run[pos].op = "send"
          /\ prog.run[pos].dst = L2 /\ OpOK(prog.run[pos])
      BY <1>1, <2>2, Facts, Numbered DEF OutputSends
    <3> QED
      BY <2>2, <3>1, <3>2 DEF IsPassedOver, IsTileSend, IsTileRecv, IsL2Send, OpOK, L2
  <2> QED
    BY <2>1, <2>2, OutPassed
<1>6. CASE EndWalk
  <2>1. /\ pos' = 1 /\ pos > Len(Walked)
        /\ \/ phase = "init" /\ phase' = "recvs"
           \/ phase = "recvs" /\ phase' = "run"
           \/ phase = "run" /\ phase' = "done"
    BY <1>6 DEF EndWalk
  <2>2. ProgramOK(prog) /\ pos \in Nat \ {0}
    BY Facts
  <2>3. phase = "run" => \A i \in DOMAIN prog.run : i < pos
    BY <2>1, <2>2, Numbered DEF Walked
  <2>4. OutputSends(prog) \subseteq DOMAIN prog.run
        /\ \A i \in DOMAIN prog.run : ~(i < 1)
    BY <2>2, Numbered DEF OutputSends
  <2> QED
    BY <2>1, <2>3, <2>4 DEF OutOnward, Sent, Done
<1> QED
  BY <1>2, <1>3, <1>4, <1>5, <1>6 DEF Next

\* A send to L2 whose module keeps the contract knows what it sends.
LEMMA OutputKnown ==
  ASSUME NEW p, NEW m, NEW T, OutputsFit(p, m, T), NEW i \in OutputSends(p)
  PROVE  i \in KnownSends(p, m)
<1> SUFFICES ASSUME NEW j \in DOMAIN p.run, IsTileSend(p.run[j]),
                    SendKey(p.run[j]) = SendKey(p.run[i])
             PROVE  RootIsKnown(p, m, j)
  BY DEF KnownSends, OutputSends
<1>1. p.run[j].dst = L2
  BY KeysApart DEF OutputSends
<1>2. j \in OutputSends(p)
  BY <1>1 DEF OutputSends
<1> QED
  BY <1>2 DEF OutputsFit

\* The row of a write, in the tables once it is made.
LEMMA RowServes ==
  ASSUME NEW p, NEW m, NEW o, o.dst = L2, NEW a, OutKey(o) \in DOMAIN a.l2Index,
         a.l2Index[OutKey(o)] \in DOMAIN a.l2Globals,
         IsPart(a, Len(a.subslices), o.sub, m[o.root]), WidthsKnown(a),
         p = prog, OutputOffset(o) \in Pair
  PROVE  WriteRow(a, p, m, o, OutputRow(a, o))
<1>1. OutKey(o) = L2Key("Output", SendName(o))
  BY DEF OutKey, SendName
<1>2. OutputOffset(o) = OutputBox(p, m, o).off
  BY DEF OutputOffset, OutputBox
<1>3. /\ Len(a.subslices) \in DOMAIN a.subslices
      /\ a.subslices[Len(a.subslices)].shape = OutputBox(p, m, o).len
      /\ m[o.root].width # 0
  BY DEF IsPart, OutputBox, LivesAt, WidthsKnown
<1> QED
  BY <1>1, <1>2, <1>3 DEF WriteRow, OutputRow

\* The tables a send to L2 fills, up to the buffer of its output.
LEMMA OutputBuffer ==
  ASSUME IInv, NEW m, NEW T, OutputsFit(prog, m, T),
         Wiring(app, run, prog, m, phase, pos), WidthsKnown(app),
         NEW o, o = prog.run[pos], pos \in DOMAIN prog.run, CollectOutputSend,
         NEW c, NEW a, WritesTensor(c, a, o), OutputsInv(c, prog, m, T, phase, pos)
  PROVE  /\ BuffersTyped(a, T, {"Output"}) /\ IndexApart(a, prog)
         /\ BuffersGrow(c, a) /\ IndexGrows(c, a)
         /\ a.numTokens = c.numTokens /\ a.writes = c.writes
         /\ WriteRow(a, prog, m, o, OutputRow(a, o))
<1>1. /\ phase = "run" /\ o.op = "send"
      /\ IsTileSend(o) /\ o.dst = L2 /\ CanPlaceSource(o)
  BY DEF CollectOutputSend, Step, CanCollectSend
<1>2. pos \in OutputSends(prog)
  BY <1>1 DEF OutputSends
<1>3. /\ pos \in KnownSends(prog, m)
      /\ T[OutKey(o)] = OutputSource(o).type
      /\ OutKey(o) = L2Key("Output", OutputSource(o).name)
  <2>1. T[OutKey(o)] = OutputType(prog, o)
    BY <1>2 DEF OutputsFit, OutKey, L2Key
  <2> QED
    BY <1>1, <1>2, <2>1, OutputKnown
    DEF OutKey, OutputSource, OutputType, SendName
<1>4. IsPart(c, Len(c.subslices), o.sub, m[o.root])
  BY <1>1, <1>3, SourceHoused DEF WritesTensor
<1>5. WidthsKnown(c)
  BY <1>1, SourceWidths DEF WritesTensor, WidthsStay
<1>6. app.numTokens = c.numTokens /\ AppOK(c)
  BY DEF WritesTensor, Still
<1>7. /\ BuffersTyped(a, T, {"Output"}) /\ BuffersGrow(c, a)
      /\ SameBut({"l2Globals", "l2Index", "globalIds", "nextL2"}, c, a)
      /\ OutKey(o) \in DOMAIN a.l2Index /\ a.l2Index[OutKey(o)] \in DOMAIN a.l2Globals
  <2> DEFINE source == OutputSource(o)
             n == app.numTokens
             K == {"Output"}
             kind == "Output"
  <2>1. /\ WantedGlobal(kind, source, n) /\ BuffersTyped(c, T, K)
        /\ a = GetOrCreateL2Global(c, kind, source, n) /\ AppOK(c)
        /\ kind \in K => /\ T[L2Key(kind, source.name)] = source.type
                         /\ n = BufferTokens(c, kind)
        /\ OutKey(o) = L2Key(kind, source.name)
    BY <1>3, <1>6 DEF WritesTensor, OutputsInv, BufferTokens
  <2> HIDE DEF source, n, K, kind
  <2>2. /\ BuffersTyped(a, T, K) /\ BuffersGrow(c, a)
        /\ SameBut({"l2Globals", "l2Index", "globalIds", "nextL2"}, c, a)
        /\ OutKey(o) \in DOMAIN a.l2Index
        /\ a.l2Index[OutKey(o)] \in DOMAIN a.l2Globals
    BY ONLY <2>1, GlobalTyped
  <2> QED
    BY <2>2 DEF K
<1>8. IndexApart(a, prog) /\ IndexGrows(c, a)
  BY <1>2, <1>3, <1>6, GlobalIndexed DEF WritesTensor, OutputsInv
<1>9. /\ a.numTokens = c.numTokens /\ a.writes = c.writes
      /\ a.subslices = c.subslices /\ a.slices = c.slices
  BY <1>7 DEF SameBut, AppFields
<1>10. IsPart(a, Len(a.subslices), o.sub, m[o.root]) /\ WidthsKnown(a)
  BY <1>4, <1>5, <1>9 DEF IsPart, LivesAt, WidthsKnown
<1>11. OutputOffset(o) \in Pair
  BY DEF WritesTensor
<1>12. WriteRow(a, prog, m, o, OutputRow(a, o))
  BY <1>1, <1>7, <1>10, <1>11, RowServes
<1> QED
  BY <1>7, <1>8, <1>9, <1>12

\* The new row serves its send; all others serve theirs.
LEMMA WriteAdded ==
  ASSUME IInv, NEW m, NEW k \in OutputSends(prog), k = pos, NEW a, NEW b,
         AppOK(a), WritesMeet(a, prog, m, "run", pos),
         NEW row, WriteRow(a, prog, m, prog.run[k], row),
         b.writes = Append(a.writes, row), b.subslices = a.subslices,
         b.l2Globals = a.l2Globals, b.l2Index = a.l2Index
  PROVE  WritesMeet(b, prog, m, "run", pos + 1)
<1>1. PICK f : WritesServe(a, prog, m, "run", pos, f)
  BY DEF WritesMeet
<1> DEFINE n == Len(a.writes) + 1
           f2 == [w \in DOMAIN b.writes |-> IF w \in DOMAIN a.writes THEN f[w] ELSE k]
<1>2. /\ DOMAIN b.writes = DOMAIN a.writes \cup {n} /\ n \notin DOMAIN a.writes
      /\ b.writes[n] = row
      /\ \A w \in DOMAIN a.writes : b.writes[w] = a.writes[w]
  <2>1. DOMAIN a.writes = 1..Len(a.writes) /\ Len(a.writes) \in Nat
        /\ \E S : a.writes \in Seq(S)
    BY DEF AppOK, RowsOK
  <2> QED
    BY <2>1, AppendedList
<1>3. pos \in Nat /\ \A i \in OutputSends(prog) : i \in Nat
  BY Facts, Numbered DEF OutputSends
<1> HIDE DEF n
<1>4. \A w \in DOMAIN a.writes : f[w] \in OutputSends(prog) /\ f[w] < pos
  BY <1>1 DEF WritesServe, Sent
<1>5. /\ \A w \in DOMAIN a.writes : f2[w] = f[w] /\ f2[w] # k
      /\ f2[n] = k /\ DOMAIN f2 = DOMAIN b.writes
  BY <1>2, <1>3, <1>4
<1>6. f2 \in [DOMAIN b.writes -> OutputSends(prog)]
  BY <1>4
<1> HIDE DEF f2
<1>7. \A w \in DOMAIN b.writes :
        Sent("run", pos + 1, f2[w]) /\ WriteRow(b, prog, m, prog.run[f2[w]], b.writes[w])
  <2> SUFFICES ASSUME NEW w \in DOMAIN b.writes
               PROVE  /\ Sent("run", pos + 1, f2[w])
                      /\ WriteRow(a, prog, m, prog.run[f2[w]], b.writes[w])
    BY DEF WriteRow
  <2>1. CASE w = n
    BY <1>2, <1>3, <1>5, <2>1 DEF Sent
  <2>2. CASE w \in DOMAIN a.writes
    <3>1. f2[w] < pos + 1
      <4>1. f2[w] = f[w] /\ f[w] \in Nat /\ f[w] < pos /\ pos \in Nat
        BY <1>3, <1>4, <1>5, <2>2
      <4> QED
        BY ONLY <4>1
    <3> QED
      BY <1>1, <1>2, <1>5, <2>2, <3>1 DEF WritesServe, Sent
  <2> QED
    BY <1>2, <2>1, <2>2
<1>8. \A w1, w2 \in DOMAIN b.writes : f2[w1] = f2[w2] => w1 = w2
  BY <1>1, <1>2, <1>5 DEF WritesServe
<1>9. \A i \in OutputSends(prog) :
        Done("run", pos + 1, i) => \E w \in DOMAIN b.writes : f2[w] = i
  <2> SUFFICES ASSUME NEW i \in OutputSends(prog), i < pos + 1
               PROVE  \E w \in DOMAIN b.writes : f2[w] = i
    BY DEF Done
  <2>1. CASE i = k
    BY <1>2, <1>5, <2>1
  <2>2. CASE i < pos
    BY <1>1, <1>2, <1>5, <2>2 DEF WritesServe, Done
  <2>3. i = pos \/ i < pos
    <3>1. i \in Nat /\ pos \in Nat /\ i < pos + 1
      BY <1>3
    <3> QED
      BY ONLY <3>1
  <2> QED
    BY <2>1, <2>2, <2>3
<1>10. WritesServe(b, prog, m, "run", pos + 1, f2)
  BY <1>6, <1>7, <1>8, <1>9 DEF WritesServe
<1> QED
  BY <1>10 DEF WritesMeet

\* The outputs survive a send to one of them.
LEMMA OutputSendOutputs ==
  ASSUME IInv, NEW m, NEW T, OutputsFit(prog, m, T),
         Wiring(app, run, prog, m, phase, pos), WidthsKnown(app),
         OutputsInv(app, prog, m, T, phase, pos), CollectOutputSend
  PROVE  OutputsInv(app', prog, m, T, phase', pos')
<1> DEFINE o == prog.run[pos]
           c == WithSource(o)
<1>1. /\ phase = "run" /\ pos' = pos + 1 /\ phase' = phase
      /\ pos <= Len(prog.run) /\ IsTileSend(o) /\ o.dst = L2
  BY DEF CollectOutputSend, Step
<1>2. pos \in DOMAIN prog.run /\ AppOK(app)
  <2>1. /\ Len(prog.run) \in Nat /\ DOMAIN prog.run = 1..Len(prog.run)
        /\ pos \in Nat \ {0}
    BY Facts, Numbered
  <2>2. pos <= Len(prog.run)
    BY <1>1
  <2>3. pos \in DOMAIN prog.run
    BY ONLY <2>1, <2>2
  <2> QED
    BY <2>3, Facts
<1>3. pos \in OutputSends(prog)
  BY <1>1, <1>2 DEF OutputSends
<1>4. PICK a : WritesTensor(c, a, o)
  BY OutputWrites
<1>5. OutOnward(prog, phase, pos, phase, pos)
  BY DEF OutOnward
<1>6. OutputsInv(c, prog, m, T, phase, pos)
  BY <1>2, <1>4, <1>5, StillOutputs DEF WritesTensor
<1>13. o = prog.run[pos]
  OBVIOUS
<1> HIDE DEF c, o
<1>7. /\ BuffersTyped(a, T, {"Output"}) /\ IndexApart(a, prog)
      /\ BuffersGrow(c, a) /\ IndexGrows(c, a)
      /\ a.numTokens = c.numTokens /\ a.writes = c.writes
      /\ WriteRow(a, prog, m, o, OutputRow(a, o))
  BY <1>2, <1>4, <1>6, <1>13, OutputBuffer
<1>8. AppOK(a) /\ SubslicesGrow(c, a)
  BY <1>4 DEF WritesTensor, SubslicesGrow
<1>9. WritesMeet(a, prog, m, phase, pos)
  BY <1>5, <1>6, <1>7, <1>8, WritesLater DEF OutputsInv
<1>10. /\ app'.writes = Append(a.writes, OutputRow(a, o))
       /\ app'.subslices = a.subslices /\ app'.l2Globals = a.l2Globals
       /\ app'.l2Index = a.l2Index /\ app'.numTokens = a.numTokens
  BY <1>4 DEF WritesTensor, SameBut, AppFields
<1>11. WritesMeet(app', prog, m, phase', pos')
  BY <1>1, <1>3, <1>7, <1>8, <1>9, <1>10, <1>13, WriteAdded
<1>12. BuffersTyped(app', T, {"Output"}) /\ IndexApart(app', prog)
  BY <1>7, <1>10 DEF BuffersTyped, BufferTokens, IndexApart
<1> QED
  BY <1>11, <1>12 DEF OutputsInv

\* Every step keeps the outputs of a module that keeps its contracts.
LEMMA NextOutputs ==
  ASSUME IInv, NEW m, NEW T, OutputsFit(prog, m, T),
         Wiring(app, run, prog, m, phase, pos), WidthsKnown(app),
         OutputsInv(app, prog, m, T, phase, pos), [Next]_vars
  PROVE  OutputsInv(app', prog, m, T, phase', pos')
<1>1. AppOK(app)
  BY Facts
<1>2. CASE CollectOutputSend
  BY <1>2, OutputSendOutputs
<1>3. CASE UNCHANGED vars
  BY <1>3 DEF vars
<1>4. CASE Next /\ ~CollectOutputSend
  <2>1. OutOnward(prog, phase, pos, phase', pos')
    BY <1>4, StepOnward
  <2>2. ASSUME NEW b, NEW i, NEW kind \in ReadKinds, NEW source, NEW n,
               ReadsTensor(b, i, kind, source, n)
        PROVE  OutputsInv(app', prog, m, T, phase', pos')
    BY <2>1, <2>2, ReadOutputs
  <2>3. CASE CollectInitializerStore
    BY <2>2, <2>3, StoreReads DEF ReadKinds
  <2>4. CASE CollectInputRecv
    BY <2>2, <2>4, InputReads DEF ReadKinds
  <2>5. CASE ~CollectInitializerStore /\ ~CollectInputRecv
    BY <1>1, <1>4, <2>1, <2>5, InnerStepsStill, StillOutputs
  <2> QED
    BY <2>3, <2>4, <2>5
<1> QED
  BY <1>2, <1>3, <1>4

-----------------------------------------------------------------------------
(* The elements of a tensor, its rows and its columns *)

\* The number of an element says its row and its column.
LEMMA RowAndColumn ==
  ASSUME NEW h \in Nat, NEW w \in Nat, NEW k \in 0..(h * w - 1)
  PROVE  \E r \in 0..(h - 1), c \in 0..(w - 1) : k = r * w + c
<1>1. w # 0 /\ h * w \in Nat /\ k \in Nat /\ k < h * w
  OBVIOUS
<1> DEFINE r == k \div w
           c == k % w
<1>2. r \in Int /\ c \in Nat /\ c < w /\ k = w * r + c
  BY <1>1, SMTT(30)
<1> HIDE DEF r, c
<1>3. w * r = r * w /\ r * w \in Int
  BY <1>2
<1>4. r \in Nat
  <2> SUFFICES ASSUME r < 0 PROVE FALSE
    BY <1>2
  <2> DEFINE n == 0 - r
  <2>1. n \in Nat /\ 1 <= n /\ 1 * w = w
    BY <1>2
  <2> HIDE DEF n
  <2>2. 1 * w <= n * w /\ n * w \in Nat
    BY <2>1, ProductGrows
  <2>3. n * w = 0 - r * w
    BY <1>2 DEF n
  <2> QED
    BY <1>1, <1>2, <1>3, <2>1, <2>2, <2>3
<1>5. r < h
  <2> SUFFICES ASSUME h <= r PROVE FALSE
    BY <1>4
  <2>1. h * w <= r * w
    BY <1>4, ProductGrows
  <2> QED
    BY <1>1, <1>2, <1>3, <2>1
<1> QED
  BY <1>2, <1>3, <1>4, <1>5

\* No two elements have one number.
LEMMA OneNumber ==
  ASSUME NEW w \in Nat, NEW r \in Nat, NEW c \in Nat, c < w,
         NEW q \in Nat, NEW d \in Nat, d < w, r * w + c = q * w + d
  PROVE  r = q /\ c = d
<1>1. r * w \in Nat /\ q * w \in Nat
  OBVIOUS
<1>2. ASSUME NEW x \in Nat, NEW y \in Nat, x < y
      PROVE  x * w + w <= y * w
  <2>1. (x + 1) * w <= y * w
    BY <1>2, ProductGrows
  <2>2. (x + 1) * w = x * w + w
    BY <1>2
  <2> QED
    BY ONLY <2>1, <2>2
<1>3. r = q
  <2>1. CASE r < q
    <3>1. r * w + w <= q * w
      BY <1>2, <2>1
    <3> QED
      BY <1>1, <3>1
  <2>2. CASE q < r
    <3>1. q * w + w <= r * w
      BY <1>2, <2>2
    <3> QED
      BY <1>1, <3>1
  <2> QED
    BY <2>1, <2>2
<1> QED
  BY <1>1, <1>3

\* No two start at one byte.
LEMMA OneStart ==
  ASSUME NEW x \in Nat, NEW y \in Nat, NEW e \in Nat \ {0}, x * e = y * e
  PROVE  x = y
<1>1. 0 < e
  OBVIOUS
<1>2. x * e + 0 = y * e + 0
  OBVIOUS
<1> QED
  BY <1>1, <1>2, OneNumber

\* A placed row touches the elements of the part it covers.
LEMMA CellTouched ==
  ASSUME NEW g \in L2GlobalType, NEW s, s.shape \in Pair, NEW off \in Pair,
         NEW address,
         address = g.address + OffsetBytes(off, Strides(g.shape, g.elemBytes)),
         NEW r \in 0..(g.shape[1] - 1), NEW c \in 0..(g.shape[2] - 1),
         CellOf(<<r, c>>, [off |-> off, len |-> s.shape])
  PROVE  (r * g.shape[2] + c) * g.elemBytes \in TouchedAt(address, g, s)
<1> DEFINE h == g.shape[1]
           w == g.shape[2]
           e == g.elemBytes
           a == off[1]
           b == off[2]
           i == r - a
           j == c - b
<1>1. /\ g.shape \in Pair /\ h \in Nat /\ w \in Nat /\ e \in Nat /\ g.address \in Nat
      /\ s.shape[1] \in Nat /\ s.shape[2] \in Nat /\ a \in Nat /\ b \in Nat
      /\ r \in Nat /\ c \in Nat /\ r < h /\ c < w
  BY DEF L2GlobalType, Pair
<1>2. /\ a <= r /\ r < a + s.shape[1]
      /\ b <= c /\ c < b + s.shape[2]
  BY DEF CellOf
<1>3. /\ i \in Nat /\ j \in Nat /\ a + i = r /\ b + j = c
      /\ i \in 0..(s.shape[1] - 1) /\ j \in 0..(s.shape[2] - 1)
  BY <1>1, <1>2
<1>4. OffsetBytes(off, Strides(g.shape, e)) \in Nat
      /\ OffsetBytes(<<i, j>>, Strides(g.shape, e)) \in Nat
  BY <1>1, <1>3, OffsetBytesNat DEF Pair
<1> HIDE DEF i, j
<1>5. OffsetBytes(off, Strides(g.shape, e)) + OffsetBytes(<<i, j>>, Strides(g.shape, e))
        = OffsetBytes(<<r, c>>, Strides(<<h, w>>, e))
  BY <1>1, <1>3, OffsetAdds
<1> HIDE DEF a, b, h, w, e
<1>6. OffsetBytes(<<r, c>>, Strides(<<h, w>>, e)) = (r * w + c) * e
  <2>1. /\ h \in Nat /\ w \in Nat /\ e \in Nat /\ r \in Nat /\ c \in Nat
        /\ r < h /\ c < w
    BY <1>1
  <2> QED
    BY ONLY <2>1, ElementNumber
<1>7. address - g.address + OffsetBytes(<<i, j>>, Strides(g.shape, g.elemBytes))
        = (r * w + c) * e
  <2>1. address - g.address = OffsetBytes(off, Strides(g.shape, e))
    BY <1>1, <1>4 DEF e
  <2> QED
    BY <1>5, <1>6, <2>1 DEF e
<1> QED
  BY <1>3, <1>7 DEF TouchedAt, w, e

-----------------------------------------------------------------------------
(* What is written tiles the outputs *)

\* A row of the table of writes covers a part of a buffer.
Covers(row, g, box) ==
  LET s == app.subslices[row.subslice]
  IN /\ Touched(row) = TouchedAt(row.address, g, s)
     /\ s.shape \in Pair /\ box.off \in Pair
     /\ box = [off |-> box.off, len |-> s.shape]
     /\ row.address = g.address + OffsetBytes(box.off, Strides(g.shape, g.elemBytes))
     /\ FitsIn(box, g.shape)
     /\ g.elemBytes # 0 /\ row.stride = g.tokenStride

CellStart(g, r, c) == (r * g.shape[2] + c) * g.elemBytes

\* It touches the elements of that part, and no other.
LEMMA CoversCells ==
  ASSUME NEW g \in L2GlobalType, NEW row, NEW box, Covers(row, g, box)
  PROVE  /\ \A x \in Touched(row) : StartsIn(x, g, box)
         /\ \A r \in 0..(g.shape[1] - 1), c \in 0..(g.shape[2] - 1) :
              CellOf(<<r, c>>, box) => CellStart(g, r, c) \in Touched(row)
<1> DEFINE s == app.subslices[row.subslice]
           off == box.off
           address == row.address
<1>1. /\ Touched(row) = TouchedAt(address, g, s)
      /\ s.shape \in Pair /\ off \in Pair /\ box = [off |-> off, len |-> s.shape]
      /\ address = g.address + OffsetBytes(off, Strides(g.shape, g.elemBytes))
      /\ FitsIn([off |-> off, len |-> s.shape], g.shape)
  BY DEF Covers
<1> HIDE DEF s, off, address
<1>2. \A x \in Touched(row) : StartsIn(x, g, box)
  BY <1>1, TouchedElements
<1>3. ASSUME NEW r \in 0..(g.shape[1] - 1), NEW c \in 0..(g.shape[2] - 1),
             CellOf(<<r, c>>, box)
      PROVE  CellStart(g, r, c) \in Touched(row)
  BY <1>1, <1>3, CellTouched DEF CellStart
<1> QED
  BY <1>2, <1>3

\* Whose output a buffer is.
IsOutputOf(p, g, o) ==
  OutKey(o) \in DOMAIN app.l2Index /\ app.l2Index[OutKey(o)] = g

\* A write covers the part of its output that its send is of.
LEMMA WriteCovers ==
  ASSUME IInv, NEW m, NEW T, OutputsFit(prog, m, T),
         OutputsInv(app, prog, m, T, phase, pos),
         NEW f, WritesServe(app, prog, m, phase, pos, f),
         NEW w \in DOMAIN app.writes
  PROVE  LET g == app.writes[w].global
             o == prog.run[f[w]]
         IN /\ IsOutputOf(prog, g, o)
            /\ app.l2Globals[g] \in L2GlobalType
            /\ Covers(app.writes[w], app.l2Globals[g], OutputBox(prog, m, o))
<1> DEFINE row == app.writes[w]
           g == row.global
           global == app.l2Globals[g]
           i == f[w]
           o == prog.run[i]
           type == T[OutKey(o)]
           s == app.subslices[row.subslice]
           box == OutputBox(prog, m, o)
<1>1. /\ i \in OutputSends(prog) /\ WriteRow(app, prog, m, o, row)
  BY DEF WritesServe
<1>2. AppOK(app)
  BY Facts
<1> HIDE DEF i, row, o
<1>3. /\ OutKey(o) \in DOMAIN app.l2Index /\ g = app.l2Index[OutKey(o)]
      /\ g \in DOMAIN app.l2Globals
      /\ row.address = global.address
                       + OffsetBytes(box.off, Strides(global.shape, global.elemBytes))
      /\ row.stride = global.tokenStride
      /\ row.subslice \in DOMAIN app.subslices
      /\ s.shape = box.len /\ box.off \in Pair /\ m[o.root].width # 0
  BY <1>1 DEF WriteRow
<1>4. /\ m[o.root].width = ElementByteWidth(type.elem)
      /\ FitsIn(box, type.shape)
  BY <1>1 DEF OutputsFit, OutKey, L2Key, o
<1>5. OutKey(o)[1] = "Output"
  BY DEF OutKey, L2Key
<1>6. /\ global.shape = type.shape
      /\ global.elemBytes = ElementByteWidth(type.elem)
  BY <1>3, <1>5 DEF OutputsInv, BuffersTyped, IsBuffer
<1>7. global \in L2GlobalType /\ s.shape \in Pair
  <2>1. s \in SubsliceType(app)
    BY <1>2, <1>3 DEF AppOK, PlacesOK
  <2> QED
    BY <1>2, <1>3, <2>1 DEF AppOK, PlacesOK, SubsliceType
<1>8. box = [off |-> box.off, len |-> s.shape]
  BY <1>3 DEF OutputBox
<1>9. Touched(row) = TouchedAt(row.address, global, s)
  BY DEF Touched, TouchedAt
<1>10. Covers(row, global, box)
  BY <1>3, <1>4, <1>6, <1>7, <1>8, <1>9 DEF Covers
<1> QED
  BY <1>3, <1>7, <1>10 DEF IsOutputOf, row, o, i

\* An element of an output is written once.
LEMMA WrittenOnce ==
  ASSUME IInv, phase = "done", NEW m, NEW T, OutputsFit(prog, m, T),
         OutputsInv(app, prog, m, T, phase, pos),
         NEW f, WritesServe(app, prog, m, phase, pos, f),
         NEW g \in DOMAIN app.l2Globals, NEW i \in OutputSends(prog),
         IsOutputOf(prog, g, prog.run[i]),
         NEW r \in 0..(app.l2Globals[g].shape[1] - 1),
         NEW c \in 0..(app.l2Globals[g].shape[2] - 1)
  PROVE  \E v \in DOMAIN app.writes :
           {w \in DOMAIN app.writes :
              /\ app.writes[w].global = g
              /\ CellStart(app.l2Globals[g], r, c) \in Touched(app.writes[w])} = {v}
<1> DEFINE global == app.l2Globals[g]
           type == T[OutKey(prog.run[i])]
           name == prog.run[i].globalName
           parts == {j \in OutputSends(prog) : prog.run[j].globalName = name}
           box(j) == OutputBox(prog, m, prog.run[j])
<1>1. \A j \in OutputSends(prog) :
        IsOutputOf(prog, g, prog.run[j]) <=> prog.run[j].globalName = name
  <2>1. \A k1, k2 \in DOMAIN app.l2Index : app.l2Index[k1] = app.l2Index[k2] => k1 = k2
    BY DEF OutputsInv, IndexApart
  <2> QED
    BY <2>1 DEF IsOutputOf, OutKey, L2Key
<1>2. global.shape = type.shape
  BY DEF OutputsInv, BuffersTyped, IsBuffer, IsOutputOf, OutKey, L2Key
<1>3. PICK j \in parts :
        /\ CellOf(<<r, c>>, box(j))
        /\ \A k \in parts : CellOf(<<r, c>>, box(k)) => k = j
  BY <1>2 DEF OutputsFit, OutKey, L2Key
<1>4. PICK v \in DOMAIN app.writes : f[v] = j
  BY <1>3 DEF WritesServe, Done
<1>5. \A w \in DOMAIN app.writes :
        /\ IsOutputOf(prog, app.writes[w].global, prog.run[f[w]])
        /\ app.l2Globals[app.writes[w].global] \in L2GlobalType
        /\ Covers(app.writes[w], app.l2Globals[app.writes[w].global], box(f[w]))
        /\ f[w] \in OutputSends(prog)
  BY WriteCovers DEF WritesServe
<1> HIDE DEF box
<1>6. app.writes[v].global = g
  BY <1>1, <1>3, <1>4, <1>5 DEF IsOutputOf
<1>7. CellStart(global, r, c) \in Touched(app.writes[v])
  BY <1>3, <1>4, <1>5, <1>6, CoversCells
<1>8. ASSUME NEW w \in DOMAIN app.writes, app.writes[w].global = g,
             CellStart(global, r, c) \in Touched(app.writes[w])
      PROVE  w = v
  <2>1. f[w] \in parts
    BY <1>1, <1>5, <1>8
  <2>2. StartsIn(CellStart(global, r, c), global, box(f[w])) /\ global \in L2GlobalType
        /\ global.elemBytes # 0
    BY <1>5, <1>8, CoversCells DEF Covers
  <2>3. PICK q \in 0..(global.shape[1] - 1), d \in 0..(global.shape[2] - 1) :
          /\ CellOf(<<q, d>>, box(f[w]))
          /\ CellStart(global, r, c) = (q * global.shape[2] + d) * global.elemBytes
    BY <2>2 DEF StartsIn
  <2>4. q = r /\ d = c
    <3> DEFINE h == global.shape[1]
               b == global.shape[2]
               e == global.elemBytes
    <3>1. /\ h \in Nat /\ b \in Nat /\ e \in Nat \ {0}
          /\ r \in Nat /\ c \in Nat /\ q \in Nat /\ d \in Nat /\ c < b /\ d < b
      BY <2>2, <2>3 DEF L2GlobalType, Pair
    <3>2. (r * b + c) * e = (q * b + d) * e
      BY <2>3 DEF CellStart
    <3> HIDE DEF h, b, e
    <3>3. r * b + c \in Nat /\ q * b + d \in Nat
      BY ONLY <3>1
    <3>4. r * b + c = q * b + d
      BY ONLY <3>1, <3>2, <3>3, OneStart
    <3> QED
      BY ONLY <3>1, <3>4, OneNumber
  <2>5. f[w] = j
    BY <1>3, <2>1, <2>3, <2>4
  <2> QED
    BY <1>4, <2>5 DEF WritesServe
<1> QED
  BY <1>6, <1>7, <1>8

\* What is written tiles every output.
LEMMA WritesTile ==
  ASSUME IInv, NEW m, NEW T, OutputsFit(prog, m, T),
         OutputsInv(app, prog, m, T, phase, pos)
  PROVE  OutputsTiled
<1> SUFFICES ASSUME phase = "done", NEW g \in DOMAIN app.l2Globals,
                    app.l2Globals[g].kind = "Output"
             PROVE  LET mine == {w \in DOMAIN app.writes : app.writes[w].global = g}
                    IN /\ \A e \in ElementStarts(app.l2Globals[g]) :
                            Cardinality({w \in mine : e \in Touched(app.writes[w])}) = 1
                       /\ \A w \in mine :
                            /\ Touched(app.writes[w]) \subseteq ElementStarts(app.l2Globals[g])
                            /\ app.writes[w].stride = app.l2Globals[g].tokenStride
  BY DEF OutputsTiled
<1> DEFINE global == app.l2Globals[g]
           mine == {w \in DOMAIN app.writes : app.writes[w].global = g}
<1>1. PICK f : WritesServe(app, prog, m, phase, pos, f)
  BY DEF OutputsInv, WritesMeet
<1>2. PICK i \in OutputSends(prog) : IsOutputOf(prog, g, prog.run[i])
  BY DEF OutputsInv, IndexApart, IsOutputOf
<1>3. global \in L2GlobalType
  BY Facts DEF AppOK, PlacesOK
<1>4. ASSUME NEW e \in ElementStarts(global)
      PROVE  Cardinality({w \in mine : e \in Touched(app.writes[w])}) = 1
  <2> DEFINE h == global.shape[1]
             b == global.shape[2]
  <2>1. h \in Nat /\ b \in Nat
    BY <1>3 DEF L2GlobalType, Pair
  <2>2. PICK k \in 0..(h * b - 1) : e = k * global.elemBytes
    BY DEF ElementStarts
  <2> HIDE DEF h, b
  <2>3. PICK r \in 0..(h - 1), c \in 0..(b - 1) : k = r * b + c
    BY <2>1, <2>2, RowAndColumn
  <2>4. e = CellStart(global, r, c)
    BY <2>2, <2>3 DEF CellStart, b
  <2>5. r \in 0..(global.shape[1] - 1) /\ c \in 0..(global.shape[2] - 1)
    BY <2>3 DEF h, b
  <2>6. PICK v \in DOMAIN app.writes :
          {w \in DOMAIN app.writes :
             /\ app.writes[w].global = g
             /\ CellStart(app.l2Globals[g], r, c) \in Touched(app.writes[w])} = {v}
    BY <1>1, <1>2, <2>5, WrittenOnce
  <2>7. {w \in mine : e \in Touched(app.writes[w])} = {v}
    BY <2>4, <2>6
  <2> QED
    BY <2>7, FS_Singleton
<1>5. ASSUME NEW w \in mine
      PROVE  /\ Touched(app.writes[w]) \subseteq ElementStarts(global)
             /\ app.writes[w].stride = global.tokenStride
  <2> DEFINE box == OutputBox(prog, m, prog.run[f[w]])
  <2>1. Covers(app.writes[w], global, box)
    BY <1>1, <1>5, WriteCovers
  <2> HIDE DEF box
  <2>2. \A x \in Touched(app.writes[w]) : StartsIn(x, global, box)
    BY <1>3, <2>1, CoversCells
  <2>3. ASSUME NEW x \in Touched(app.writes[w])
        PROVE  x \in ElementStarts(global)
    <3>1. \E n \in 0..(global.shape[1] * global.shape[2] - 1) : x = n * global.elemBytes
      BY ONLY <2>2, <2>3 DEF StartsIn
    <3> QED
      BY ONLY <3>1 DEF ElementStarts
  <2> QED
    BY <2>1, <2>3 DEF Covers
<1> QED
  BY <1>4, <1>5

\* Whatever modules are collected, if each keeps the contracts of ModuleContract
\* for some typing of its values and its buffers, then when the collection is done
\* every element of a model output is written, for every token, by exactly one
\* tile, and nothing is written beside an output (collectOutputSend,
\* addL2Write and getOrCreateL2Global).
THEOREM OutputsAreTiled ==
  ASSUME NEW homes, NEW types,
         \A p \in Programs : IsWired(p, homes[p]) /\ OutputsFit(p, homes[p], types[p])
  PROVE  Spec => []OutputsTiled
<1> DEFINE Wired == Wiring(app, run, prog, homes[prog], phase, pos)
           Sized == WidthsKnown(app)
           Written == OutputsInv(app, prog, homes[prog], types[prog], phase, pos)
<1>1. Init => Wired /\ Sized /\ Written
  <2> SUFFICES ASSUME Init
               PROVE  /\ WidthsKnown(app)
                      /\ OutputsInv(app, prog, homes[prog], types[prog], phase, pos)
    BY InitWired
  <2>1. /\ app.l2Index = <<>> /\ app.l2Globals = <<>> /\ app.writes = <<>>
        /\ app.slices = <<>> /\ phase = "attrs"
    BY DEF Init, NewApplication
  <2>2. DOMAIN <<>> = {}
    OBVIOUS
  <2>3. WritesServe(app, prog, homes[prog], phase, pos, [w \in {} |-> 0])
    BY <2>1, <2>2 DEF WritesServe, Done
  <2> QED
    BY <2>1, <2>2, <2>3 DEF OutputsInv, BuffersTyped, IndexApart, WritesMeet, WidthsKnown
<1>2. IInv /\ Wired /\ Sized /\ Written /\ [Next]_vars => (Wired /\ Sized /\ Written)'
  <2> SUFFICES ASSUME IInv, Wired, Sized, Written, [Next]_vars
               PROVE  (Wired /\ Sized /\ Written)'
    OBVIOUS
  <2>1. IsWired(prog, homes[prog]) /\ OutputsFit(prog, homes[prog], types[prog])
    BY DEF IInv
  <2>2. Wired'
    BY <2>1, NextWired, ModuleStays
  <2>3. Sized'
    BY NextWidths
  <2>4. Written'
    BY <2>1, NextOutputs, ModuleStays
  <2> QED
    BY <2>2, <2>3, <2>4
<1>3. IInv /\ Written => OutputsTiled
  BY WritesTile DEF IInv
<1> QED
  BY <1>1, <1>2, <1>3, Invariance, PTL DEF Spec
=============================================================================
