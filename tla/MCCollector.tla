----------------------------- MODULE MCCollector -----------------------------
(***************************************************************************)
(* Instances for TLC: modules imported from small execution plans.  Each   *)
(* plan is a pipeline of two stages over three tiles.  The first stage     *)
(* computes y from an input x and an initializer w, and perhaps u from y;  *)
(* the second computes the output z from what it receives, and perhaps     *)
(* forwards y to a third, which computes the output v.  The plans differ   *)
(* in the tiles of the stages, in the way each stage cuts its tensor, in   *)
(* what a tile of the second stage needs of y and in how it gives out its  *)
(* part of z.                                                              *)
(***************************************************************************)
EXTENDS ModuleContract

I == INSTANCE ExecutionPlanImport

None == I!Absent

-----------------------------------------------------------------------------
(* Boxes *)

Box(r, c, rows, cols) == [off |-> <<r, c>>, len |-> <<rows, cols>>]
Whole(shape) == [off |-> <<0, 0>>, len |-> shape]

\* The share of the n-th of m tiles when one dimension is cut; the first ones
\* take one more when it does not divide.
First(size, m, n) == (size * (n - 1) + m - 1) \div m
Cut(shape, dim, m, n) ==
  LET at == First(shape[dim], m, n)
      size == First(shape[dim], m, n + 1) - at
  IN IF dim = 1 THEN Box(at, 0, size, shape[2]) ELSE Box(0, at, shape[1], size)

Overlap(a, b) ==
  LET from(d) == IF a.off[d] > b.off[d] THEN a.off[d] ELSE b.off[d]
      to(d) == Lesser(a.off[d] + a.len[d], b.off[d] + b.len[d])
  IN IF \E d \in 1..2 : to(d) <= from(d) THEN None
     ELSE [off |-> <<from(1), from(2)>>, len |-> <<to(1) - from(1), to(2) - from(2)>>]

Within(box, parent) ==
  [off |-> <<box.off[1] - parent.off[1], box.off[2] - parent.off[2]>>,
   len |-> box.len]

-----------------------------------------------------------------------------
(* A plan for a choice c of tiles, cuts, layers and options *)

XShape == <<3, 2>>
YShape == <<3, 3>>

PieceOf(tiles, dim, h) ==
  LET n == CHOOSE n \in DOMAIN tiles : tiles[n] = h
  IN Cut(YShape, dim, Len(tiles), n)

\* What tile h of the first stage computes of y: its share, or the rows the
\* choice gives it, which may overlap or leave gaps.
Made(c, h) ==
  IF c.rows = <<>> THEN PieceOf(c.first, c.cut1, h)
  ELSE LET n == CHOOSE n \in DOMAIN c.first : c.first[n] = h
       IN Box(c.rows[n][1], 0, c.rows[n][2], YShape[2])

\* What tile h of the second stage needs of y: its own piece, or all of it.
Need(c, h) ==
  IF c.need = "piece" THEN PieceOf(c.second, c.cut2, h) ELSE Whole(YShape)

Transfers(c) ==
  LET pair(a, b) == Overlap(Made(c, a), Need(c, b))
      transfer(a, b) ==
        [ src |-> a, dst |-> b,
          srcBox |-> Within(pair(a, b), Made(c, a)),
          dstBox |-> Within(pair(a, b), Need(c, b)),
          srcParent |-> Made(c, a),
          dstParent |-> Need(c, b) ]
  IN I!Each(Len(c.first), LAMBDA k : I!Each(Len(c.second), LAMBDA n :
       IF pair(c.first[k], c.second[n]) = None THEN <<>>
       ELSE << transfer(c.first[k], c.second[n]) >>))

Tensor(initializer, shape, elem, packed) ==
  [ initializer |-> initializer, type |-> [shape |-> shape, elem |-> elem],
    packed |-> packed ]

Input(tensor, source, transition, destinations) ==
  [ tensor |-> tensor, source |-> source, transition |-> transition,
    destinations |-> destinations ]

\* What a tile gives out of its part of z: all at once or in two pieces.
Parts(c, box) ==
  IF c.pieces = 1 THEN << box >>
  ELSE LET rows == First(box.len[1], 2, 2)
       IN << [box EXCEPT !.len[1] = rows],
             [box EXCEPT !.off[1] = @ + rows, !.len[1] = @ - rows] >>

Everywhere(tiles, box) == [n \in DOMAIN tiles |-> [tile |-> tiles[n], box |-> box]]

PlanOf(c) ==
  LET weights(tiles) == Input("w", "INITIALIZER", 0, Everywhere(tiles, Whole(XShape)))
      layer(kind, inputs, output, boxes) ==
        [kind |-> kind, inputs |-> inputs, output |-> output, boxes |-> boxes]
      made1 == [h \in I!ToSet(c.first) |-> Made(c, h)]
      made2 == [h \in I!ToSet(c.second) |-> PieceOf(c.second, c.cut2, h)]
      echoing == c.second[1]
      last == c.first[1]
      made(t) == Input(t, "TRANSITION", IF t = "y" THEN 2 ELSE 4, <<>>)
      transition(kind, tensor, from, to, ends) ==
        [kind |-> kind, tensor |-> tensor, from |-> from, to |-> to, ends |-> ends]
  IN [ options |-> c.options, attrs |-> c.attrs,
       tensors |-> [ x |-> Tensor(FALSE, XShape, c.elem, None),
                     w |-> Tensor(TRUE, XShape, c.elem, c.packed),
                     y |-> Tensor(FALSE, YShape, c.elem, None),
                     u |-> Tensor(FALSE, YShape, c.elem, None),
                     z |-> Tensor(FALSE, YShape, c.elem, None),
                     v |-> Tensor(FALSE, Need(c, echoing).len, c.elem, None) ],
       tiles |-> <<0, 1, 2>>,
       stages |->
         << [ tiles |-> I!ToSet(c.first),
              layers |->
                << layer(c.kind, << Input("x", "TRANSITION", 1, <<>>),
                                    weights(c.first) >>, "y", made1) >>
                \o IF c.two
                   THEN << layer("kernel", << Input("y", "LOCAL", 0, <<>>) >>, "u",
                                 made1) >>
                   ELSE <<>> ],
            [ tiles |-> I!ToSet(c.second),
              layers |->
                << layer("kernel",
                     << made("y") >> \o (IF c.two THEN << made("u") >> ELSE <<>>)
                     \o (IF c.again THEN << weights(c.second) >> ELSE <<>>),
                     "z", made2) >> ] >>
         \o IF c.echo
            THEN << [ tiles |-> {last},
                      layers |->
                        << layer("kernel",
                             << Input("y", "TRANSITION", IF c.two THEN 5 ELSE 4, <<>>) >>,
                             "v", [h \in {last} |-> Whole(Need(c, echoing).len)]) >> ] >>
            ELSE <<>>,
       transitions |->
         << transition("INPUT", "x", 0, 1, Everywhere(c.first, Box(1, 0, 2, 2))),
            transition("INTERMEDIATE", "y", 1, 2, Transfers(c)),
            transition("OUTPUT", "z", 2, 0,
              I!Each(Len(c.second), LAMBDA n :
                LET parts == Parts(c, made2[c.second[n]])
                IN [k \in DOMAIN parts |-> [tile |-> c.second[n], box |-> parts[k]]])) >>
         \o (IF c.two THEN << transition("INTERMEDIATE", "u", 1, 2, Transfers(c)) >>
             ELSE <<>>)
         \o IF c.echo
            THEN << transition("INTERMEDIATE", "y", 2, 3,
                      << [ src |-> echoing, dst |-> last,
                           srcBox |-> Whole(Need(c, echoing).len),
                           dstBox |-> Whole(Need(c, echoing).len),
                           srcParent |-> Need(c, echoing),
                           dstParent |-> Need(c, echoing) ] >>),
                    transition("OUTPUT", "v", 3, 0,
                      << [tile |-> last, box |-> Whole(Need(c, echoing).len)] >>) >>
            ELSE <<>> ]

-----------------------------------------------------------------------------
(* Choices *)

PlainAttrs ==
  [ target |-> "magia-v2", numTokenSlots |-> 2, bundle |-> FALSE,
    alignment |-> Align, weightsSize |-> 0, limited |-> FALSE, l2Capacity |-> 0,
    mesh |-> TRUE, identified |-> TRUE ]

PlainOptions ==
  [target |-> "magia-v2", numTokens |-> 2, randomizeInputs |-> TRUE]

Plain ==
  [ first |-> <<0, 1>>, second |-> <<1, 2>>, cut1 |-> 1, cut2 |-> 2,
    need |-> "whole", kind |-> "kernel", two |-> FALSE, again |-> TRUE,
    rows |-> <<>>, echo |-> FALSE, pieces |-> 1, elem |-> "f16", packed |-> None,
    options |-> PlainOptions, attrs |-> PlainAttrs ]

\* How the tensors are cut and where: one tile or two in each stage, apart,
\* overlapping or the same, in either order.
Partitioned ==
  { [Plain EXCEPT !.first = a, !.second = b, !.cut1 = d1, !.cut2 = d2,
                  !.need = n, !.kind = k, !.two = t] :
      a \in {<<0>>, <<0, 1>>}, b \in {<<2>>, <<1, 2>>, <<1, 0>>, <<2, 0, 1>>},
      d1 \in {1, 2}, d2 \in {1, 2}, n \in {"piece", "whole"},
      k \in {"kernel", "linalg", "transform"}, t \in BOOLEAN }

OnTarget(c, target) == [c EXCEPT !.attrs.target = target, !.options.target = target]

\* What the application is generated for: the target, the packed image, the
\* number of tokens and of their slots, the room in L2.
Deployed ==
  { OnTarget([Plain EXCEPT !.elem = e, !.packed = p, !.options.numTokens = n,
                !.attrs.numTokenSlots = k, !.attrs.bundle = b,
                !.attrs.weightsSize = IF b THEN 14 ELSE 0,
                !.attrs.limited = (cap # 0), !.attrs.l2Capacity = cap], target) :
      e \in {"f16", "i8"}, p \in {None, [offset |-> 0, size |-> 12],
                                   [offset |-> 4, size |-> 6]},
      n \in {1, 4}, k \in {1, 9}, b \in BOOLEAN, cap \in {0, 16, 40},
      target \in {"magia-v2", "magia-v3"} }
  \cup {[Plain EXCEPT !.attrs.target = NoTarget]}

\* Modules and command lines that do not go together.
Refused ==
  { [Plain EXCEPT !.attrs.target = "magia-v3"],
    [Plain EXCEPT !.options.randomizeInputs = FALSE],
    [Plain EXCEPT !.elem = "i64"],
    [Plain EXCEPT !.attrs.bundle = TRUE, !.attrs.alignment = 6],
    [Plain EXCEPT !.attrs.bundle = TRUE, !.attrs.weightsSize = 12,
                  !.attrs.limited = TRUE, !.attrs.l2Capacity = 8],
    [Plain EXCEPT !.attrs.bundle = TRUE, !.attrs.limited = TRUE],
    [Plain EXCEPT !.attrs.bundle = TRUE, !.attrs.identified = FALSE],
    [Plain EXCEPT !.attrs.mesh = FALSE],
    OnTarget([Plain EXCEPT !.attrs.bundle = TRUE, !.attrs.weightsSize = 20],
             "magia-v3") }

\* A tile gives out its part of z in two pieces.
Pieced ==
  { [Plain EXCEPT !.second = b, !.cut2 = d, !.pieces = 2] :
      b \in {<<2>>, <<1, 2>>}, d \in {1, 2} }

ImportOf(choices) ==
  {I!Import(PlanOf(c)) : c \in {d \in choices : I!Importable(PlanOf(d))}}

PartitionPrograms == ImportOf(Partitioned)

\* A module, not from a plan, whose inputs are sent as they are.
Uncut(p) ==
  [p EXCEPT !.run = [i \in DOMAIN p.run |->
                      IF IsL2Send(p.run[i]) THEN [p.run[i] EXCEPT !.source = NoSource]
                      ELSE p.run[i]]]

DeploymentPrograms ==
  ImportOf(Deployed \cup Refused) \cup {Uncut(p) : p \in ImportOf({Plain})}

PiecedPrograms == ImportOf(Pieced)

-----------------------------------------------------------------------------
(* Imported modules keep the contracts. *)

\* Where the values of an imported module live, one operation after the other.
HomesOf(p) ==
  LET with(homes, o) ==
        CASE IsTileRecv(o) -> Put(homes, o.result, RecvHome(o))
          [] o.op = "load" ->
               LET j == CHOOSE j \in DOMAIN p.init :
                          /\ p.init[j].op = "store"
                          /\ p.init[j].tile = o.tile /\ p.init[j].slot = o.slot
               IN Put(homes, o.result, ValueHome(p.init[j]))
          [] o.op = "extract" -> Put(homes, o.result, homes[o.operand])
          [] o.op = "insert" ->
               Put(Put(homes, o.dest, homes[o.source]), o.result, homes[o.source])
          [] o.op = "send" -> homes
          [] OTHER -> Put(homes, o.result, ValueHome(o))
  IN I!FoldLeft(with, <<>>, p.run)

\* The types of the tensors in L2 an imported module names.
BuffersOf(p) ==
  LET read(ops, kind) ==
        {<< <<kind, L2Sources(ops)[c].name>>, L2Sources(ops)[c].type>> :
           c \in DOMAIN L2Sources(ops)}
      sent == {<< <<"Output", p.run[i].globalName>>, OutputType(p, p.run[i])>> :
                 i \in OutputSends(p)}
      named == read(p.init, "Initializer") \cup read(p.run, "Input") \cup sent
  IN [key \in {n[1] : n \in named} |-> (CHOOSE n \in named : n[1] = key)[2]]

\* A plan may give out a second tensor, and then not all of it, and a tile may
\* give out its part of a tensor in pieces.
HasOneOutput(p) ==
  \A i, j \in OutputSends(p) :
    /\ p.run[i].globalName = p.run[j].globalName
    /\ p.run[i].src = p.run[j].src => i = j

ASSUME ImportedModulesFit ==
  \A p \in Programs :
    LET home == HomesOf(p)
        buffer == BuffersOf(p)
    IN /\ IsWired(p, home) /\ ReceivesHoldData(p, home)
       /\ ReadsFit(p, buffer)
       /\ HasOneOutput(p) => OutputsFit(p, home, buffer)
=============================================================================
