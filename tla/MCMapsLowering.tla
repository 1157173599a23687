--------------------------- MODULE MCMapsLowering ---------------------------
(* Three families of programs.  Graphs: three tiles that send to each other *)
(* along any set of edges, so that the walk order may or may not be that of *)
(* the dependencies, and need not exist.  Pairs: a tile sends to another,   *)
(* each computing one of the forms below; Singles, Retried and Stuck vary   *)
(* them.  Malformed: what is refused.                                       *)
EXTENDS MapsLoweringProperties

Op(kind, name, args) == [kind |-> kind, name |-> name, args |-> args, dst |-> 0]
SendTo(c, arg, dst) == [kind |-> "send", name |-> c, args |-> <<arg>>, dst |-> dst]
TileOf(id, body) == [id |-> id, coords |-> <<0, id>>, stage |-> id, body |-> body]

\* The host fills slot "s" of the first tile and sends "h" to all that ask.
Storage == [TileOf(1, <<Op("recv", "init", <<>>), Op("store", "s", <<1>>)>>) EXCEPT !.stage = 0]
HostSends == <<[chan |-> "init", dst |-> 1], [chan |-> "h", dst |-> 1]>>
ProgramOf(tiles, outs) == [host |-> HostSends, tiles |-> <<Storage>> \o tiles, outs |-> outs]

-----------------------------------------------------------------------------
Nodes == 1..3
Edge(e) == ToString(e[1]) \o ToString(e[2])
Out(i) == ToString(i) \o "host"
AsSeq(S) == SetToSortSeq(S, <)

NodeBody(edges, i, kind) ==
  LET from == AsSeq({e[1] : e \in {x \in edges : x[2] = i}})
      to == AsSeq({e[2] : e \in {x \in edges : x[1] = i}})
      inputs == [k \in DOMAIN from |-> Op("recv", Edge(<<from[k], i>>), <<>>)]
                \o <<Op("load", "s", <<>>)>>
      n == Len(inputs)
      sum == IF kind = "add" THEN Op("add", "", <<1, n>>)
             ELSE Op("generic", "", [k \in 1..n |-> k])
  IN inputs \o <<sum>>
     \o (IF to = <<>> THEN <<SendTo(Out(i), n + 1, Host)>>
         ELSE [k \in DOMAIN to |-> SendTo(Edge(<<i, to[k]>>), n + 1, to[k])])

Graphs ==
  {ProgramOf([i \in Nodes |-> TileOf(i, NodeBody(edges, i, kinds[i]))],
             [k \in DOMAIN AsSeq({i \in Nodes : \A e \in edges : e[1] # i}) |->
                Out(AsSeq({i \in Nodes : \A e \in edges : e[1] # i})[k])]) :
     edges \in SUBSET {e \in Nodes \X Nodes : e[1] # e[2]},
     kinds \in [Nodes -> {"add", "generic"}]}

-----------------------------------------------------------------------------
\* The forms: operations on the value at place 1, a weight being at place 2.
Forms ==
  {<<>>,
   <<Op("slice", "upper", <<1>>)>>,
   <<Op("slice", "upper", <<1>>), Op("slice", "lower", <<3>>)>>,
   <<Op("exp", "", <<1>>)>>,
   <<Op("generic", "", <<1, 2>>), Op("exp", "", <<3>>)>>,
   <<Op("matmul", "", <<1, 2>>)>>,
   <<Op("exp", "", <<1>>), Op("matmul", "", <<3, 2>>)>>,
   <<Op("add", "", <<1, 2>>)>>,
   <<Op("matmul", "", <<1, 2>>), Op("add", "", <<3, 2>>)>>,
   <<Op("add", "", <<1, 2>>), Op("exp", "", <<3>>)>>,
   <<Op("add", "", <<1, 2>>), Op("add", "", <<3, 2>>)>>,
   <<Op("exp", "", <<1>>), Op("slice", "lower", <<3>>)>>,
   <<Op("matmul", "", <<1, 2>>), Op("slice", "lower", <<3>>)>>,
   <<Op("matmul", "", <<1, 2>>), Op("exp", "", <<3>>), Op("slice", "lower", <<4>>)>>,
   <<Op("exp", "", <<1>>), Op("matmul", "", <<3, 2>>), Op("slice", "lower", <<4>>)>>,
   <<Op("matmul", "", <<1, 2>>), Op("matmul", "", <<3, 2>>), Op("slice", "lower", <<4>>)>>,
   <<Op("add", "", <<1, 2>>), Op("slice", "lower", <<3>>)>>,
   <<Op("slice", "lower", <<1>>), Op("exp", "", <<3>>)>>,
   <<Op("exp", "", <<1>>), Op("slice", "lower", <<3>>), Op("exp", "", <<4>>)>>,
   <<Op("slice", "lower", <<2>>), Op("generic", "", <<1, 3>>)>>,
   <<Op("empty", "", <<>>), Op("insert", "", <<1, 3>>), Op("exp", "", <<4>>)>>,
   <<Op("empty", "", <<>>), Op("matmul", "", <<1, 2>>), Op("insert", "", <<4, 3>>),
     Op("exp", "", <<5>>)>>,
   <<Op("empty", "", <<>>), Op("insert", "", <<1, 3>>), Op("exp", "", <<4>>),
     Op("slice", "lower", <<5>>)>>,
   <<Op("empty", "", <<>>), Op("insert", "", <<2, 3>>)>>,
   <<Op("exp", "", <<1>>), Op("matmul", "", <<1, 2>>), Op("concat", "", <<3, 4>>),
     Op("add", "", <<5, 2>>)>>,
   <<Op("exp", "", <<1>>), Op("matmul", "", <<1, 2>>), Op("concat", "", <<3, 4>>),
     Op("exp", "", <<2>>), Op("add", "", <<6, 5>>)>>,
   <<Op("exp", "", <<1>>), Op("concat", "", <<3, 2>>), Op("add", "", <<4, 4>>)>>}

\* A tile that takes its input, loads its weight and sends the last value.
FormBody(input, form, c, dst) ==
  LET body == <<input, Op("load", "s", <<>>)>> \o form
  IN body \o <<SendTo(c, IF form = <<>> THEN 1 ELSE Len(body), dst)>>

FromHost == Op("recv", "h", <<>>)
FromPeer == Op("recv", "x", <<>>)

Pairs ==
  {ProgramOf(<<TileOf(1, FormBody(FromHost, f, "x", 2)),
               TileOf(2, FormBody(FromPeer, g, "y", Host))>>, <<"y">>) :
     f \in Forms, g \in Forms}

\* A tile alone, whose input is in a slot.
Singles ==
  {ProgramOf(<<TileOf(1, FormBody(Op("load", "s", <<>>), f, "y", Host))>>, <<"y">>) :
     f \in Forms}

\* The second tile stands first; its first send does not depend on the other,
\* its second does.
Retried ==
  {LET body == FormBody(FromPeer, f, "y", Host)
       n == Len(body)
   IN ProgramOf(<<TileOf(2, SubSeq(body, 1, n - 1)
                            \o <<Op("exp", "", <<2>>), SendTo("z", n, 1), body[n]>>),
                  TileOf(1, FormBody(FromHost, <<Op("exp", "", <<1>>)>>, "x", 2))>>,
                <<"y">>) : f \in Forms}

\* A tile sends to two others; the first of these also passes on, to itself, to
\* the host or not at all, what has been computed, which puts it off for ever.
Stuck ==
  {ProgramOf(<<TileOf(1, FormBody(FromHost, <<Op("exp", "", <<1>>)>>, "x", 2)),
               TileOf(2, FormBody(FromPeer, f, "y", 3) \o more),
               TileOf(3, <<FromPeer, Op("recv", "y", <<>>), Op("generic", "", <<1, 2>>),
                           SendTo("r", 3, Host)>>)>>, <<"r">>) :
     f \in {<<>>, <<Op("exp", "", <<1>>)>>, <<Op("add", "", <<1, 2>>)>>},
     more \in {<<>>, <<SendTo("z", 1, Host)>>, <<SendTo("z", 1, 2)>>}}

-----------------------------------------------------------------------------
Good == ProgramOf(<<TileOf(1, FormBody(FromHost, <<Op("exp", "", <<1>>)>>, "x", 2)),
                    TileOf(2, FormBody(FromPeer, <<Op("exp", "", <<1>>)>>, "y", Host))>>,
                  <<"y">>)

Malformed ==
  {[Good EXCEPT !.tiles[3].body[4].name = "x"],          \* sent twice
   [Good EXCEPT !.tiles[3].body[1].name = "nobody"],     \* received, not sent
   [Good EXCEPT !.tiles[2].body = SubSeq(@, 1, 3)],      \* sends nothing
   [Good EXCEPT !.tiles[2].coords = <<0, 7>>],           \* in two places
   [Good EXCEPT !.tiles[3].coords = <<0, -1>>],          \* off the grid
   [Good EXCEPT !.tiles[3].coords = <<0>>],
   [Good EXCEPT !.tiles[2].body[4].dst = 9],             \* sent to nobody
   [Good EXCEPT !.tiles[2].body[1].name = "y"],          \* in a circle
   [Good EXCEPT !.tiles[2].body[2].name = "unfilled"],   \* a slot not filled
   [Good EXCEPT !.tiles[2].body[3] = Op("generic", "", <<1, 2>>),
                !.tiles[2].body[2].name = "unfilled"],
   [Good EXCEPT !.tiles[2].body[3] = Op("add", "", <<1, 2>>),
                !.tiles[2].body[4].dst = 9],
   [Good EXCEPT !.tiles[2].body[4].args = <<1>>, !.tiles[2].body[4].dst = 9],
   [Good EXCEPT !.outs = <<"x">>],                       \* not for the host
   [Good EXCEPT !.outs = <<"h", "y">>],
   [Good EXCEPT !.tiles[2].stage = 0, !.tiles[2].body = SubSeq(@, 1, 3),
                !.tiles[3].body[1] = FromHost]}

MCPrograms == Graphs \cup Pairs \cup Singles \cup Retried \cup Stuck \cup Malformed
=============================================================================
