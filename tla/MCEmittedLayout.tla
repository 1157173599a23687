--------------------------- MODULE MCEmittedLayout ---------------------------
(***************************************************************************)
(* Instances for TLC of the layout of the payloads: two or three tiles      *)
(* share a tensor that a tile of the second stage needs whole or in part.   *)
(***************************************************************************)
EXTENDS EmittedLayout, MCCollector

\* A complete application: its initializers are packed.
Packed ==
  [Plain EXCEPT !.packed = [offset |-> 0, size |-> 12],
                !.attrs.bundle = TRUE, !.attrs.weightsSize = 12]

Gatherable ==
  { OnTarget([Packed EXCEPT !.first = a, !.second = b, !.cut1 = d, !.need = n,
                            !.two = t, !.attrs.numTokenSlots = k],
             "magia-v3") :
      a \in {<<0>>, <<0, 1>>, <<0, 1, 2>>}, b \in {<<2>>, <<2, 1>>}, d \in {1, 2},
      n \in {"piece", "whole"}, t \in BOOLEAN, k \in {1, 2, 3} }

\* A tile of the second stage also forwards what it received of y.
Echoing ==
  { [c EXCEPT !.echo = TRUE] :
      c \in {c \in Gatherable : c.attrs.numTokenSlots = 2} }

\* Rows that overlap, overlap and leave a gap, and only leave a gap.
Ragged ==
  { [c EXCEPT !.rows = r] :
      c \in { c \in Gatherable : /\ Len(c.first) = 2 /\ c.need = "whole"
                                 /\ c.cut1 = 1 /\ c.attrs.numTokenSlots = 2 },
      r \in { << <<0, 2>>, <<1, 2>> >>, << <<0, 2>>, <<1, 1>> >>,
              << <<0, 1>>, <<2, 1>> >> } }

OnV2 ==
  {OnTarget(c, "magia-v2") : c \in {c \in Gatherable : c.attrs.numTokenSlots = 2}}

LayoutPrograms == ImportOf(Gatherable \cup Echoing \cup Ragged \cup OnV2)

PlainPrograms == ImportOf(OnV2)

\* All of them: how tensors are cut, what applications are generated for, and how
\* transfers are laid out.
ApplicationPrograms == PartitionPrograms \cup DeploymentPrograms \cup LayoutPrograms
=============================================================================
