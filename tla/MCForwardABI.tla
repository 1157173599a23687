---------------------------- MODULE MCForwardABI ----------------------------
(* Functions of three arguments, of which the host sends two in the init    *)
(* region: whole, in slices, in slices of slices, in one order or another;  *)
(* and sends the third, or one of the two again, when it runs.              *)
EXTENDS ForwardABI

Op(kind, of, part, slot) == [kind |-> kind, of |-> of, part |-> part, slot |-> slot]
Tensors == {<<"v", "w", "x">>, <<"x", "v", "w">>, <<"v", "x", "w">>}
At(names, t) == CHOOSE k \in 1..3 : names[k] = t

\* What the host does with an argument before it sends it to a slot, as the
\* parts it takes one of the other.
Takes == {<<>>, <<<<>>>>, <<<<"upper">>>>, <<<<"lower">>>>, <<<<>>, <<"upper">>>>,
          <<<<"upper">>, <<"lower">>>>}

\* Operations that take the parts of the argument and send the result; the
\* first of them gets the number n.
SentTo(arg, parts, n, slot) ==
  [k \in 1..(Len(parts) + 1) |->
     LET of == IF k = 1 THEN arg ELSE n + k - 2
     IN IF k <= Len(parts) THEN Op("slice", <<of>>, parts[k], "")
        ELSE Op("init", <<of>>, <<>>, slot)]

BodyOf(names, first, then, swapped) ==
  LET v == At(names, IF swapped THEN "w" ELSE "v")
      w == At(names, IF swapped THEN "v" ELSE "w")
      one == SentTo(v, first, 4, "s")
      two == SentTo(w, then, 4 + Len(one), "t")
  IN one \o two

Loads ==
  {[slot |-> s, form |-> form, part |-> part] :
     s \in {"s", "t"}, form \in {"whole", "recv"}, part \in {<<>>}}
  \cup {[slot |-> s, form |-> form, part |-> part] :
     s \in {"s", "t"}, form \in {"clone", "cut"}, part \in {<<"upper">>, <<"far">>}}

\* What the host sends when it runs: the input, a sum of it with a parameter,
\* or a parameter.
RunSends(names, n) ==
  LET x == At(names, "x")
      v == At(names, "v")
  IN {<<Op("send", <<x>>, <<>>, "")>>,
      <<Op("join", <<x, v>>, <<>>, ""), Op("send", <<n>>, <<>>, "")>>,
      <<Op("slice", <<v>>, <<"upper">>, ""), Op("send", <<n>>, <<>>, "")>>}

FunctionsOf(names, swapped, loads) ==
  UNION {LET sent == BodyOf(names, first, then, swapped)
         IN {[args |-> names, body |-> sent \o run, loads |-> loads] :
               run \in RunSends(names, 4 + Len(sent))} :
         first \in Takes, then \in Takes}

\* Two slots that hold the same argument, and one sum that is not a parameter.
Shared ==
  {LET one == SentTo(1, first, 4, "s")
       two == SentTo(1, then, 4 + Len(one), "t")
   IN [args |-> <<"v", "w", "x">>, body |-> one \o two, loads |-> <<a, b>>] :
     first \in Takes, then \in Takes, a \in Loads, b \in Loads}

Summed ==
  {[args |-> <<"v", "w", "x">>,
    body |-> <<Op("join", <<1, 2>>, <<>>, ""), Op("init", <<4>>, <<>>, "s"),
               Op("init", <<2>>, <<>>, "t")>>,
    loads |-> <<a, b>>] : a \in Loads, b \in Loads}

\* One slot that the host sends two arguments to: it holds the second.
Overwritten ==
  {LET one == SentTo(v, first, 4, "s")
       two == SentTo(3 - v, then, 4 + Len(one), "s")
   IN [args |-> <<"v", "w", "x">>, body |-> one \o two, loads |-> <<a>>] :
     v \in 1..2, first \in Takes, then \in Takes,
     a \in {l \in Loads : l.slot = "s" /\ l.form # "recv"}}

MCFuncs ==
  Summed \cup Overwritten \cup {f \in Shared : f.loads[1].slot = "s" /\ f.loads[2].slot = "t"}
  \cup UNION {FunctionsOf(names, FALSE, <<a>>) : names \in Tensors, a \in Loads}
  \cup UNION {FunctionsOf(<<"v", "x", "w">>, TRUE, <<a, b>>) :
                a \in {l \in Loads : l.slot = "s"}, b \in {l \in Loads : l.slot = "t"}}
=============================================================================
