------------------------- MODULE MapsLoweringProofs -------------------------
(***************************************************************************)
(* What the conversion to D2M keeps and what it makes of a program, for    *)
(* all programs.  First, what the values of a body mean: which data a      *)
(* lowered value is made of, what it reads, and when it is lowered at all; *)
(* these definitions are by recursion over the body, and each is shown to  *)
(* satisfy its equation.  Then, in whatever order the tiles stand: the     *)
(* worklist loses no tile and lowers in dependency order, what is emitted  *)
(* reads only what has been emitted, and channels stand for the data that  *)
(* is sent on them.  Last, for the programs whose tiles stand in           *)
(* dependency order: operations stand behind what they use, waits behind   *)
(* their signals, and what is supported is lowered.                        *)
(***************************************************************************)
EXTENDS MapsLoweringProperties, DataInduction, SequenceTheorems, FiniteSetTheorems

-----------------------------------------------------------------------------
(* Definitions by recursion over a body.  The operands of an operation stand *)
(* before it, so that a solution up to a place can be carried on to the next *)
(* one; at the end it is a solution for the whole body.                      *)

\* What is known of the places of a body.
LEMMA BodyPlaces ==
  ASSUME NEW body, IsBody(body)
  PROVE  /\ \E n \in Nat : DOMAIN body = 1..n
         /\ \A i \in DOMAIN body :
              /\ i \in Nat
              /\ DOMAIN body[i].args = 1..Len(body[i].args) /\ Len(body[i].args) \in Nat
              /\ \A k \in DOMAIN body[i].args :
                   body[i].args[k] \in DOMAIN body /\ body[i].args[k] < i
<1>1. /\ Len(body) \in Nat /\ DOMAIN body = 1..Len(body)
  BY LenProperties DEF IsBody, IsList
<1>2. \A i \in DOMAIN body : DOMAIN body[i].args = 1..Len(body[i].args) /\ Len(body[i].args) \in Nat
  BY LenProperties DEF IsBody, IsList
<1>3. \A i \in DOMAIN body : \A k \in DOMAIN body[i].args : body[i].args[k] \in 1..(i - 1)
  BY DEF IsBody
<1>4. \A i \in DOMAIN body :
        i \in Nat /\ \A k \in DOMAIN body[i].args : body[i].args[k] \in DOMAIN body /\ body[i].args[k] < i
  BY <1>1, <1>3
<1> QED
  BY <1>1, <1>2, <1>4

\* How many operands an operation has, and that what a slice takes is a part.
LEMMA BodyArity ==
  ASSUME NEW body, IsBody(body), NEW i \in DOMAIN body
  PROVE  /\ body[i].kind = "slice" => DOMAIN body[i].args = {1} /\ body[i].name \in Parts
         /\ body[i].kind = "send" => DOMAIN body[i].args = {1}
         /\ body[i].kind \in {"matmul", "add"} => DOMAIN body[i].args = {1, 2}
         /\ body[i].kind = "concat" => 1 \in DOMAIN body[i].args
         /\ body[i].kind \in {"recv", "load", "empty", "constant"} => DOMAIN body[i].args = {}
<1>1. DOMAIN body[i].args = 1..Len(body[i].args) /\ Len(body[i].args) \in Nat
  BY BodyPlaces
<1>2. /\ body[i].kind = "slice" => Len(body[i].args) = 1 /\ body[i].name \in Parts
      /\ body[i].kind = "send" => Len(body[i].args) = 1
      /\ body[i].kind \in {"matmul", "add"} => Len(body[i].args) = 2
      /\ body[i].kind = "concat" => body[i].args # <<>>
      /\ body[i].kind \in {"recv", "load", "empty", "constant"} => body[i].args = <<>>
      /\ IsList(body[i].args)
  BY DEF IsBody
<1>3. body[i].args # <<>> => Len(body[i].args) # 0
  BY <1>2, EmptySeq DEF IsList
<1>4. Len(<<>>) = 0 /\ 1..1 = {1} /\ 1..2 = {1, 2} /\ 1..0 = {}
  OBVIOUS
<1>5. body[i].kind = "concat" => 1 \in 1..Len(body[i].args)
  BY <1>1, <1>2, <1>3
<1> HIDE DEF IsBody
<1> QED
  BY <1>1, <1>2, <1>4, <1>5, Zenon

\* Taking a part of a part gives a part, and may be done in any grouping.
LEMMA ComposeParts ==
  /\ \A a, b \in Parts : Compose(a, b) \in Parts
  /\ \A a, b, c \in Parts : Compose(Compose(a, b), c) = Compose(a, Compose(b, c))
  /\ \A a \in Parts : Compose(a, Whole) = a /\ Compose(Whole, a) = a
  /\ Whole \in Parts
BY DEF Compose, Parts, Whole

\* The places of a body and the parts that may be asked of them, and the rank by
\* which definitions over them are recursive.
PlaceParts(body) == (DOMAIN body) \X Parts
Names(body) == {body[i].name : i \in DOMAIN body}

PlaceRank(body) == [x \in PlaceParts(body) |-> x[1]]

LEMMA PlaceRanks ==
  ASSUME NEW body, IsBody(body)
  PROVE  /\ IsRanking(PlaceParts(body), PlaceRank(body))
         /\ \A i \in DOMAIN body, part \in Parts :
              /\ <<i, part>> \in PlaceParts(body)
              /\ <<i, part>>[1] = i /\ <<i, part>>[2] = part
<1>1. PICK n \in Nat : DOMAIN body = 1..n
  BY BodyPlaces
<1>2. \A x \in PlaceParts(body) : x[1] \in 1..n
  BY <1>1 DEF PlaceParts
<1>3. n + 1 \in Nat /\ \A x \in PlaceParts(body) : x[1] \in Nat /\ x[1] < n + 1
  BY <1>2
<1> QED
  BY <1>3 DEF PlaceParts, PlaceRank, IsRanking

\* The operands of the operation at a place have a smaller rank.
LEMMA OperandPlaces ==
  ASSUME NEW body, IsBody(body), NEW x \in PlaceParts(body)
  PROVE  /\ x[1] \in DOMAIN body /\ x[2] \in Parts /\ Whole \in Parts
         /\ \A k \in DOMAIN body[x[1]].args, q \in Parts :
              /\ <<body[x[1]].args[k], q>> \in PlaceParts(body)
              /\ PlaceRank(body)[<<body[x[1]].args[k], q>>] < PlaceRank(body)[x]
         /\ body[x[1]].kind = "slice" =>
              1 \in DOMAIN body[x[1]].args /\ Compose(body[x[1]].name, x[2]) \in Parts
         /\ body[x[1]].kind \in {"matmul", "add"} =>
              1 \in DOMAIN body[x[1]].args /\ 2 \in DOMAIN body[x[1]].args
<1>1. x[1] \in DOMAIN body /\ x[2] \in Parts /\ Whole \in Parts
  BY ComposeParts DEF PlaceParts
<1>2. ASSUME NEW k \in DOMAIN body[x[1]].args, NEW q \in Parts
      PROVE  /\ <<body[x[1]].args[k], q>> \in PlaceParts(body)
             /\ PlaceRank(body)[<<body[x[1]].args[k], q>>] < PlaceRank(body)[x]
  <2> DEFINE a == body[x[1]].args[k]
  <2>1. a \in DOMAIN body /\ a < x[1]
    BY <1>1, BodyPlaces
  <2> HIDE DEF a
  <2>2. <<a, q>> \in PlaceParts(body) /\ <<a, q>>[1] = a
    BY <2>1 DEF PlaceParts
  <2>3. PlaceRank(body)[<<a, q>>] = a /\ PlaceRank(body)[x] = x[1]
    BY <2>2 DEF PlaceRank
  <2> QED
    BY <2>1, <2>2, <2>3 DEF a
<1>3. body[x[1]].kind = "slice" =>
        1 \in DOMAIN body[x[1]].args /\ Compose(body[x[1]].name, x[2]) \in Parts
  BY <1>1, BodyArity, ComposeParts, Zenon
<1>4. body[x[1]].kind \in {"matmul", "add"} =>
        1 \in DOMAIN body[x[1]].args /\ 2 \in DOMAIN body[x[1]].args
  BY <1>1, BodyArity
<1> QED
  BY <1>1, <1>2, <1>3, <1>4

\* The equation of Leaves.
LEMMA LeavesEquation ==
  ASSUME NEW body, IsBody(body)
  PROVE  /\ Leaves(body) \in [PlaceParts(body) -> SUBSET (Names(body) \X Parts)]
         /\ \A x \in PlaceParts(body) :
              /\ body[x[1]].kind \in {"recv", "load"} =>
                   Leaves(body)[x] = {<<body[x[1]].name, x[2]>>}
              /\ body[x[1]].kind = "slice" =>
                   Leaves(body)[x] =
                     Leaves(body)[<<body[x[1]].args[1], Compose(body[x[1]].name, x[2])>>]
              /\ body[x[1]].kind = "matmul" =>
                   Leaves(body)[x] = Leaves(body)[<<body[x[1]].args[1], x[2]>>]
                                     \cup Leaves(body)[<<body[x[1]].args[2], Whole>>]
              /\ body[x[1]].kind \notin {"recv", "load", "slice", "matmul"} =>
                   Leaves(body)[x] =
                     UNION {Leaves(body)[<<body[x[1]].args[k], x[2]>>] : k \in DOMAIN body[x[1]].args}
<1> DEFINE S == PlaceParts(body)
           V == SUBSET (Names(body) \X Parts)
           Def(g, x) == CASE body[x[1]].kind \in {"recv", "load"} -> {<<body[x[1]].name, x[2]>>}
               [] body[x[1]].kind = "slice" ->
                    g[<<body[x[1]].args[1], Compose(body[x[1]].name, x[2])>>]
               [] body[x[1]].kind = "matmul" ->
                    g[<<body[x[1]].args[1], x[2]>>] \cup g[<<body[x[1]].args[2], Whole>>]
               [] OTHER -> UNION {g[<<body[x[1]].args[k], x[2]>>] :
                                    k \in DOMAIN body[x[1]].args}
           rank == PlaceRank(body)
           D == [g \in [S -> V] |-> [x \in S |-> Def(g, x)]]
<1>1. Leaves(body) = CHOOSE g : g = [x \in S |-> Def(g, x)]
  BY DEF Leaves, PlaceParts
<1>2. ASSUME NEW g, NEW x
      PROVE  /\ body[x[1]].kind \in {"recv", "load"} => Def(g, x) = {<<body[x[1]].name, x[2]>>}
             /\ body[x[1]].kind = "slice" =>
                  Def(g, x) = g[<<body[x[1]].args[1], Compose(body[x[1]].name, x[2])>>]
             /\ body[x[1]].kind = "matmul" =>
                  Def(g, x) = g[<<body[x[1]].args[1], x[2]>>] \cup g[<<body[x[1]].args[2], Whole>>]
             /\ body[x[1]].kind \notin {"recv", "load", "slice", "matmul"} =>
                  Def(g, x) = UNION {g[<<body[x[1]].args[k], x[2]>>] : k \in DOMAIN body[x[1]].args}
  BY Zenon
<1> HIDE DEF Def
<1> HIDE DEF S, rank
<1>3. ASSUME NEW x \in S
      PROVE  /\ x[1] \in DOMAIN body /\ x[2] \in Parts /\ Whole \in Parts
             /\ \A k \in DOMAIN body[x[1]].args, q \in Parts :
                  /\ <<body[x[1]].args[k], q>> \in S
                  /\ rank[<<body[x[1]].args[k], q>>] < rank[x]
             /\ body[x[1]].kind = "slice" =>
                  1 \in DOMAIN body[x[1]].args /\ Compose(body[x[1]].name, x[2]) \in Parts
             /\ body[x[1]].kind \in {"matmul", "add"} =>
                  1 \in DOMAIN body[x[1]].args /\ 2 \in DOMAIN body[x[1]].args
  BY OperandPlaces, Zenon DEF S, rank
<1>4. ASSUME NEW g \in [S -> V], NEW x \in S
      PROVE  Def(g, x) \in V
  <2>1. CASE body[x[1]].kind \in {"recv", "load"}
    <3>1. body[x[1]].name \in Names(body) /\ x[2] \in Parts
      BY <1>3 DEF Names
    <3>2. Def(g, x) = {<<body[x[1]].name, x[2]>>}
      BY <1>2, <2>1, Zenon
    <3> QED
      BY <3>1, <3>2
  <2>2. ASSUME NEW p \in S
        PROVE  g[p] \in V
    OBVIOUS
  <2> HIDE DEF V
  <2>3. CASE body[x[1]].kind = "slice"
    <3> DEFINE p == <<body[x[1]].args[1], Compose(body[x[1]].name, x[2])>>
    <3>1. p \in S
      BY <1>3, <2>3
    <3>2. Def(g, x) = g[p]
      BY <1>2, <2>3, Zenon
    <3> QED
      BY <2>2, <3>1, <3>2
  <2>4. CASE body[x[1]].kind = "matmul"
    <3> DEFINE p == <<body[x[1]].args[1], x[2]>>
               q == <<body[x[1]].args[2], Whole>>
    <3>1. p \in S /\ q \in S
      BY <1>3, <2>4
    <3>2. Def(g, x) = g[p] \cup g[q]
      BY <1>2, <2>4, Zenon
    <3>3. g[p] \in V /\ g[q] \in V
      BY <2>2, <3>1
    <3> QED
      BY <3>2, <3>3 DEF V
  <2>5. CASE body[x[1]].kind \notin {"recv", "load", "slice", "matmul"}
    <3>1. Def(g, x) = UNION {g[<<body[x[1]].args[k], x[2]>>] : k \in DOMAIN body[x[1]].args}
      BY <1>2, <2>5, Zenon
    <3>2. \A k \in DOMAIN body[x[1]].args : g[<<body[x[1]].args[k], x[2]>>] \in V
      BY <1>3, <2>2
    <3> QED
      BY <3>1, <3>2 DEF V
  <2> QED
    BY <2>1, <2>3, <2>4, <2>5
<1>5. ASSUME NEW g, NEW h, NEW x \in S,
             \A y \in S : rank[y] < rank[x] => g[y] = h[y]
      PROVE  Def(g, x) = Def(h, x)
  <2>1. \A k \in DOMAIN body[x[1]].args, q \in Parts :
          g[<<body[x[1]].args[k], q>>] = h[<<body[x[1]].args[k], q>>]
    BY <1>3, <1>5
  <2>2. CASE body[x[1]].kind \in {"recv", "load"}
    BY <1>2, <2>2, Zenon
  <2>3. CASE body[x[1]].kind = "slice"
    <3> DEFINE p == <<body[x[1]].args[1], Compose(body[x[1]].name, x[2])>>
    <3>1. g[p] = h[p]
      BY <1>3, <2>1, <2>3
    <3>2. Def(g, x) = g[p] /\ Def(h, x) = h[p]
      BY <1>2, <2>3, Zenon
    <3> QED
      BY <3>1, <3>2, Zenon
  <2>4. CASE body[x[1]].kind = "matmul"
    <3> DEFINE p == <<body[x[1]].args[1], x[2]>>
               q == <<body[x[1]].args[2], Whole>>
    <3>1. g[p] = h[p] /\ g[q] = h[q]
      BY <1>3, <2>1, <2>4
    <3>2. Def(g, x) = g[p] \cup g[q] /\ Def(h, x) = h[p] \cup h[q]
      BY <1>2, <2>4, Zenon
    <3> QED
      BY <3>1, <3>2, Zenon
  <2>5. CASE body[x[1]].kind \notin {"recv", "load", "slice", "matmul"}
    <3>1. {g[<<body[x[1]].args[k], x[2]>>] : k \in DOMAIN body[x[1]].args}
            = {h[<<body[x[1]].args[k], x[2]>>] : k \in DOMAIN body[x[1]].args}
      BY <1>3, <2>1
    <3> QED
      BY <1>2, <2>5, <3>1, ZenonT(40)
  <2> QED
    BY <2>2, <2>3, <2>4, <2>5
<1>6. \E g \in [S -> V] : g = D[g]
  <2>1. D \in [[S -> V] -> [S -> V]]
    BY <1>4
  <2>2. \A g, h \in [S -> V] : \A x \in S :
          (\A y \in S : rank[y] < rank[x] => g[y] = h[y]) => D[g][x] = D[h][x]
    BY <1>5
  <2>3. V # {}
    OBVIOUS
  <2>4. IsRanking(S, rank)
    BY PlaceRanks DEF S, rank
  <2>5. IsRecursion(S, V, rank, D)
    BY <2>1, <2>2 DEF IsRecursion
  <2> HIDE DEF V, D
  <2> QED
    BY <2>3, <2>4, <2>5, RecursionSolves
<1>7. PICK f \in [S -> V] : f = [x \in S |-> Def(f, x)]
  BY <1>6
<1>8. Leaves(body) = [x \in S |-> Def(Leaves(body), x)]
  <2> HIDE DEF V
  <2> QED
    BY <1>1, <1>7
<1>9. Leaves(body) = f
  <2> DEFINE g == Leaves(body)
  <2>1. \A x \in S : g[x] = Def(g, x) /\ f[x] = Def(f, x)
    BY <1>7, <1>8
  <2> HIDE DEF g
  <2>2. \A x \in S : (\A y \in S : rank[y] < rank[x] => g[y] = f[y]) => g[x] = f[x]
    BY <1>5, <2>1
  <2>3. \A x \in S : g[x] = f[x]
    <3>1. rank \in [S -> Nat]
      BY PlaceRanks DEF S, rank, IsRanking
    <3> QED
      BY <2>2, <3>1, RecursionIsUnique
  <2>4. DOMAIN g = S /\ g = [x \in S |-> g[x]]
    BY <1>8 DEF g
  <2> QED
    BY <1>7, <2>3, <2>4 DEF g
<1> QED
  <2>1. Leaves(body) \in [S -> V]
    BY <1>9
  <2>2. \A x \in S : Leaves(body)[x] = Def(Leaves(body), x)
    BY <1>8
  <2> HIDE DEF V
  <2>3. \A x \in S :
              /\ body[x[1]].kind \in {"recv", "load"} =>
                   Leaves(body)[x] = {<<body[x[1]].name, x[2]>>}
              /\ body[x[1]].kind = "slice" =>
                   Leaves(body)[x] =
                     Leaves(body)[<<body[x[1]].args[1], Compose(body[x[1]].name, x[2])>>]
              /\ body[x[1]].kind = "matmul" =>
                   Leaves(body)[x] = Leaves(body)[<<body[x[1]].args[1], x[2]>>]
                                     \cup Leaves(body)[<<body[x[1]].args[2], Whole>>]
              /\ body[x[1]].kind \notin {"recv", "load", "slice", "matmul"} =>
                   Leaves(body)[x] =
                     UNION {Leaves(body)[<<body[x[1]].args[k], x[2]>>] : k \in DOMAIN body[x[1]].args}
    BY <1>2, <2>2, Zenon
  <2> QED
    BY <2>1, <2>3 DEF S, V

\* The same by place and part.
LEMMA LeavesAt ==
  ASSUME NEW body, IsBody(body), NEW i \in DOMAIN body, NEW q \in Parts
  PROVE  /\ Leaves(body)[<<i, q>>] \in SUBSET (Names(body) \X Parts)
         /\ body[i].kind \in {"recv", "load"} => Leaves(body)[<<i, q>>] = {<<body[i].name, q>>}
         /\ body[i].kind = "slice" =>
              Leaves(body)[<<i, q>>] = Leaves(body)[<<body[i].args[1], Compose(body[i].name, q)>>]
         /\ body[i].kind = "matmul" =>
              Leaves(body)[<<i, q>>] = Leaves(body)[<<body[i].args[1], q>>]
                                       \cup Leaves(body)[<<body[i].args[2], Whole>>]
         /\ body[i].kind \notin {"recv", "load", "slice", "matmul"} =>
              Leaves(body)[<<i, q>>] =
                UNION {Leaves(body)[<<body[i].args[k], q>>] : k \in DOMAIN body[i].args}
<1> DEFINE x == <<i, q>>
<1>1. x \in PlaceParts(body) /\ x[1] = i /\ x[2] = q
  BY PlaceRanks
<1> HIDE DEF x
<1>2. Leaves(body)[x] \in SUBSET (Names(body) \X Parts)
  BY <1>1, LeavesEquation
<1>3. /\ body[x[1]].kind \in {"recv", "load"} => Leaves(body)[x] = {<<body[x[1]].name, x[2]>>}
      /\ body[x[1]].kind = "slice" =>
           Leaves(body)[x] = Leaves(body)[<<body[x[1]].args[1], Compose(body[x[1]].name, x[2])>>]
      /\ body[x[1]].kind = "matmul" =>
           Leaves(body)[x] = Leaves(body)[<<body[x[1]].args[1], x[2]>>]
                             \cup Leaves(body)[<<body[x[1]].args[2], Whole>>]
      /\ body[x[1]].kind \notin {"recv", "load", "slice", "matmul"} =>
           Leaves(body)[x] =
             UNION {Leaves(body)[<<body[x[1]].args[k], x[2]>>] : k \in DOMAIN body[x[1]].args}
  BY <1>1, LeavesEquation, ZenonT(40)
<1> QED
  BY <1>1, <1>2, <1>3 DEF x

-----------------------------------------------------------------------------
(* The results of lowering a value *)

\* The values emitted so far that the entries of a table read.
ReadsOf(table) == UNION {table[c].reads : c \in DOMAIN table}

\* What lowering a value of a body may give, out of tables that read the values R.
Results(body, R) ==
  [status : {"lowered", "deferred", "failed"},
   leaves : SUBSET (Names(body) \X Parts),
   reads : SUBSET (R \cup {Inside})]

\* A channel, a slot and a value taken as it is give a result.
LEMMA SourcesAreResults ==
  ASSUME NEW body, IsBody(body), NEW table, NEW R, ReadsOf(table) \subseteq R, NEW i \in DOMAIN body, NEW part \in Parts
  PROVE  /\ FromChannel(body[i].name, table) \in Results(body, R)
         /\ FromSlot(body[i].name) \in Results(body, R)
         /\ AsItIs(body, i, part) \in Results(body, R)
         /\ Deferred \in Results(body, R) /\ Failed \in Results(body, R)
         /\ Lowered({}, {}) \in Results(body, R)
<1>1. body[i].name \in Names(body) /\ Whole \in Parts
  BY ComposeParts DEF Names
<1>2. Leaves(body)[<<i, part>>] \in SUBSET (Names(body) \X Parts)
  BY LeavesEquation, PlaceRanks
<1>3. \A c \in DOMAIN table : table[c].reads \subseteq R
  BY DEF ReadsOf
<1> DEFINE L == SUBSET (Names(body) \X Parts)
           Rs == SUBSET (R \cup {Inside})
<1>4. \A l \in L, r \in Rs : Lowered(l, r) \in Results(body, R)
  BY DEF Lowered, Results
<1>5. Deferred \in Results(body, R) /\ Failed \in Results(body, R)
  BY DEF Deferred, Failed, Results
<1>6. {<<body[i].name, Whole>>} \in L /\ {} \in L /\ {} \in Rs /\ {Inside} \in Rs
  BY <1>1
<1> HIDE DEF L, Rs
<1>7. FromSlot(body[i].name) \in Results(body, R)
  BY <1>4, <1>5, <1>6 DEF FromSlot
<1>8. AsItIs(body, i, part) \in Results(body, R)
  BY <1>2, <1>4, <1>6 DEF AsItIs, L
<1>9. \A c \in DOMAIN table : table[c].reads \in Rs
  BY <1>3 DEF Rs
<1>10. FromChannel(body[i].name, table) \in Results(body, R)
  BY <1>4, <1>5, <1>6, <1>9 DEF FromChannel
<1> QED
  BY <1>4, <1>5, <1>6, <1>7, <1>8, <1>10

\* The least of the operands that are not lowered.
LEMMA FirstOfFaults ==
  ASSUME NEW n \in Nat, NEW faults \in SUBSET (1..n), faults # {}
  PROVE  LET first == CHOOSE k \in faults : \A j \in faults : k <= j
         IN first \in faults /\ \A j \in faults : first <= j
<1>1. \E k \in faults : \A j \in faults : k <= j
  BY LeastNumber
<1> QED
  BY <1>1

\* The operands together, the first fault among them and a part of one.
LEMMA CombinedResults ==
  ASSUME NEW body, NEW R, NEW n \in Nat, NEW rs \in [1..n -> Results(body, R)],
         NEW r \in Results(body, R), NEW part \in Parts
  PROVE  /\ AllOf(rs) \in Results(body, R)
         /\ FirstFault(rs) \in Results(body, R)
         /\ PartOf(r, part) \in Results(body, R)
<1>1. Together(rs) \in Results(body, R)
  BY DEF Together, Lowered, Results
<1>2. AllOf(rs) \in Results(body, R)
  BY <1>1 DEF AllOf, Deferred, Results
<1>3. FirstFault(rs) \in Results(body, R)
  <2> DEFINE faults == {k \in DOMAIN rs : ~IsLowered(rs[k])}
             first == CHOOSE k \in faults : \A j \in faults : k <= j
  <2>1. faults \in SUBSET (1..n)
    OBVIOUS
  <2>2. FirstFault(rs) = IF faults = {} THEN Together(rs) ELSE rs[first]
    BY DEF FirstFault
  <2> HIDE DEF faults
  <2>3. faults # {} => first \in 1..n
    BY <2>1, FirstOfFaults
  <2> HIDE DEF first
  <2> QED
    BY <1>1, <2>2, <2>3
<1>4. PartOf(r, part) \in Results(body, R)
  <2>1. \A l \in r.leaves : <<l[1], Compose(l[2], part)>> \in Names(body) \X Parts
    BY ComposeParts DEF Results
  <2>2. {<<l[1], Compose(l[2], part)>> : l \in r.leaves} \in SUBSET (Names(body) \X Parts)
    BY <2>1
  <2> QED
    BY <2>2 DEF PartOf, Results
<1> QED
  BY <1>2, <1>3, <1>4

\* The operands of an operation, by what a function gives for their places.
Operands(f, body, i) == [k \in DOMAIN body[i].args |-> f[body[i].args[k]]]

\* The equation of Hoisted.
LEMMA HoistedEquation ==
  ASSUME NEW body, IsBody(body), NEW table
  PROVE  LET f == Hoisted(body, table)
         IN /\ f \in [DOMAIN body -> Results(body, ReadsOf(table))]
            /\ \A i \in DOMAIN body :
                 /\ body[i].kind = "recv" => f[i] = FromChannel(body[i].name, table)
                 /\ body[i].kind = "load" => f[i] = FromSlot(body[i].name)
                 /\ body[i].kind = "slice" =>
                      f[i] = PartOf(AllOf(Operands(f, body, i)), body[i].name)
                 /\ body[i].kind \in Hoistable \ {"slice"} => f[i] = AllOf(Operands(f, body, i))
                 /\ body[i].kind \notin {"recv", "load"} \cup Hoistable => f[i] = Deferred
<1> DEFINE S == DOMAIN body
           V == Results(body, ReadsOf(table))
           Def(g, i) == CASE body[i].kind = "recv" -> FromChannel(body[i].name, table)
               [] body[i].kind = "load" -> FromSlot(body[i].name)
               [] body[i].kind = "slice" ->
                    PartOf(AllOf(Operands(g, body, i)), body[i].name)
               [] body[i].kind \in Hoistable \ {"slice"} -> AllOf(Operands(g, body, i))
               [] OTHER -> Deferred
           rank == [i \in S |-> i]
           D == [g \in [S -> V] |-> [i \in S |-> Def(g, i)]]
           f == Hoisted(body, table)
<1>1. f = CHOOSE g : g = [i \in S |-> Def(g, i)]
  BY DEF Hoisted, Unhoistable, Operands
<1> HIDE DEF f
<1>2. ASSUME NEW g, NEW i
      PROVE  /\ body[i].kind = "recv" => Def(g, i) = FromChannel(body[i].name, table)
             /\ body[i].kind = "load" => Def(g, i) = FromSlot(body[i].name)
             /\ body[i].kind = "slice" =>
                  Def(g, i) = PartOf(AllOf(Operands(g, body, i)), body[i].name)
             /\ body[i].kind \in Hoistable \ {"slice"} =>
                  Def(g, i) = AllOf(Operands(g, body, i))
             /\ body[i].kind \notin {"recv", "load"} \cup Hoistable => Def(g, i) = Deferred
  <2>1. "recv" \notin Hoistable \ {"slice"} /\ "load" \notin Hoistable \ {"slice"}
    BY DEF Hoistable
  <2>2. body[i].kind = "recv" => Def(g, i) = FromChannel(body[i].name, table)
    BY <2>1, Zenon
  <2>3. body[i].kind = "load" => Def(g, i) = FromSlot(body[i].name)
    BY <2>1, Zenon
  <2>4. body[i].kind = "slice" => Def(g, i) = PartOf(AllOf(Operands(g, body, i)), body[i].name)
    BY Zenon
  <2>5. body[i].kind \in Hoistable \ {"slice"} => Def(g, i) = AllOf(Operands(g, body, i))
    BY <2>1, Zenon
  <2>6. body[i].kind \notin {"recv", "load", "slice"} /\ body[i].kind \notin Hoistable \ {"slice"} =>
          Def(g, i) = Deferred
    BY Zenon
  <2> HIDE DEF Def
  <2>7. \A kind : kind \notin {"recv", "load"} \cup Hoistable =>
          kind \notin {"recv", "load", "slice"} /\ kind \notin Hoistable \ {"slice"}
    BY DEF Hoistable
  <2> QED
    BY <2>2, <2>3, <2>4, <2>5, <2>6, <2>7
<1> HIDE DEF Def
<1>3. ASSUME NEW i \in S
      PROVE  /\ rank[i] = i /\ i \in Nat
             /\ \E n \in Nat : DOMAIN body[i].args = 1..n
             /\ \A k \in DOMAIN body[i].args : body[i].args[k] \in S /\ body[i].args[k] < i
             /\ body[i].kind = "slice" => body[i].name \in Parts
  BY BodyPlaces, BodyArity
<1>4. ASSUME NEW g \in [S -> V], NEW i \in S
      PROVE  Def(g, i) \in V
  <2>1. PICK n \in Nat : DOMAIN body[i].args = 1..n
    BY <1>3
  <2>2. Operands(g, body, i) \in [1..n -> V]
    <3>1. \A k \in 1..n : g[body[i].args[k]] \in V
      BY <1>3, <2>1
    <3> HIDE DEF V
    <3> QED
      BY <2>1, <3>1 DEF Operands
  <2>3. /\ FromChannel(body[i].name, table) \in V /\ FromSlot(body[i].name) \in V
        /\ Deferred \in V
    BY SourcesAreResults, ComposeParts, Zenon
  <2>4. AllOf(Operands(g, body, i)) \in V
    BY <2>2, SourcesAreResults, ComposeParts, CombinedResults
  <2>5. body[i].kind = "slice" => PartOf(AllOf(Operands(g, body, i)), body[i].name) \in V
    BY <1>3, <2>2, <2>4, CombinedResults
  <2> HIDE DEF V
  <2> QED
    BY <1>2, <2>3, <2>4, <2>5
<1>5. ASSUME NEW g, NEW h, NEW i \in S, \A j \in S : rank[j] < rank[i] => g[j] = h[j]
      PROVE  Def(g, i) = Def(h, i)
  <2>1. Operands(g, body, i) = Operands(h, body, i)
    <3>1. \A k \in DOMAIN body[i].args : g[body[i].args[k]] = h[body[i].args[k]]
      BY <1>3, <1>5
    <3> QED
      BY <3>1 DEF Operands
  <2> QED
    BY <1>2, <2>1, Zenon
<1>6. \E g \in [S -> V] : g = D[g]
  <2>1. IsRanking(S, rank)
    <3>1. PICK n \in Nat : S = 1..n
      BY BodyPlaces
    <3>2. n + 1 \in Nat /\ \A i \in S : rank[i] < n + 1
      BY <3>1
    <3>3. rank \in [S -> Nat]
      BY <3>1
    <3> QED
      BY <3>2, <3>3 DEF IsRanking
  <2>2. IsRecursion(S, V, rank, D)
    <3> HIDE DEF V, rank
    <3> QED
      BY <1>4, <1>5 DEF IsRecursion
  <2>3. Deferred \in V
    BY DEF Results, Deferred
  <2> HIDE DEF S, V, D, rank
  <2> QED
    BY <2>1, <2>2, <2>3, RecursionSolves
<1>7. PICK h \in [S -> V] : h = [i \in S |-> Def(h, i)]
  BY <1>6
<1>8. f = [i \in S |-> Def(f, i)]
  <2> HIDE DEF S, V
  <2> QED
    BY <1>1, <1>7
<1>9. f = h
  <2>1. \A i \in S : f[i] = Def(f, i) /\ h[i] = Def(h, i)
    BY <1>7, <1>8
  <2>2. \A i \in S : (\A j \in S : rank[j] < rank[i] => f[j] = h[j]) => f[i] = h[i]
    <3> HIDE DEF S, rank
    <3> QED
      BY <1>5, <2>1
  <2>3. rank \in [S -> Nat]
    BY <1>3
  <2>4. \A i \in S : f[i] = h[i]
    <3> HIDE DEF S, rank
    <3> QED
      BY <2>2, <2>3, RecursionIsUnique
  <2> QED
    BY <1>7, <1>8, <2>4
<1>10. f \in [S -> V]
  BY <1>9
<1>11. \A i \in S : f[i] = Def(f, i)
  BY <1>8
<1> HIDE DEF V
<1>12. \A i \in S :
         /\ body[i].kind = "recv" => f[i] = FromChannel(body[i].name, table)
         /\ body[i].kind = "load" => f[i] = FromSlot(body[i].name)
         /\ body[i].kind = "slice" => f[i] = PartOf(AllOf(Operands(f, body, i)), body[i].name)
         /\ body[i].kind \in Hoistable \ {"slice"} => f[i] = AllOf(Operands(f, body, i))
         /\ body[i].kind \notin {"recv", "load"} \cup Hoistable => f[i] = Deferred
  BY <1>2, <1>11, Zenon
<1> QED
  BY <1>10, <1>12 DEF f, V

\* The same for a part of each operand.
OperandParts(f, body, x, part) ==
  [k \in DOMAIN body[x[1]].args |-> f[<<body[x[1]].args[k], part>>]]

\* The equation of LowerValue.
LoweringAt(body, table, forwarded, f, x) ==
  /\ body[x[1]].kind = "recv" => f[x] = FromChannel(body[x[1]].name, table)
  /\ body[x[1]].kind = "load" => f[x] = FromSlot(body[x[1]].name)
  /\ body[x[1]].kind = "empty" => f[x] = Lowered({}, {})
  /\ body[x[1]].kind = "insert" => f[x] = AllOf(OperandParts(f, body, x, Whole))
  /\ body[x[1]].kind \in {"exp", "generic"} => f[x] = FirstFault(OperandParts(f, body, x, x[2]))
  /\ body[x[1]].kind = "matmul" =>
       f[x] = MatmulOf(x[2], f[<<body[x[1]].args[1], Whole>>],
                       SourceValue(body, body[x[1]].args[1], x[2], table),
                       f[<<body[x[1]].args[2], Whole>>])
  /\ body[x[1]].kind = "add" => f[x] = Failed
  /\ body[x[1]].kind \notin {"recv", "load", "empty", "insert", "exp", "generic", "matmul", "add"} =>
       f[x] = PartOf(Hoisted(body, forwarded)[x[1]], x[2])

LEMMA LowerValueEquation ==
  ASSUME NEW body, IsBody(body), NEW table, NEW forwarded
  PROVE  /\ LowerValue(body, table, forwarded) \in
              [PlaceParts(body) -> Results(body, ReadsOf(table) \cup ReadsOf(forwarded))]
         /\ \A x \in PlaceParts(body) :
              LoweringAt(body, table, forwarded, LowerValue(body, table, forwarded), x)
<1> DEFINE S == PlaceParts(body)
           R == ReadsOf(table) \cup ReadsOf(forwarded)
           V == Results(body, R)
           Kind(x) == body[x[1]].kind
           Matmul(g, x) == MatmulOf(x[2], g[<<body[x[1]].args[1], Whole>>],
                                    SourceValue(body, body[x[1]].args[1], x[2], table),
                                    g[<<body[x[1]].args[2], Whole>>])
           Def(g, x) ==
             CASE body[x[1]].kind = "recv" -> FromChannel(body[x[1]].name, table)
               [] body[x[1]].kind = "load" -> FromSlot(body[x[1]].name)
               [] body[x[1]].kind = "empty" -> Lowered({}, {})
               [] body[x[1]].kind = "insert" -> AllOf(OperandParts(g, body, x, Whole))
               [] body[x[1]].kind \in {"exp", "generic"} ->
                    FirstFault(OperandParts(g, body, x, x[2]))
               [] body[x[1]].kind = "matmul" -> Matmul(g, x)
               [] body[x[1]].kind = "add" -> Failed
               [] OTHER -> PartOf(Hoisted(body, forwarded)[x[1]], x[2])
           rank == PlaceRank(body)
           D == [g \in [S -> V] |-> [x \in S |-> Def(g, x)]]
           f == LowerValue(body, table, forwarded)
<1>1. f = CHOOSE g : g = [x \in S |-> Def(g, x)]
  BY DEF LowerValue, OperandParts, PlaceParts
<1> HIDE DEF f, Matmul
<1>2. ASSUME NEW g, NEW x
      PROVE  /\ Kind(x) = "recv" => Def(g, x) = FromChannel(body[x[1]].name, table)
             /\ Kind(x) = "load" => Def(g, x) = FromSlot(body[x[1]].name)
             /\ Kind(x) = "empty" => Def(g, x) = Lowered({}, {})
             /\ Kind(x) = "insert" => Def(g, x) = AllOf(OperandParts(g, body, x, Whole))
             /\ Kind(x) \in {"exp", "generic"} =>
                  Def(g, x) = FirstFault(OperandParts(g, body, x, x[2]))
             /\ Kind(x) = "matmul" => Def(g, x) = Matmul(g, x)
             /\ Kind(x) = "add" => Def(g, x) = Failed
             /\ Kind(x) \notin {"recv", "load", "empty", "insert", "exp", "generic", "matmul",
                                "add"} =>
                  Def(g, x) = PartOf(Hoisted(body, forwarded)[x[1]], x[2])
  <2>1. Kind(x) = "recv" => Def(g, x) = FromChannel(body[x[1]].name, table)
    BY Zenon
  <2>2. Kind(x) = "load" => Def(g, x) = FromSlot(body[x[1]].name)
    BY Zenon
  <2>3. Kind(x) = "empty" => Def(g, x) = Lowered({}, {})
    BY Zenon
  <2>4. Kind(x) = "insert" => Def(g, x) = AllOf(OperandParts(g, body, x, Whole))
    BY Zenon
  <2>5. Kind(x) \in {"exp", "generic"} =>
          Def(g, x) = FirstFault(OperandParts(g, body, x, x[2]))
    BY Zenon
  <2>6. Kind(x) = "matmul" => Def(g, x) = Matmul(g, x)
    BY Zenon
  <2>7. Kind(x) = "add" => Def(g, x) = Failed
    BY Zenon
  <2>8. Kind(x) \notin {"recv", "load", "empty", "insert", "exp", "generic", "matmul", "add"} =>
          Def(g, x) = PartOf(Hoisted(body, forwarded)[x[1]], x[2])
    BY Zenon
  <2> HIDE DEF Def
  <2> QED
    BY <2>1, <2>2, <2>3, <2>4, <2>5, <2>6, <2>7, <2>8
<1> HIDE DEF Def, S, rank
<1>3. ASSUME NEW x \in S
      PROVE  /\ x[1] \in DOMAIN body /\ x[2] \in Parts /\ Whole \in Parts
             /\ \A k \in DOMAIN body[x[1]].args, q \in Parts :
                  /\ <<body[x[1]].args[k], q>> \in S
                  /\ rank[<<body[x[1]].args[k], q>>] < rank[x]
             /\ Kind(x) \in {"matmul", "add"} =>
                  1 \in DOMAIN body[x[1]].args /\ 2 \in DOMAIN body[x[1]].args
  BY OperandPlaces, Zenon DEF S, rank
<1>4. ASSUME NEW g \in [S -> V], NEW x \in S
      PROVE  Def(g, x) \in V
  <2>1. PICK n \in Nat : DOMAIN body[x[1]].args = 1..n
    BY <1>3, BodyPlaces
  <2>2. ASSUME NEW p \in S
        PROVE  g[p] \in V
    OBVIOUS
  <2>3. \A q \in Parts : OperandParts(g, body, x, q) \in [1..n -> V]
    <3>1. ASSUME NEW q \in Parts, NEW k \in 1..n
          PROVE  g[<<body[x[1]].args[k], q>>] \in V
      BY <1>3, <2>1, <2>2
    <3> HIDE DEF V
    <3> QED
      BY <2>1, <3>1 DEF OperandParts
  <2>4. ReadsOf(table) \subseteq R /\ ReadsOf(forwarded) \subseteq R
    OBVIOUS
  <2> HIDE DEF R
  <2>5. /\ FromChannel(body[x[1]].name, table) \in V /\ FromSlot(body[x[1]].name) \in V
        /\ Lowered({}, {}) \in V /\ Failed \in V /\ Deferred \in V
    BY <1>3, <2>4, SourcesAreResults
  <2>6. /\ AllOf(OperandParts(g, body, x, Whole)) \in V
        /\ FirstFault(OperandParts(g, body, x, x[2])) \in V
    BY <1>3, <2>3, <2>5, CombinedResults
  <2>7. PartOf(Hoisted(body, forwarded)[x[1]], x[2]) \in V
    <3>1. Hoisted(body, forwarded)[x[1]] \in Results(body, ReadsOf(forwarded))
      BY <1>3, HoistedEquation
    <3>2. Hoisted(body, forwarded)[x[1]] \in V
      BY <2>4, <3>1 DEF Results
    <3>3. \A rs \in [1..0 -> V] : TRUE
      OBVIOUS
    <3> QED
      BY <1>3, <2>3, <3>2, CombinedResults
  <2>8. Kind(x) = "matmul" => Matmul(g, x) \in V
    <3> SUFFICES ASSUME Kind(x) = "matmul"
                 PROVE  Matmul(g, x) \in V
      OBVIOUS
    <3> DEFINE a == body[x[1]].args[1]
               left == g[<<a, Whole>>]
               right == g[<<body[x[1]].args[2], Whole>>]
               source == SourceValue(body, a, x[2], table)
    <3>1. left \in V /\ right \in V
      BY <1>3, <2>2
    <3>2. a \in DOMAIN body
      BY <1>3, BodyPlaces
    <3>3. source \in V
      <4> HIDE DEF a
      <4>1. /\ FromChannel(body[a].name, table) \in V /\ FromSlot(body[a].name) \in V
            /\ AsItIs(body, a, x[2]) \in V
        BY <1>3, <2>4, <3>2, SourcesAreResults
      <4>2. /\ PartOf(FromChannel(body[a].name, table), x[2]) \in V
            /\ PartOf(FromSlot(body[a].name), x[2]) \in V
        BY <1>3, <2>3, <4>1, CombinedResults
      <4> HIDE DEF V
      <4> QED
        BY <4>1, <4>2, Zenon DEF SourceValue
    <3> HIDE DEF left, right, source, V
    <3>4. <<IF x[2] = Whole THEN left ELSE source, right>> \in [1..2 -> V]
      BY <3>1, <3>3
    <3>5. MatmulOf(x[2], left, source, right) \in V
      <4> DEFINE rs == <<IF x[2] = Whole THEN left ELSE source, right>>
      <4>1. rs \in [1..2 -> V]
        BY <3>4
      <4> HIDE DEF rs
      <4>2. AllOf(rs) \in V
        BY <1>3, <2>5, <4>1, CombinedResults DEF V
      <4> QED
        BY <4>2 DEF MatmulOf, rs
    <3> QED
      BY <3>5 DEF Matmul, left, right, source
  <2> HIDE DEF V
  <2> QED
    BY <1>2, <2>5, <2>6, <2>7, <2>8
<1>5. ASSUME NEW g, NEW h, NEW x \in S, \A y \in S : rank[y] < rank[x] => g[y] = h[y]
      PROVE  Def(g, x) = Def(h, x)
  <2>1. \A k \in DOMAIN body[x[1]].args, q \in Parts :
          g[<<body[x[1]].args[k], q>>] = h[<<body[x[1]].args[k], q>>]
    BY <1>3, <1>5
  <2>2. \A q \in Parts : OperandParts(g, body, x, q) = OperandParts(h, body, x, q)
    BY <2>1 DEF OperandParts
  <2>3. Kind(x) = "matmul" => Matmul(g, x) = Matmul(h, x)
    BY <1>3, <2>1 DEF Matmul
  <2> HIDE DEF Kind
  <2> QED
    BY <1>2, <1>3, <2>2, <2>3
<1>6. \E g \in [S -> V] : g = D[g]
  <2>1. IsRanking(S, rank)
    BY PlaceRanks DEF S, rank
  <2>2. IsRecursion(S, V, rank, D)
    <3> HIDE DEF V
    <3> QED
      BY <1>4, <1>5 DEF IsRecursion
  <2>3. Deferred \in V
    BY DEF Results, Deferred
  <2> HIDE DEF V, D
  <2> QED
    BY <2>1, <2>2, <2>3, RecursionSolves
<1> HIDE DEF V
<1>7. PICK h \in [S -> V] : h = [x \in S |-> Def(h, x)]
  BY <1>6
<1>8. f = [x \in S |-> Def(f, x)]
  BY <1>1, <1>7
<1>9. f = h
  <2>1. \A x \in S : f[x] = Def(f, x) /\ h[x] = Def(h, x)
    BY <1>7, <1>8
  <2>2. \A x \in S : (\A y \in S : rank[y] < rank[x] => f[y] = h[y]) => f[x] = h[x]
    BY <1>5, <2>1
  <2>3. rank \in [S -> Nat]
    BY PlaceRanks DEF S, rank, IsRanking
  <2>4. \A x \in S : f[x] = h[x]
    BY <2>2, <2>3, RecursionIsUnique
  <2> QED
    BY <1>7, <1>8, <2>4
<1>10. f \in [S -> V]
  BY <1>9
<1>11. \A x \in S : f[x] = Def(f, x)
  BY <1>8
<1>12. \A x \in S : LoweringAt(body, table, forwarded, f, x)
  <2> TAKE x \in S
  <2>1. /\ Kind(x) = "recv" => f[x] = FromChannel(body[x[1]].name, table)
        /\ Kind(x) = "load" => f[x] = FromSlot(body[x[1]].name)
        /\ Kind(x) = "empty" => f[x] = Lowered({}, {})
        /\ Kind(x) = "insert" => f[x] = AllOf(OperandParts(f, body, x, Whole))
        /\ Kind(x) \in {"exp", "generic"} => f[x] = FirstFault(OperandParts(f, body, x, x[2]))
        /\ Kind(x) = "matmul" => f[x] = Matmul(f, x)
        /\ Kind(x) = "add" => f[x] = Failed
        /\ Kind(x) \notin {"recv", "load", "empty", "insert", "exp", "generic", "matmul", "add"} =>
             f[x] = PartOf(Hoisted(body, forwarded)[x[1]], x[2])
    BY <1>2, <1>11, Zenon
  <2> QED
    BY <2>1 DEF LoweringAt, Matmul
<1> QED
  BY <1>10, <1>12 DEF f, V, S

-----------------------------------------------------------------------------
(* What is behind a value, and where a part that is asked of it goes *)

\* The places of a body ranked by themselves.
LEMMA PlacesAreRanked ==
  ASSUME NEW body, IsBody(body)
  PROVE  IsRanking(DOMAIN body, [i \in DOMAIN body |-> i])
<1>1. PICK n \in Nat : DOMAIN body = 1..n
  BY BodyPlaces
<1>2. n + 1 \in Nat /\ \A i \in DOMAIN body : i \in Nat /\ i < n + 1
  BY <1>1
<1> QED
  BY <1>2 DEF IsRanking

\* A set of places for each place: its own, and those of its operands if it
\* passes them on.
PlaceSets(body, direct, passes, f) ==
  [i \in DOMAIN body |->
     direct[i] \cup UNION {f[body[i].args[k]] : k \in {m \in DOMAIN body[i].args : passes[i]}}]

LEMMA PlaceSetsSolve ==
  ASSUME NEW body, IsBody(body), NEW direct \in [DOMAIN body -> SUBSET DOMAIN body],
         NEW passes \in [DOMAIN body -> BOOLEAN]
  PROVE  \E f : f = PlaceSets(body, direct, passes, f)
<1> DEFINE S == DOMAIN body
           V == SUBSET S
           Def(g, i) == direct[i] \cup UNION {g[body[i].args[k]] :
                                              k \in {m \in DOMAIN body[i].args : passes[i]}}
           rank == [i \in S |-> i]
           D == [g \in [S -> V] |-> [i \in S |-> Def(g, i)]]
<1>1. \A i \in S : /\ rank[i] = i
                   /\ \A k \in DOMAIN body[i].args : body[i].args[k] \in S /\ body[i].args[k] < i
  BY BodyPlaces
<1>2. ASSUME NEW g \in [S -> V], NEW i \in S
      PROVE  Def(g, i) \in V
  <2>1. \A k \in DOMAIN body[i].args : g[body[i].args[k]] \in V
    BY <1>1
  <2> QED
    BY <2>1
<1>3. ASSUME NEW g, NEW h, NEW i \in S, \A j \in S : rank[j] < rank[i] => g[j] = h[j]
      PROVE  Def(g, i) = Def(h, i)
  <2>1. \A k \in DOMAIN body[i].args : g[body[i].args[k]] = h[body[i].args[k]]
    BY <1>1, <1>3
  <2> QED
    BY <2>1
<1> HIDE DEF Def
<1>4. IsRecursion(S, V, rank, D)
  <2> HIDE DEF S, V, rank
  <2> QED
    BY <1>2, <1>3 DEF IsRecursion
<1>5. IsRanking(S, rank) /\ V # {}
  BY PlacesAreRanked
<1>6. \E g \in [S -> V] : g = D[g]
  <2> HIDE DEF S, V, rank, D
  <2> QED
    BY <1>4, <1>5, RecursionSolves
<1>7. \E g : g = [i \in S |-> Def(g, i)]
  BY <1>6
<1> QED
  BY <1>7 DEF Def, PlaceSets

\* The equation of Fringe.
LEMMA FringeEquation ==
  ASSUME NEW body, IsBody(body), NEW i \in DOMAIN body
  PROVE  Fringe(body)[i] =
           IF body[i].kind \in {"exp", "generic"}
           THEN UNION {Fringe(body)[body[i].args[k]] : k \in DOMAIN body[i].args} ELSE {i}
<1> DEFINE Def(g, j) == IF body[j].kind \in {"exp", "generic"}
                        THEN UNION {g[body[j].args[k]] : k \in DOMAIN body[j].args} ELSE {j}
           passes == [j \in DOMAIN body |-> body[j].kind \in {"exp", "generic"}]
           direct == [j \in DOMAIN body |-> IF passes[j] THEN {} ELSE {j}]
<1>1. \A g : [j \in DOMAIN body |-> Def(g, j)] = PlaceSets(body, direct, passes, g)
  <2>1. ASSUME NEW g, NEW j \in DOMAIN body
        PROVE  Def(g, j) = PlaceSets(body, direct, passes, g)[j]
    <3>1. CASE body[j].kind \in {"exp", "generic"}
      <4>1. direct[j] = {} /\ {m \in DOMAIN body[j].args : passes[j]} = DOMAIN body[j].args
        BY <3>1
      <4> QED
        BY <3>1, <4>1 DEF PlaceSets
    <3>2. CASE body[j].kind \notin {"exp", "generic"}
      <4>1. direct[j] = {j} /\ {m \in DOMAIN body[j].args : passes[j]} = {}
        BY <3>2
      <4> QED
        BY <3>2, <4>1 DEF PlaceSets
    <3> QED
      BY <3>1, <3>2
  <2> QED
    BY <2>1 DEF PlaceSets
<1>2. \E g : g = PlaceSets(body, direct, passes, g)
  <2>1. direct \in [DOMAIN body -> SUBSET DOMAIN body] /\ passes \in [DOMAIN body -> BOOLEAN]
    OBVIOUS
  <2> HIDE DEF direct, passes
  <2> QED
    BY <2>1, PlaceSetsSolve
<1>3. \E g : g = [j \in DOMAIN body |-> Def(g, j)]
  BY <1>1, <1>2
<1>4. Fringe(body) = CHOOSE g : g = [j \in DOMAIN body |-> Def(g, j)]
  BY DEF Fringe
<1> HIDE DEF Def
<1>5. Fringe(body) = [j \in DOMAIN body |-> Def(Fringe(body), j)]
  BY <1>3, <1>4
<1>6. Fringe(body)[i] = Def(Fringe(body), i)
  BY <1>5
<1> QED
  BY <1>6 DEF Def

-----------------------------------------------------------------------------
(* What a value is lowered to is what it means *)

\* The part of what leaves stand for, as PartOf takes it.
Shifted(leaves, part) == {<<l[1], Compose(l[2], part)>> : l \in leaves}

\* Taking a part of a part, of all, and of several values.
LEMMA ShiftedLeaves ==
  ASSUME NEW N, NEW leaves \in SUBSET (N \X Parts)
  PROVE  /\ Shifted(leaves, Whole) = leaves
         /\ \A p, q \in Parts : Shifted(Shifted(leaves, p), q) = Shifted(leaves, Compose(p, q))
         /\ \A q \in Parts : Shifted(leaves, q) \in SUBSET (N \X Parts)
<1>1. \A l \in leaves : l[1] \in N /\ l[2] \in Parts /\ l = <<l[1], l[2]>>
  OBVIOUS
<1>2. Shifted(leaves, Whole) = leaves
  <2>1. \A l \in leaves : <<l[1], Compose(l[2], Whole)>> = l
    BY <1>1, ComposeParts
  <2> QED
    BY <2>1 DEF Shifted
<1>3. ASSUME NEW p \in Parts, NEW q \in Parts
      PROVE  Shifted(Shifted(leaves, p), q) = Shifted(leaves, Compose(p, q))
  <2>1. \A l \in leaves : Compose(Compose(l[2], p), q) = Compose(l[2], Compose(p, q))
    BY <1>1, ComposeParts
  <2>2. Shifted(Shifted(leaves, p), q) = {<<l[1], Compose(Compose(l[2], p), q)>> : l \in leaves}
    <3> DEFINE once(l) == <<l[1], Compose(l[2], p)>>
    <3>1. Shifted(Shifted(leaves, p), q) =
            {<<m[1], Compose(m[2], q)>> : m \in {once(l) : l \in leaves}}
      BY DEF Shifted
    <3>2. \A l \in leaves : <<once(l)[1], Compose(once(l)[2], q)>> =
                             <<l[1], Compose(Compose(l[2], p), q)>>
      OBVIOUS
    <3> HIDE DEF once
    <3>3. {<<m[1], Compose(m[2], q)>> : m \in {once(l) : l \in leaves}} =
            {<<once(l)[1], Compose(once(l)[2], q)>> : l \in leaves}
      OBVIOUS
    <3> QED
      BY <3>1, <3>2, <3>3
  <2> QED
    BY <2>1, <2>2 DEF Shifted
<1>4. \A q \in Parts : Shifted(leaves, q) \in SUBSET (N \X Parts)
  BY <1>1, ComposeParts DEF Shifted
<1> QED
  BY <1>2, <1>3, <1>4

\* What is known when all operands are lowered, and that a part is lowered when
\* the value is.
LEMMA AllOfLowered ==
  ASSUME NEW rs, IsLowered(AllOf(rs))
  PROVE  /\ \A k \in DOMAIN rs : IsLowered(rs[k])
         /\ AllOf(rs).leaves = UNION {rs[k].leaves : k \in DOMAIN rs}
         /\ AllOf(rs).reads = UNION {rs[k].reads : k \in DOMAIN rs}
  BY DEF AllOf, IsLowered, Deferred, Together, Lowered

LEMMA FirstFaultLowered ==
  ASSUME NEW n \in Nat, NEW rs, DOMAIN rs = 1..n, IsLowered(FirstFault(rs))
  PROVE  /\ \A k \in DOMAIN rs : IsLowered(rs[k])
         /\ FirstFault(rs).leaves = UNION {rs[k].leaves : k \in DOMAIN rs}
         /\ FirstFault(rs).reads = UNION {rs[k].reads : k \in DOMAIN rs}
<1> DEFINE faults == {k \in DOMAIN rs : ~IsLowered(rs[k])}
           first == CHOOSE k \in faults : \A j \in faults : k <= j
<1>1. FirstFault(rs) = IF faults = {} THEN Together(rs) ELSE rs[first]
  BY DEF FirstFault
<1>2. faults # {} => first \in faults
  <2>1. faults \in SUBSET (1..n)
    OBVIOUS
  <2> HIDE DEF faults
  <2> QED
    BY <2>1, FirstOfFaults
<1> HIDE DEF first
<1>3. faults = {}
  BY <1>1, <1>2
<1> QED
  BY <1>1, <1>3 DEF Together, Lowered

LEMMA PartOfLowered ==
  ASSUME NEW body, NEW R, NEW r \in Results(body, R), NEW part
  PROVE  /\ IsLowered(PartOf(r, part)) <=> IsLowered(r)
         /\ PartOf(r, part).leaves = Shifted(r.leaves, part)
         /\ PartOf(r, part).reads = r.reads
  BY DEF PartOf, IsLowered, Shifted, Results

\* What the analysis and the dialect say of names: those of slots are no channels,
\* those of the host's channels no tile's.
NamesAreApart(body) ==
  /\ \A i \in DOMAIN body : body[i].kind = "load" => body[i].name \notin TileChannels(program)
  /\ HostChannels(program) \cap TileChannels(program) = {}

\* All channels of tiles the leaves are parts of are in a table.
HaveValues(leaves, table) ==
  \A l \in leaves : l[1] \in TileChannels(program) => l[1] \in DOMAIN table

HoistedMeans(body, table, i) ==
  LET r == Hoisted(body, table)[i]
  IN IsLowered(r) =>
       /\ r.leaves = Leaves(body)[<<i, Whole>>]
       /\ \A q \in Parts : Leaves(body)[<<i, q>>] = Shifted(r.leaves, q)
       /\ HaveValues(r.leaves, table)
       /\ r.reads \subseteq ReadsOf(table)

\* A value that is hoisted is made of what it means, any part of it of that part,
\* and all channels it is made of have a value in the table.
LEMMA HoistedIsMeant ==
  ASSUME NEW body, IsBody(body), NEW table, NamesAreApart(body)
  PROVE  \A i \in DOMAIN body : HoistedMeans(body, table, i)
<1> DEFINE f == Hoisted(body, table)
           L == Leaves(body)
           S == DOMAIN body
           V == Results(body, ReadsOf(table))
<1>1. ASSUME NEW i \in S, \A k \in DOMAIN body[i].args : HoistedMeans(body, table, body[i].args[k]),
             IsLowered(f[i])
      PROVE  HoistedMeans(body, table, i)
  <2>1. /\ \A k \in DOMAIN body[i].args : body[i].args[k] \in S
        /\ \A q \in Parts : <<i, q>> \in PlaceParts(body) /\ <<i, q>>[1] = i /\ <<i, q>>[2] = q
        /\ Whole \in Parts
    BY BodyPlaces, PlaceRanks, ComposeParts
  <2>2. SUFFICES /\ \A q \in Parts : L[<<i, q>>] = Shifted(f[i].leaves, q)
                 /\ HaveValues(f[i].leaves, table)
                 /\ f[i].reads \subseteq ReadsOf(table)
    <3>1. f[i].leaves \in SUBSET (Names(body) \X Parts)
      BY HoistedEquation DEF Results
    <3>2. Shifted(f[i].leaves, Whole) = f[i].leaves
      BY <3>1, ShiftedLeaves
    <3> QED
      BY <2>1, <2>2, <3>2 DEF HoistedMeans
  <2>3. CASE body[i].kind = "recv"
    <3> DEFINE c == body[i].name
    <3>1. f[i] = FromChannel(c, table)
      BY <2>3, HoistedEquation
    <3>2. /\ f[i].leaves = {<<c, Whole>>}
          /\ \/ c \in HostChannels(program) /\ f[i].reads = {}
             \/ c \in DOMAIN table /\ f[i].reads = table[c].reads
      BY <1>1, <3>1 DEF FromChannel, Lowered, Deferred, IsLowered
    <3>3. \A q \in Parts : L[<<i, q>>] = {<<c, q>>}
      BY <2>3, LeavesAt
    <3>4. \A q \in Parts : Shifted(f[i].leaves, q) = {<<c, q>>}
      BY <3>2, ComposeParts DEF Shifted
    <3>5. HaveValues(f[i].leaves, table)
      BY <3>2 DEF HaveValues, NamesAreApart
    <3>6. f[i].reads \subseteq ReadsOf(table)
      BY <3>2 DEF ReadsOf
    <3> QED
      BY <3>3, <3>4, <3>5, <3>6
  <2>4. CASE body[i].kind = "load"
    <3> DEFINE c == body[i].name
    <3>1. f[i] = FromSlot(c)
      BY <2>4, HoistedEquation
    <3>2. f[i].leaves = {<<c, Whole>>} /\ f[i].reads = {}
      BY <1>1, <3>1 DEF FromSlot, Lowered, Deferred, IsLowered
    <3>3. \A q \in Parts : L[<<i, q>>] = {<<c, q>>}
      BY <2>4, LeavesAt
    <3>4. \A q \in Parts : Shifted(f[i].leaves, q) = {<<c, q>>}
      BY <3>2, ComposeParts DEF Shifted
    <3>5. HaveValues(f[i].leaves, table)
      BY <2>4, <3>2 DEF HaveValues, NamesAreApart
    <3> QED
      BY <3>2, <3>3, <3>4, <3>5
  <2> DEFINE rs == Operands(f, body, i)
  <2>5. /\ DOMAIN rs = DOMAIN body[i].args
        /\ \A k \in DOMAIN rs : rs[k] = f[body[i].args[k]] /\ rs[k] \in V
    BY <2>1, HoistedEquation DEF Operands
  <2>6. ASSUME IsLowered(AllOf(rs))
        PROVE  /\ AllOf(rs).leaves \in SUBSET (Names(body) \X Parts)
               /\ \A q \in Parts : Shifted(AllOf(rs).leaves, q) =
                                     UNION {L[<<body[i].args[k], q>>] : k \in DOMAIN body[i].args}
               /\ HaveValues(AllOf(rs).leaves, table)
               /\ AllOf(rs).reads \subseteq ReadsOf(table)
    <3>1. /\ \A k \in DOMAIN rs : IsLowered(rs[k])
          /\ AllOf(rs).leaves = UNION {rs[k].leaves : k \in DOMAIN rs}
          /\ AllOf(rs).reads = UNION {rs[k].reads : k \in DOMAIN rs}
      BY <2>6, AllOfLowered
    <3>2. \A k \in DOMAIN rs :
            /\ \A q \in Parts : L[<<body[i].args[k], q>>] = Shifted(rs[k].leaves, q)
            /\ HaveValues(rs[k].leaves, table) /\ rs[k].reads \subseteq ReadsOf(table)
      <4> HIDE DEF rs
      <4> TAKE k \in DOMAIN rs
      <4>1. HoistedMeans(body, table, body[i].args[k]) /\ rs[k] = f[body[i].args[k]]
            /\ IsLowered(rs[k])
        BY <1>1, <2>5, <3>1
      <4> QED
        BY <4>1 DEF HoistedMeans
    <3>3. \A k \in DOMAIN rs : rs[k].leaves \in SUBSET (Names(body) \X Parts)
      BY <2>5 DEF Results
    <3> HIDE DEF rs
    <3>4. ASSUME NEW q \in Parts
          PROVE  Shifted(AllOf(rs).leaves, q) = UNION {L[<<body[i].args[k], q>>] : k \in DOMAIN rs}
      <4>1. Shifted(AllOf(rs).leaves, q) = UNION {Shifted(rs[k].leaves, q) : k \in DOMAIN rs}
        BY <3>1 DEF Shifted
      <4>2. \A k \in DOMAIN rs : L[<<body[i].args[k], q>>] = Shifted(rs[k].leaves, q)
        BY <3>2
      <4> HIDE DEF L
      <4> QED
        BY <4>1, <4>2
    <3>5. HaveValues(AllOf(rs).leaves, table)
      BY <3>1, <3>2 DEF HaveValues
    <3> QED
      BY <2>5, <3>1, <3>2, <3>3, <3>4, <3>5
  <2>7. AllOf(rs) \in V
    <3>1. PICK n \in Nat : DOMAIN body[i].args = 1..n
      BY BodyPlaces
    <3>2. rs \in [1..n -> V]
      <4>1. rs = [k \in 1..n |-> rs[k]]
        BY <3>1 DEF Operands
      <4> HIDE DEF rs, V
      <4> QED
        BY <2>5, <3>1, <4>1
    <3>3. Deferred \in V
      BY DEF Results, Deferred
    <3> HIDE DEF rs
    <3> QED
      BY <2>1, <3>2, <3>3, CombinedResults
  <2>8. CASE body[i].kind = "slice"
    <3> DEFINE a == body[i].args[1]
               p == body[i].name
    <3>1. f[i] = PartOf(AllOf(rs), p) /\ p \in Parts /\ DOMAIN body[i].args = {1}
      BY <2>8, HoistedEquation, BodyArity
    <3> HIDE DEF rs
    <3>2. /\ IsLowered(AllOf(rs)) /\ f[i].leaves = Shifted(AllOf(rs).leaves, p)
          /\ f[i].reads = AllOf(rs).reads
      BY <1>1, <2>7, <3>1, PartOfLowered
    <3>3. \A q \in Parts : Shifted(AllOf(rs).leaves, q) = L[<<a, q>>]
      <4> TAKE q \in Parts
      <4>1. {L[<<body[i].args[k], q>>] : k \in DOMAIN body[i].args} = {L[<<a, q>>]}
        BY <3>1
      <4>2. UNION {L[<<body[i].args[k], q>>] : k \in DOMAIN body[i].args} = L[<<a, q>>]
        BY <4>1
      <4>3. Shifted(AllOf(rs).leaves, q) =
              UNION {L[<<body[i].args[k], q>>] : k \in DOMAIN body[i].args}
        BY <2>6, <3>2
      <4> QED
        BY <4>2, <4>3
    <3>4. ASSUME NEW q \in Parts
          PROVE  L[<<i, q>>] = Shifted(f[i].leaves, q)
      <4>1. L[<<i, q>>] = L[<<a, Compose(p, q)>>]
        BY <2>8, LeavesAt
      <4>2. Compose(p, q) \in Parts
        BY <3>1, ComposeParts
      <4>3. Shifted(f[i].leaves, q) = Shifted(AllOf(rs).leaves, Compose(p, q))
        BY <2>6, <3>1, <3>2, ShiftedLeaves
      <4> QED
        BY <3>3, <4>1, <4>2, <4>3
    <3>5. HaveValues(f[i].leaves, table)
      BY <2>6, <3>2 DEF HaveValues, Shifted
    <3> QED
      BY <2>6, <3>2, <3>4, <3>5
  <2>9. CASE body[i].kind \in Hoistable \ {"slice"}
    <3>1. f[i] = AllOf(rs)
      BY <2>9, HoistedEquation
    <3>2. body[i].kind \notin {"recv", "load", "slice", "matmul"}
      BY <2>9 DEF Hoistable
    <3>3. \A q \in Parts :
            L[<<i, q>>] = UNION {L[<<body[i].args[k], q>>] : k \in DOMAIN body[i].args}
      BY <3>2, LeavesAt
    <3> HIDE DEF rs
    <3> QED
      BY <1>1, <2>6, <3>1, <3>3
  <2>10. CASE body[i].kind \notin {"recv", "load"} \cup Hoistable
    <3>1. f[i] = Deferred
      BY <2>10, HoistedEquation
    <3> QED
      BY <1>1, <3>1 DEF Deferred, IsLowered
  <2> QED
    BY <2>3, <2>4, <2>8, <2>9, <2>10
<1>2. ASSUME NEW i \in S, \A k \in DOMAIN body[i].args : HoistedMeans(body, table, body[i].args[k])
      PROVE  HoistedMeans(body, table, i)
  BY <1>1, <1>2 DEF HoistedMeans
<1> DEFINE T == {i \in S : HoistedMeans(body, table, i)}
           rank == [i \in S |-> i]
<1>3. \A i \in S : (\A j \in S : rank[j] < rank[i] => j \in T) => i \in T
  <2>1. \A i \in S : \A k \in DOMAIN body[i].args :
          body[i].args[k] \in S /\ rank[body[i].args[k]] < rank[i]
    BY BodyPlaces
  <2> HIDE DEF rank
  <2> QED
    BY <1>2, <2>1
<1>4. rank \in [S -> Nat]
  BY BodyPlaces
<1> HIDE DEF T, rank
<1>5. S \subseteq T
  BY <1>3, <1>4, RankInduction
<1> QED
  BY <1>5 DEF T

\* Whatever part is taken of a value, it is made of the same channels and slots.
LEMMA LeavesKeepNames ==
  ASSUME NEW body, IsBody(body)
  PROVE  \A i \in DOMAIN body, p, q \in Parts : \A l \in Leaves(body)[<<i, p>>] :
           \E m \in Leaves(body)[<<i, q>>] : m[1] = l[1]
<1> DEFINE L == Leaves(body)
           S == DOMAIN body
           Keeps(i) == \A p, q \in Parts : \A l \in L[<<i, p>>] : \E m \in L[<<i, q>>] : m[1] = l[1]
           T == {i \in S : Keeps(i)}
           rank == [i \in S |-> i]
<1>1. ASSUME NEW i \in S, \A k \in DOMAIN body[i].args : Keeps(body[i].args[k])
      PROVE  Keeps(i)
  <2>1. CASE body[i].kind \in {"recv", "load"}
    <3>1. \A q \in Parts : L[<<i, q>>] = {<<body[i].name, q>>}
      BY <2>1, LeavesAt
    <3> HIDE DEF L
    <3>2. SUFFICES ASSUME NEW p \in Parts, NEW q \in Parts, NEW l \in L[<<i, p>>]
                   PROVE  \E m \in L[<<i, q>>] : m[1] = l[1]
      OBVIOUS
    <3>3. l[1] = body[i].name /\ <<body[i].name, q>> \in L[<<i, q>>]
      BY <3>1
    <3>4. <<body[i].name, q>>[1] = body[i].name
      OBVIOUS
    <3> QED
      BY <3>3, <3>4, Zenon
  <2>2. CASE body[i].kind = "slice"
    <3>1. /\ body[i].name \in Parts /\ 1 \in DOMAIN body[i].args
          /\ \A q \in Parts : Compose(body[i].name, q) \in Parts
      BY <2>2, BodyArity, ComposeParts
    <3>2. \A q \in Parts : L[<<i, q>>] = L[<<body[i].args[1], Compose(body[i].name, q)>>]
      BY <2>2, LeavesAt
    <3>3. Keeps(body[i].args[1])
      BY <1>1, <3>1
    <3> HIDE DEF L
    <3> SUFFICES ASSUME NEW p \in Parts, NEW q \in Parts
                 PROVE  \A l \in L[<<i, p>>] : \E m \in L[<<i, q>>] : m[1] = l[1]
      OBVIOUS
    <3>4. \A l \in L[<<body[i].args[1], Compose(body[i].name, p)>>] :
            \E m \in L[<<body[i].args[1], Compose(body[i].name, q)>>] : m[1] = l[1]
      BY <3>1, <3>3, Zenon
    <3> QED
      BY <3>2, <3>4
  <2>3. CASE body[i].kind = "matmul"
    <3>1. 1 \in DOMAIN body[i].args
      BY <2>3, BodyArity
    <3>2. \A q \in Parts : L[<<i, q>>] = L[<<body[i].args[1], q>>] \cup L[<<body[i].args[2], Whole>>]
      BY <2>3, LeavesAt
    <3> HIDE DEF L
    <3> SUFFICES ASSUME NEW p \in Parts, NEW q \in Parts, NEW l \in L[<<i, p>>]
                 PROVE  \E m \in L[<<i, q>>] : m[1] = l[1]
      OBVIOUS
    <3>3. Keeps(body[i].args[1])
      BY <1>1, <3>1
    <3>4. CASE l \in L[<<body[i].args[1], p>>]
      <4>1. PICK m \in L[<<body[i].args[1], q>>] : m[1] = l[1]
        BY <3>3, <3>4, Zenon
      <4> QED
        BY <3>2, <4>1
    <3>5. CASE l \in L[<<body[i].args[2], Whole>>]
      BY <3>2, <3>5
    <3> QED
      BY <3>2, <3>4, <3>5
  <2>4. CASE body[i].kind \notin {"recv", "load", "slice", "matmul"}
    <3>1. \A q \in Parts :
            L[<<i, q>>] = UNION {L[<<body[i].args[k], q>>] : k \in DOMAIN body[i].args}
      BY <2>4, LeavesAt
    <3> HIDE DEF L
    <3>2. SUFFICES ASSUME NEW p \in Parts, NEW q \in Parts, NEW l \in L[<<i, p>>]
                   PROVE  \E m \in L[<<i, q>>] : m[1] = l[1]
      OBVIOUS
    <3>3. PICK k \in DOMAIN body[i].args : l \in L[<<body[i].args[k], p>>]
      BY <3>1
    <3>4. PICK m \in L[<<body[i].args[k], q>>] : m[1] = l[1]
      BY <1>1, <3>3
    <3>5. m \in L[<<i, q>>]
      BY <3>1
    <3> QED
      BY <3>4, <3>5
  <2> QED
    BY <2>1, <2>2, <2>3, <2>4
<1> HIDE DEF Keeps
<1>2. \A i \in S : (\A j \in S : rank[j] < rank[i] => j \in T) => i \in T
  <2>1. \A i \in S : \A k \in DOMAIN body[i].args :
          body[i].args[k] \in S /\ rank[body[i].args[k]] < rank[i]
    BY BodyPlaces
  <2> HIDE DEF rank
  <2> QED
    BY <1>1, <2>1
<1>3. rank \in [S -> Nat]
  BY BodyPlaces
<1> HIDE DEF T, rank
<1>4. S \subseteq T
  BY <1>2, <1>3, RankInduction
<1> QED
  BY <1>4 DEF T, Keeps

\* Channels of leaves have their values whatever part is taken.
LEMMA ValuesOfAnyPart ==
  ASSUME NEW body, IsBody(body), NEW i \in DOMAIN body, NEW p \in Parts, NEW q \in Parts,
         NEW table, HaveValues(Leaves(body)[<<i, p>>], table)
  PROVE  HaveValues(Leaves(body)[<<i, q>>], table)
BY LeavesKeepNames DEF HaveValues

\* The first disjunct of TakesInside: a part is asked of a product of a value
\* computed inside.
CutsFactor(body, i, part) ==
  /\ part # Whole
  /\ \E j \in Fringe(body)[i] : body[j].kind = "matmul" /\ IsInside(body, body[j].args[1])

SourceMeans(body, a, part, table) ==
  LET r == SourceValue(body, a, part, table)
  IN IsLowered(r) =>
       /\ r.leaves = Leaves(body)[<<a, part>>]
       /\ r.reads \subseteq ReadsOf(table) \cup {Inside}
       /\ ~IsInside(body, a) =>
            HaveValues(Leaves(body)[<<a, part>>], table) /\ r.reads \subseteq ReadsOf(table)

\* What is cut out of a source is the part asked for, of a channel that has a
\* value if it is received.
LEMMA SourceIsMeant ==
  ASSUME NEW body, IsBody(body), NEW table, NamesAreApart(body),
         NEW a \in DOMAIN body, NEW part \in Parts
  PROVE  SourceMeans(body, a, part, table)
<1> DEFINE L == Leaves(body)
           R == ReadsOf(table)
           r == SourceValue(body, a, part, table)
<1>1. SUFFICES ASSUME IsLowered(r)
               PROVE  /\ r.leaves = L[<<a, part>>]
                      /\ r.reads \subseteq R \cup {Inside}
                      /\ ~IsInside(body, a) => HaveValues(L[<<a, part>>], table) /\ r.reads \subseteq R
  BY DEF SourceMeans
<1>2. ASSUME NEW s \in Results(body, R), r = PartOf(s, part), s.leaves = {<<body[a].name, Whole>>},
             body[a].kind \in {"recv", "load"}
      PROVE  /\ IsLowered(s) /\ r.reads = s.reads
             /\ r.leaves = L[<<a, part>>] /\ L[<<a, part>>] = {<<body[a].name, part>>}
  <2>1. IsLowered(s) /\ r.leaves = Shifted(s.leaves, part) /\ r.reads = s.reads
    BY <1>1, <1>2, PartOfLowered
  <2>2. r.leaves = {<<body[a].name, part>>}
    BY <1>2, <2>1, ComposeParts DEF Shifted
  <2>3. L[<<a, part>>] = {<<body[a].name, part>>}
    BY <1>2, LeavesAt
  <2> QED
    BY <2>1, <2>2, <2>3
<1>3. FromChannel(body[a].name, table) \in Results(body, R) /\ FromSlot(body[a].name) \in Results(body, R)
  BY SourcesAreResults
<1>4. CASE body[a].kind = "recv"
  <2> DEFINE s == FromChannel(body[a].name, table)
  <2>1. r = PartOf(s, part)
    BY <1>4, Zenon DEF SourceValue
  <2> HIDE DEF r
  <2>2. IsLowered(s)
    BY <1>1, <1>3, <2>1, PartOfLowered
  <2>3. /\ s.leaves = {<<body[a].name, Whole>>}
        /\ \/ body[a].name \in HostChannels(program) /\ s.reads = {}
           \/ body[a].name \in DOMAIN table /\ s.reads = table[body[a].name].reads
    BY <2>2 DEF FromChannel, Lowered, Deferred, IsLowered
  <2>4. r.leaves = L[<<a, part>>] /\ L[<<a, part>>] = {<<body[a].name, part>>} /\ r.reads = s.reads
    <3> HIDE DEF s
    <3> QED
      BY <1>2, <1>3, <1>4, <2>1, <2>3 DEF s
  <2> QED
    BY <2>3, <2>4 DEF HaveValues, NamesAreApart, ReadsOf
<1>5. CASE body[a].kind = "load"
  <2> DEFINE s == FromSlot(body[a].name)
  <2>1. r = PartOf(s, part)
    BY <1>5, Zenon DEF SourceValue
  <2> HIDE DEF r
  <2>2. IsLowered(s)
    BY <1>1, <1>3, <2>1, PartOfLowered
  <2>3. s.leaves = {<<body[a].name, Whole>>} /\ s.reads = {}
    BY <2>2 DEF FromSlot, Lowered, Deferred, IsLowered
  <2>4. r.leaves = L[<<a, part>>] /\ L[<<a, part>>] = {<<body[a].name, part>>} /\ r.reads = s.reads
    <3> HIDE DEF s
    <3> QED
      BY <1>2, <1>3, <1>5, <2>1, <2>3 DEF s
  <2> QED
    BY <1>5, <2>3, <2>4 DEF HaveValues, NamesAreApart
<1>6. CASE IsInside(body, a)
  <2>1. body[a].kind # "recv" /\ body[a].kind # "load"
    BY <1>6 DEF IsInside
  <2>2. r = AsItIs(body, a, part)
    BY <2>1, Zenon DEF SourceValue
  <2> QED
    BY <1>6, <2>2 DEF AsItIs, Lowered
<1> QED
  BY <1>4, <1>5, <1>6 DEF IsInside

LowerMeans(body, table, forwarded, x) ==
  LET r == LowerValue(body, table, forwarded)[x]
  IN IsLowered(r) =>
       /\ ~LosesPart(body, x[1], x[2]) => r.leaves = Leaves(body)[x]
       /\ ~CutsFactor(body, x[1], x[2]) =>
            /\ HaveValues(Leaves(body)[x], table)
            /\ r.reads \subseteq ReadsOf(table) \cup ReadsOf(forwarded)

\* A value that is computed is made of what it means unless a part is asked of what
\* is taken whole; and all channels it is made of have a value unless it is cut
\* out of one computed inside.
LEMMA LoweredIsMeant ==
  ASSUME NEW body, IsBody(body), NEW table, NEW forwarded, NamesAreApart(body),
         DOMAIN forwarded \subseteq DOMAIN table
  PROVE  \A x \in PlaceParts(body) : LowerMeans(body, table, forwarded, x)
<1> DEFINE f == LowerValue(body, table, forwarded)
           h == Hoisted(body, forwarded)
           L == Leaves(body)
           S == PlaceParts(body)
           R == ReadsOf(table) \cup ReadsOf(forwarded)
           V == Results(body, R)
           rank == PlaceRank(body)
           Operand(x, k, q) == <<body[x[1]].args[k], q>>
<1>1. ASSUME NEW x \in S,
             \A k \in DOMAIN body[x[1]].args, q \in Parts :
               LowerMeans(body, table, forwarded, <<body[x[1]].args[k], q>>),
             IsLowered(f[x])
      PROVE  LowerMeans(body, table, forwarded, x)
  <2> DEFINE i == x[1]
             part == x[2]
             op == body[i]
  <2>1. i \in DOMAIN body /\ part \in Parts /\ Whole \in Parts /\ x = <<i, part>>
    BY ComposeParts DEF PlaceParts
  <2>2. /\ \A k \in DOMAIN op.args : op.args[k] \in DOMAIN body
        /\ \E n \in Nat : DOMAIN op.args = 1..n
    BY <2>1, BodyPlaces
  <2>13. /\ op.kind = "recv" => f[x] = FromChannel(op.name, table)
         /\ op.kind = "load" => f[x] = FromSlot(op.name)
         /\ op.kind = "empty" => f[x] = Lowered({}, {})
         /\ op.kind = "insert" => f[x] = AllOf(OperandParts(f, body, x, Whole))
         /\ op.kind \in {"exp", "generic"} => f[x] = FirstFault(OperandParts(f, body, x, part))
         /\ op.kind = "matmul" =>
              f[x] = MatmulOf(part, f[<<op.args[1], Whole>>],
                              SourceValue(body, op.args[1], part, table),
                              f[<<op.args[2], Whole>>])
         /\ op.kind = "add" => f[x] = Failed
         /\ op.kind \notin {"recv", "load", "empty", "insert", "exp", "generic", "matmul", "add"} =>
              f[x] = PartOf(h[i], part)
    <3>1. LoweringAt(body, table, forwarded, f, x)
      BY LowerValueEquation
    <3> HIDE DEF f, h
    <3> QED
      BY <3>1 DEF LoweringAt, h
  <2>3. SUFFICES /\ ~LosesPart(body, i, part) => f[x].leaves = L[x]
                 /\ ~CutsFactor(body, i, part) => HaveValues(L[x], table) /\ f[x].reads \subseteq R
    BY DEF LowerMeans
  <2> HIDE DEF i, part
  <2>4. CASE op.kind = "recv"
    <3>1. f[x] = FromChannel(op.name, table) /\ L[x] = {<<op.name, part>>}
      BY <2>1, <2>4, <2>13, LeavesAt
    <3>2. /\ f[x].leaves = {<<op.name, Whole>>}
          /\ \/ op.name \in HostChannels(program) /\ f[x].reads = {}
             \/ op.name \in DOMAIN table /\ f[x].reads = table[op.name].reads
      BY <1>1, <3>1 DEF FromChannel, Lowered, Deferred, IsLowered
    <3>3. LosesPart(body, i, part) <=> part # Whole
      <4>1. Fringe(body)[i] = {i}
        BY <2>1, <2>4, FringeEquation, Zenon
      <4> QED
        BY ONLY <2>4, <4>1 DEF LosesPart, op
    <3>4. HaveValues(L[x], table)
      BY <3>1, <3>2 DEF HaveValues, NamesAreApart
    <3>5. f[x].reads \subseteq R
      BY <3>2 DEF ReadsOf
    <3> QED
      BY <3>1, <3>2, <3>3, <3>4, <3>5
  <2>5. CASE op.kind = "load"
    <3>1. f[x] = FromSlot(op.name) /\ L[x] = {<<op.name, part>>}
      BY <2>1, <2>5, <2>13, LeavesAt
    <3>2. f[x].leaves = {<<op.name, Whole>>} /\ f[x].reads = {}
      BY <1>1, <3>1 DEF FromSlot, Lowered, Deferred, IsLowered
    <3>3. LosesPart(body, i, part) <=> part # Whole
      BY <2>1, <2>5, FringeEquation DEF LosesPart
    <3>4. HaveValues(L[x], table)
      BY <2>1, <2>5, <3>1 DEF HaveValues, NamesAreApart
    <3> QED
      BY <3>1, <3>2, <3>3, <3>4
  <2>6. CASE op.kind = "empty"
    <3>1. f[x] = Lowered({}, {})
      BY <2>6, <2>13
    <3>2. L[x] = {}
      <4>1. DOMAIN op.args = {}
        BY <2>1, <2>6, BodyArity
      <4>2. L[x] = UNION {L[<<op.args[k], part>>] : k \in DOMAIN op.args}
        BY <2>1, <2>6, LeavesAt
      <4> QED
        BY <4>1, <4>2
    <3> QED
      BY <3>1, <3>2 DEF Lowered, HaveValues
  <2>7. ASSUME NEW q \in Parts, op.kind \notin {"recv", "load", "slice", "matmul"},
               NEW r, r = OperandParts(f, body, x, q), \A k \in DOMAIN r : IsLowered(r[k])
        PROVE  /\ (\A k \in DOMAIN op.args : ~LosesPart(body, op.args[k], q)) =>
                    UNION {r[k].leaves : k \in DOMAIN r} = L[<<i, q>>]
               /\ (\A k \in DOMAIN op.args : ~CutsFactor(body, op.args[k], q)) =>
                    /\ HaveValues(L[<<i, q>>], table)
                    /\ UNION {r[k].reads : k \in DOMAIN r} \subseteq R
    <3>1. /\ DOMAIN r = DOMAIN op.args
          /\ \A k \in DOMAIN r : r[k] = f[<<op.args[k], q>>]
      BY <2>7 DEF OperandParts, i
    <3>2. L[<<i, q>>] = UNION {L[<<op.args[k], q>>] : k \in DOMAIN op.args}
      BY <2>1, <2>7, LeavesAt
    <3>3. ASSUME NEW k \in DOMAIN r
          PROVE  /\ ~LosesPart(body, op.args[k], q) => r[k].leaves = L[<<op.args[k], q>>]
                 /\ ~CutsFactor(body, op.args[k], q) =>
                      HaveValues(L[<<op.args[k], q>>], table) /\ r[k].reads \subseteq R
      <4> DEFINE y == <<op.args[k], q>>
      <4>1. LowerMeans(body, table, forwarded, y) /\ IsLowered(f[y]) /\ r[k] = f[y]
        BY <1>1, <2>7, <3>1 DEF i
      <4>2. y[1] = op.args[k] /\ y[2] = q
        OBVIOUS
      <4> HIDE DEF y
      <4>3. /\ ~LosesPart(body, y[1], y[2]) => r[k].leaves = L[y]
            /\ ~CutsFactor(body, y[1], y[2]) => HaveValues(L[y], table) /\ r[k].reads \subseteq R
        BY <4>1 DEF LowerMeans
      <4> QED
        BY <4>2, <4>3 DEF y
    <3> HIDE DEF L, R, op
    <3>4. ASSUME \A k \in DOMAIN op.args : ~LosesPart(body, op.args[k], q)
          PROVE  UNION {r[k].leaves : k \in DOMAIN r} = L[<<i, q>>]
      <4>1. \A k \in DOMAIN r : r[k].leaves = L[<<op.args[k], q>>]
        BY <3>1, <3>3, <3>4
      <4>2. DOMAIN r = DOMAIN op.args
        BY <3>1
      <4>3. {r[k].leaves : k \in DOMAIN r} = {L[<<op.args[k], q>>] : k \in DOMAIN op.args}
        BY ONLY <4>1, <4>2
      <4> QED
        BY ONLY <3>2, <4>3
    <3>5. ASSUME \A k \in DOMAIN op.args : ~CutsFactor(body, op.args[k], q)
          PROVE  /\ HaveValues(L[<<i, q>>], table)
                 /\ UNION {r[k].reads : k \in DOMAIN r} \subseteq R
      <4>1. \A k \in DOMAIN r : HaveValues(L[<<op.args[k], q>>], table) /\ r[k].reads \subseteq R
        BY <3>1, <3>3, <3>5
      <4>2. \A l \in L[<<i, q>>] : \E k \in DOMAIN r : l \in L[<<op.args[k], q>>]
        BY <3>1, <3>2
      <4>3. HaveValues(L[<<i, q>>], table)
        BY <4>1, <4>2 DEF HaveValues
      <4> QED
        BY <4>1, <4>3
    <3> QED
      BY <3>4, <3>5
  <2>8. CASE op.kind = "insert"
    <3> DEFINE r == OperandParts(f, body, x, Whole)
    <3>1. f[x] = AllOf(r)
      BY <2>8, <2>13
    <3> HIDE DEF r
    <3>2. /\ \A k \in DOMAIN r : IsLowered(r[k])
          /\ f[x].leaves = UNION {r[k].leaves : k \in DOMAIN r}
          /\ f[x].reads = UNION {r[k].reads : k \in DOMAIN r}
      BY <1>1, <3>1, AllOfLowered
    <3>3. \A k \in DOMAIN op.args : /\ ~LosesPart(body, op.args[k], Whole)
                                    /\ ~CutsFactor(body, op.args[k], Whole)
      BY DEF LosesPart, CutsFactor
    <3>4. /\ f[x].leaves = L[<<i, Whole>>] /\ HaveValues(L[<<i, Whole>>], table)
          /\ f[x].reads \subseteq R
      BY <2>1, <2>7, <2>8, <3>2, <3>3 DEF r
    <3>5. HaveValues(L[x], table)
      BY <2>1, <3>4, ValuesOfAnyPart
    <3>6. LosesPart(body, i, part) <=> part # Whole
      BY <2>1, <2>8, FringeEquation DEF LosesPart
    <3> QED
      BY <2>1, <3>4, <3>5, <3>6
  <2>9. CASE op.kind \in {"exp", "generic"}
    <3> DEFINE r == OperandParts(f, body, x, part)
    <3>1. f[x] = FirstFault(r) /\ DOMAIN r = DOMAIN op.args
      BY <2>9, <2>13 DEF i, OperandParts
    <3> HIDE DEF r
    <3>2. /\ \A k \in DOMAIN r : IsLowered(r[k])
          /\ f[x].leaves = UNION {r[k].leaves : k \in DOMAIN r}
          /\ f[x].reads = UNION {r[k].reads : k \in DOMAIN r}
      BY <1>1, <2>2, <3>1, FirstFaultLowered
    <3>3. Fringe(body)[i] = UNION {Fringe(body)[op.args[k]] : k \in DOMAIN op.args}
      BY <2>1, <2>9, FringeEquation
    <3>4. /\ ~LosesPart(body, i, part) => \A k \in DOMAIN op.args : ~LosesPart(body, op.args[k], part)
          /\ ~CutsFactor(body, i, part) => \A k \in DOMAIN op.args : ~CutsFactor(body, op.args[k], part)
      BY <3>3 DEF LosesPart, CutsFactor
    <3> QED
      BY <2>1, <2>7, <2>9, <3>2, <3>4 DEF r
  <2>10. CASE op.kind = "matmul"
    <3> DEFINE a == op.args[1]
               b == op.args[2]
               left == f[<<a, Whole>>]
               right == f[<<b, Whole>>]
               source == SourceValue(body, a, part, table)
               first == IF part = Whole THEN left ELSE source
    <3>1. f[x] = MatmulOf(part, left, source, right)
      BY <2>10, <2>13
    <3>2. a \in DOMAIN body /\ b \in DOMAIN body /\ 1 \in DOMAIN op.args /\ 2 \in DOMAIN op.args
      BY <2>1, <2>2, <2>10, BodyArity
    <3>3. L[x] = L[<<a, part>>] \cup L[<<b, Whole>>]
      BY <2>1, <2>10, LeavesAt
    <3>4. Fringe(body)[i] = {i}
      BY <2>1, <2>10, FringeEquation
    <3>5. CutsFactor(body, i, part) <=> part # Whole /\ IsInside(body, a)
      BY <2>10, <3>4 DEF CutsFactor
    <3>6. ASSUME NEW c \in {a, b}, IsLowered(f[<<c, Whole>>])
          PROVE  /\ f[<<c, Whole>>].leaves = L[<<c, Whole>>]
                 /\ HaveValues(L[<<c, Whole>>], table) /\ f[<<c, Whole>>].reads \subseteq R
      <4> DEFINE y == <<c, Whole>>
      <4>1. LowerMeans(body, table, forwarded, y) /\ y[2] = Whole
        BY <1>1, <2>1, <3>2 DEF i
      <4>2. ~LosesPart(body, y[1], y[2]) /\ ~CutsFactor(body, y[1], y[2])
        BY <4>1 DEF LosesPart, CutsFactor
      <4> HIDE DEF y
      <4>3. IsLowered(f[y])
        BY <3>6 DEF y
      <4>4. f[y].leaves = L[y] /\ HaveValues(L[y], table) /\ f[y].reads \subseteq R
        BY <4>1, <4>2, <4>3 DEF LowerMeans
      <4> QED
        BY <4>4 DEF y
    <3> HIDE DEF a, b
    <3>7. ASSUME IsLowered(source)
          PROVE  /\ source.leaves = L[<<a, part>>]
                 /\ ~IsInside(body, a) => HaveValues(L[<<a, part>>], table) /\ source.reads \subseteq R
      <4>1. SourceMeans(body, a, part, table)
        BY <2>1, <3>2, SourceIsMeant
      <4> HIDE DEF a
      <4> QED
        BY <3>7, <4>1 DEF SourceMeans
    <3> HIDE DEF left, right, source, first, L, R
    <3>8. f[x] = AllOf(<<first, right>>)
      BY <3>1 DEF MatmulOf, first
    <3>9. /\ IsLowered(first) /\ IsLowered(right)
          /\ f[x].leaves = first.leaves \cup right.leaves
          /\ f[x].reads = first.reads \cup right.reads
      <4> DEFINE rs == <<first, right>>
      <4>1. DOMAIN rs = {1, 2} /\ rs[1] = first /\ rs[2] = right
        OBVIOUS
      <4> HIDE DEF rs
      <4>2. /\ \A k \in DOMAIN rs : IsLowered(rs[k])
            /\ f[x].leaves = UNION {rs[k].leaves : k \in DOMAIN rs}
            /\ f[x].reads = UNION {rs[k].reads : k \in DOMAIN rs}
        BY <1>1, <3>8, AllOfLowered DEF rs
      <4> QED
        BY <4>1, <4>2
    <3>10. /\ right.leaves = L[<<b, Whole>>]
           /\ HaveValues(L[<<b, Whole>>], table) /\ right.reads \subseteq R
      BY <3>6, <3>9 DEF right
    <3>11. /\ first.leaves = L[<<a, part>>]
           /\ ~CutsFactor(body, i, part) => HaveValues(L[<<a, part>>], table) /\ first.reads \subseteq R
      <4>1. CASE part = Whole
        BY <3>6, <3>9, <4>1 DEF first, left
      <4>2. CASE part # Whole
        BY <3>5, <3>7, <3>9, <4>2 DEF first
      <4> QED
        BY <4>1, <4>2
    <3> QED
      BY <3>3, <3>9, <3>10, <3>11 DEF HaveValues
  <2>11. CASE op.kind = "add"
    <3>1. f[x] = Failed
      BY <2>11, <2>13
    <3> QED
      BY <1>1, <3>1 DEF Failed, IsLowered
  <2>12. CASE op.kind \notin {"recv", "load", "empty", "insert", "exp", "generic", "matmul", "add"}
    <3>1. f[x] = PartOf(h[i], part)
      BY <2>12, <2>13
    <3>2. h[i] \in Results(body, ReadsOf(forwarded))
      BY <2>1, HoistedEquation
    <3>3. IsLowered(h[i]) /\ f[x].leaves = Shifted(h[i].leaves, part) /\ f[x].reads = h[i].reads
      BY <1>1, <3>1, <3>2, PartOfLowered
    <3>4. /\ L[x] = Shifted(h[i].leaves, part) /\ HaveValues(h[i].leaves, forwarded)
          /\ h[i].reads \subseteq ReadsOf(forwarded)
      <4>1. HoistedMeans(body, forwarded, i)
        BY <2>1, HoistedIsMeant
      <4> QED
        BY <2>1, <3>3, <4>1 DEF HoistedMeans
    <3>5. HaveValues(L[x], table)
      BY <3>4 DEF HaveValues, Shifted
    <3> QED
      BY <3>3, <3>4, <3>5
  <2> HIDE DEF op
  <2> QED
    BY <2>4, <2>5, <2>6, <2>8, <2>9, <2>10, <2>11, <2>12
<1>2. ASSUME NEW x \in S,
             \A k \in DOMAIN body[x[1]].args, q \in Parts :
               LowerMeans(body, table, forwarded, <<body[x[1]].args[k], q>>)
      PROVE  LowerMeans(body, table, forwarded, x)
  BY <1>1, <1>2 DEF LowerMeans
<1> DEFINE T == {x \in S : LowerMeans(body, table, forwarded, x)}
<1>3. \A x \in S : (\A y \in S : rank[y] < rank[x] => y \in T) => x \in T
  <2>1. \A x \in S : \A k \in DOMAIN body[x[1]].args, q \in Parts :
          /\ <<body[x[1]].args[k], q>> \in S
          /\ rank[<<body[x[1]].args[k], q>>] < rank[x]
    BY OperandPlaces
  <2> HIDE DEF rank, S
  <2> QED
    BY <1>2, <2>1
<1>4. rank \in [S -> Nat]
  BY PlaceRanks DEF IsRanking
<1> HIDE DEF T, rank, S
<1>5. S \subseteq T
  BY <1>3, <1>4, RankInduction
<1> QED
  BY <1>5 DEF T, S
-----------------------------------------------------------------------------
(* What a send is made of *)

\* A part of a slice is a part of what it is taken of.
LEMMA SliceLeaves ==
  ASSUME NEW body, IsBody(body), NEW i \in DOMAIN body, body[i].kind = "slice", NEW q \in Parts
  PROVE  Leaves(body)[<<i, q>>] = Leaves(body)[<<body[i].args[1], Compose(body[i].name, q)>>]
BY LeavesAt

\* What is sent: a slice is taken apart, which changes nothing of what it means.
LEMMA SentIsMeant ==
  ASSUME NEW body, IsBody(body), NEW k \in DOMAIN body, body[k].kind = "send"
  PROVE  /\ body[k].args[1] \in DOMAIN body
         /\ SentValue(body, k) \in DOMAIN body /\ SentPart(body, k) \in Parts
         /\ Leaves(body)[<<body[k].args[1], Whole>>] =
              Leaves(body)[<<SentValue(body, k), SentPart(body, k)>>]
<1> DEFINE a == body[k].args[1]
<1>1. a \in DOMAIN body /\ Whole \in Parts
  BY BodyArity, BodyPlaces, ComposeParts
<1> HIDE DEF a
<1>2. CASE SendsSlice(body, k)
  <2>1. body[a].kind = "slice" /\ SentValue(body, k) = body[a].args[1] /\ SentPart(body, k) = body[a].name
    BY <1>2 DEF SendsSlice, SentValue, SentPart, a
  <2>2. body[a].name \in Parts /\ body[a].args[1] \in DOMAIN body
    BY <1>1, <2>1, BodyArity, BodyPlaces
  <2>3. Leaves(body)[<<a, Whole>>] = Leaves(body)[<<body[a].args[1], Compose(body[a].name, Whole)>>]
    BY <1>1, <2>1, SliceLeaves
  <2> QED
    BY <1>1, <2>1, <2>2, <2>3, ComposeParts DEF a
<1>3. CASE ~SendsSlice(body, k)
  BY <1>1, <1>3 DEF SentValue, SentPart, a
<1> QED
  BY <1>2, <1>3

\* Two operands together.
LEMMA PairLowered ==
  ASSUME NEW r, NEW s, IsLowered(AllOf(<<r, s>>))
  PROVE  /\ IsLowered(r) /\ IsLowered(s)
         /\ AllOf(<<r, s>>).leaves = r.leaves \cup s.leaves
         /\ AllOf(<<r, s>>).reads = r.reads \cup s.reads
<1> DEFINE rs == <<r, s>>
<1>1. DOMAIN rs = {1, 2} /\ rs[1] = r /\ rs[2] = s
  OBVIOUS
<1> HIDE DEF rs
<1> QED
  BY <1>1, AllOfLowered DEF rs

\* The pieces of a send, lowered: how many they are, what they are made of together,
\* and what each reads.
PiecesMean(body, k, table, forwarded) ==
  LET pieces == PiecesOf(body, k, table, forwarded)
      v == SentValue(body, k)
      part == SentPart(body, k)
      leaves == Leaves(body)[<<body[k].args[1], Whole>>]
      computed == SentKind(body, k) \in Residual
      R == ReadsOf(table) \cup ReadsOf(forwarded)
  IN /\ \E n \in Nat \ {0} : DOMAIN pieces = 1..n
     /\ (SentKind(body, k) # "add" \/ \A m \in 1..2 : body[body[v].args[m]].kind # "concat") =>
          DOMAIN pieces = {1}
     /\ (\A m \in DOMAIN pieces : IsLowered(pieces[m])) =>
          /\ ~(computed /\ LosesPart(body, v, part)) =>
               UNION {pieces[m].leaves : m \in DOMAIN pieces} = leaves
          /\ ~(computed /\ TakesInside(body, v, part)) =>
               /\ HaveValues(leaves, table)
               /\ \A m \in DOMAIN pieces : pieces[m].reads \subseteq R
          /\ \A m \in DOMAIN pieces : pieces[m].reads \subseteq R \cup {Inside}
          /\ ~computed =>
               /\ \A m \in DOMAIN pieces : pieces[m].reads \subseteq ReadsOf(forwarded)

\* A single piece.
LEMMA OnePiece ==
  ASSUME NEW r, NEW pieces, pieces = <<r>>
  PROVE  /\ DOMAIN pieces = {1} /\ \E n \in Nat \ {0} : DOMAIN pieces = 1..n
         /\ \A m \in DOMAIN pieces : pieces[m] = r
         /\ UNION {pieces[m].leaves : m \in DOMAIN pieces} = r.leaves
<1>1. DOMAIN pieces = {1} /\ 1..1 = {1} /\ pieces[1] = r /\ 1 \in Nat \ {0}
  OBVIOUS
<1>2. \E n \in Nat \ {0} : DOMAIN pieces = 1..n
  BY <1>1
<1>3. {pieces[m].leaves : m \in {1}} = {r.leaves}
  BY <1>1
<1> QED
  BY <1>1, <1>2, <1>3

\* The shards of a sum with a concatenation for its n-th operand.
ShardsOf(body, v, n, table, forwarded) ==
  [k \in DOMAIN body[body[v].args[n]].args |->
     AllOf(<<SourceValue(body, body[v].args[3 - n], Whole, table),
             LowerValue(body, table, forwarded)[<<body[body[v].args[n]].args[k], Whole>>]>>)]

ShardsMean(body, v, n, table, forwarded) ==
  LET pieces == ShardsOf(body, v, n, table, forwarded)
      leaves == Leaves(body)[<<v, Whole>>]
      R == ReadsOf(table) \cup ReadsOf(forwarded)
  IN /\ \E m \in Nat \ {0} : DOMAIN pieces = 1..m
     /\ (\A m \in DOMAIN pieces : IsLowered(pieces[m])) =>
          /\ UNION {pieces[m].leaves : m \in DOMAIN pieces} = leaves
          /\ ~TakesInside(body, v, Whole) =>
               /\ HaveValues(leaves, table)
               /\ \A m \in DOMAIN pieces : pieces[m].reads \subseteq R
          /\ \A m \in DOMAIN pieces : pieces[m].reads \subseteq R \cup {Inside}

\* Together the shards, lowered, are made of what the sum means.
LEMMA ShardsAreMeant ==
  ASSUME NEW body, IsBody(body), NEW table, NEW forwarded, NamesAreApart(body),
         DOMAIN forwarded \subseteq DOMAIN table,
         NEW v \in DOMAIN body, body[v].kind = "add", NEW n \in 1..2,
         body[body[v].args[n]].kind = "concat"
  PROVE  ShardsMean(body, v, n, table, forwarded)
<1> DEFINE f == LowerValue(body, table, forwarded)
           L == Leaves(body)
           R == ReadsOf(table) \cup ReadsOf(forwarded)
           concat == body[v].args[n]
           other == body[v].args[3 - n]
           inputs == body[concat].args
           source == SourceValue(body, other, Whole, table)
           Value(k) == f[<<inputs[k], Whole>>]
           pieces == ShardsOf(body, v, n, table, forwarded)
<1>1. /\ concat \in DOMAIN body /\ other \in DOMAIN body /\ Whole \in Parts
      /\ DOMAIN body[v].args = {1, 2} /\ 3 - n \in 1..2
  <2>1. DOMAIN body[v].args = {1, 2}
    BY BodyArity
  <2>2. 3 - n \in {1, 2} /\ n \in {1, 2}
    OBVIOUS
  <2> QED
    BY <2>1, <2>2, BodyPlaces, ComposeParts
<1>2. PICK m \in Nat : DOMAIN inputs = 1..m
  BY <1>1, BodyPlaces
<1>3. 1 \in DOMAIN inputs
  BY <1>1, BodyArity
<1>4. m # 0 /\ DOMAIN pieces = DOMAIN inputs
  BY <1>2, <1>3 DEF ShardsOf
<1>5. L[<<v, Whole>>] = L[<<concat, Whole>>] \cup L[<<other, Whole>>]
  <2>1. L[<<v, Whole>>] = UNION {L[<<body[v].args[k], Whole>>] : k \in DOMAIN body[v].args}
    BY <1>1, LeavesAt
  <2>2. {L[<<body[v].args[k], Whole>>] : k \in {1, 2}} =
          {L[<<body[v].args[n], Whole>>], L[<<body[v].args[3 - n], Whole>>]}
    <3>1. n = 1 \/ n = 2
      OBVIOUS
    <3> QED
      BY <3>1
  <2> QED
    BY <1>1, <2>1, <2>2
<1>6. L[<<concat, Whole>>] = UNION {L[<<inputs[k], Whole>>] : k \in DOMAIN inputs}
  BY <1>1, LeavesAt
<1>7. \A k \in DOMAIN inputs : <<inputs[k], Whole>> \in PlaceParts(body)
  BY <1>1, BodyPlaces DEF PlaceParts
<1>8. SUFFICES ASSUME \A k \in DOMAIN pieces : IsLowered(pieces[k])
               PROVE  /\ UNION {pieces[k].leaves : k \in DOMAIN pieces} = L[<<v, Whole>>]
                      /\ ~TakesInside(body, v, Whole) =>
                           /\ HaveValues(L[<<v, Whole>>], table)
                           /\ \A k \in DOMAIN pieces : pieces[k].reads \subseteq R
                      /\ \A k \in DOMAIN pieces : pieces[k].reads \subseteq R \cup {Inside}
  <2>1. \E i \in Nat \ {0} : DOMAIN pieces = 1..i
    BY <1>2, <1>4
  <2> HIDE DEF pieces, L, R
  <2> QED
    BY <1>8, <2>1 DEF ShardsMean, pieces, L, R
<1>9. ASSUME NEW k \in DOMAIN inputs
      PROVE  /\ IsLowered(source) /\ IsLowered(Value(k))
             /\ pieces[k].leaves = source.leaves \cup Value(k).leaves
             /\ pieces[k].reads = source.reads \cup Value(k).reads
  <2>1. pieces[k] = AllOf(<<source, Value(k)>>) /\ IsLowered(pieces[k])
    BY <1>4, <1>8 DEF ShardsOf
  <2> HIDE DEF source, Value
  <2> QED
    BY <2>1, PairLowered
<1>10. ASSUME NEW k \in DOMAIN inputs
       PROVE  /\ Value(k).leaves = L[<<inputs[k], Whole>>]
              /\ HaveValues(L[<<inputs[k], Whole>>], table) /\ Value(k).reads \subseteq R
  <2> DEFINE x == <<inputs[k], Whole>>
  <2>1. x[2] = Whole /\ Value(k) = f[x]
    OBVIOUS
  <2>2. x \in PlaceParts(body)
    BY <1>7
  <2> HIDE DEF x
  <2>3. LowerMeans(body, table, forwarded, x)
    BY <2>2, LoweredIsMeant
  <2>4. ~LosesPart(body, x[1], x[2]) /\ ~CutsFactor(body, x[1], x[2])
    BY <2>1 DEF LosesPart, CutsFactor
  <2>5. IsLowered(f[x])
    BY <1>9, <2>1
  <2>6. f[x].leaves = L[x] /\ HaveValues(L[x], table) /\ f[x].reads \subseteq R
    BY <2>3, <2>4, <2>5 DEF LowerMeans
  <2> QED
    BY <2>1, <2>6 DEF x
<1>11. /\ source.leaves = L[<<other, Whole>>]
       /\ source.reads \subseteq R \cup {Inside}
       /\ ~IsInside(body, other) => HaveValues(L[<<other, Whole>>], table) /\ source.reads \subseteq R
  <2>1. SourceMeans(body, other, Whole, table)
    BY <1>1, SourceIsMeant
  <2>2. IsLowered(source)
    BY <1>3, <1>9
  <2> HIDE DEF other, L
  <2> QED
    BY <2>1, <2>2 DEF SourceMeans, L
<1>12. ~TakesInside(body, v, Whole) => ~IsInside(body, other)
  <2>1. 3 - (3 - n) = n
    OBVIOUS
  <2> QED
    BY <1>1, <2>1 DEF TakesInside
<1> HIDE DEF source, Value, L, R, inputs, concat, other, pieces
<1>13. UNION {pieces[k].leaves : k \in DOMAIN pieces} = L[<<v, Whole>>]
  <2>1. \A k \in DOMAIN inputs : pieces[k].leaves = L[<<other, Whole>>] \cup L[<<inputs[k], Whole>>]
    BY <1>9, <1>10, <1>11
  <2>2. \A l : l \in UNION {pieces[k].leaves : k \in DOMAIN pieces} <=>
               \E k \in DOMAIN inputs : l \in L[<<other, Whole>>] \/ l \in L[<<inputs[k], Whole>>]
    <3> TAKE l
    <3>1. l \in UNION {pieces[k].leaves : k \in DOMAIN pieces} <=>
            \E k \in DOMAIN pieces : l \in pieces[k].leaves
      BY Zenon
    <3>2. \A k \in DOMAIN inputs :
            l \in pieces[k].leaves <=> l \in L[<<other, Whole>>] \/ l \in L[<<inputs[k], Whole>>]
      BY <2>1
    <3> QED
      BY <1>4, <3>1, <3>2, Zenon
  <2>3. \A l : l \in L[<<v, Whole>>] <=>
               l \in L[<<other, Whole>>] \/ \E k \in DOMAIN inputs : l \in L[<<inputs[k], Whole>>]
    BY <1>5, <1>6
  <2> QED
    BY <1>3, <2>2, <2>3
<1>14. \A k \in DOMAIN pieces : pieces[k].reads \subseteq R \cup {Inside}
  BY <1>4, <1>9, <1>10, <1>11
<1>15. ASSUME ~TakesInside(body, v, Whole)
       PROVE  /\ HaveValues(L[<<v, Whole>>], table)
              /\ \A k \in DOMAIN pieces : pieces[k].reads \subseteq R
  <2>1. HaveValues(L[<<other, Whole>>], table) /\ source.reads \subseteq R
    BY <1>11, <1>12, <1>15
  <2>2. \A l \in L[<<concat, Whole>>] : \E k \in DOMAIN inputs : l \in L[<<inputs[k], Whole>>]
    BY <1>6
  <2>3. HaveValues(L[<<concat, Whole>>], table)
    BY <1>10, <2>2 DEF HaveValues
  <2>4. HaveValues(L[<<v, Whole>>], table)
    BY <1>5, <2>1, <2>3 DEF HaveValues
  <2> QED
    BY <1>4, <1>9, <1>10, <2>1, <2>4
<1> QED
  BY <1>13, <1>14, <1>15

\* What a send is made of, piece by piece, is what the program sends, and its
\* channels have a value; with the two exceptions.
LEMMA PiecesAreMeant ==
  ASSUME NEW body, IsBody(body), NEW k \in DOMAIN body, body[k].kind = "send",
         NEW table, NEW forwarded, NamesAreApart(body), DOMAIN forwarded \subseteq DOMAIN table
  PROVE  PiecesMean(body, k, table, forwarded)
<1> DEFINE f == LowerValue(body, table, forwarded)
           h == Hoisted(body, forwarded)
           L == Leaves(body)
           a == body[k].args[1]
           v == SentValue(body, k)
           part == SentPart(body, k)
           R == ReadsOf(table) \cup ReadsOf(forwarded)
           pieces == PiecesOf(body, k, table, forwarded)
           computed == SentKind(body, k) \in Residual
           kind == SentKind(body, k)
<1>1. /\ a \in DOMAIN body /\ v \in DOMAIN body /\ part \in Parts /\ Whole \in Parts
      /\ L[<<a, Whole>>] = L[<<v, part>>] /\ kind = body[v].kind
  BY SentIsMeant, ComposeParts DEF SentKind
<1>2. SUFFICES /\ \E n \in Nat \ {0} : DOMAIN pieces = 1..n
               /\ (kind # "add" \/ \A m \in 1..2 : body[body[v].args[m]].kind # "concat") =>
                    DOMAIN pieces = {1}
               /\ (\A m \in DOMAIN pieces : IsLowered(pieces[m])) =>
                    /\ ~(computed /\ LosesPart(body, v, part)) =>
                         UNION {pieces[m].leaves : m \in DOMAIN pieces} = L[<<v, part>>]
                    /\ ~(computed /\ TakesInside(body, v, part)) =>
                         /\ HaveValues(L[<<v, part>>], table)
                         /\ \A m \in DOMAIN pieces : pieces[m].reads \subseteq R
                    /\ \A m \in DOMAIN pieces : pieces[m].reads \subseteq R \cup {Inside}
                    /\ ~computed => \A m \in DOMAIN pieces : pieces[m].reads \subseteq ReadsOf(forwarded)
  <2> HIDE DEF L, R, pieces
  <2> QED
    BY <1>1, <1>2 DEF PiecesMean, L, R, pieces
<1>3. ASSUME NEW r, pieces = <<r>>,
             IsLowered(r) =>
               /\ ~(computed /\ LosesPart(body, v, part)) => r.leaves = L[<<v, part>>]
               /\ ~(computed /\ TakesInside(body, v, part)) =>
                    HaveValues(L[<<v, part>>], table) /\ r.reads \subseteq R
               /\ r.reads \subseteq R \cup {Inside}
               /\ ~computed => r.reads \subseteq ReadsOf(forwarded)
      PROVE  /\ \E n \in Nat \ {0} : DOMAIN pieces = 1..n
             /\ DOMAIN pieces = {1}
             /\ (\A m \in DOMAIN pieces : IsLowered(pieces[m])) =>
                  /\ ~(computed /\ LosesPart(body, v, part)) =>
                       UNION {pieces[m].leaves : m \in DOMAIN pieces} = L[<<v, part>>]
                  /\ ~(computed /\ TakesInside(body, v, part)) =>
                       /\ HaveValues(L[<<v, part>>], table)
                       /\ \A m \in DOMAIN pieces : pieces[m].reads \subseteq R
                  /\ \A m \in DOMAIN pieces : pieces[m].reads \subseteq R \cup {Inside}
                  /\ ~computed => \A m \in DOMAIN pieces : pieces[m].reads \subseteq ReadsOf(forwarded)
  <2> HIDE DEF pieces, computed, L, R, v, part
  <2>1. /\ DOMAIN pieces = {1} /\ \E n \in Nat \ {0} : DOMAIN pieces = 1..n
        /\ \A m \in DOMAIN pieces : pieces[m] = r
        /\ UNION {pieces[m].leaves : m \in DOMAIN pieces} = r.leaves
    BY <1>3, OnePiece
  <2>2. (\A m \in DOMAIN pieces : IsLowered(pieces[m])) => IsLowered(r)
    BY <2>1
  <2> QED
    BY <1>3, <2>1, <2>2
<1>4. CASE kind = "add"
  <2> DEFINE args == body[v].args
             concats == {m \in 1..2 : body[args[m]].kind = "concat"}
             n == IF 1 \in concats THEN 1 ELSE 2
             whole(i) == f[<<i, Whole>>]
  <2>1. pieces = AddShards(body, v, table, forwarded) /\ computed
    BY <1>4 DEF PiecesOf, Residual
  <2>2. L[<<v, Whole>>] = L[<<args[1], Whole>>] \cup L[<<args[2], Whole>>]
        /\ args[1] \in DOMAIN body /\ args[2] \in DOMAIN body
    <3>1. DOMAIN args = {1, 2}
      BY <1>1, <1>4, BodyArity
    <3>2. L[<<v, Whole>>] = UNION {L[<<args[m], Whole>>] : m \in DOMAIN args}
      BY <1>1, <1>4, LeavesAt
    <3>3. {L[<<args[m], Whole>>] : m \in {1, 2}} = {L[<<args[1], Whole>>], L[<<args[2], Whole>>]}
      OBVIOUS
    <3> QED
      BY <1>1, <3>1, <3>2, <3>3, BodyPlaces
  <2>3. /\ ~LosesPart(body, v, part) => part = Whole
        /\ TakesInside(body, v, Whole) => TakesInside(body, v, part)
    <3>1. Fringe(body)[v] = {v}
      BY <1>1, <1>4, FringeEquation
    <3> QED
      BY <1>1, <1>4, <3>1 DEF LosesPart, TakesInside
  <2>4. HaveValues(L[<<v, Whole>>], table) => HaveValues(L[<<v, part>>], table)
    BY <1>1, ValuesOfAnyPart
  <2>5. CASE concats = {}
    <3> DEFINE r == AllOf(<<whole(args[1]), whole(args[2])>>)
    <3>1. pieces = <<r>>
      BY <2>1, <2>5 DEF AddShards
    <3>2. ASSUME NEW m \in 1..2, IsLowered(whole(args[m]))
          PROVE  /\ whole(args[m]).leaves = L[<<args[m], Whole>>]
                 /\ HaveValues(L[<<args[m], Whole>>], table) /\ whole(args[m]).reads \subseteq R
      <4> DEFINE x == <<args[m], Whole>>
      <4>1. x \in PlaceParts(body) /\ x[2] = Whole /\ whole(args[m]) = f[x]
        BY <1>1, <2>2 DEF PlaceParts
      <4> HIDE DEF x
      <4>2. LowerMeans(body, table, forwarded, x)
        BY <4>1, LoweredIsMeant
      <4>3. ~LosesPart(body, x[1], x[2]) /\ ~CutsFactor(body, x[1], x[2])
        BY <4>1 DEF LosesPart, CutsFactor
      <4>4. IsLowered(f[x])
        BY <3>2, <4>1
      <4>5. f[x].leaves = L[x] /\ HaveValues(L[x], table) /\ f[x].reads \subseteq R
        BY <4>2, <4>3, <4>4 DEF LowerMeans
      <4> QED
        BY <4>1, <4>5 DEF x
    <3>3. ASSUME IsLowered(r)
          PROVE  /\ r.leaves = L[<<v, Whole>>] /\ HaveValues(L[<<v, Whole>>], table)
                 /\ r.reads \subseteq R
      <4>1. /\ IsLowered(whole(args[1])) /\ IsLowered(whole(args[2]))
            /\ r.leaves = whole(args[1]).leaves \cup whole(args[2]).leaves
            /\ r.reads = whole(args[1]).reads \cup whole(args[2]).reads
        <5> HIDE DEF whole
        <5> QED
          BY <3>3, PairLowered
      <4>2. 1 \in 1..2 /\ 2 \in 1..2
        OBVIOUS
      <4> HIDE DEF whole, r, L, R, args
      <4> QED
        BY <2>2, <3>2, <4>1, <4>2 DEF HaveValues
    <3> HIDE DEF r, L, R, v, part, pieces, computed, concats
    <3>4. IsLowered(r) =>
               /\ ~(computed /\ LosesPart(body, v, part)) => r.leaves = L[<<v, part>>]
               /\ ~(computed /\ TakesInside(body, v, part)) =>
                    HaveValues(L[<<v, part>>], table) /\ r.reads \subseteq R
               /\ r.reads \subseteq R \cup {Inside}
               /\ ~computed => r.reads \subseteq ReadsOf(forwarded)
      BY <2>1, <2>3, <2>4, <3>3
    <3> QED
      BY <1>3, <3>1, <3>4
  <2>6. CASE concats # {}
    <3>1. n \in 1..2 /\ body[args[n]].kind = "concat"
      BY <2>6
    <3>2. pieces = ShardsOf(body, v, n, table, forwarded)
      BY <2>1, <2>6 DEF AddShards, ShardsOf
    <3> HIDE DEF n, v, pieces
    <3>3. body[v].kind = "add"
      BY <1>1, <1>4
    <3>4. ShardsMean(body, v, n, table, forwarded)
      BY <1>1, <3>1, <3>3, ShardsAreMeant
    <3>5. ~(kind # "add" \/ \A m \in 1..2 : body[body[v].args[m]].kind # "concat")
      BY <1>4, <3>1
    <3> HIDE DEF L, R, part, computed, kind, args
    <3> QED
      BY <2>1, <2>3, <2>4, <3>2, <3>4, <3>5 DEF ShardsMean, L, R
  <2> HIDE DEF L, R, part, computed, kind, args, concats, pieces
  <2> QED
    BY <2>5, <2>6
<1>5. CASE computed /\ kind # "add"
  <2> DEFINE x == <<v, part>>
             r == f[x]
  <2>1. pieces = <<r>>
    BY <1>5 DEF PiecesOf
  <2>2. x \in PlaceParts(body) /\ x[1] = v /\ x[2] = part
    BY <1>1 DEF PlaceParts
  <2> HIDE DEF x, pieces
  <2>3. LowerMeans(body, table, forwarded, x) /\ f[x] \in Results(body, R)
    BY <2>2, LoweredIsMeant, LowerValueEquation
  <2>4. r.reads \subseteq R \cup {Inside}
    BY <2>3 DEF Results
  <2>5. CutsFactor(body, v, part) => TakesInside(body, v, part)
    BY DEF CutsFactor, TakesInside
  <2>6. IsLowered(r) =>
               /\ ~(computed /\ LosesPart(body, v, part)) => r.leaves = L[<<v, part>>]
               /\ ~(computed /\ TakesInside(body, v, part)) =>
                    HaveValues(L[<<v, part>>], table) /\ r.reads \subseteq R
               /\ r.reads \subseteq R \cup {Inside}
               /\ ~computed => r.reads \subseteq ReadsOf(forwarded)
    <3>1. <<v, part>> = x
      BY DEF x
    <3> HIDE DEF computed, v, part
    <3> QED
      BY <1>5, <2>2, <2>3, <2>4, <2>5, <3>1 DEF LowerMeans
  <2> HIDE DEF r, computed, L, R, v, part, kind
  <2> QED
    BY <1>3, <2>1, <2>6
<1>6. CASE ~computed
  <2> DEFINE r == h[a]
  <2>1. pieces = <<r>>
    BY <1>6 DEF PiecesOf, Residual
  <2>2. HoistedMeans(body, forwarded, a)
    BY <1>1, HoistedIsMeant
  <2>3. IsLowered(r) => /\ r.leaves = L[<<a, Whole>>] /\ HaveValues(r.leaves, forwarded)
                        /\ r.reads \subseteq ReadsOf(forwarded)
    BY <2>2 DEF HoistedMeans
  <2>4. HaveValues(r.leaves, forwarded) => HaveValues(r.leaves, table)
    BY DEF HaveValues
  <2> HIDE DEF r, computed, v, part, kind, a, pieces, L
  <2>5. IsLowered(r) =>
               /\ ~(computed /\ LosesPart(body, v, part)) => r.leaves = L[<<v, part>>]
               /\ ~(computed /\ TakesInside(body, v, part)) =>
                    HaveValues(L[<<v, part>>], table) /\ r.reads \subseteq R
               /\ r.reads \subseteq R \cup {Inside}
               /\ ~computed => r.reads \subseteq ReadsOf(forwarded)
    BY <1>1, <1>6, <2>3, <2>4
  <2> HIDE DEF R
  <2> QED
    BY <1>3, <2>1, <2>5
<1> HIDE DEF kind, computed, v, part, pieces, L, R
<1> QED
  BY <1>4, <1>5, <1>6

-----------------------------------------------------------------------------
(* Which values of a body are lowered: it depends on the channels received  *)
(* behind a value, and on nothing else.                                      *)

\* The equation of Behind.
LEMMA BehindEquation ==
  ASSUME NEW body, IsBody(body), NEW i \in DOMAIN body
  PROVE  Behind(body)[i] =
           {i} \cup UNION {Behind(body)[body[i].args[k]] : k \in DOMAIN body[i].args}
<1> DEFINE Def(g, j) == {j} \cup UNION {g[body[j].args[k]] : k \in DOMAIN body[j].args}
           passes == [j \in DOMAIN body |-> TRUE]
           direct == [j \in DOMAIN body |-> {j}]
<1>1. \A g : [j \in DOMAIN body |-> Def(g, j)] = PlaceSets(body, direct, passes, g)
  <2>1. \A j \in DOMAIN body : direct[j] = {j} /\ passes[j] = TRUE
    OBVIOUS
  <2> HIDE DEF direct, passes
  <2> QED
    BY <2>1 DEF PlaceSets
<1>2. \E g : g = PlaceSets(body, direct, passes, g)
  <2>1. direct \in [DOMAIN body -> SUBSET DOMAIN body] /\ passes \in [DOMAIN body -> BOOLEAN]
    OBVIOUS
  <2> HIDE DEF direct, passes
  <2> QED
    BY <2>1, PlaceSetsSolve
<1>3. \E g : g = [j \in DOMAIN body |-> Def(g, j)]
  BY <1>1, <1>2
<1>4. Behind(body) = CHOOSE g : g = [j \in DOMAIN body |-> Def(g, j)]
  BY DEF Behind
<1> HIDE DEF Def
<1>5. Behind(body) = [j \in DOMAIN body |-> Def(Behind(body), j)]
  BY <1>3, <1>4
<1>6. Behind(body)[i] = Def(Behind(body), i)
  BY <1>5
<1> QED
  BY <1>6 DEF Def

\* What is received or loaded behind a value is among what the value is made of,
\* whatever the part.
LEMMA BehindIsMeant ==
  ASSUME NEW body, IsBody(body)
  PROVE  \A i \in DOMAIN body : \A j \in Behind(body)[i] :
           /\ j \in DOMAIN body
           /\ body[j].kind \in {"recv", "load"} =>
                \E l \in Leaves(body)[<<i, Whole>>] : l[1] = body[j].name
<1> DEFINE L == Leaves(body)
           S == DOMAIN body
           Means(i, j) == /\ j \in S
                          /\ body[j].kind \in {"recv", "load"} =>
                               \E l \in L[<<i, Whole>>] : l[1] = body[j].name
           T == {i \in S : \A j \in Behind(body)[i] : Means(i, j)}
           rank == [i \in S |-> i]
<1>1. ASSUME NEW i \in S, \A k \in DOMAIN body[i].args : body[i].args[k] \in T
      PROVE  i \in T
  <2>1. SUFFICES ASSUME NEW j \in Behind(body)[i]
                 PROVE  Means(i, j)
    OBVIOUS
  <2>2. Whole \in Parts /\ \A k \in DOMAIN body[i].args : body[i].args[k] \in S
    BY BodyPlaces, ComposeParts
  <2>3. CASE j = i
    <3>1. SUFFICES ASSUME body[i].kind \in {"recv", "load"}
                   PROVE  \E l \in L[<<i, Whole>>] : l[1] = body[i].name
      BY <2>3
    <3>2. L[<<i, Whole>>] = {<<body[i].name, Whole>>}
      BY <2>2, <3>1, LeavesAt
    <3> QED
      BY <3>2
  <2>4. CASE \E k \in DOMAIN body[i].args : j \in Behind(body)[body[i].args[k]]
    <3>1. PICK k \in DOMAIN body[i].args : j \in Behind(body)[body[i].args[k]]
      BY <2>4
    <3> DEFINE a == body[i].args[k]
    <3>2. a \in S /\ Means(a, j)
      BY <1>1, <3>1
    <3>3. SUFFICES ASSUME NEW l \in L[<<a, Whole>>]
                   PROVE  \E m \in L[<<i, Whole>>] : m[1] = l[1]
      <4> HIDE DEF L, a
      <4> QED
        BY <3>2, <3>3
    <3>4. CASE body[i].kind \in {"recv", "load"}
      BY <3>4, BodyArity
    <3>5. CASE body[i].kind = "slice"
      <4>1. /\ k = 1 /\ body[i].name \in Parts /\ Compose(body[i].name, Whole) \in Parts
        BY <2>2, <3>5, BodyArity, ComposeParts
      <4>2. L[<<i, Whole>>] = L[<<a, Compose(body[i].name, Whole)>>]
        BY <2>2, <3>5, <4>1, LeavesAt
      <4> HIDE DEF a
      <4> QED
        BY <2>2, <3>2, <4>1, <4>2, LeavesKeepNames
    <3>6. CASE body[i].kind = "matmul"
      <4>1. L[<<i, Whole>>] = L[<<body[i].args[1], Whole>>] \cup L[<<body[i].args[2], Whole>>]
        BY <2>2, <3>6, LeavesAt
      <4>2. k = 1 \/ k = 2
        BY <3>6, BodyArity
      <4> QED
        BY <4>1, <4>2
    <3>7. CASE body[i].kind \notin {"recv", "load", "slice", "matmul"}
      <4>1. L[<<i, Whole>>] = UNION {L[<<body[i].args[m], Whole>>] : m \in DOMAIN body[i].args}
        BY <2>2, <3>7, LeavesAt
      <4> HIDE DEF L
      <4> QED
        BY <4>1
    <3> QED
      BY <3>4, <3>5, <3>6, <3>7
  <2> QED
    BY <2>1, <2>3, <2>4, BehindEquation
<1> HIDE DEF T
<1>2. \A i \in S : (\A j \in S : rank[j] < rank[i] => j \in T) => i \in T
  <2>1. \A i \in S : \A k \in DOMAIN body[i].args :
          body[i].args[k] \in S /\ rank[body[i].args[k]] < rank[i]
    BY BodyPlaces
  <2> HIDE DEF rank
  <2> QED
    BY <1>1, <2>1
<1>3. rank \in [S -> Nat]
  BY BodyPlaces
<1> HIDE DEF rank
<1>4. S \subseteq T
  BY <1>2, <1>3, RankInduction
<1> QED
  BY <1>4 DEF T

\* A value is behind itself, and what is behind its operands is behind it.
LEMMA OperandsAreBehind ==
  ASSUME NEW body, IsBody(body), NEW i \in DOMAIN body
  PROVE  /\ i \in Behind(body)[i]
         /\ \A k \in DOMAIN body[i].args : Behind(body)[body[i].args[k]] \subseteq Behind(body)[i]
<1> DEFINE B == Behind(body)
<1>1. B[i] = {i} \cup UNION {B[body[i].args[k]] : k \in DOMAIN body[i].args}
  BY BehindEquation
<1> HIDE DEF B
<1>2. \A k \in DOMAIN body[i].args : B[body[i].args[k]] \subseteq B[i]
  BY <1>1
<1> QED
  BY <1>1, <1>2 DEF B

\* What is behind a value that is behind another is behind that other one.
LEMMA BehindIsTransitive ==
  ASSUME NEW body, IsBody(body)
  PROVE  \A i \in DOMAIN body : \A j \in Behind(body)[i] : Behind(body)[j] \subseteq Behind(body)[i]
<1> DEFINE B == Behind(body)
           S == DOMAIN body
           T == {i \in S : \A j \in B[i] : B[j] \subseteq B[i]}
           rank == [i \in S |-> i]
<1>1. ASSUME NEW i \in S, \A k \in DOMAIN body[i].args : body[i].args[k] \in T
      PROVE  i \in T
  <2>1. B[i] = {i} \cup UNION {B[body[i].args[k]] : k \in DOMAIN body[i].args}
    BY BehindEquation
  <2>2. \A k \in DOMAIN body[i].args : B[body[i].args[k]] \subseteq B[i]
    BY OperandsAreBehind
  <2> HIDE DEF B
  <2>3. ASSUME NEW j \in B[i]
        PROVE  B[j] \subseteq B[i]
    <3>1. CASE j = i
      BY <3>1
    <3>2. CASE \E k \in DOMAIN body[i].args : j \in B[body[i].args[k]]
      BY <1>1, <2>2, <3>2
    <3> QED
      BY <2>1, <2>3, <3>1, <3>2
  <2> QED
    BY <2>3
<1> HIDE DEF T
<1>2. \A i \in S : (\A j \in S : rank[j] < rank[i] => j \in T) => i \in T
  <2>1. \A i \in S : \A k \in DOMAIN body[i].args :
          body[i].args[k] \in S /\ rank[body[i].args[k]] < rank[i]
    BY BodyPlaces
  <2> HIDE DEF rank
  <2> QED
    BY <1>1, <2>1
<1>3. rank \in [S -> Nat]
  BY BodyPlaces
<1> HIDE DEF rank
<1>4. S \subseteq T
  BY <1>2, <1>3, RankInduction
<1> QED
  BY <1>4 DEF T

-----------------------------------------------------------------------------
(* Which values are lowered *)

LEMMA AllOfStatus ==
  ASSUME NEW rs
  PROVE  IsLowered(AllOf(rs)) <=> \A k \in DOMAIN rs : IsLowered(rs[k])
BY DEF AllOf, IsLowered, Deferred, Together, Lowered

LEMMA FirstFaultStatus ==
  ASSUME NEW n \in Nat, NEW rs, DOMAIN rs = 1..n
  PROVE  IsLowered(FirstFault(rs)) <=> \A k \in DOMAIN rs : IsLowered(rs[k])
<1>1. ASSUME \A k \in DOMAIN rs : IsLowered(rs[k])
      PROVE  IsLowered(FirstFault(rs))
  <2>1. {k \in DOMAIN rs : ~IsLowered(rs[k])} = {}
    BY <1>1
  <2> QED
    BY <2>1 DEF FirstFault, Together, Lowered, IsLowered
<1> QED
  BY <1>1, FirstFaultLowered

LEMMA PairStatus ==
  ASSUME NEW r, NEW s
  PROVE  IsLowered(AllOf(<<r, s>>)) <=> IsLowered(r) /\ IsLowered(s)
<1> DEFINE rs == <<r, s>>
<1>1. DOMAIN rs = {1, 2} /\ rs[1] = r /\ rs[2] = s
  OBVIOUS
<1> HIDE DEF rs
<1>2. IsLowered(AllOf(rs)) <=> IsLowered(r) /\ IsLowered(s)
  BY <1>1, AllOfStatus
<1> QED
  BY <1>2 DEF rs

\* What a channel or a slot is lowered to.
LEMMA SourceStatus ==
  ASSUME NEW c, NEW table
  PROVE  /\ IsLowered(FromChannel(c, table)) <=> c \in HostChannels(program) \cup DOMAIN table
         /\ IsLowered(FromSlot(c)) <=> c \in Slots(program)
BY DEF FromChannel, FromSlot, IsLowered, Lowered, Deferred

SourceStands(body, a, table) ==
  /\ body[a].kind = "recv" => body[a].name \in HostChannels(program) \cup DOMAIN table
  /\ body[a].kind = "load" => body[a].name \in Slots(program)

\* A value that something is cut out of is lowered when it stands there.
LEMMA SourceValueStatus ==
  ASSUME NEW body, IsBody(body), NEW a \in DOMAIN body, NEW part \in Parts, NEW table
  PROVE  IsLowered(SourceValue(body, a, part, table)) <=> SourceStands(body, a, table)
<1> DEFINE r == SourceValue(body, a, part, table)
<1>1. /\ FromChannel(body[a].name, table) \in Results(body, ReadsOf(table))
      /\ FromSlot(body[a].name) \in Results(body, ReadsOf(table))
  BY SourcesAreResults
<1>2. CASE body[a].kind = "recv"
  <2>1. r = PartOf(FromChannel(body[a].name, table), part)
    BY <1>2, Zenon DEF SourceValue
  <2>2. IsLowered(r) <=> IsLowered(FromChannel(body[a].name, table))
    BY <1>1, <2>1, PartOfLowered
  <2> QED
    BY <1>2, <2>2, SourceStatus DEF SourceStands
<1>3. CASE body[a].kind = "load"
  <2>1. r = PartOf(FromSlot(body[a].name), part)
    BY <1>3, Zenon DEF SourceValue
  <2>2. IsLowered(r) <=> IsLowered(FromSlot(body[a].name))
    BY <1>1, <2>1, PartOfLowered
  <2> QED
    BY <1>3, <2>2, SourceStatus DEF SourceStands
<1>4. CASE body[a].kind # "recv" /\ body[a].kind # "load"
  <2>1. r = AsItIs(body, a, part)
    BY <1>4, Zenon DEF SourceValue
  <2> QED
    BY <1>4, <2>1 DEF SourceStands, AsItIs, Lowered, IsLowered
<1> QED
  BY <1>2, <1>3, <1>4

\* What only moves what stands there.
Moves(body, i, table) ==
  \A j \in Behind(body)[i] :
    /\ body[j].kind \in {"recv", "load"} \cup Hoistable
    /\ SourceStands(body, j, table)

\* A value can be hoisted exactly when all that is behind it only moves.
LEMMA HoistedStatus ==
  ASSUME NEW body, IsBody(body), NEW table
  PROVE  \A i \in DOMAIN body : IsLowered(Hoisted(body, table)[i]) <=> Moves(body, i, table)
<1> DEFINE f == Hoisted(body, table)
           S == DOMAIN body
           T == {i \in S : IsLowered(f[i]) <=> Moves(body, i, table)}
           rank == [i \in S |-> i]
<1>1. ASSUME NEW i \in S, \A k \in DOMAIN body[i].args : body[i].args[k] \in T
      PROVE  i \in T
  <2> DEFINE rs == Operands(f, body, i)
             R == ReadsOf(table)
             here == /\ body[i].kind \in {"recv", "load"} \cup Hoistable
                     /\ SourceStands(body, i, table)
  <2>1. \A k \in DOMAIN body[i].args : body[i].args[k] \in S
    BY BodyPlaces
  <2>2. Moves(body, i, table) <=>
          here /\ \A k \in DOMAIN body[i].args : Moves(body, body[i].args[k], table)
    <3> HIDE DEF here
    <3>1. Behind(body)[i] = {i} \cup UNION {Behind(body)[body[i].args[k]] : k \in DOMAIN body[i].args}
      BY BehindEquation
    <3>2. \A j : j \in Behind(body)[i] <=>
                   j = i \/ \E k \in DOMAIN body[i].args : j \in Behind(body)[body[i].args[k]]
      BY <3>1
    <3> QED
      BY <3>2 DEF Moves, here
  <2>3. /\ DOMAIN rs = DOMAIN body[i].args
        /\ \A k \in DOMAIN rs : rs[k] = f[body[i].args[k]]
    BY DEF Operands
  <2>4. IsLowered(AllOf(rs)) <=> \A k \in DOMAIN body[i].args : Moves(body, body[i].args[k], table)
    <3> HIDE DEF f, rs
    <3>1. IsLowered(AllOf(rs)) <=> \A k \in DOMAIN rs : IsLowered(rs[k])
      BY AllOfStatus
    <3>2. \A k \in DOMAIN rs : IsLowered(rs[k]) <=> Moves(body, body[i].args[k], table)
      BY <1>1, <2>3
    <3> QED
      BY <2>3, <3>1, <3>2
  <2>5. CASE body[i].kind \in {"recv", "load"}
    <3>1. DOMAIN body[i].args = {}
      BY <2>5, BodyArity
    <3>2. IsLowered(f[i]) <=> SourceStands(body, i, table)
      BY <2>5, HoistedEquation, SourceStatus DEF SourceStands
    <3> QED
      BY <2>2, <2>5, <3>1, <3>2
  <2>6. CASE body[i].kind \in Hoistable
    <3>1. body[i].kind # "recv" /\ body[i].kind # "load"
      BY <2>6 DEF Hoistable
    <3>2. here
      BY <2>6, <3>1 DEF SourceStands
    <3>3. IsLowered(f[i]) <=> IsLowered(AllOf(rs))
      <4>1. CASE body[i].kind = "slice"
        <5>1. f[i] = PartOf(AllOf(rs), body[i].name)
          BY <4>1, HoistedEquation
        <5>2. AllOf(rs) \in Results(body, R)
          <6>1. PICK n \in Nat : DOMAIN body[i].args = 1..n
            BY BodyPlaces
          <6>2. f \in [S -> Results(body, R)]
            BY HoistedEquation
          <6>3. rs \in [1..n -> Results(body, R)]
            BY <2>1, <6>1, <6>2 DEF Operands
          <6>4. Deferred \in Results(body, R) /\ Whole \in Parts
            BY SourcesAreResults, ComposeParts
          <6> HIDE DEF rs, R
          <6> QED
            BY <6>3, <6>4, CombinedResults
        <5> HIDE DEF f, rs
        <5> QED
          BY <5>1, <5>2, PartOfLowered
      <4>2. CASE body[i].kind # "slice"
        <5>1. f[i] = AllOf(rs)
          BY <2>6, <4>2, HoistedEquation
        <5> QED
          BY <5>1
      <4> QED
        BY <4>1, <4>2
    <3> QED
      BY <2>2, <2>4, <3>2, <3>3
  <2>7. CASE body[i].kind \notin {"recv", "load"} \cup Hoistable
    <3>1. f[i] = Deferred
      BY <2>7, HoistedEquation
    <3> QED
      BY <2>2, <2>7, <3>1 DEF Deferred, IsLowered
  <2> QED
    BY <2>5, <2>6, <2>7
<1> HIDE DEF T
<1>2. \A i \in S : (\A j \in S : rank[j] < rank[i] => j \in T) => i \in T
  <2>1. \A i \in S : \A k \in DOMAIN body[i].args :
          body[i].args[k] \in S /\ rank[body[i].args[k]] < rank[i]
    BY BodyPlaces
  <2> HIDE DEF rank
  <2> QED
    BY <1>1, <2>1
<1>3. rank \in [S -> Nat]
  BY BodyPlaces
<1> HIDE DEF rank
<1>4. S \subseteq T
  BY <1>2, <1>3, RankInduction
<1> QED
  BY <1>4 DEF T

\* When a computed value is lowered, by its operation.
LowersAt(body, table, forwarded, f, x) ==
  LET op == body[x[1]]
  IN /\ op.kind \in {"recv", "load"} => (IsLowered(f[x]) <=> SourceStands(body, x[1], table))
     /\ op.kind = "empty" => IsLowered(f[x])
     /\ op.kind = "insert" =>
          (IsLowered(f[x]) <=> \A k \in DOMAIN op.args : IsLowered(f[<<op.args[k], Whole>>]))
     /\ op.kind \in {"exp", "generic"} =>
          (IsLowered(f[x]) <=> \A k \in DOMAIN op.args : IsLowered(f[<<op.args[k], x[2]>>]))
     /\ op.kind = "matmul" =>
          (IsLowered(f[x]) <=>
             /\ IF x[2] = Whole THEN IsLowered(f[<<op.args[1], Whole>>])
                ELSE SourceStands(body, op.args[1], table)
             /\ IsLowered(f[<<op.args[2], Whole>>]))
     /\ op.kind = "add" => ~IsLowered(f[x])
     /\ op.kind \notin {"recv", "load", "empty", "insert", "exp", "generic", "matmul", "add"} =>
          (IsLowered(f[x]) <=> Moves(body, x[1], forwarded))

LEMMA LowerStatus ==
  ASSUME NEW body, IsBody(body), NEW table, NEW forwarded, NEW x \in PlaceParts(body)
  PROVE  LowersAt(body, table, forwarded, LowerValue(body, table, forwarded), x)
<1> DEFINE f == LowerValue(body, table, forwarded)
           i == x[1]
           op == body[i]
           part == x[2]
<1>1. i \in DOMAIN body /\ part \in Parts /\ Whole \in Parts
  BY ComposeParts DEF PlaceParts
<1>2. LoweringAt(body, table, forwarded, f, x)
  BY LowerValueEquation
<1>3. \E n \in Nat : DOMAIN op.args = 1..n
  BY <1>1, BodyPlaces
<1>4. \A q : LET rs == OperandParts(f, body, x, q)
             IN DOMAIN rs = DOMAIN op.args /\ \A k \in DOMAIN rs : rs[k] = f[<<op.args[k], q>>]
  BY DEF OperandParts
<1> SUFFICES LowersAt(body, table, forwarded, f, x)
  OBVIOUS
<1> HIDE DEF f
<1>5. CASE op.kind \in {"recv", "load"}
  <2>1. IsLowered(f[x]) <=> SourceStands(body, i, table)
    BY <1>2, <1>5, SourceStatus DEF LoweringAt, SourceStands
  <2> QED
    BY <1>5, <2>1 DEF LowersAt
<1>6. CASE op.kind = "empty"
  <2>1. IsLowered(f[x])
    BY <1>2, <1>6 DEF LoweringAt, IsLowered, Lowered
  <2> QED
    BY <1>6, <2>1 DEF LowersAt
<1>7. CASE op.kind = "insert"
  <2> DEFINE rs == OperandParts(f, body, x, Whole)
  <2>1. f[x] = AllOf(rs)
    BY <1>2, <1>7 DEF LoweringAt
  <2>2. IsLowered(f[x]) <=> \A k \in DOMAIN rs : IsLowered(rs[k])
    <3> HIDE DEF rs
    <3> QED
      BY <2>1, AllOfStatus
  <2>3. IsLowered(f[x]) <=> \A k \in DOMAIN op.args : IsLowered(f[<<op.args[k], Whole>>])
    BY <1>4, <2>2
  <2> QED
    BY <1>7, <2>3 DEF LowersAt
<1>8. CASE op.kind \in {"exp", "generic"}
  <2> DEFINE rs == OperandParts(f, body, x, part)
  <2>1. f[x] = FirstFault(rs)
    BY <1>2, <1>8 DEF LoweringAt
  <2>2. DOMAIN rs = DOMAIN op.args
    BY <1>4
  <2>3. IsLowered(f[x]) <=> \A k \in DOMAIN rs : IsLowered(rs[k])
    <3> HIDE DEF rs
    <3> QED
      BY <1>3, <2>1, <2>2, FirstFaultStatus
  <2>4. IsLowered(f[x]) <=> \A k \in DOMAIN op.args : IsLowered(f[<<op.args[k], part>>])
    BY <1>4, <2>3
  <2> QED
    BY <1>8, <2>4 DEF LowersAt
<1>9. CASE op.kind = "matmul"
  <2> DEFINE left == f[<<op.args[1], Whole>>]
             right == f[<<op.args[2], Whole>>]
             source == SourceValue(body, op.args[1], part, table)
  <2>1. f[x] = MatmulOf(part, left, source, right)
    BY <1>2, <1>9 DEF LoweringAt
  <2>2. 1 \in DOMAIN op.args /\ op.args[1] \in DOMAIN body
    BY <1>1, <1>9, BodyArity, BodyPlaces
  <2>3. IsLowered(source) <=> SourceStands(body, op.args[1], table)
    BY <1>1, <2>2, SourceValueStatus
  <2> HIDE DEF left, right, source
  <2>4. IsLowered(f[x]) <=> IsLowered(IF part = Whole THEN left ELSE source) /\ IsLowered(right)
    BY <2>1, PairStatus DEF MatmulOf
  <2> QED
    BY <1>9, <2>3, <2>4 DEF LowersAt, left, right
<1>10. CASE op.kind = "add"
  <2>1. ~IsLowered(f[x])
    BY <1>2, <1>10 DEF LoweringAt, IsLowered, Failed
  <2> QED
    BY <1>10, <2>1 DEF LowersAt
<1>11. CASE op.kind \notin {"recv", "load", "empty", "insert", "exp", "generic", "matmul", "add"}
  <2>1. f[x] = PartOf(Hoisted(body, forwarded)[i], part)
    BY <1>2, <1>11 DEF LoweringAt
  <2>2. Hoisted(body, forwarded)[i] \in Results(body, ReadsOf(forwarded))
    BY <1>1, HoistedEquation
  <2>3. IsLowered(f[x]) <=> IsLowered(Hoisted(body, forwarded)[i])
    BY <2>1, <2>2, PartOfLowered
  <2>4. IsLowered(f[x]) <=> Moves(body, i, forwarded)
    BY <1>1, <2>3, HoistedStatus
  <2> QED
    BY <1>11, <2>4 DEF LowersAt
<1> QED
  BY <1>5, <1>6, <1>7, <1>8, <1>9, <1>10, <1>11

-----------------------------------------------------------------------------
(* What the tables must have for a value to be lowered *)

\* Two tables have the same of the channels that are received behind a value.
Alike(body, i, table, other) ==
  \A j \in Behind(body)[i] :
    body[j].kind = "recv" => (body[j].name \in DOMAIN table <=> body[j].name \in DOMAIN other)

LEMMA AlikeStands ==
  ASSUME NEW body, IsBody(body), NEW i \in DOMAIN body, NEW table, NEW other,
         Alike(body, i, table, other), program' = program
  PROVE  /\ SourceStands(body, i, table) <=> SourceStands(body, i, other)'
         /\ Moves(body, i, table) <=> Moves(body, i, other)'
         /\ \A k \in DOMAIN body[i].args : Alike(body, body[i].args[k], table, other)
<1>1. \A j \in Behind(body)[i] : SourceStands(body, j, table) <=> SourceStands(body, j, other)'
  BY DEF Alike, SourceStands
<1> QED
  BY <1>1, OperandsAreBehind DEF Moves, Alike

\* What is known of a value holds at any time.
StatusIsKnown(body, table, forwarded) ==
  \A x \in PlaceParts(body) :
    LowersAt(body, table, forwarded, LowerValue(body, table, forwarded), x)

LEMMA StatusesAreKnown ==
  \A body, table, forwarded : IsBody(body) =>
    StatusIsKnown(body, table, forwarded) /\ StatusIsKnown(body, table, forwarded)'
<1>1. \A body, table, forwarded : IsBody(body) => StatusIsKnown(body, table, forwarded)
  BY LowerStatus DEF StatusIsKnown
<1>2. (\A body, table, forwarded : IsBody(body) => StatusIsKnown(body, table, forwarded))'
  BY <1>1, PTL
<1> QED
  BY <1>1, <1>2

\* A value is lowered out of two pairs of tables alike, the second at a later time.
LEMMA LowersAlike ==
  ASSUME NEW body, IsBody(body), NEW table, NEW forwarded, NEW table2, NEW forwarded2,
         program' = program
  PROVE  \A x \in PlaceParts(body) :
           Alike(body, x[1], table, table2) /\ Alike(body, x[1], forwarded, forwarded2) =>
             (IsLowered(LowerValue(body, table, forwarded)[x]) <=>
                IsLowered(LowerValue(body, table2, forwarded2)[x])')
<1> PICK g : g = LowerValue(body, table2, forwarded2)'
  OBVIOUS
<1> DEFINE f == LowerValue(body, table, forwarded)
           S == PlaceParts(body)
           Same(x) == Alike(body, x[1], table, table2) /\ Alike(body, x[1], forwarded, forwarded2)
                        => (IsLowered(f[x]) <=> IsLowered(g[x]))
           T == {x \in S : Same(x)}
           rank == PlaceRank(body)
<1>1. ASSUME NEW x \in S,
             \A k \in DOMAIN body[x[1]].args, q \in Parts : Same(<<body[x[1]].args[k], q>>)
      PROVE  Same(x)
  <2> DEFINE i == x[1]
             op == body[i]
  <2>1. SUFFICES ASSUME Alike(body, i, table, table2), Alike(body, i, forwarded, forwarded2)
                 PROVE  IsLowered(f[x]) <=> IsLowered(g[x])
    OBVIOUS
  <2>2. i \in DOMAIN body /\ x[2] \in Parts /\ Whole \in Parts
        /\ \A k \in DOMAIN op.args : op.args[k] \in DOMAIN body
    BY BodyPlaces, ComposeParts DEF PlaceParts
  <2>3. LowersAt(body, table, forwarded, f, x) /\ LowersAt(body, table2, forwarded2, g, x)'
    <3>1. (StatusIsKnown(body, table2, forwarded2))'
      BY StatusesAreKnown
    <3> QED
      BY <3>1, LowerStatus DEF StatusIsKnown
  <2>4. \A k \in DOMAIN op.args, q \in Parts :
          IsLowered(f[<<op.args[k], q>>]) <=> IsLowered(g[<<op.args[k], q>>])
    <3> TAKE k \in DOMAIN op.args, q \in Parts
    <3>1. Alike(body, op.args[k], table, table2) /\ Alike(body, op.args[k], forwarded, forwarded2)
      BY <2>1, <2>2, AlikeStands
    <3>2. <<op.args[k], q>>[1] = op.args[k]
      OBVIOUS
    <3>3. Same(<<op.args[k], q>>)
      BY <1>1
    <3> HIDE DEF f
    <3> QED
      BY <3>1, <3>2, <3>3
  <2>5. /\ SourceStands(body, i, table) <=> SourceStands(body, i, table2)'
        /\ Moves(body, i, forwarded) <=> Moves(body, i, forwarded2)'
        /\ op.kind = "matmul" =>
             /\ 1 \in DOMAIN op.args /\ 2 \in DOMAIN op.args
             /\ SourceStands(body, op.args[1], table) <=> SourceStands(body, op.args[1], table2)'
    <3>1. op.kind = "matmul" => 1 \in DOMAIN op.args /\ 2 \in DOMAIN op.args
      BY <2>2, BodyArity
    <3>2. \A k \in DOMAIN op.args :
            SourceStands(body, op.args[k], table) <=> SourceStands(body, op.args[k], table2)'
      BY <2>1, <2>2, AlikeStands
    <3> QED
      BY <2>1, <2>2, <3>1, <3>2, AlikeStands
  <2> HIDE DEF f, i
  <2>6. CASE op.kind \in {"recv", "load"}
    BY <2>3, <2>5, <2>6 DEF LowersAt, i
  <2>7. CASE op.kind \in {"empty", "add"}
    BY <2>3, <2>7 DEF LowersAt, i
  <2>8. CASE op.kind \in {"insert", "exp", "generic"}
    BY <2>2, <2>3, <2>4, <2>8 DEF LowersAt, i
  <2>9. CASE op.kind = "matmul"
    <3>1. /\ IsLowered(f[x]) <=>
               /\ IF x[2] = Whole THEN IsLowered(f[<<op.args[1], Whole>>])
                  ELSE SourceStands(body, op.args[1], table)
               /\ IsLowered(f[<<op.args[2], Whole>>])
          /\ IsLowered(g[x]) <=>
               /\ IF x[2] = Whole THEN IsLowered(g[<<op.args[1], Whole>>])
                  ELSE SourceStands(body, op.args[1], table2)'
               /\ IsLowered(g[<<op.args[2], Whole>>])
      BY <2>3, <2>9 DEF LowersAt, i
    <3> QED
      BY <2>2, <2>4, <2>5, <2>9, <3>1
  <2>10. CASE op.kind \notin {"recv", "load", "empty", "insert", "exp", "generic", "matmul", "add"}
    BY <2>3, <2>5, <2>10 DEF LowersAt, i
  <2> QED
    BY <2>6, <2>7, <2>8, <2>9, <2>10
<1> HIDE DEF Same
<1>2. \A x \in S : (\A y \in S : rank[y] < rank[x] => y \in T) => x \in T
  <2>1. \A x \in S : \A k \in DOMAIN body[x[1]].args, q \in Parts :
          /\ <<body[x[1]].args[k], q>> \in S
          /\ rank[<<body[x[1]].args[k], q>>] < rank[x]
    BY OperandPlaces
  <2> HIDE DEF rank, S
  <2> QED
    BY <1>1, <2>1
<1>3. rank \in [S -> Nat]
  BY PlaceRanks DEF IsRanking
<1> HIDE DEF T, rank, S
<1>4. S \subseteq T
  BY <1>2, <1>3, RankInduction
<1> QED
  BY <1>4 DEF T, S, Same

\* What a value is made of can be computed, and what it is made of that is only moved
\* can be moved.
CanBeLowered(body, i, table, forwarded) ==
  \A j \in Behind(body)[i] :
    /\ body[j].kind \in {"recv", "load"} \cup Hoistable \cup (Residual \ {"add"})
    /\ SourceStands(body, j, table)
    /\ body[j].kind \in {"slice", "concat"} => Moves(body, j, forwarded)

LEMMA LowersWhenItCan ==
  ASSUME NEW body, IsBody(body), NEW table, NEW forwarded
  PROVE  \A x \in PlaceParts(body) :
           CanBeLowered(body, x[1], table, forwarded) =>
             IsLowered(LowerValue(body, table, forwarded)[x])
<1> DEFINE f == LowerValue(body, table, forwarded)
           S == PlaceParts(body)
           Lowers(x) == CanBeLowered(body, x[1], table, forwarded) => IsLowered(f[x])
           T == {x \in S : Lowers(x)}
           rank == PlaceRank(body)
<1>1. ASSUME NEW x \in S,
             \A k \in DOMAIN body[x[1]].args, q \in Parts : Lowers(<<body[x[1]].args[k], q>>)
      PROVE  Lowers(x)
  <2> DEFINE i == x[1]
             op == body[i]
  <2>1. SUFFICES ASSUME CanBeLowered(body, i, table, forwarded)
                 PROVE  IsLowered(f[x])
    OBVIOUS
  <2>2. i \in DOMAIN body /\ x[2] \in Parts /\ Whole \in Parts
        /\ \A k \in DOMAIN op.args : op.args[k] \in DOMAIN body
    BY BodyPlaces, ComposeParts DEF PlaceParts
  <2>3. LowersAt(body, table, forwarded, f, x)
    BY LowerStatus
  <2>4. \A k \in DOMAIN op.args, q \in Parts : IsLowered(f[<<op.args[k], q>>])
    <3> TAKE k \in DOMAIN op.args, q \in Parts
    <3>1. CanBeLowered(body, op.args[k], table, forwarded)
      BY <2>1, <2>2, OperandsAreBehind DEF CanBeLowered
    <3>2. <<op.args[k], q>>[1] = op.args[k]
      OBVIOUS
    <3>3. Lowers(<<op.args[k], q>>)
      BY <1>1
    <3> HIDE DEF f
    <3> QED
      BY <3>1, <3>2, <3>3
  <2>5. /\ op.kind \in {"recv", "load"} \cup Hoistable \cup (Residual \ {"add"})
        /\ SourceStands(body, i, table)
        /\ op.kind \in {"slice", "concat"} => Moves(body, i, forwarded)
    <3>1. i \in Behind(body)[i]
      BY <2>2, OperandsAreBehind
    <3> QED
      BY <2>1, <3>1 DEF CanBeLowered
  <2>6. op.kind = "matmul" =>
          1 \in DOMAIN op.args /\ 2 \in DOMAIN op.args /\ SourceStands(body, op.args[1], table)
    <3>1. ASSUME op.kind = "matmul"
          PROVE  1 \in DOMAIN op.args /\ 2 \in DOMAIN op.args
      BY <2>2, <3>1, BodyArity
    <3>2. \A k \in DOMAIN op.args : op.args[k] \in Behind(body)[i]
      BY <2>2, OperandsAreBehind
    <3> QED
      BY <2>1, <3>1, <3>2 DEF CanBeLowered
  <2> HIDE DEF f, i
  <2>7. CASE op.kind \in {"recv", "load", "empty"}
    BY <2>3, <2>5, <2>7 DEF LowersAt, i
  <2>8. CASE op.kind \in {"insert", "exp", "generic"}
    BY <2>2, <2>3, <2>4, <2>8 DEF LowersAt, i
  <2>9. CASE op.kind = "matmul"
    <3>1. /\ IsLowered(f[x]) <=>
               /\ IF x[2] = Whole THEN IsLowered(f[<<op.args[1], Whole>>])
                  ELSE SourceStands(body, op.args[1], table)
               /\ IsLowered(f[<<op.args[2], Whole>>])
      BY <2>3, <2>9 DEF LowersAt, i
    <3> QED
      BY <2>2, <2>4, <2>6, <2>9, <3>1
  <2>10. CASE op.kind \in {"slice", "concat"}
    BY <2>3, <2>5, <2>10 DEF LowersAt, i
  <2>11. CASE op.kind = "constant"
    <3>1. DOMAIN op.args = {}
      BY <2>2, <2>11, BodyArity
    <3>2. Behind(body)[i] = {i}
      BY <2>2, <3>1, BehindEquation
    <3>3. Moves(body, i, forwarded)
      BY <2>11, <3>2 DEF Moves, SourceStands, Hoistable
    <3> QED
      BY <2>3, <2>11, <3>3 DEF LowersAt, i
  <2> QED
    BY <2>5, <2>7, <2>8, <2>9, <2>10, <2>11 DEF Hoistable, Residual
<1> HIDE DEF Lowers
<1>2. \A x \in S : (\A y \in S : rank[y] < rank[x] => y \in T) => x \in T
  <2>1. \A x \in S : \A k \in DOMAIN body[x[1]].args, q \in Parts :
          /\ <<body[x[1]].args[k], q>> \in S
          /\ rank[<<body[x[1]].args[k], q>>] < rank[x]
    BY OperandPlaces
  <2> HIDE DEF rank, S
  <2> QED
    BY <1>1, <2>1
<1>3. rank \in [S -> Nat]
  BY PlaceRanks DEF IsRanking
<1> HIDE DEF T, rank, S
<1>4. S \subseteq T
  BY <1>2, <1>3, RankInduction
<1> QED
  BY <1>4 DEF T, S, Lowers

-----------------------------------------------------------------------------
(* Which sends are lowered *)

ArePieces(body, k, table, forwarded) ==
  \A m \in DOMAIN PiecesOf(body, k, table, forwarded) :
    IsLowered(PiecesOf(body, k, table, forwarded)[m])

\* The operand that a sum in shards is cut by, and the other.
CutBy(body, v) == IF body[body[v].args[1]].kind = "concat" THEN 1 ELSE 2
IsCut(body, v) == \E m \in 1..2 : body[body[v].args[m]].kind = "concat"

\* When a send is lowered, by the kind of its value.
SendsAt(body, k, table, forwarded, f) ==
  LET v == SentValue(body, k)
      args == body[v].args
      n == CutBy(body, v)
      lowers(i, part) == IsLowered(f[<<i, part>>])
  IN /\ SentKind(body, k) \notin Residual =>
          (ArePieces(body, k, table, forwarded) <=> Moves(body, body[k].args[1], forwarded))
     /\ SentKind(body, k) \in Residual \ {"add"} =>
          (ArePieces(body, k, table, forwarded) <=> lowers(v, SentPart(body, k)))
     /\ SentKind(body, k) = "add" /\ ~IsCut(body, v) =>
          (ArePieces(body, k, table, forwarded) <=>
             lowers(args[1], Whole) /\ lowers(args[2], Whole))
     /\ SentKind(body, k) = "add" /\ IsCut(body, v) =>
          (ArePieces(body, k, table, forwarded) <=>
             /\ SourceStands(body, args[3 - n], table)
             /\ \A m \in DOMAIN body[args[n]].args : lowers(body[args[n]].args[m], Whole))

\* The places that decide it.
LEMMA SendPlacesBehind ==
  ASSUME NEW body, IsBody(body), NEW k \in DOMAIN body, body[k].kind = "send"
  PROVE  LET v == SentValue(body, k)
             args == body[v].args
             n == CutBy(body, v)
             B == Behind(body)[body[k].args[1]]
         IN /\ body[k].args[1] \in DOMAIN body /\ v \in DOMAIN body /\ SentPart(body, k) \in Parts
            /\ Behind(body)[v] \subseteq B
            /\ SentKind(body, k) = "add" =>
                 /\ DOMAIN args = {1, 2} /\ n \in {1, 2} /\ 3 - n \in {1, 2}
                 /\ \A m \in {1, 2} : args[m] \in DOMAIN body /\ Behind(body)[args[m]] \subseteq B
                 /\ IsCut(body, v) =>
                      /\ body[args[n]].kind = "concat" /\ 1 \in DOMAIN body[args[n]].args
                      /\ \A m \in DOMAIN body[args[n]].args :
                           /\ body[args[n]].args[m] \in DOMAIN body
                           /\ Behind(body)[body[args[n]].args[m]] \subseteq B
<1> DEFINE v == SentValue(body, k)
           a == body[k].args[1]
           args == body[v].args
           n == CutBy(body, v)
           Beh == Behind(body)
           B == Beh[a]
<1>1. a \in DOMAIN body /\ v \in DOMAIN body /\ SentPart(body, k) \in Parts
  BY SentIsMeant
<1>2. Beh[v] \subseteq B
  <2>1. CASE SendsSlice(body, k)
    <3>1. v = body[a].args[1] /\ 1 \in DOMAIN body[a].args
      BY <1>1, <2>1, BodyArity DEF SendsSlice, SentValue
    <3> QED
      BY <1>1, <3>1, OperandsAreBehind
  <2>2. CASE ~SendsSlice(body, k)
    BY <2>2 DEF SentValue
  <2> QED
    BY <2>1, <2>2
<1>3. ASSUME SentKind(body, k) = "add"
      PROVE  /\ DOMAIN args = {1, 2} /\ n \in {1, 2} /\ 3 - n \in {1, 2}
             /\ \A m \in {1, 2} : args[m] \in DOMAIN body /\ Beh[args[m]] \subseteq B
             /\ IsCut(body, v) =>
                  /\ body[args[n]].kind = "concat" /\ 1 \in DOMAIN body[args[n]].args
                  /\ \A m \in DOMAIN body[args[n]].args :
                       /\ body[args[n]].args[m] \in DOMAIN body
                       /\ Beh[body[args[n]].args[m]] \subseteq B
  <2>1. DOMAIN args = {1, 2}
    BY <1>1, <1>3, BodyArity DEF SentKind
  <2>2. n \in {1, 2} /\ 3 - n \in {1, 2} /\ (IsCut(body, v) => body[args[n]].kind = "concat")
    <3>1. (1..2) = {1, 2} /\ 3 - 1 = 2 /\ 3 - 2 = 1
      OBVIOUS
    <3> QED
      BY <3>1 DEF CutBy, IsCut
  <2>3. \A m \in {1, 2} : args[m] \in DOMAIN body /\ Beh[args[m]] \subseteq B
    BY <1>1, <1>2, <2>1, BodyPlaces, OperandsAreBehind
  <2> DEFINE c == args[n]
  <2>4. c \in DOMAIN body /\ Beh[c] \subseteq B
    BY <2>2, <2>3
  <2>5. ASSUME IsCut(body, v)
        PROVE  /\ 1 \in DOMAIN body[c].args
               /\ \A m \in DOMAIN body[c].args :
                    body[c].args[m] \in DOMAIN body /\ Beh[body[c].args[m]] \subseteq B
    <3>1. body[c].kind = "concat"
      BY <2>2, <2>5
    <3> HIDE DEF c
    <3>2. 1 \in DOMAIN body[c].args
      BY <2>4, <3>1, BodyArity
    <3> QED
      BY <2>4, <3>2, BodyPlaces, OperandsAreBehind
  <2> QED
    BY <2>1, <2>2, <2>3, <2>5
<1> QED
  BY <1>1, <1>2, <1>3

LEMMA SendStatus ==
  ASSUME NEW body, IsBody(body), NEW k \in DOMAIN body, body[k].kind = "send",
         NEW table, NEW forwarded
  PROVE  SendsAt(body, k, table, forwarded, LowerValue(body, table, forwarded))
<1> DEFINE f == LowerValue(body, table, forwarded)
           v == SentValue(body, k)
           part == SentPart(body, k)
           args == body[v].args
           n == CutBy(body, v)
           pieces == PiecesOf(body, k, table, forwarded)
           whole(i) == f[<<i, Whole>>]
<1>1. ArePieces(body, k, table, forwarded) <=> \A m \in DOMAIN pieces : IsLowered(pieces[m])
  BY DEF ArePieces
<1>2. ASSUME NEW r, pieces = <<r>>
      PROVE  ArePieces(body, k, table, forwarded) <=> IsLowered(r)
  <2> HIDE DEF pieces
  <2> QED
    BY <1>1, <1>2, OnePiece
<1>3. body[k].args[1] \in DOMAIN body /\ Whole \in Parts
  BY SendPlacesBehind, ComposeParts
<1>4. ASSUME SentKind(body, k) \notin Residual
      PROVE  ArePieces(body, k, table, forwarded) <=> Moves(body, body[k].args[1], forwarded)
  <2>1. pieces = <<Hoisted(body, forwarded)[body[k].args[1]]>>
    BY <1>4 DEF PiecesOf, Residual
  <2> HIDE DEF pieces
  <2> QED
    BY <1>2, <1>3, <2>1, HoistedStatus
<1>5. ASSUME SentKind(body, k) \in Residual \ {"add"}
      PROVE  ArePieces(body, k, table, forwarded) <=> IsLowered(f[<<v, part>>])
  <2>1. pieces = <<f[<<v, part>>]>>
    BY <1>5 DEF PiecesOf
  <2> HIDE DEF pieces, f, v, part
  <2> QED
    BY <1>2, <2>1
<1>6. ASSUME SentKind(body, k) = "add"
      PROVE  pieces = AddShards(body, v, table, forwarded)
  BY <1>6 DEF PiecesOf
<1> DEFINE concats == {m \in 1..2 : body[args[m]].kind = "concat"}
           source == SourceValue(body, args[3 - n], Whole, table)
<1>7. ASSUME SentKind(body, k) = "add", ~IsCut(body, v)
      PROVE  ArePieces(body, k, table, forwarded) <=>
               IsLowered(whole(args[1])) /\ IsLowered(whole(args[2]))
  <2>1. concats = {}
    BY <1>7 DEF IsCut
  <2>2. pieces = <<AllOf(<<whole(args[1]), whole(args[2])>>)>>
    BY <1>6, <1>7, <2>1 DEF AddShards
  <2> HIDE DEF pieces, whole
  <2> QED
    BY <1>2, <2>2, PairStatus
<1>8. ASSUME SentKind(body, k) = "add", IsCut(body, v)
      PROVE  ArePieces(body, k, table, forwarded) <=>
               /\ SourceStands(body, args[3 - n], table)
               /\ \A m \in DOMAIN body[args[n]].args : IsLowered(whole(body[args[n]].args[m]))
  <2> DEFINE inputs == body[args[n]].args
  <2>1. concats # {} /\ n = (IF 1 \in concats THEN 1 ELSE 2)
    BY <1>8 DEF IsCut, CutBy
  <2>2. pieces = [m \in DOMAIN inputs |-> AllOf(<<source, whole(inputs[m])>>)]
    BY <1>6, <1>8, <2>1 DEF AddShards
  <2>3. 1 \in DOMAIN inputs /\ args[3 - n] \in DOMAIN body
    BY <1>8, SendPlacesBehind
  <2>4. IsLowered(source) <=> SourceStands(body, args[3 - n], table)
    BY <1>3, <2>3, SourceValueStatus
  <2> HIDE DEF pieces, whole, source, inputs
  <2>5. \A m \in DOMAIN inputs :
          IsLowered(pieces[m]) <=> IsLowered(source) /\ IsLowered(whole(inputs[m]))
    BY <2>2, PairStatus
  <2>6. DOMAIN pieces = DOMAIN inputs
    BY <2>2
  <2>7. ArePieces(body, k, table, forwarded) <=>
          IsLowered(source) /\ \A m \in DOMAIN inputs : IsLowered(whole(inputs[m]))
    BY <1>1, <2>3, <2>5, <2>6
  <2> QED
    BY <2>4, <2>7 DEF inputs
<1> SUFFICES SendsAt(body, k, table, forwarded, f)
  OBVIOUS
<1> HIDE DEF f
<1> QED
  BY <1>4, <1>5, <1>7, <1>8 DEF SendsAt

SendStatusIsKnown(body, table, forwarded) ==
  \A k \in DOMAIN body : body[k].kind = "send" =>
    SendsAt(body, k, table, forwarded, LowerValue(body, table, forwarded))

LEMMA SendStatuses ==
  \A body, table, forwarded : IsBody(body) =>
    SendStatusIsKnown(body, table, forwarded) /\ SendStatusIsKnown(body, table, forwarded)'
<1>1. \A body, table, forwarded : IsBody(body) => SendStatusIsKnown(body, table, forwarded)
  BY SendStatus DEF SendStatusIsKnown
<1>2. (\A body, table, forwarded : IsBody(body) => SendStatusIsKnown(body, table, forwarded))'
  BY <1>1, PTL
<1> QED
  BY <1>1, <1>2

\* Whether a send is lowered depends on nothing but the channels received behind it;
\* the second pair of tables is that of a later time.
LEMMA SendsAlike ==
  ASSUME NEW body, IsBody(body), NEW k \in DOMAIN body, body[k].kind = "send",
         NEW table, NEW forwarded, NEW table2, NEW forwarded2,
         program' = program, Alike(body, body[k].args[1], table, table2),
         Alike(body, body[k].args[1], forwarded, forwarded2)
  PROVE  ArePieces(body, k, table, forwarded) <=> ArePieces(body, k, table2, forwarded2)'
<1> PICK g : g = LowerValue(body, table2, forwarded2)'
  OBVIOUS
<1> DEFINE f == LowerValue(body, table, forwarded)
           v == SentValue(body, k)
           part == SentPart(body, k)
           args == body[v].args
           n == CutBy(body, v)
           a == body[k].args[1]
           B == Behind(body)[a]
           Near(i) == i \in DOMAIN body /\ Behind(body)[i] \subseteq B
<1>1. SendsAt(body, k, table, forwarded, f) /\ SendsAt(body, k, table2, forwarded2, g)'
  BY SendStatus, SendStatuses DEF SendStatusIsKnown
<1>2. ASSUME NEW i, Near(i)
      PROVE  /\ SourceStands(body, i, table) <=> SourceStands(body, i, table2)'
             /\ Moves(body, i, forwarded) <=> Moves(body, i, forwarded2)'
             /\ \A q \in Parts : IsLowered(f[<<i, q>>]) <=> IsLowered(g[<<i, q>>])
  <2>1. Alike(body, i, table, table2) /\ Alike(body, i, forwarded, forwarded2)
    BY <1>2 DEF Alike
  <2>2. ASSUME NEW q \in Parts
        PROVE  IsLowered(f[<<i, q>>]) <=> IsLowered(g[<<i, q>>])
    <3> DEFINE x == <<i, q>>
    <3>1. x \in PlaceParts(body) /\ x[1] = i
      BY <1>2 DEF PlaceParts
    <3> HIDE DEF x
    <3>2. IsLowered(f[x]) <=> IsLowered(g[x])
      BY <2>1, <3>1, LowersAlike
    <3> QED
      BY <3>2 DEF x
  <2> QED
    BY <1>2, <2>1, <2>2, AlikeStands
<1>3. /\ Near(a) /\ Near(v) /\ part \in Parts /\ Whole \in Parts
      /\ SentKind(body, k) = "add" =>
           /\ Near(args[1]) /\ Near(args[2]) /\ Near(args[3 - n])
           /\ IsCut(body, v) => \A m \in DOMAIN body[args[n]].args : Near(body[args[n]].args[m])
  BY SendPlacesBehind, ComposeParts
<1> HIDE DEF f, v, part, args, n, a, Near
<1>4. CASE SentKind(body, k) \notin Residual
  BY <1>1, <1>2, <1>3, <1>4 DEF SendsAt, a
<1>5. CASE SentKind(body, k) \in Residual \ {"add"}
  BY <1>1, <1>2, <1>3, <1>5 DEF SendsAt, v, part
<1>6. CASE SentKind(body, k) = "add" /\ ~IsCut(body, v)
  BY <1>1, <1>2, <1>3, <1>6 DEF SendsAt, v, args
<1>7. CASE SentKind(body, k) = "add" /\ IsCut(body, v)
  BY <1>1, <1>2, <1>3, <1>7 DEF SendsAt, v, args, n
<1> QED
  BY <1>4, <1>5, <1>6, <1>7

\* A send is lowered when all it is made of can be.
LEMMA SendsWhenItCan ==
  ASSUME NEW body, IsBody(body), NEW k \in DOMAIN body, body[k].kind = "send",
         NEW table, NEW forwarded,
         SentKind(body, k) \notin Residual => Moves(body, body[k].args[1], forwarded),
         SentKind(body, k) \in Residual \ {"add"} =>
           CanBeLowered(body, SentValue(body, k), table, forwarded),
         SentKind(body, k) = "add" =>
           LET v == SentValue(body, k)
               args == body[v].args
               n == CutBy(body, v)
           IN /\ ~IsCut(body, v) =>
                   /\ CanBeLowered(body, args[1], table, forwarded)
                   /\ CanBeLowered(body, args[2], table, forwarded)
              /\ IsCut(body, v) =>
                   /\ SourceStands(body, args[3 - n], table)
                   /\ \A m \in DOMAIN body[args[n]].args :
                        CanBeLowered(body, body[args[n]].args[m], table, forwarded)
  PROVE  ArePieces(body, k, table, forwarded)
<1> DEFINE f == LowerValue(body, table, forwarded)
           v == SentValue(body, k)
           part == SentPart(body, k)
           args == body[v].args
           n == CutBy(body, v)
<1>1. SendsAt(body, k, table, forwarded, f)
  BY SendStatus
<1>2. ASSUME NEW i \in DOMAIN body, CanBeLowered(body, i, table, forwarded), NEW q \in Parts
      PROVE  IsLowered(f[<<i, q>>])
  <2> DEFINE x == <<i, q>>
  <2>1. x \in PlaceParts(body) /\ x[1] = i
    BY <1>2 DEF PlaceParts
  <2> HIDE DEF x
  <2>2. IsLowered(f[x])
    BY <1>2, <2>1, LowersWhenItCan
  <2> QED
    BY <2>2 DEF x
<1>3. /\ v \in DOMAIN body /\ part \in Parts /\ Whole \in Parts
      /\ SentKind(body, k) = "add" =>
           /\ args[1] \in DOMAIN body /\ args[2] \in DOMAIN body
           /\ IsCut(body, v) =>
                \A m \in DOMAIN body[args[n]].args : body[args[n]].args[m] \in DOMAIN body
  BY SendPlacesBehind, ComposeParts
<1> HIDE DEF f
<1>4. CASE SentKind(body, k) \notin Residual
  BY <1>1, <1>4 DEF SendsAt
<1>5. CASE SentKind(body, k) \in Residual \ {"add"}
  BY <1>1, <1>2, <1>3, <1>5 DEF SendsAt
<1>6. CASE SentKind(body, k) = "add" /\ ~IsCut(body, v)
  BY <1>1, <1>2, <1>3, <1>6 DEF SendsAt
<1>7. CASE SentKind(body, k) = "add" /\ IsCut(body, v)
  BY <1>1, <1>2, <1>3, <1>7 DEF SendsAt
<1> QED
  BY <1>4, <1>5, <1>6, <1>7

-----------------------------------------------------------------------------
(* Sequences without repetitions *)

\* Appending a new element adds it to what a sequence lists and repeats nothing.
LEMMA AppendLists ==
  ASSUME NEW S, NEW seq \in Seq(S), NEW elt \in S
  PROVE  /\ ToSet(Append(seq, elt)) = ToSet(seq) \cup {elt}
         /\ IsInjective(seq) /\ elt \notin ToSet(seq) => IsInjective(Append(seq, elt))
<1> DEFINE longer == Append(seq, elt)
           n == Len(seq)
<1>1. /\ longer \in Seq(S) /\ Len(longer) = n + 1 /\ n \in Nat
      /\ \A i \in 1..n : longer[i] = seq[i]
      /\ longer[n + 1] = elt
      /\ DOMAIN seq = 1..n /\ DOMAIN longer = 1..(n + 1)
  BY AppendProperties, LenProperties
<1> HIDE DEF longer, n
<1>2. 1..(n + 1) = (1..n) \cup {n + 1}
  BY <1>1
<1>3. ToSet(longer) = ToSet(seq) \cup {elt}
  <2>1. /\ ToSet(longer) = {longer[i] : i \in 1..(n + 1)}
        /\ ToSet(seq) = {seq[i] : i \in 1..n}
    BY <1>1 DEF ToSet
  <2>2. \A x : x \in ToSet(longer) <=> x \in ToSet(seq) \/ x = elt
    BY <1>1, <1>2, <2>1
  <2> QED
    BY <2>2
<1>4. ASSUME IsInjective(seq), elt \notin ToSet(seq)
      PROVE  IsInjective(longer)
  <2>1. SUFFICES ASSUME NEW a \in 1..(n + 1), NEW b \in 1..(n + 1), longer[a] = longer[b]
                 PROVE  a = b
    BY <1>1 DEF IsInjective
  <2>2. CASE a \in 1..n /\ b \in 1..n
    BY <1>1, <1>4, <2>1, <2>2 DEF IsInjective
  <2>3. CASE a = n + 1 /\ b \in 1..n
    BY <1>1, <1>4, <2>1, <2>3 DEF ToSet
  <2>4. CASE b = n + 1 /\ a \in 1..n
    BY <1>1, <1>4, <2>1, <2>4 DEF ToSet
  <2> QED
    BY <1>2, <2>2, <2>3, <2>4
<1> QED
  BY <1>3, <1>4 DEF longer

\* A sequence lists its head and what its tail lists, each once if it repeats
\* nothing.
LEMMA HeadTailList ==
  ASSUME NEW S, NEW seq \in Seq(S), seq # <<>>
  PROVE  /\ Tail(seq) \in Seq(S) /\ Head(seq) \in S
         /\ ToSet(seq) = {Head(seq)} \cup ToSet(Tail(seq))
         /\ IsInjective(seq) => IsInjective(Tail(seq)) /\ Head(seq) \notin ToSet(Tail(seq))
<1> DEFINE n == Len(seq)
           tail == Tail(seq)
<1>1. n \in Nat /\ n > 0 /\ DOMAIN seq = 1..n
  BY EmptySeq, LenProperties
<1>2. /\ tail \in Seq(S) /\ Head(seq) \in S /\ DOMAIN tail = 1..(n - 1)
      /\ \A i \in 1..(n - 1) : tail[i] = seq[i + 1]
  BY HeadTailProperties, LenProperties
<1>3. Head(seq) = seq[1]
  OBVIOUS
<1> HIDE DEF n, tail
<1>4. ToSet(seq) = {Head(seq)} \cup ToSet(tail)
  <2>1. \A i \in 1..n : i = 1 \/ (i - 1 \in 1..(n - 1) /\ seq[i] = tail[i - 1])
    BY <1>1, <1>2
  <2>2. \A i \in 1..(n - 1) : i + 1 \in 1..n /\ tail[i] = seq[i + 1]
    BY <1>1, <1>2
  <2>3. 1 \in 1..n
    BY <1>1
  <2>4. /\ ToSet(seq) = {seq[i] : i \in 1..n}
        /\ ToSet(tail) = {tail[i] : i \in 1..(n - 1)}
    BY <1>1, <1>2 DEF ToSet
  <2>5. \A x : x \in ToSet(seq) <=> x = Head(seq) \/ x \in ToSet(tail)
    BY <1>3, <2>1, <2>2, <2>3, <2>4
  <2> QED
    BY <2>5
<1>5. ASSUME IsInjective(seq)
      PROVE  IsInjective(tail) /\ Head(seq) \notin ToSet(tail)
  <2>1. \A a, b \in 1..n : seq[a] = seq[b] => a = b
    BY <1>1, <1>5 DEF IsInjective
  <2>2. \A i \in 1..(n - 1) : i + 1 \in 1..n /\ i + 1 # 1 /\ tail[i] = seq[i + 1]
    BY <1>1, <1>2
  <2>3. \A a, b \in 1..(n - 1) : tail[a] = tail[b] => a = b
    <3>1. SUFFICES ASSUME NEW a \in 1..(n - 1), NEW b \in 1..(n - 1), tail[a] = tail[b]
                   PROVE  a = b
      OBVIOUS
    <3>2. a + 1 = b + 1
      BY <2>1, <2>2, <3>1
    <3> QED
      BY <1>1, <3>2
  <2>4. IsInjective(tail)
    BY <1>2, <2>3 DEF IsInjective
  <2>5. Head(seq) \notin ToSet(tail)
    BY <1>1, <1>2, <1>3, <2>1, <2>2 DEF ToSet
  <2> QED
    BY <2>4, <2>5
<1> QED
  BY <1>2, <1>4, <1>5 DEF tail

\* The empty sequence lists nothing.
LEMMA EmptyList == ToSet(<<>>) = {} /\ IsInjective(<<>>)
  BY DEF ToSet, IsInjective

-----------------------------------------------------------------------------
(* The invariant of the worklist *)

Walked == ComputeTiles(program) \cap (1..at)

Listing ==
  /\ lowered \cup ToSet(todo) \cup ToSet(deferred) = ComputeTiles(program)
  /\ lowered \cap (ToSet(todo) \cup ToSet(deferred)) = {}
  /\ ToSet(todo) \cap ToSet(deferred) = {}
  /\ IsInjective(todo) /\ IsInjective(deferred)

WorklistInvariant ==
  /\ program \in Programs
  /\ todo \in Seq(Nat) /\ deferred \in Seq(Nat)
  /\ phase = "analyze" => todo = <<>> /\ deferred = <<>> /\ lowered = {} /\ at = 0
  /\ phase = "collect" =>
       /\ deferred = <<>> /\ lowered = {} /\ at \in 0..Len(program.tiles)
       /\ ToSet(todo) = Walked /\ IsInjective(todo)
  /\ phase = "lower" => Listing
  /\ phase \in {"finish", "done"} => lowered = ComputeTiles(program)

\* The tiles of a program are numbered from 1.
LEMMA TilesAreNumbered ==
  ASSUME program \in Programs
  PROVE  /\ Len(program.tiles) \in Nat /\ DOMAIN program.tiles = 1..Len(program.tiles)
         /\ ComputeTiles(program) \subseteq 1..Len(program.tiles)
<1>1. program.tiles \in Seq({program.tiles[t] : t \in DOMAIN program.tiles})
  BY ProgramsAssumption DEF IsList
<1>2. Len(program.tiles) \in Nat /\ DOMAIN program.tiles = 1..Len(program.tiles)
  BY <1>1, LenProperties
<1> QED
  BY <1>2 DEF ComputeTiles

\* A step that goes on with the first tile, or only ends a phase as failed,
\* keeps the invariant.
LEMMA WorklistStays ==
  ASSUME WorklistInvariant, UNCHANGED <<program, todo, deferred, lowered>>,
         phase' = "failed" \/ (phase = "lower" /\ phase' = "lower")
  PROVE  WorklistInvariant'
BY DEF WorklistInvariant, Listing

\* Before the analysis there is no work.
LEMMA WorklistStarts == Init => WorklistInvariant
<1>1. <<>> \in Seq(Nat)
  BY EmptySeq
<1> QED
  BY <1>1 DEF Init, WorklistInvariant

\* The tiles are collected from none.
LEMMA AnalyzeKeepsWorklist == WorklistInvariant /\ Analyze => WorklistInvariant'
<1> SUFFICES ASSUME WorklistInvariant, Analyze
             PROVE  WorklistInvariant'
  OBVIOUS
<1>1. ToSet(todo') = {} /\ IsInjective(todo') /\ at' = 0
  BY EmptyList DEF WorklistInvariant, Analyze, worklist
<1>2. Len(program.tiles) \in Nat /\ 1..0 = {}
  BY TilesAreNumbered DEF WorklistInvariant
<1>3. Walked' = {}
  BY <1>1, <1>2 DEF Walked
<1> QED
  BY <1>1, <1>2, <1>3 DEF WorklistInvariant, Analyze, worklist

\* Each compute tile is listed when the walk comes to it.
LEMMA CollectKeepsWorklist == WorklistInvariant /\ Collect => WorklistInvariant'
<1> SUFFICES ASSUME WorklistInvariant, Collect
             PROVE  WorklistInvariant'
  OBVIOUS
<1>1. /\ todo \in Seq(Nat) /\ deferred = <<>> /\ lowered = {} /\ at \in Nat
      /\ ToSet(todo) = Walked /\ IsInjective(todo)
      /\ program \in Programs /\ Len(program.tiles) \in Nat
  BY TilesAreNumbered DEF WorklistInvariant, Collect
<1>2. /\ UNCHANGED <<program, phase, deferred, lowered>> /\ phase = "collect"
      /\ at' = at + 1 /\ at' \in Nat /\ at' <= Len(program.tiles)
  BY <1>1 DEF Collect
<1>3. 1..(at + 1) = (1..at) \cup {at + 1} /\ at + 1 \notin 1..at
  BY <1>1
<1>4. CASE at + 1 \in ComputeTiles(program)
  <2>1. todo' = Append(todo, at + 1)
    BY <1>4 DEF Collect, Listed
  <2>2. at + 1 \notin ToSet(todo)
    BY <1>1, <1>3 DEF Walked
  <2>3. /\ todo' \in Seq(Nat) /\ IsInjective(todo')
        /\ ToSet(todo') = ToSet(todo) \cup {at + 1}
    BY <1>1, <1>2, <2>1, <2>2, AppendLists, AppendProperties
  <2>4. Walked' = Walked \cup {at + 1}
    BY <1>2, <1>3, <1>4 DEF Walked
  <2> QED
    BY <1>1, <1>2, <2>3, <2>4 DEF WorklistInvariant
<1>5. CASE at + 1 \notin ComputeTiles(program)
  <2>1. todo' = todo
    BY <1>5 DEF Collect
  <2>2. Walked' = Walked
    BY <1>2, <1>3, <1>5 DEF Walked
  <2> QED
    BY <1>1, <1>2, <2>1, <2>2 DEF WorklistInvariant
<1> QED
  BY <1>4, <1>5

\* When all tiles have been walked, all compute tiles are listed.
LEMMA EndCollectionKeepsWorklist == WorklistInvariant /\ EndCollection => WorklistInvariant'
<1> SUFFICES ASSUME WorklistInvariant, EndCollection
             PROVE  WorklistInvariant'
  OBVIOUS
<1>1. ToSet(todo) = ComputeTiles(program) \cap (1..Len(program.tiles))
  BY DEF WorklistInvariant, EndCollection, Walked
<1>2. ToSet(todo) = ComputeTiles(program)
  BY <1>1, TilesAreNumbered DEF WorklistInvariant
<1>3. deferred = <<>> /\ lowered = {} /\ IsInjective(todo)
  BY DEF WorklistInvariant, EndCollection
<1>4. Listing
  BY <1>2, <1>3, EmptyList DEF Listing
<1> QED
  BY <1>4 DEF WorklistInvariant, Listing, EndCollection, worklist

\* A tile that is put off goes from one list to the other.
LEMMA DeferKeepsWorklist == WorklistInvariant /\ DeferTile => WorklistInvariant'
<1> SUFFICES ASSUME WorklistInvariant, DeferTile
             PROVE  WorklistInvariant'
  OBVIOUS
<1>1. /\ todo \in Seq(Nat) /\ deferred \in Seq(Nat) /\ todo # <<>> /\ Listing
      /\ program \in Programs
  BY DEF WorklistInvariant, DeferTile, HasSend
<1>2. /\ UNCHANGED <<program, phase, lowered>> /\ phase = "lower"
      /\ todo' = Tail(todo) /\ deferred' = Append(deferred, Head(todo))
  BY DEF DeferTile, HasSend, PutOff, Tile
<1>3. /\ Tail(todo) \in Seq(Nat) /\ Head(todo) \in Nat
      /\ ToSet(todo) = {Head(todo)} \cup ToSet(todo')
      /\ IsInjective(todo') /\ Head(todo) \notin ToSet(todo')
  BY <1>1, <1>2, HeadTailList DEF Listing
<1>4. Head(todo) \notin ToSet(deferred)
  BY <1>1, <1>3 DEF Listing
<1>5. /\ deferred' \in Seq(Nat) /\ IsInjective(deferred')
      /\ ToSet(deferred') = ToSet(deferred) \cup {Head(todo)}
  BY <1>1, <1>2, <1>3, <1>4, AppendLists, AppendProperties DEF Listing
<1>6. Listing'
  BY <1>1, <1>2, <1>3, <1>4, <1>5 DEF Listing
<1> QED
  BY <1>1, <1>2, <1>3, <1>5, <1>6 DEF WorklistInvariant

\* A tile that is erased is on neither list any more.
LEMMA FinishKeepsWorklist == WorklistInvariant /\ FinishTile => WorklistInvariant'
<1> SUFFICES ASSUME WorklistInvariant, FinishTile
             PROVE  WorklistInvariant'
  OBVIOUS
<1>1. /\ todo \in Seq(Nat) /\ deferred \in Seq(Nat) /\ todo # <<>> /\ Listing
      /\ program \in Programs
  BY DEF WorklistInvariant, FinishTile
<1>2. /\ UNCHANGED <<program, phase, deferred>> /\ phase = "lower"
      /\ todo' = Tail(todo) /\ lowered' = lowered \cup {Head(todo)}
  BY DEF FinishTile, Tile
<1>3. /\ Tail(todo) \in Seq(Nat)
      /\ ToSet(todo) = {Head(todo)} \cup ToSet(todo')
      /\ IsInjective(todo') /\ Head(todo) \notin ToSet(todo')
  BY <1>1, <1>2, HeadTailList DEF Listing
<1>4. Listing'
  BY <1>1, <1>2, <1>3 DEF Listing
<1> QED
  BY <1>1, <1>2, <1>3, <1>4 DEF WorklistInvariant

\* The next pass tries all tiles the last has put off.
LEMMA NextPassKeepsWorklist == WorklistInvariant /\ NextPass => WorklistInvariant'
<1> SUFFICES ASSUME WorklistInvariant, NextPass
             PROVE  WorklistInvariant'
  OBVIOUS
<1>1. todo = <<>> /\ Listing /\ deferred \in Seq(Nat) /\ program \in Programs
  BY DEF WorklistInvariant, NextPass
<1>2. /\ UNCHANGED <<program, phase, lowered>> /\ phase = "lower"
      /\ todo' = deferred /\ deferred' = <<>>
  BY DEF NextPass
<1>3. Listing'
  BY <1>1, <1>2, EmptyList DEF Listing
<1> QED
  BY <1>1, <1>2, <1>3, EmptySeq DEF WorklistInvariant

\* The worklist is left when it is empty: all tiles are lowered.
LEMMA EndKeepsWorklist == WorklistInvariant /\ EndLowering => WorklistInvariant'
<1> SUFFICES ASSUME WorklistInvariant, EndLowering
             PROVE  WorklistInvariant'
  OBVIOUS
<1>1. lowered = ComputeTiles(program)
  BY EmptyList DEF WorklistInvariant, EndLowering, Listing
<1> QED
  BY <1>1 DEF WorklistInvariant, EndLowering, worklist

\* Every step keeps the invariant of the worklist.
LEMMA StepsKeepWorklist == WorklistInvariant /\ [Next]_vars => WorklistInvariant'
<1> SUFFICES ASSUME WorklistInvariant, [Next]_vars
             PROVE  WorklistInvariant'
  OBVIOUS
<1>1. CASE Analyze
  BY <1>1, AnalyzeKeepsWorklist
<1>2. CASE RefuseProgram
  BY <1>2, WorklistStays DEF RefuseProgram, worklist
<1>3. CASE Collect
  BY <1>3, CollectKeepsWorklist
<1>4. CASE EndCollection
  BY <1>4, EndCollectionKeepsWorklist
<1>5. CASE BeginTile
  BY <1>5, WorklistStays DEF BeginTile, worklist
<1>6. CASE LowerSend
  BY <1>6, WorklistStays DEF LowerSend, HasSend, worklist
<1>7. CASE ForwardSend
  BY <1>7, WorklistStays DEF ForwardSend, HasSend, worklist
<1>8. CASE DeferTile
  BY <1>8, DeferKeepsWorklist
<1>9. CASE AbortTile
  BY <1>9, WorklistStays DEF AbortTile, worklist
<1>10. CASE FinishTile
  BY <1>10, FinishKeepsWorklist
<1>11. CASE NextPass
  BY <1>11, NextPassKeepsWorklist
<1>12. CASE RefuseDependencies
  BY <1>12, WorklistStays DEF RefuseDependencies, worklist
<1>13. CASE EndLowering
  BY <1>13, EndKeepsWorklist
<1>14. CASE FinishTransfers
  BY <1>14 DEF FinishTransfers, worklist, WorklistInvariant
<1>15. CASE UNCHANGED vars
  BY <1>15 DEF vars, WorklistInvariant, Listing, Walked
<1> QED
  BY <1>1, <1>2, <1>3, <1>4, <1>5, <1>6, <1>7, <1>8, <1>9, <1>10, <1>11, <1>12,
     <1>13, <1>14, <1>15 DEF Next

\* The worklist of lowerMapsProgramToD2M keeps its invariant in all programs.
THEOREM WorklistKeeps == Spec => []WorklistInvariant
BY WorklistStarts, StepsKeepWorklist, PTL DEF Spec

\* Whatever a program is and in whatever order its tiles stand: no compute tile
\* is lost, repeated or both lowered and kept by the passes over them.
THEOREM NoTileIsEverLost == Spec => []NoTileIsLost
<1>1. WorklistInvariant => NoTileIsLost
  BY DEF WorklistInvariant, NoTileIsLost, Listing
<1> QED
  BY <1>1, WorklistKeeps, PTL

-----------------------------------------------------------------------------
(* The sends of a tile are all lowered before it is erased *)

IsSentBefore(k) ==
  \A j \in DOMAIN Body : IsSend(j) /\ j < k => Body[j].name \in DOMAIN values

\* The sends of the first tile are lowered up to its next one; a tile is only
\* begun when the last is through or put off.
SendsInvariant ==
  /\ ErasedTilesHaveSent
  /\ phase = "lower" => at \in Nat
  /\ phase = "lower" /\ todo = <<>> => at = 0
  /\ phase = "lower" /\ todo # <<>> => IsSentBefore(at)

\* An entry put in front of a table adds its key.
LEMMA TableGrows ==
  ASSUME NEW c, NEW v, NEW table
  PROVE  DOMAIN Put(c, v, table) = {c} \cup DOMAIN table
BY DEF Put

\* The first tile of the worklist is one of the program, its body a sequence.
LEMMA BodyIsNumbered ==
  ASSUME WorklistInvariant, phase = "lower", todo # <<>>
  PROVE  /\ Tile \in ComputeTiles(program) /\ Tile \in DOMAIN program.tiles
         /\ \E n \in Nat : DOMAIN Body = 1..n
<1>1. Head(todo) \in ToSet(todo) /\ Listing /\ program \in Programs
  BY HeadTailList DEF WorklistInvariant
<1>2. Tile \in ComputeTiles(program) /\ Tile \in DOMAIN program.tiles
  BY <1>1, TilesAreNumbered DEF Listing, Tile
<1>3. Body \in Seq({Body[i] : i \in DOMAIN Body})
  BY <1>1, <1>2, ProgramsAssumption DEF IsBody, IsList, Body
<1> QED
  BY <1>2, <1>3, LenProperties

\* A step that lowers the next send, and gives its channel a value, keeps the
\* invariant.
LEMMA SendKeepsSends ==
  ASSUME WorklistInvariant, SendsInvariant, HasSend,
         UNCHANGED <<program, phase, todo, lowered>>,
         DOMAIN values' = {Channel} \cup DOMAIN values, at' = NextSend + 1
  PROVE  SendsInvariant'
<1>1. phase = "lower" /\ todo # <<>> /\ at \in Nat /\ IsSentBefore(at)
  BY DEF HasSend, SendsInvariant
<1>2. PICK n \in Nat : DOMAIN Body = 1..n
  BY <1>1, BodyIsNumbered
<1>3. IsNextSend(NextSend) /\ NextSend \in 1..n
  BY <1>2 DEF HasSend, NextSend
<1>4. at' \in Nat
  BY <1>3
<1>5. ASSUME NEW j \in DOMAIN Body, IsSend(j), j < NextSend + 1
      PROVE  Body[j].name \in DOMAIN values'
  <2>1. CASE j < at
    BY <1>1, <1>5, <2>1 DEF IsSentBefore
  <2>2. CASE j >= at
    <3>1. NextSend <= j
      BY <1>3, <1>5, <2>2 DEF IsNextSend
    <3>2. j = NextSend
      BY <1>2, <1>3, <1>5, <3>1
    <3> QED
      BY <3>2 DEF Channel, Send
  <2> QED
    BY <1>1, <1>2, <1>5, <2>1, <2>2
<1>6. Body' = Body /\ \A j : IsSend(j)' <=> IsSend(j)
  BY DEF Body, Tile, IsSend
<1>7. IsSentBefore(at)'
  BY <1>5, <1>6 DEF IsSentBefore
<1>8. ErasedTilesHaveSent'
  BY DEF SendsInvariant, ErasedTilesHaveSent
<1> QED
  BY <1>1, <1>4, <1>7, <1>8 DEF SendsInvariant

\* A tile that has not begun has nothing to have sent.
LEMMA NothingBeforeFirst ==
  WorklistInvariant /\ phase = "lower" /\ todo # <<>> => IsSentBefore(0) /\ IsSentBefore(1)
<1> SUFFICES ASSUME WorklistInvariant, phase = "lower", todo # <<>>
             PROVE  IsSentBefore(0) /\ IsSentBefore(1)
  OBVIOUS
<1>1. PICK n \in Nat : DOMAIN Body = 1..n
  BY BodyIsNumbered
<1> QED
  BY <1>1 DEF IsSentBefore

\* A step that goes to the start of a tile, and takes no value away, keeps the
\* invariant.
LEMMA StartKeepsSends ==
  ASSUME WorklistInvariant', SendsInvariant, UNCHANGED <<program, lowered>>,
         DOMAIN values' = DOMAIN values, at' = 0
  PROVE  SendsInvariant'
<1>1. ErasedTilesHaveSent'
  BY DEF SendsInvariant, ErasedTilesHaveSent
<1>2. (phase = "lower" /\ todo # <<>> => IsSentBefore(0))'
  BY NothingBeforeFirst, PTL
<1> QED
  BY <1>1, <1>2 DEF SendsInvariant

\* A step that leaves the first tile and the values alone, or leaves the phase of
\* lowering, keeps the invariant.
LEMMA StaysKeepsSends ==
  ASSUME SendsInvariant, UNCHANGED <<program, lowered, values>>,
         phase' # "lower" \/ UNCHANGED <<phase, todo, at>>
  PROVE  SendsInvariant'
<1>1. ErasedTilesHaveSent'
  BY DEF SendsInvariant, ErasedTilesHaveSent
<1>2. CASE phase' # "lower"
  BY <1>1, <1>2 DEF SendsInvariant
<1>3. CASE UNCHANGED <<phase, todo, at>>
  BY <1>1, <1>3 DEF SendsInvariant, IsSentBefore, Body, Tile, IsSend
<1> QED
  BY <1>2, <1>3

\* Before the lowering nothing is erased.
LEMMA SendsStart == Init => SendsInvariant
BY DEF Init, SendsInvariant, ErasedTilesHaveSent

\* A tile that begins has still all its sends before it.
LEMMA BeginKeepsSends ==
  WorklistInvariant' /\ SendsInvariant /\ BeginTile => SendsInvariant'
<1> SUFFICES ASSUME WorklistInvariant', SendsInvariant, BeginTile
             PROVE  SendsInvariant'
  OBVIOUS
<1>1. /\ UNCHANGED <<program, phase, todo, lowered>> /\ at' = 1
      /\ phase = "lower" /\ todo # <<>>
  BY DEF BeginTile, worklist
<1>2. DOMAIN values' = DOMAIN values
  <2>1. CASE Awaited = {}
    BY <2>1 DEF BeginTile
  <2>2. CASE Awaited # {}
    <3>1. values' = [values EXCEPT ![FirstAwaited] =
                       [values[FirstAwaited] EXCEPT !.reads = {Fresh(1)}]]
      BY <2>2, Zenon DEF BeginTile
    <3> QED
      BY <3>1
  <2> QED
    BY <2>1, <2>2
<1>3. ErasedTilesHaveSent'
  BY <1>1, <1>2 DEF SendsInvariant, ErasedTilesHaveSent
<1>4. (phase = "lower" /\ todo # <<>> => IsSentBefore(1))'
  BY NothingBeforeFirst, PTL
<1> QED
  BY <1>1, <1>3, <1>4 DEF SendsInvariant

\* A tile is erased when its last send has been lowered.
LEMMA FinishKeepsSends ==
  WorklistInvariant /\ WorklistInvariant' /\ SendsInvariant /\ FinishTile => SendsInvariant'
<1> SUFFICES ASSUME WorklistInvariant, WorklistInvariant', SendsInvariant, FinishTile
             PROVE  SendsInvariant'
  OBVIOUS
<1>1. /\ phase = "lower" /\ todo # <<>> /\ IsThrough /\ IsSentBefore(at)
      /\ UNCHANGED <<program, phase, values>> /\ at' = 0
      /\ lowered' = lowered \cup {Tile}
  BY DEF FinishTile, SendsInvariant, emission
<1>2. \A k \in DOMAIN Body : Body[k].kind = "send" => Body[k].name \in DOMAIN values
  BY <1>1 DEF IsThrough, IsSentBefore, IsSend
<1>3. ErasedTilesHaveSent'
  <2>1. SUFFICES ASSUME NEW t \in lowered',
                        NEW k \in DOMAIN program.tiles[t].body,
                        program.tiles[t].body[k].kind = "send"
                 PROVE  program.tiles[t].body[k].name \in DOMAIN values
    BY <1>1 DEF ErasedTilesHaveSent
  <2>2. CASE t \in lowered
    BY <2>1, <2>2 DEF SendsInvariant, ErasedTilesHaveSent
  <2>3. CASE t = Tile
    BY <1>2, <2>1, <2>3 DEF Body
  <2> QED
    BY <1>1, <2>2, <2>3
<1>4. (phase = "lower" /\ todo # <<>> => IsSentBefore(0))'
  BY NothingBeforeFirst, PTL
<1> QED
  BY <1>1, <1>3, <1>4 DEF SendsInvariant

\* Every step keeps the invariant of the sends.
LEMMA StepsKeepSends ==
  WorklistInvariant /\ WorklistInvariant' /\ SendsInvariant /\ [Next]_vars => SendsInvariant'
<1> SUFFICES ASSUME WorklistInvariant, WorklistInvariant', SendsInvariant, [Next]_vars
             PROVE  SendsInvariant'
  OBVIOUS
<1>1. CASE Analyze
  BY <1>1, StaysKeepsSends DEF Analyze, worklist, emission
<1>2. CASE RefuseProgram
  BY <1>2, StaysKeepsSends DEF RefuseProgram, worklist, emission
<1>3. CASE Collect
  BY <1>3, StaysKeepsSends DEF Collect, emission
<1>4. CASE EndCollection
  BY <1>4, StartKeepsSends DEF EndCollection, worklist, emission
<1>5. CASE BeginTile
  BY <1>5, BeginKeepsSends
<1>6. CASE LowerSend
  <2>1. /\ HasSend /\ UNCHANGED <<program, phase, todo, lowered>> /\ at' = NextSend + 1
        /\ \E v : values' = Put(Channel, v, values)
    BY <1>6, Zenon DEF LowerSend, worklist
  <2>2. DOMAIN values' = {Channel} \cup DOMAIN values
    BY <2>1, TableGrows
  <2> QED
    BY <2>1, <2>2, SendKeepsSends
<1>7. CASE ForwardSend
  <2>1. /\ HasSend /\ UNCHANGED <<program, phase, todo, lowered>> /\ at' = NextSend + 1
        /\ \E v : values' = Put(Channel, v, values)
    BY <1>7, Zenon DEF ForwardSend, worklist
  <2>2. DOMAIN values' = {Channel} \cup DOMAIN values
    BY <2>1, TableGrows
  <2> QED
    BY <2>1, <2>2, SendKeepsSends
<1>8. CASE DeferTile
  BY <1>8, StartKeepsSends DEF DeferTile
<1>9. CASE AbortTile
  BY <1>9, StaysKeepsSends DEF AbortTile, worklist, emission
<1>10. CASE FinishTile
  BY <1>10, FinishKeepsSends
<1>11. CASE NextPass
  <2>1. at' = 0
    BY <1>11 DEF NextPass, SendsInvariant
  <2> QED
    BY <1>11, <2>1, StartKeepsSends DEF NextPass, emission
<1>12. CASE RefuseDependencies
  BY <1>12, StaysKeepsSends DEF RefuseDependencies, worklist, emission
<1>13. CASE EndLowering
  BY <1>13, StaysKeepsSends DEF EndLowering, worklist, emission
<1>14. CASE FinishTransfers
  <2>1. phase' # "lower"
    BY <1>14 DEF FinishTransfers
  <2> QED
    BY <1>14, <2>1, StaysKeepsSends DEF FinishTransfers, worklist, emission
<1>15. CASE UNCHANGED vars
  BY <1>15, StaysKeepsSends DEF vars
<1> QED
  BY <1>1, <1>2, <1>3, <1>4, <1>5, <1>6, <1>7, <1>8, <1>9, <1>10, <1>11, <1>12,
     <1>13, <1>14, <1>15 DEF Next

\* Whatever a program is: when a tile is erased, all channels it sends have a
\* value for their receivers, also when the tile was put off half way.
THEOREM ErasedTilesHaveAlwaysSent == Spec => []ErasedTilesHaveSent
<1>1. SendsInvariant => ErasedTilesHaveSent
  BY DEF SendsInvariant
<1> QED
  BY <1>1, SendsStart, StepsKeepSends, WorklistKeeps, PTL DEF Spec

-----------------------------------------------------------------------------
(* The senders of channels *)

\* What is said of a program does not change with it.
LEMMA ProgramStays ==
  ASSUME program' = program
  PROVE  /\ IsWellFormed' <=> IsWellFormed
         /\ \A c : /\ Computes(c)' <=> Computes(c)
                   /\ CutsOutErased(c)' <=> CutsOutErased(c)
                   /\ Cuts(c)' <=> Cuts(c)
                   /\ IsSharded(c)' <=> IsSharded(c)
BY DEF IsWellFormed, Computes, CutsOutErased, Cuts, IsSharded, RootKind, Asked, IsSlice,
       SentArg, BodyOf

\* A function takes finitely many arguments to finitely many values.
LEMMA FiniteImage ==
  ASSUME NEW S, IsFiniteSet(S), NEW f, DOMAIN f = S
  PROVE  IsFiniteSet({f[x] : x \in S})
<1> DEFINE T == {f[x] : x \in S}
           g == [x \in S |-> f[x]]
<1>1. g \in Surjection(S, T)
  BY DEF Surjection
<1> HIDE DEF g, T
<1>2. IsFiniteSet(T)
  BY <1>1, FS_Surjection
<1> QED
  BY <1>2 DEF T

\* Where a function takes finitely many arguments to as many values, it takes
\* different ones to different ones.
LEMMA SameNumber ==
  ASSUME NEW S, IsFiniteSet(S), NEW f, DOMAIN f = S,
         Cardinality({f[x] : x \in S}) = Cardinality(S)
  PROVE  \A x, y \in S : f[x] = f[y] => x = y
<1> DEFINE T == {f[x] : x \in S}
           g == [x \in S |-> f[x]]
<1>1. g \in Surjection(S, T)
  BY DEF Surjection
<1>2. g \in Injection(S, T)
  <2> HIDE DEF g
  <2>1. Cardinality(T) = Cardinality(S)
    OBVIOUS
  <2> HIDE DEF T
  <2> QED
    BY <1>1, <2>1, FS_Surjection
<1>3. \A x, y \in S : g[x] = g[y] => x = y
  <2> HIDE DEF g, T
  <2> QED
    BY <1>2 DEF Injection, IsInjective
<1> QED
  BY <1>3

\* The sends of tiles are finitely many.
LEMMA SendsAreFinite ==
  ASSUME program \in Programs
  PROVE  IsFiniteSet(TileSends(program))
<1> DEFINE Places(t) == {j \in DOMAIN program.tiles[t].body : program.tiles[t].body[j].kind = "send"}
           Of(t) == {[tile |-> t, op |-> i] : i \in Places(t)}
<1>1. ASSUME NEW t \in DOMAIN program.tiles
      PROVE  IsFiniteSet(Of(t))
  <2>1. PICK n \in Nat : DOMAIN program.tiles[t].body = 1..n
    <3>1. IsBody(program.tiles[t].body)
      BY ProgramsAssumption
    <3> QED
      BY <3>1, BodyPlaces
  <2>2. IsFiniteSet(1..n)
    BY FS_Interval
  <2>3. IsFiniteSet(Places(t))
    BY <2>1, <2>2, FS_Subset
  <2> DEFINE f == [i \in Places(t) |-> [tile |-> t, op |-> i]]
  <2>4. Of(t) = {f[i] : i \in Places(t)} /\ DOMAIN f = Places(t)
    BY Zenon
  <2> HIDE DEF Places, Of, f
  <2> QED
    BY <2>3, <2>4, FiniteImage
<1>2. IsFiniteSet(DOMAIN program.tiles)
  BY TilesAreNumbered, FS_Interval
<1>3. TileSends(program) = UNION {Of(t) : t \in DOMAIN program.tiles}
  BY DEF TileSends
<1> HIDE DEF Of
<1>4. IsFiniteSet({Of(t) : t \in DOMAIN program.tiles})
  <2> DEFINE f == [t \in DOMAIN program.tiles |-> Of(t)]
  <2>1. {Of(t) : t \in DOMAIN program.tiles} = {f[t] : t \in DOMAIN program.tiles}
        /\ DOMAIN f = DOMAIN program.tiles
    BY Zenon
  <2> HIDE DEF f
  <2> QED
    BY <1>2, <2>1, FiniteImage
<1> QED
  BY <1>1, <1>3, <1>4, FS_UNION

\* In a program that has been accepted by the analysis, the sender of a channel is
\* the only send of that name.
LEMMA SendersAreUnique ==
  ASSUME program \in Programs, IsWellFormed
  PROVE  /\ \A s \in TileSends(program) : /\ ChannelAt(program, s) \in TileChannels(program)
                                           /\ SenderOf(program, ChannelAt(program, s)) = s
         /\ \A c \in TileChannels(program) : /\ SenderOf(program, c) \in TileSends(program)
                                              /\ ChannelAt(program, SenderOf(program, c)) = c
         /\ HostChannels(program) \cap TileChannels(program) = {}
<1> DEFINE f == [s \in TileSends(program) |-> ChannelAt(program, s)]
<1>1. /\ Cardinality(TileChannels(program)) = Cardinality(TileSends(program))
      /\ HostChannels(program) \cap TileChannels(program) = {}
  BY DEF IsWellFormed, ChannelsAreMatched
<1>2. TileChannels(program) = {f[s] : s \in TileSends(program)} /\ DOMAIN f = TileSends(program)
  BY DEF TileChannels
<1>3. \A s, r \in TileSends(program) : f[s] = f[r] => s = r
  <2> HIDE DEF f
  <2> QED
    BY <1>1, <1>2, SendsAreFinite, SameNumber
<1>4. \A s, r \in TileSends(program) : ChannelAt(program, s) = ChannelAt(program, r) => s = r
  BY <1>3
<1>5. ASSUME NEW c \in TileChannels(program)
      PROVE  SenderOf(program, c) \in TileSends(program) /\ ChannelAt(program, SenderOf(program, c)) = c
  BY DEF TileChannels, SenderOf
<1>6. \A s \in TileSends(program) : ChannelAt(program, s) \in TileChannels(program)
  BY DEF TileChannels
<1> QED
  BY <1>1, <1>4, <1>5, <1>6

\* The send of a tile at one of its places.
LEMMA SendAt ==
  ASSUME program \in Programs, NEW t \in DOMAIN program.tiles,
         NEW k \in DOMAIN program.tiles[t].body, program.tiles[t].body[k].kind = "send"
  PROVE  LET s == [tile |-> t, op |-> k]
         IN /\ s \in TileSends(program) /\ OpAt(program, s) = program.tiles[t].body[k]
            /\ ChannelAt(program, s) = program.tiles[t].body[k].name
            /\ s.tile = t /\ s.op = k
<1> DEFINE s == [tile |-> t, op |-> k]
<1>1. s.tile = t /\ s.op = k
  OBVIOUS
<1>2. s \in TileSends(program)
  BY DEF TileSends
<1> HIDE DEF s
<1> QED
  BY <1>1, <1>2 DEF OpAt, ChannelAt, s

\* What is known of the place of a send.
LEMMA SendPlaces ==
  ASSUME program \in Programs, NEW s \in TileSends(program)
  PROVE  /\ s.tile \in DOMAIN program.tiles /\ s.op \in DOMAIN program.tiles[s.tile].body
         /\ OpAt(program, s).kind = "send" /\ s = [tile |-> s.tile, op |-> s.op]
BY DEF TileSends, OpAt

\* The bodies of a program are bodies, and their names apart.
LEMMA BodiesAreBodies ==
  ASSUME program \in Programs, NEW t \in DOMAIN program.tiles
  PROVE  /\ IsBody(program.tiles[t].body)
         /\ IsWellFormed => NamesAreApart(program.tiles[t].body)
BY ProgramsAssumption DEF NamesAreApart, IsWellFormed, ChannelsAreMatched

\* The next send of the first tile, and what is said of its channel.
LEMMA NextSendIsSender ==
  ASSUME WorklistInvariant, IsWellFormed, HasSend
  PROVE  /\ Tile \in ComputeTiles(program) /\ Tile \in DOMAIN program.tiles /\ IsBody(Body)
         /\ NamesAreApart(Body)
         /\ NextSend \in DOMAIN Body /\ Body[NextSend].kind = "send" /\ IsNextSend(NextSend)
         /\ Channel \in TileChannels(program)
         /\ SenderOf(program, Channel) = [tile |-> Tile, op |-> NextSend]
         /\ SenderOf(program, Channel).tile = Tile /\ SenderOf(program, Channel).op = NextSend
         /\ OpAt(program, SenderOf(program, Channel)) = Send
         /\ BodyOf(Channel) = Body
         /\ Asked(Channel) = <<SentValue(Body, NextSend), SentPart(Body, NextSend)>>
         /\ RootKind(Channel) = SentKind(Body, NextSend)
         /\ Computes(Channel) <=> IsComputed
         /\ CutsOutErased(Channel) <=>
              IsComputed /\ TakesInside(Body, SentValue(Body, NextSend), SentPart(Body, NextSend))
         /\ Cuts(Channel) <=>
              IsComputed /\ LosesPart(Body, SentValue(Body, NextSend), SentPart(Body, NextSend))
         /\ Sent(program, Channel) = Leaves(Body)[<<Send.args[1], Whole>>]
<1>1. phase = "lower" /\ todo # <<>>
  BY DEF HasSend
<1>2. /\ program \in Programs
      /\ Tile \in ComputeTiles(program) /\ Tile \in DOMAIN program.tiles
      /\ \E n \in Nat : DOMAIN Body = 1..n
  BY <1>1, BodyIsNumbered DEF WorklistInvariant
<1>3. IsBody(Body) /\ NamesAreApart(Body)
  BY <1>2, BodiesAreBodies DEF Body
<1>4. IsNextSend(NextSend) /\ NextSend \in DOMAIN Body /\ Body[NextSend].kind = "send"
  BY <1>2 DEF HasSend, NextSend, IsNextSend, IsSend
<1> DEFINE s == [tile |-> Tile, op |-> NextSend]
<1>5. /\ s \in TileSends(program) /\ OpAt(program, s) = Send /\ ChannelAt(program, s) = Channel
      /\ s.tile = Tile /\ s.op = NextSend
  <2>1. /\ s \in TileSends(program) /\ OpAt(program, s) = program.tiles[Tile].body[NextSend]
        /\ ChannelAt(program, s) = program.tiles[Tile].body[NextSend].name
        /\ s.tile = Tile /\ s.op = NextSend
    BY <1>2, <1>4, SendAt, Zenon DEF Body
  <2> QED
    BY <2>1 DEF Send, Channel, Body
<1>6. Channel \in TileChannels(program) /\ SenderOf(program, Channel) = s
  BY <1>2, <1>5, SendersAreUnique
<1>7. BodyOf(Channel) = Body /\ SentArg(Channel) = Send.args[1]
  BY <1>5, <1>6 DEF BodyOf, SentArg, Body
<1>8. Asked(Channel) = <<SentValue(Body, NextSend), SentPart(Body, NextSend)>>
  BY <1>7 DEF Asked, IsSlice, SentValue, SentPart, SendsSlice, Send
<1>9. Asked(Channel)[1] = SentValue(Body, NextSend) /\ Asked(Channel)[2] = SentPart(Body, NextSend)
  BY <1>8
<1>10. RootKind(Channel) = SentKind(Body, NextSend)
  BY <1>7, <1>9 DEF RootKind, SentKind
<1>11. Computes(Channel) <=> IsComputed
  BY <1>10 DEF Computes, IsComputed
<1>12. Sent(program, Channel) = Leaves(Body)[<<Send.args[1], Whole>>]
  BY <1>5, <1>6 DEF Sent, Body
<1> HIDE DEF s
<1>13. /\ CutsOutErased(Channel) <=>
            IsComputed /\ TakesInside(Body, SentValue(Body, NextSend), SentPart(Body, NextSend))
       /\ Cuts(Channel) <=>
            IsComputed /\ LosesPart(Body, SentValue(Body, NextSend), SentPart(Body, NextSend))
  BY <1>7, <1>9, <1>11 DEF CutsOutErased, Cuts
<1>14. SenderOf(program, Channel).tile = Tile /\ SenderOf(program, Channel).op = NextSend
       /\ OpAt(program, SenderOf(program, Channel)) = Send
  BY <1>5, <1>6
<1> QED
  BY <1>2, <1>3, <1>4, <1>6, <1>7, <1>8, <1>10, <1>11, <1>12, <1>13, <1>14 DEF s

-----------------------------------------------------------------------------
(* The tables of channels *)

\* After the analysis the program is well formed; the channels with values are
\* channels of tiles, each with its list of pieces, and those of them that are passed
\* on have also a logical value.
TablesInvariant ==
  /\ phase \notin {"analyze", "failed"} => IsWellFormed
  /\ DOMAIN values = DOMAIN lists /\ DOMAIN values \subseteq TileChannels(program)
  /\ DOMAIN logical = {c \in DOMAIN values : ~Computes(c)}
  /\ \A c \in DOMAIN semaphores : IsTileToTile(program, c)

\* A step that adds no channel to a table keeps the invariant.
LEMMA StaysKeepsTables ==
  ASSUME TablesInvariant, program' = program, UNCHANGED <<lists, logical>>,
         DOMAIN values' = DOMAIN values,
         \A c \in DOMAIN semaphores' : IsTileToTile(program, c),
         phase' \in {"analyze", "failed"} \/ phase \notin {"analyze", "failed"}
  PROVE  TablesInvariant'
BY ProgramStays DEF TablesInvariant

LEMMA TablesStart == Init => TablesInvariant
<1> SUFFICES ASSUME Init
             PROVE  TablesInvariant
  OBVIOUS
<1>1. DOMAIN values = {} /\ DOMAIN lists = {} /\ DOMAIN logical = {} /\ DOMAIN semaphores = {}
  BY DEF Init
<1>2. phase = "analyze"
  BY DEF Init
<1> QED
  BY <1>1, <1>2 DEF TablesInvariant

\* A wait gives one of the values a new place.
LEMMA WaitKeepsChannels ==
  ASSUME BeginTile
  PROVE  DOMAIN values' = DOMAIN values
<1>1. CASE Awaited = {}
  BY <1>1 DEF BeginTile
<1>2. CASE Awaited # {}
  <2>1. values' = [values EXCEPT ![FirstAwaited] =
                     [values[FirstAwaited] EXCEPT !.reads = {Fresh(1)}]]
    BY <1>2, Zenon DEF BeginTile
  <2> QED
    BY <2>1
<1> QED
  BY <1>1, <1>2

\* A semaphore is made for the channel that is sent, if it is one between tiles.
LEMMA SemaphoreAdded ==
  ASSUME NEW k, \A c \in DOMAIN semaphores : IsTileToTile(program, c)
  PROVE  \A c \in DOMAIN SemaphoreAt(k) : IsTileToTile(program, c)
<1>1. CASE NewSemaphore = <<>>
  BY <1>1 DEF SemaphoreAt
<1>2. CASE NewSemaphore # <<>>
  <2>1. DOMAIN SemaphoreAt(k) = {Channel} \cup DOMAIN semaphores
    BY <1>2, TableGrows DEF SemaphoreAt
  <2>2. IsTileToTile(program, Channel)
    BY <1>2 DEF NewSemaphore
  <2> QED
    BY <2>1, <2>2
<1> QED
  BY <1>1, <1>2

\* What a send does to the tables.
LEMMA SendGrowsTables ==
  ASSUME LowerSend \/ ForwardSend
  PROVE  /\ HasSend /\ IsPlaced /\ ArePiecesLowered
         /\ UNCHANGED <<program, phase, todo, deferred, lowered, progress>> /\ at' = NextSend + 1
         /\ DOMAIN values' = {Channel} \cup DOMAIN values
         /\ DOMAIN lists' = {Channel} \cup DOMAIN lists
         /\ DOMAIN logical' = IF IsComputed THEN DOMAIN logical ELSE {Channel} \cup DOMAIN logical
         /\ \E k : semaphores' = SemaphoreAt(k)
<1>1. CASE LowerSend
  <2>1. /\ HasSend /\ IsPlaced /\ ArePiecesLowered /\ IsComputed
        /\ UNCHANGED <<program, phase, worklist, logical>> /\ at' = NextSend + 1
        /\ \E v : values' = Put(Channel, v, values)
        /\ \E v : lists' = Put(Channel, v, lists)
        /\ semaphores' = SemaphoreAt(1)
    BY <1>1, Zenon DEF LowerSend, WithSemaphore
  <2>2. DOMAIN values' = {Channel} \cup DOMAIN values
    BY <2>1, TableGrows
  <2>3. DOMAIN lists' = {Channel} \cup DOMAIN lists
    BY <2>1, TableGrows
  <2> QED
    BY <2>1, <2>2, <2>3 DEF worklist
<1>2. CASE ForwardSend
  <2>1. /\ HasSend /\ IsPlaced /\ ArePiecesLowered /\ ~IsComputed
        /\ UNCHANGED <<program, phase, worklist>> /\ at' = NextSend + 1
        /\ \E v : values' = Put(Channel, v, values)
        /\ \E v : lists' = Put(Channel, v, lists)
        /\ \E v : logical' = Put(Channel, v, logical)
        /\ \E k : semaphores' = SemaphoreAt(k)
    BY <1>2, Zenon DEF ForwardSend
  <2>2. DOMAIN values' = {Channel} \cup DOMAIN values
    BY <2>1, TableGrows
  <2>3. DOMAIN lists' = {Channel} \cup DOMAIN lists
    BY <2>1, TableGrows
  <2>4. DOMAIN logical' = {Channel} \cup DOMAIN logical
    BY <2>1, TableGrows
  <2> QED
    BY <2>1, <2>2, <2>3, <2>4 DEF worklist
<1> QED
  BY <1>1, <1>2

\* A send adds its channel to the tables.
LEMMA SendKeepsTables ==
  WorklistInvariant /\ TablesInvariant /\ (LowerSend \/ ForwardSend) => TablesInvariant'
<1> SUFFICES ASSUME WorklistInvariant, TablesInvariant, LowerSend \/ ForwardSend
             PROVE  TablesInvariant'
  OBVIOUS
<1>1. /\ HasSend /\ UNCHANGED <<program, phase>>
      /\ DOMAIN values' = {Channel} \cup DOMAIN values
      /\ DOMAIN lists' = {Channel} \cup DOMAIN lists
      /\ DOMAIN logical' = IF IsComputed THEN DOMAIN logical ELSE {Channel} \cup DOMAIN logical
      /\ \E k : semaphores' = SemaphoreAt(k)
  BY SendGrowsTables
<1>2. phase = "lower" /\ IsWellFormed
  BY <1>1 DEF HasSend, TablesInvariant
<1>3. Channel \in TileChannels(program) /\ (Computes(Channel) <=> IsComputed)
  BY <1>1, <1>2, NextSendIsSender
<1>4. \A c \in DOMAIN semaphores' : IsTileToTile(program, c)
  BY <1>1, SemaphoreAdded DEF TablesInvariant
<1>5. DOMAIN logical' = {c \in DOMAIN values' : ~Computes(c)}
  BY <1>1, <1>3 DEF TablesInvariant
<1> QED
  BY <1>1, <1>2, <1>3, <1>4, <1>5, ProgramStays DEF TablesInvariant

\* Every step keeps the invariant of the tables.
LEMMA StepsKeepTables == WorklistInvariant /\ TablesInvariant /\ [Next]_vars => TablesInvariant'
<1> SUFFICES ASSUME WorklistInvariant, TablesInvariant, [Next]_vars
             PROVE  TablesInvariant'
  OBVIOUS
<1>1. CASE Analyze
  BY <1>1, ProgramStays DEF Analyze, emission, TablesInvariant
<1>2. CASE RefuseProgram
  BY <1>2, StaysKeepsTables DEF RefuseProgram, emission, TablesInvariant
<1>3. CASE Collect
  BY <1>3, StaysKeepsTables DEF Collect, emission, TablesInvariant
<1>4. CASE EndCollection
  BY <1>4, StaysKeepsTables DEF EndCollection, emission, TablesInvariant
<1>5. CASE BeginTile
  BY <1>5, StaysKeepsTables, WaitKeepsChannels DEF BeginTile, TablesInvariant
<1>6. CASE LowerSend \/ ForwardSend
  BY <1>6, SendKeepsTables
<1>7. CASE DeferTile
  <2>1. UNCHANGED <<program, phase, values, lists, logical>> /\ phase = "lower"
        /\ semaphores' \in {semaphores, SemaphoreAt(1)}
    BY <1>7 DEF DeferTile, HasSend, WithSemaphore
  <2>2. \A c \in DOMAIN semaphores' : IsTileToTile(program, c)
    BY <2>1, SemaphoreAdded DEF TablesInvariant
  <2> QED
    BY <2>1, <2>2, StaysKeepsTables
<1>8. CASE AbortTile
  BY <1>8, StaysKeepsTables DEF AbortTile, emission, TablesInvariant
<1>9. CASE FinishTile
  BY <1>9, StaysKeepsTables DEF FinishTile, emission, TablesInvariant
<1>10. CASE NextPass
  BY <1>10, StaysKeepsTables DEF NextPass, emission, TablesInvariant
<1>11. CASE RefuseDependencies
  BY <1>11, StaysKeepsTables DEF RefuseDependencies, emission, TablesInvariant
<1>12. CASE EndLowering
  BY <1>12, StaysKeepsTables DEF EndLowering, emission, TablesInvariant
<1>13. CASE FinishTransfers
  BY <1>13, StaysKeepsTables DEF FinishTransfers, emission, TablesInvariant
<1>14. CASE UNCHANGED vars
  <2>1. UNCHANGED <<program, phase, values, lists, logical, semaphores>>
    BY <1>14 DEF vars
  <2> QED
    BY <2>1, ProgramStays DEF TablesInvariant
<1> QED
  BY <1>1, <1>2, <1>3, <1>4, <1>5, <1>6, <1>7, <1>8, <1>9, <1>10, <1>11, <1>12,
     <1>13, <1>14 DEF Next


THEOREM TablesKeep == Spec => []TablesInvariant
BY WorklistKeeps, TablesStart, StepsKeepTables, PTL DEF Spec

-----------------------------------------------------------------------------
(* Lowering in dependency order *)

\* A send whose pieces are lowered is made of channels that have a value, unless it
\* is cut out of a value computed inside.
LEMMA LoweredSendHasInputs ==
  ASSUME WorklistInvariant, TablesInvariant, HasSend, ArePiecesLowered
  PROVE  ~CutsOutErased(Channel) => Reads(program, Channel) \subseteq DOMAIN values
<1>1. IsWellFormed
  BY DEF HasSend, TablesInvariant
<1>2. /\ IsBody(Body) /\ NamesAreApart(Body)
      /\ NextSend \in DOMAIN Body /\ Body[NextSend].kind = "send"
      /\ CutsOutErased(Channel) <=>
           IsComputed /\ TakesInside(Body, SentValue(Body, NextSend), SentPart(Body, NextSend))
      /\ Sent(program, Channel) = Leaves(Body)[<<Send.args[1], Whole>>]
  BY <1>1, NextSendIsSender
<1>3. DOMAIN logical \subseteq DOMAIN values
  BY DEF TablesInvariant
<1>4. PiecesMean(Body, NextSend, values, logical)
  BY <1>2, <1>3, PiecesAreMeant
<1>5. ~CutsOutErased(Channel) => HaveValues(Sent(program, Channel), values)
  BY <1>2, <1>4 DEF PiecesMean, ArePiecesLowered, Pieces, IsComputed, Send
<1> QED
  BY <1>5 DEF HaveValues, Reads

\* The state as DependencyOrder sees it.
Needs == [c \in TileChannels(program) |->
            IF CutsOutErased(c) THEN {} ELSE Reads(program, c)]
Origin == [c \in TileChannels(program) |-> SenderOf(program, c).tile]
Verdict == CASE phase = "done" -> "accepted" [] phase = "failed" -> "refused" [] OTHER -> "open"

LEMMA VerdictOfPhase ==
  /\ phase = "done" => Verdict = "accepted"
  /\ phase = "failed" => Verdict = "refused"
  /\ phase \notin {"done", "failed"} => Verdict = "open"
  BY Zenon DEF Verdict

LEMMA NeedsStay ==
  ASSUME program' = program
  PROVE  Needs' = Needs /\ Origin' = Origin /\ ComputeTiles(program)' = ComputeTiles(program)
<1>1. \A c \in TileChannels(program) : CutsOutErased(c)' <=> CutsOutErased(c)
  BY ProgramStays
<1> QED
  BY <1>1 DEF Needs, Origin

\* Nothing has a value before the lowering, and nothing is decided.
LEMMA OrderStarts == Init => Order!Init
<1> SUFFICES ASSUME Init
             PROVE  Order!Init
  OBVIOUS
<1>1. DOMAIN values = {} /\ lowered = {} /\ phase = "analyze"
  BY DEF Init
<1>2. Verdict = "open"
  BY <1>1, VerdictOfPhase
<1> QED
  BY <1>1, <1>2 DEF Order!Init, Verdict

\* A step that lowers nothing and decides nothing is no step there.
LEMMA OrderStutters ==
  ASSUME UNCHANGED <<program, lowered>>, DOMAIN values' = DOMAIN values, Verdict' = Verdict
  PROVE  UNCHANGED Order!vars
BY NeedsStay DEF Order!vars, Needs, Origin, Verdict

LEMMA VerdictsOfPhases ==
  /\ phase = "done" => Verdict = "accepted"
  /\ phase = "failed" => Verdict = "refused"
  /\ phase \notin {"done", "failed"} => Verdict = "open"
  /\ phase' = "done" => Verdict' = "accepted"
  /\ phase' = "failed" => Verdict' = "refused"
  /\ phase' \notin {"done", "failed"} => Verdict' = "open"
<1>1. (/\ phase = "done" => Verdict = "accepted"
       /\ phase = "failed" => Verdict = "refused"
       /\ phase \notin {"done", "failed"} => Verdict = "open")'
  BY VerdictOfPhase, PTL
<1> QED
  BY <1>1, VerdictOfPhase

\* A step that refuses the program and lowers nothing.
LEMMA OrderRefuses ==
  ASSUME UNCHANGED <<program, lowered, values>>, phase \notin {"done", "failed"},
         phase' = "failed"
  PROVE  Order!Next
<1>1. Verdict = "open" /\ Verdict' = "refused"
  BY VerdictsOfPhases
<1>2. UNCHANGED <<Needs, Origin, ComputeTiles(program)>>
  BY NeedsStay
<1>3. Order!Refuse
  BY <1>1, <1>2 DEF Order!Refuse, Order!program, Verdict, Needs, Origin
<1> QED
  BY <1>1, <1>3 DEF Order!Next, Verdict

\* A send gives its channel a value, when those it reads have theirs and its tile is
\* still there.
LEMMA OrderProduces ==
  ASSUME WorklistInvariant, TablesInvariant, LowerSend \/ ForwardSend
  PROVE  Order!Next
<1>1. /\ HasSend /\ ArePiecesLowered /\ UNCHANGED <<program, phase, lowered>>
      /\ DOMAIN values' = {Channel} \cup DOMAIN values
  BY SendGrowsTables
<1>2. phase = "lower" /\ IsWellFormed /\ todo # <<>> /\ todo \in Seq(Nat) /\ Listing
  BY <1>1 DEF HasSend, TablesInvariant, WorklistInvariant
<1>3. Channel \in TileChannels(program) /\ SenderOf(program, Channel).tile = Tile
  BY <1>1, <1>2, NextSendIsSender
<1>4. Tile \notin lowered
  BY <1>2, HeadTailList DEF Listing, Tile
<1>5. ~CutsOutErased(Channel) => Reads(program, Channel) \subseteq DOMAIN values
  BY <1>1, LoweredSendHasInputs
<1>6. /\ Channel \in DOMAIN Needs /\ Needs[Channel] \subseteq DOMAIN values
      /\ Origin[Channel] \notin lowered
  BY <1>3, <1>4, <1>5 DEF Needs, Origin
<1>7. Verdict = "open" /\ Verdict' = "open"
  BY <1>1, <1>2, VerdictsOfPhases
<1>8. UNCHANGED <<Needs, Origin, ComputeTiles(program)>>
  BY <1>1, NeedsStay
<1>9. Order!Produce(Channel)
  BY <1>1, <1>6, <1>7, <1>8 DEF Order!Produce, Order!program, Needs, Origin, Verdict
<1> QED
  BY <1>6, <1>7, <1>9 DEF Order!Next, Needs, Verdict

\* A tile is erased when all channels it sends have a value.
LEMMA OrderRetires ==
  ASSUME WorklistInvariant, TablesInvariant, SendsInvariant', FinishTile
  PROVE  Order!Next
<1>1. /\ phase = "lower" /\ todo # <<>> /\ UNCHANGED <<program, phase, values>>
      /\ lowered' = lowered \cup {Tile}
  BY DEF FinishTile, emission
<1>2. IsWellFormed /\ todo \in Seq(Nat) /\ Listing /\ program \in Programs
  BY <1>1 DEF TablesInvariant, WorklistInvariant
<1>3. Tile \notin lowered /\ Tile \in ComputeTiles(program)
  BY <1>1, <1>2, HeadTailList, BodyIsNumbered DEF Listing, Tile
<1>4. ASSUME NEW c \in TileChannels(program), SenderOf(program, c).tile = Tile
      PROVE  c \in DOMAIN values
  <2> DEFINE s == SenderOf(program, c)
  <2>1. s \in TileSends(program) /\ ChannelAt(program, s) = c
    BY <1>2, SendersAreUnique
  <2> HIDE DEF s
  <2>2. s.op \in DOMAIN program.tiles[s.tile].body /\ OpAt(program, s).kind = "send" /\ s.tile = Tile
    BY <1>2, <1>4, <2>1, SendPlaces DEF s
  <2>3. ErasedTilesHaveSent'
    BY DEF SendsInvariant
  <2> QED
    BY <1>1, <2>1, <2>2, <2>3 DEF ErasedTilesHaveSent, OpAt, ChannelAt
<1>5. Verdict = "open" /\ Verdict' = "open"
  BY <1>1, VerdictsOfPhases
<1>6. UNCHANGED <<Needs, Origin, ComputeTiles(program)>>
  BY <1>1, NeedsStay
<1>7. {c \in DOMAIN Origin : Origin[c] = Tile} \subseteq DOMAIN values
  BY <1>4 DEF Origin
<1>8. Order!Retire(Tile)
  BY <1>1, <1>5, <1>6, <1>7 DEF Order!Retire, Order!program, Needs, Origin, Verdict
<1> QED
  BY <1>3, <1>5, <1>8 DEF Order!Next, Verdict

\* The conversion ends well only when all tiles have been erased.
LEMMA OrderDecides ==
  ASSUME WorklistInvariant, FinishTransfers
  PROVE  Order!Next
<1>1. phase = "finish" /\ UNCHANGED <<program, lowered, values>> /\ phase' \in {"done", "failed"}
  BY DEF FinishTransfers, worklist, emission
<1>2. CASE phase' = "failed"
  BY <1>1, <1>2, OrderRefuses
<1>3. CASE phase' = "done"
  <2>1. lowered = ComputeTiles(program)
    BY <1>1 DEF WorklistInvariant
  <2>2. Verdict = "open" /\ Verdict' = "accepted"
    BY <1>1, <1>3, VerdictsOfPhases
  <2>3. UNCHANGED <<Needs, Origin, ComputeTiles(program)>>
    BY <1>1, NeedsStay
  <2>4. Order!Accept
    BY <1>1, <2>1, <2>2, <2>3 DEF Order!Accept, Order!program, Needs, Origin, Verdict
  <2> QED
    BY <2>2, <2>4 DEF Order!Next, Verdict
<1> QED
  BY <1>1, <1>2, <1>3

\* Every step of the conversion is a step of DependencyOrder or none.
LEMMA StepsFollowOrder ==
  WorklistInvariant /\ TablesInvariant /\ SendsInvariant' /\ [Next]_vars
    => [Order!Next]_(Order!vars)
<1> SUFFICES ASSUME WorklistInvariant, TablesInvariant, SendsInvariant', [Next]_vars
             PROVE  Order!Next \/ UNCHANGED Order!vars
  OBVIOUS
<1>1. ASSUME UNCHANGED <<program, lowered, values>>,
             phase' = phase \/ {phase, phase'} \cap {"done", "failed"} = {}
      PROVE  UNCHANGED Order!vars
  <2>1. Verdict' = Verdict
    <3>1. CASE phase' = phase
      BY <3>1 DEF Verdict
    <3>2. CASE {phase, phase'} \cap {"done", "failed"} = {}
      BY <3>2, VerdictsOfPhases
    <3> QED
      BY <1>1, <3>1, <3>2
  <2> QED
    BY <1>1, <2>1, OrderStutters
<1>2. CASE Analyze
  BY <1>1, <1>2 DEF Analyze, worklist, emission
<1>3. CASE RefuseProgram
  BY <1>3, OrderRefuses DEF RefuseProgram, worklist, emission
<1>4. CASE Collect
  BY <1>1, <1>4 DEF Collect, emission
<1>5. CASE EndCollection
  BY <1>1, <1>5 DEF EndCollection, worklist, emission
<1>6. CASE BeginTile
  <2>1. UNCHANGED <<program, lowered, phase>> /\ DOMAIN values' = DOMAIN values
    BY <1>6, WaitKeepsChannels DEF BeginTile, worklist
  <2> QED
    BY <2>1, OrderStutters DEF Verdict
<1>7. CASE LowerSend \/ ForwardSend
  BY <1>7, OrderProduces
<1>8. CASE DeferTile
  BY <1>1, <1>8 DEF DeferTile
<1>9. CASE AbortTile
  BY <1>9, OrderRefuses DEF AbortTile, HasSend, worklist, emission
<1>10. CASE FinishTile
  BY <1>10, OrderRetires
<1>11. CASE NextPass
  BY <1>1, <1>11 DEF NextPass, emission
<1>12. CASE RefuseDependencies
  BY <1>12, OrderRefuses DEF RefuseDependencies, worklist, emission
<1>13. CASE EndLowering
  BY <1>1, <1>13 DEF EndLowering, worklist, emission
<1>14. CASE FinishTransfers
  BY <1>14, OrderDecides
<1>15. CASE UNCHANGED vars
  BY <1>1, <1>15 DEF vars
<1> QED
  BY <1>2, <1>3, <1>4, <1>5, <1>6, <1>7, <1>8, <1>9, <1>10, <1>11, <1>12,
     <1>13, <1>14, <1>15 DEF Next

\* The invariant of the sends, with what it rests on.
THEOREM SendsKeep == Spec => []SendsInvariant
BY SendsStart, StepsKeepSends, WorklistKeeps, PTL DEF Spec

\* Whatever a program is: tiles are lowered in the order of what they depend on,
\* found by the worklist.  A channel gets its value when all channels it is made of have
\* theirs, a tile goes when all its channels have a value, and the conversion ends
\* well when all tiles are gone.
THEOREM ConversionFollowsDependencies == Spec => LowersInDependencyOrder
BY OrderStarts, StepsFollowOrder, WorklistKeeps, SendsKeep, TablesKeep, PTL
   DEF Spec, LowersInDependencyOrder, Order!Spec

-----------------------------------------------------------------------------
(* What is emitted, as sequences *)

\* A list is what has places from 1 to its length.
LEMMA ListPlaces ==
  /\ \A s : IsList(s) => Len(s) \in Nat /\ DOMAIN s = 1..Len(s)
  /\ \A s : \A n \in Nat : s = [i \in 1..n |-> s[i]] => IsList(s) /\ Len(s) = n
  /\ IsList(<<>>) /\ Len(<<>>) = 0
  /\ \A e : IsList(<<e>>) /\ Len(<<e>>) = 1 /\ <<e>>[1] = e
<1>1. \A s : IsList(s) => Len(s) \in Nat /\ DOMAIN s = 1..Len(s)
  BY LenProperties DEF IsList
<1>2. ASSUME NEW s, NEW n \in Nat, s = [i \in 1..n |-> s[i]]
      PROVE  IsList(s) /\ Len(s) = n
  <2>1. DOMAIN s = 1..n
    BY <1>2
  <2>2. s \in [1..n -> {s[i] : i \in DOMAIN s}]
    BY <1>2, <2>1
  <2>3. s \in Seq({s[i] : i \in DOMAIN s})
    BY <2>2, SeqDef, Zenon
  <2> QED
    BY <2>1, <2>3, LenProperties DEF IsList
<1>3. IsList(<<>>) /\ Len(<<>>) = 0
  BY EmptySeq DEF IsList
<1>4. ASSUME NEW e
      PROVE  IsList(<<e>>) /\ Len(<<e>>) = 1 /\ <<e>>[1] = e
  <2>1. <<e>> \in Seq({e}) /\ Len(<<e>>) = 1 /\ <<e>>[1] = e /\ DOMAIN <<e>> = {1}
    OBVIOUS
  <2>2. {<<e>>[i] : i \in DOMAIN <<e>>} = {e}
    BY <2>1
  <2> QED
    BY <2>1, <2>2 DEF IsList
<1> QED
  BY <1>1, <1>2, <1>3, <1>4

\* One list behind another.
IsConcat(s, u) ==
  /\ IsList(s \o u) /\ Len(s \o u) = Len(s) + Len(u)
  /\ \A i \in 1..Len(s) : (s \o u)[i] = s[i]
  /\ \A i \in 1..Len(u) : (s \o u)[Len(s) + i] = u[i]

LEMMA ListsConcat ==
  ASSUME NEW s, NEW u, IsList(s), IsList(u)
  PROVE  IsConcat(s, u)
<1> DEFINE S == {s[i] : i \in DOMAIN s} \cup {u[i] : i \in DOMAIN u}
<1>1. s \in Seq(S) /\ u \in Seq(S)
  BY LenProperties DEF IsList
<1> HIDE DEF S
<1>2. /\ s \o u \in Seq(S) /\ Len(s) \in Nat /\ Len(u) \in Nat
      /\ Len(s \o u) = Len(s) + Len(u)
      /\ \A i \in 1..(Len(s) + Len(u)) : (s \o u)[i] = IF i <= Len(s) THEN s[i] ELSE u[i - Len(s)]
  BY <1>1, ConcatProperties, LenProperties
<1>3. IsList(s \o u)
  <2> DEFINE n == Len(s) + Len(u)
  <2>1. n \in Nat /\ s \o u = [i \in 1..n |-> (s \o u)[i]]
    BY <1>2, LenProperties
  <2> HIDE DEF n
  <2> QED
    BY <2>1, ListPlaces
<1> QED
  BY <1>2, <1>3 DEF IsConcat

\* Lists put behind each other, each starting where off says those before it end.
IsOffset(seqs, off, n) ==
  /\ off \in [0..n -> Nat] /\ off[0] = 0
  /\ \A j \in 1..n : off[j] = off[j - 1] + Len(seqs[j])

AreLists(seqs, n) == seqs = [j \in 1..n |-> seqs[j]] /\ \A j \in 1..n : IsList(seqs[j])

IsFlat(flat, seqs, off, n) ==
  /\ IsList(flat) /\ Len(flat) = off[n]
  /\ \A j \in 1..n : \A i \in 1..Len(seqs[j]) : flat[off[j - 1] + i] = seqs[j][i]
  /\ \A p \in 1..off[n] : \E j \in 1..n : \E i \in 1..Len(seqs[j]) : p = off[j - 1] + i

LEMMA ListsFlatten ==
  ASSUME NEW n \in Nat \ {0}, NEW seqs, AreLists(seqs, n), NEW off, IsOffset(seqs, off, n)
  PROVE  IsFlat(FlattenSeq(seqs), seqs, off, n)
<1> DEFINE T == UNION {{seqs[j][i] : i \in DOMAIN seqs[j]} : j \in 1..n}
           S == 1..n
           V == Seq(T)
           rank == [j \in S |-> j]
           Def(g, j) == IF j = 1 THEN seqs[j] ELSE g[j - 1] \o seqs[j]
           D == [g \in [S -> V] |-> [j \in S |-> Def(g, j)]]
<1> seqs = [j \in 1..n |-> seqs[j]] /\ \A j \in 1..n : IsList(seqs[j])
  BY DEF AreLists
<1>1. \A j \in S : seqs[j] \in V /\ Len(seqs[j]) \in Nat
  <2> TAKE j \in S
  <2>1. seqs[j] \in Seq({seqs[j][i] : i \in DOMAIN seqs[j]})
    BY DEF IsList
  <2>2. {seqs[j][i] : i \in DOMAIN seqs[j]} \subseteq T
    OBVIOUS
  <2> QED
    BY <2>1, <2>2, LenProperties
<1>2. Len(seqs) = n
  BY ListPlaces
<1> HIDE DEF T
<1>3. FlattenSeq(seqs) = (CHOOSE g : g = [j \in S |-> Def(g, j)])[n]
  BY <1>2 DEF FlattenSeq
<1>4. \E g \in [S -> V] : g = D[g]
  <2>1. IsRanking(S, rank)
    <3>1. n + 1 \in Nat /\ \A j \in S : rank[j] < n + 1
      OBVIOUS
    <3>2. rank \in [S -> Nat]
      OBVIOUS
    <3> QED
      BY <3>1, <3>2 DEF IsRanking
  <2>2. ASSUME NEW g \in [S -> V], NEW j \in S
        PROVE  Def(g, j) \in V
    <3>1. CASE j = 1
      BY <1>1, <3>1
    <3>2. CASE j # 1
      <4>1. j - 1 \in S
        BY <3>2
      <4> QED
        BY <1>1, <3>2, <4>1, ConcatProperties
    <3> QED
      BY <3>1, <3>2
  <2>3. ASSUME NEW g, NEW h, NEW j \in S, \A i \in S : rank[i] < rank[j] => g[i] = h[i]
        PROVE  Def(g, j) = Def(h, j)
    <3>1. CASE j # 1
      <4>1. j - 1 \in S /\ rank[j - 1] < rank[j]
        BY <3>1
      <4> QED
        BY <2>3, <3>1, <4>1
    <3> QED
      BY <3>1
  <2>4. V # {}
    BY EmptySeq
  <2> HIDE DEF Def, V, S, rank
  <2>5. IsRecursion(S, V, rank, D)
    BY <2>2, <2>3 DEF IsRecursion
  <2> HIDE DEF D
  <2> QED
    BY <2>1, <2>4, <2>5, RecursionSolves
<1>5. \E g : g = [j \in S |-> Def(g, j)]
  <2> HIDE DEF Def, V, S
  <2> QED
    BY <1>4
<1> DEFINE f == CHOOSE g : g = [j \in S |-> Def(g, j)]
<1>6. f = [j \in S |-> Def(f, j)]
  <2> HIDE DEF Def, S
  <2> QED
    BY <1>5
<1>7. FlattenSeq(seqs) = f[n]
  BY <1>3
<1> HIDE DEF f
<1>8. f[1] = seqs[1] /\ \A j \in 2..n : f[j] = f[j - 1] \o seqs[j]
  <2>1. \A j \in S : f[j] = Def(f, j)
    <3> HIDE DEF Def
    <3> QED
      BY <1>6
  <2>2. f[1] = seqs[1]
    BY <2>1
  <2>3. \A j \in S : j # 1 => f[j] = f[j - 1] \o seqs[j]
    BY <2>1
  <2>4. \A j \in 2..n : j \in S /\ j # 1
    OBVIOUS
  <2> QED
    BY <2>2, <2>3, <2>4
<1> DEFINE Flat(m) ==
             /\ IsList(f[m]) /\ Len(f[m]) = off[m]
             /\ \A j \in 1..m : \A i \in 1..Len(seqs[j]) : f[m][off[j - 1] + i] = seqs[j][i]
             /\ \A p \in 1..off[m] : \E j \in 1..m : \E i \in 1..Len(seqs[j]) : p = off[j - 1] + i
           U == {m \in Nat : m \in 1..n => Flat(m)}
<1>9. \A j \in S : off[j - 1] \in Nat /\ off[j] \in Nat /\ off[j] = off[j - 1] + Len(seqs[j])
  BY DEF IsOffset
<1>10. Flat(1)
  <2>1. off[0] = 0 /\ off[1] = Len(seqs[1]) /\ off[1 - 1] = 0
    BY <1>1, <1>9 DEF IsOffset
  <2> QED
    BY <1>1, <1>8, <2>1
<1>11. ASSUME NEW m \in Nat, m \in 1..n, m + 1 \in 1..n, Flat(m)
       PROVE  Flat(m + 1)
  <2> PICK front, next : front = f[m] /\ next = seqs[m + 1]
    OBVIOUS
  <2>1. f[m + 1] = front \o next /\ IsList(front) /\ IsList(next) /\ Len(front) = off[m]
        /\ off[m + 1] = off[m] + Len(next) /\ off[m] \in Nat /\ Len(next) \in Nat
        /\ off[(m + 1) - 1] = off[m]
    <3>1. m + 1 \in 2..n /\ (m + 1) - 1 = m /\ m + 1 \in S
      BY <1>11
    <3>2. IsList(f[m]) /\ Len(f[m]) = off[m]
      BY <1>11
    <3>3. f[m + 1] = f[m] \o seqs[m + 1]
      BY <1>8, <3>1
    <3> QED
      BY <1>1, <1>9, <3>1, <3>2, <3>3
  <2>2. /\ IsList(front \o next) /\ Len(front \o next) = Len(front) + Len(next)
        /\ \A i \in 1..Len(front) : (front \o next)[i] = front[i]
        /\ \A i \in 1..Len(next) : (front \o next)[Len(front) + i] = next[i]
    <3>1. IsList(front) /\ IsList(next)
      BY <2>1
    <3>2. IsConcat(front, next)
      BY <3>1, ListsConcat
    <3> QED
      BY <3>2 DEF IsConcat
  <2>3. ASSUME NEW j \in 1..(m + 1), NEW i \in 1..Len(seqs[j])
        PROVE  f[m + 1][off[j - 1] + i] = seqs[j][i]
    <3>1. CASE j = m + 1
      <4>1. seqs[j] = next /\ off[j - 1] = Len(front)
        BY <2>1, <3>1
      <4>2. (front \o next)[Len(front) + i] = next[i]
        BY <2>2, <4>1
      <4> QED
        BY <2>1, <4>1, <4>2
    <3>2. CASE j # m + 1
      <4>1. j \in 1..m /\ j \in S
        BY <1>11, <3>2
      <4>2. front[off[j - 1] + i] = seqs[j][i]
        BY <1>11, <4>1
      <4>3. off[j - 1] + i <= off[j] /\ off[j - 1] + i >= 1
        BY <1>1, <1>9, <4>1
      <4>4. off[j] <= off[m]
        <5> DEFINE W == {k \in Nat : j + k \in 1..m => off[j] <= off[j + k]}
        <5>1. 0 \in W
          BY <1>9, <4>1
        <5>2. \A k \in Nat : k \in W => k + 1 \in W
          <6> SUFFICES ASSUME NEW k \in Nat, k \in W, j + (k + 1) \in 1..m
                       PROVE  off[j] <= off[j + (k + 1)]
            OBVIOUS
          <6>1. j + k \in 1..m /\ j + (k + 1) \in S /\ (j + (k + 1)) - 1 = j + k
            BY <1>11, <4>1
          <6>2. off[j] <= off[j + k]
            BY <6>1
          <6>3. off[j + (k + 1)] = off[j + k] + Len(seqs[j + (k + 1)])
                /\ off[j + k] \in Nat /\ Len(seqs[j + (k + 1)]) \in Nat /\ off[j] \in Nat
            BY <1>1, <1>9, <4>1, <6>1
          <6> QED
            BY <6>2, <6>3
        <5> HIDE DEF W
        <5>3. Nat \subseteq W
          BY <5>1, <5>2, SetInduction
        <5>4. m - j \in W /\ j + (m - j) = m
          BY <4>1, <5>3
        <5>5. m \in 1..m
          BY <1>11
        <5> QED
          BY ONLY <5>4, <5>5 DEF W
      <4>5. off[j - 1] + i \in 1..Len(front)
        <5> DEFINE start == off[j - 1]
                   end == off[j]
                   last == off[m]
        <5>1. start \in Nat /\ i \in Nat /\ last \in Nat /\ end \in Nat
          BY <1>1, <1>9, <2>1, <4>1
        <5>2. start + i <= end /\ start + i >= 1 /\ end <= last /\ Len(front) = last
          BY <2>1, <4>3, <4>4
        <5> HIDE DEF start, end, last
        <5>3. start + i \in 1..last
          BY ONLY <5>1, <5>2
        <5> QED
          BY <5>2, <5>3 DEF start
      <4> QED
        BY <2>1, <2>2, <4>2, <4>5
    <3> QED
      BY <3>1, <3>2
  <2>4. ASSUME NEW p \in 1..off[m + 1]
        PROVE  \E j \in 1..(m + 1) : \E i \in 1..Len(seqs[j]) : p = off[j - 1] + i
    <3>1. CASE p <= off[m]
      <4>1. PICK j \in 1..m : \E i \in 1..Len(seqs[j]) : p = off[j - 1] + i
        BY <1>11, <2>1, <3>1
      <4>2. j \in 1..(m + 1)
        BY <1>11
      <4> QED
        BY <4>1, <4>2
    <3>2. CASE p > off[m]
      <4>1. p - off[m] \in 1..Len(seqs[m + 1]) /\ p = off[(m + 1) - 1] + (p - off[m])
        <5> DEFINE last == off[m]
                   end == off[m + 1]
                   length == Len(seqs[m + 1])
        <5>1. end = last + length /\ last \in Nat /\ length \in Nat /\ p > last
              /\ p \in 1..end /\ off[(m + 1) - 1] = last
          BY <2>1, <3>2
        <5> HIDE DEF last, end, length
        <5>2. p - last \in 1..length /\ p = last + (p - last)
          BY ONLY <5>1
        <5> QED
          BY <5>1, <5>2 DEF last, length
      <4>2. m + 1 \in 1..(m + 1)
        BY <1>11
      <4>3. \E i \in 1..Len(seqs[m + 1]) : p = off[(m + 1) - 1] + i
        BY <4>1
      <4> QED
        BY <4>2, <4>3
    <3> QED
      BY <2>1, <3>1, <3>2
  <2> QED
    BY <2>1, <2>2, <2>3, <2>4
<1> HIDE DEF Flat
<1>12. Nat \subseteq U
  <2>1. 0 \in U
    OBVIOUS
  <2>2. ASSUME NEW m \in Nat, m \in U
        PROVE  m + 1 \in U
    BY <1>10, <1>11, <2>2
  <2> HIDE DEF U
  <2> QED
    BY <2>1, <2>2, SetInduction
<1>13. Flat(n)
  BY <1>12
<1> QED
  BY <1>7, <1>13 DEF Flat, IsFlat

-----------------------------------------------------------------------------
(* What is emitted *)

\* What is emitted in front of the tiles are lists.
Blocks ==
  /\ block = [t \in DOMAIN program.tiles |-> block[t]]
  /\ \A t \in DOMAIN program.tiles : IsList(block[t])

\* The step emits items, and changes nothing that has been emitted.
Grown(items) ==
  /\ Blocks'
  /\ Emitted' = Emitted \cup {Fresh(k) : k \in 1..Len(items)}
  /\ \A v \in Emitted : ItemAt(v)' = ItemAt(v)
  /\ \A k \in 1..Len(items) :
       Fresh(k) \notin Emitted /\ \A v : v = Fresh(k) => ItemAt(v)' = items[k]

\* A value that has been emitted has a tile and a number from 1.
LEMMA EmittedValues ==
  ASSUME program \in Programs, Blocks
  PROVE  /\ \A v : v \in Emitted <=>
              \E t \in DOMAIN program.tiles : \E n \in 1..Len(block[t]) : v = <<t, n>>
         /\ \A v \in Emitted : v[1] \in DOMAIN program.tiles /\ v[2] \in 1..Len(block[v[1]])
         /\ Inside \notin Emitted
         /\ \A t \in DOMAIN program.tiles : Len(block[t]) \in Nat
<1>1. \A t \in DOMAIN program.tiles : Len(block[t]) \in Nat /\ DOMAIN block[t] = 1..Len(block[t])
  BY ListPlaces DEF Blocks
<1>2. \A v : v \in Emitted <=>
        \E t \in DOMAIN program.tiles : \E n \in 1..Len(block[t]) : v = <<t, n>>
  BY <1>1 DEF Emitted
<1>3. \A v \in Emitted : v[1] \in DOMAIN program.tiles /\ v[2] \in 1..Len(block[v[1]])
  BY <1>2
<1>4. Inside \notin Emitted
  <2>1. Inside[1] = 0
    BY DEF Inside
  <2>2. 0 \notin DOMAIN program.tiles
    BY TilesAreNumbered
  <2> QED
    BY <1>3, <2>1, <2>2
<1> QED
  BY <1>1, <1>2, <1>3, <1>4

LEMMA EmitAdds ==
  ASSUME program \in Programs, Blocks, UNCHANGED program, Tile \in DOMAIN program.tiles,
         NEW items, IsList(items), Emit(items)
  PROVE  Grown(items)
<1> DEFINE D == DOMAIN program.tiles
<1> PICK t, old, n, m : t = Tile /\ old = block[Tile] /\ n = Len(old) /\ m = Len(items)
  OBVIOUS
<1>1. t \in D /\ IsList(old) /\ n \in Nat /\ m \in Nat
  BY ListPlaces DEF Blocks
<1>2. IsConcat(old, items)
  BY <1>1, ListsConcat
<1>3. \A k : Fresh(k) = <<t, n + k>>
  BY DEF Fresh
<1>4. /\ block' = [u \in D |-> IF u = t THEN old \o items ELSE block[u]]
  BY DEF Emit, Blocks
<1>5. block'[t] = old \o items /\ \A u \in D : u # t => block'[u] = block[u]
  BY <1>1, <1>4
<1>6. Blocks'
  BY <1>1, <1>2, <1>4, <1>5 DEF Blocks, IsConcat
<1>7. Len(block'[t]) = n + m /\ \A u \in D : u # t => Len(block'[u]) = Len(block[u])
  BY <1>2, <1>5 DEF IsConcat
<1>8. \A v : v \in Emitted <=> \E u \in D : \E k \in 1..Len(block[u]) : v = <<u, k>>
  BY EmittedValues
<1>9. \A v : v \in Emitted' <=> \E u \in D : \E k \in 1..Len(block'[u]) : v = <<u, k>>
  <2>1. \A u \in D : DOMAIN block'[u] = 1..Len(block'[u])
    BY <1>6, ListPlaces DEF Blocks
  <2> QED
    BY <2>1 DEF Emitted
<1>10. Emitted' = Emitted \cup {<<t, n + k>> : k \in 1..m}
  <2>1. ASSUME NEW v \in Emitted
        PROVE  v \in Emitted'
    <3>1. PICK u \in D : \E k \in 1..Len(block[u]) : v = <<u, k>>
      BY <1>8
    <3>2. PICK k \in 1..Len(block[u]) : v = <<u, k>>
      BY <3>1
    <3>3. k \in 1..Len(block'[u])
      BY <1>1, <1>7, <3>2
    <3> QED
      BY <1>9, <3>2, <3>3
  <2>2. ASSUME NEW k \in 1..m
        PROVE  <<t, n + k>> \in Emitted'
    <3>1. n + k \in 1..Len(block'[t])
      BY <1>1, <1>7
    <3> QED
      BY <1>1, <1>9, <3>1
  <2>3. ASSUME NEW v \in Emitted', v \notin Emitted
        PROVE  v \in {<<t, n + k>> : k \in 1..m}
    <3>1. PICK u \in D : \E k \in 1..Len(block'[u]) : v = <<u, k>>
      BY <1>9
    <3>2. PICK k \in 1..Len(block'[u]) : v = <<u, k>>
      BY <3>1
    <3>3. u = t
      BY <1>7, <1>8, <2>3, <3>2
    <3>4. k \in 1..(n + m) /\ k \notin 1..n
      BY <1>7, <1>8, <2>3, <3>2, <3>3
    <3>5. k - n \in 1..m /\ k = n + (k - n)
      BY <1>1, <3>4
    <3> QED
      BY <3>2, <3>3, <3>5
  <2> QED
    BY <2>1, <2>2, <2>3
<1>11. ASSUME NEW v \in Emitted
       PROVE  block'[v[1]][v[2]] = block[v[1]][v[2]]
  <2>1. PICK u \in D : \E k \in 1..Len(block[u]) : v = <<u, k>>
    BY <1>8
  <2>2. PICK k \in 1..Len(block[u]) : v = <<u, k>>
    BY <2>1
  <2>3. block'[u][k] = block[u][k]
    BY <1>2, <1>5, <2>2 DEF IsConcat
  <2> QED
    BY <2>2, <2>3
<1>12. ASSUME NEW k \in 1..m
       PROVE  <<t, n + k>> \notin Emitted /\ block'[t][n + k] = items[k]
  <2>1. n + k \notin 1..Len(block[t])
    BY <1>1
  <2> QED
    BY <1>1, <1>2, <1>5, <1>8, <2>1 DEF IsConcat
<1>13. \A v \in Emitted : ItemAt(v)' = ItemAt(v)
  BY <1>11 DEF ItemAt
<1>14. \A k \in 1..m : \A v : v = <<t, n + k>> => ItemAt(v)' = items[k]
  BY <1>12 DEF ItemAt
<1> QED
  BY <1>3, <1>6, <1>10, <1>12, <1>13, <1>14 DEF Grown

\* The semaphore a send makes, if any.
LEMMA NewSemaphoreIs ==
  /\ IsList(NewSemaphore) /\ Len(NewSemaphore) \in {0, 1}
  /\ Len(NewSemaphore) = 0 => /\ NewSemaphore = <<>>
                              /\ IsTileToTile(program, Channel) => Channel \in DOMAIN semaphores
  /\ Len(NewSemaphore) = 1 => /\ NewSemaphore # <<>> /\ IsTileToTile(program, Channel)
                              /\ Channel \notin DOMAIN semaphores
                              /\ NewSemaphore[1] = Item("semaphore", {Channel}, Lowered({}, {}))
<1> PICK e : e = Item("semaphore", {Channel}, Lowered({}, {}))
  OBVIOUS
<1>1. IsList(<<e>>) /\ Len(<<e>>) = 1 /\ <<e>>[1] = e /\ <<e>> # <<>> /\ IsList(<<>>) /\ Len(<<>>) = 0
  BY ListPlaces
<1>2. CASE IsTileToTile(program, Channel) /\ Channel \notin DOMAIN semaphores
  <2>1. NewSemaphore = <<e>>
    BY <1>2 DEF NewSemaphore
  <2> QED
    BY <1>1, <1>2, <2>1
<1>3. CASE ~(IsTileToTile(program, Channel) /\ Channel \notin DOMAIN semaphores)
  <2>1. NewSemaphore = <<>>
    BY <1>3 DEF NewSemaphore
  <2> QED
    BY <1>1, <1>3, <2>1
<1> QED
  BY <1>2, <1>3

LowerItems == NewSemaphore \o FlattenSeq([k \in DOMAIN Pieces |-> PieceItems(k)])

\* The operations of a computed send, one by one: the semaphore, if it is new; then
\* each piece, followed by its signal when it goes to a tile.
AreLowerItems(items, n) ==
  LET base == Len(NewSemaphore)
  IN /\ IsList(items) /\ base \in {0, 1}
     /\ base = 1 => items[1] = Item("semaphore", {Channel}, Lowered({}, {}))
     /\ ~IsTileToTile(program, Channel) =>
          /\ Len(items) = base + n
          /\ \A k \in 1..n : items[base + k] = Item("compute", {Channel}, Pieces[k])
     /\ IsTileToTile(program, Channel) =>
          /\ Len(items) = base + 2 * n
          /\ \A k \in 1..n : /\ items[base + 2 * k - 1] = Item("compute", {Channel}, Pieces[k])
                             /\ items[base + 2 * k] = Signal(k)
          /\ \A p \in 1..Len(items) :
               p <= base \/ \E k \in 1..n : p \in {base + 2 * k - 1, base + 2 * k}

IsPair(s, d, e) == IsList(s) /\ Len(s) = 2 /\ s[1] = d /\ s[2] = e

LEMMA PairList ==
  ASSUME NEW d, NEW e
  PROVE  IsPair(<<d>> \o <<e>>, d, e)
<1> PICK a, b : a = <<d>> /\ b = <<e>>
  OBVIOUS
<1>1. IsList(a) /\ Len(a) = 1 /\ a[1] = d /\ IsList(b) /\ Len(b) = 1 /\ b[1] = e
  BY ListPlaces
<1>2. IsConcat(a, b)
  BY <1>1, ListsConcat
<1>3. /\ IsList(a \o b) /\ Len(a \o b) = 2 /\ (a \o b)[1] = a[1] /\ (a \o b)[1 + 1] = b[1]
  BY <1>1, <1>2 DEF IsConcat
<1> QED
  BY <1>1, <1>3 DEF IsPair

\* Where the pieces of a send start.
LEMMA SingleOffsets ==
  ASSUME NEW n \in Nat \ {0}, NEW seqs, \A j \in 1..n : Len(seqs[j]) = 1,
         NEW off, off = [j \in 0..n |-> j]
  PROVE  IsOffset(seqs, off, n)
<1>1. off \in [0..n -> Nat] /\ off[0] = 0
  OBVIOUS
<1>2. \A j \in 1..n : off[j] = off[j - 1] + 1
  OBVIOUS
<1> QED
  BY <1>1, <1>2 DEF IsOffset

LEMMA DoubleOffsets ==
  ASSUME NEW n \in Nat \ {0}, NEW seqs, \A j \in 1..n : Len(seqs[j]) = 2,
         NEW off, off = [j \in 0..n |-> 2 * j]
  PROVE  IsOffset(seqs, off, n)
<1>1. off \in [0..n -> Nat] /\ off[0] = 0
  <2>1. \A j \in 0..n : 2 * j \in Nat
    OBVIOUS
  <2> QED
    BY <2>1
<1>2. \A j \in 1..n : off[j] = off[j - 1] + 2
  OBVIOUS
<1> QED
  BY <1>1, <1>2 DEF IsOffset

LEMMA LowerItemsAre ==
  ASSUME NEW n \in Nat \ {0}, DOMAIN Pieces = 1..n
  PROVE  AreLowerItems(LowerItems, n)
<1> PICK seqs : seqs = [k \in 1..n |-> PieceItems(k)]
  OBVIOUS
<1> PICK new, flat, base : new = NewSemaphore /\ flat = FlattenSeq(seqs) /\ base = Len(NewSemaphore)
  OBVIOUS
<1>1. LowerItems = new \o flat
  BY DEF LowerItems
<1>2. /\ IsList(new) /\ Len(new) = base /\ base \in {0, 1}
      /\ base = 1 => new[1] = Item("semaphore", {Channel}, Lowered({}, {}))
  BY NewSemaphoreIs
<1>3. CASE ~IsTileToTile(program, Channel)
  <2> PICK off : off = [j \in 0..n |-> j]
    OBVIOUS
  <2>1. \A k \in 1..n : seqs[k] = <<Item("compute", {Channel}, Pieces[k])>>
    <3> TAKE k \in 1..n
    <3>1. PieceItems(k) = <<Item("compute", {Channel}, Pieces[k])>> \o <<>>
      BY <1>3 DEF PieceItems
    <3> PICK e : e = Item("compute", {Channel}, Pieces[k])
      OBVIOUS
    <3>2. <<e>> \o <<>> = <<e>>
      OBVIOUS
    <3> QED
      BY <3>1, <3>2
  <2>2. \A k \in 1..n : /\ IsList(seqs[k]) /\ Len(seqs[k]) = 1
                        /\ seqs[k][1] = Item("compute", {Channel}, Pieces[k])
    <3> TAKE k \in 1..n
    <3> PICK e : e = Item("compute", {Channel}, Pieces[k])
      OBVIOUS
    <3>1. seqs[k] = <<e>>
      BY <2>1
    <3> QED
      BY <3>1, ListPlaces
  <2>3. IsOffset(seqs, off, n)
    <3>1. \A j \in 1..n : Len(seqs[j]) = 1
      BY <2>2
    <3> QED
      BY <3>1, SingleOffsets
  <2>4. /\ IsList(flat) /\ Len(flat) = off[n]
        /\ \A j \in 1..n : \A i \in 1..Len(seqs[j]) : flat[off[j - 1] + i] = seqs[j][i]
    <3>1. AreLists(seqs, n)
      BY <2>2 DEF AreLists
    <3>2. IsFlat(FlattenSeq(seqs), seqs, off, n)
      BY <2>3, <3>1, ListsFlatten
    <3> QED
      BY <3>2 DEF IsFlat
  <2>5. IsConcat(new, flat)
    BY <1>2, <2>4, ListsConcat
  <2>6. IsList(new \o flat) /\ Len(new \o flat) = base + n
    BY <1>2, <2>4, <2>5 DEF IsConcat
  <2>7. ASSUME NEW k \in 1..n
        PROVE  (new \o flat)[base + k] = Item("compute", {Channel}, Pieces[k])
    <3>1. off[k - 1] + 1 = k /\ k \in 1..Len(flat) /\ 1 \in 1..Len(seqs[k])
      BY <2>2, <2>4
    <3>2. flat[k] = seqs[k][1]
      BY <2>4, <3>1
    <3> QED
      BY <1>2, <2>2, <2>5, <3>1, <3>2 DEF IsConcat
  <2>8. base = 1 => (new \o flat)[1] = new[1]
    BY <1>2, <2>5 DEF IsConcat
  <2> QED
    BY <1>1, <1>2, <1>3, <2>6, <2>7, <2>8 DEF AreLowerItems
<1>4. CASE IsTileToTile(program, Channel)
  <2> PICK off : off = [j \in 0..n |-> 2 * j]
    OBVIOUS
  <2>1. \A k \in 1..n : /\ IsList(seqs[k]) /\ Len(seqs[k]) = 2
                        /\ seqs[k][1] = Item("compute", {Channel}, Pieces[k])
                        /\ seqs[k][2] = Signal(k)
    <3> TAKE k \in 1..n
    <3> PICK d, e : d = Item("compute", {Channel}, Pieces[k]) /\ e = Signal(k)
      OBVIOUS
    <3>1. seqs[k] = <<d>> \o <<e>>
      BY <1>4 DEF PieceItems
    <3>2. IsPair(<<d>> \o <<e>>, d, e)
      BY PairList
    <3> QED
      BY <3>1, <3>2 DEF IsPair
  <2>2. IsOffset(seqs, off, n)
    <3>1. \A j \in 1..n : Len(seqs[j]) = 2
      BY <2>1
    <3> QED
      BY <3>1, DoubleOffsets
  <2>3. /\ IsList(flat) /\ Len(flat) = off[n]
        /\ \A j \in 1..n : \A i \in 1..Len(seqs[j]) : flat[off[j - 1] + i] = seqs[j][i]
        /\ \A p \in 1..off[n] : \E j \in 1..n : \E i \in 1..Len(seqs[j]) : p = off[j - 1] + i
    <3>1. AreLists(seqs, n)
      BY <2>1 DEF AreLists
    <3>2. IsFlat(FlattenSeq(seqs), seqs, off, n)
      BY <2>2, <3>1, ListsFlatten
    <3> QED
      BY <3>2 DEF IsFlat
  <2>4. IsConcat(new, flat)
    BY <1>2, <2>3, ListsConcat
  <2>5. IsList(new \o flat) /\ Len(new \o flat) = base + 2 * n /\ Len(flat) = 2 * n
    <3>1. off[n] = 2 * n
      OBVIOUS
    <3>2. IsList(new \o flat) /\ Len(new \o flat) = Len(new) + Len(flat)
      BY <2>4 DEF IsConcat
    <3> QED
      BY <1>2, <2>3, <3>1, <3>2
  <2>6. ASSUME NEW k \in 1..n
        PROVE  /\ (new \o flat)[base + 2 * k - 1] = Item("compute", {Channel}, Pieces[k])
               /\ (new \o flat)[base + 2 * k] = Signal(k)
    <3>1. /\ off[k - 1] + 1 = 2 * k - 1 /\ off[k - 1] + 2 = 2 * k
          /\ 2 * k - 1 \in 1..Len(flat) /\ 2 * k \in 1..Len(flat)
          /\ 1 \in 1..Len(seqs[k]) /\ 2 \in 1..Len(seqs[k])
      BY <2>1, <2>5
    <3>2. flat[2 * k - 1] = seqs[k][1] /\ flat[2 * k] = seqs[k][2]
      <4>1. flat[off[k - 1] + 1] = seqs[k][1]
        BY <2>3, <3>1
      <4>2. flat[off[k - 1] + 2] = seqs[k][2]
        BY <2>3, <3>1
      <4> QED
        BY <3>1, <4>1, <4>2
    <3>3. /\ (new \o flat)[base + (2 * k - 1)] = flat[2 * k - 1]
          /\ (new \o flat)[base + 2 * k] = flat[2 * k]
      BY <1>2, <2>4, <3>1 DEF IsConcat
    <3>4. base + (2 * k - 1) = base + 2 * k - 1
      BY <1>2
    <3> QED
      BY <2>1, <3>2, <3>3, <3>4
  <2>7. base = 1 => (new \o flat)[1] = new[1]
    BY <1>2, <2>4 DEF IsConcat
  <2>8. ASSUME NEW p \in 1..(base + 2 * n), p > base
        PROVE  \E k \in 1..n : p \in {base + 2 * k - 1, base + 2 * k}
    <3>1. p - base \in 1..off[n]
      BY <1>2, <2>8
    <3>2. PICK k \in 1..n : \E i \in 1..Len(seqs[k]) : p - base = off[k - 1] + i
      BY <2>3, <3>1
    <3>3. p - base = 2 * (k - 1) + 1 \/ p - base = 2 * (k - 1) + 2
      <4>1. PICK i \in 1..Len(seqs[k]) : p - base = off[k - 1] + i
        BY <3>2
      <4>2. off[k - 1] = 2 * (k - 1)
        OBVIOUS
      <4>3. i \in {1, 2}
        <5>1. Len(seqs[k]) = 2
          BY <2>1, Zenon
        <5>2. i \in 1..2
          BY <5>1, Zenon
        <5>3. 1..2 = {1, 2}
          OBVIOUS
        <5> QED
          BY <5>2, <5>3, Zenon
      <4> QED
        BY <4>1, <4>2, <4>3
    <3>4. p \in {base + 2 * k - 1, base + 2 * k}
      BY <1>2, <3>3
    <3> QED
      BY <3>4
  <2> PICK items : items = new \o flat
    OBVIOUS
  <2>9. Len(items) = base + 2 * n /\ IsList(items)
    BY <2>5
  <2>10. \A p \in 1..Len(items) :
           p <= base \/ \E k \in 1..n : p \in {base + 2 * k - 1, base + 2 * k}
    <3> TAKE p \in 1..Len(items)
    <3>1. p \in 1..(base + 2 * n)
      BY <2>9
    <3>2. p <= base \/ p > base
      BY <1>2, <3>1
    <3> QED
      BY <2>8, <3>1, <3>2
  <2>11. \A k \in 1..n : /\ items[base + 2 * k - 1] = Item("compute", {Channel}, Pieces[k])
                          /\ items[base + 2 * k] = Signal(k)
    BY <2>6
  <2>12. base = 1 => items[1] = Item("semaphore", {Channel}, Lowered({}, {}))
    BY <1>2, <2>7
  <2>13. AreLowerItems(items, n)
    BY <1>2, <1>4, <2>9, <2>10, <2>11, <2>12, Zenon DEF AreLowerItems
  <2> QED
    BY <1>1, <2>13
<1> QED
  BY <1>3, <1>4

\* The operations of a send that passes a value on: its clone, if it is one, the
\* semaphore, if it is new, and the layout.
IsCloned == Body[Send.args[1]].kind \notin {"recv", "load"}
Clone == IF IsCloned THEN <<Item("clone", {Channel}, Pieces[1])>> ELSE <<>>
Source == IF IsCloned THEN Stands(1, Pieces[1].leaves)
          ELSE [reads |-> Pieces[1].reads, leaves |-> Pieces[1].leaves]
Layout == Item("layout", {Channel}, Lowered(Source.leaves, Source.reads))
ForwardItems == Clone \o NewSemaphore \o <<Layout>>
ForwardStands == Stands(Len(Clone) + Len(NewSemaphore) + 1, Pieces[1].leaves)

AreForwardItems(items) ==
  LET cloned == Len(Clone)
      base == Len(NewSemaphore)
  IN /\ IsList(items) /\ cloned = (IF IsCloned THEN 1 ELSE 0) /\ base \in {0, 1}
     /\ Len(items) = cloned + base + 1
     /\ IsCloned => items[1] = Item("clone", {Channel}, Pieces[1])
     /\ base = 1 => items[cloned + 1] = Item("semaphore", {Channel}, Lowered({}, {}))
     /\ items[cloned + base + 1] = Layout

\* A place of the items a forward emits is one of the three.
LEMMA ForwardPlaces ==
  ASSUME NEW base \in {0, 1}, NEW cloned, cloned = (IF IsCloned THEN 1 ELSE 0),
         NEW n, n = cloned + base + 1, NEW k \in 1..n
  PROVE  (k = 1 /\ IsCloned) \/ (k = cloned + 1 /\ base = 1) \/ k = cloned + base + 1
<1>1. CASE IsCloned
  <2>1. cloned = 1
    BY <1>1, Zenon
  <2> QED
    BY ONLY <1>1, <2>1, base \in {0, 1}, n = cloned + base + 1, k \in 1..n
<1>2. CASE ~IsCloned
  <2>1. cloned = 0
    BY <1>2, Zenon
  <2> QED
    BY ONLY <2>1, base \in {0, 1}, n = cloned + base + 1, k \in 1..n
<1> QED
  BY <1>1, <1>2

LEMMA ForwardItemsAre == AreForwardItems(ForwardItems)
<1> PICK clone, new, layout, cloned, base :
           clone = Clone /\ new = NewSemaphore /\ layout = <<Layout>> /\ cloned = Len(Clone)
           /\ base = Len(NewSemaphore)
  OBVIOUS
<1>1. /\ IsList(new) /\ Len(new) = base /\ base \in {0, 1}
      /\ base = 1 => new[1] = Item("semaphore", {Channel}, Lowered({}, {}))
  BY NewSemaphoreIs
<1>2. /\ IsList(clone) /\ Len(clone) = cloned /\ cloned = (IF IsCloned THEN 1 ELSE 0)
      /\ IsCloned => clone[1] = Item("clone", {Channel}, Pieces[1])
  <2> PICK e : e = Item("clone", {Channel}, Pieces[1])
    OBVIOUS
  <2>1. IsList(<<e>>) /\ Len(<<e>>) = 1 /\ <<e>>[1] = e /\ IsList(<<>>) /\ Len(<<>>) = 0
    BY ListPlaces
  <2>2. clone = (IF IsCloned THEN <<e>> ELSE <<>>)
    BY DEF Clone
  <2> QED
    BY <2>1, <2>2
<1>3. IsList(layout) /\ Len(layout) = 1 /\ layout[1] = Layout
  BY ListPlaces
<1> PICK front : front = clone \o new
  OBVIOUS
<1>4. IsConcat(clone, new)
  BY <1>1, <1>2, ListsConcat
<1>5. IsList(front) /\ Len(front) = cloned + base
  BY <1>1, <1>2, <1>4 DEF IsConcat
<1>6. IsConcat(front, layout)
  BY <1>3, <1>5, ListsConcat
<1> PICK items : items = front \o layout
  OBVIOUS
<1>7. IsList(items) /\ Len(items) = cloned + base + 1
  BY <1>3, <1>5, <1>6 DEF IsConcat
<1>8. items[cloned + base + 1] = Layout
  <2>1. items[Len(front) + 1] = layout[1]
    BY <1>3, <1>6 DEF IsConcat
  <2> QED
    BY <1>3, <1>5, <2>1
<1>9. \A i \in 1..(cloned + base) : items[i] = front[i]
  BY <1>5, <1>6 DEF IsConcat
<1>10. IsCloned => items[1] = clone[1]
  BY <1>1, <1>2, <1>4, <1>9 DEF IsConcat
<1>11. base = 1 => items[cloned + 1] = new[1]
  <2>1. base = 1 => front[cloned + 1] = new[1]
    BY <1>1, <1>2, <1>4 DEF IsConcat
  <2>2. base = 1 => cloned + 1 \in 1..(cloned + base)
    BY <1>1, <1>2
  <2> QED
    BY <1>9, <2>1, <2>2
<1>12. ForwardItems = items
  BY DEF ForwardItems
<1>13. AreForwardItems(items)
  BY <1>1, <1>2, <1>7, <1>8, <1>10, <1>11 DEF AreForwardItems
<1> QED
  BY <1>12, <1>13

\* What the two kinds of sends do.
LowerStands ==
  [k \in DOMAIN Pieces |->
     Stands(Len(NewSemaphore) + k * (IF IsTileToTile(program, Channel) THEN 2 ELSE 1),
            Pieces[k].leaves)]

LEMMA LowerSendIs ==
  ASSUME LowerSend
  PROVE  /\ HasSend /\ IsComputed /\ IsPlaced /\ ArePiecesLowered
         /\ Emit(LowerItems)
         /\ values' = Put(Channel, LowerStands[1], values)
         /\ lists' = Put(Channel, LowerStands, lists)
         /\ semaphores' = WithSemaphore /\ logical' = logical
         /\ at' = NextSend + 1
         /\ UNCHANGED <<program, phase, todo, deferred, lowered, progress, outputs>>
BY Zenon DEF LowerSend, LowerItems, LowerStands, worklist

LEMMA ForwardSendIs ==
  ASSUME ForwardSend
  PROVE  /\ HasSend /\ ~IsComputed /\ IsPlaced /\ ArePiecesLowered
         /\ Emit(ForwardItems)
         /\ logical' = Put(Channel, Source, logical)
         /\ values' = Put(Channel, ForwardStands, values)
         /\ lists' = Put(Channel, <<ForwardStands>>, lists)
         /\ semaphores' = SemaphoreAt(Len(Clone) + 1)
         /\ at' = NextSend + 1
         /\ UNCHANGED <<program, phase, todo, deferred, lowered, progress, outputs>>
BY Zenon DEF ForwardSend, ForwardItems, ForwardStands, Layout, Source, Clone, IsCloned, worklist

-----------------------------------------------------------------------------
(* The values in the tables have been emitted, and no operation takes what is *)
(* erased.                                                                    *)

TablesHold ==
  /\ \A c \in DOMAIN values :
       /\ values[c] = [reads |-> values[c].reads, leaves |-> values[c].leaves]
       /\ values[c].reads \subseteq Emitted
  /\ \A c \in DOMAIN logical : logical[c].reads \subseteq Emitted
  /\ \A c \in DOMAIN semaphores :
       semaphores[c] \in Emitted /\ ItemAt(semaphores[c]).kind = "semaphore"
  /\ \A c \in DOMAIN lists : \E n \in Nat \ {0} : DOMAIN lists[c] = 1..n

ItemsHold ==
  \A w \in Emitted :
    /\ ItemAt(w).reads \subseteq Emitted \cup {Inside}
    /\ Inside \in ItemAt(w).reads => \E c \in ItemAt(w).chans : CutsOutErased(c)

EmissionInvariant == Blocks /\ TablesHold /\ ItemsHold

\* What a step may emit: operations that take what has been emitted, also by the
\* step itself, or are cut out of something inside.
AreSound(items) ==
  /\ IsList(items)
  /\ \A k \in 1..Len(items) :
       /\ items[k].reads \subseteq Emitted \cup {Inside} \cup {Fresh(j) : j \in 1..(k - 1)}
       /\ Inside \in items[k].reads => \E c \in items[k].chans : CutsOutErased(c)

\* Sound operations keep what is said of operations.
LEMMA SoundItemsHold ==
  ASSUME program \in Programs, EmissionInvariant, UNCHANGED program,
         NEW items, AreSound(items), Grown(items)
  PROVE  ItemsHold'
<1>1. /\ IsList(items) /\ Len(items) \in Nat
      /\ Emitted' = Emitted \cup {Fresh(k) : k \in 1..Len(items)}
  BY ListPlaces DEF AreSound, Grown
<1>2. \A c : CutsOutErased(c)' <=> CutsOutErased(c)
  BY ProgramStays
<1>3. ASSUME NEW w \in Emitted
      PROVE  /\ ItemAt(w)' = ItemAt(w)
             /\ ItemAt(w).reads \subseteq Emitted' \cup {Inside}
             /\ Inside \in ItemAt(w).reads => \E c \in ItemAt(w).chans : CutsOutErased(c)
  BY <1>1 DEF Grown, EmissionInvariant, ItemsHold
<1>4. ASSUME NEW k \in 1..Len(items), NEW w, w = Fresh(k)
      PROVE  /\ ItemAt(w)' = items[k]
             /\ items[k].reads \subseteq Emitted' \cup {Inside}
             /\ Inside \in items[k].reads => \E c \in items[k].chans : CutsOutErased(c)
  <2>1. ItemAt(w)' = items[k]
    BY <1>4 DEF Grown
  <2>2. \A j \in 1..(k - 1) : j \in 1..Len(items)
    BY <1>1
  <2>3. {Fresh(j) : j \in 1..(k - 1)} \subseteq Emitted'
    BY <1>1, <2>2
  <2>4. items[k].reads \subseteq Emitted' \cup {Inside}
    BY <1>1, <2>3 DEF AreSound
  <2> QED
    BY <2>1, <2>4 DEF AreSound
<1>5. ASSUME NEW w \in Emitted'
      PROVE  /\ ItemAt(w)'.reads \subseteq Emitted' \cup {Inside}
             /\ Inside \in ItemAt(w)'.reads => \E c \in ItemAt(w)'.chans : CutsOutErased(c)
  <2>1. CASE w \in Emitted
    BY <1>3, <2>1
  <2>2. CASE \E k \in 1..Len(items) : w = Fresh(k)
    BY <1>4, <2>2
  <2> QED
    BY <1>1, <2>1, <2>2
<1> QED
  BY <1>2, <1>5 DEF ItemsHold, Inside

\* The semaphore of the channel that is sent stands among what has been emitted or is
\* one of the operations of the step.
LEMMA SemaphoreHolds ==
  ASSUME EmissionInvariant, NEW items, Grown(items), NEW k \in Nat,
         NewSemaphore # <<>> => k \in 1..Len(items) /\ items[k].kind = "semaphore",
         semaphores' = SemaphoreAt(k)
  PROVE  /\ \A c \in DOMAIN semaphores' :
              /\ semaphores'[c] \in Emitted'
              /\ \A v : v = semaphores'[c] => ItemAt(v)'.kind = "semaphore"
         /\ IsTileToTile(program, Channel) => Channel \in DOMAIN semaphores'
         /\ IsTileToTile(program, Channel) =>
              semaphores'[Channel] \in Emitted \cup (IF NewSemaphore = <<>> THEN {} ELSE {Fresh(k)})
<1>1. /\ Emitted' = Emitted \cup {Fresh(j) : j \in 1..Len(items)}
      /\ \A v \in Emitted : ItemAt(v)' = ItemAt(v)
      /\ \A j \in 1..Len(items) : \A v : v = Fresh(j) => ItemAt(v)' = items[j]
  BY DEF Grown
<1>2. \A c \in DOMAIN semaphores :
        semaphores[c] \in Emitted /\ ItemAt(semaphores[c]).kind = "semaphore"
  BY DEF EmissionInvariant, TablesHold
<1>3. \A c \in DOMAIN semaphores :
        semaphores[c] \in Emitted' /\ \A v : v = semaphores[c] => ItemAt(v)'.kind = "semaphore"
  BY <1>1, <1>2
<1>4. CASE NewSemaphore = <<>>
  <2>1. semaphores' = semaphores
    BY <1>4 DEF SemaphoreAt
  <2>2. IsTileToTile(program, Channel) => Channel \in DOMAIN semaphores
    BY <1>4 DEF NewSemaphore
  <2>3. \A c \in DOMAIN semaphores' :
          semaphores'[c] \in Emitted' /\ \A v : v = semaphores'[c] => ItemAt(v)'.kind = "semaphore"
    BY <1>3, <2>1
  <2> QED
    BY <1>2, <1>4, <2>1, <2>2, <2>3
<1>5. CASE NewSemaphore # <<>>
  <2> PICK c, v, table : c = Channel /\ v = Fresh(k) /\ table = semaphores
    OBVIOUS
  <2>1. /\ DOMAIN semaphores' = {c} \cup DOMAIN semaphores /\ semaphores'[c] = v
        /\ \A d \in DOMAIN semaphores : d # c => semaphores'[d] = semaphores[d]
    <3>1. semaphores' = Put(c, v, table)
      BY <1>5 DEF SemaphoreAt
    <3>2. /\ DOMAIN Put(c, v, table) = {c} \cup DOMAIN table
          /\ Put(c, v, table)[c] = v
          /\ \A d \in DOMAIN table : d # c => Put(c, v, table)[d] = table[d]
      BY DEF Put
    <3> QED
      BY <3>1, <3>2
  <2>2. v \in Emitted' /\ ItemAt(v)'.kind = "semaphore"
    BY <1>1, <1>5
  <2>3. \A d \in DOMAIN semaphores' :
          semaphores'[d] \in Emitted' /\ \A u : u = semaphores'[d] => ItemAt(u)'.kind = "semaphore"
    BY <1>3, <2>1, <2>2
  <2> QED
    BY <1>5, <2>1, <2>3
<1> QED
  BY <1>4, <1>5

\* The first of the channels that are awaited has a value.
LEMMA FirstAwaitedIs ==
  ASSUME WorklistInvariant, phase = "lower", todo # <<>>, Awaited # {}
  PROVE  /\ \E k \in Awaited : FirstAwaited = Body[k].name
         /\ FirstAwaited \in DOMAIN values \cap DOMAIN semaphores
<1>1. Awaited \in SUBSET Nat
  BY BodyIsNumbered DEF Awaited
<1>2. \E k \in Awaited : \A j \in Awaited : k <= j
  BY <1>1, LeastNumber
<1>3. \E k \in Awaited : FirstAwaited = Body[k].name
  BY <1>2 DEF FirstAwaited
<1> QED
  BY <1>3 DEF Awaited

\* A step that emits nothing and changes no table.
LEMMA StaysKeepsEmission ==
  ASSUME EmissionInvariant, UNCHANGED <<program, block, values, lists, logical, semaphores>>
  PROVE  EmissionInvariant'
<1>1. \A c : CutsOutErased(c)' <=> CutsOutErased(c)
  BY ProgramStays
<1>2. Emitted' = Emitted /\ \A w : ItemAt(w)' = ItemAt(w)
  BY DEF Emitted, ItemAt
<1>3. Blocks'
  BY DEF EmissionInvariant, Blocks
<1>4. TablesHold'
  <2>1. \A c \in DOMAIN semaphores : semaphores'[c] = semaphores[c]
    OBVIOUS
  <2> QED
    BY <1>2, <2>1 DEF EmissionInvariant, TablesHold, ItemAt
<1>5. ItemsHold'
  BY <1>1, <1>2 DEF EmissionInvariant, ItemsHold, Inside
<1> QED
  BY <1>3, <1>4, <1>5 DEF EmissionInvariant

\* Nothing has been emitted at first.
LEMMA EmissionStarts == Init => EmissionInvariant
<1> SUFFICES ASSUME Init
             PROVE  EmissionInvariant
  OBVIOUS
<1>1. block = [t \in DOMAIN program.tiles |-> <<>>]
  BY DEF Init
<1>2. Blocks
  BY <1>1, ListPlaces DEF Blocks
<1>3. Emitted = {}
  BY <1>1 DEF Emitted
<1>4. DOMAIN values = {} /\ DOMAIN lists = {} /\ DOMAIN logical = {} /\ DOMAIN semaphores = {}
  BY DEF Init
<1> QED
  BY <1>2, <1>3, <1>4 DEF EmissionInvariant, TablesHold, ItemsHold

\* What a step emits, if anything.
EmitsNothing == UNCHANGED block
EmitsWait ==
  /\ Awaited # {}
  /\ \E items : /\ Len(items) = 1 /\ items[1] = WaitItem
                /\ AreSound(items) /\ Grown(items)
EmitsPieces ==
  \E items : \E n \in Nat \ {0} :
    DOMAIN Pieces = 1..n /\ AreLowerItems(items, n) /\ AreSound(items) /\ Grown(items)
EmitsValue == \E items : AreForwardItems(items) /\ AreSound(items) /\ Grown(items)
EmitsSemaphore ==
  \E items : /\ \A k \in 1..Len(items) : items[k].kind = "semaphore"
            /\ AreSound(items) /\ Grown(items)

\* A tile that begins may emit a wait.
LEMMA BeginKeepsEmission ==
  WorklistInvariant /\ TablesInvariant /\ EmissionInvariant /\ BeginTile
    => EmissionInvariant' /\ (EmitsNothing \/ EmitsWait)
<1> SUFFICES ASSUME WorklistInvariant, TablesInvariant, EmissionInvariant, BeginTile
             PROVE  EmissionInvariant' /\ (EmitsNothing \/ EmitsWait)
  OBVIOUS
<1>1. /\ phase = "lower" /\ todo # <<>> /\ program \in Programs
      /\ UNCHANGED <<program, lists, logical, semaphores>>
  BY DEF BeginTile, WorklistInvariant
<1>2. CASE Awaited = {}
  <2>1. UNCHANGED <<block, values>>
    BY <1>2 DEF BeginTile
  <2> QED
    BY <1>1, <2>1, StaysKeepsEmission DEF EmitsNothing
<1>3. CASE Awaited # {}
  <2> PICK first, fresh, wait : first = FirstAwaited /\ fresh = Fresh(1) /\ wait = WaitItem
    OBVIOUS
  <2> PICK items : items = <<wait>>
    OBVIOUS
  <2>1. IsList(items) /\ Len(items) = 1 /\ items[1] = wait
    BY ListPlaces
  <2>2. Emit(items) /\ values' = [values EXCEPT ![first].reads = {fresh}]
    BY <1>3 DEF BeginTile
  <2>3. Grown(items)
    BY <1>1, <2>1, <2>2, BodyIsNumbered, EmitAdds DEF EmissionInvariant
  <2>4. first \in DOMAIN values
    BY <1>1, <1>3, FirstAwaitedIs
  <2>5. wait.reads = values[first].reads \cup
                       {semaphores[c] : c \in {Body[k].name : k \in Awaited}}
    BY DEF WaitItem, Item, Lowered
  <2>6. wait.reads \subseteq Emitted /\ Inside \notin wait.reads
    <3>1. values[first].reads \subseteq Emitted
      BY <2>4 DEF EmissionInvariant, TablesHold
    <3>2. \A k \in Awaited : semaphores[Body[k].name] \in Emitted
      BY DEF Awaited, EmissionInvariant, TablesHold
    <3>3. Inside \notin Emitted
      BY <1>1, EmittedValues DEF EmissionInvariant
    <3> QED
      BY <2>5, <3>1, <3>2, <3>3
  <2>7. AreSound(items)
    <3>1. \A k \in 1..Len(items) : items[k] = wait
      BY <2>1
    <3> QED
      BY <2>1, <2>6, <3>1 DEF AreSound
  <2>8. ItemsHold'
    BY <1>1, <2>3, <2>7, SoundItemsHold
  <2>9. /\ Emitted \subseteq Emitted' /\ fresh \in Emitted'
        /\ \A v \in Emitted : ItemAt(v)' = ItemAt(v)
    <3>1. 1 \in 1..Len(items)
      BY <2>1
    <3> QED
      BY <2>3, <3>1 DEF Grown
  <2>10. TablesHold'
    <3>1. \A c \in DOMAIN values :
            /\ values[c] = [reads |-> values[c].reads, leaves |-> values[c].leaves]
            /\ values[c].reads \subseteq Emitted
      BY DEF EmissionInvariant, TablesHold
    <3>2. /\ DOMAIN values' = DOMAIN values
          /\ values'[first] = [values[first] EXCEPT !.reads = {fresh}]
          /\ \A c \in DOMAIN values : c # first => values'[c] = values[c]
      BY <2>2, <2>4
    <3>3. values'[first] = [reads |-> {fresh}, leaves |-> values[first].leaves]
      BY <2>4, <3>1, <3>2
    <3>4. \A c \in DOMAIN values' :
            /\ values'[c] = [reads |-> values'[c].reads, leaves |-> values'[c].leaves]
            /\ values'[c].reads \subseteq Emitted'
      BY <2>9, <3>1, <3>2, <3>3
    <3>5. \A c \in DOMAIN logical : logical[c].reads \subseteq Emitted'
      BY <2>9 DEF EmissionInvariant, TablesHold
    <3>6. \A c \in DOMAIN semaphores :
            /\ semaphores[c] \in Emitted'
            /\ \A v : v = semaphores[c] => ItemAt(v)'.kind = "semaphore"
      BY <2>9 DEF EmissionInvariant, TablesHold
    <3>7. \A c \in DOMAIN semaphores' : ItemAt(semaphores[c])'.kind = "semaphore"
      BY <1>1, <3>6 DEF ItemAt
    <3>8. \A c \in DOMAIN lists : \E n \in Nat \ {0} : DOMAIN lists[c] = 1..n
      BY DEF EmissionInvariant, TablesHold
    <3> QED
      BY <1>1, <3>4, <3>5, <3>6, <3>7, <3>8 DEF TablesHold
  <2>11. EmitsWait
    <3>1. Len(items) = 1 /\ items[1] = WaitItem
      BY <2>1
    <3> QED
      BY <1>3, <2>3, <2>7, <3>1 DEF EmitsWait
  <2> QED
    BY <2>3, <2>8, <2>10, <2>11 DEF EmissionInvariant, Grown
<1> QED
  BY <1>2, <1>3

\* The pieces of a send that is lowered: what they read has been emitted, unless they
\* are cut out of something inside; those of a value that is passed on are one.
LEMMA PiecesHold ==
  ASSUME WorklistInvariant, TablesInvariant, EmissionInvariant, HasSend, ArePiecesLowered
  PROVE  /\ \E n \in Nat \ {0} : DOMAIN Pieces = 1..n
         /\ \A m \in DOMAIN Pieces :
              /\ Pieces[m].reads \subseteq Emitted \cup {Inside}
              /\ Inside \in Pieces[m].reads => CutsOutErased(Channel)
              /\ ~IsComputed => Pieces[m].reads \subseteq Emitted
         /\ ~IsSharded(Channel) => DOMAIN Pieces = {1}
         /\ ~IsComputed => ~IsSharded(Channel)
         /\ ~Cuts(Channel) => UNION {Pieces[m].leaves : m \in DOMAIN Pieces} = Sent(program, Channel)
<1>1. IsWellFormed
  BY DEF HasSend, TablesInvariant
<1>2. /\ IsBody(Body) /\ NamesAreApart(Body)
      /\ NextSend \in DOMAIN Body /\ Body[NextSend].kind = "send"
      /\ CutsOutErased(Channel) <=>
           IsComputed /\ TakesInside(Body, SentValue(Body, NextSend), SentPart(Body, NextSend))
      /\ Cuts(Channel) <=>
           IsComputed /\ LosesPart(Body, SentValue(Body, NextSend), SentPart(Body, NextSend))
      /\ Sent(program, Channel) = Leaves(Body)[<<Send.args[1], Whole>>]
      /\ BodyOf(Channel) = Body
      /\ Asked(Channel) = <<SentValue(Body, NextSend), SentPart(Body, NextSend)>>
      /\ RootKind(Channel) = SentKind(Body, NextSend)
  BY <1>1, NextSendIsSender
<1>3. DOMAIN logical \subseteq DOMAIN values
  BY DEF TablesInvariant
<1>4. PiecesMean(Body, NextSend, values, logical)
  BY <1>2, <1>3, PiecesAreMeant
<1>5. ReadsOf(values) \subseteq Emitted /\ ReadsOf(logical) \subseteq Emitted
  BY DEF ReadsOf, EmissionInvariant, TablesHold
<1>6. Inside \notin Emitted
  BY EmittedValues DEF EmissionInvariant, WorklistInvariant
<1> DEFINE v == SentValue(Body, NextSend)
           part == SentPart(Body, NextSend)
           R == ReadsOf(values) \cup ReadsOf(logical)
<1>7. /\ \E n \in Nat \ {0} : DOMAIN Pieces = 1..n
      /\ (SentKind(Body, NextSend) # "add"
           \/ \A m \in 1..2 : Body[Body[v].args[m]].kind # "concat") => DOMAIN Pieces = {1}
      /\ ~(IsComputed /\ LosesPart(Body, v, part)) =>
           UNION {Pieces[m].leaves : m \in DOMAIN Pieces} = Leaves(Body)[<<Send.args[1], Whole>>]
      /\ ~(IsComputed /\ TakesInside(Body, v, part)) =>
           \A m \in DOMAIN Pieces : Pieces[m].reads \subseteq R
      /\ \A m \in DOMAIN Pieces : Pieces[m].reads \subseteq R \cup {Inside}
      /\ ~IsComputed => \A m \in DOMAIN Pieces : Pieces[m].reads \subseteq ReadsOf(logical)
  BY <1>4 DEF PiecesMean, ArePiecesLowered, Pieces, IsComputed, Send
<1>8. IsSharded(Channel) <=>
        /\ SentKind(Body, NextSend) = "add"
        /\ \E m \in 1..2 : Body[Body[v].args[m]].kind = "concat"
  <2>1. Asked(Channel)[1] = v
    BY <1>2
  <2> QED
    BY <1>2, <2>1 DEF IsSharded
<1>9. ~IsSharded(Channel) => DOMAIN Pieces = {1}
  BY <1>7, <1>8
<1>10. ~IsComputed => ~IsSharded(Channel)
  BY <1>8 DEF IsComputed, Residual
<1>11. \A m \in DOMAIN Pieces :
         /\ Pieces[m].reads \subseteq Emitted \cup {Inside}
         /\ Inside \in Pieces[m].reads => CutsOutErased(Channel)
         /\ ~IsComputed => Pieces[m].reads \subseteq Emitted
  BY <1>2, <1>5, <1>6, <1>7
<1>12. ~Cuts(Channel) => UNION {Pieces[m].leaves : m \in DOMAIN Pieces} = Sent(program, Channel)
  BY <1>2, <1>7
<1> QED
  BY <1>7, <1>9, <1>10, <1>11, <1>12

\* An operation, field by field.
LEMMA ItemIs ==
  ASSUME NEW kind, NEW chans, NEW r
  PROVE  /\ Item(kind, chans, r).kind = kind /\ Item(kind, chans, r).chans = chans
         /\ Item(kind, chans, r).reads = r.reads /\ Item(kind, chans, r).leaves = r.leaves
BY DEF Item

\* Tables that are set for the channel of a send hold when the new entries do.
LEMMA SetTablesHold ==
  ASSUME EmissionInvariant, Emitted \subseteq Emitted', NEW c, NEW v, NEW l,
         values' = Put(c, v, values), lists' = Put(c, l, lists),
         v = [reads |-> v.reads, leaves |-> v.leaves], v.reads \subseteq Emitted',
         \E n \in Nat \ {0} : DOMAIN l = 1..n,
         \A d \in DOMAIN logical' : logical'[d].reads \subseteq Emitted',
         \A d \in DOMAIN semaphores' :
           /\ semaphores'[d] \in Emitted'
           /\ \A u : u = semaphores'[d] => ItemAt(u)'.kind = "semaphore"
  PROVE  TablesHold'
<1>1. \A d \in DOMAIN values :
        /\ values[d] = [reads |-> values[d].reads, leaves |-> values[d].leaves]
        /\ values[d].reads \subseteq Emitted'
  BY DEF EmissionInvariant, TablesHold
<1>2. \A d \in DOMAIN lists : \E n \in Nat \ {0} : DOMAIN lists[d] = 1..n
  BY DEF EmissionInvariant, TablesHold
<1>3. /\ DOMAIN values' = {c} \cup DOMAIN values /\ values'[c] = v
      /\ \A d \in DOMAIN values : d # c => values'[d] = values[d]
  BY DEF Put
<1>4. /\ DOMAIN lists' = {c} \cup DOMAIN lists /\ lists'[c] = l
      /\ \A d \in DOMAIN lists : d # c => lists'[d] = lists[d]
  BY DEF Put
<1>5. \A d \in DOMAIN values' :
        /\ values'[d] = [reads |-> values'[d].reads, leaves |-> values'[d].leaves]
        /\ values'[d].reads \subseteq Emitted'
  BY <1>1, <1>3
<1>6. \A d \in DOMAIN lists' : \E n \in Nat \ {0} : DOMAIN lists'[d] = 1..n
  BY <1>2, <1>4
<1>7. \A d \in DOMAIN semaphores' : ItemAt(semaphores[d])'.kind = "semaphore"
  BY DEF ItemAt
<1> QED
  BY <1>5, <1>6, <1>7 DEF TablesHold

\* A computed send.
LEMMA LowerKeepsEmission ==
  WorklistInvariant /\ TablesInvariant /\ EmissionInvariant /\ LowerSend
    => EmissionInvariant' /\ EmitsPieces
<1> SUFFICES ASSUME WorklistInvariant, TablesInvariant, EmissionInvariant, LowerSend
             PROVE  EmissionInvariant' /\ EmitsPieces
  OBVIOUS
<1>1. /\ HasSend /\ ArePiecesLowered /\ Emit(LowerItems)
      /\ values' = Put(Channel, LowerStands[1], values)
      /\ lists' = Put(Channel, LowerStands, lists)
      /\ semaphores' = SemaphoreAt(1) /\ logical' = logical /\ program' = program
  BY LowerSendIs DEF WithSemaphore
<1>2. program \in Programs /\ phase = "lower" /\ todo # <<>> /\ Tile \in DOMAIN program.tiles
  BY <1>1, BodyIsNumbered DEF WorklistInvariant, HasSend
<1>3. PICK n \in Nat \ {0} : DOMAIN Pieces = 1..n
  BY <1>1, PiecesHold
<1>4. \A m \in 1..n : /\ Pieces[m].reads \subseteq Emitted \cup {Inside}
                      /\ Inside \in Pieces[m].reads => CutsOutErased(Channel)
  BY <1>1, <1>3, PiecesHold
<1> PICK items, base, c : items = LowerItems /\ base = Len(NewSemaphore) /\ c = Channel
  OBVIOUS
<1>5. AreLowerItems(items, n)
  BY <1>3, LowerItemsAre
<1>6. IsList(items) /\ base \in {0, 1} /\ (base = 0 => NewSemaphore = <<>>)
      /\ (base = 1 => NewSemaphore # <<>>)
  BY <1>5, NewSemaphoreIs DEF AreLowerItems
<1>7. Grown(items)
  BY <1>1, <1>2, <1>6, EmitAdds DEF EmissionInvariant
<1>8. base = 1 => 1 \in 1..Len(items) /\ items[1].kind = "semaphore"
  <2>1. base = 1 => items[1] = Item("semaphore", {Channel}, Lowered({}, {}))
    BY <1>5 DEF AreLowerItems
  <2>2. base = 1 => Len(items) \in Nat /\ Len(items) >= 1
    BY <1>5, ListPlaces DEF AreLowerItems
  <2> QED
    BY <2>1, <2>2 DEF Item
<1>9. /\ \A d \in DOMAIN semaphores' :
           /\ semaphores'[d] \in Emitted'
           /\ \A v : v = semaphores'[d] => ItemAt(v)'.kind = "semaphore"
      /\ IsTileToTile(program, Channel) =>
           semaphores'[Channel] \in Emitted \cup (IF NewSemaphore = <<>> THEN {} ELSE {Fresh(1)})
  BY <1>1, <1>6, <1>7, <1>8, SemaphoreHolds
<1>10. AreSound(items)
  <2> DEFINE Sound(k) ==
               /\ items[k].reads \subseteq Emitted \cup {Inside} \cup {Fresh(j) : j \in 1..(k - 1)}
               /\ Inside \in items[k].reads => \E d \in items[k].chans : CutsOutErased(d)
  <2>1. base = 1 => Sound(1)
    <3>1. base = 1 => items[1] = Item("semaphore", {Channel}, Lowered({}, {}))
      BY <1>5 DEF AreLowerItems
    <3> QED
      BY <3>1 DEF Item, Lowered
  <2>2. ASSUME NEW m \in 1..n, NEW k \in Nat, items[k] = Item("compute", {Channel}, Pieces[m])
        PROVE  Sound(k)
    <3>1. items[k].reads = Pieces[m].reads /\ items[k].chans = {Channel}
      BY <2>2 DEF Item
    <3> QED
      BY <1>4, <3>1
  <2>3. ASSUME NEW m \in 1..n, IsTileToTile(program, Channel), items[base + 2 * m] = Signal(m)
        PROVE  Sound(base + 2 * m)
    <3> PICK k : k = base + 2 * m
      OBVIOUS
    <3>1. k \in Nat /\ k - 1 \in 1..(k - 1) /\ (base = 1 => 1 \in 1..(k - 1))
          /\ base + 2 * m - 1 = k - 1
      BY <1>6
    <3>2. items[k].reads = {Fresh(k - 1), WithSemaphore[Channel]} /\ items[k].chans = {Channel}
      BY <2>3, <3>1 DEF Signal, Item, Lowered
    <3>3. Fresh(k - 1) \in {Fresh(j) : j \in 1..(k - 1)}
      BY <3>1
    <3>4. WithSemaphore[Channel] \in Emitted \cup {Fresh(j) : j \in 1..(k - 1)}
      BY <1>1, <1>6, <1>9, <2>3, <3>1 DEF WithSemaphore
    <3>5. Inside \notin Emitted
      BY <1>2, EmittedValues DEF EmissionInvariant
    <3>6. \A j : Fresh(j) # Inside
      <4>1. 0 \notin DOMAIN program.tiles
        BY <1>2, TilesAreNumbered
      <4> QED
        BY <1>2, <4>1 DEF Fresh, Inside
    <3>7. Inside \notin items[k].reads
      BY <3>2, <3>4, <3>5, <3>6
    <3> QED
      BY <3>2, <3>3, <3>4, <3>7
  <2> HIDE DEF Sound
  <2>4. ASSUME NEW k \in 1..Len(items)
        PROVE  Sound(k)
    <3>1. CASE base = 1 /\ k = 1
      BY <2>1, <3>1
    <3>2. CASE ~(base = 1 /\ k = 1) /\ ~IsTileToTile(program, Channel)
      <4>1. k - base \in 1..n /\ k = base + (k - base) /\ k \in Nat
        BY <1>5, <1>6, <3>2 DEF AreLowerItems
      <4>2. items[k] = Item("compute", {Channel}, Pieces[k - base])
        BY <1>5, <3>2, <4>1 DEF AreLowerItems
      <4> QED
        BY <2>2, <4>1, <4>2
    <3>3. CASE ~(base = 1 /\ k = 1) /\ IsTileToTile(program, Channel)
      <4>1. ~(k <= base)
        BY <1>6, <3>3
      <4>2. PICK m \in 1..n : k \in {base + 2 * m - 1, base + 2 * m}
        BY <1>5, <3>3, <4>1 DEF AreLowerItems
      <4>3. /\ items[base + 2 * m - 1] = Item("compute", {Channel}, Pieces[m])
            /\ items[base + 2 * m] = Signal(m)
        BY <1>5, <3>3 DEF AreLowerItems
      <4> QED
        BY <2>2, <2>3, <3>3, <4>2, <4>3
    <3> QED
      BY <3>1, <3>2, <3>3
  <2> QED
    BY <1>6, <2>4 DEF AreSound, Sound
<1>11. ItemsHold'
  BY <1>1, <1>2, <1>7, <1>10, SoundItemsHold
<1>12. TablesHold'
  <2> PICK stands : stands = LowerStands
    OBVIOUS
  <2>1. DOMAIN stands = 1..n /\ 1 \in 1..n
    BY <1>3 DEF LowerStands
  <2> DEFINE width == IF IsTileToTile(program, Channel) THEN 2 ELSE 1
  <2>2. stands[1] = Stands(base + width, Pieces[1].leaves)
    <3>1. stands[1] = Stands(base + 1 * width, Pieces[1].leaves)
      BY <1>3, <2>1 DEF LowerStands
    <3>2. 1 * width = width
      OBVIOUS
    <3> QED
      BY <3>1, <3>2
  <2>3. base + width \in 1..Len(items)
    <3>1. CASE IsTileToTile(program, Channel)
      BY <1>5, <1>6, <3>1 DEF AreLowerItems
    <3>2. CASE ~IsTileToTile(program, Channel)
      BY <1>5, <1>6, <3>2 DEF AreLowerItems
    <3> QED
      BY <3>1, <3>2
  <2> PICK v : v = stands[1]
    OBVIOUS
  <2>4. v = [reads |-> v.reads, leaves |-> v.leaves] /\ v.reads \subseteq Emitted'
    <3>1. v = [reads |-> {Fresh(base + width)}, leaves |-> Pieces[1].leaves]
      BY <2>2 DEF Stands
    <3>2. Fresh(base + width) \in Emitted'
      BY <1>7, <2>3 DEF Grown
    <3> QED
      BY <3>1, <3>2
  <2>5. Emitted \subseteq Emitted'
    BY <1>7 DEF Grown
  <2>6. \A d \in DOMAIN logical' : logical'[d].reads \subseteq Emitted'
    BY <1>1, <2>5 DEF EmissionInvariant, TablesHold
  <2>7. values' = Put(c, v, values) /\ lists' = Put(c, stands, lists)
    BY <1>1
  <2>8. \E k \in Nat \ {0} : DOMAIN stands = 1..k
    BY <2>1
  <2> QED
    BY <1>9, <2>4, <2>5, <2>6, <2>7, <2>8, SetTablesHold
<1>13. EmitsPieces
  BY <1>3, <1>5, <1>7, <1>10 DEF EmitsPieces
<1> QED
  BY <1>7, <1>11, <1>12, <1>13 DEF EmissionInvariant, Grown

\* A send that passes a value on.
LEMMA ForwardKeepsEmission ==
  WorklistInvariant /\ TablesInvariant /\ EmissionInvariant /\ ForwardSend
    => EmissionInvariant' /\ EmitsValue
<1> SUFFICES ASSUME WorklistInvariant, TablesInvariant, EmissionInvariant, ForwardSend
             PROVE  EmissionInvariant' /\ EmitsValue
  OBVIOUS
<1>1. /\ HasSend /\ ~IsComputed /\ ArePiecesLowered /\ Emit(ForwardItems)
      /\ values' = Put(Channel, ForwardStands, values)
      /\ lists' = Put(Channel, <<ForwardStands>>, lists)
      /\ logical' = Put(Channel, Source, logical)
      /\ semaphores' = SemaphoreAt(Len(Clone) + 1) /\ program' = program
  BY ForwardSendIs
<1>2. program \in Programs /\ phase = "lower" /\ todo # <<>> /\ Tile \in DOMAIN program.tiles
  BY <1>1, BodyIsNumbered DEF WorklistInvariant, HasSend
<1>3. Pieces[1].reads \subseteq Emitted
  <2>1. /\ \E n \in Nat \ {0} : DOMAIN Pieces = 1..n
        /\ \A m \in DOMAIN Pieces : ~IsComputed => Pieces[m].reads \subseteq Emitted
    BY <1>1, PiecesHold
  <2>2. 1 \in DOMAIN Pieces
    BY <2>1
  <2> QED
    BY <1>1, <2>1, <2>2
<1> PICK items, base, cloned, c : items = ForwardItems /\ base = Len(NewSemaphore)
                                  /\ cloned = Len(Clone) /\ c = Channel
  OBVIOUS
<1>4. AreForwardItems(items)
  BY ForwardItemsAre
<1>5. /\ IsList(items) /\ base \in {0, 1} /\ (base = 0 => NewSemaphore = <<>>)
      /\ cloned = (IF IsCloned THEN 1 ELSE 0) /\ Len(items) = cloned + base + 1
      /\ IsCloned => items[1] = Item("clone", {Channel}, Pieces[1])
      /\ base = 1 => items[cloned + 1] = Item("semaphore", {Channel}, Lowered({}, {}))
      /\ items[cloned + base + 1] = Layout
  BY <1>4, NewSemaphoreIs DEF AreForwardItems
<1>6. Grown(items)
  BY <1>1, <1>2, <1>5, EmitAdds DEF EmissionInvariant
<1>7. /\ cloned + 1 \in Nat
      /\ NewSemaphore # <<>> => cloned + 1 \in 1..Len(items) /\ items[cloned + 1].kind = "semaphore"
  <2>1. NewSemaphore # <<>> => base = 1
    BY <1>5
  <2> QED
    BY <1>5, <2>1 DEF Item
<1>8. \A d \in DOMAIN semaphores' :
        /\ semaphores'[d] \in Emitted'
        /\ \A v : v = semaphores'[d] => ItemAt(v)'.kind = "semaphore"
  <2>1. semaphores' = SemaphoreAt(cloned + 1)
    BY <1>1
  <2> QED
    BY <1>6, <1>7, <2>1, SemaphoreHolds
<1>9. /\ Source = [reads |-> Source.reads, leaves |-> Pieces[1].leaves]
      /\ Source.reads \subseteq Emitted \cup {Fresh(1)}
      /\ ~IsCloned => Source.reads \subseteq Emitted
  BY <1>3 DEF Source, Stands
<1>10. Inside \notin Emitted /\ Inside # Fresh(1)
  <2>1. 0 \notin DOMAIN program.tiles
    BY <1>2, TilesAreNumbered
  <2>2. Inside # Fresh(1)
    BY <1>2, <2>1 DEF Fresh, Inside
  <2> QED
    BY <1>2, <2>2, EmittedValues DEF EmissionInvariant
<1>11. AreSound(items)
  <2> DEFINE Sound(k) ==
               /\ items[k].reads \subseteq Emitted \cup {Inside} \cup {Fresh(j) : j \in 1..(k - 1)}
               /\ Inside \in items[k].reads => \E d \in items[k].chans : CutsOutErased(d)
  <2>1. IsCloned => Sound(1)
    <3>1. IsCloned => items[1].reads = Pieces[1].reads
      BY <1>5 DEF Item
    <3> QED
      BY <1>3, <1>10, <3>1
  <2>2. base = 1 => Sound(cloned + 1)
    BY <1>5 DEF Item, Lowered
  <2>3. Sound(cloned + base + 1)
    <3> PICK k : k = cloned + base + 1
      OBVIOUS
    <3>1. items[k].reads = Source.reads
      BY <1>5 DEF Layout, Item, Lowered
    <3>2. IsCloned => 1 \in 1..(k - 1)
      BY <1>5
    <3>3. Source.reads \subseteq Emitted \cup {Fresh(j) : j \in 1..(k - 1)}
      BY <1>9, <3>2
    <3>4. Inside \notin Source.reads
      BY <1>9, <1>10
    <3> QED
      BY <3>1, <3>3, <3>4
  <2> HIDE DEF Sound
  <2>4. ASSUME NEW k \in 1..Len(items)
        PROVE  Sound(k)
    <3>1. \/ IsCloned /\ k = 1
          \/ base = 1 /\ k = cloned + 1
          \/ k = cloned + base + 1
      BY <1>5, ForwardPlaces
    <3> QED
      BY <2>1, <2>2, <2>3, <3>1
  <2> QED
    BY <1>5, <2>4 DEF AreSound, Sound
<1>12. ItemsHold'
  BY <1>1, <1>2, <1>6, <1>11, SoundItemsHold
<1>13. TablesHold'
  <2> PICK v, source : v = ForwardStands /\ source = Source
    OBVIOUS
  <2> PICK stands : stands = <<v>>
    OBVIOUS
  <2>1. DOMAIN stands = 1..1
    OBVIOUS
  <2>2. Emitted \subseteq Emitted' /\ Fresh(1) \in Emitted' /\ Fresh(cloned + base + 1) \in Emitted'
    <3>1. 1 \in 1..Len(items) /\ cloned + base + 1 \in 1..Len(items)
      BY <1>5
    <3> QED
      BY <1>6, <3>1 DEF Grown
  <2>3. v = [reads |-> v.reads, leaves |-> v.leaves] /\ v.reads \subseteq Emitted'
    BY <2>2 DEF ForwardStands, Stands
  <2>4. source.reads \subseteq Emitted'
    BY <1>9, <2>2
  <2>5. \A d \in DOMAIN logical' : logical'[d].reads \subseteq Emitted'
    <3>1. \A d \in DOMAIN logical : logical[d].reads \subseteq Emitted'
      BY <2>2 DEF EmissionInvariant, TablesHold
    <3>2. logical' = Put(c, source, logical)
      BY <1>1
    <3>3. /\ DOMAIN logical' = {c} \cup DOMAIN logical /\ logical'[c] = source
          /\ \A d \in DOMAIN logical : d # c => logical'[d] = logical[d]
      BY <3>2 DEF Put
    <3> QED
      BY <2>4, <3>1, <3>3
  <2>6. values' = Put(c, v, values) /\ lists' = Put(c, stands, lists)
    BY <1>1
  <2>7. \E k \in Nat \ {0} : DOMAIN stands = 1..k
    BY <2>1
  <2> QED
    BY <1>8, <2>2, <2>3, <2>5, <2>6, <2>7, SetTablesHold
<1>14. EmitsValue
  BY <1>4, <1>6, <1>11 DEF EmitsValue
<1> QED
  BY <1>6, <1>12, <1>13, <1>14 DEF EmissionInvariant, Grown

\* A tile that is put off may leave a semaphore behind.
LEMMA DeferKeepsEmission ==
  WorklistInvariant /\ EmissionInvariant /\ DeferTile
    => EmissionInvariant' /\ (EmitsNothing \/ EmitsSemaphore)
<1> SUFFICES ASSUME WorklistInvariant, EmissionInvariant, DeferTile
             PROVE  EmissionInvariant' /\ (EmitsNothing \/ EmitsSemaphore)
  OBVIOUS
<1>1. UNCHANGED <<program, values, lists, logical>> /\ HasSend
  BY DEF DeferTile
<1>2. CASE ~IsComputed
  <2>1. UNCHANGED <<block, semaphores>>
    BY <1>2 DEF DeferTile
  <2> QED
    BY <1>1, <2>1, StaysKeepsEmission DEF EmitsNothing
<1>3. CASE IsComputed
  <2>1. program \in Programs /\ Tile \in DOMAIN program.tiles
    BY <1>1, BodyIsNumbered DEF WorklistInvariant, HasSend
  <2> PICK items : items = NewSemaphore
    OBVIOUS
  <2>2. Emit(items) /\ semaphores' = SemaphoreAt(1)
    BY <1>3 DEF DeferTile, WithSemaphore
  <2>3. /\ IsList(items) /\ Len(items) \in {0, 1} /\ (Len(items) = 0 => NewSemaphore = <<>>)
        /\ Len(items) = 1 => items[1] = Item("semaphore", {Channel}, Lowered({}, {}))
    BY NewSemaphoreIs
  <2>4. Grown(items)
    BY <1>1, <2>1, <2>2, <2>3, EmitAdds DEF EmissionInvariant
  <2>5. AreSound(items)
    <3>1. \A k \in 1..Len(items) : k = 1 /\ Len(items) = 1
      <4> PICK m : m = Len(items)
        OBVIOUS
      <4>1. m \in {0, 1}
        BY <2>3
      <4>2. \A k \in 1..m : k = 1 /\ m = 1
        BY <4>1
      <4> QED
        BY <4>2
    <3>2. \A k \in 1..Len(items) : items[k].reads = {}
      BY <2>3, <3>1 DEF Item, Lowered
    <3> QED
      BY <2>3, <3>2 DEF AreSound
  <2>6. ItemsHold'
    BY <1>1, <2>1, <2>4, <2>5, SoundItemsHold
  <2>7. NewSemaphore # <<>> => 1 \in 1..Len(items) /\ items[1].kind = "semaphore"
    <3>1. NewSemaphore # <<>> => Len(items) = 1
      BY <2>3
    <3> QED
      BY <2>3, <3>1 DEF Item
  <2>8. \A c \in DOMAIN semaphores' :
          /\ semaphores'[c] \in Emitted'
          /\ \A v : v = semaphores'[c] => ItemAt(v)'.kind = "semaphore"
    BY <2>2, <2>4, <2>7, SemaphoreHolds
  <2>9. TablesHold'
    <3>1. Emitted \subseteq Emitted'
      BY <2>4 DEF Grown
    <3>2. \A c \in DOMAIN semaphores' : ItemAt(semaphores[c])'.kind = "semaphore"
      BY <2>8 DEF ItemAt
    <3> QED
      BY <1>1, <2>8, <3>1, <3>2 DEF EmissionInvariant, TablesHold
  <2>10. EmitsSemaphore
    <3>1. \A k \in 1..Len(items) : k = 1 /\ Len(items) = 1
      <4> PICK m : m = Len(items)
        OBVIOUS
      <4>1. m \in {0, 1}
        BY <2>3
      <4>2. \A k \in 1..m : k = 1 /\ m = 1
        BY <4>1
      <4> QED
        BY <4>2
    <3>2. \A k \in 1..Len(items) : items[k].kind = "semaphore"
      BY <2>3, <3>1 DEF Item
    <3> QED
      BY <2>4, <2>5, <3>2 DEF EmitsSemaphore
  <2> QED
    BY <2>4, <2>6, <2>9, <2>10 DEF EmissionInvariant, Grown
<1> QED
  BY <1>2, <1>3

LEMMA StepsKeepEmission ==
  WorklistInvariant /\ TablesInvariant /\ EmissionInvariant /\ [Next]_vars => EmissionInvariant'
<1> SUFFICES ASSUME WorklistInvariant, TablesInvariant, EmissionInvariant, [Next]_vars
             PROVE  EmissionInvariant'
  OBVIOUS
<1>1. CASE Analyze \/ RefuseProgram
  BY <1>1, StaysKeepsEmission DEF Analyze, RefuseProgram, emission
<1>2. CASE Collect \/ EndCollection
  BY <1>2, StaysKeepsEmission DEF Collect, EndCollection, emission
<1>3. CASE BeginTile
  BY <1>3, BeginKeepsEmission
<1>4. CASE LowerSend
  BY <1>4, LowerKeepsEmission
<1>5. CASE ForwardSend
  BY <1>5, ForwardKeepsEmission
<1>6. CASE DeferTile
  BY <1>6, DeferKeepsEmission
<1>7. CASE AbortTile \/ FinishTile
  BY <1>7, StaysKeepsEmission DEF AbortTile, FinishTile, emission
<1>8. CASE NextPass \/ RefuseDependencies \/ EndLowering
  BY <1>8, StaysKeepsEmission DEF NextPass, RefuseDependencies, EndLowering, emission
<1>9. CASE FinishTransfers
  BY <1>9, StaysKeepsEmission DEF FinishTransfers, emission
<1>10. CASE UNCHANGED vars
  BY <1>10, StaysKeepsEmission DEF vars
<1> QED
  BY <1>1, <1>2, <1>3, <1>4, <1>5, <1>6, <1>7, <1>8, <1>9, <1>10 DEF Next

THEOREM EmissionKeeps == Spec => []EmissionInvariant
BY EmissionStarts, StepsKeepEmission, WorklistKeeps, TablesKeep, PTL DEF Spec

\* Whatever a program is: no operation that has been emitted takes a value from the
\* body of a tile, which is erased with it; except where an operand is cut out of one.
THEOREM NothingErasedIsEverRead == Spec => []NothingErasedIsRead
<1>1. EmissionInvariant => NothingErasedIsRead
  BY DEF EmissionInvariant, ItemsHold, NothingErasedIsRead
<1> QED
  BY <1>1, EmissionKeeps, PTL

-----------------------------------------------------------------------------
(* Types *)

\* The worklist holds compute tiles, also once the conversion has failed, and the
\* send that is looked for next is one of the first of them.
PlaceInvariant ==
  /\ phase \in {"analyze", "collect", "lower", "finish", "done", "failed"}
  /\ progress \in BOOLEAN
  /\ ToSet(todo) \cup ToSet(deferred) \cup lowered \subseteq ComputeTiles(program)
  /\ at \in 0..(IF phase = "collect" THEN Len(program.tiles)
                ELSE IF todo = <<>> THEN 0 ELSE Len(Body) + 1)

\* The body of a compute tile has a length.
LEMMA BodyHasLength ==
  ASSUME program \in Programs, NEW t \in ComputeTiles(program)
  PROVE  /\ Len(program.tiles[t].body) \in Nat
         /\ DOMAIN program.tiles[t].body = 1..Len(program.tiles[t].body)
<1>1. t \in DOMAIN program.tiles
  BY DEF ComputeTiles
<1>2. IsList(program.tiles[t].body)
  BY <1>1, ProgramsAssumption DEF IsBody
<1> QED
  BY <1>2, ListPlaces

LEMMA PlaceStarts == Init => PlaceInvariant
<1> SUFFICES ASSUME Init
             PROVE  PlaceInvariant
  OBVIOUS
<1>1. ToSet(todo) = {} /\ ToSet(deferred) = {} /\ lowered = {}
  BY EmptyList DEF Init
<1>2. phase = "analyze" /\ todo = <<>> /\ at = 0 /\ progress = FALSE
  BY DEF Init
<1>3. at \in 0..(IF phase = "collect" THEN Len(program.tiles)
                ELSE IF todo = <<>> THEN 0 ELSE Len(Body) + 1)
  BY <1>2
<1> QED
  BY <1>1, <1>2, <1>3 DEF PlaceInvariant

\* While tiles are collected or lowered, the worklist says itself what it holds.
LEMMA WorklistHolds ==
  ASSUME WorklistInvariant, phase \in {"analyze", "collect", "lower"}
  PROVE  ToSet(todo) \cup ToSet(deferred) \cup lowered \subseteq ComputeTiles(program)
<1>1. CASE phase \in {"analyze", "collect"}
  BY <1>1, EmptyList DEF WorklistInvariant, Walked
<1>2. CASE phase = "lower"
  BY <1>2 DEF WorklistInvariant, Listing
<1> QED
  BY <1>1, <1>2

LEMMA StepsKeepPlace ==
  WorklistInvariant /\ WorklistInvariant' /\ TablesInvariant /\ PlaceInvariant /\ [Next]_vars
    => PlaceInvariant'
<1> SUFFICES ASSUME WorklistInvariant, WorklistInvariant', TablesInvariant, PlaceInvariant,
                    [Next]_vars
             PROVE  PlaceInvariant'
  OBVIOUS
<1>1. program \in Programs /\ Len(program.tiles) \in Nat
  BY TilesAreNumbered DEF WorklistInvariant
<1>2. (phase \in {"analyze", "collect", "lower"} =>
         ToSet(todo) \cup ToSet(deferred) \cup lowered \subseteq ComputeTiles(program))'
  BY WorklistHolds, PTL
<1>3. ASSUME todo # <<>>
      PROVE  Len(Body) \in Nat
  <2>1. todo \in Seq(Nat)
    BY DEF WorklistInvariant
  <2>2. Head(todo) \in ToSet(todo)
    BY <1>3, <2>1, HeadTailList
  <2>3. Tile \in ComputeTiles(program)
    BY <2>2 DEF PlaceInvariant, Tile
  <2> QED
    BY <1>1, <2>3, BodyHasLength DEF Body
<1>4. ASSUME UNCHANGED <<program, todo>>
      PROVE  Body' = Body
  BY <1>4 DEF Body, Tile
<1>5. CASE Analyze \/ RefuseProgram
  <2>1. at = 0 /\ todo = <<>> /\ UNCHANGED <<program, worklist, at>> /\ phase' \in {"collect", "failed"}
    BY <1>5 DEF Analyze, RefuseProgram, WorklistInvariant
  <2> QED
    BY <1>1, <2>1 DEF PlaceInvariant, worklist
<1>6. CASE Collect
  <2>1. /\ phase = "collect" /\ phase' = "collect" /\ UNCHANGED <<program, progress, deferred, lowered>>
        /\ at' = at + 1 /\ at < Len(program.tiles)
    BY <1>6 DEF Collect
  <2> QED
    BY <1>1, <1>2, <2>1 DEF PlaceInvariant
<1>7. CASE EndCollection
  <2>1. phase' = "lower" /\ at' = 0 /\ UNCHANGED <<program, todo, deferred, lowered, progress>>
    BY <1>7 DEF EndCollection, worklist
  <2> QED
    BY <1>2, <1>3, <1>4, <2>1 DEF PlaceInvariant
<1>8. CASE BeginTile
  <2>1. /\ phase = "lower" /\ phase' = "lower" /\ at' = 1 /\ todo # <<>>
        /\ UNCHANGED <<program, todo, deferred, lowered, progress>>
    BY <1>8 DEF BeginTile, worklist
  <2> QED
    BY <1>3, <1>4, <2>1 DEF PlaceInvariant
<1>9. CASE LowerSend \/ ForwardSend
  <2>1. /\ HasSend /\ at' = NextSend + 1
        /\ UNCHANGED <<program, phase, todo, deferred, lowered, progress>>
    BY <1>9, SendGrowsTables
  <2>2. phase = "lower" /\ todo # <<>> /\ IsWellFormed
    BY <2>1 DEF HasSend, TablesInvariant
  <2>3. NextSend \in DOMAIN Body /\ IsBody(Body)
    BY <2>1, <2>2, NextSendIsSender
  <2>4. NextSend \in 1..Len(Body)
    BY <2>3, ListPlaces DEF IsBody
  <2> QED
    BY <1>3, <1>4, <2>1, <2>2, <2>4 DEF PlaceInvariant
<1>10. CASE DeferTile
  <2>1. /\ phase = "lower" /\ phase' = "lower" /\ at' = 0 /\ UNCHANGED <<program, progress>>
        /\ todo' = Tail(todo) /\ todo # <<>>
    BY <1>10 DEF DeferTile, HasSend
  <2>2. todo' = <<>> \/ Len(Body') \in Nat
    <3>1. CASE todo' # <<>>
      <4>1. todo' \in Seq(Nat)
        BY DEF WorklistInvariant
      <4>2. Head(todo') \in ToSet(todo)'
        BY <3>1, <4>1, HeadTailList DEF ToSet
      <4>3. Tile' \in ComputeTiles(program)
        BY <1>2, <2>1, <4>2 DEF Tile
      <4> QED
        BY <1>1, <2>1, <4>3, BodyHasLength DEF Body
    <3> QED
      BY <3>1
  <2> QED
    BY <1>2, <2>1, <2>2 DEF PlaceInvariant
<1>11. CASE AbortTile
  <2>1. /\ phase = "lower" /\ phase' = "failed" /\ UNCHANGED <<program, worklist, at>>
    BY <1>11 DEF AbortTile, HasSend
  <2> QED
    BY <1>4, <2>1 DEF PlaceInvariant, worklist
<1>12. CASE FinishTile
  <2>1. /\ phase = "lower" /\ phase' = "lower" /\ at' = 0 /\ program' = program
        /\ progress' = TRUE /\ todo' = Tail(todo) /\ todo # <<>>
    BY <1>12 DEF FinishTile
  <2>2. todo' = <<>> \/ Len(Body') \in Nat
    <3>1. CASE todo' # <<>>
      <4>1. todo' \in Seq(Nat)
        BY DEF WorklistInvariant
      <4>2. Head(todo') \in ToSet(todo)'
        BY <3>1, <4>1, HeadTailList DEF ToSet
      <4>3. Tile' \in ComputeTiles(program)
        BY <1>2, <2>1, <4>2 DEF Tile
      <4> QED
        BY <1>1, <2>1, <4>3, BodyHasLength DEF Body
    <3> QED
      BY <3>1
  <2> QED
    BY <1>2, <2>1, <2>2 DEF PlaceInvariant
<1>13. CASE NextPass
  <2>1. /\ phase = "lower" /\ phase' = "lower" /\ UNCHANGED <<program, at>>
        /\ progress' = FALSE /\ todo = <<>> /\ todo' = deferred
    BY <1>13 DEF NextPass
  <2>2. todo' = <<>> \/ Len(Body') \in Nat
    <3>1. CASE todo' # <<>>
      <4>1. todo' \in Seq(Nat)
        BY DEF WorklistInvariant
      <4>2. Head(todo') \in ToSet(todo)'
        BY <3>1, <4>1, HeadTailList DEF ToSet
      <4>3. Tile' \in ComputeTiles(program)
        BY <1>2, <2>1, <4>2 DEF Tile
      <4> QED
        BY <1>1, <2>1, <4>3, BodyHasLength DEF Body
    <3> QED
      BY <3>1
  <2>3. at' = 0
    BY <2>1 DEF PlaceInvariant
  <2>4. (ToSet(todo) \cup ToSet(deferred) \cup lowered \subseteq ComputeTiles(program))'
    BY <1>2, <2>1
  <2>5. at' \in 0..(IF phase' = "collect" THEN Len(program'.tiles)
                    ELSE IF todo' = <<>> THEN 0 ELSE Len(Body') + 1)
    BY <2>1, <2>2, <2>3
  <2> QED
    BY <2>1, <2>4, <2>5 DEF PlaceInvariant
<1>14. CASE RefuseDependencies \/ EndLowering
  <2>1. /\ phase = "lower" /\ phase' \in {"failed", "finish"} /\ UNCHANGED <<program, worklist, at>>
    BY <1>14 DEF RefuseDependencies, EndLowering
  <2> QED
    BY <1>4, <2>1 DEF PlaceInvariant, worklist
<1>15. CASE FinishTransfers
  <2>1. /\ phase = "finish" /\ phase' \in {"failed", "done"} /\ UNCHANGED <<program, worklist, at>>
    BY <1>15 DEF FinishTransfers
  <2> QED
    BY <1>4, <2>1 DEF PlaceInvariant, worklist
<1>16. CASE UNCHANGED vars
  BY <1>4, <1>16 DEF PlaceInvariant, vars
<1> QED
  BY <1>5, <1>6, <1>7, <1>8, <1>9, <1>10, <1>11, <1>12, <1>13, <1>14, <1>15, <1>16 DEF Next

\* The types of all variables: every value in a table is that of an operation that has
\* been emitted, the semaphore of a channel between tiles is one, and the worklist and the
\* send under way are those of compute tiles.
THEOREM LoweringIsTyped == Spec => []TypeOK
<1>1. WorklistInvariant /\ TablesInvariant /\ EmissionInvariant /\ PlaceInvariant => TypeOK
  <2> SUFFICES ASSUME WorklistInvariant, TablesInvariant, EmissionInvariant, PlaceInvariant
               PROVE  TypeOK
    OBVIOUS
  <2>1. \A v \in Emitted : Exists(v)
    BY EmittedValues, ListPlaces DEF Exists, EmissionInvariant, Blocks, WorklistInvariant
  <2>2. \A c \in DOMAIN lists : lists[c] # <<>>
    <3> SUFFICES ASSUME NEW c \in DOMAIN lists, lists[c] = <<>>
                 PROVE  FALSE
      OBVIOUS
    <3>1. PICK n \in Nat \ {0} : DOMAIN lists[c] = 1..n
      BY DEF EmissionInvariant, TablesHold
    <3>2. 1 \in DOMAIN lists[c] /\ DOMAIN lists[c] = {}
      BY <3>1
    <3> QED
      BY <3>2
  <2>3. /\ \A c \in DOMAIN semaphores :
             /\ IsTileToTile(program, c)
             /\ Exists(semaphores[c]) /\ ItemAt(semaphores[c]).kind = "semaphore"
        /\ \A c \in DOMAIN values : \A v \in values[c].reads \ {Inside} : Exists(v)
    BY <2>1 DEF EmissionInvariant, TablesHold, TablesInvariant
  <2>4. DOMAIN logical \subseteq DOMAIN values
    BY DEF TablesInvariant
  <2>5. {todo[k] : k \in DOMAIN todo} \cup {deferred[k] : k \in DOMAIN deferred}
          \cup lowered \subseteq ComputeTiles(program)
    BY DEF PlaceInvariant, ToSet
  <2> QED
    BY <2>2, <2>3, <2>4, <2>5 DEF TypeOK, PlaceInvariant, TablesInvariant
<1> QED
  BY <1>1, WorklistKeeps, TablesKeep, EmissionKeeps, PlaceStarts, StepsKeepPlace, PTL DEF Spec

-----------------------------------------------------------------------------
(* What channels stand for *)

\* A channel stands for the data sent on it, in pieces: one, unless a sum is sent in
\* shards; its value is the first of them.
StandsFor(c) ==
  /\ values[c].leaves = lists[c][1].leaves
  /\ ~IsSharded(c) => DOMAIN lists[c] = {1}
  /\ ~Cuts(c) => UNION {lists[c][k].leaves : k \in DOMAIN lists[c]} = Sent(program, c)

MeaningInvariant == \A c \in DOMAIN values : StandsFor(c)

\* A channel whose entries keep their data stands for the same.
LEMMA StandsForStays ==
  ASSUME UNCHANGED program, NEW c, StandsFor(c), values'[c].leaves = values[c].leaves,
         lists'[c] = lists[c]
  PROVE  StandsFor(c)'
BY ProgramStays DEF StandsFor

LEMMA StaysKeepsMeaning ==
  ASSUME MeaningInvariant, UNCHANGED <<program, values, lists>>
  PROVE  MeaningInvariant'
BY StandsForStays DEF MeaningInvariant

\* A send sets the entries of its channel.
LEMMA SetKeepsMeaning ==
  ASSUME TablesInvariant, MeaningInvariant, UNCHANGED program, NEW c, NEW v, NEW l,
         values' = Put(c, v, values), lists' = Put(c, l, lists),
         v.leaves = l[1].leaves, ~IsSharded(c) => DOMAIN l = {1},
         ~Cuts(c) => UNION {l[k].leaves : k \in DOMAIN l} = Sent(program, c)
  PROVE  MeaningInvariant'
<1>1. /\ DOMAIN values' = {c} \cup DOMAIN values /\ values'[c] = v
      /\ \A d \in DOMAIN values : d # c => values'[d] = values[d]
  BY DEF Put
<1>2. lists'[c] = l /\ \A d \in DOMAIN lists : d # c => lists'[d] = lists[d]
  BY DEF Put
<1>3. \A d \in DOMAIN values : d # c => StandsFor(d)'
  BY <1>1, <1>2, StandsForStays DEF MeaningInvariant, TablesInvariant
<1>4. StandsFor(c)'
  BY <1>1, <1>2, ProgramStays DEF StandsFor
<1> QED
  BY <1>1, <1>3, <1>4 DEF MeaningInvariant

LEMMA LowerKeepsMeaning ==
  WorklistInvariant /\ TablesInvariant /\ EmissionInvariant /\ MeaningInvariant /\ LowerSend
    => MeaningInvariant'
<1> SUFFICES ASSUME WorklistInvariant, TablesInvariant, EmissionInvariant, MeaningInvariant, LowerSend
             PROVE  MeaningInvariant'
  OBVIOUS
<1>1. /\ HasSend /\ ArePiecesLowered /\ program' = program
      /\ values' = Put(Channel, LowerStands[1], values)
      /\ lists' = Put(Channel, LowerStands, lists)
  BY LowerSendIs
<1>2. /\ \E n \in Nat \ {0} : DOMAIN Pieces = 1..n
      /\ ~IsSharded(Channel) => DOMAIN Pieces = {1}
      /\ ~Cuts(Channel) => UNION {Pieces[m].leaves : m \in DOMAIN Pieces} = Sent(program, Channel)
  BY <1>1, PiecesHold
<1> PICK stands, c : stands = LowerStands /\ c = Channel
  OBVIOUS
<1>3. DOMAIN stands = DOMAIN Pieces /\ \A m \in DOMAIN Pieces : stands[m].leaves = Pieces[m].leaves
  BY DEF LowerStands, Stands
<1>4. {stands[m].leaves : m \in DOMAIN stands} = {Pieces[m].leaves : m \in DOMAIN Pieces}
  BY <1>3
<1> PICK v : v = stands[1]
  OBVIOUS
<1>5. /\ values' = Put(c, v, values) /\ lists' = Put(c, stands, lists)
      /\ v.leaves = stands[1].leaves /\ (~IsSharded(c) => DOMAIN stands = {1})
      /\ ~Cuts(c) => UNION {stands[k].leaves : k \in DOMAIN stands} = Sent(program, c)
  BY <1>1, <1>2, <1>3, <1>4
<1> QED
  BY <1>1, <1>5, SetKeepsMeaning

LEMMA ForwardKeepsMeaning ==
  WorklistInvariant /\ TablesInvariant /\ EmissionInvariant /\ MeaningInvariant /\ ForwardSend
    => MeaningInvariant'
<1> SUFFICES ASSUME WorklistInvariant, TablesInvariant, EmissionInvariant, MeaningInvariant,
                    ForwardSend
             PROVE  MeaningInvariant'
  OBVIOUS
<1>1. /\ HasSend /\ ~IsComputed /\ ArePiecesLowered /\ program' = program
      /\ values' = Put(Channel, ForwardStands, values)
      /\ lists' = Put(Channel, <<ForwardStands>>, lists)
  BY ForwardSendIs
<1>2. /\ DOMAIN Pieces = {1}
      /\ ~Cuts(Channel) => UNION {Pieces[m].leaves : m \in DOMAIN Pieces} = Sent(program, Channel)
  BY <1>1, PiecesHold
<1> PICK v, c : v = ForwardStands /\ c = Channel
  OBVIOUS
<1> PICK stands : stands = <<v>>
  OBVIOUS
<1>3. DOMAIN stands = {1} /\ stands[1] = v /\ v.leaves = Pieces[1].leaves
  BY DEF ForwardStands, Stands
<1>4. {stands[m].leaves : m \in {1}} = {Pieces[m].leaves : m \in {1}}
  BY <1>3
<1>5. /\ values' = Put(c, v, values) /\ lists' = Put(c, stands, lists)
      /\ v.leaves = stands[1].leaves /\ (~IsSharded(c) => DOMAIN stands = {1})
      /\ ~Cuts(c) => UNION {stands[k].leaves : k \in DOMAIN stands} = Sent(program, c)
  BY <1>1, <1>2, <1>3, <1>4
<1> QED
  BY <1>1, <1>5, SetKeepsMeaning

\* A value that is waited for gets a new place and keeps its data.
LEMMA BeginKeepsMeaning ==
  WorklistInvariant /\ EmissionInvariant /\ MeaningInvariant /\ BeginTile => MeaningInvariant'
<1> SUFFICES ASSUME WorklistInvariant, EmissionInvariant, MeaningInvariant, BeginTile
             PROVE  MeaningInvariant'
  OBVIOUS
<1>1. UNCHANGED <<program, lists>>
  BY DEF BeginTile
<1>2. CASE Awaited = {}
  BY <1>1, <1>2, StaysKeepsMeaning DEF BeginTile
<1>3. CASE Awaited # {}
  <2> PICK first, fresh : first = FirstAwaited /\ fresh = Fresh(1)
    OBVIOUS
  <2>1. values' = [values EXCEPT ![first].reads = {fresh}] /\ phase = "lower" /\ todo # <<>>
    BY <1>3 DEF BeginTile
  <2>2. first \in DOMAIN values
    BY <1>3, <2>1, FirstAwaitedIs
  <2>3. values[first] = [reads |-> values[first].reads, leaves |-> values[first].leaves]
    BY <2>2 DEF EmissionInvariant, TablesHold
  <2>4. /\ DOMAIN values' = DOMAIN values
        /\ values'[first] = [values[first] EXCEPT !.reads = {fresh}]
        /\ \A c \in DOMAIN values : c # first => values'[c] = values[c]
    BY <2>1, <2>2
  <2>5. values'[first].leaves = values[first].leaves
    BY <2>3, <2>4
  <2>6. \A c \in DOMAIN values : values'[c].leaves = values[c].leaves
    BY <2>4, <2>5
  <2> QED
    BY <1>1, <2>4, <2>6, StandsForStays DEF MeaningInvariant
<1> QED
  BY <1>2, <1>3

LEMMA StepsKeepMeaning ==
  WorklistInvariant /\ TablesInvariant /\ EmissionInvariant /\ MeaningInvariant /\ [Next]_vars
    => MeaningInvariant'
<1> SUFFICES ASSUME WorklistInvariant, TablesInvariant, EmissionInvariant, MeaningInvariant,
                    [Next]_vars
             PROVE  MeaningInvariant'
  OBVIOUS
<1>1. CASE Analyze \/ RefuseProgram
  BY <1>1, StaysKeepsMeaning DEF Analyze, RefuseProgram, emission
<1>2. CASE Collect \/ EndCollection
  BY <1>2, StaysKeepsMeaning DEF Collect, EndCollection, emission
<1>3. CASE BeginTile
  BY <1>3, BeginKeepsMeaning
<1>4. CASE LowerSend
  BY <1>4, LowerKeepsMeaning
<1>5. CASE ForwardSend
  BY <1>5, ForwardKeepsMeaning
<1>6. CASE DeferTile
  BY <1>6, StaysKeepsMeaning DEF DeferTile
<1>7. CASE AbortTile \/ FinishTile
  BY <1>7, StaysKeepsMeaning DEF AbortTile, FinishTile, emission
<1>8. CASE NextPass \/ RefuseDependencies \/ EndLowering
  BY <1>8, StaysKeepsMeaning DEF NextPass, RefuseDependencies, EndLowering, emission
<1>9. CASE FinishTransfers
  BY <1>9, StaysKeepsMeaning DEF FinishTransfers, emission
<1>10. CASE UNCHANGED vars
  BY <1>10, StaysKeepsMeaning DEF vars
<1> QED
  BY <1>1, <1>2, <1>3, <1>4, <1>5, <1>6, <1>7, <1>8, <1>9, <1>10 DEF Next

LEMMA MeaningStarts == Init => MeaningInvariant
<1> SUFFICES ASSUME Init
             PROVE  MeaningInvariant
  OBVIOUS
<1>1. DOMAIN values = {}
  BY DEF Init
<1> QED
  BY <1>1 DEF MeaningInvariant

\* Whatever a program is: a channel that has a value stands for the data the program
\* sends on it, found through slices, concatenations, sums and products whatever their
\* depth; except for parts of what can only be taken whole, and for sums sent in shards
\* to a tile.
THEOREM ChannelsStandForWhatIsSent == Spec => []ChannelsCarryTheirValues
<1>1. MeaningInvariant => ChannelsCarryTheirValues
  <2> SUFFICES ASSUME MeaningInvariant, NEW c \in DOMAIN values,
                      ~Cuts(c), ~(IsTileToTile(program, c) /\ IsSharded(c))
               PROVE  (IF IsTileToTile(program, c) THEN values[c].leaves
                       ELSE UNION {lists[c][k].leaves : k \in DOMAIN lists[c]}) = Sent(program, c)
    BY DEF ChannelsCarryTheirValues, Carried
  <2>1. StandsFor(c)
    BY DEF MeaningInvariant
  <2>2. CASE ~IsTileToTile(program, c)
    BY <2>1, <2>2 DEF StandsFor
  <2>3. CASE IsTileToTile(program, c)
    <3>1. DOMAIN lists[c] = {1}
      BY <2>1, <2>3 DEF StandsFor
    <3>2. UNION {lists[c][k].leaves : k \in {1}} = lists[c][1].leaves
      OBVIOUS
    <3> QED
      BY <2>1, <2>3, <3>1, <3>2 DEF StandsFor
  <2> QED
    BY <2>2, <2>3
<1> QED
  BY <1>1, WorklistKeeps, TablesKeep, EmissionKeeps, MeaningStarts, StepsKeepMeaning, PTL DEF Spec

-----------------------------------------------------------------------------
(* Tiles that are never lowered *)

TileBody(f) == program.tiles[f].body

\* A send of tile f that lacks an input, while all tiles before it are lowered and the
\* sends before it have their values: what it lacks comes from nowhere.
Lacks(f, k) ==
  /\ k \in DOMAIN TileBody(f) /\ TileBody(f)[k].kind = "send"
  /\ ~ArePieces(TileBody(f), k, values, logical)
  /\ \A j \in DOMAIN TileBody(f) :
       TileBody(f)[j].kind = "send" /\ j < k => TileBody(f)[j].name \in DOMAIN values
  /\ \A t \in ComputeTiles(program) : t < f => t \in lowered
  /\ todo # <<>> /\ f = Tile => at <= k

Stuck ==
  \E f \in ToSet(todo) \cup ToSet(deferred) : \E k \in DOMAIN TileBody(f) : Lacks(f, k)

\* It goes on lacking it while what is received behind it has no value.
LEMMA LacksStill ==
  ASSUME program \in Programs, program' = program, NEW f \in DOMAIN program.tiles, NEW k,
         Lacks(f, k), lowered \subseteq lowered', DOMAIN values \subseteq DOMAIN values',
         Alike(TileBody(f), TileBody(f)[k].args[1], values, values'),
         Alike(TileBody(f), TileBody(f)[k].args[1], logical, logical'),
         todo' # <<>> /\ f = Tile' => at' <= k
  PROVE  Lacks(f, k)'
<1> PICK body, values1, logical1, values2, logical2 :
      /\ body = TileBody(f) /\ values1 = values /\ logical1 = logical
      /\ values2 = values' /\ logical2 = logical'
  OBVIOUS
<1>1. IsBody(body) /\ k \in DOMAIN body /\ body[k].kind = "send" /\ body = TileBody(f)'
  BY BodiesAreBodies DEF Lacks, TileBody
<1>2. ~ArePieces(body, k, values1, logical1)
  BY DEF Lacks
<1>3. Alike(body, body[k].args[1], values1, values2) /\ Alike(body, body[k].args[1], logical1, logical2)
  OBVIOUS
<1>4. ~ArePieces(body, k, values2, logical2)'
  BY <1>1, <1>2, <1>3, SendsAlike
<1>5. ~ArePieces(TileBody(f), k, values, logical)'
  BY <1>1, <1>4
<1> QED
  BY <1>1, <1>5 DEF Lacks

\* Any step that gives no new channel a value, and erases no tile that lacks an input,
\* leaves it lacking.
LEMMA StuckStays ==
  ASSUME WorklistInvariant, phase = "lower", program' = program, Stuck,
         lowered \subseteq lowered', DOMAIN values' = DOMAIN values, DOMAIN logical' = DOMAIN logical,
         \A f \in ToSet(todo) \cup ToSet(deferred) : \A k \in Nat \ {0} : Lacks(f, k) =>
           /\ f \in ToSet(todo') \cup ToSet(deferred')
           /\ todo' # <<>> /\ f = Tile' => at' <= k
  PROVE  Stuck'
<1> PICK f \in ToSet(todo) \cup ToSet(deferred) : \E k \in DOMAIN TileBody(f) : Lacks(f, k)
  BY DEF Stuck
<1> PICK k \in DOMAIN TileBody(f) : Lacks(f, k)
  OBVIOUS
<1>1. program \in Programs /\ f \in ComputeTiles(program) /\ f \in DOMAIN program.tiles
  BY DEF WorklistInvariant, Listing, ComputeTiles
<1>2. k \in Nat \ {0}
  BY <1>1, BodyHasLength DEF TileBody
<1>3. /\ Alike(TileBody(f), TileBody(f)[k].args[1], values, values')
      /\ Alike(TileBody(f), TileBody(f)[k].args[1], logical, logical')
  BY DEF Alike
<1>4. Lacks(f, k)'
  BY <1>1, <1>2, <1>3, LacksStill
<1>5. TileBody(f)' = TileBody(f)
  BY DEF TileBody
<1> QED
  BY <1>2, <1>4, <1>5 DEF Stuck, ToSet

\* A send gives its channel a value; a tile that lacks another input still does, for the
\* channel comes from a tile before it, or from itself.
LEMMA SendKeepsStuck ==
  ASSUME WorklistInvariant, TablesInvariant, SendsInvariant, InDependencyOrder(program), Stuck,
         LowerSend \/ ForwardSend
  PROVE  Stuck'
<1>1. /\ HasSend /\ ArePiecesLowered
      /\ UNCHANGED <<program, phase, todo, deferred, lowered>> /\ at' = NextSend + 1
      /\ DOMAIN values' = {Channel} \cup DOMAIN values
  BY SendGrowsTables
<1>2. phase = "lower" /\ todo # <<>> /\ IsWellFormed /\ Listing /\ program \in Programs
  BY <1>1 DEF HasSend, TablesInvariant, WorklistInvariant
<1>3. /\ Tile \in DOMAIN program.tiles /\ NextSend \in DOMAIN Body /\ Body[NextSend].kind = "send"
      /\ IsNextSend(NextSend) /\ Channel \in TileChannels(program)
      /\ SenderOf(program, Channel).tile = Tile
  BY <1>1, <1>2, NextSendIsSender
<1> PICK f \in ToSet(todo) \cup ToSet(deferred) : \E k \in DOMAIN TileBody(f) : Lacks(f, k)
  BY DEF Stuck
<1> PICK k \in DOMAIN TileBody(f) : Lacks(f, k)
  OBVIOUS
<1>4. f \in ComputeTiles(program) /\ f \in DOMAIN program.tiles
  BY <1>2 DEF Listing, ComputeTiles
<1>5. Tile \in ToSet(todo)
  BY <1>2, HeadTailList DEF WorklistInvariant, Tile
<1>6. /\ k \in Nat /\ \A j \in DOMAIN TileBody(f) : j \in Nat
  <2>1. Len(TileBody(f)) \in Nat /\ DOMAIN TileBody(f) = 1..Len(TileBody(f))
    BY <1>2, <1>4, BodyHasLength DEF TileBody
  <2> QED
    BY <2>1
<1>7. ASSUME f = Tile
      PROVE  NextSend < k
  <2>1. Body = TileBody(f) /\ at <= k /\ IsSend(k)
    BY <1>2, <1>7 DEF Lacks, Body, TileBody, IsSend
  <2>2. at \in Nat /\ NextSend <= k
    <3>1. at \in Nat
      BY <1>2 DEF SendsInvariant
    <3> QED
      BY <1>3, <1>6, <2>1, <3>1 DEF IsNextSend
  <2>3. NextSend # k
    BY <1>1, <2>1 DEF Lacks, ArePieces, ArePiecesLowered, Pieces
  <2> QED
    BY <1>3, <1>6, <2>1, <2>2, <2>3
<1> DEFINE body == TileBody(f)
           a == body[k].args[1]
<1>8. ASSUME Channel \notin DOMAIN values, NEW j \in Behind(body)[a], body[j].kind = "recv"
      PROVE  body[j].name # Channel
  <2> SUFFICES ASSUME body[j].name = Channel
               PROVE  FALSE
    OBVIOUS
  <2>1. f # Tile
    BY <1>3, <1>7, <1>8 DEF Lacks, Channel, Send, Body, TileBody
  <2> DEFINE s == [tile |-> f, op |-> k]
             c == body[k].name
  <2>2. /\ s \in TileSends(program) /\ OpAt(program, s) = body[k]
        /\ ChannelAt(program, s) = c /\ s.tile = f
    BY <1>2, <1>4, SendAt DEF Lacks, TileBody
  <2>3. c \in TileChannels(program) /\ SenderOf(program, c) = s
    BY <1>2, <2>2, SendersAreUnique
  <2>4. Sent(program, c) = Leaves(body)[<<a, Whole>>]
    BY <2>2, <2>3 DEF Sent, TileBody
  <2>5. IsBody(body) /\ a \in DOMAIN body
    <3>1. IsBody(body) /\ k \in DOMAIN body /\ body[k].kind = "send"
      BY <1>2, <1>4, BodiesAreBodies DEF Lacks, TileBody
    <3> QED
      BY <3>1, SendPlacesBehind
  <2>6. \E l \in Sent(program, c) : l[1] = Channel
    BY <1>8, <2>4, <2>5, BehindIsMeant
  <2>7. Channel \in Reads(program, c)
    BY <1>3, <2>1, <2>2, <2>3, <2>6 DEF Reads
  <2>8. Tile < f
    BY <1>3, <2>2, <2>3, <2>7 DEF InDependencyOrder
  <2>9. Tile \in ComputeTiles(program)
    BY <1>2, <1>5 DEF Listing
  <2> QED
    BY <1>2, <1>5, <2>8, <2>9 DEF Lacks, Listing
<1>9. Alike(body, a, values, values')
  BY <1>1, <1>8 DEF Alike
<1>10. Alike(body, a, logical, logical')
  <2>1. TablesInvariant'
    BY SendKeepsTables
  <2>2. DOMAIN logical = {c \in DOMAIN values : ~Computes(c)}
    BY DEF TablesInvariant
  <2>3. DOMAIN logical' = {c \in DOMAIN values' : ~Computes(c)}
    BY <1>1, <2>1, ProgramStays DEF TablesInvariant
  <2> QED
    BY <1>9, <2>2, <2>3 DEF Alike
<1>11. todo' # <<>> /\ f = Tile' => at' <= k
  BY <1>1, <1>3, <1>6, <1>7 DEF Tile, Body, TileBody
<1>12. Lacks(f, k)'
  BY <1>1, <1>2, <1>4, <1>9, <1>10, <1>11, LacksStill
<1>13. TileBody(f)' = TileBody(f)
  BY <1>1 DEF TileBody
<1> QED
  BY <1>1, <1>12, <1>13 DEF Stuck

LEMMA FinishKeepsStuck ==
  ASSUME WorklistInvariant, SendsInvariant, Stuck, FinishTile
  PROVE  Stuck'
<1>1. /\ phase = "lower" /\ todo # <<>> /\ IsThrough /\ at' = 0 /\ todo' = Tail(todo)
      /\ UNCHANGED <<program, deferred, values, logical>> /\ lowered \subseteq lowered'
  BY DEF FinishTile, emission
<1>2. Listing /\ program \in Programs /\ todo \in Seq(Nat)
  BY <1>1 DEF WorklistInvariant
<1>3. ToSet(todo) = {Tile} \cup ToSet(todo')
  BY <1>1, <1>2, HeadTailList DEF Tile
<1>4. ASSUME NEW f \in ToSet(todo) \cup ToSet(deferred), NEW k \in Nat \ {0}, Lacks(f, k)
      PROVE  /\ f \in ToSet(todo') \cup ToSet(deferred')
             /\ todo' # <<>> /\ f = Tile' => at' <= k
  <2>1. ASSUME f = Tile
        PROVE  FALSE
    <3>1. IsSend(k) /\ at <= k
      BY <1>1, <1>4, <2>1 DEF Lacks, IsSend, Body, TileBody
    <3>2. k < at
      BY <1>1, <3>1 DEF IsThrough, IsSend
    <3>3. at \in Nat
      BY <1>1 DEF SendsInvariant
    <3> QED
      BY <1>4, <3>1, <3>2, <3>3
  <2> QED
    BY <1>1, <1>3, <2>1 DEF ToSet
<1> QED
  BY <1>1, <1>4, StuckStays

\* A conversion that lacks something does so for ever; it does not come to its end.
LEMMA StepsKeepStuck ==
  ASSUME WorklistInvariant, TablesInvariant, SendsInvariant, InDependencyOrder(program),
         phase = "lower", Stuck, [Next]_vars
  PROVE  (phase' = "lower" /\ Stuck') \/ phase' = "failed"
<1>1. Listing /\ program \in Programs /\ todo \in Seq(Nat)
  BY DEF WorklistInvariant
<1>2. CASE BeginTile
  <2>1. /\ at' = 1 /\ UNCHANGED <<program, phase, todo, deferred, lowered, logical>>
        /\ DOMAIN values' = DOMAIN values
    BY <1>2, WaitKeepsChannels DEF BeginTile, worklist
  <2> QED
    BY <2>1, StuckStays
<1>3. CASE LowerSend \/ ForwardSend
  BY <1>3, SendKeepsStuck, SendGrowsTables
<1>4. CASE DeferTile
  <2>1. /\ at' = 0 /\ todo # <<>> /\ todo' = Tail(todo) /\ deferred' = Append(deferred, Tile)
        /\ UNCHANGED <<program, phase, lowered, values, logical>>
    BY <1>4 DEF DeferTile, HasSend, PutOff
  <2>2. ToSet(todo) = {Tile} \cup ToSet(todo') /\ Tile \in Nat
    BY <1>1, <2>1, HeadTailList DEF Tile
  <2>3. ToSet(deferred') = ToSet(deferred) \cup {Tile}
    <3>1. deferred \in Seq(Nat)
      BY DEF WorklistInvariant
    <3> QED
      BY <2>1, <2>2, <3>1, AppendLists
  <2> QED
    BY <2>1, <2>2, <2>3, StuckStays
<1>5. CASE FinishTile
  BY <1>5, FinishKeepsStuck DEF FinishTile
<1>6. CASE NextPass
  <2>1. /\ todo = <<>> /\ todo' = deferred /\ at' = at /\ at = 0
        /\ UNCHANGED <<program, phase, lowered, values, logical>>
    BY <1>6 DEF NextPass, emission, SendsInvariant
  <2>2. ToSet(todo) = {}
    BY <2>1, EmptyList
  <2> QED
    BY <2>1, <2>2, StuckStays DEF ToSet
<1>7. CASE AbortTile \/ RefuseDependencies
  BY <1>7 DEF AbortTile, RefuseDependencies
<1>8. CASE EndLowering
  <2>1. ToSet(todo) \cup ToSet(deferred) = {}
    BY <1>8, EmptyList DEF EndLowering
  <2> QED
    BY <2>1 DEF Stuck
<1>9. CASE UNCHANGED vars
  <2>1. UNCHANGED <<program, phase, todo, deferred, lowered, at, values, logical>>
    BY <1>9 DEF vars
  <2>2. Tile' = Tile
    BY <2>1 DEF Tile
  <2> QED
    BY <2>1, <2>2, StuckStays DEF Lacks, ToSet
<1>10. CASE Analyze \/ RefuseProgram \/ Collect \/ EndCollection \/ FinishTransfers
  BY <1>10 DEF Analyze, RefuseProgram, Collect, EndCollection, FinishTransfers
<1> QED
  BY <1>2, <1>3, <1>4, <1>5, <1>6, <1>7, <1>8, <1>9, <1>10 DEF Next

-----------------------------------------------------------------------------
(* A conversion that goes ahead *)

IsPast(s) == s.tile \in lowered \/ (todo # <<>> /\ s.tile = Tile /\ s.op < at)
IsReached(t) == t \in lowered \/ (todo # <<>> /\ t = Tile /\ at > 0)
Ascends(tiles) == \A m, n \in DOMAIN tiles : m < n => tiles[m] < tiles[n]

\* No tile has been put off: the tiles are lowered in their order, and nothing is there
\* but what the tiles up to now have emitted and sent.
GoesAhead ==
  /\ deferred = <<>> /\ Ascends(todo)
  /\ \A t \in lowered : \A u \in ToSet(todo) : t < u
  /\ \A c \in DOMAIN values : IsPast(SenderOf(program, c))
  /\ \A w \in Emitted : IsReached(w[1])

\* The first tile of an ascending list is the least.
LEMMA AscendingTail ==
  ASSUME NEW tiles \in Seq(Nat), tiles # <<>>, Ascends(tiles)
  PROVE  Ascends(Tail(tiles)) /\ \A u \in ToSet(Tail(tiles)) : Head(tiles) < u
<1>1. /\ Len(tiles) \in Nat \ {0} /\ DOMAIN tiles = 1..Len(tiles) /\ Head(tiles) = tiles[1]
      /\ Tail(tiles) \in Seq(Nat) /\ Len(Tail(tiles)) = Len(tiles) - 1
      /\ \A i \in 1..Len(Tail(tiles)) : Tail(tiles)[i] = tiles[i + 1]
  BY HeadTailProperties, EmptySeq, LenProperties
<1>2. DOMAIN Tail(tiles) = 1..Len(Tail(tiles))
  BY <1>1, LenProperties
<1> HIDE DEF Ascends
<1>3. \A i \in DOMAIN Tail(tiles) : i + 1 \in DOMAIN tiles /\ Tail(tiles)[i] = tiles[i + 1] /\ 1 < i + 1 /\ i \in Nat
  BY <1>1, <1>2
<1>4. 1 \in DOMAIN tiles
  BY <1>1
<1>5. \A i, j \in DOMAIN Tail(tiles) : i < j => i + 1 < j + 1
  BY <1>3
<1>6. \A m, n \in DOMAIN tiles : m < n => tiles[m] < tiles[n]
  BY DEF Ascends
<1>7. Ascends(Tail(tiles))
  BY <1>3, <1>5, <1>6 DEF Ascends
<1>8. ASSUME NEW i \in DOMAIN Tail(tiles)
      PROVE  tiles[1] < Tail(tiles)[i]
  BY <1>3, <1>4, <1>6
<1> QED
  BY <1>1, <1>7, <1>8 DEF ToSet

\* The tiles before the first of the worklist are lowered.
LEMMA TilesBehind ==
  ASSUME WorklistInvariant, phase = "lower", GoesAhead, todo # <<>>
  PROVE  /\ Tile \in ToSet(todo) /\ Tile \in Nat /\ Tile \in ComputeTiles(program)
         /\ \A t \in ComputeTiles(program) : t < Tile => t \in lowered
         /\ \A t \in lowered : t < Tile /\ t \in Nat
         /\ \A u \in ToSet(Tail(todo)) : Tile < u
<1>1. Listing /\ todo \in Seq(Nat) /\ program \in Programs
  BY DEF WorklistInvariant
<1>2. /\ ToSet(todo) = {Tile} \cup ToSet(Tail(todo)) /\ Tile \in Nat
      /\ ToSet(deferred) = {}
  BY <1>1, HeadTailList, EmptyList DEF Tile, GoesAhead
<1>3. \A u \in ToSet(Tail(todo)) : Tile < u
  BY <1>1, AscendingTail DEF GoesAhead, Tile
<1>4. \A t \in ComputeTiles(program) : t \in Nat
  BY <1>1, TilesAreNumbered
<1>5. ASSUME NEW t \in ComputeTiles(program), t < Tile
      PROVE  t \in lowered
  BY <1>1, <1>2, <1>3, <1>4, <1>5 DEF Listing
<1> QED
  BY <1>1, <1>2, <1>3, <1>4, <1>5 DEF GoesAhead, Listing

\* A send that lacks an input where the tiles go ahead is never lowered.
LEMMA LackingIsStuck ==
  ASSUME WorklistInvariant, TablesInvariant, SendsInvariant, GoesAhead, HasSend, ~ArePiecesLowered
  PROVE  Stuck
<1>1. phase = "lower" /\ todo # <<>> /\ IsWellFormed /\ at \in Nat /\ IsSentBefore(at)
  BY DEF HasSend, TablesInvariant, SendsInvariant
<1>2. /\ Tile \in ToSet(todo) /\ \A t \in ComputeTiles(program) : t < Tile => t \in lowered
  BY <1>1, TilesBehind
<1>3. /\ NextSend \in DOMAIN Body /\ Body[NextSend].kind = "send" /\ IsNextSend(NextSend)
      /\ Body = TileBody(Tile)
  BY <1>1, NextSendIsSender DEF Body, TileBody
<1>4. PICK n \in Nat : DOMAIN Body = 1..n
  BY <1>1, BodyIsNumbered
<1>5. ~ArePieces(TileBody(Tile), NextSend, values, logical)
  BY <1>3 DEF ArePieces, ArePiecesLowered, Pieces
<1>6. at <= NextSend
  BY <1>1, <1>3, <1>4 DEF IsNextSend
<1>7. ASSUME NEW j \in DOMAIN Body, Body[j].kind = "send", j < NextSend
      PROVE  Body[j].name \in DOMAIN values
  <2>1. j < at
    BY <1>1, <1>3, <1>4, <1>7 DEF IsNextSend, IsSend
  <2> QED
    BY <1>1, <1>7, <2>1 DEF IsSentBefore, IsSend
<1>8. Lacks(Tile, NextSend)
  BY <1>2, <1>3, <1>5, <1>6, <1>7 DEF Lacks
<1> QED
  BY <1>2, <1>3, <1>8 DEF Stuck

\* A step with the first tile, which goes on, leaves what is past and reached.
LEMMA OnwardKeepsAhead ==
  ASSUME WorklistInvariant, TablesInvariant, SendsInvariant, GoesAhead, phase = "lower",
         UNCHANGED <<program, todo, deferred, lowered>>, todo # <<>>, at' \in Nat, at <= at',
         \A c \in DOMAIN values' \ DOMAIN values : IsPast(SenderOf(program, c))',
         \A w \in Emitted' \ Emitted : w[1] = Tile /\ at' > 0
  PROVE  GoesAhead'
<1>1. Tile' = Tile /\ at \in Nat
  BY DEF Tile, SendsInvariant
<1>2. ASSUME NEW c \in DOMAIN values
      PROVE  IsPast(SenderOf(program, c))'
  <2> PICK s : s = SenderOf(program, c)
    OBVIOUS
  <2>1. c \in TileChannels(program) /\ IsWellFormed /\ program \in Programs
    BY <1>2 DEF TablesInvariant, WorklistInvariant
  <2>2. s \in TileSends(program)
    BY <2>1, SendersAreUnique
  <2>3. s.tile \in DOMAIN program.tiles /\ s.op \in DOMAIN TileBody(s.tile)
    BY <2>1, <2>2, SendPlaces DEF TileBody
  <2>4. s.op \in Nat
    BY <2>1, <2>3, BodiesAreBodies, BodyPlaces DEF TileBody
  <2>5. IsPast(s)
    BY <1>2 DEF GoesAhead
  <2>6. s.op < at => s.op < at'
    BY <1>1, <2>4
  <2>7. IsPast(s)'
    BY <1>1, <2>5, <2>6 DEF IsPast
  <2>8. SenderOf(program, c)' = s
    OBVIOUS
  <2> QED
    BY <2>7, <2>8 DEF IsPast
<1>3. ASSUME NEW w \in Emitted
      PROVE  IsReached(w[1])'
  BY <1>1, <1>3 DEF GoesAhead, IsReached
<1>4. \A w \in Emitted' \ Emitted : IsReached(w[1])'
  BY <1>1 DEF IsReached
<1> QED
  BY <1>2, <1>3, <1>4 DEF GoesAhead

\* What a step emits belongs to its tile.
LEMMA GrownOfTile ==
  ASSUME NEW items, Grown(items)
  PROVE  \A w \in Emitted' \ Emitted : w[1] = Tile
BY DEF Grown, Fresh

LEMMA BeginGoesAhead ==
  WorklistInvariant /\ TablesInvariant /\ SendsInvariant /\ EmissionInvariant /\ GoesAhead
    /\ BeginTile => GoesAhead'
<1> SUFFICES ASSUME WorklistInvariant, TablesInvariant, SendsInvariant, EmissionInvariant, GoesAhead,
                    BeginTile
             PROVE  GoesAhead'
  OBVIOUS
<1>1. /\ phase = "lower" /\ todo # <<>> /\ at = 0 /\ at' = 1
      /\ UNCHANGED <<program, todo, deferred, lowered>> /\ DOMAIN values' = DOMAIN values
  BY WaitKeepsChannels DEF BeginTile, worklist
<1>2. \A w \in Emitted' \ Emitted : w[1] = Tile
  <2>1. CASE EmitsNothing
    BY <1>1, <2>1 DEF EmitsNothing, Emitted
  <2>2. CASE EmitsWait
    BY <2>2, GrownOfTile DEF EmitsWait
  <2> QED
    BY <2>1, <2>2, BeginKeepsEmission
<1> QED
  BY <1>1, <1>2, OnwardKeepsAhead

LEMMA SendGoesAhead ==
  WorklistInvariant /\ TablesInvariant /\ SendsInvariant /\ EmissionInvariant /\ GoesAhead
    /\ (LowerSend \/ ForwardSend) => GoesAhead'
<1> SUFFICES ASSUME WorklistInvariant, TablesInvariant, SendsInvariant, EmissionInvariant, GoesAhead,
                    LowerSend \/ ForwardSend
             PROVE  GoesAhead'
  OBVIOUS
<1>1. /\ HasSend /\ UNCHANGED <<program, phase, todo, deferred, lowered>> /\ at' = NextSend + 1
      /\ DOMAIN values' = {Channel} \cup DOMAIN values
  BY SendGrowsTables
<1>2. phase = "lower" /\ todo # <<>> /\ IsWellFormed /\ at \in Nat
  BY <1>1 DEF HasSend, TablesInvariant, SendsInvariant
<1>3. /\ NextSend \in DOMAIN Body /\ IsNextSend(NextSend)
      /\ SenderOf(program, Channel).tile = Tile /\ SenderOf(program, Channel).op = NextSend
  BY <1>1, <1>2, NextSendIsSender
<1>4. PICK n \in Nat : DOMAIN Body = 1..n
  BY <1>2, BodyIsNumbered
<1>5. NextSend \in Nat /\ at <= NextSend /\ at' \in Nat /\ at <= at' /\ at' > 0
  BY <1>1, <1>2, <1>3, <1>4 DEF IsNextSend
<1>6. \A w \in Emitted' \ Emitted : w[1] = Tile
  <2>1. CASE LowerSend
    BY <2>1, LowerKeepsEmission, GrownOfTile DEF EmitsPieces
  <2>2. CASE ForwardSend
    BY <2>2, ForwardKeepsEmission, GrownOfTile DEF EmitsValue
  <2> QED
    BY <2>1, <2>2
<1> PICK c : c = Channel
  OBVIOUS
<1>7. IsPast(SenderOf(program, c))'
  <2>1. /\ SenderOf(program, c)' = SenderOf(program, c)
        /\ SenderOf(program, c).tile = Tile /\ SenderOf(program, c).op = NextSend
    BY <1>1, <1>3
  <2>2. Tile' = Tile /\ todo' # <<>> /\ NextSend < at'
    BY <1>1, <1>2, <1>5 DEF Tile
  <2> QED
    BY <2>1, <2>2 DEF IsPast
<1>8. \A d \in DOMAIN values' \ DOMAIN values : IsPast(SenderOf(program, d))'
  BY <1>1, <1>7
<1> QED
  BY <1>1, <1>2, <1>5, <1>6, <1>8, OnwardKeepsAhead

LEMMA FinishGoesAhead ==
  WorklistInvariant /\ SendsInvariant /\ GoesAhead /\ FinishTile => GoesAhead'
<1> SUFFICES ASSUME WorklistInvariant, SendsInvariant, GoesAhead, FinishTile
             PROVE  GoesAhead'
  OBVIOUS
<1>1. /\ phase = "lower" /\ todo # <<>> /\ todo' = Tail(todo) /\ lowered' = lowered \cup {Tile}
      /\ UNCHANGED <<program, deferred, values, block>>
  BY DEF FinishTile, emission
<1>2. /\ \A t \in lowered : t < Tile /\ t \in Nat
      /\ \A u \in ToSet(todo') : Tile < u
  BY <1>1, TilesBehind
<1>3. /\ todo \in Seq(Nat) /\ Ascends(todo') /\ ToSet(todo) = {Tile} \cup ToSet(todo')
  BY <1>1, AscendingTail, HeadTailList DEF WorklistInvariant, GoesAhead, Tile
<1>4. \A t \in lowered' : \A u \in ToSet(todo') : t < u
  BY <1>1, <1>2, <1>3 DEF GoesAhead
<1>5. \A s : IsPast(s) => IsPast(s)'
  BY <1>1 DEF IsPast
<1>6. \A t : IsReached(t) => IsReached(t)'
  BY <1>1 DEF IsReached
<1>7. Emitted' = Emitted
  BY <1>1 DEF Emitted
<1> QED
  BY <1>1, <1>3, <1>4, <1>5, <1>6, <1>7 DEF GoesAhead, ToSet

-----------------------------------------------------------------------------
(* Operations stand behind what they use *)

ReadsInOrder == \A w \in Emitted : \A v \in ItemAt(w).reads \ {Inside} : Precedes(v, w)

\* Where the tiles go ahead, what a step emits stands behind all there is.
LEMMA FreshIsLast ==
  ASSUME WorklistInvariant, EmissionInvariant, GoesAhead, phase = "lower", todo # <<>>
  PROVE  /\ \A v \in Emitted : \A k \in Nat \ {0} : Precedes(v, Fresh(k))
         /\ \A j, k \in Nat : j < k => Precedes(Fresh(j), Fresh(k))
         /\ at = 0 => \A v \in Emitted : v[1] < Tile
<1>1. /\ Tile \in Nat /\ \A t \in lowered : t < Tile /\ t \in Nat
      /\ Tile \in DOMAIN program.tiles /\ program \in Programs
  BY TilesBehind DEF WorklistInvariant, ComputeTiles
<1>2. Len(block[Tile]) \in Nat
  BY <1>1, EmittedValues DEF EmissionInvariant
<1>3. ASSUME NEW k \in Nat
      PROVE  Fresh(k)[1] = Tile /\ Fresh(k)[2] = Len(block[Tile]) + k
  BY DEF Fresh
<1>4. ASSUME NEW v \in Emitted, NEW k \in Nat \ {0}
      PROVE  Precedes(v, Fresh(k))
  <2>1. v[1] \in lowered \/ v[1] = Tile
    BY <1>4 DEF GoesAhead, IsReached
  <2>2. v[2] \in 1..Len(block[v[1]])
    BY <1>1, <1>4, EmittedValues DEF EmissionInvariant
  <2> PICK w, n : w = Fresh(k) /\ n = Len(block[Tile])
    OBVIOUS
  <2>3. w[1] = Tile /\ w[2] = n + k /\ n \in Nat
    BY <1>2, <1>3
  <2>4. CASE v[1] \in lowered
    BY <1>1, <2>3, <2>4 DEF Precedes
  <2>5. CASE v[1] = Tile
    <3>1. v[2] \in 1..n
      BY <2>2, <2>5
    <3>2. v[2] < n + k
      BY <2>3, <3>1
    <3> QED
      BY <2>3, <2>5, <3>2 DEF Precedes
  <2> QED
    BY <2>1, <2>4, <2>5
<1>5. ASSUME NEW j \in Nat, NEW k \in Nat, j < k
      PROVE  Precedes(Fresh(j), Fresh(k))
  <2> PICK v, w, n : v = Fresh(j) /\ w = Fresh(k) /\ n = Len(block[Tile])
    OBVIOUS
  <2>1. v[1] = w[1] /\ v[2] = n + j /\ w[2] = n + k /\ n \in Nat
    BY <1>2, <1>3
  <2>2. v[2] < w[2]
    BY <1>5, <2>1
  <2> QED
    BY <2>1, <2>2 DEF Precedes
<1>6. at = 0 => \A v \in Emitted : v[1] < Tile
  BY <1>1 DEF GoesAhead, IsReached
<1> QED
  BY <1>4, <1>5, <1>6

LEMMA SoundKeepsReads ==
  ASSUME WorklistInvariant, EmissionInvariant, GoesAhead, phase = "lower", todo # <<>>,
         ReadsInOrder, NEW items, AreSound(items), Grown(items)
  PROVE  ReadsInOrder'
<1>1. Len(items) \in Nat
  BY ListPlaces DEF AreSound
<1>2. /\ Emitted' = Emitted \cup {Fresh(k) : k \in 1..Len(items)}
      /\ \A v \in Emitted : ItemAt(v)' = ItemAt(v)
      /\ \A k \in 1..Len(items) : \A v : v = Fresh(k) => ItemAt(v)' = items[k]
  BY DEF Grown
<1>3. ASSUME NEW k \in 1..Len(items), NEW w, w = Fresh(k), NEW v \in ItemAt(w)'.reads \ {Inside}
      PROVE  Precedes(v, w)
  <2>1. v \in items[k].reads \ {Inside}
    BY <1>2, <1>3
  <2>2. v \in Emitted \/ \E j \in 1..(k - 1) : v = Fresh(j)
    BY <2>1 DEF AreSound
  <2>3. k \in Nat \ {0} /\ \A j \in 1..(k - 1) : j \in Nat /\ j < k
    BY <1>1
  <2> QED
    BY <1>3, <2>2, <2>3, FreshIsLast
<1>4. ASSUME NEW w \in Emitted, NEW v \in ItemAt(w)'.reads \ {Inside}
      PROVE  Precedes(v, w)
  BY <1>2, <1>4 DEF ReadsInOrder
<1>5. \A w \in Emitted' : w \in Emitted \/ \E k \in 1..Len(items) : w = Fresh(k)
  BY <1>2
<1>6. \A w \in Emitted' : \A v \in ItemAt(w)'.reads \ {Inside} : Precedes(v, w)
  BY <1>3, <1>4, <1>5
<1> QED
  BY <1>6 DEF ReadsInOrder, Precedes

LEMMA StaysKeepsReads ==
  ASSUME UNCHANGED <<program, block>>, ReadsInOrder
  PROVE  ReadsInOrder'
BY DEF ReadsInOrder, Emitted, ItemAt, Precedes

-----------------------------------------------------------------------------
(* Waits stand behind their signals *)

\* A wait or signal is for channels that have a value; a computed value that goes to a
\* tile has been signalled once for each of its pieces.
SignalsInOrder ==
  /\ \A w, v \in Emitted :
       ItemAt(w).kind = "wait" /\ ItemAt(v).kind = "signal"
         /\ (\E c \in ItemAt(w).chans : c \in ItemAt(v).chans) => Precedes(v, w)
  /\ \A w \in Emitted : ItemAt(w).kind \in {"wait", "signal"} => ItemAt(w).chans \subseteq DOMAIN values
  /\ \A c \in DOMAIN values :
       Computes(c) /\ IsTileToTile(program, c) => Cardinality(SignalsOf(c)) = Len(lists[c])

\* A step that emits neither, and sets no computed value.
LEMMA QuietKeepsSignals ==
  ASSUME SignalsInOrder, UNCHANGED program, Emitted \subseteq Emitted',
         \A v \in Emitted : ItemAt(v)' = ItemAt(v),
         \A v \in Emitted' \ Emitted : ItemAt(v)'.kind \notin {"wait", "signal"},
         DOMAIN values \subseteq DOMAIN values',
         \A c \in DOMAIN values' : Computes(c) => c \in DOMAIN values /\ lists'[c] = lists[c]
  PROVE  SignalsInOrder'
<1>1. \A w \in Emitted' : ItemAt(w)'.kind \in {"wait", "signal"} =>
        w \in Emitted /\ ItemAt(w)' = ItemAt(w)
  OBVIOUS
<1>2. ASSUME NEW c
      PROVE  SignalsOf(c)' = SignalsOf(c)
  BY <1>1 DEF SignalsOf
<1>3. \A w, v \in Emitted' :
        ItemAt(w)'.kind = "wait" /\ ItemAt(v)'.kind = "signal"
          /\ (\E c \in ItemAt(w)'.chans : c \in ItemAt(v)'.chans) => Precedes(v, w)
  BY <1>1 DEF SignalsInOrder
<1>4. \A w \in Emitted' : ItemAt(w)'.kind \in {"wait", "signal"} => ItemAt(w)'.chans \subseteq DOMAIN values'
  BY <1>1 DEF SignalsInOrder
<1>5. ASSUME NEW c \in DOMAIN values', Computes(c)', IsTileToTile(program, c)'
      PROVE  Cardinality(SignalsOf(c))' = Len(lists[c])'
  <2>1. Computes(c) /\ IsTileToTile(program, c)
    BY <1>5, ProgramStays
  <2> QED
    BY <1>2, <1>5, <2>1 DEF SignalsInOrder
<1> QED
  BY <1>3, <1>4, <1>5 DEF SignalsInOrder, Precedes

\* A wait is emitted before all that its tile emits, and behind all others.
LEMMA WaitKeepsSignals ==
  ASSUME WorklistInvariant, EmissionInvariant, GoesAhead, phase = "lower", todo # <<>>, at = 0,
         SignalsInOrder, UNCHANGED <<program, lists>>, EmitsWait, DOMAIN values' = DOMAIN values
  PROVE  SignalsInOrder'
<1> PICK items : Len(items) = 1 /\ items[1] = WaitItem /\ Grown(items)
  BY DEF EmitsWait
<1> PICK fresh : fresh = Fresh(1)
  OBVIOUS
<1>1. /\ Emitted' = Emitted \cup {fresh} /\ fresh \notin Emitted
      /\ \A v \in Emitted : ItemAt(v)' = ItemAt(v)
      /\ ItemAt(fresh)' = WaitItem
  BY DEF Grown
<1>2. WaitItem.kind = "wait" /\ WaitItem.chans \subseteq DOMAIN values
  BY DEF WaitItem, Item, Awaited
<1>3. \A v \in Emitted : Precedes(v, fresh)
  BY FreshIsLast
<1>4. ASSUME NEW c
      PROVE  SignalsOf(c)' = SignalsOf(c)
  BY <1>1, <1>2 DEF SignalsOf
<1>5. \A w, v \in Emitted' :
        ItemAt(w)'.kind = "wait" /\ ItemAt(v)'.kind = "signal"
          /\ (\E c \in ItemAt(w)'.chans : c \in ItemAt(v)'.chans) => Precedes(v, w)
  BY <1>1, <1>2, <1>3 DEF SignalsInOrder
<1>6. \A w \in Emitted' : ItemAt(w)'.kind \in {"wait", "signal"} => ItemAt(w)'.chans \subseteq DOMAIN values'
  BY <1>1, <1>2 DEF SignalsInOrder
<1>7. ASSUME NEW c \in DOMAIN values', Computes(c)', IsTileToTile(program, c)'
      PROVE  Cardinality(SignalsOf(c))' = Len(lists[c])'
  <2>1. Computes(c) /\ IsTileToTile(program, c)
    BY <1>7, ProgramStays
  <2> QED
    BY <1>4, <1>7, <2>1 DEF SignalsInOrder
<1> QED
  BY <1>5, <1>6, <1>7 DEF SignalsInOrder, Precedes

\* The signals among what a computed value emits: one for each piece, of its channel.
HasPieceSignals(items, n, base, c) ==
  /\ base \in Nat
  /\ \A p \in 1..Len(items) :
       \/ items[p].kind \in {"semaphore", "compute"}
       \/ /\ IsTileToTile(program, c)
          /\ items[p].kind = "signal" /\ items[p].chans = {c}
          /\ \E k \in 1..n : p = base + 2 * k
  /\ IsTileToTile(program, c) => \A k \in 1..n :
       /\ base + 2 * k \in 1..Len(items)
       /\ items[base + 2 * k].kind = "signal" /\ items[base + 2 * k].chans = {c}

LEMMA PieceSignals ==
  ASSUME NEW n \in Nat \ {0}, NEW items, AreLowerItems(items, n),
         NEW base, base = Len(NewSemaphore)
  PROVE  HasPieceSignals(items, n, base, Channel)
<1>1. base \in {0, 1} /\ Len(items) \in Nat
  BY ListPlaces DEF AreLowerItems
<1>2. base = 1 => items[1].kind = "semaphore"
  BY DEF AreLowerItems, Item
<1>3. CASE ~IsTileToTile(program, Channel)
  <2>1. /\ Len(items) = base + n
        /\ \A k \in 1..n : items[base + k].kind = "compute"
    <3>1. /\ Len(items) = base + n
          /\ \A k \in 1..n : items[base + k] = Item("compute", {Channel}, Pieces[k])
      BY <1>3 DEF AreLowerItems
    <3>2. \A r : Item("compute", {Channel}, r).kind = "compute"
      BY DEF Item
    <3>3. ASSUME NEW k \in 1..n
          PROVE  items[base + k].kind = "compute"
      <4>1. items[base + k] = Item("compute", {Channel}, Pieces[k])
        BY <3>1, <3>3
      <4> QED
        BY <3>2, <4>1, Zenon
    <3> QED
      BY <3>1, <3>3
  <2>2. ASSUME NEW p \in 1..Len(items)
        PROVE  items[p].kind \in {"semaphore", "compute"}
    <3>1. CASE p <= base
      <4>1. base = 1 /\ p = 1
        BY <1>1, <3>1
      <4> QED
        BY <1>2, <4>1
    <3>2. CASE p > base
      <4>1. p - base \in 1..n /\ p = base + (p - base)
        BY <1>1, <2>1, <3>2
      <4> QED
        BY <2>1, <4>1
    <3> QED
      BY <1>1, <3>1, <3>2
  <2> QED
    BY <1>1, <1>3, <2>2 DEF HasPieceSignals
<1>4. CASE IsTileToTile(program, Channel)
  <2>1. /\ Len(items) = base + 2 * n
        /\ \A p \in 1..Len(items) :
             p <= base \/ \E k \in 1..n : p \in {base + 2 * k - 1, base + 2 * k}
    BY <1>4 DEF AreLowerItems
  <2>2. \A k \in 1..n : /\ items[base + 2 * k - 1].kind = "compute"
                        /\ items[base + 2 * k].kind = "signal"
                        /\ items[base + 2 * k].chans = {Channel}
    <3>1. \A k \in 1..n : /\ items[base + 2 * k - 1] = Item("compute", {Channel}, Pieces[k])
                          /\ items[base + 2 * k] = Signal(k)
      BY <1>4 DEF AreLowerItems
    <3>2. /\ \A k : Signal(k).kind = "signal" /\ Signal(k).chans = {Channel}
          /\ \A r : Item("compute", {Channel}, r).kind = "compute"
      BY ItemIs DEF Signal
    <3>3. ASSUME NEW k \in 1..n
          PROVE  /\ items[base + 2 * k - 1].kind = "compute"
                 /\ items[base + 2 * k].kind = "signal"
                 /\ items[base + 2 * k].chans = {Channel}
      <4>1. /\ items[base + 2 * k - 1] = Item("compute", {Channel}, Pieces[k])
            /\ items[base + 2 * k] = Signal(k)
        BY <3>1, <3>3
      <4> QED
        BY <3>2, <4>1, Zenon
    <3> QED
      BY <3>3
  <2>3. \A k \in 1..n : base + 2 * k \in 1..Len(items)
    BY <1>1, <2>1
  <2>4. ASSUME NEW p \in 1..Len(items)
        PROVE  \/ items[p].kind \in {"semaphore", "compute"}
               \/ /\ items[p].kind = "signal" /\ items[p].chans = {Channel}
                  /\ \E k \in 1..n : p = base + 2 * k
    <3>1. CASE p <= base
      <4>1. base = 1 /\ p = 1
        BY <1>1, <3>1
      <4> QED
        BY <1>2, <4>1
    <3>2. CASE \E k \in 1..n : p \in {base + 2 * k - 1, base + 2 * k}
      BY <2>2, <3>2
    <3> QED
      BY <2>1, <3>1, <3>2
  <2>5. base \in Nat
    BY <1>1
  <2> QED
    BY <1>4, <2>2, <2>3, <2>4, <2>5 DEF HasPieceSignals
<1> QED
  BY <1>3, <1>4

AreSoMany(f, n) == Cardinality({f[k] : k \in 1..n}) = n

LEMMA CountsTo ==
  ASSUME NEW n \in Nat, NEW f, DOMAIN f = 1..n, \A j, k \in 1..n : f[j] = f[k] => j = k
  PROVE  AreSoMany(f, n)
<1> DEFINE T == {f[k] : k \in 1..n}
           g == [k \in 1..n |-> f[k]]
<1>1. g \in Bijection(1..n, T)
  BY DEF Bijection, Injection, Surjection, IsInjective
<1>2. ExistsBijection(1..n, T)
  BY <1>1 DEF ExistsBijection
<1> SUFFICES Cardinality(T) = n
  BY DEF AreSoMany
<1> HIDE DEF T
<1> QED
  BY <1>2, FS_CountingElements

LEMMA Doubled == \A m, base, j, k \in Nat : m + (base + 2 * j) = m + (base + 2 * k) => j = k
OBVIOUS

LEMMA SignalsAreApart ==
  ASSUME NEW n \in Nat \ {0}, NEW base \in Nat, Len(block[Tile]) \in Nat,
         NEW signals, signals = [k \in 1..n |-> Fresh(base + 2 * k)]
  PROVE  AreSoMany(signals, n)
<1> PICK m \in Nat : m = Len(block[Tile])
  OBVIOUS
<1>1. \A k \in 1..n : signals[k][2] = m + (base + 2 * k)
  BY DEF Fresh
<1>2. ASSUME NEW j \in 1..n, NEW k \in 1..n, signals[j] = signals[k]
      PROVE  j = k
  <2>1. m + (base + 2 * j) = m + (base + 2 * k)
    BY <1>1, <1>2
  <2>2. j \in Nat /\ k \in Nat
    OBVIOUS
  <2> QED
    BY <2>1, <2>2, Doubled
<1>3. DOMAIN signals = 1..n
  OBVIOUS
<1> QED
  BY <1>2, <1>3, CountsTo

\* A channel is sent once: it has no value before.
LEMMA ChannelIsNew ==
  ASSUME WorklistInvariant, TablesInvariant, SendsInvariant, GoesAhead, HasSend
  PROVE  Channel \notin DOMAIN values
<1> SUFFICES ASSUME Channel \in DOMAIN values
             PROVE  FALSE
  OBVIOUS
<1>1. phase = "lower" /\ todo # <<>> /\ IsWellFormed /\ at \in Nat
  BY DEF HasSend, TablesInvariant, SendsInvariant
<1>2. /\ NextSend \in DOMAIN Body /\ IsNextSend(NextSend)
      /\ SenderOf(program, Channel).tile = Tile /\ SenderOf(program, Channel).op = NextSend
  BY <1>1, NextSendIsSender
<1>3. Tile \notin lowered
  BY <1>1, TilesBehind DEF WorklistInvariant, Listing
<1>4. NextSend < at
  BY <1>2, <1>3 DEF GoesAhead, IsPast
<1>5. \E n \in Nat : DOMAIN Body = 1..n
  BY <1>1, BodyIsNumbered
<1> QED
  BY <1>1, <1>2, <1>4, <1>5 DEF IsNextSend

LEMMA LowerKeepsSignals ==
  ASSUME WorklistInvariant, TablesInvariant, SendsInvariant, EmissionInvariant, GoesAhead,
         SignalsInOrder, LowerSend
  PROVE  SignalsInOrder'
<1>1. /\ HasSend /\ UNCHANGED program /\ lists' = Put(Channel, LowerStands, lists)
      /\ DOMAIN values' = {Channel} \cup DOMAIN values
  BY LowerSendIs, SendGrowsTables
<1> PICK c, base : c = Channel /\ base = Len(NewSemaphore)
  OBVIOUS
<1> PICK items : \E n \in Nat \ {0} :
      DOMAIN Pieces = 1..n /\ AreLowerItems(items, n) /\ Grown(items)
  BY LowerKeepsEmission DEF EmitsPieces
<1> PICK n \in Nat \ {0} : DOMAIN Pieces = 1..n /\ AreLowerItems(items, n) /\ Grown(items)
  OBVIOUS
<1>2. c \notin DOMAIN values
  BY <1>1, ChannelIsNew
<1>3. /\ Emitted' = Emitted \cup {Fresh(k) : k \in 1..Len(items)}
      /\ \A v \in Emitted : ItemAt(v)' = ItemAt(v)
      /\ \A k \in 1..Len(items) :
           Fresh(k) \notin Emitted /\ \A v : v = Fresh(k) => ItemAt(v)' = items[k]
  BY DEF Grown
<1>4. /\ base \in Nat
      /\ \A p \in 1..Len(items) :
           \/ items[p].kind \in {"semaphore", "compute"}
           \/ /\ IsTileToTile(program, c)
              /\ items[p].kind = "signal" /\ items[p].chans = {c}
              /\ \E k \in 1..n : p = base + 2 * k
      /\ IsTileToTile(program, c) => \A k \in 1..n :
           /\ base + 2 * k \in 1..Len(items)
           /\ items[base + 2 * k].kind = "signal" /\ items[base + 2 * k].chans = {c}
  <2>1. HasPieceSignals(items, n, base, c)
    BY PieceSignals
  <2> QED
    BY <2>1 DEF HasPieceSignals
<1> PICK signals : signals = [k \in 1..n |-> Fresh(base + 2 * k)]
  OBVIOUS
<1>5. ASSUME NEW w \in Emitted' \ Emitted, ItemAt(w)'.kind \in {"wait", "signal"}
      PROVE  /\ ItemAt(w)'.kind = "signal" /\ ItemAt(w)'.chans = {c} /\ IsTileToTile(program, c)
             /\ \E k \in 1..n : w = signals[k]
  <2>1. PICK p \in 1..Len(items) : w = Fresh(p)
    BY <1>3, <1>5
  <2>2. ItemAt(w)' = items[p]
    BY <1>3, <2>1
  <2> QED
    BY <1>4, <1>5, <2>1, <2>2
<1>6. ASSUME IsTileToTile(program, c), NEW k \in 1..n
      PROVE  /\ signals[k] \in Emitted' \ Emitted
             /\ \A w : w = signals[k] => ItemAt(w)'.kind = "signal" /\ ItemAt(w)'.chans = {c}
  <2>1. base + 2 * k \in 1..Len(items) /\ signals[k] = Fresh(base + 2 * k)
    BY <1>4, <1>6
  <2> QED
    BY <1>3, <1>4, <1>6, <2>1
<1>7. \A w, v \in Emitted' :
        ItemAt(w)'.kind = "wait" /\ ItemAt(v)'.kind = "signal"
          /\ (\E d \in ItemAt(w)'.chans : d \in ItemAt(v)'.chans) => Precedes(v, w)
  <2> SUFFICES ASSUME NEW w \in Emitted', NEW v \in Emitted', NEW d, ItemAt(w)'.kind = "wait",
                      ItemAt(v)'.kind = "signal", d \in ItemAt(w)'.chans, d \in ItemAt(v)'.chans
               PROVE  Precedes(v, w)
    OBVIOUS
  <2>1. w \in Emitted /\ ItemAt(w)' = ItemAt(w)
    BY <1>3, <1>5
  <2>2. d \in DOMAIN values
    BY <2>1 DEF SignalsInOrder
  <2>3. v \in Emitted /\ ItemAt(v)' = ItemAt(v)
    BY <1>2, <1>3, <1>5, <2>2
  <2> QED
    BY <2>1, <2>3 DEF SignalsInOrder
<1>8. \A w \in Emitted' : ItemAt(w)'.kind \in {"wait", "signal"} => ItemAt(w)'.chans \subseteq DOMAIN values'
  BY <1>1, <1>3, <1>5 DEF SignalsInOrder
<1>9. ASSUME NEW d \in DOMAIN values, Computes(d), IsTileToTile(program, d)
      PROVE  Cardinality(SignalsOf(d))' = Len(lists'[d])
  <2>1. SignalsOf(d)' = SignalsOf(d)
    BY <1>2, <1>3, <1>5 DEF SignalsOf
  <2>2. d # c /\ d \in DOMAIN lists
    BY <1>2 DEF TablesInvariant
  <2>3. lists'[d] = lists[d]
    BY <1>1, <2>2 DEF Put
  <2> QED
    BY <1>9, <2>1, <2>3 DEF SignalsInOrder
<1>10. ASSUME IsTileToTile(program, c)
       PROVE  Cardinality(SignalsOf(c))' = Len(lists'[c])
  <2>1. SignalsOf(c)' = {signals[k] : k \in 1..n}
    <3>1. \A v \in Emitted : ItemAt(v)'.kind = "signal" => c \notin ItemAt(v)'.chans
      BY <1>2, <1>3 DEF SignalsInOrder
    <3>2. \A v \in Emitted' : ItemAt(v)'.kind = "signal" /\ c \in ItemAt(v)'.chans
            => \E k \in 1..n : v = signals[k]
      BY <1>5, <3>1
    <3>3. \A k \in 1..n : signals[k] \in SignalsOf(c)'
      BY <1>6, <1>10 DEF SignalsOf
    <3> QED
      BY <3>2, <3>3 DEF SignalsOf
  <2>2. Len(block[Tile]) \in Nat
    <3>1. phase = "lower" /\ todo # <<>>
      BY <1>1 DEF HasSend
    <3>2. Tile \in DOMAIN program.tiles /\ program \in Programs
      BY <3>1, TilesBehind DEF WorklistInvariant, ComputeTiles
    <3> QED
      BY <3>2, EmittedValues DEF EmissionInvariant
  <2>3. AreSoMany(signals, n)
    BY <1>4, <2>2, SignalsAreApart
  <2>4. lists'[c] = LowerStands
    BY <1>1 DEF Put
  <2>5. Len(LowerStands) = n
    <3>1. DOMAIN LowerStands = 1..n /\ LowerStands = [k \in 1..n |-> LowerStands[k]]
      BY DEF LowerStands
    <3> HIDE DEF LowerStands
    <3> QED
      BY <3>1, ListPlaces
  <2> QED
    <3>1. Cardinality({signals[k] : k \in 1..n}) = n
      BY <2>3 DEF AreSoMany
    <3> QED
      BY <2>1, <2>4, <2>5, <3>1, Zenon
<1>11. \A d \in DOMAIN values' : Computes(d)' /\ IsTileToTile(program, d)' =>
         Cardinality(SignalsOf(d))' = Len(lists'[d])
  BY <1>1, <1>9, <1>10, ProgramStays
<1> QED
  BY <1>7, <1>8, <1>11 DEF SignalsInOrder, Precedes

\* A value that is only passed on is not signalled.
LEMMA ForwardKeepsSignals ==
  ASSUME WorklistInvariant, TablesInvariant, SendsInvariant, EmissionInvariant, GoesAhead,
         SignalsInOrder, ForwardSend
  PROVE  SignalsInOrder'
<1>1. /\ HasSend /\ ~IsComputed /\ UNCHANGED program /\ lists' = Put(Channel, <<ForwardStands>>, lists)
      /\ DOMAIN values' = {Channel} \cup DOMAIN values
  BY ForwardSendIs, SendGrowsTables
<1>2. ~Computes(Channel)
  BY <1>1, NextSendIsSender DEF TablesInvariant, HasSend
<1> PICK items : AreForwardItems(items) /\ Grown(items)
  BY ForwardKeepsEmission DEF EmitsValue
<1> PICK c, l : c = Channel /\ l = <<ForwardStands>>
  OBVIOUS
<1>3. \A p \in 1..Len(items) : items[p].kind \in {"clone", "semaphore", "layout"}
  <2> PICK cloned, base : cloned = Len(Clone) /\ base = Len(NewSemaphore)
    OBVIOUS
  <2>1. /\ cloned = (IF IsCloned THEN 1 ELSE 0) /\ base \in {0, 1}
        /\ Len(items) = cloned + base + 1
        /\ IsCloned => items[1] = Item("clone", {Channel}, Pieces[1])
        /\ base = 1 => items[cloned + 1] = Item("semaphore", {Channel}, Lowered({}, {}))
        /\ items[cloned + base + 1] = Layout
    BY DEF AreForwardItems
  <2>2. /\ IsCloned => items[1].kind = "clone"
        /\ base = 1 => items[cloned + 1].kind = "semaphore"
        /\ items[cloned + base + 1].kind = "layout"
    BY <2>1, ItemIs DEF Layout
  <2>3. ASSUME NEW p \in 1..Len(items)
        PROVE  (p = 1 /\ IsCloned) \/ (p = cloned + 1 /\ base = 1) \/ p = cloned + base + 1
    BY <2>1, ForwardPlaces
  <2>4. ASSUME NEW p \in 1..Len(items)
        PROVE  items[p].kind \in {"clone", "semaphore", "layout"}
    <3>1. CASE p = 1 /\ IsCloned
      BY ONLY <2>2, <3>1
    <3>2. CASE p = cloned + 1 /\ base = 1
      BY ONLY <2>2, <3>2
    <3>3. CASE p = cloned + base + 1
      BY ONLY <2>2, <3>3
    <3> QED
      BY <2>3, <2>4, <3>1, <3>2, <3>3
  <2> QED
    BY <2>4
<1>4. \A v \in Emitted' \ Emitted : ItemAt(v)'.kind \notin {"wait", "signal"}
  BY <1>3 DEF Grown
<1>5. \A d \in DOMAIN lists : d # c => lists'[d] = lists[d]
  BY <1>1 DEF Put
<1>6. \A d \in DOMAIN values' : Computes(d) => d \in DOMAIN values /\ lists'[d] = lists[d]
  BY <1>1, <1>2, <1>5 DEF TablesInvariant
<1> QED
  BY <1>1, <1>4, <1>6, QuietKeepsSignals DEF Grown

LEMMA StaysKeepsSignals ==
  ASSUME SignalsInOrder, UNCHANGED <<program, block, lists>>, DOMAIN values' = DOMAIN values
  PROVE  SignalsInOrder'
<1>1. Emitted' = Emitted /\ \A v : ItemAt(v)' = ItemAt(v)
  BY DEF Emitted, ItemAt
<1> QED
  BY <1>1, QuietKeepsSignals

-----------------------------------------------------------------------------
(* The conversion of programs in dependency order *)

Smooth == GoesAhead /\ ReadsInOrder /\ SignalsInOrder

\* A conversion that goes ahead does so until it ends, or comes to a send that lacks an
\* input: no tile is ever lowered out of order.
LEMMA StepsKeepSmooth ==
  ASSUME WorklistInvariant, TablesInvariant, SendsInvariant, EmissionInvariant,
         InDependencyOrder(program), phase = "lower", Smooth, [Next]_vars
  PROVE  \/ phase' = "lower" /\ (Smooth' \/ Stuck')
         \/ phase' = "finish" /\ ReadsInOrder' /\ SignalsInOrder'
         \/ phase' = "failed"
<1> GoesAhead /\ ReadsInOrder /\ SignalsInOrder
  BY DEF Smooth
<1>1. CASE BeginTile
  <2>1. /\ phase' = "lower" /\ todo # <<>> /\ at = 0 /\ UNCHANGED <<program, lists>>
        /\ DOMAIN values' = DOMAIN values
    BY <1>1, WaitKeepsChannels DEF BeginTile
  <2>2. CASE EmitsNothing
    BY <1>1, <2>1, <2>2, BeginGoesAhead, StaysKeepsReads, StaysKeepsSignals DEF Smooth, EmitsNothing
  <2>3. CASE EmitsWait
    <3>1. SignalsInOrder'
      BY <2>1, <2>3, WaitKeepsSignals
    <3>2. ReadsInOrder'
      BY <2>1, <2>3, SoundKeepsReads DEF EmitsWait
    <3> QED
      BY <1>1, <2>1, <3>1, <3>2, BeginGoesAhead DEF Smooth
  <2> QED
    BY <1>1, <2>2, <2>3, BeginKeepsEmission
<1>2. CASE LowerSend
  <2>1. todo # <<>> /\ phase' = "lower"
    BY <1>2 DEF LowerSend, HasSend
  <2>2. ReadsInOrder'
    BY <1>2, <2>1, LowerKeepsEmission, SoundKeepsReads DEF EmitsPieces
  <2>3. SignalsInOrder' /\ GoesAhead'
    BY <1>2, LowerKeepsSignals, SendGoesAhead
  <2> QED
    BY <2>1, <2>2, <2>3 DEF Smooth
<1>3. CASE ForwardSend
  <2>1. todo # <<>> /\ phase' = "lower"
    BY <1>3 DEF ForwardSend, HasSend
  <2>2. ReadsInOrder'
    BY <1>3, <2>1, ForwardKeepsEmission, SoundKeepsReads DEF EmitsValue
  <2>3. SignalsInOrder' /\ GoesAhead'
    BY <1>3, ForwardKeepsSignals, SendGoesAhead
  <2> QED
    BY <2>1, <2>2, <2>3 DEF Smooth
<1>4. CASE DeferTile
  <2>1. Stuck
    BY <1>4, LackingIsStuck DEF DeferTile
  <2> QED
    BY <2>1, StepsKeepStuck
<1>5. CASE FinishTile
  <2>1. phase' = "lower" /\ UNCHANGED <<program, block, values, lists>>
    BY <1>5 DEF FinishTile, emission
  <2> QED
    BY <1>5, <2>1, FinishGoesAhead, StaysKeepsReads, StaysKeepsSignals DEF Smooth
<1>6. CASE NextPass
  BY <1>6 DEF NextPass, GoesAhead
<1>7. CASE AbortTile \/ RefuseDependencies
  BY <1>7 DEF AbortTile, RefuseDependencies
<1>8. CASE EndLowering
  <2>1. phase' = "finish" /\ UNCHANGED <<program, block, values, lists>>
    BY <1>8 DEF EndLowering, emission
  <2> QED
    BY <2>1, StaysKeepsReads, StaysKeepsSignals
<1>9. CASE UNCHANGED vars
  <2>1. UNCHANGED <<program, phase, todo, deferred, at, lowered, block, values, lists>>
    BY <1>9 DEF vars
  <2>2. GoesAhead'
    BY <2>1 DEF GoesAhead, IsPast, IsReached, Tile, Emitted, ToSet
  <2> QED
    BY <2>1, <2>2, StaysKeepsReads, StaysKeepsSignals DEF Smooth
<1>10. CASE Analyze \/ RefuseProgram \/ Collect \/ EndCollection \/ FinishTransfers
  BY <1>10 DEF Analyze, RefuseProgram, Collect, EndCollection, FinishTransfers
<1> QED
  BY <1>1, <1>2, <1>3, <1>4, <1>5, <1>6, <1>7, <1>8, <1>9, <1>10 DEF Next

\* Before the lowering nothing is emitted, and the tiles are listed as they stand.
OrderInvariant ==
  /\ phase \in {"analyze", "collect"} => Emitted = {} /\ DOMAIN values = {} /\ Ascends(todo)
  /\ phase = "lower" /\ InDependencyOrder(program) => Smooth \/ Stuck
  /\ phase \in {"finish", "done"} /\ InDependencyOrder(program) => ReadsInOrder /\ SignalsInOrder

LEMMA OrderInvariantStarts == Init => OrderInvariant
<1> SUFFICES ASSUME Init
             PROVE  OrderInvariant
  OBVIOUS
<1>1. phase = "analyze" /\ todo = <<>> /\ values = <<>> /\ block = [t \in DOMAIN program.tiles |-> <<>>]
  BY DEF Init
<1>2. Emitted = {}
  BY <1>1 DEF Emitted
<1>3. Ascends(todo) /\ DOMAIN values = {}
  BY <1>1 DEF Ascends
<1> QED
  BY <1>1, <1>2, <1>3 DEF OrderInvariant

LEMMA CollectKeepsOrder ==
  ASSUME WorklistInvariant, OrderInvariant, Collect
  PROVE  OrderInvariant'
<1>1. /\ phase = "collect" /\ phase' = "collect" /\ UNCHANGED <<program, values, block>>
      /\ Emitted = {} /\ DOMAIN values = {} /\ Ascends(todo)
      /\ todo' = IF at + 1 \in ComputeTiles(program) THEN Append(todo, at + 1) ELSE todo
  BY DEF Collect, emission, OrderInvariant, Listed
<1>2. /\ todo \in Seq(Nat) /\ at \in Nat /\ \A u \in ToSet(todo) : u \in 1..at
  BY <1>1, TilesAreNumbered DEF WorklistInvariant, Walked
<1>3. Ascends(todo')
  <2>1. CASE at + 1 \in ComputeTiles(program)
    <3> PICK longer, n : longer = Append(todo, at + 1) /\ n = Len(todo)
      OBVIOUS
    <3>1. /\ n \in Nat /\ DOMAIN todo = 1..n /\ DOMAIN longer = 1..(n + 1)
          /\ longer[n + 1] = at + 1
          /\ \A i \in 1..n : longer[i] = todo[i]
      BY <1>2, AppendProperties, LenProperties
    <3>2. \A i \in 1..n : todo[i] \in 1..at
      BY <1>2, <3>1 DEF ToSet
    <3>3. ASSUME NEW i \in 1..(n + 1), NEW j \in 1..(n + 1), i < j
          PROVE  longer[i] < longer[j]
      <4>1. i \in 1..n /\ (j \in 1..n \/ j = n + 1)
        BY <3>1, <3>3
      <4>2. ASSUME j \in 1..n
            PROVE  longer[i] < longer[j]
        <5>1. todo[i] < todo[j]
          BY <1>1, <3>1, <3>3, <4>1, <4>2 DEF Ascends
        <5> QED
          BY <3>1, <4>1, <4>2, <5>1
      <4>3. ASSUME j = n + 1
            PROVE  longer[i] < longer[j]
        <5>1. todo[i] \in 1..at
          BY <3>2, <4>1
        <5>2. todo[i] < at + 1
          BY <1>2, <5>1
        <5> QED
          BY <3>1, <4>1, <4>3, <5>2
      <4> QED
        BY <4>1, <4>2, <4>3
    <3> QED
      BY <1>1, <2>1, <3>1, <3>3 DEF Ascends
  <2> QED
    BY <1>1, <2>1
<1>4. Emitted' = {}
  BY <1>1 DEF Emitted
<1> QED
  BY <1>1, <1>3, <1>4 DEF OrderInvariant

\* The conversion goes ahead from its start.
LEMMA LoweringStartsSmooth ==
  ASSUME WorklistInvariant, OrderInvariant, EndCollection
  PROVE  Smooth'
<1>1. /\ phase = "collect" /\ UNCHANGED <<program, todo, deferred, lowered, values, block>>
      /\ Emitted = {} /\ DOMAIN values = {} /\ Ascends(todo)
  BY DEF EndCollection, emission, worklist, OrderInvariant
<1>2. deferred' = <<>> /\ lowered' = {} /\ Ascends(todo')
  BY <1>1 DEF WorklistInvariant
<1>3. Emitted' = {} /\ DOMAIN values' = {}
  BY <1>1 DEF Emitted
<1> QED
  BY <1>2, <1>3 DEF Smooth, GoesAhead, ReadsInOrder, SignalsInOrder

LEMMA StepsKeepOrder ==
  WorklistInvariant /\ TablesInvariant /\ SendsInvariant /\ EmissionInvariant /\ OrderInvariant
    /\ [Next]_vars => OrderInvariant'
<1> SUFFICES ASSUME WorklistInvariant, TablesInvariant, SendsInvariant, EmissionInvariant,
                    OrderInvariant, [Next]_vars
             PROVE  OrderInvariant'
  OBVIOUS
<1>1. program' = program
  BY DEF Next, vars, Analyze, RefuseProgram, Collect, EndCollection, BeginTile, LowerSend,
         ForwardSend, DeferTile, AbortTile, FinishTile, NextPass, RefuseDependencies, EndLowering,
         FinishTransfers
<1>2. CASE phase = "lower"
  <2>1. ASSUME InDependencyOrder(program)
        PROVE  \/ phase' = "lower" /\ (Smooth' \/ Stuck')
               \/ phase' = "finish" /\ ReadsInOrder' /\ SignalsInOrder'
               \/ phase' = "failed"
    BY <1>2, <2>1, StepsKeepSmooth, StepsKeepStuck DEF OrderInvariant
  <2>2. phase' \in {"lower", "finish", "failed"}
    BY <1>2 DEF Next, vars, Analyze, RefuseProgram, Collect, EndCollection, BeginTile, LowerSend,
         ForwardSend, DeferTile, AbortTile, FinishTile, NextPass, RefuseDependencies, EndLowering,
         FinishTransfers, HasSend
  <2> QED
    BY <1>1, <2>1, <2>2 DEF OrderInvariant
<1>3. CASE phase # "lower"
  <2>1. CASE Analyze \/ RefuseProgram
    <3>1. /\ phase = "analyze" /\ phase' \in {"collect", "failed"}
          /\ UNCHANGED <<program, todo, values, block>>
      BY <2>1 DEF Analyze, RefuseProgram, worklist, emission
    <3>2. Emitted' = Emitted
      BY <3>1 DEF Emitted
    <3> QED
      BY <3>1, <3>2 DEF OrderInvariant
  <2>2. CASE Collect
    BY <2>2, CollectKeepsOrder
  <2>3. CASE EndCollection
    BY <2>3, LoweringStartsSmooth DEF EndCollection, OrderInvariant
  <2>4. CASE FinishTransfers
    <3>1. /\ phase = "finish" /\ phase' \in {"done", "failed"}
          /\ UNCHANGED <<program, block, values, lists>>
      BY <2>4 DEF FinishTransfers, emission
    <3> QED
      BY <3>1, StaysKeepsReads, StaysKeepsSignals DEF OrderInvariant
  <2>5. CASE UNCHANGED vars
    <3>1. UNCHANGED <<program, phase, todo, block, values, lists>>
      BY <2>5 DEF vars
    <3>2. Emitted' = Emitted
      BY <3>1 DEF Emitted
    <3> QED
      BY <1>3, <3>1, <3>2, StaysKeepsReads, StaysKeepsSignals DEF OrderInvariant
  <2> QED
    BY <1>3, <2>1, <2>2, <2>3, <2>4, <2>5 DEF Next, BeginTile, LowerSend, ForwardSend, DeferTile,
       AbortTile, FinishTile, NextPass, RefuseDependencies, EndLowering, HasSend
<1> QED
  BY <1>2, <1>3

THEOREM OrderKeeps == Spec => []OrderInvariant
BY WorklistKeeps, TablesKeep, SendsKeep, EmissionKeeps, OrderInvariantStarts, StepsKeepOrder, PTL
   DEF Spec

\* Whatever the program is: when its tiles stand in dependency order and it is converted,
\* every operation stands behind those whose results it takes, although the operations of
\* a tile that is tried again are emitted once more.
THEOREM OperationsFollowTheirOperands == Spec => []DefinedBeforeUse
<1>1. OrderInvariant => DefinedBeforeUse
  BY DEF OrderInvariant, DefinedBeforeUse, ReadsInOrder
<1> QED
  BY <1>1, OrderKeeps, PTL

\* Whatever the program is: in the same case a receiver that waits for a computed value is
\* signalled once for each of its pieces, and waits behind these signals.
THEOREM SignalsComeBeforeWaits == Spec => []WaitsComeAfterTheirSignal
<1>1. TablesInvariant /\ OrderInvariant => WaitsComeAfterTheirSignal
  <2> SUFFICES ASSUME TablesInvariant, SignalsInOrder, NEW c \in DOMAIN semaphores,
                      WaitsFor(c) # {}, Computes(c)
               PROVE  /\ Cardinality(SignalsOf(c)) = Len(lists[c])
                      /\ \A w \in WaitsFor(c) : \A v \in SignalsOf(c) : Precedes(v, w)
    BY DEF OrderInvariant, WaitsComeAfterTheirSignal
  <2>1. c \in DOMAIN values /\ IsTileToTile(program, c)
    BY DEF WaitsFor, SignalsInOrder, TablesInvariant
  <2> QED
    BY <2>1 DEF WaitsFor, SignalsOf, SignalsInOrder
<1> QED
  BY <1>1, TablesKeep, OrderKeeps, PTL

-----------------------------------------------------------------------------
(* A supported program in dependency order goes ahead to its end *)

\* A tile that sends does not only store.
LEMMA SendersCompute ==
  ASSUME program \in Programs, NEW s \in TileSends(program)
  PROVE  s.tile \in ComputeTiles(program)
<1>1. s.tile \in DOMAIN program.tiles /\ s.op \in DOMAIN program.tiles[s.tile].body
      /\ program.tiles[s.tile].body[s.op].kind = "send"
  BY SendPlaces DEF OpAt
<1>2. ~IsInitStorage(program.tiles[s.tile])
  <2>1. ASSUME \A i \in DOMAIN program.tiles[s.tile].body :
                 program.tiles[s.tile].body[i].kind \in {"recv", "store"}
        PROVE  FALSE
    BY <1>1, <2>1
  <2> QED
    BY <2>1 DEF IsInitStorage
<1> QED
  BY <1>1, <1>2 DEF ComputeTiles

\* The channels of a tile have values once the tile is lowered.
LEMMA LoweredTilesHaveSent ==
  ASSUME WorklistInvariant, SendsInvariant, IsWellFormed, NEW c \in TileChannels(program),
         SenderOf(program, c).tile \in lowered
  PROVE  c \in DOMAIN values
<1>1. program \in Programs /\ ErasedTilesHaveSent
  BY DEF WorklistInvariant, SendsInvariant
<1>2. SenderOf(program, c) \in TileSends(program) /\ ChannelAt(program, SenderOf(program, c)) = c
  BY <1>1, SendersAreUnique
<1> PICK s : s = SenderOf(program, c)
  OBVIOUS
<1>3. s.op \in DOMAIN program.tiles[s.tile].body /\ OpAt(program, s).kind = "send"
  BY <1>1, <1>2, SendPlaces
<1> QED
  BY <1>1, <1>2, <1>3 DEF ErasedTilesHaveSent, OpAt, ChannelAt

\* What a supported send is made of, in the terms of the tile under way.
IsSupportedHere ==
  LET v == SentValue(Body, NextSend)
      args == Body[v].args
      computed == IF SentKind(Body, NextSend) # "add" THEN {v}
                  ELSE IF IsCut(Body, v) THEN ToSet(Body[args[CutBy(Body, v)]].args)
                  ELSE {args[1], args[2]}
      behind == IF IsComputed THEN UNION {Behind(Body)[i] : i \in computed} ELSE {}
      moved == UNION {Behind(Body)[i] :
                      i \in IF IsComputed
                            THEN {j \in behind : Body[j].kind \in {"slice", "concat"}}
                            ELSE {Send.args[1]}}
  IN /\ \A i \in behind :
          Body[i].kind \in {"recv", "load"} \cup Hoistable \cup (Residual \ {"add"})
     /\ \A i \in moved :
          /\ Body[i].kind \in {"recv", "load"} \cup Hoistable
          /\ Body[i].kind = "recv" =>
               Body[i].name \in HostChannels(program) \/ ~Computes(Body[i].name)
     /\ \A i \in Behind(Body)[Send.args[1]] :
          /\ Body[i].kind = "load" => Body[i].name \in Slots(program)
          /\ Body[i].kind = "recv" =>
               \A j \in DOMAIN Body : Body[j].kind = "send" => Body[j].name # Body[i].name
     /\ IsPlaced

LEMMA SupportedIsHere ==
  ASSUME WorklistInvariant, IsWellFormed, HasSend, IsSupported(Channel)
  PROVE  IsSupportedHere
<1> PICK c : c = Channel
  OBVIOUS
<1>1. /\ BodyOf(c) = Body /\ OpAt(program, SenderOf(program, c)) = Send
      /\ Asked(c) = <<SentValue(Body, NextSend), SentPart(Body, NextSend)>>
      /\ RootKind(c) = SentKind(Body, NextSend)
      /\ Computes(c) <=> IsComputed
  BY NextSendIsSender
<1>2. SentArg(c) = Send.args[1] /\ Asked(c)[1] = SentValue(Body, NextSend)
  BY <1>1 DEF SentArg
<1>3. RootKind(c) = "add" => (IsSharded(c) <=> IsCut(Body, SentValue(Body, NextSend)))
  BY <1>1, <1>2 DEF IsSharded, IsCut
<1>4. Computed(c) =
        LET v == SentValue(Body, NextSend)
            args == Body[v].args
        IN IF SentKind(Body, NextSend) # "add" THEN {v}
           ELSE IF IsCut(Body, v) THEN ToSet(Body[args[CutBy(Body, v)]].args)
           ELSE {args[1], args[2]}
  BY <1>1, <1>2, <1>3 DEF Computed, CutBy
<1>5. ComputedFrom(c) = IF IsComputed THEN UNION {Behind(Body)[i] : i \in Computed(c)} ELSE {}
  BY <1>1 DEF ComputedFrom
<1>6. MovedFrom(c) =
        UNION {Behind(Body)[i] :
               i \in IF IsComputed
                     THEN {j \in ComputedFrom(c) : Body[j].kind \in {"slice", "concat"}}
                     ELSE {Send.args[1]}}
  BY <1>1, <1>2 DEF MovedFrom
<1>7. /\ \A i \in ComputedFrom(c) :
           Body[i].kind \in {"recv", "load"} \cup Hoistable \cup (Residual \ {"add"})
      /\ \A i \in MovedFrom(c) :
           /\ Body[i].kind \in {"recv", "load"} \cup Hoistable
           /\ Body[i].kind = "recv" =>
                Body[i].name \in HostChannels(program) \/ ~Computes(Body[i].name)
      /\ \A i \in Behind(Body)[Send.args[1]] :
           /\ Body[i].kind = "load" => Body[i].name \in Slots(program)
           /\ Body[i].kind = "recv" =>
                \A j \in DOMAIN Body : Body[j].kind = "send" => Body[j].name # Body[i].name
      /\ IsPlaced
  BY <1>1, <1>2 DEF IsSupported, IsPlaced
<1> QED
  BY <1>4, <1>5, <1>6, <1>7 DEF IsSupportedHere

\* Where the tiles go ahead in dependency order, what a supported send receives or
\* loads is there.
LEMMA SourcesAreThere ==
  ASSUME WorklistInvariant, TablesInvariant, SendsInvariant, GoesAhead, HasSend,
         InDependencyOrder(program), IsSupportedHere, NEW i \in Behind(Body)[Send.args[1]]
  PROVE  /\ i \in DOMAIN Body
         /\ SourceStands(Body, i, values)
         /\ (Body[i].kind = "recv" =>
               Body[i].name \in HostChannels(program) \/ ~Computes(Body[i].name))
              => SourceStands(Body, i, logical)
<1>1. phase = "lower" /\ todo # <<>> /\ IsWellFormed /\ program \in Programs
  BY DEF HasSend, TablesInvariant, WorklistInvariant
<1>2. /\ IsBody(Body) /\ NextSend \in DOMAIN Body /\ Body[NextSend].kind = "send"
      /\ Tile \in DOMAIN program.tiles /\ Channel \in TileChannels(program)
      /\ SenderOf(program, Channel).tile = Tile
      /\ Sent(program, Channel) = Leaves(Body)[<<Send.args[1], Whole>>]
  BY <1>1, NextSendIsSender
<1>3. Send.args[1] \in DOMAIN Body
  BY <1>2, SentIsMeant DEF Send
<1>4. /\ i \in DOMAIN Body
      /\ Body[i].kind = "recv" => \E l \in Sent(program, Channel) : l[1] = Body[i].name
  BY <1>2, <1>3, BehindIsMeant
<1>5. Body[i].kind = "load" => Body[i].name \in Slots(program)
  BY DEF IsSupportedHere
<1>6. ASSUME Body[i].kind = "recv"
      PROVE  Body[i].name \in HostChannels(program) \cup DOMAIN values
  <2>1. Body[i].name \in Received(program)
    <3> DEFINE heard(t) == {program.tiles[t].body[j].name :
                              j \in {k \in DOMAIN program.tiles[t].body :
                                       program.tiles[t].body[k].kind = "recv"}}
    <3>1. Body[i].name \in heard(Tile)
      BY <1>4, <1>6 DEF Body
    <3>2. heard(Tile) \subseteq UNION {heard(t) : t \in DOMAIN program.tiles}
      BY <1>2
    <3>3. UNION {heard(t) : t \in DOMAIN program.tiles} \subseteq Received(program)
      BY DEF Received
    <3> HIDE DEF heard
    <3> QED
      BY <3>1, <3>2, <3>3
  <2>2. Body[i].name \in HostChannels(program) \cup TileChannels(program)
    BY <1>1, <2>1 DEF IsWellFormed, ChannelsAreMatched
  <2>3. ASSUME Body[i].name \in TileChannels(program)
        PROVE  Body[i].name \in DOMAIN values
    <3> PICK d : d = Body[i].name
      OBVIOUS
    <3>1. SenderOf(program, d) \in TileSends(program) /\ ChannelAt(program, SenderOf(program, d)) = d
      BY <1>1, <2>3, SendersAreUnique
    <3> PICK s : s = SenderOf(program, d)
      OBVIOUS
    <3>2. /\ s.op \in DOMAIN program.tiles[s.tile].body
          /\ program.tiles[s.tile].body[s.op].kind = "send"
          /\ program.tiles[s.tile].body[s.op].name = d
      BY <1>1, <3>1, SendPlaces DEF OpAt, ChannelAt
    <3>3. s.tile # Tile
      BY <1>6, <3>2 DEF IsSupportedHere, Body
    <3>4. d \in Reads(program, Channel)
      BY <1>2, <1>4, <1>6, <2>3, <3>3 DEF Reads
    <3>5. s.tile < Tile
      BY <1>2, <3>4 DEF InDependencyOrder
    <3>6. s.tile \in lowered
      BY <1>1, <3>1, <3>5, SendersCompute, TilesBehind
    <3> QED
      BY <1>1, <2>3, <3>6, LoweredTilesHaveSent
  <2> QED
    BY <2>2, <2>3
<1>7. DOMAIN logical = {c \in DOMAIN values : ~Computes(c)}
  BY DEF TablesInvariant
<1> QED
  BY <1>4, <1>5, <1>6, <1>7 DEF SourceStands

\* So a supported send lacks nothing where the tiles go ahead in dependency order.
LEMMA SupportedIsLowered ==
  ASSUME WorklistInvariant, TablesInvariant, SendsInvariant, GoesAhead, HasSend,
         InDependencyOrder(program), IsSupportedHere
  PROVE  ArePiecesLowered
<1> DEFINE B == Behind(Body)
           v == SentValue(Body, NextSend)
           args == Body[v].args
           n == CutBy(Body, v)
           sent == Send.args[1]
<1>1. IsWellFormed /\ IsBody(Body) /\ NextSend \in DOMAIN Body /\ Body[NextSend].kind = "send"
  BY NextSendIsSender DEF HasSend, TablesInvariant
<1>2. /\ sent \in DOMAIN Body /\ v \in DOMAIN Body /\ B[v] \subseteq B[sent]
      /\ SentKind(Body, NextSend) = "add" =>
           /\ DOMAIN args = {1, 2} /\ n \in {1, 2} /\ 3 - n \in {1, 2}
           /\ \A m \in {1, 2} : args[m] \in DOMAIN Body /\ B[args[m]] \subseteq B[sent]
           /\ IsCut(Body, v) =>
                \A m \in DOMAIN Body[args[n]].args :
                  /\ Body[args[n]].args[m] \in DOMAIN Body
                  /\ B[Body[args[n]].args[m]] \subseteq B[sent]
  BY <1>1, SendPlacesBehind DEF Send
<1>3. ASSUME NEW i \in DOMAIN Body, B[i] \subseteq B[sent],
             \A j \in B[i] : /\ Body[j].kind \in {"recv", "load"} \cup Hoistable
                             /\ Body[j].kind = "recv" =>
                                  Body[j].name \in HostChannels(program) \/ ~Computes(Body[j].name)
      PROVE  Moves(Body, i, logical)
  BY <1>3, SourcesAreThere DEF Moves
<1>4. ASSUME IsComputed, NEW i \in DOMAIN Body, B[i] \subseteq B[sent],
             SentKind(Body, NextSend) # "add" => i = v,
             SentKind(Body, NextSend) = "add" =>
               IF IsCut(Body, v) THEN i \in ToSet(Body[args[n]].args) ELSE i \in {args[1], args[2]}
      PROVE  CanBeLowered(Body, i, values, logical)
  <2> DEFINE computed == IF SentKind(Body, NextSend) # "add" THEN {v}
                         ELSE IF IsCut(Body, v) THEN ToSet(Body[args[n]].args)
                         ELSE {args[1], args[2]}
             behind == IF IsComputed THEN UNION {B[j] : j \in computed} ELSE {}
             moved == UNION {B[j] : j \in IF IsComputed
                                          THEN {m \in behind : Body[m].kind \in {"slice", "concat"}}
                                          ELSE {sent}}
  <2>1. /\ \A j \in behind : Body[j].kind \in {"recv", "load"} \cup Hoistable \cup (Residual \ {"add"})
        /\ \A j \in moved :
             /\ Body[j].kind \in {"recv", "load"} \cup Hoistable
             /\ Body[j].kind = "recv" =>
                  Body[j].name \in HostChannels(program) \/ ~Computes(Body[j].name)
    BY DEF IsSupportedHere
  <2>2. i \in computed
    BY <1>4
  <2> HIDE DEF computed
  <2>3. B[i] \subseteq behind
    BY <1>4, <2>2
  <2> HIDE DEF behind
  <2>4. \A j \in behind : Body[j].kind \in {"slice", "concat"} => B[j] \subseteq moved
    BY <1>4
  <2> HIDE DEF moved
  <2>5. \A j \in B[i] : j \in DOMAIN Body /\ SourceStands(Body, j, values) /\ B[j] \subseteq B[sent]
    BY <1>1, <1>2, <1>4, SourcesAreThere, BehindIsTransitive
  <2>6. ASSUME NEW j \in B[i], Body[j].kind \in {"slice", "concat"}
        PROVE  Moves(Body, j, logical)
    <3>1. j \in DOMAIN Body /\ B[j] \subseteq B[sent] /\ B[j] \subseteq moved
      BY <2>3, <2>4, <2>5, <2>6
    <3> HIDE DEF B, sent
    <3> QED
      BY <1>3, <2>1, <3>1
  <2> HIDE DEF B
  <2>7. \A j \in B[i] : Body[j].kind \in {"recv", "load"} \cup Hoistable \cup (Residual \ {"add"})
    BY <2>1, <2>3
  <2> QED
    BY <2>5, <2>6, <2>7 DEF CanBeLowered, B
<1>5. ASSUME ~IsComputed
      PROVE  Moves(Body, sent, logical)
  <2>1. \A j \in B[sent] : /\ Body[j].kind \in {"recv", "load"} \cup Hoistable
                           /\ Body[j].kind = "recv" =>
                                Body[j].name \in HostChannels(program) \/ ~Computes(Body[j].name)
    BY <1>5 DEF IsSupportedHere
  <2> QED
    BY <1>2, <1>3, <2>1
<1>6. SentKind(Body, NextSend) \in Residual \ {"add"} => CanBeLowered(Body, v, values, logical)
  BY <1>2, <1>4 DEF IsComputed
<1>7. SentKind(Body, NextSend) = "add" =>
        /\ IsComputed
        /\ ~IsCut(Body, v) => /\ CanBeLowered(Body, args[1], values, logical)
                              /\ CanBeLowered(Body, args[2], values, logical)
        /\ IsCut(Body, v) =>
             /\ SourceStands(Body, args[3 - n], values)
             /\ \A m \in DOMAIN Body[args[n]].args :
                  CanBeLowered(Body, Body[args[n]].args[m], values, logical)
  <2> SUFFICES ASSUME SentKind(Body, NextSend) = "add"
               PROVE  /\ IsComputed
                      /\ ~IsCut(Body, v) => /\ CanBeLowered(Body, args[1], values, logical)
                                            /\ CanBeLowered(Body, args[2], values, logical)
                      /\ IsCut(Body, v) =>
                           /\ SourceStands(Body, args[3 - n], values)
                           /\ \A m \in DOMAIN Body[args[n]].args :
                                CanBeLowered(Body, Body[args[n]].args[m], values, logical)
    OBVIOUS
  <2>1. IsComputed
    BY DEF IsComputed, Residual
  <2>2. ASSUME ~IsCut(Body, v), NEW m \in {1, 2}
        PROVE  CanBeLowered(Body, args[m], values, logical)
    BY <1>2, <1>4, <2>1, <2>2
  <2>3. ASSUME IsCut(Body, v)
        PROVE  SourceStands(Body, args[3 - n], values)
    <3>1. args[3 - n] \in B[args[3 - n]] /\ B[args[3 - n]] \subseteq B[sent]
      BY <1>1, <1>2, OperandsAreBehind
    <3> QED
      BY <3>1, SourcesAreThere
  <2>4. ASSUME IsCut(Body, v), NEW m \in DOMAIN Body[args[n]].args
        PROVE  CanBeLowered(Body, Body[args[n]].args[m], values, logical)
    <3>1. Body[args[n]].args[m] \in ToSet(Body[args[n]].args)
      BY <2>4 DEF ToSet
    <3> QED
      BY <1>2, <1>4, <2>1, <2>4, <3>1
  <2> QED
    BY <2>1, <2>2, <2>3, <2>4
<1>8. ArePieces(Body, NextSend, values, logical)
  <2>1. SentKind(Body, NextSend) \notin Residual => Moves(Body, Body[NextSend].args[1], logical)
    BY <1>5 DEF IsComputed, Send
  <2> QED
    BY <1>1, <1>6, <1>7, <2>1, SendsWhenItCan
<1> QED
  BY <1>8 DEF ArePieces, ArePiecesLowered, Pieces

\* The conversion of a supported program in dependency order goes ahead and does not fail.
SupportInvariant ==
  IsProgramSupported /\ InDependencyOrder(program) =>
    phase # "failed" /\ (phase = "lower" => GoesAhead)

LEMMA SupportStays ==
  ASSUME program' = program
  PROVE  IsProgramSupported' <=> IsProgramSupported
<1> PICK p : p = program
  OBVIOUS
<1>1. p' = p
  OBVIOUS
<1>2. \A c : /\ BodyOf(c)' = BodyOf(c) /\ SentArg(c)' = SentArg(c) /\ Asked(c)' = Asked(c)
             /\ RootKind(c)' = RootKind(c) /\ Computes(c)' = Computes(c)
  BY DEF Computes, RootKind, Asked, IsSlice, SentArg, BodyOf
<1>3. \A c : ComputedFrom(c)' = ComputedFrom(c)
  <2>1. \A c : Computed(c)' = Computed(c)
    BY <1>2 DEF Computed, IsSharded
  <2> QED
    BY <1>2, <2>1 DEF ComputedFrom
<1>4. \A c : MovedFrom(c)' = MovedFrom(c)
  BY <1>2, <1>3 DEF MovedFrom
<1>5. \A c : IsSupported(c)' <=> IsSupported(c)
  BY <1>2, <1>3, <1>4 DEF IsSupported
<1> QED
  BY <1>5, ProgramStays DEF IsProgramSupported

\* What the host receives is there when the tiles are lowered.
LEMMA OutputsAreThere ==
  ASSUME WorklistInvariant, TablesInvariant, SendsInvariant, IsProgramSupported, phase = "finish",
         NEW k \in DOMAIN program.outs
  PROVE  IsFinish(program.outs[k])
<1>1. IsWellFormed /\ program \in Programs /\ lowered = ComputeTiles(program)
  BY DEF TablesInvariant, WorklistInvariant
<1> PICK c : c = program.outs[k]
  OBVIOUS
<1>2. c \in TileChannels(program) /\ ~IsTileToTile(program, c)
  BY DEF IsProgramSupported
<1>3. SenderOf(program, c).tile \in lowered
  BY <1>1, <1>2, SendersAreUnique, SendersCompute
<1> QED
  BY <1>1, <1>2, <1>3, LoweredTilesHaveSent DEF IsFinish

LEMMA SupportedStepsGoAhead ==
  ASSUME WorklistInvariant, TablesInvariant, SendsInvariant, EmissionInvariant,
         IsProgramSupported, InDependencyOrder(program), phase = "lower", GoesAhead, [Next]_vars
  PROVE  phase' # "failed" /\ (phase' = "lower" => GoesAhead')
<1>1. ASSUME HasSend
      PROVE  ArePiecesLowered /\ IsPlaced
  <2>1. IsWellFormed /\ Channel \in TileChannels(program)
    BY <1>1, NextSendIsSender DEF IsProgramSupported
  <2>2. IsSupportedHere
    BY <1>1, <2>1, SupportedIsHere DEF IsProgramSupported
  <2>3. IsPlaced
    BY <2>2 DEF IsSupportedHere
  <2> QED
    BY <1>1, <2>2, <2>3, SupportedIsLowered
<1>2. CASE BeginTile
  BY <1>2, BeginGoesAhead DEF BeginTile
<1>3. CASE LowerSend \/ ForwardSend
  <2>1. phase' = "lower"
    BY <1>3, SendGrowsTables
  <2> QED
    BY <1>3, <2>1, SendGoesAhead
<1>4. CASE DeferTile \/ AbortTile
  BY <1>1, <1>4 DEF DeferTile, AbortTile
<1>5. CASE FinishTile
  BY <1>5, FinishGoesAhead DEF FinishTile
<1>6. CASE NextPass \/ RefuseDependencies
  BY <1>6 DEF NextPass, RefuseDependencies, GoesAhead
<1>7. CASE EndLowering
  BY <1>7 DEF EndLowering
<1>8. CASE UNCHANGED vars
  <2>1. UNCHANGED <<program, phase, todo, deferred, at, lowered, block, values, lists>>
    BY <1>8 DEF vars
  <2>2. GoesAhead'
    BY <2>1 DEF GoesAhead, IsPast, IsReached, Tile, Emitted, ToSet
  <2> QED
    BY <2>1, <2>2
<1>9. CASE Analyze \/ RefuseProgram \/ Collect \/ EndCollection \/ FinishTransfers
  BY <1>9 DEF Analyze, RefuseProgram, Collect, EndCollection, FinishTransfers
<1> QED
  BY <1>2, <1>3, <1>4, <1>5, <1>6, <1>7, <1>8, <1>9 DEF Next

LEMMA StepsKeepSupport ==
  WorklistInvariant /\ TablesInvariant /\ SendsInvariant /\ EmissionInvariant /\ OrderInvariant
    /\ SupportInvariant /\ [Next]_vars => SupportInvariant'
<1> SUFFICES ASSUME WorklistInvariant, TablesInvariant, SendsInvariant, EmissionInvariant,
                    OrderInvariant, SupportInvariant, [Next]_vars
             PROVE  SupportInvariant'
  OBVIOUS
<1>1. program' = program
  BY DEF Next, vars, Analyze, RefuseProgram, Collect, EndCollection, BeginTile, LowerSend,
         ForwardSend, DeferTile, AbortTile, FinishTile, NextPass, RefuseDependencies, EndLowering,
         FinishTransfers
<1>2. SUFFICES ASSUME IsProgramSupported, InDependencyOrder(program)
               PROVE  phase' # "failed" /\ (phase' = "lower" => GoesAhead')
  BY <1>1, SupportStays DEF SupportInvariant
<1>3. phase # "failed" /\ (phase = "lower" => GoesAhead) /\ IsWellFormed
  BY <1>2 DEF SupportInvariant, IsProgramSupported
<1>4. CASE phase = "lower"
  BY <1>2, <1>3, <1>4, SupportedStepsGoAhead
<1>5. CASE phase # "lower"
  <2>1. CASE EndCollection
    BY <2>1, LoweringStartsSmooth DEF EndCollection, Smooth
  <2>2. CASE FinishTransfers
    <3>1. phase = "finish" /\ phase' = IF \A k \in DOMAIN program.outs : IsFinish(program.outs[k])
                                       THEN "done" ELSE "failed"
      BY <2>2 DEF FinishTransfers
    <3>2. \A k \in DOMAIN program.outs : IsFinish(program.outs[k])
      BY <1>2, <3>1, OutputsAreThere
    <3> QED
      BY <3>1, <3>2
  <2>3. CASE Analyze \/ RefuseProgram \/ Collect \/ UNCHANGED vars
    BY <1>3, <1>5, <2>3 DEF Analyze, RefuseProgram, Collect, vars
  <2> QED
    BY <1>5, <2>1, <2>2, <2>3 DEF Next, BeginTile, LowerSend, ForwardSend, DeferTile,
       AbortTile, FinishTile, NextPass, RefuseDependencies, EndLowering, HasSend
<1> QED
  BY <1>4, <1>5

THEOREM SupportKeeps == Spec => []SupportInvariant
<1>1. Init => SupportInvariant
  BY DEF Init, SupportInvariant
<1> QED
  BY <1>1, WorklistKeeps, TablesKeep, SendsKeep, EmissionKeeps, OrderKeeps, StepsKeepSupport, PTL
     DEF Spec

\* Whatever the program is: when the conversion can lower what it sends and its tiles
\* stand in dependency order, no tile is put off and the conversion does not fail.
THEOREM SupportedProgramsAreLowered == Spec => []OrderedProgramsAreLowered
<1>1. SupportInvariant => OrderedProgramsAreLowered
  BY DEF SupportInvariant, OrderedProgramsAreLowered
<1> QED
  BY <1>1, SupportKeeps, PTL
=============================================================================
