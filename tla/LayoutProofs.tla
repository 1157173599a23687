---------------------------- MODULE LayoutProofs ----------------------------
(***************************************************************************)
(* The layout of the payloads: a slice is gathered when its receives tile  *)
(* it.  The planner compares areas and pairs of boxes; that this tells     *)
(* tilings from all else is a matter of counting cells.                    *)
(***************************************************************************)
EXTENDS EmittedLayout, ContractProofs, DataInduction

-----------------------------------------------------------------------------
(* Counting cells *)

\* The elements of the sets of a list that are picked, added up in order.
AddedUp(n, into, size, sum) ==
  sum = [m \in 0..n |->
           IF m = 0 THEN 0 ELSE sum[m - 1] + IF m \in into THEN size[m] ELSE 0]

\* A sum has a solution.
LEMMA SumSolves ==
  ASSUME NEW n \in Nat, NEW into, NEW size \in [1..n -> Nat],
         NEW sum, sum = CHOOSE s : AddedUp(n, into, size, s)
  PROVE  AddedUp(n, into, size, sum)
<1> DEFINE D == [g \in [0..n -> Nat] |->
                   [m \in 0..n |->
                      IF m = 0 THEN 0
                      ELSE g[m - 1] + IF m \in into THEN size[m] ELSE 0]]
           rank == [m \in 0..n |-> m]
<1>1. ASSUME NEW g \in [0..n -> Nat], NEW m \in 0..n, m # 0
      PROVE  g[m - 1] + (IF m \in into THEN size[m] ELSE 0) \in Nat
  <2>1. m \in 1..n /\ m - 1 \in 0..n
    BY <1>1
  <2> QED
    BY <1>1, <2>1
<1>2. D \in [[0..n -> Nat] -> [0..n -> Nat]]
  BY <1>1
<1>3. IsRanking(0..n, rank)
  <2>1. rank \in [0..n -> Nat] /\ n + 1 \in Nat /\ \A m \in 0..n : rank[m] < n + 1
    OBVIOUS
  <2> HIDE DEF rank
  <2> QED
    BY <2>1 DEF IsRanking
<1>4. ASSUME NEW g \in [0..n -> Nat], NEW h \in [0..n -> Nat], NEW m \in 0..n,
             \A k \in 0..n : rank[k] < rank[m] => g[k] = h[k]
      PROVE  D[g][m] = D[h][m]
  <2>1. CASE m = 0
    BY <2>1
  <2>2. CASE m # 0
    <3>1. m - 1 \in 0..n /\ rank[m - 1] < rank[m]
      BY <2>2
    <3>2. g[m - 1] = h[m - 1]
      BY <1>4, <3>1
    <3> QED
      BY <2>2, <3>2
  <2> QED
    BY <2>1, <2>2
<1>5. IsRecursion(0..n, Nat, rank, D)
  BY <1>2, <1>4 DEF IsRecursion
<1>6. PICK g \in [0..n -> Nat] : g = D[g]
  <2> DEFINE S == 0..n
             V == Nat
  <2>1. V # {}
    OBVIOUS
  <2>2. IsRanking(S, rank) /\ IsRecursion(S, V, rank, D)
    BY <1>3, <1>5
  <2> HIDE DEF S, V, D, rank
  <2>3. \E g \in [S -> V] : g = D[g]
    BY <2>1, <2>2, RecursionSolves
  <2> QED
    BY <2>3 DEF S, V
<1>7. AddedUp(n, into, size, g)
  BY <1>6 DEF AddedUp
<1> QED
  BY <1>7

\* Sets of known sizes that have no elements in common, and the sum of the sizes.
AreApart(n, into, C, size, sum) ==
  /\ n \in Nat /\ size \in [1..n -> Nat] /\ AddedUp(n, into, size, sum)
  /\ \A i \in 1..n : IsFiniteSet(C[i]) /\ Cardinality(C[i]) = size[i]
  /\ \A i, j \in into \cap (1..n) : i # j => C[i] \cap C[j] = {}

\* They have as many elements together as one by one.
LEMMA DisjointSetsCount ==
  ASSUME NEW n, NEW into, NEW C, NEW size, NEW sum, AreApart(n, into, C, size, sum)
  PROVE  /\ IsFiniteSet(UNION {C[i] : i \in into \cap (1..n)})
         /\ Cardinality(UNION {C[i] : i \in into \cap (1..n)}) = sum[n]
<1> /\ n \in Nat /\ size \in [1..n -> Nat] /\ AddedUp(n, into, size, sum)
    /\ \A i \in 1..n : IsFiniteSet(C[i]) /\ Cardinality(C[i]) = size[i]
    /\ \A i, j \in into \cap (1..n) : i # j => C[i] \cap C[j] = {}
  BY DEF AreApart
<1> DEFINE U(m) == UNION {C[i] : i \in into \cap (1..m)}
           T == {m \in Nat : m <= n =>
                   IsFiniteSet(U(m)) /\ Cardinality(U(m)) = sum[m]}
<1>1. \A m \in 0..n : sum[m] = IF m = 0 THEN 0
                               ELSE sum[m - 1] + IF m \in into THEN size[m] ELSE 0
  BY Zenon DEF AddedUp
<1>2. 0 \in T
  <2>1. U(0) = {}
    OBVIOUS
  <2>2. sum[0] = 0
    BY <1>1
  <2> HIDE DEF U
  <2> QED
    BY <2>1, <2>2, FS_EmptySet
<1>3. ASSUME NEW m \in Nat, m \in T
      PROVE  m + 1 \in T
  <2>1. SUFFICES ASSUME m + 1 <= n
                 PROVE  /\ IsFiniteSet(U(m + 1))
                        /\ Cardinality(U(m + 1)) = sum[m + 1]
    BY <1>3
  <2>2. IsFiniteSet(U(m)) /\ Cardinality(U(m)) = sum[m]
    BY <1>3, <2>1
  <2>3. sum[m + 1] = sum[m] + IF m + 1 \in into THEN size[m + 1] ELSE 0
    <3>1. m + 1 \in 0..n /\ m + 1 # 0 /\ (m + 1) - 1 = m
      BY <2>1
    <3> QED
      BY <1>1, <3>1
  <2>4. sum[m] \in Nat
    BY <2>2, FS_CardinalityType
  <2>5. CASE m + 1 \notin into
    <3>1. into \cap (1..(m + 1)) = into \cap (1..m)
      BY <2>5
    <3>2. U(m + 1) = U(m)
      BY <3>1
    <3> HIDE DEF U
    <3> QED
      BY <2>2, <2>3, <2>4, <2>5, <3>2
  <2>6. CASE m + 1 \in into
    <3>1. into \cap (1..(m + 1)) = (into \cap (1..m)) \cup {m + 1}
      BY <2>6
    <3>2. U(m + 1) = U(m) \cup C[m + 1]
      <4>1. \A i : i \in into \cap (1..(m + 1))
                    <=> i \in into \cap (1..m) \/ i = m + 1
        BY <3>1
      <4>2. U(m + 1) \subseteq U(m) \cup C[m + 1]
        BY <4>1
      <4>3. U(m) \cup C[m + 1] \subseteq U(m + 1)
        BY <4>1
      <4> QED
        BY <4>2, <4>3
    <3>3. U(m) \cap C[m + 1] = {}
      <4>1. \A i \in into \cap (1..m) :
              i \in into \cap (1..n) /\ m + 1 \in into \cap (1..n) /\ i # m + 1
        BY <2>1, <2>6
      <4>2. \A i \in into \cap (1..m) : C[i] \cap C[m + 1] = {}
        BY <4>1
      <4> QED
        BY <4>2
    <3>4. /\ IsFiniteSet(C[m + 1]) /\ Cardinality(C[m + 1]) = size[m + 1]
          /\ size[m + 1] \in Nat
      <4>1. m + 1 \in 1..n
        BY <2>1
      <4> QED
        BY <4>1
    <3>5. Cardinality(U(m) \cap C[m + 1]) = 0
      BY <3>3, FS_EmptySet
    <3> HIDE DEF U
    <3>6. /\ IsFiniteSet(U(m + 1))
          /\ Cardinality(U(m + 1))
               = Cardinality(U(m)) + Cardinality(C[m + 1])
                   - Cardinality(U(m) \cap C[m + 1])
      BY ONLY <2>2, <3>2, <3>4, FS_Union
    <3> QED
      BY <2>2, <2>3, <2>4, <2>6, <3>4, <3>5, <3>6
  <2> QED
    BY <2>5, <2>6
<1>4. n \in T
  <2> HIDE DEF T
  <2> QED
    BY <1>2, <1>3, SetInduction
<1> QED
  BY <1>4

-----------------------------------------------------------------------------
(* Boxes *)

\* The cells of a box.
BoxCells(box) ==
  ((box.offset[1])..(box.offset[1] + box.shape[1] - 1))
  \X ((box.offset[2])..(box.offset[2] + box.shape[2] - 1))

IsBox(box) ==
  /\ box.offset \in Pair /\ box.shape \in Pair
  /\ \A d \in 1..2 : box.shape[d] > 0

ShapeCells(shape) == (0..(shape[1] - 1)) \X (0..(shape[2] - 1))

IsShape(shape) == shape \in Pair /\ \A d \in 1..2 : shape[d] > 0

\* A box has as many cells as its area says.
LEMMA BoxArea ==
  ASSUME NEW box, IsBox(box)
  PROVE  /\ IsFiniteSet(BoxCells(box))
         /\ Cardinality(BoxCells(box)) = box.shape[1] * box.shape[2]
<1> DEFINE a == box.offset[1]
           b == box.offset[2]
           m == box.shape[1]
           n == box.shape[2]
           rows == a..(a + m - 1)
           columns == b..(b + n - 1)
<1>1. a \in Nat /\ b \in Nat /\ m \in Nat /\ n \in Nat /\ m > 0 /\ n > 0
  BY DEF IsBox, Pair
<1> HIDE DEF a, b, m, n
<1>2. IsFiniteSet(rows) /\ Cardinality(rows) = m
  <2>1. a + m - 1 \in Int /\ ~(a > a + m - 1) /\ (a + m - 1) - a + 1 = m
    BY <1>1
  <2> QED
    BY <1>1, <2>1, FS_Interval
<1>3. IsFiniteSet(columns) /\ Cardinality(columns) = n
  <2>1. b + n - 1 \in Int /\ ~(b > b + n - 1) /\ (b + n - 1) - b + 1 = n
    BY <1>1
  <2> QED
    BY <1>1, <2>1, FS_Interval
<1> HIDE DEF rows, columns
<1>4. /\ IsFiniteSet(rows \X columns)
      /\ Cardinality(rows \X columns) = m * n
  BY <1>2, <1>3, FS_Product
<1>5. BoxCells(box) = rows \X columns
  BY DEF BoxCells, rows, columns, a, b, m, n
<1> QED
  BY <1>4, <1>5 DEF m, n

LEMMA ShapeArea ==
  ASSUME NEW shape, IsShape(shape)
  PROVE  /\ IsFiniteSet(ShapeCells(shape))
         /\ Cardinality(ShapeCells(shape)) = shape[1] * shape[2]
<1> DEFINE box == [offset |-> <<0, 0>>, shape |-> shape]
<1>1. IsBox(box)
  BY DEF IsBox, IsShape, Pair
<1>2. BoxCells(box) = ShapeCells(shape)
  <2>1. shape[1] \in Nat /\ shape[2] \in Nat
    BY DEF IsShape, Pair
  <2>2. 0 + shape[1] - 1 = shape[1] - 1 /\ 0 + shape[2] - 1 = shape[2] - 1
    BY <2>1
  <2> QED
    BY <2>2 DEF BoxCells, ShapeCells
<1> HIDE DEF box
<1>3. box.shape = shape
  BY DEF box
<1> QED
  BY <1>1, <1>2, <1>3, BoxArea

\* Two boxes have a cell in common when they overlap in both dimensions.
LEMMA OverlapMeans ==
  ASSUME NEW p, IsBox(p), NEW q, IsBox(q)
  PROVE  Overlapping(p, q) <=> BoxCells(p) \cap BoxCells(q) # {}
<1>1. /\ p.offset[1] \in Nat /\ p.offset[2] \in Nat /\ p.shape[1] \in Nat /\ p.shape[2] \in Nat
      /\ q.offset[1] \in Nat /\ q.offset[2] \in Nat /\ q.shape[1] \in Nat /\ q.shape[2] \in Nat
      /\ p.shape[1] > 0 /\ p.shape[2] > 0 /\ q.shape[1] > 0 /\ q.shape[2] > 0
  BY DEF IsBox, Pair
<1>2. ASSUME Overlapping(p, q)
      PROVE  BoxCells(p) \cap BoxCells(q) # {}
  <2> DEFINE Last(x, y) == IF x < y THEN y ELSE x
             r == Last(p.offset[1], q.offset[1])
             c == Last(p.offset[2], q.offset[2])
  <2>1. /\ p.offset[1] < q.offset[1] + q.shape[1] /\ q.offset[1] < p.offset[1] + p.shape[1]
        /\ p.offset[2] < q.offset[2] + q.shape[2] /\ q.offset[2] < p.offset[2] + p.shape[2]
    BY <1>2 DEF Overlapping
  <2>2. /\ r \in (p.offset[1])..(p.offset[1] + p.shape[1] - 1)
        /\ r \in (q.offset[1])..(q.offset[1] + q.shape[1] - 1)
    BY <1>1, <2>1
  <2>3. /\ c \in (p.offset[2])..(p.offset[2] + p.shape[2] - 1)
        /\ c \in (q.offset[2])..(q.offset[2] + q.shape[2] - 1)
    BY <1>1, <2>1
  <2> HIDE DEF r, c
  <2>4. <<r, c>> \in BoxCells(p) /\ <<r, c>> \in BoxCells(q)
    BY <2>2, <2>3 DEF BoxCells
  <2> QED
    BY <2>4
<1>3. ASSUME NEW x \in BoxCells(p) \cap BoxCells(q)
      PROVE  Overlapping(p, q)
  <2>1. /\ x[1] \in (p.offset[1])..(p.offset[1] + p.shape[1] - 1)
        /\ x[1] \in (q.offset[1])..(q.offset[1] + q.shape[1] - 1)
        /\ x[2] \in (p.offset[2])..(p.offset[2] + p.shape[2] - 1)
        /\ x[2] \in (q.offset[2])..(q.offset[2] + q.shape[2] - 1)
    BY DEF BoxCells
  <2>2. /\ p.offset[1] < q.offset[1] + q.shape[1] /\ q.offset[1] < p.offset[1] + p.shape[1]
        /\ p.offset[2] < q.offset[2] + q.shape[2] /\ q.offset[2] < p.offset[2] + p.shape[2]
    BY <1>1, <2>1
  <2> QED
    BY <2>2 DEF Overlapping
<1> QED
  BY <1>2, <1>3

\* A box lies inside a shape when its cells do.
LEMMA InsideMeans ==
  ASSUME NEW p, IsBox(p), NEW shape, IsShape(shape)
  PROVE  Inside(p, shape) <=> BoxCells(p) \subseteq ShapeCells(shape)
<1>1. /\ p.offset[1] \in Nat /\ p.offset[2] \in Nat /\ p.shape[1] \in Nat /\ p.shape[2] \in Nat
      /\ p.shape[1] > 0 /\ p.shape[2] > 0
      /\ shape[1] \in Nat /\ shape[2] \in Nat /\ shape[1] > 0 /\ shape[2] > 0
  BY DEF IsBox, IsShape, Pair
<1>2. ASSUME Inside(p, shape), NEW x \in BoxCells(p)
      PROVE  x \in ShapeCells(shape)
  <2>1. p.offset[1] + p.shape[1] <= shape[1] /\ p.offset[2] + p.shape[2] <= shape[2]
    BY <1>2 DEF Inside
  <2>2. /\ x[1] \in (p.offset[1])..(p.offset[1] + p.shape[1] - 1)
        /\ x[2] \in (p.offset[2])..(p.offset[2] + p.shape[2] - 1)
        /\ x = <<x[1], x[2]>>
    BY DEF BoxCells
  <2>3. x[1] \in 0..(shape[1] - 1) /\ x[2] \in 0..(shape[2] - 1)
    BY <1>1, <2>1, <2>2
  <2> QED
    BY <2>2, <2>3 DEF ShapeCells
<1>3. ASSUME BoxCells(p) \subseteq ShapeCells(shape)
      PROVE  Inside(p, shape)
  <2> DEFINE r == p.offset[1] + p.shape[1] - 1
             c == p.offset[2] + p.shape[2] - 1
  <2>1. /\ r \in (p.offset[1])..(p.offset[1] + p.shape[1] - 1)
        /\ c \in (p.offset[2])..(p.offset[2] + p.shape[2] - 1)
    BY <1>1
  <2>2. <<r, c>> \in BoxCells(p)
    BY <2>1 DEF BoxCells
  <2>3. <<r, c>> \in ShapeCells(shape)
    BY <1>3, <2>2
  <2>4. r \in 0..(shape[1] - 1) /\ c \in 0..(shape[2] - 1)
    BY <2>3 DEF ShapeCells
  <2>5. p.offset[1] + p.shape[1] <= shape[1] /\ p.offset[2] + p.shape[2] <= shape[2]
    BY <1>1, <2>4
  <2> QED
    BY <2>5 DEF Inside
<1> QED
  BY <1>2, <1>3

\* The boxes of a list that are picked tile a shape: each of its cells is in one.
Tiles(n, into, box, shape) ==
  /\ \A cell \in ShapeCells(shape) :
       Cardinality({i \in into : cell \in BoxCells(box[i])}) = 1
  /\ \A i \in into : BoxCells(box[i]) \subseteq ShapeCells(shape)

\* What the planner finds out of them.
FoundToTile(n, into, box, shape, area) ==
  /\ \A i \in into : Inside(box[i], shape)
  /\ \A i \in into : \A j \in {j \in into : j < i} : ~Overlapping(box[i], box[j])
  /\ area = shape[1] * shape[2]

\* The planner finds the tilings.
LEMMA TilingsAreFound ==
  ASSUME NEW n \in Nat, NEW into \in SUBSET (1..n), NEW box, NEW shape, IsShape(shape),
         \A i \in 1..n : IsBox(box[i]), NEW sum,
         AddedUp(n, into, [i \in 1..n |-> box[i].shape[1] * box[i].shape[2]], sum)
  PROVE  FoundToTile(n, into, box, shape, sum[n]) <=> Tiles(n, into, box, shape)
<1> DEFINE C == [i \in 1..n |-> BoxCells(box[i])]
           size == [i \in 1..n |-> box[i].shape[1] * box[i].shape[2]]
           U == UNION {C[i] : i \in into \cap (1..n)}
           S == ShapeCells(shape)
           Apart == \A i, j \in into \cap (1..n) : i # j => C[i] \cap C[j] = {}
<1>1. size \in [1..n -> Nat]
  <2> SUFFICES ASSUME NEW i \in 1..n PROVE box[i].shape[1] * box[i].shape[2] \in Nat
    OBVIOUS
  <2>1. box[i].shape[1] \in Nat /\ box[i].shape[2] \in Nat
    BY DEF IsBox, Pair
  <2> QED
    BY <2>1
<1>2. \A i \in 1..n : IsFiniteSet(C[i]) /\ Cardinality(C[i]) = size[i]
  BY BoxArea
<1>3. AddedUp(n, into, size, sum)
  OBVIOUS
<1>4. Apart => IsFiniteSet(U) /\ Cardinality(U) = sum[n]
  <2> SUFFICES ASSUME Apart
               PROVE  IsFiniteSet(U) /\ Cardinality(U) = sum[n]
    OBVIOUS
  <2>1. AreApart(n, into, C, size, sum)
    <3> HIDE DEF C, size
    <3> QED
      BY <1>1, <1>2, <1>3 DEF AreApart
  <2> HIDE DEF C, size, Apart
  <2> QED
    BY <2>1, DisjointSetsCount
<1>5. IsFiniteSet(S) /\ Cardinality(S) = shape[1] * shape[2]
  BY ShapeArea
<1>6. into \cap (1..n) = into
  OBVIOUS
<1>7. ASSUME NEW i \in into, NEW j \in into
      PROVE  ~Overlapping(box[i], box[j]) <=> C[i] \cap C[j] = {}
  BY OverlapMeans
<1>8. \A i \in into : Inside(box[i], shape) <=> C[i] \subseteq S
  BY InsideMeans
<1>9. (\A i \in into : \A j \in {j \in into : j < i} : ~Overlapping(box[i], box[j])) <=> Apart
  <2>1. \A i, j \in into : i \in Int /\ j \in Int
    OBVIOUS
  <2>2. \A i, j \in into : i # j => i < j \/ j < i
    BY <2>1
  <2>3. \A i, j \in into : j < i => i # j
    BY <2>1
  <2>4. Apart <=> \A i, j \in into : i # j => C[i] \cap C[j] = {}
    BY <1>6
  <2>5. \A i, j \in into : C[i] \cap C[j] = C[j] \cap C[i]
    OBVIOUS
  <2> HIDE DEF C, Apart
  <2> QED
    BY <1>7, <2>2, <2>3, <2>4, <2>5
<1>10. U = UNION {C[i] : i \in into}
  BY <1>6
<1>11. \A i \in into : BoxCells(box[i]) = C[i]
  OBVIOUS
<1> HIDE DEF C, size, U, S, Apart
<1>12. ASSUME FoundToTile(n, into, box, shape, sum[n])
       PROVE  Tiles(n, into, box, shape)
  <2>1. Apart /\ \A i \in into : C[i] \subseteq S
    BY <1>8, <1>9, <1>12 DEF FoundToTile
  <2>2. U \in SUBSET S
    BY <1>10, <2>1
  <2>3. Cardinality(U) = Cardinality(S)
    BY <1>4, <1>5, <1>12, <2>1 DEF FoundToTile
  <2>4. U = S
    BY <1>5, <2>2, <2>3, FS_Subset
  <2>5. ASSUME NEW cell \in S
        PROVE  Cardinality({i \in into : cell \in C[i]}) = 1
    <3>1. PICK k \in into : cell \in C[k]
      BY <1>10, <2>4, <2>5
    <3>2. \A i \in into : cell \in C[i] => i = k
      BY <1>6, <2>1, <3>1 DEF Apart
    <3>3. {i \in into : cell \in C[i]} = {k}
      BY <3>1, <3>2
    <3> QED
      BY <3>3, FS_Singleton
  <2>6. \A cell \in S : {i \in into : cell \in BoxCells(box[i])} = {i \in into : cell \in C[i]}
    BY <1>11
  <2> QED
    BY <1>11, <2>1, <2>5, <2>6 DEF Tiles, S
<1>13. ASSUME Tiles(n, into, box, shape)
       PROVE  FoundToTile(n, into, box, shape, sum[n])
  <2>1. \A i \in into : C[i] \subseteq S
    BY <1>11, <1>13 DEF Tiles, S
  <2>2. ASSUME NEW cell \in S
        PROVE  \E k \in into : \A i \in into : cell \in C[i] <=> i = k
    <3> DEFINE Holders == {i \in into : cell \in C[i]}
    <3>1. Holders = {i \in into : cell \in BoxCells(box[i])}
      BY <1>11
    <3>2. Cardinality(Holders) = 1
      BY <1>13, <2>2, <3>1 DEF Tiles, S
    <3>3. IsFiniteSet(1..n) /\ Holders \in SUBSET (1..n)
      <4>1. 1 \in Int /\ n \in Int
        OBVIOUS
      <4>2. Holders \in SUBSET (1..n)
        OBVIOUS
      <4> QED
        BY <4>1, <4>2, FS_Interval, Zenon
    <3>4. IsFiniteSet(Holders)
      BY <3>3, FS_Subset
    <3> HIDE DEF Holders
    <3>5. PICK k : Holders = {k}
      BY <3>2, <3>4, FS_Singleton
    <3>6. k \in Holders /\ \A i \in Holders : i = k
      BY <3>5
    <3>7. k \in into /\ cell \in C[k]
      BY <3>6 DEF Holders
    <3>8. \A i \in into : cell \in C[i] => i = k
      BY <3>6 DEF Holders
    <3> QED
      BY <3>7, <3>8
  <2>3. Apart
    BY <1>6, <2>1, <2>2 DEF Apart
  <2>4. S \subseteq U
    BY <1>10, <2>2
  <2>5. U \subseteq S
    BY <1>10, <2>1
  <2>6. sum[n] = shape[1] * shape[2]
    <3>1. U = S
      BY <2>4, <2>5
    <3> QED
      BY <1>4, <1>5, <2>3, <3>1, Zenon
  <2> QED
    BY <1>8, <1>9, <2>1, <2>3, <2>6 DEF FoundToTile
<1> QED
  BY <1>12, <1>13

-----------------------------------------------------------------------------
(* Numbering *)

\* The elements of a set of numbers are numbered in order.
LEMMA NumbersInOrder ==
  ASSUME NEW n \in Nat, NEW S \in SUBSET (1..n), NEW rank,
         rank = [f \in S |-> Cardinality({g \in S : g <= f})]
  PROVE  /\ IsFiniteSet(S) /\ Cardinality(S) \in Nat
         /\ \A f \in S : rank[f] \in 1..Cardinality(S)
         /\ \A f, k \in S : rank[f] = rank[k] => f = k
         /\ \A r \in 1..Cardinality(S) : \E f \in S : rank[f] = r
<1> DEFINE B(f) == {g \in S : g <= f}
<1>1. IsFiniteSet(S) /\ Cardinality(S) \in Nat
  <2>1. 1 \in Int /\ n \in Int
    OBVIOUS
  <2>2. IsFiniteSet(1..n)
    BY ONLY <2>1, FS_Interval, Zenon
  <2>3. IsFiniteSet(S)
    BY <2>2, FS_Subset
  <2> QED
    BY <2>3, FS_CardinalityType
<1>2. \A f \in S : f \in Int
  OBVIOUS
<1>3. ASSUME NEW f \in S
      PROVE  IsFiniteSet(B(f)) /\ Cardinality(B(f)) \in 1..Cardinality(S)
  <2>1. B(f) \in SUBSET S /\ f \in B(f)
    BY <1>2
  <2> HIDE DEF B
  <2>2. IsFiniteSet(B(f)) /\ Cardinality(B(f)) <= Cardinality(S)
    BY <1>1, <2>1, FS_Subset
  <2>3. Cardinality(B(f)) \in Nat /\ Cardinality(B(f)) # 0
    BY <2>1, <2>2, FS_CardinalityType, FS_EmptySet
  <2> QED
    BY <1>1, <2>2, <2>3
<1>4. ASSUME NEW f \in S, NEW k \in S, f < k
      PROVE  Cardinality(B(f)) # Cardinality(B(k))
  <2>1. B(f) \in SUBSET B(k) /\ k \in B(k) /\ k \notin B(f)
    <3>1. /\ \A g \in S : g <= f => g <= k
          /\ k <= k /\ ~(k <= f)
      BY <1>2, <1>4
    <3> QED
      BY <3>1
  <2>2. IsFiniteSet(B(k))
    BY <1>3
  <2> HIDE DEF B
  <2> QED
    BY <2>1, <2>2, FS_Subset
<1>5. \A f \in S : rank[f] = Cardinality(B(f))
  OBVIOUS
<1> HIDE DEF B
<1>6. \A f \in S : rank[f] \in 1..Cardinality(S)
  BY <1>3, <1>5
<1>7. ASSUME NEW f \in S, NEW k \in S, rank[f] = rank[k]
      PROVE  f = k
  BY <1>2, <1>4, <1>5, <1>7
<1>8. \A r \in 1..Cardinality(S) : \E f \in S : rank[f] = r
  <2> DEFINE R == 1..Cardinality(S)
  <2>1. rank \in [S -> R]
    BY <1>6
  <2>2. rank \in Injection(S, R)
    BY <1>7, <2>1 DEF Injection, IsInjective
  <2>3. IsFiniteSet(R) /\ Cardinality(R) = Cardinality(S)
    <3>1. 1 \in Int /\ Cardinality(S) \in Int /\ (1 > Cardinality(S) => Cardinality(S) = 0)
          /\ Cardinality(S) - 1 + 1 = Cardinality(S)
      BY <1>1
    <3> QED
      BY <3>1, FS_Interval
  <2> HIDE DEF R
  <2>4. rank \in Surjection(S, R)
    BY <2>2, <2>3, FS_Injection
  <2> QED
    BY <2>4 DEF Surjection, R
<1> QED
  BY <1>1, <1>6, <1>7, <1>8

-----------------------------------------------------------------------------
(* The layouts *)

LayoutOf(a, h) ==
  IF a.target = "magia-v3" THEN GatheredFifoLayout(a, h) ELSE NoGathering

\* Layouts are planned once, when the collection is done.
LayoutsPlanned ==
  layouts # NotPlanned =>
    phase = "done" /\ layouts = [h \in Harts |-> LayoutOf(app, h)]

LEMMA NothingAfterDone ==
  ASSUME phase = "done"
  PROVE  ~Next
BY DEF Next, CollectModuleAttrs, CollectInitializerStore, CollectTileRecv,
       CollectInputRecv, CollectLoad, CollectExtractSliceAlias,
       CollectInsertSliceAlias, CollectComputeOp, CollectOutputSend,
       CollectTileSend, PassOver, EndWalk, Refuse

LEMMA LayoutsArePlanned == LayoutSpec => Spec /\ []LayoutsPlanned
<1>1. LayoutInit => Init /\ LayoutsPlanned
  BY DEF LayoutInit, LayoutsPlanned
<1>2. LayoutsPlanned /\ [LayoutNext]_<<vars, layouts>> => [Next]_vars /\ LayoutsPlanned'
  <2> SUFFICES ASSUME LayoutsPlanned, [LayoutNext]_<<vars, layouts>>
               PROVE  [Next]_vars /\ LayoutsPlanned'
    OBVIOUS
  <2>1. CASE Next /\ UNCHANGED layouts
    <3>1. layouts = NotPlanned
      BY <2>1, NothingAfterDone DEF LayoutsPlanned
    <3> QED
      BY <2>1, <3>1 DEF LayoutsPlanned, NotPlanned
  <2>2. CASE PlanGatheredFifoLayouts
    <3>1. /\ phase = "done" /\ UNCHANGED vars
          /\ layouts' = [h \in Harts |-> LayoutOf(app, h)]
      BY <2>2 DEF PlanGatheredFifoLayouts, LayoutOf
    <3>2. phase' = phase /\ app' = app
      BY <3>1 DEF vars
    <3> QED
      BY <3>1, <3>2 DEF LayoutsPlanned
  <2>3. CASE UNCHANGED <<vars, layouts>>
    <3>1. UNCHANGED vars /\ phase' = phase /\ app' = app /\ layouts' = layouts
      BY <2>3 DEF vars
    <3> QED
      BY <3>1 DEF LayoutsPlanned, NotPlanned
  <2> QED
    BY <2>1, <2>2, <2>3 DEF LayoutNext
<1> QED
  BY <1>1, <1>2, PTL DEF LayoutSpec, Spec

-----------------------------------------------------------------------------
(* What a tile receives *)

\* A receive is of a box of a slice of the tile; neither is empty.
BoxReceived(a, h, i) ==
  LET dst == TargetAt(a, h, i)
  IN /\ IsBox(dst) /\ dst.slice \in DOMAIN a.slices
     /\ a.slices[dst.slice] \in SliceType /\ IsShape(a.slices[dst.slice].shape)
     /\ Inside(dst, a.slices[dst.slice].shape)

\* The places of the receives of a tile.
PlacesAre(a, h, n) == n \in Nat /\ Positions(a, h) = 1..n /\ Len(a.plans[h].recvs) = n

LEMMA PlacesAreNumbers ==
  ASSUME NEW a, AppOK(a), NEW h \in Harts
  PROVE  /\ PlacesAre(a, h, Len(a.plans[h].recvs))
         /\ \A i \in Positions(a, h) : a.plans[h].recvs[i] \in DOMAIN a.recvs
<1>1. a.plans[h].recvs \in Seq(DOMAIN a.recvs)
  BY DEF AppOK, PlanType
<1> QED
  BY <1>1 DEF PlacesAre, Positions

LEMMA BoxesAreReceived ==
  ASSUME IInv, NEW m, IsWired(prog, m), ReceivesHoldData(prog, m),
         Wiring(app, run, prog, m, phase, pos), NEW h \in Harts,
         NEW i \in Positions(app, h)
  PROVE  BoxReceived(app, h, i)
<1> DEFINE n == app.plans[h].recvs[i]
           dst == TargetAt(app, h, i)
<1>1. AppOK(app)
  BY Facts
<1>2. n \in DOMAIN app.recvs
  BY <1>1, PlacesAreNumbers
<1>3. RecvsMeet(app, run.tileRecvs, prog, m, phase, pos)
  BY DEF Wiring, TransfersMeet
<1>4. PICK j \in TileRecvs(prog) :
        /\ prog.run[j].channel \in DOMAIN run.tileRecvs
        /\ app.recvs[n] = RecvRow(app, prog.run[j], run.tileRecvs[prog.run[j].channel])
  BY <1>2, <1>3 DEF RecvsMeet, RecvsNamed
<1> DEFINE o == prog.run[j]
           place == run.tileRecvs[o.channel]
           x == m[o.result]
<1>5. PICK k \in TileRecvs(prog) :
        /\ prog.run[k].channel = o.channel
        /\ RecvPlaced(app, prog.run[k], place, m[prog.run[k].result])
  BY <1>3, <1>4 DEF RecvsMeet, ChannelsPlaced
<1>6. k = j
  BY <1>5 DEF IsWired, TransfersPair
<1>7. IsPart(app, place.subslice, o.sub, x)
  BY <1>5, <1>6 DEF RecvPlaced
<1>8. dst = app.subslices[place.subslice]
  <2>1. app.recvs[n].subslice = place.subslice
    BY <1>4 DEF RecvRow
  <2> QED
    BY <2>1 DEF TargetAt
<1>9. /\ dst.slice \in DOMAIN app.slices
      /\ app.slices[dst.slice].shape = x.shape
      /\ dst.offset = Part(o.sub, x.shape).off
      /\ dst.shape = Part(o.sub, x.shape).len
      /\ place.subslice \in DOMAIN app.subslices
  BY <1>7, <1>8 DEF IsPart, LivesAt
<1>10. app.slices[dst.slice] \in SliceType /\ dst \in SubsliceType(app)
  <2>1. app.slices \in Seq(SliceType) /\ app.subslices \in Seq(SubsliceType(app))
    BY <1>1 DEF AppOK, PlacesOK
  <2> HIDE DEF dst
  <2>2. app.slices[dst.slice] \in SliceType
    BY <1>9, <2>1
  <2>3. app.subslices[place.subslice] \in SubsliceType(app)
    BY <1>9, <2>1
  <2> QED
    BY <1>8, <2>2, <2>3
<1>11. /\ \A d \in 1..2 : x.shape[d] > 0 /\ Part(o.sub, x.shape).len[d] > 0
       /\ FitsIn(Part(o.sub, x.shape), x.shape)
  BY DEF ReceivesHoldData, IsWired, TransfersPair
<1> HIDE DEF dst, x, o
<1>14. dst.offset \in Pair /\ dst.shape \in Pair /\ app.slices[dst.slice].shape \in Pair
  BY <1>10 DEF SubsliceType, SliceType
<1>15. IsBox(dst) /\ IsShape(app.slices[dst.slice].shape)
  BY <1>9, <1>11, <1>14 DEF IsBox, IsShape
<1>16. Inside(dst, app.slices[dst.slice].shape)
  BY <1>9, <1>11 DEF Inside, FitsIn
<1> QED
  BY <1>9, <1>10, <1>15, <1>16 DEF BoxReceived, dst

-----------------------------------------------------------------------------
(* Which slices are gathered *)

BoxesOf(a, h, n) == [i \in 1..n |-> TargetAt(a, h, i)]

\* The elements that are covered are a sum.
LEMMA CoveredIsSum ==
  ASSUME NEW a, NEW h, NEW n, PlacesAre(a, h, n), NEW into,
         \A i \in Positions(a, h) : BoxReceived(a, h, i)
  PROVE  \E sum :
           /\ Covered(a, h, into) = sum[n]
           /\ AddedUp(n, into,
                [i \in 1..n |->
                   BoxesOf(a, h, n)[i].shape[1] * BoxesOf(a, h, n)[i].shape[2]], sum)
<1> DEFINE size == [i \in 1..n |->
                      BoxesOf(a, h, n)[i].shape[1] * BoxesOf(a, h, n)[i].shape[2]]
           Def(f) == [m \in 0..n |->
                        IF m = 0 THEN 0
                        ELSE f[m - 1] + IF m \in into THEN Elements(a, h, m) ELSE 0]
           covered == CHOOSE f : f = Def(f)
<1>1. n \in Nat /\ Positions(a, h) = 1..n /\ Len(a.plans[h].recvs) = n
  BY DEF PlacesAre
<1>2. \A i \in 1..n : size[i] = Elements(a, h, i)
  BY DEF BoxesOf, Elements
<1>3. size \in [1..n -> Nat]
  <2> SUFFICES ASSUME NEW i \in 1..n PROVE size[i] \in Nat
    OBVIOUS
  <2>1. IsBox(TargetAt(a, h, i))
    BY <1>1 DEF BoxReceived
  <2>2. TargetAt(a, h, i).shape[1] \in Nat /\ TargetAt(a, h, i).shape[2] \in Nat
    BY <2>1 DEF IsBox, Pair
  <2>3. TargetAt(a, h, i).shape[1] * TargetAt(a, h, i).shape[2] \in Nat
    BY <2>2
  <2> HIDE DEF size
  <2> QED
    BY <1>2, <2>3 DEF Elements
<1> HIDE DEF size
<1>4. \A f : AddedUp(n, into, size, f) <=> f = Def(f)
  <2> SUFFICES ASSUME NEW f
               PROVE  AddedUp(n, into, size, f) <=> f = Def(f)
    OBVIOUS
  <2>1. \A m \in 0..n : m # 0 => m \in 1..n
    BY <1>1
  <2>2. Def(f) = [m \in 0..n |->
                    IF m = 0 THEN 0 ELSE f[m - 1] + IF m \in into THEN size[m] ELSE 0]
    BY <1>2, <2>1
  <2> QED
    BY <2>2 DEF AddedUp
<1> DEFINE chosen == CHOOSE s : AddedUp(n, into, size, s)
<1>5. AddedUp(n, into, size, chosen)
  BY <1>1, <1>3, SumSolves
<1>6. chosen = Def(chosen)
  BY <1>4, <1>5
<1>7. covered = Def(covered)
  <2> HIDE DEF chosen, Def
  <2> QED
    BY <1>6
<1>8. Covered(a, h, into) = covered[n]
  BY <1>1 DEF Covered
<1>9. AddedUp(n, into, size, covered)
  BY <1>4, <1>7
<1> QED
  BY <1>8, <1>9 DEF size

\* The tests of isSliceGatherEligible are those of a tiling.
LEMMA EligibleMeans ==
  ASSUME NEW a, NEW h, NEW n, PlacesAre(a, h, n),
         \A k \in Positions(a, h) : BoxReceived(a, h, k),
         NEW i \in Positions(a, h), NEW s, s = TargetAt(a, h, i).slice
  PROVE  IsSliceGatherEligible(a, h, s) <=>
           /\ MayAlias(a, h, s)
           /\ Tiles(n, ReceivesInto(a, h, s), BoxesOf(a, h, n), a.slices[s].shape)
<1> DEFINE into == ReceivesInto(a, h, s)
           shape == a.slices[s].shape
           box == BoxesOf(a, h, n)
<1>1. n \in Nat /\ Positions(a, h) = 1..n
  BY DEF PlacesAre
<1>2. into \in SUBSET (1..n)
  BY <1>1 DEF ReceivesInto
<1>3. IsShape(shape)
  BY DEF BoxReceived
<1>4. \A k \in 1..n : box[k] = TargetAt(a, h, k) /\ IsBox(box[k])
  BY <1>1 DEF BoxReceived, BoxesOf
<1>5. PICK sum :
        /\ Covered(a, h, into) = sum[n]
        /\ AddedUp(n, into, [k \in 1..n |-> box[k].shape[1] * box[k].shape[2]], sum)
  BY CoveredIsSum
<1>6. shape[1] * shape[2] # 0
  <2>1. shape[1] \in Nat /\ shape[2] \in Nat /\ 1 <= shape[1] /\ 1 <= shape[2]
    BY <1>3 DEF IsShape, Pair
  <2> DEFINE x == shape[1]
             y == shape[2]
  <2> HIDE DEF x, y
  <2>2. 1 * y <= x * y /\ x * y \in Nat
    BY <2>1, ProductGrows DEF x, y
  <2>3. 1 * y = y
    BY <2>1 DEF y
  <2> QED
    BY <2>1, <2>2, <2>3 DEF x, y
<1> HIDE DEF into, shape, box
<1>7. FoundToTile(n, into, box, shape, sum[n]) <=> Tiles(n, into, box, shape)
  BY <1>1, <1>2, <1>3, <1>4, <1>5, TilingsAreFound
<1>8. IsSliceGatherEligible(a, h, s) <=>
        /\ MayAlias(a, h, s)
        /\ \A k \in into : Inside(TargetAt(a, h, k), shape)
        /\ \A k \in into : \A j \in {j \in into : j < k} :
             ~Overlapping(TargetAt(a, h, k), TargetAt(a, h, j))
        /\ sum[n] # 0 /\ sum[n] = shape[1] * shape[2]
  BY <1>5 DEF IsSliceGatherEligible, into, shape
<1>9. FoundToTile(n, into, box, shape, sum[n]) <=>
        /\ \A k \in into : Inside(TargetAt(a, h, k), shape)
        /\ \A k \in into : \A j \in {j \in into : j < k} :
             ~Overlapping(TargetAt(a, h, k), TargetAt(a, h, j))
        /\ sum[n] = shape[1] * shape[2]
  <2>1. \A k \in into : box[k] = TargetAt(a, h, k)
    BY <1>2, <1>4
  <2> QED
    BY <2>1 DEF FoundToTile
<1>10. IsSliceGatherEligible(a, h, s) <=>
         MayAlias(a, h, s) /\ FoundToTile(n, into, box, shape, sum[n])
  BY <1>6, <1>8, <1>9
<1> QED
  BY <1>7, <1>10 DEF into, shape, box

\* A slice that one box tiles is that box.
LEMMA OneBoxTiles ==
  ASSUME NEW n, NEW i, NEW box, NEW shape, IsShape(shape), IsBox(box[i]),
         Tiles(n, {i}, box, shape)
  PROVE  box[i].offset = <<0, 0>> /\ box[i].shape = shape
<1>1. /\ shape \in Pair /\ shape[1] \in Nat /\ shape[2] \in Nat
      /\ shape[1] > 0 /\ shape[2] > 0
  BY DEF IsShape, Pair
<1>2. ASSUME NEW cell \in ShapeCells(shape)
      PROVE  cell \in BoxCells(box[i])
  <2>1. Cardinality({k \in {i} : cell \in BoxCells(box[k])}) = 1
    BY DEF Tiles
  <2>2. SUFFICES ASSUME cell \notin BoxCells(box[i]) PROVE FALSE
    OBVIOUS
  <2>3. {k \in {i} : cell \in BoxCells(box[k])} = {}
    BY <2>2
  <2> QED
    BY <2>1, <2>3, FS_EmptySet
<1>3. <<0, 0>> \in BoxCells(box[i]) /\ <<shape[1] - 1, shape[2] - 1>> \in BoxCells(box[i])
  <2>1. <<0, 0>> \in ShapeCells(shape) /\ <<shape[1] - 1, shape[2] - 1>> \in ShapeCells(shape)
    BY <1>1 DEF ShapeCells
  <2> QED
    BY <1>2, <2>1
<1>4. BoxCells(box[i]) \subseteq ShapeCells(shape)
  BY DEF Tiles
<1>5. Inside(box[i], shape)
  BY <1>4, InsideMeans
<1>6. /\ 0 \in (box[i].offset[1])..(box[i].offset[1] + box[i].shape[1] - 1)
      /\ 0 \in (box[i].offset[2])..(box[i].offset[2] + box[i].shape[2] - 1)
      /\ shape[1] - 1 \in (box[i].offset[1])..(box[i].offset[1] + box[i].shape[1] - 1)
      /\ shape[2] - 1 \in (box[i].offset[2])..(box[i].offset[2] + box[i].shape[2] - 1)
  BY <1>3 DEF BoxCells
<1>7. /\ box[i].offset \in Pair /\ box[i].shape \in Pair
      /\ box[i].offset[1] \in Nat /\ box[i].offset[2] \in Nat
      /\ box[i].shape[1] \in Nat /\ box[i].shape[2] \in Nat
  BY DEF IsBox, Pair
<1>8. box[i].offset[1] + box[i].shape[1] <= shape[1]
      /\ box[i].offset[2] + box[i].shape[2] <= shape[2]
  BY <1>5 DEF Inside
<1>9. /\ box[i].offset[1] = 0 /\ box[i].offset[2] = 0
      /\ box[i].shape[1] = shape[1] /\ box[i].shape[2] = shape[2]
  BY <1>1, <1>6, <1>7, <1>8
<1> QED
  BY <1>1, <1>7, <1>9 DEF Pair

\* A slice is gathered when more receives than one tile it.
LEMMA GatheringMeans ==
  ASSUME NEW a, NEW h, NEW n, PlacesAre(a, h, n),
         \A k \in Positions(a, h) : BoxReceived(a, h, k),
         NEW i \in Positions(a, h), NEW s, s = TargetAt(a, h, i).slice
  PROVE  (\E f \in Gathering(a, h) : TargetAt(a, h, f).slice = s) <=>
           /\ MayAlias(a, h, s)
           /\ Cardinality(ReceivesInto(a, h, s)) > 1
           /\ Tiles(n, ReceivesInto(a, h, s), BoxesOf(a, h, n), a.slices[s].shape)
<1> DEFINE into == ReceivesInto(a, h, s)
           box == BoxesOf(a, h, n)
           shape == a.slices[s].shape
<1>1. n \in Nat /\ Positions(a, h) = 1..n
  BY DEF PlacesAre
<1>2. /\ into \in SUBSET (1..n) /\ i \in into
      /\ \A k \in Positions(a, h) : TargetAt(a, h, k).slice = s <=> k \in into
  BY <1>1 DEF ReceivesInto
<1>3. IsFiniteSet(into) /\ Cardinality(into) \in Nat
  <2>1. 1 \in Int /\ n \in Int
    BY <1>1
  <2>2. IsFiniteSet(1..n)
    BY ONLY <2>1, FS_Interval, Zenon
  <2> HIDE DEF into
  <2>3. IsFiniteSet(into)
    BY <1>2, <2>2, FS_Subset
  <2> QED
    BY <2>3, FS_CardinalityType
<1>4. IsSliceGatherEligible(a, h, s) <=>
        MayAlias(a, h, s) /\ Tiles(n, into, box, shape)
  BY EligibleMeans
<1>5. Cardinality(into) > 1 <=> \A f \in into : into # {f}
  <2> HIDE DEF into
  <2>1. \A f \in into : into = {f} => Cardinality(into) = 1
    BY FS_Singleton
  <2>2. Cardinality(into) # 0
    BY <1>2, <1>3, FS_EmptySet
  <2>3. Cardinality(into) = 1 => \E f : into = {f}
    BY <1>3, FS_Singleton
  <2>4. Cardinality(into) = 1 => \E f \in into : into = {f}
    BY <2>3
  <2> QED
    BY <1>3, <2>1, <2>2, <2>4
<1>6. ASSUME NEW f \in into
      PROVE  IsRecvInplaceEligible(a, h, f) <=>
               /\ a.slices[s].kind # "Initializer"
               /\ box[f].offset = <<0, 0>> /\ box[f].shape = shape
               /\ into = {f}
               /\ IsSliceInplaceEligible(a, h, s)
  <2>1. TargetAt(a, h, f).slice = s /\ box[f] = TargetAt(a, h, f)
    BY <1>1, <1>2 DEF BoxesOf
  <2> QED
    BY <2>1 DEF IsRecvInplaceEligible
<1>7. MayAlias(a, h, s) =>
        a.slices[s].kind # "Initializer" /\ IsSliceInplaceEligible(a, h, s)
  BY DEF MayAlias
<1>8. \A k \in 1..n : IsBox(box[k])
  BY <1>1 DEF BoxReceived, BoxesOf
<1>9. IsShape(shape)
  BY DEF BoxReceived
<1>10. \A f \in Positions(a, h) : f \in Gathering(a, h) /\ f \in into <=>
         /\ f \in into /\ \A j \in into : f <= j
         /\ ~IsRecvInplaceEligible(a, h, f) /\ IsSliceGatherEligible(a, h, s)
  BY <1>2 DEF Gathering
<1>11. \A f \in Gathering(a, h) : f \in Positions(a, h)
  BY DEF Gathering
<1> HIDE DEF into, box, shape
<1>12. ASSUME NEW f \in Gathering(a, h), f \in into
       PROVE  MayAlias(a, h, s) /\ Cardinality(into) > 1 /\ Tiles(n, into, box, shape)
  <2>1. MayAlias(a, h, s) /\ Tiles(n, into, box, shape) /\ ~IsRecvInplaceEligible(a, h, f)
    BY <1>4, <1>10, <1>11, <1>12
  <2>2. ASSUME into = {f}
        PROVE  FALSE
    <3>1. IsBox(box[f]) /\ Tiles(n, {f}, box, shape)
      BY <1>2, <1>8, <1>12, <2>1, <2>2
    <3>2. box[f].offset = <<0, 0>> /\ box[f].shape = shape
      BY <1>9, <3>1, OneBoxTiles
    <3> QED
      BY <1>6, <1>7, <1>12, <2>1, <2>2, <3>2
  <2>3. \A g \in into : into # {g}
    BY <1>12, <2>2
  <2> QED
    BY <1>5, <2>1, <2>3
<1>13. ASSUME MayAlias(a, h, s), Cardinality(into) > 1, Tiles(n, into, box, shape)
       PROVE  \E f \in Gathering(a, h) : f \in into
  <2>1. into \in SUBSET Nat /\ into # {}
    BY <1>1, <1>2
  <2>2. PICK f \in into : \A j \in into : f <= j
    BY <2>1, LeastNumber
  <2>3. ~IsRecvInplaceEligible(a, h, f)
    BY <1>5, <1>6, <1>13
  <2>4. f \in Positions(a, h)
    BY <1>1, <1>2
  <2> QED
    BY <1>4, <1>10, <1>13, <2>2, <2>3, <2>4
<1> QED
  BY <1>2, <1>11, <1>12, <1>13 DEF into, box, shape

\* A slice has one first receive.
LEMMA OneFirst ==
  ASSUME NEW a, NEW h, NEW n, PlacesAre(a, h, n),
         NEW f \in Gathering(a, h), NEW g \in Gathering(a, h),
         TargetAt(a, h, f).slice = TargetAt(a, h, g).slice
  PROVE  f = g
<1>1. Positions(a, h) = 1..n /\ n \in Nat
  BY DEF PlacesAre
<1>2. f \in 1..n /\ g \in 1..n /\ f <= g /\ g <= f
  BY <1>1 DEF Gathering, ReceivesInto
<1> QED
  BY <1>2

RingIn(layout, i) == IF layout.rings = <<>> THEN 0 ELSE layout.rings[i]

\* A receive has the ring of the first receive of its slice.
LEMMA RingsMean ==
  ASSUME NEW a, NEW h, NEW n, PlacesAre(a, h, n), NEW i \in Positions(a, h)
  PROVE  LET ring == RingIn(GatheredFifoLayout(a, h), i)
         IN /\ ring # 0 <=>
                 \E f \in Gathering(a, h) :
                   TargetAt(a, h, f).slice = TargetAt(a, h, i).slice
            /\ \A f \in Gathering(a, h) :
                 TargetAt(a, h, f).slice = TargetAt(a, h, i).slice =>
                   ring = RingNumber(a, h, f)
<1> DEFINE G == Gathering(a, h)
           s == TargetAt(a, h, i).slice
           Ring(j) == {RingNumber(a, h, f) :
                         f \in {f \in G : TargetAt(a, h, f).slice = TargetAt(a, h, j).slice}}
           layout == GatheredFifoLayout(a, h)
           rank == [f \in G |-> Cardinality({g \in G : g <= f})]
<1>1. n \in Nat /\ Positions(a, h) = 1..n
  BY DEF PlacesAre
<1>2. G \in SUBSET (1..n)
  BY <1>1 DEF Gathering
<1>3. \A f \in G : rank[f] = RingNumber(a, h, f)
  BY DEF RingNumber
<1>4. \A f \in G : RingNumber(a, h, f) \in 1..Cardinality(G) /\ Cardinality(G) \in Nat
  <2> HIDE DEF G
  <2>1. \A f \in G : rank[f] \in 1..Cardinality(G) /\ Cardinality(G) \in Nat
    BY <1>1, <1>2, NumbersInOrder
  <2> QED
    BY <1>3, <2>1
<1>5. \A f \in G : RingNumber(a, h, f) # 0
  BY <1>4
<1>6. CASE G = {}
  <2>1. layout.rings = <<>>
    BY <1>6 DEF GatheredFifoLayout, NoGathering
  <2> QED
    BY <1>6, <2>1 DEF RingIn
<1>7. CASE G # {}
  <2>1. layout.rings = [j \in Positions(a, h) |->
                          IF Ring(j) = {} THEN 0 ELSE CHOOSE r \in Ring(j) : TRUE]
    BY <1>7, Zenon DEF GatheredFifoLayout
  <2>2. layout.rings # <<>>
    <3>1. i \in DOMAIN layout.rings
      BY <2>1
    <3> QED
      BY <3>1
  <2>3. RingIn(layout, i) = IF Ring(i) = {} THEN 0 ELSE CHOOSE r \in Ring(i) : TRUE
    BY <2>1, <2>2 DEF RingIn
  <2>4. ASSUME NEW f \in G, TargetAt(a, h, f).slice = s
        PROVE  RingIn(layout, i) = RingNumber(a, h, f)
    <3>1. \A g \in G : TargetAt(a, h, g).slice = s => g = f
      BY <2>4, OneFirst
    <3>2. Ring(i) = {RingNumber(a, h, f)}
      BY <2>4, <3>1
    <3> HIDE DEF Ring
    <3> QED
      BY <2>3, <3>2
  <2>5. (\A f \in G : TargetAt(a, h, f).slice # s) => RingIn(layout, i) = 0
    <3> SUFFICES ASSUME \A f \in G : TargetAt(a, h, f).slice # s
                 PROVE  RingIn(layout, i) = 0
      OBVIOUS
    <3>1. Ring(i) = {}
      OBVIOUS
    <3> HIDE DEF Ring
    <3> QED
      BY <2>3, <3>1
  <2> HIDE DEF layout, G, Ring, rank
  <2> QED
    BY <1>5, <2>4, <2>5 DEF layout, G
<1> QED
  BY <1>6, <1>7

\* The cells of the receives are those of their boxes.
LEMMA TiledMeansTiles ==
  ASSUME NEW h, NEW n, PlacesAre(app, h, n), NEW s
  PROVE  TiledByReceives(h, s) <=>
           Tiles(n, ReceivesInto(app, h, s), BoxesOf(app, h, n), app.slices[s].shape)
<1>1. SliceCells(s) = ShapeCells(app.slices[s].shape)
  BY DEF SliceCells, ShapeCells
<1>2. \A k \in ReceivesInto(app, h, s) :
        Cells(SubsliceAt(h, k)) = BoxCells(BoxesOf(app, h, n)[k])
  <2> SUFFICES ASSUME NEW k \in ReceivesInto(app, h, s)
               PROVE  Cells(SubsliceAt(h, k)) = BoxCells(BoxesOf(app, h, n)[k])
    OBVIOUS
  <2>1. BoxesOf(app, h, n)[k] = TargetAt(app, h, k)
    BY DEF PlacesAre, ReceivesInto, BoxesOf
  <2> QED
    BY <2>1 DEF Cells, SubsliceAt, BoxCells, TargetAt
<1>3. \A cell : {k \in ReceivesInto(app, h, s) : cell \in Cells(SubsliceAt(h, k))}
                  = {k \in ReceivesInto(app, h, s) : cell \in BoxCells(BoxesOf(app, h, n)[k])}
  BY <1>2
<1> QED
  BY <1>1, <1>2, <1>3 DEF TiledByReceives, Tiles

\* The layouts are what the property says.
LEMMA PlannedIsGathered ==
  ASSUME IInv, NEW m, IsWired(prog, m), ReceivesHoldData(prog, m),
         Wiring(app, run, prog, m, phase, pos), LayoutsPlanned
  PROVE  GatheredWhenTiled
<1> SUFFICES ASSUME layouts # NotPlanned, NEW h \in Harts, NEW i \in Positions(app, h)
             PROVE  LET slice == TargetAt(app, h, i).slice
                    IN /\ RingOf(h, i) # 0 <=>
                            /\ app.target = "magia-v3" /\ MayAlias(app, h, slice)
                            /\ Cardinality(ReceivesInto(app, h, slice)) > 1
                            /\ TiledByReceives(h, slice)
                       /\ RingOf(h, i) # 0 =>
                            \A j \in Positions(app, h) :
                              RingOf(h, j) = RingOf(h, i) <=>
                                TargetAt(app, h, j).slice = slice
  BY DEF GatheredWhenTiled
<1> DEFINE s == TargetAt(app, h, i).slice
           n == Len(app.plans[h].recvs)
           G == Gathering(app, h)
<1>1. PlacesAre(app, h, n)
  BY PlacesAreNumbers, Facts
<1>2. \A k \in Positions(app, h) : BoxReceived(app, h, k)
  BY BoxesAreReceived
<1>3. layouts[h] = LayoutOf(app, h)
  BY DEF LayoutsPlanned
<1>4. \A k \in Positions(app, h) : RingOf(h, k) = RingIn(LayoutOf(app, h), k)
  BY <1>3 DEF RingOf, RingIn
<1>5. TiledByReceives(h, s) <=>
        Tiles(n, ReceivesInto(app, h, s), BoxesOf(app, h, n), app.slices[s].shape)
  BY <1>1, TiledMeansTiles
<1>6. CASE app.target # "magia-v3"
  <2>1. \A k \in Positions(app, h) : RingOf(h, k) = 0
    BY <1>4, <1>6 DEF LayoutOf, NoGathering, RingIn
  <2> QED
    BY <1>6, <2>1
<1>7. CASE app.target = "magia-v3"
  <2>1. \A k \in Positions(app, h) : RingOf(h, k) = RingIn(GatheredFifoLayout(app, h), k)
    BY <1>4, <1>7 DEF LayoutOf
  <2> HIDE DEF n, G
  <2>2. \A k \in Positions(app, h) :
          /\ RingOf(h, k) # 0 <=>
               \E f \in G : TargetAt(app, h, f).slice = TargetAt(app, h, k).slice
          /\ \A f \in G : TargetAt(app, h, f).slice = TargetAt(app, h, k).slice =>
               RingOf(h, k) = RingNumber(app, h, f)
    BY <1>1, <2>1, RingsMean DEF G
  <2>3. (\E f \in G : TargetAt(app, h, f).slice = s) <=>
          /\ MayAlias(app, h, s) /\ Cardinality(ReceivesInto(app, h, s)) > 1
          /\ Tiles(n, ReceivesInto(app, h, s), BoxesOf(app, h, n), app.slices[s].shape)
    BY <1>1, <1>2, GatheringMeans DEF G
  <2>4. \A f, g \in G : RingNumber(app, h, f) = RingNumber(app, h, g) => f = g
    <3> DEFINE rank == [f \in G |-> Cardinality({g \in G : g <= f})]
    <3>1. n \in Nat /\ G \in SUBSET (1..n)
      BY <1>1 DEF PlacesAre, G, Gathering
    <3>2. \A f \in G : rank[f] = RingNumber(app, h, f)
      BY DEF RingNumber, G
    <3>3. \A f, g \in G : rank[f] = rank[g] => f = g
      BY <3>1, NumbersInOrder
    <3> HIDE DEF rank
    <3> QED
      BY <3>2, <3>3
  <2>5. ASSUME RingOf(h, i) # 0, NEW j \in Positions(app, h)
        PROVE  RingOf(h, j) = RingOf(h, i) <=> TargetAt(app, h, j).slice = s
    <3>1. PICK f \in G : TargetAt(app, h, f).slice = s /\ RingOf(h, i) = RingNumber(app, h, f)
      BY <2>2, <2>5
    <3>2. ASSUME RingOf(h, j) = RingOf(h, i)
          PROVE  TargetAt(app, h, j).slice = s
      <4>1. PICK g \in G : /\ TargetAt(app, h, g).slice = TargetAt(app, h, j).slice
                           /\ RingOf(h, j) = RingNumber(app, h, g)
        BY <2>2, <2>5, <3>2
      <4> QED
        BY <2>4, <3>1, <3>2, <4>1
    <3>3. ASSUME TargetAt(app, h, j).slice = s
          PROVE  RingOf(h, j) = RingOf(h, i)
      BY <2>2, <3>1, <3>3
    <3> QED
      BY <3>2, <3>3
  <2> QED
    BY <1>5, <1>7, <2>2, <2>3, <2>5
<1> QED
  BY <1>6, <1>7

\* Whatever modules are collected, if each keeps the contracts of its transfers
\* and receives nothing empty, then the planner (planGatheredFifoLayout) gives the
\* receives of a slice a ring of their own exactly when more receives than one
\* tile a slice that may be lent to the FIFO: the sum of the areas and the test
\* of each pair of boxes (isSliceGatherEligible) say that every element of the
\* slice is received once.
THEOREM SlicesAreGathered ==
  ASSUME NEW homes,
         \A p \in Programs : IsWired(p, homes[p]) /\ ReceivesHoldData(p, homes[p])
  PROVE  LayoutSpec => []GatheredWhenTiled
<1> DEFINE Wired == Wiring(app, run, prog, homes[prog], phase, pos)
<1>1. IInv /\ Wired /\ LayoutsPlanned => GatheredWhenTiled
  BY PlannedIsGathered DEF IInv
<1> HIDE DEF Wired
<1>2. Spec => [](IInv /\ Wired)
  BY WiringHolds DEF Wired
<1> QED
  BY <1>1, <1>2, LayoutsArePlanned, PTL

-----------------------------------------------------------------------------
(* Bytes *)

\* The bytes of a box in a slice that is laid out row by row.
BoxBytes(box, shape, e) ==
  {x \in Nat : \E r, c, k \in Nat :
     <<r, c>> \in BoxCells(box) /\ k < e /\ x = (r * shape[2] + c) * e + k}

\* The bytes of a box whose first byte is at a place of its slice.
BytesFrom(start, box, shape, e) ==
  {start + OffsetBytes(<<r, c>>, Strides(shape, e)) + k :
     r \in 0..(box.shape[1] - 1), c \in 0..(box.shape[2] - 1), k \in 0..(e - 1)}

LEMMA BytesOfBox ==
  ASSUME NEW box, IsBox(box), NEW shape, IsShape(shape), Inside(box, shape), NEW e \in Nat
  PROVE  BytesFrom(OffsetBytes(box.offset, Strides(shape, e)), box, shape, e)
           = BoxBytes(box, shape, e)
<1> DEFINE a == box.offset[1]
           b == box.offset[2]
           h == shape[1]
           w == shape[2]
           At(i, j) == OffsetBytes(box.offset, Strides(shape, e))
                         + OffsetBytes(<<i, j>>, Strides(shape, e))
           rows == 0..(box.shape[1] - 1)
           columns == 0..(box.shape[2] - 1)
<1>1. /\ a \in Nat /\ b \in Nat /\ h \in Nat /\ w \in Nat
      /\ box.shape[1] \in Nat /\ box.shape[2] \in Nat
      /\ a + box.shape[1] <= h /\ b + box.shape[2] <= w
      /\ box.offset \in Pair /\ shape \in Pair
  BY DEF IsBox, IsShape, Inside, Pair
<1>2. ASSUME NEW i \in rows, NEW j \in columns
      PROVE  /\ At(i, j) = ((a + i) * w + (b + j)) * e
             /\ <<a + i, b + j>> \in BoxCells(box)
             /\ a + i \in Nat /\ b + j \in Nat
             /\ (a + i) * w + (b + j) \in Nat
  <2>1. /\ i \in Nat /\ j \in Nat /\ a + i \in Nat /\ b + j \in Nat
        /\ a + i < h /\ b + j < w
        /\ a + i \in a..(a + box.shape[1] - 1) /\ b + j \in b..(b + box.shape[2] - 1)
    BY <1>1
  <2>2. At(i, j) = OffsetBytes(<<a + i, b + j>>, Strides(<<h, w>>, e))
    BY <1>1, <2>1, OffsetAdds
  <2> HIDE DEF a, b, h, w, At
  <2>3. /\ OffsetBytes(<<a + i, b + j>>, Strides(<<h, w>>, e)) = ((a + i) * w + (b + j)) * e
        /\ (a + i) * w + (b + j) \in 0..(h * w - 1)
    <3> DEFINE r == a + i
               c == b + j
    <3>1. /\ h \in Nat /\ w \in Nat /\ e \in Nat /\ r \in Nat /\ c \in Nat
          /\ r < h /\ c < w
      BY <1>1, <2>1
    <3> HIDE DEF r, c
    <3>2. /\ OffsetBytes(<<r, c>>, Strides(<<h, w>>, e)) = (r * w + c) * e
          /\ r * w + c \in 0..(h * w - 1)
      BY ONLY <3>1, ElementNumber
    <3> QED
      BY <3>2 DEF r, c
  <2>4. <<a + i, b + j>> \in BoxCells(box)
    BY <2>1 DEF BoxCells, a, b
  <2> QED
    BY <2>1, <2>2, <2>3, <2>4
<1>3. ASSUME NEW r \in Nat, NEW c \in Nat, <<r, c>> \in BoxCells(box)
      PROVE  \E i \in rows, j \in columns : r = a + i /\ c = b + j
  <2>1. r \in a..(a + box.shape[1] - 1) /\ c \in b..(b + box.shape[2] - 1)
    BY <1>3 DEF BoxCells
  <2>2. /\ r - a \in rows /\ c - b \in columns
        /\ r = a + (r - a) /\ c = b + (c - b)
    BY <1>1, <2>1
  <2> QED
    BY <2>2
<1> HIDE DEF At, rows, columns, a, b, h
<1>4. ASSUME NEW i \in rows, NEW j \in columns, NEW k \in 0..(e - 1)
      PROVE  At(i, j) + k \in BoxBytes(box, shape, e)
  <2> DEFINE r == a + i
             c == b + j
  <2>1. /\ r \in Nat /\ c \in Nat /\ <<r, c>> \in BoxCells(box)
        /\ At(i, j) = (r * w + c) * e /\ r * w + c \in Nat
    BY <1>2
  <2>2. k \in Nat /\ k < e
    OBVIOUS
  <2> HIDE DEF r, c
  <2>3. At(i, j) + k \in Nat
    BY <2>1, <2>2
  <2> QED
    BY <2>1, <2>2, <2>3 DEF BoxBytes
<1>5. ASSUME NEW x \in BoxBytes(box, shape, e)
      PROVE  \E i \in rows, j \in columns, k \in 0..(e - 1) : x = At(i, j) + k
  <2>1. PICK r \in Nat, c \in Nat, k \in Nat :
          <<r, c>> \in BoxCells(box) /\ k < e /\ x = (r * w + c) * e + k
    BY DEF BoxBytes
  <2>2. PICK i \in rows, j \in columns : r = a + i /\ c = b + j
    BY <1>3, <2>1
  <2>3. At(i, j) = (r * w + c) * e
    BY <1>2, <2>2
  <2>4. k \in 0..(e - 1)
    BY <2>1
  <2> QED
    BY <2>1, <2>3, <2>4
<1>6. {At(i, j) + k : i \in rows, j \in columns, k \in 0..(e - 1)} = BoxBytes(box, shape, e)
  BY <1>4, <1>5
<1> QED
  BY <1>6 DEF BytesFrom, At, rows, columns

\* The bytes of boxes do not overlap and are those of the shape.
BytesTiled(into, box, shape, e) ==
  /\ \A i, j \in into : i # j =>
       BoxBytes(box[i], shape, e) \cap BoxBytes(box[j], shape, e) = {}
  /\ \A i \in into :
       BoxBytes(box[i], shape, e) \subseteq 0..(TensorBytes(shape, e) - 1)
  /\ \A x \in 0..(TensorBytes(shape, e) - 1) :
       \E i \in into : x \in BoxBytes(box[i], shape, e)

\* The bytes of the boxes of a tiling tile the bytes of the shape.
LEMMA BytesOfTiling ==
  ASSUME NEW n, NEW into, NEW box, NEW shape, IsShape(shape), NEW e \in Nat,
         n \in Nat, into \in SUBSET (1..n), Tiles(n, into, box, shape)
  PROVE  BytesTiled(into, box, shape, e)
<1> DEFINE h == shape[1]
           w == shape[2]
           In(cell) == {i \in into : cell \in BoxCells(box[i])}
<1>1. h \in Nat /\ w \in Nat /\ h * w \in Nat /\ TensorBytes(shape, e) = (h * w) * e
  BY DEF IsShape, Pair, TensorBytes
<1>2. \A i \in into : BoxCells(box[i]) \subseteq ShapeCells(shape)
  BY DEF Tiles
<1>3. ASSUME NEW cell \in ShapeCells(shape)
      PROVE  \E i : In(cell) = {i}
  <2>1. Cardinality(In(cell)) = 1 /\ In(cell) \in SUBSET into
    BY DEF Tiles
  <2>2. IsFiniteSet(into)
    <3>1. 1 \in Int /\ n \in Int
      OBVIOUS
    <3>2. IsFiniteSet(1..n)
      BY ONLY <3>1, FS_Interval, Zenon
    <3> QED
      BY <3>2, FS_Subset
  <2> HIDE DEF In
  <2>3. IsFiniteSet(In(cell))
    BY <2>1, <2>2, FS_Subset
  <2> QED
    BY <2>1, <2>3, FS_Singleton
<1>4. ASSUME NEW r \in Nat, NEW c \in Nat, <<r, c>> \in ShapeCells(shape)
      PROVE  r < h /\ c < w /\ r * w + c \in 0..(h * w - 1)
  <2>1. r < h /\ c < w
    BY <1>1, <1>4 DEF ShapeCells
  <2> QED
    BY <1>1, <2>1, ElementNumber
<1>5. ASSUME NEW i \in into, NEW x \in BoxBytes(box[i], shape, e)
      PROVE  /\ x \in 0..((h * w) * e - 1)
             /\ \E r, c, k \in Nat :
                  /\ <<r, c>> \in BoxCells(box[i]) /\ c < w /\ k < e
                  /\ r * w + c \in Nat /\ x = (r * w + c) * e + k
  <2>1. PICK r \in Nat, c \in Nat, k \in Nat :
          <<r, c>> \in BoxCells(box[i]) /\ k < e /\ x = (r * w + c) * e + k
    BY DEF BoxBytes
  <2>2. <<r, c>> \in ShapeCells(shape)
    BY <1>2, <2>1
  <2> DEFINE q == r * w + c
             m == h * w
  <2>3. c < w /\ q \in Nat /\ m \in Nat /\ q < m
    BY <1>1, <1>4, <2>2
  <2>4. x = q * e + k
    BY <2>1
  <2> HIDE DEF q, m
  <2>5. q * e + k \in 0..(m * e - 1)
    BY ONLY <2>1, <2>3, ElementNumber, e \in Nat, k \in Nat
  <2> QED
    BY <2>1, <2>3, <2>4, <2>5 DEF q, m
<1>6. ASSUME NEW i \in into, NEW j \in into, i # j,
             NEW x \in BoxBytes(box[i], shape, e), x \in BoxBytes(box[j], shape, e)
      PROVE  FALSE
  <2>1. PICK r \in Nat, c \in Nat, k \in Nat :
          /\ <<r, c>> \in BoxCells(box[i]) /\ c < w /\ k < e
          /\ r * w + c \in Nat /\ x = (r * w + c) * e + k
    BY <1>5
  <2>2. PICK q \in Nat, d \in Nat, l \in Nat :
          /\ <<q, d>> \in BoxCells(box[j]) /\ d < w /\ l < e
          /\ q * w + d \in Nat /\ x = (q * w + d) * e + l
    BY <1>5, <1>6
  <2>3. r * w + c = q * w + d
    <3> DEFINE y == r * w + c
               z == q * w + d
    <3>1. y \in Nat /\ z \in Nat /\ y * e + k = z * e + l /\ k < e /\ l < e
      BY <2>1, <2>2
    <3> HIDE DEF y, z
    <3>2. y = z
      BY ONLY <3>1, OneNumber, e \in Nat, k \in Nat, l \in Nat
    <3> QED
      BY <3>2 DEF y, z
  <2>4. r = q /\ c = d
    <3>1. w \in Nat /\ c < w /\ d < w
      BY <1>1, <2>1, <2>2
    <3> HIDE DEF w
    <3> QED
      BY ONLY <2>3, <3>1, OneNumber, r \in Nat, c \in Nat, q \in Nat, d \in Nat
  <2>5. <<r, c>> \in ShapeCells(shape) /\ {i, j} \subseteq In(<<r, c>>)
    BY <1>2, <2>1, <2>2, <2>4
  <2>6. PICK u : In(<<r, c>>) = {u}
    BY <1>3, <2>5
  <2> HIDE DEF In
  <2> QED
    BY <1>6, <2>5, <2>6
<1>7. ASSUME NEW x \in 0..((h * w) * e - 1)
      PROVE  \E i \in into : x \in BoxBytes(box[i], shape, e)
  <2> DEFINE m == h * w
  <2>1. m \in Nat /\ x \in 0..(m * e - 1)
    BY <1>1
  <2> HIDE DEF m
  <2>2. PICK q \in 0..(m - 1), k \in 0..(e - 1) : x = q * e + k
    BY ONLY <2>1, RowAndColumn, e \in Nat
  <2>3. q \in 0..(h * w - 1)
    BY <2>2 DEF m
  <2> HIDE DEF h, w
  <2>4. PICK r \in 0..(h - 1), c \in 0..(w - 1) : q = r * w + c
    BY ONLY <1>1, <2>3, RowAndColumn
  <2>5. <<r, c>> \in ShapeCells(shape) /\ r \in Nat /\ c \in Nat
    BY DEF ShapeCells, h, w
  <2>6. PICK i : In(<<r, c>>) = {i}
    BY <1>3, <2>5
  <2>7. i \in into /\ <<r, c>> \in BoxCells(box[i])
    BY <2>6
  <2>8. k \in Nat /\ k < e /\ x = (r * w + c) * e + k /\ x \in Nat
    BY <2>2, <2>4, <1>7
  <2> QED
    BY <2>5, <2>7, <2>8 DEF BoxBytes, w
<1> QED
  BY <1>1, <1>5, <1>6, <1>7 DEF BytesTiled

-----------------------------------------------------------------------------
(* What arrives at a tile *)

\* The data of a slot of the i-th ring.
SlotPart(i, bytes) == {<<"slot", i, k>> : k \in 0..(bytes - 1)}

\* The bytes of a ring at these offsets.
AtRing(ring, offsets) == {<<"shared", ring, x>> : x \in offsets}

\* The payload of the send of the i-th receive of a tile.
Arrived(h, i, inplace) ==
  LET dst == TargetAt(app, h, i)
      slice == app.slices[dst.slice]
  IN IF inplace /\ RingOf(h, i) # 0
     THEN AtRing(RingOf(h, i), BoxBytes(dst, slice.shape, slice.elemBytes))
     ELSE SlotPart(i, SlotDataBytes(h, i))

\* The bytes of a ring that a box starting there fills.
RingBytes(ring, start, box, shape, e) ==
  {<<"shared", ring, start + OffsetBytes(<<r, c>>, Strides(shape, e)) + k>> :
     r \in 0..(box.shape[1] - 1), c \in 0..(box.shape[2] - 1), k \in 0..(e - 1)}

LEMMA RingBytesAre ==
  ASSUME NEW ring, NEW box, IsBox(box), NEW shape, IsShape(shape), Inside(box, shape),
         NEW e \in Nat
  PROVE  RingBytes(ring, OffsetBytes(box.offset, Strides(shape, e)), box, shape, e)
           = AtRing(ring, BoxBytes(box, shape, e))
<1> DEFINE start == OffsetBytes(box.offset, Strides(shape, e))
<1>1. BytesFrom(start, box, shape, e) = BoxBytes(box, shape, e)
  BY BytesOfBox
<1> HIDE DEF start
<1>2. RingBytes(ring, start, box, shape, e) = AtRing(ring, BytesFrom(start, box, shape, e))
  <2> DEFINE In(r, c) == OffsetBytes(<<r, c>>, Strides(shape, e))
             rows == 0..(box.shape[1] - 1)
             columns == 0..(box.shape[2] - 1)
             bytes == 0..(e - 1)
  <2>1. RingBytes(ring, start, box, shape, e)
          = {<<"shared", ring, start + In(r, c) + k>> : r \in rows, c \in columns, k \in bytes}
    BY DEF RingBytes
  <2>2. BytesFrom(start, box, shape, e)
          = {start + In(r, c) + k : r \in rows, c \in columns, k \in bytes}
    BY DEF BytesFrom
  <2> HIDE DEF In, rows, columns, bytes
  <2> QED
    BY <2>1, <2>2 DEF AtRing
<1> QED
  BY <1>1, <1>2 DEF start

\* What a send writes, said by the box it is sent to.
LEMMA ArrivingIs ==
  ASSUME NEW s, NEW inplace \in BOOLEAN
  PROVE  LET dst == app.subslices[s.dstSubslice]
             slice == app.slices[dst.slice]
             ring == RingOf(s.dst, s.producer + 1)
         IN Arriving(s, inplace) =
              IF inplace /\ ring # 0
              THEN RingBytes(ring,
                     OffsetBytes(dst.offset, Strides(slice.shape, slice.elemBytes)),
                     dst, slice.shape, slice.elemBytes)
              ELSE SlotPart(s.producer + 1, Bytes(s.srcSubslice))
<1> DEFINE dst == app.subslices[s.dstSubslice]
           slice == app.slices[dst.slice]
           ring == RingOf(s.dst, s.producer + 1)
<1>1. IsGatheredSend(s) <=> ring # 0
  BY DEF IsGatheredSend, RingOf
<1>2. Arriving(s, inplace) =
        IF IsShared(s, inplace)
        THEN RingBytes(ring, DstOffsetBytes(s), dst, slice.shape, slice.elemBytes)
        ELSE SlotPart(s.producer + 1, Bytes(s.srcSubslice))
  BY DEF Arriving, RingBytes, SlotPart
<1>3. IsShared(s, inplace) <=> inplace /\ ring # 0
  BY <1>1 DEF IsShared
<1>4. ring # 0 =>
        DstOffsetBytes(s) = OffsetBytes(dst.offset, Strides(slice.shape, slice.elemBytes))
  BY <1>1 DEF DstOffsetBytes
<1> HIDE DEF dst, slice, ring
<1>5. Arriving(s, inplace) =
        IF inplace /\ ring # 0
        THEN RingBytes(ring, OffsetBytes(dst.offset, Strides(slice.shape, slice.elemBytes)),
                       dst, slice.shape, slice.elemBytes)
        ELSE SlotPart(s.producer + 1, Bytes(s.srcSubslice))
  BY <1>2, <1>3, <1>4
<1> QED
  BY <1>5 DEF dst, slice, ring

\* A row of the table of sends.
LEMMA SendsTyped ==
  ASSUME AppOK(app), NEW n \in DOMAIN app.sends
  PROVE  app.sends[n].dst \in Harts /\ app.sends[n].producer \in Nat
<1>1. app.sends \in Seq(SendType(app))
  BY DEF AppOK, RowsOK
<1>2. app.sends[n] \in SendType(app)
  BY <1>1
<1> QED
  BY <1>2 DEF SendType

\* A send has its place among the receives of its destination, and what it
\* carries is what arrives there.
LEMMA SendArrives ==
  ASSUME IInv, NEW m, IsWired(prog, m), ReceivesHoldData(prog, m),
         Wiring(app, run, prog, m, phase, pos),
         NEW n \in DOMAIN app.sends, NEW inplace \in BOOLEAN
  PROVE  LET s == app.sends[n]
             i == s.producer + 1
         IN /\ s.dst \in Harts /\ i \in Positions(app, s.dst)
            /\ Arriving(s, inplace) = Arrived(s.dst, i, inplace)
<1> DEFINE s == app.sends[n]
           i == s.producer + 1
           h == s.dst
           dst == app.subslices[s.dstSubslice]
           slice == app.slices[dst.slice]
           e == slice.elemBytes
           shape == slice.shape
<1>1. TransfersMeet(app, run, prog, m, phase, pos) /\ AppOK(app)
  BY Facts DEF Wiring, TransfersMeet
<1>2. /\ i \in DOMAIN app.plans[h].recvs
      /\ app.recvs[app.plans[h].recvs[i]].subslice = s.dstSubslice
      /\ Bytes(s.srcSubslice) = Bytes(s.dstSubslice)
  BY <1>1, SendRowMeets
<1>3. h \in Harts
  BY <1>1, SendsTyped
<1>4. i \in Positions(app, h) /\ TargetAt(app, h, i) = dst
  BY <1>2 DEF Positions, TargetAt
<1>5. BoxReceived(app, h, i)
  BY <1>3, <1>4, BoxesAreReceived
<1>6. dst.slice \in DOMAIN app.slices /\ slice \in SliceType
  <2> HIDE DEF dst
  <2> QED
    BY <1>4, <1>5 DEF BoxReceived
<1>7. IsBox(dst) /\ IsShape(shape) /\ Inside(dst, shape) /\ e \in Nat
  <2>1. e \in Nat
    <3> HIDE DEF slice
    <3> QED
      BY <1>6 DEF SliceType
  <2> HIDE DEF dst
  <2>2. IsBox(dst) /\ IsShape(shape) /\ Inside(dst, shape)
    BY <1>4, <1>5 DEF BoxReceived
  <2> QED
    BY <2>1, <2>2
<1>8. Bytes(s.srcSubslice) = SlotDataBytes(h, i)
  BY <1>2, <1>4 DEF Bytes, SubSlice, SlotDataBytes, Elements
<1>9. Arriving(s, inplace) =
        IF inplace /\ RingOf(h, i) # 0
        THEN RingBytes(RingOf(h, i), OffsetBytes(dst.offset, Strides(shape, e)), dst, shape, e)
        ELSE SlotPart(i, Bytes(s.srcSubslice))
  BY ArrivingIs
<1> HIDE DEF s, h, i, dst
<1>10. Arrived(h, i, inplace) =
         IF inplace /\ RingOf(h, i) # 0
         THEN AtRing(RingOf(h, i), BoxBytes(dst, shape, e))
         ELSE SlotPart(i, SlotDataBytes(h, i))
  BY <1>4 DEF Arrived
<1> HIDE DEF slice, shape, e
<1>11. RingBytes(RingOf(h, i), OffsetBytes(dst.offset, Strides(shape, e)), dst, shape, e)
         = AtRing(RingOf(h, i), BoxBytes(dst, shape, e))
  BY ONLY <1>7, RingBytesAre, Zenon
<1>12. Arriving(s, inplace) = Arrived(h, i, inplace)
  BY ONLY <1>8, <1>9, <1>10, <1>11, Zenon
<1> QED
  BY <1>3, <1>4, <1>12 DEF s, h, i

\* Two sends have two places, and when all is collected each place has a send.
LEMMA PlacesAreServed ==
  ASSUME IInv, NEW m, IsWired(prog, m), Wiring(app, run, prog, m, phase, pos)
  PROVE  /\ \A n1, n2 \in DOMAIN app.sends :
              /\ app.sends[n1].dst = app.sends[n2].dst
              /\ app.sends[n1].producer + 1 = app.sends[n2].producer + 1
              => n1 = n2
         /\ phase = "done" =>
              \A h \in Harts : \A i \in Positions(app, h) :
                \E n \in DOMAIN app.sends :
                  app.sends[n].dst = h /\ app.sends[n].producer + 1 = i
<1>1. TransfersMeet(app, run, prog, m, phase, pos) /\ AppOK(app)
  BY Facts DEF Wiring, TransfersMeet
<1>2. \A n \in DOMAIN app.sends : app.sends[n].producer \in Nat
  BY <1>1, SendsTyped
<1>3. ASSUME NEW n1 \in DOMAIN app.sends, NEW n2 \in DOMAIN app.sends,
             app.sends[n1].dst = app.sends[n2].dst,
             app.sends[n1].producer + 1 = app.sends[n2].producer + 1
      PROVE  n1 = n2
  <2>1. app.sends[n1].producer = app.sends[n2].producer
    BY <1>2, <1>3
  <2> QED
    BY <1>1, <1>3, <2>1 DEF TransfersMeet, SendsMeet
<1>4. ASSUME phase = "done", NEW h \in Harts, NEW i \in Positions(app, h)
      PROVE  \E n \in DOMAIN app.sends :
               app.sends[n].dst = h /\ app.sends[n].producer + 1 = i
  <2> DEFINE r == app.plans[h].recvs[i]
  <2>1. r \in DOMAIN app.recvs /\ app.recvs[r].dst = h /\ app.recvs[r].producer + 1 = i
    BY <1>1 DEF TransfersMeet, RecvsMeet, PlansPlaced, Positions
  <2> HIDE DEF r
  <2>2. PICK s \in Rows(app.sends) : Meet(s, app.recvs[r])
    BY <1>1, <1>4, <2>1, RecvRowMeets
  <2>3. PICK n \in DOMAIN app.sends : s = app.sends[n]
    BY DEF Rows
  <2> QED
    BY <2>1, <2>2, <2>3 DEF Meet
<1> QED
  BY <1>3, <1>4

\* A shared ring has the size of the slice of its first receive.
LEMMA RingSizes ==
  ASSUME NEW a, NEW h, NEW n, PlacesAre(a, h, n)
  PROVE  LET bytes == GatheredFifoLayout(a, h).ringBytes
         IN /\ \A f \in Gathering(a, h) : RingNumber(a, h, f) \in DOMAIN bytes
            /\ \A r \in DOMAIN bytes : \E f \in Gathering(a, h) :
                 /\ RingNumber(a, h, f) = r
                 /\ bytes[r] = a.slices[TargetAt(a, h, f).slice].slotBytes
<1> DEFINE G == Gathering(a, h)
           bytes == GatheredFifoLayout(a, h).ringBytes
           First(r) == CHOOSE f \in G : RingNumber(a, h, f) = r
           rank == [f \in G |-> Cardinality({g \in G : g <= f})]
<1>1. n \in Nat /\ G \in SUBSET (1..n)
  BY DEF PlacesAre, Gathering
<1>2. \A f \in G : rank[f] = RingNumber(a, h, f)
  BY DEF RingNumber
<1>3. CASE G = {}
  <2>1. bytes = <<>>
    BY <1>3 DEF GatheredFifoLayout, NoGathering
  <2>2. DOMAIN bytes = {}
    BY <2>1
  <2> QED
    BY <1>3, <2>2
<1>4. CASE G # {}
  <2>1. bytes = [r \in 1..Cardinality(G) |->
                   a.slices[TargetAt(a, h, First(r)).slice].slotBytes]
    BY <1>4, Zenon DEF GatheredFifoLayout
  <2> HIDE DEF G, bytes
  <2>2. /\ \A f \in G : rank[f] \in 1..Cardinality(G)
        /\ \A r \in 1..Cardinality(G) : \E f \in G : rank[f] = r
    <3>1. rank = [f \in G |-> Cardinality({g \in G : g <= f})]
      OBVIOUS
    <3> HIDE DEF rank
    <3> QED
      BY ONLY <1>1, <3>1, NumbersInOrder
  <2> HIDE DEF rank
  <2>3. DOMAIN bytes = 1..Cardinality(G)
    BY <2>1
  <2>4. \A f \in G : RingNumber(a, h, f) \in DOMAIN bytes
    BY <1>2, <2>2, <2>3
  <2>5. ASSUME NEW r \in DOMAIN bytes
        PROVE  /\ First(r) \in G /\ RingNumber(a, h, First(r)) = r
               /\ bytes[r] = a.slices[TargetAt(a, h, First(r)).slice].slotBytes
    <3>1. \E f \in G : RingNumber(a, h, f) = r
      BY <1>2, <2>2, <2>3
    <3>2. bytes[r] = a.slices[TargetAt(a, h, First(r)).slice].slotBytes
      BY <2>1, <2>3
    <3> QED
      BY <3>1, <3>2, Zenon
  <2> HIDE DEF First
  <2> QED
    BY <2>4, <2>5 DEF G, bytes
<1> QED
  BY <1>3, <1>4

\* What is known of the shared rings of a tile: the receives of a ring are those
\* of a slice that they tile, each ring has receives and the size of the slice.
RingsTiled(h, n) ==
  /\ \A i \in Positions(app, h) :
       LET s == TargetAt(app, h, i).slice
       IN RingOf(h, i) # 0 =>
            /\ RingOf(h, i) \in DOMAIN layouts[h].ringBytes
            /\ layouts[h].ringBytes[RingOf(h, i)]
                 = TensorBytes(app.slices[s].shape, app.slices[s].elemBytes)
            /\ Tiles(n, ReceivesInto(app, h, s), BoxesOf(app, h, n), app.slices[s].shape)
            /\ \A j \in Positions(app, h) :
                 RingOf(h, j) = RingOf(h, i) <=> TargetAt(app, h, j).slice = s
  /\ \A r \in DOMAIN layouts[h].ringBytes :
       r # 0 /\ \E i \in Positions(app, h) : RingOf(h, i) = r

LEMMA RingsAreTiled ==
  ASSUME IInv, WidthsKnown(app), NEW m, IsWired(prog, m), ReceivesHoldData(prog, m),
         Wiring(app, run, prog, m, phase, pos), LayoutsPlanned, layouts # NotPlanned,
         NEW h \in Harts, NEW n, PlacesAre(app, h, n)
  PROVE  RingsTiled(h, n)
<1> DEFINE G == Gathering(app, h)
           bytes == layouts[h].ringBytes
           Slice(i) == TargetAt(app, h, i).slice
<1>1. GatheredWhenTiled
  BY PlannedIsGathered
<1>2. layouts[h] = LayoutOf(app, h)
  BY DEF LayoutsPlanned
<1>3. \A i \in Positions(app, h) : BoxReceived(app, h, i)
  BY BoxesAreReceived
<1>4. CASE app.target # "magia-v3"
  <2>1. layouts[h] = NoGathering
    BY <1>2, <1>4 DEF LayoutOf
  <2>2. bytes = <<>> /\ \A i \in Positions(app, h) : RingOf(h, i) = 0
    BY <2>1 DEF NoGathering, RingOf
  <2>3. DOMAIN bytes = {}
    BY <2>2
  <2> QED
    BY <2>2, <2>3 DEF RingsTiled
<1>5. CASE app.target = "magia-v3"
  <2>1. layouts[h] = GatheredFifoLayout(app, h)
    BY <1>2, <1>5 DEF LayoutOf
  <2>2. \A i \in Positions(app, h) : RingOf(h, i) = RingIn(GatheredFifoLayout(app, h), i)
    BY <2>1 DEF RingOf, RingIn
  <2>3. \A i \in Positions(app, h) :
          /\ RingOf(h, i) # 0 => \E f \in G : Slice(f) = Slice(i)
          /\ \A f \in G : Slice(f) = Slice(i) => RingOf(h, i) = RingNumber(app, h, f)
    BY <2>2, RingsMean
  <2>4. /\ \A f \in G : RingNumber(app, h, f) \in DOMAIN bytes
        /\ \A r \in DOMAIN bytes : \E f \in G :
             RingNumber(app, h, f) = r /\ bytes[r] = app.slices[Slice(f)].slotBytes
    BY <2>1, RingSizes
  <2>5. G \subseteq Positions(app, h)
    BY DEF Gathering
  <2>6. ASSUME NEW f \in G
        PROVE  /\ RingOf(h, f) = RingNumber(app, h, f) /\ RingOf(h, f) # 0
               /\ app.slices[Slice(f)].slotBytes =
                    TensorBytes(app.slices[Slice(f)].shape, app.slices[Slice(f)].elemBytes)
    <3>1. RingOf(h, f) = RingNumber(app, h, f)
      BY <2>3, <2>5
    <3>2. RingOf(h, f) # 0
      BY <2>2, <2>5, RingsMean
    <3>3. Slice(f) \in DOMAIN app.slices
      BY <1>3, <2>5 DEF BoxReceived
    <3> HIDE DEF Slice
    <3> QED
      BY <3>1, <3>2, <3>3 DEF WidthsKnown, SlotBytes
  <2>7. ASSUME NEW i \in Positions(app, h), RingOf(h, i) # 0
        PROVE  /\ Tiles(n, ReceivesInto(app, h, Slice(i)), BoxesOf(app, h, n),
                        app.slices[Slice(i)].shape)
               /\ \A j \in Positions(app, h) :
                    RingOf(h, j) = RingOf(h, i) <=> Slice(j) = Slice(i)
    <3>1. /\ TiledByReceives(h, Slice(i))
          /\ \A j \in Positions(app, h) : RingOf(h, j) = RingOf(h, i) <=> Slice(j) = Slice(i)
      BY <1>1, <2>7 DEF GatheredWhenTiled
    <3> HIDE DEF Slice
    <3> QED
      BY <3>1, TiledMeansTiles
  <2> HIDE DEF G, bytes
  <2>8. ASSUME NEW i \in Positions(app, h), RingOf(h, i) # 0
        PROVE  /\ RingOf(h, i) \in DOMAIN bytes
               /\ bytes[RingOf(h, i)] =
                    TensorBytes(app.slices[Slice(i)].shape, app.slices[Slice(i)].elemBytes)
    <3> HIDE DEF Slice
    <3>1. PICK f \in G : Slice(f) = Slice(i) /\ RingOf(h, i) = RingNumber(app, h, f)
      BY <2>3, <2>8
    <3>2. PICK g \in G : /\ RingNumber(app, h, g) = RingOf(h, i)
                         /\ bytes[RingOf(h, i)] = app.slices[Slice(g)].slotBytes
      BY <2>4, <3>1
    <3>3. Slice(g) = Slice(i)
      BY <2>5, <2>6, <2>7, <2>8, <3>2
    <3> QED
      BY <2>4, <2>6, <3>1, <3>2, <3>3
  <2>9. ASSUME NEW r \in DOMAIN bytes
        PROVE  r # 0 /\ \E i \in Positions(app, h) : RingOf(h, i) = r
    BY <2>4, <2>5, <2>6
  <2> QED
    BY <2>7, <2>8, <2>9 DEF RingsTiled, bytes
<1> QED
  BY <1>4, <1>5

\* What arrives at a tile does not overlap, and fills its FIFO.
LEMMA ArrivalsFill ==
  ASSUME IInv, WidthsKnown(app), NEW m, IsWired(prog, m), ReceivesHoldData(prog, m),
         Wiring(app, run, prog, m, phase, pos), LayoutsPlanned, layouts # NotPlanned,
         NEW h \in Harts, NEW inplace \in BOOLEAN
  PROVE  /\ \A i, j \in Positions(app, h) : i # j =>
              Arrived(h, i, inplace) \cap Arrived(h, j, inplace) = {}
         /\ UNION {Arrived(h, i, inplace) : i \in Positions(app, h)} = Room(h, inplace)
<1> DEFINE n == Len(app.plans[h].recvs)
           P == Positions(app, h)
           Ring(i) == RingOf(h, i)
           Slice(i) == TargetAt(app, h, i).slice
           Size(i) == TensorBytes(app.slices[Slice(i)].shape, app.slices[Slice(i)].elemBytes)
           Piece(i) == BoxBytes(TargetAt(app, h, i), app.slices[Slice(i)].shape,
                                app.slices[Slice(i)].elemBytes)
           bytes == layouts[h].ringBytes
           Slots(i) == SlotDataBytes(h, i)
<1>1. PlacesAre(app, h, n)
  BY PlacesAreNumbers, Facts
<1>2. RingsTiled(h, n)
  BY <1>1, RingsAreTiled
<1>3. \A i \in P : BoxReceived(app, h, i)
  BY BoxesAreReceived
<1>4. \A i \in P : Arrived(h, i, inplace) =
        IF inplace /\ Ring(i) # 0 THEN {<<"shared", Ring(i), x>> : x \in Piece(i)}
        ELSE SlotPart(i, Slots(i))
  BY DEF Arrived, AtRing
<1>5. \A i \in P : Ring(i) # 0 =>
        /\ Ring(i) \in DOMAIN bytes /\ bytes[Ring(i)] = Size(i)
        /\ \A j \in P : Ring(j) = Ring(i) <=> Slice(j) = Slice(i)
  BY <1>2 DEF RingsTiled
<1>6. \A r \in DOMAIN bytes : r # 0 /\ \E i \in P : Ring(i) = r
  BY <1>2 DEF RingsTiled
<1>7. ASSUME NEW i \in P, Ring(i) # 0
      PROVE  /\ \A j, k \in P : Ring(j) = Ring(i) /\ Ring(k) = Ring(i) /\ j # k =>
                   Piece(j) \cap Piece(k) = {}
             /\ Piece(i) \subseteq 0..(Size(i) - 1)
             /\ \A x \in 0..(Size(i) - 1) : \E j \in P : Ring(j) = Ring(i) /\ x \in Piece(j)
  <2> DEFINE into == ReceivesInto(app, h, Slice(i))
             box == BoxesOf(app, h, n)
             shape == app.slices[Slice(i)].shape
             e == app.slices[Slice(i)].elemBytes
  <2>1. Tiles(n, into, box, shape)
    BY <1>2, <1>7 DEF RingsTiled
  <2>2. n \in Nat /\ P = 1..n /\ into \in SUBSET (1..n)
    BY <1>1 DEF PlacesAre, ReceivesInto
  <2>3. \A j \in P : j \in into <=> Slice(j) = Slice(i)
    BY DEF ReceivesInto
  <2>4. \A j \in into : j \in P /\ Piece(j) = BoxBytes(box[j], shape, e)
    BY <2>2, <2>3 DEF BoxesOf
  <2>5. \A j \in P : Ring(j) = Ring(i) <=> j \in into
    BY <1>5, <1>7, <2>3
  <2>6. i \in into /\ Size(i) = TensorBytes(shape, e)
    BY <2>3
  <2>7. IsShape(shape) /\ e \in Nat
    <3>1. BoxReceived(app, h, i)
      BY <1>3
    <3>2. app.slices[Slice(i)] \in SliceType /\ IsShape(shape)
      BY <3>1 DEF BoxReceived
    <3> DEFINE slice == app.slices[Slice(i)]
    <3>3. slice \in SliceType => slice.elemBytes \in Nat
      <4> HIDE DEF slice
      <4> QED
        BY DEF SliceType
    <3> QED
      BY <3>2, <3>3
  <2> HIDE DEF P, Ring, Piece, Size, into, box, shape, e, n
  <2>8. BytesTiled(into, box, shape, e)
    BY <2>1, <2>2, <2>7, BytesOfTiling
  <2> QED
    BY <2>4, <2>5, <2>6, <2>8 DEF BytesTiled
<1>8. \A y : y \in Room(h, inplace) <=>
        \/ \E i \in P : ~(inplace /\ Ring(i) # 0) /\ y \in SlotPart(i, Slots(i))
        \/ inplace /\ \E r \in DOMAIN bytes : \E k \in 0..(bytes[r] - 1) :
                        y = <<"shared", r, k>>
  <2> DEFINE slots == UNION {SlotPart(i, Slots(i)) : i \in {i \in P : ~(inplace /\ Ring(i) # 0)}}
             Shared(r) == {<<"shared", r, k>> : k \in 0..(bytes[r] - 1)}
  <2>1. Room(h, inplace) =
          IF inplace THEN slots \cup (UNION {Shared(r) : r \in DOMAIN bytes}) ELSE slots
    BY DEF Room, SlotPart
  <2> HIDE DEF P, Ring, Slots, bytes
  <2>2. \A y : y \in slots <=>
          \E i \in P : ~(inplace /\ Ring(i) # 0) /\ y \in SlotPart(i, Slots(i))
    OBVIOUS
  <2>3. \A r, y : y \in Shared(r) <=> \E k \in 0..(bytes[r] - 1) : y = <<"shared", r, k>>
    OBVIOUS
  <2> HIDE DEF slots, Shared
  <2> QED
    BY <2>1, <2>2, <2>3
<1> HIDE DEF n, P, Ring, Slice, Size, Piece, bytes, Slots
<1>9. ASSUME NEW i \in P, NEW j \in P, i # j,
             NEW y \in Arrived(h, i, inplace), y \in Arrived(h, j, inplace)
      PROVE  FALSE
  <2>1. CASE inplace /\ Ring(i) # 0
    <3>1. PICK x \in Piece(i) : y = <<"shared", Ring(i), x>>
      BY <1>4, <1>9, <2>1
    <3>2. CASE inplace /\ Ring(j) # 0
      <4>1. PICK z \in Piece(j) : y = <<"shared", Ring(j), z>>
        BY <1>4, <1>9, <3>2
      <4>2. Ring(j) = Ring(i) /\ z = x
        BY <3>1, <4>1
      <4> QED
        BY <1>7, <1>9, <2>1, <4>2
    <3>3. CASE ~(inplace /\ Ring(j) # 0)
      <4>1. PICK k : y = <<"slot", j, k>>
        BY <1>4, <1>9, <3>3 DEF SlotPart
      <4> QED
        BY <3>1, <4>1
    <3> QED
      BY <3>2, <3>3
  <2>2. CASE ~(inplace /\ Ring(i) # 0)
    <3>1. PICK k : y = <<"slot", i, k>>
      BY <1>4, <1>9, <2>2 DEF SlotPart
    <3>2. CASE inplace /\ Ring(j) # 0
      <4>1. PICK z \in Piece(j) : y = <<"shared", Ring(j), z>>
        BY <1>4, <1>9, <3>2
      <4> QED
        BY <3>1, <4>1
    <3>3. CASE ~(inplace /\ Ring(j) # 0)
      <4>1. PICK l : y = <<"slot", j, l>>
        BY <1>4, <1>9, <3>3 DEF SlotPart
      <4> QED
        BY <1>9, <3>1, <4>1
    <3> QED
      BY <3>2, <3>3
  <2> QED
    BY <2>1, <2>2
<1>10. ASSUME NEW i \in P, NEW y \in Arrived(h, i, inplace)
       PROVE  y \in Room(h, inplace)
  <2>1. CASE inplace /\ Ring(i) # 0
    <3>1. PICK x \in Piece(i) : y = <<"shared", Ring(i), x>>
      BY <1>4, <1>10, <2>1
    <3>2. x \in 0..(bytes[Ring(i)] - 1) /\ Ring(i) \in DOMAIN bytes
      BY <1>5, <1>7, <2>1
    <3> QED
      BY <1>8, <2>1, <3>1, <3>2
  <2>2. CASE ~(inplace /\ Ring(i) # 0)
    <3>1. y \in SlotPart(i, Slots(i))
      BY <1>4, <1>10, <2>2
    <3> QED
      BY <1>8, <2>2, <3>1
  <2> QED
    BY <2>1, <2>2
<1>11. ASSUME NEW y \in Room(h, inplace)
       PROVE  \E i \in P : y \in Arrived(h, i, inplace)
  <2>1. CASE \E i \in P : ~(inplace /\ Ring(i) # 0) /\ y \in SlotPart(i, Slots(i))
    BY <1>4, <2>1
  <2>2. CASE inplace /\ \E r \in DOMAIN bytes : \E k \in 0..(bytes[r] - 1) :
               y = <<"shared", r, k>>
    <3>1. PICK r \in DOMAIN bytes : \E k \in 0..(bytes[r] - 1) : y = <<"shared", r, k>>
      BY <2>2
    <3> PICK k \in 0..(bytes[r] - 1) : y = <<"shared", r, k>>
      BY <3>1
    <3>2. PICK i \in P : Ring(i) = r /\ r # 0
      BY <1>6
    <3>3. PICK j \in P : Ring(j) = r /\ k \in Piece(j)
      BY <1>5, <1>7, <3>2
    <3>4. y \in Arrived(h, j, inplace)
      BY <1>4, <2>2, <3>2, <3>3
    <3> QED
      BY <3>4
  <2> QED
    BY <1>8, <1>11, <2>1, <2>2
<1>12. UNION {Arrived(h, i, inplace) : i \in P} = Room(h, inplace)
  BY <1>10, <1>11
<1> QED
  BY <1>9, <1>12 DEF P

\* What the sends of a collected module write fills the FIFOs.
LEMMA ArrivingFills ==
  ASSUME IInv, WidthsKnown(app), NEW m, IsWired(prog, m), ReceivesHoldData(prog, m),
         Wiring(app, run, prog, m, phase, pos), LayoutsPlanned
  PROVE  PayloadsFillTheFifo
<1> SUFFICES ASSUME layouts # NotPlanned, NEW h \in Harts, NEW inplace \in BOOLEAN
             PROVE  LET mine == {n \in DOMAIN app.sends : app.sends[n].dst = h}
                    IN /\ \A n \in mine : \A k \in {k \in mine : k < n} :
                            Arriving(app.sends[n], inplace)
                              \cap Arriving(app.sends[k], inplace) = {}
                       /\ UNION {Arriving(app.sends[n], inplace) : n \in mine}
                            = Room(h, inplace)
  BY Zenon DEF PayloadsFillTheFifo
<1> DEFINE mine == {n \in DOMAIN app.sends : app.sends[n].dst = h}
           Place(n) == app.sends[n].producer + 1
           P == Positions(app, h)
           Writes(n) == Arriving(app.sends[n], inplace)
           Gets(i) == Arrived(h, i, inplace)
<1>1. phase = "done"
  BY DEF LayoutsPlanned
<1>2. \A n \in mine : Place(n) \in P /\ Writes(n) = Gets(Place(n))
  BY SendArrives
<1>3. /\ \A n, k \in mine : Place(n) = Place(k) => n = k
      /\ \A i \in P : \E n \in mine : Place(n) = i
  BY <1>1, PlacesAreServed
<1>4. /\ \A i, j \in P : i # j => Gets(i) \cap Gets(j) = {}
      /\ UNION {Gets(i) : i \in P} = Room(h, inplace)
  BY ArrivalsFill
<1>5. mine \subseteq Nat
  <2>1. app.sends \in Seq(SendType(app))
    BY Facts DEF AppOK, RowsOK
  <2> QED
    BY <2>1
<1> HIDE DEF mine, Place, P, Writes, Gets
<1>6. \A n \in mine : \A k \in {k \in mine : k < n} : Writes(n) \cap Writes(k) = {}
  <2> SUFFICES ASSUME NEW n \in mine, NEW k \in mine, k < n
               PROVE  Writes(n) \cap Writes(k) = {}
    OBVIOUS
  <2>1. n # k
    BY <1>5
  <2> QED
    BY <1>2, <1>3, <1>4, <2>1
<1>7. UNION {Writes(n) : n \in mine} = Room(h, inplace)
  <2>1. UNION {Writes(n) : n \in mine} = UNION {Gets(i) : i \in P}
    BY <1>2, <1>3
  <2> QED
    BY <1>4, <2>1
<1> QED
  BY <1>6, <1>7 DEF mine, Writes

\* Whatever modules are collected, if each keeps the contracts of its transfers
\* and receives nothing empty, then the sends of all other tiles, by the payload
\* modes and offsets that are printed for them (emitSendDesc), write every byte
\* of the FIFO of a tile (emitFifoSlotDataSizes) once, whether the build shares
\* rings or not.
THEOREM FifosAreFilled ==
  ASSUME NEW homes,
         \A p \in Programs : IsWired(p, homes[p]) /\ ReceivesHoldData(p, homes[p])
  PROVE  LayoutSpec => []PayloadsFillTheFifo
<1> DEFINE Wired == Wiring(app, run, prog, homes[prog], phase, pos)
           Sized == WidthsKnown(app)
<1>1. IInv /\ Wired /\ Sized /\ LayoutsPlanned => PayloadsFillTheFifo
  BY ArrivingFills DEF IInv
<1>2. Init => Sized
  <2>1. Init => app.slices = <<>>
    BY DEF Init, NewApplication
  <2>2. DOMAIN <<>> = {}
    OBVIOUS
  <2> QED
    BY <2>1, <2>2 DEF WidthsKnown
<1>3. IInv /\ Sized /\ [Next]_vars => Sized'
  BY NextWidths
<1> HIDE DEF Wired, Sized
<1>4. Spec => [](IInv /\ Wired)
  BY WiringHolds DEF Wired
<1>5. Spec => []Sized
  BY <1>2, <1>3, Invariance, PTL DEF Spec
<1> QED
  BY <1>1, <1>4, <1>5, LayoutsArePlanned, PTL
=============================================================================
