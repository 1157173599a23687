-------------------------- MODULE ForwardABIProofs --------------------------
(***************************************************************************)
(* What the rounds over @forward keep, for all functions: the data of what *)
(* is sent or used, the slots, and the order of the arguments.             *)
(***************************************************************************)
EXTENDS ForwardABI, DataInduction, FiniteSetTheorems, SequenceTheorems

-----------------------------------------------------------------------------
(* Lists in an order *)

\* R orders the elements of S one after the other.
IsOrder(S, R) ==
  /\ \A x \in S : <<x, x>> \notin R
  /\ \A x, y \in S : x # y => <<x, y>> \in R \/ <<y, x>> \in R
  /\ \A x, y, z \in S : <<x, y>> \in R /\ <<y, z>> \in R => <<x, z>> \in R

\* What comes before x.
Before(S, R, x) == {j \in S : <<j, x>> \in R}

\* An element comes before another when less comes before it.
LEMMA BeforeCounts ==
  ASSUME NEW S, IsFiniteSet(S), NEW R, IsOrder(S, R)
  PROVE  /\ \A x \in S : Cardinality(Before(S, R, x)) \in 0..(Cardinality(S) - 1)
         /\ \A x, y \in S :
              <<x, y>> \in R <=> Cardinality(Before(S, R, x)) < Cardinality(Before(S, R, y))
         /\ \A x, y \in S : Cardinality(Before(S, R, x)) = Cardinality(Before(S, R, y)) => x = y
<1>1. \A x \in S : IsFiniteSet(Before(S, R, x)) /\ Cardinality(Before(S, R, x)) \in Nat
  BY FS_Subset, FS_CardinalityType DEF Before
<1>2. Cardinality(S) \in Nat
  BY FS_CardinalityType
<1>3. ASSUME NEW x \in S
      PROVE  Cardinality(Before(S, R, x)) \in 0..(Cardinality(S) - 1)
  <2>1. Before(S, R, x) \in SUBSET S /\ x \notin Before(S, R, x)
    BY DEF Before, IsOrder
  <2>2. Cardinality(Before(S, R, x)) <= Cardinality(S)
        /\ Cardinality(Before(S, R, x)) # Cardinality(S)
    BY <2>1, FS_Subset
  <2> QED
    BY <1>1, <1>2, <2>2
<1>4. ASSUME NEW x \in S, NEW y \in S, <<x, y>> \in R
      PROVE  Cardinality(Before(S, R, x)) < Cardinality(Before(S, R, y))
  <2>1. Before(S, R, x) \in SUBSET Before(S, R, y)
    BY <1>4 DEF Before, IsOrder
  <2>2. x \in Before(S, R, y) /\ x \notin Before(S, R, x)
    BY <1>4 DEF Before, IsOrder
  <2>3. Cardinality(Before(S, R, x)) <= Cardinality(Before(S, R, y))
        /\ Cardinality(Before(S, R, x)) # Cardinality(Before(S, R, y))
    BY <1>1, <2>1, <2>2, FS_Subset
  <2> QED
    BY <1>1, <2>3
<1>5. ASSUME NEW x \in S, NEW y \in S,
             Cardinality(Before(S, R, x)) < Cardinality(Before(S, R, y))
      PROVE  <<x, y>> \in R
  <2>1. x # y
    BY <1>1, <1>5
  <2>2. <<y, x>> \notin R
    BY <1>1, <1>4, <1>5
  <2> QED
    BY <2>1, <2>2 DEF IsOrder
<1>6. ASSUME NEW x \in S, NEW y \in S,
             Cardinality(Before(S, R, x)) = Cardinality(Before(S, R, y))
      PROVE  x = y
  <2>1. <<x, y>> \notin R /\ <<y, x>> \notin R
    BY <1>1, <1>4, <1>6
  <2> QED
    BY <2>1 DEF IsOrder
<1> QED
  BY <1>3, <1>4, <1>5, <1>6

\* InOrder lists what there is, each element once, as the relation orders it.
LEMMA InOrderLists ==
  ASSUME NEW S, IsFiniteSet(S), NEW R, IsOrder(S, R)
  PROVE  /\ Cardinality(S) \in Nat
         /\ InOrder(S, R) \in [1..Cardinality(S) -> S]
         /\ \A x \in S : \E n \in 1..Cardinality(S) : InOrder(S, R)[n] = x
         /\ \A m, n \in 1..Cardinality(S) :
              <<InOrder(S, R)[m], InOrder(S, R)[n]>> \in R <=> m < n
         /\ \A n \in 1..Cardinality(S) :
              Cardinality(Before(S, R, InOrder(S, R)[n])) = n - 1
<1> DEFINE N == Cardinality(S)
           r == [x \in S |-> Cardinality(Before(S, R, x)) + 1]
           o == InOrder(S, R)
<1>1. N \in Nat
  BY FS_CardinalityType
<1>2. \A x \in S : Cardinality(Before(S, R, x)) \in 0..(N - 1)
  BY BeforeCounts
<1>3. r \in [S -> 1..N]
  BY <1>1, <1>2
<1>4. \A x, y \in S : r[x] = r[y] => x = y
  <2>1. \A x, y \in S : Cardinality(Before(S, R, x)) = Cardinality(Before(S, R, y)) => x = y
    BY BeforeCounts
  <2> QED
    BY <1>1, <1>2, <2>1
<1>5. r \in Injection(S, 1..N)
  BY <1>3, <1>4 DEF Injection, IsInjective
<1>6. IsFiniteSet(1..N) /\ Cardinality(1..N) = N
  BY <1>1, FS_Interval
<1>7. r \in Surjection(S, 1..N)
  <2> HIDE DEF r
  <2> QED
    BY <1>5, <1>6, FS_Injection
<1>8. \A n \in 1..N : \E x \in S : r[x] = n
  <2> HIDE DEF r
  <2> QED
    BY <1>7 DEF Surjection
<1>9. \A n \in 1..N : \E x \in S : Cardinality(Before(S, R, x)) = n - 1
  BY <1>1, <1>2, <1>8
<1>10. o = [n \in 1..N |-> CHOOSE x \in S : Cardinality(Before(S, R, x)) = n - 1]
  BY DEF InOrder, Before
<1>11. \A n \in 1..N : o[n] \in S /\ Cardinality(Before(S, R, o[n])) = n - 1
  <2> TAKE n \in 1..N
  <2>1. o[n] = CHOOSE x \in S : Cardinality(Before(S, R, x)) = n - 1
    BY <1>10
  <2> HIDE DEF o
  <2> QED
    BY <1>9, <2>1
<1>12. o \in [1..N -> S]
  <2> HIDE DEF o
  <2> QED
    BY <1>10, <1>11
<1>13. ASSUME NEW x \in S
       PROVE  \E n \in 1..N : o[n] = x
  <2>1. r[x] \in 1..N /\ r[x] = Cardinality(Before(S, R, x)) + 1
    BY <1>3
  <2>2. Cardinality(Before(S, R, o[r[x]])) = r[x] - 1 /\ o[r[x]] \in S
    BY <1>11, <2>1
  <2>3. Cardinality(Before(S, R, o[r[x]])) = Cardinality(Before(S, R, x))
    BY <1>1, <1>2, <2>1, <2>2
  <2>4. o[r[x]] = x
    BY <2>2, <2>3, BeforeCounts
  <2> QED
    BY <2>1, <2>4
<1>14. ASSUME NEW m \in 1..N, NEW n \in 1..N
       PROVE  <<o[m], o[n]>> \in R <=> m < n
  <2>1. o[m] \in S /\ o[n] \in S /\ Cardinality(Before(S, R, o[m])) = m - 1
        /\ Cardinality(Before(S, R, o[n])) = n - 1
    BY <1>11
  <2>2. <<o[m], o[n]>> \in R
          <=> Cardinality(Before(S, R, o[m])) < Cardinality(Before(S, R, o[n]))
    BY <2>1, BeforeCounts
  <2> HIDE DEF o
  <2> QED
    BY <1>1, <2>1, <2>2
<1> QED
  BY <1>1, <1>11, <1>12, <1>13, <1>14

\* f lists S in the order R.
IsListing(S, R, n, f) ==
  /\ n \in Nat /\ f \in [1..n -> S]
  /\ \A x \in S : \E k \in 1..n : f[k] = x
  /\ \A j, k \in 1..n : j < k => <<f[j], f[k]>> \in R

\* It is the only list that does.
LEMMA InOrderIsOnly ==
  ASSUME NEW S, IsFiniteSet(S), NEW R, IsOrder(S, R), NEW n, NEW f, IsListing(S, R, n, f)
  PROVE  f = InOrder(S, R)
<1> /\ n \in Nat /\ f \in [1..n -> S]
    /\ \A x \in S : \E k \in 1..n : f[k] = x
    /\ \A j, k \in 1..n : j < k => <<f[j], f[k]>> \in R
  BY DEF IsListing
<1>1. \A j, k \in 1..n : f[j] = f[k] => j = k
  <2>1. \A j, k \in 1..n : j < k => f[j] # f[k]
    BY DEF IsOrder
  <2> QED
    BY <2>1
<1>2. n = Cardinality(S)
  <2>1. f \in Bijection(1..n, S)
    BY <1>1 DEF Bijection, Injection, Surjection, IsInjective
  <2> QED
    BY <2>1, FS_CountingElements DEF ExistsBijection
<1>3. ASSUME NEW k \in 1..n
      PROVE  Cardinality(Before(S, R, f[k])) = k - 1
  <2> DEFINE g == [j \in 1..(k - 1) |-> f[j]]
  <2>1. \A j \in 1..(k - 1) : j \in 1..n /\ j < k
    OBVIOUS
  <2>2. \A j \in 1..(k - 1) : f[j] \in Before(S, R, f[k])
    BY <2>1 DEF Before
  <2>3. ASSUME NEW x \in Before(S, R, f[k])
        PROVE  \E j \in 1..(k - 1) : f[j] = x
    <3>1. x \in S /\ <<x, f[k]>> \in R
      BY DEF Before
    <3>2. PICK j \in 1..n : f[j] = x
      BY <3>1
    <3>3. ~(k < j)
      BY <3>1, <3>2 DEF IsOrder
    <3>4. k # j
      BY <3>1, <3>2 DEF IsOrder
    <3> QED
      BY <3>2, <3>3, <3>4
  <2>4. g \in Bijection(1..(k - 1), Before(S, R, f[k]))
    BY <1>1, <2>1, <2>2, <2>3 DEF Bijection, Injection, Surjection, IsInjective
  <2>5. k - 1 \in Nat
    OBVIOUS
  <2> QED
    BY <2>4, <2>5, FS_CountingElements DEF ExistsBijection
<1>4. ASSUME NEW k \in 1..n
      PROVE  f[k] = InOrder(S, R)[k]
  <2>1. InOrder(S, R)[k] \in S /\ Cardinality(Before(S, R, InOrder(S, R)[k])) = k - 1
    BY <1>2, InOrderLists
  <2> QED
    BY <1>3, <2>1, BeforeCounts
<1>5. InOrder(S, R) \in [1..n -> S]
  BY <1>2, InOrderLists
<1> QED
  BY <1>4, <1>5

\* The numbers of a set in ascending order.
LEMMA AscendingLists ==
  ASSUME NEW S \in SUBSET Nat, IsFiniteSet(S)
  PROVE  /\ Cardinality(S) \in Nat
         /\ Ascending(S) \in [1..Cardinality(S) -> S]
         /\ \A x \in S : \E n \in 1..Cardinality(S) : Ascending(S)[n] = x
         /\ \A m, n \in 1..Cardinality(S) : m < n <=> Ascending(S)[m] < Ascending(S)[n]
<1> DEFINE R == {x \in S \X S : x[1] < x[2]}
<1>1. \A x, y \in S : <<x, y>> \in R <=> x < y
  OBVIOUS
<1>2. IsOrder(S, R)
  <2> HIDE DEF R
  <2> QED
    BY <1>1 DEF IsOrder
<1>3. Ascending(S) = InOrder(S, R)
  BY DEF Ascending
<1> HIDE DEF R
<1>4. /\ Cardinality(S) \in Nat
      /\ Ascending(S) \in [1..Cardinality(S) -> S]
      /\ \A x \in S : \E n \in 1..Cardinality(S) : Ascending(S)[n] = x
      /\ \A m, n \in 1..Cardinality(S) : <<Ascending(S)[m], Ascending(S)[n]>> \in R <=> m < n
  BY <1>2, <1>3, InOrderLists
<1> QED
  BY <1>1, <1>4

\* A list that lists the elements of S in ascending order is Ascending(S).
LEMMA AscendingIsOnly ==
  ASSUME NEW S \in SUBSET Nat, NEW n \in Nat, NEW f \in [1..n -> S],
         \A x \in S : \E k \in 1..n : f[k] = x,
         \A j, k \in 1..n : j < k => f[j] < f[k]
  PROVE  f = Ascending(S) /\ IsFiniteSet(S)
<1> DEFINE R == {x \in S \X S : x[1] < x[2]}
<1>1. \A x, y \in S : <<x, y>> \in R <=> x < y
  OBVIOUS
<1>2. IsOrder(S, R)
  <2> HIDE DEF R
  <2> QED
    BY <1>1 DEF IsOrder
<1>3. Ascending(S) = InOrder(S, R)
  BY DEF Ascending
<1>4. IsFiniteSet(S)
  <2>1. f \in Surjection(1..n, S)
    BY DEF Surjection
  <2>2. IsFiniteSet(1..n)
    BY FS_Interval
  <2> QED
    BY <2>1, <2>2, FS_Surjection
<1> HIDE DEF R
<1>5. \A j, k \in 1..n : j < k => <<f[j], f[k]>> \in R
  BY <1>1
<1>6. IsListing(S, R, n, f)
  BY <1>5 DEF IsListing
<1>7. f = InOrder(S, R)
  BY <1>2, <1>4, <1>6, InOrderIsOnly
<1> QED
  BY <1>3, <1>4, <1>7

-----------------------------------------------------------------------------
(* Arguments and operations *)

\* What data are made of.
Words == STRING \cup {"join"}

Kinds == {"slice", "join", "init", "send", "use"}

Arguments == [id : Nat, data : Seq(Words), isParameter : BOOLEAN]
Operations == [id : Nat, kind : Kinds, of : Seq(Nat), part : Seq(Words), want : Seq(Words)]

\* Every value has a number of its own.
IsNumbered(xs, ops) ==
  /\ \A j, k \in DOMAIN xs : xs[j].id = xs[k].id => j = k
  /\ \A j, k \in DOMAIN ops : ops[j].id = ops[k].id => j = k
  /\ \A j \in DOMAIN xs, k \in DOMAIN ops : xs[j].id # ops[k].id

\* Operations use arguments and the results of slices and joins before them.
IsBefore(xs, ops, id, k) ==
  \/ id \in IdsOf(xs)
  \/ \E j \in DOMAIN ops : j < k /\ ops[j].id = id /\ ops[j].kind \in {"slice", "join"}

IsFunction(xs, ops) ==
  /\ xs \in Seq(Arguments) /\ ops \in Seq(Operations)
  /\ IsNumbered(xs, ops)
  /\ \A k \in DOMAIN ops :
       /\ Len(ops[k].of) = IF ops[k].kind = "join" THEN 2 ELSE 1
       /\ \A i \in DOMAIN ops[k].of : IsBefore(xs, ops, ops[k].of[i], k)

\* What a function consists of, in the terms the leaves cite.
LEMMA FunctionParts ==
  ASSUME NEW xs, NEW ops, IsFunction(xs, ops)
  PROVE  /\ Len(xs) \in Nat /\ DOMAIN xs = 1..Len(xs)
         /\ Len(ops) \in Nat /\ DOMAIN ops = 1..Len(ops)
         /\ \A k \in DOMAIN xs : xs[k] \in Arguments
         /\ \A k \in DOMAIN ops : ops[k] \in Operations
<1> xs \in Seq(Arguments) /\ ops \in Seq(Operations)
  BY DEF IsFunction
<1>1. \A k \in DOMAIN xs : xs[k] \in Arguments
  BY LenProperties, ElementOfSeq
<1>2. \A k \in DOMAIN ops : ops[k] \in Operations
  BY LenProperties, ElementOfSeq
<1> QED
  BY <1>1, <1>2, LenProperties

\* An argument is found again at its place by its number, ...
LEMMA ArgumentParts ==
  ASSUME NEW xs, NEW ops, IsFunction(xs, ops), NEW k \in DOMAIN xs
  PROVE  /\ xs[k].id \in Nat /\ xs[k].data \in Seq(Words) /\ xs[k].isParameter \in BOOLEAN
         /\ xs[k].id \in IdsOf(xs) /\ xs[k].id \notin IdsOf(ops)
         /\ xs[k].id \in Values(xs, ops)
         /\ PlaceOf(xs, xs[k].id) = k
<1>1. xs[k] \in Arguments
  BY FunctionParts
<1>2. xs[k].id \in IdsOf(xs) /\ xs[k].id \notin IdsOf(ops)
  BY DEF IsFunction, IsNumbered, IdsOf
<1>3. PlaceOf(xs, xs[k].id) = k
  <2>1. \A j \in DOMAIN xs : xs[j].id = xs[k].id => j = k
    BY DEF IsFunction, IsNumbered
  <2> QED
    BY <2>1 DEF PlaceOf
<1> QED
  BY <1>1, <1>2, <1>3 DEF Arguments, Values

\* ... and so is an operation.
LEMMA OperationParts ==
  ASSUME NEW xs, NEW ops, IsFunction(xs, ops), NEW k \in DOMAIN ops
  PROVE  /\ k \in Nat /\ ops[k].id \in Nat /\ ops[k].kind \in Kinds
         /\ ops[k].of \in Seq(Nat) /\ ops[k].part \in Seq(Words) /\ ops[k].want \in Seq(Words)
         /\ ops[k].id \in IdsOf(ops) /\ ops[k].id \notin IdsOf(xs)
         /\ ops[k].id \in Values(xs, ops)
         /\ PlaceOf(ops, ops[k].id) = k
<1>1. ops[k] \in Operations
  BY FunctionParts
<1>4. k \in Nat
  <2>1. Len(ops) \in Nat /\ DOMAIN ops = 1..Len(ops)
    BY FunctionParts
  <2> QED
    BY <2>1
<1>2. ops[k].id \in IdsOf(ops) /\ ops[k].id \notin IdsOf(xs)
  BY DEF IsFunction, IsNumbered, IdsOf
<1>3. PlaceOf(ops, ops[k].id) = k
  <2>1. \A j \in DOMAIN ops : ops[j].id = ops[k].id => j = k
    BY DEF IsFunction, IsNumbered
  <2> QED
    BY <2>1 DEF PlaceOf
<1> QED
  BY <1>1, <1>2, <1>3, <1>4 DEF Operations, Values

\* The values rank as their operations follow one another, the arguments first.
RankOf(xs, ops) ==
  [id \in Values(xs, ops) |-> IF id \in IdsOf(xs) THEN 0 ELSE PlaceOf(ops, id)]

\* Only values of smaller rank go into a value.
LEMMA ValuesAreRanked ==
  ASSUME NEW xs, NEW ops, IsFunction(xs, ops)
  PROVE  IsRanking(Values(xs, ops), RankOf(xs, ops))
<1> DEFINE r == RankOf(xs, ops)
<1>1. \A id \in Values(xs, ops) : r[id] \in 0..Len(ops)
  <2> TAKE id \in Values(xs, ops)
  <2>1. Len(ops) \in Nat /\ DOMAIN ops = 1..Len(ops)
    BY FunctionParts
  <2>2. CASE id \in IdsOf(xs)
    BY <2>1, <2>2 DEF RankOf
  <2>3. CASE id \notin IdsOf(xs)
    <3>1. PICK k \in DOMAIN ops : ops[k].id = id
      BY <2>3 DEF Values, IdsOf
    <3>2. r[id] = k
      BY <2>3, <3>1, OperationParts DEF RankOf
    <3> QED
      BY <2>1, <3>2
  <2> QED
    BY <2>2, <2>3
<1>2. Len(ops) \in Nat
  BY FunctionParts
<1>3. DOMAIN r = Values(xs, ops) /\ r = [id \in Values(xs, ops) |-> r[id]]
  BY DEF RankOf
<1> HIDE DEF r
<1>4. Len(ops) + 1 \in Nat /\ \A id \in Values(xs, ops) : r[id] < Len(ops) + 1 /\ r[id] \in Nat
  <2> PICK n \in Nat : n = Len(ops)
    BY <1>2
  <2>1. ASSUME NEW id \in Values(xs, ops)
        PROVE  r[id] < n + 1 /\ r[id] \in Nat
    <3>1. r[id] \in 0..n
      BY <1>1
    <3> QED
      BY <3>1
  <2>2. n + 1 \in Nat
    OBVIOUS
  <2> QED
    BY <2>1, <2>2
<1>5. r \in [Values(xs, ops) -> Nat]
  BY <1>3, <1>4
<1> QED
  BY <1>4, <1>5 DEF IsRanking, r

\* What an operation uses is a value of less rank.
LEMMA OperandParts ==
  ASSUME NEW xs, NEW ops, IsFunction(xs, ops), NEW k \in DOMAIN ops
  PROVE  /\ DOMAIN ops[k].of = IF ops[k].kind = "join" THEN {1, 2} ELSE {1}
         /\ \A i \in DOMAIN ops[k].of :
              /\ ops[k].of[i] \in Nat
              /\ ops[k].of[i] \in Values(xs, ops)
              /\ RankOf(xs, ops)[ops[k].of[i]] < RankOf(xs, ops)[ops[k].id]
<1>1. ops[k].of \in Seq(Nat) /\ k \in Nat /\ k > 0
  <2>1. Len(ops) \in Nat /\ DOMAIN ops = 1..Len(ops)
    BY FunctionParts
  <2>2. ops[k].of \in Seq(Nat)
    BY OperationParts
  <2> QED
    BY <2>1, <2>2
<1>2. DOMAIN ops[k].of = 1..Len(ops[k].of) /\ ops[k].of \in [1..Len(ops[k].of) -> Nat]
  BY <1>1, LenProperties
<1>3. Len(ops[k].of) = IF ops[k].kind = "join" THEN 2 ELSE 1
  BY DEF IsFunction
<1>4. DOMAIN ops[k].of = IF ops[k].kind = "join" THEN {1, 2} ELSE {1}
  <2>1. 1..2 = {1, 2} /\ 1..1 = {1}
    OBVIOUS
  <2> QED
    BY <1>2, <1>3, <2>1
<1>5. RankOf(xs, ops)[ops[k].id] = k
  BY OperationParts DEF RankOf
<1>6. ASSUME NEW i \in DOMAIN ops[k].of
      PROVE  /\ ops[k].of[i] \in Values(xs, ops)
             /\ RankOf(xs, ops)[ops[k].of[i]] < k
  <2> DEFINE id == ops[k].of[i]
  <2>1. IsBefore(xs, ops, id, k)
    BY DEF IsFunction
  <2> HIDE DEF id
  <2>2. CASE id \in IdsOf(xs)
    BY <1>1, <2>2 DEF RankOf, Values, id
  <2>3. CASE \E j \in DOMAIN ops : j < k /\ ops[j].id = id
    <3>1. PICK j \in DOMAIN ops : j < k /\ ops[j].id = id
      BY <2>3
    <3>2. id \in Values(xs, ops) /\ id \notin IdsOf(xs) /\ PlaceOf(ops, id) = j
      BY <3>1, OperationParts
    <3> QED
      BY <3>1, <3>2 DEF RankOf, id
  <2> QED
    BY <2>1, <2>2, <2>3 DEF IsBefore
<1> QED
  BY <1>2, <1>4, <1>5, <1>6

-----------------------------------------------------------------------------
(* The data of values *)

\* Two functions agree on the values of less rank.
AgreeBelow(xs, ops, id, g, h) ==
  \A y \in Values(xs, ops) : RankOf(xs, ops)[y] < RankOf(xs, ops)[id] => g[y] = h[y]

\* The result of an operation is data, and depends on values of less rank alone.
AgreeAt(xs, ops, op, g, h) ==
  /\ IsFunction(xs, ops) /\ g \in [Values(xs, ops) -> Seq(Words)]
  /\ \E k \in DOMAIN ops : op = ops[k] /\ AgreeBelow(xs, ops, ops[k].id, g, h)

\* A result depends only on the data of values of smaller rank.
LEMMA ResultDepends ==
  ASSUME NEW xs, NEW ops, NEW op, NEW g, NEW h, AgreeAt(xs, ops, op, g, h)
  PROVE  Result(op, g) \in Seq(Words) /\ Result(op, g) = Result(op, h)
<1> IsFunction(xs, ops) /\ g \in [Values(xs, ops) -> Seq(Words)]
  BY DEF AgreeAt
<1> PICK k \in DOMAIN ops : op = ops[k] /\ AgreeBelow(xs, ops, ops[k].id, g, h)
  BY DEF AgreeAt
<1>1. /\ DOMAIN ops[k].of = IF ops[k].kind = "join" THEN {1, 2} ELSE {1}
      /\ \A i \in DOMAIN ops[k].of :
           /\ ops[k].of[i] \in Values(xs, ops)
           /\ RankOf(xs, ops)[ops[k].of[i]] < RankOf(xs, ops)[ops[k].id]
  BY OperandParts
<1>2. \A i \in DOMAIN ops[k].of :
        g[ops[k].of[i]] \in Seq(Words) /\ g[ops[k].of[i]] = h[ops[k].of[i]]
  BY <1>1 DEF AgreeBelow
<1>3. ops[k].part \in Seq(Words)
  BY OperationParts, SMTT(30)
<1>4. CASE ops[k].kind = "join"
  <2>1. 1 \in DOMAIN ops[k].of /\ 2 \in DOMAIN ops[k].of
    BY <1>1, <1>4
  <2> PICK x, y : x = g[ops[k].of[1]] /\ y = g[ops[k].of[2]]
    OBVIOUS
  <2>2. x \in Seq(Words) /\ y \in Seq(Words)
    BY <1>2, <2>1
  <2>6. <<"join">> \in Seq(Words)
    <3>1. "join" \in Words
      BY DEF Words
    <3>2. <<"join">> \in [1..1 -> Words]
      BY <3>1
    <3> QED
      BY <3>2, SeqDef
  <2>3. <<"join">> \o x \o y \in Seq(Words)
    BY <2>2, <2>6, ConcatProperties
  <2>4. x = h[ops[k].of[1]] /\ y = h[ops[k].of[2]]
    BY <1>2, <2>1
  <2>5. Result(ops[k], g) = <<"join">> \o x \o y /\ Result(ops[k], h) = <<"join">> \o x \o y
    BY <1>4, <2>4 DEF Result
  <2> QED
    BY <2>3, <2>5
<1>5. CASE ops[k].kind # "join"
  <2>1. 1 \in DOMAIN ops[k].of
    BY <1>1, <1>5
  <2> PICK x : x = g[ops[k].of[1]]
    OBVIOUS
  <2>2. x \in Seq(Words) /\ x = h[ops[k].of[1]]
    BY <1>2, <2>1
  <2>3. x \o ops[k].part \in Seq(Words)
    BY <1>3, <2>2, ConcatProperties
  <2>4. Result(ops[k], g) = x \o ops[k].part /\ Result(ops[k], h) = x \o ops[k].part
    BY <1>5, <2>2 DEF Result
  <2> QED
    BY <2>3, <2>4
<1> QED
  BY <1>4, <1>5

\* A value is that of an argument or the result of an operation.
LEMMA ValueIs ==
  ASSUME NEW xs, NEW ops, IsFunction(xs, ops), NEW id \in Values(xs, ops)
  PROVE  \/ /\ id \in IdsOf(xs)
            /\ \E k \in DOMAIN xs : xs[k].id = id /\ PlaceOf(xs, id) = k
         \/ /\ id \notin IdsOf(xs) /\ id \in IdsOf(ops)
            /\ \E k \in DOMAIN ops : ops[k].id = id /\ PlaceOf(ops, id) = k
<1>1. CASE id \in IdsOf(xs)
  <2>1. PICK k \in DOMAIN xs : xs[k].id = id
    BY <1>1 DEF IdsOf
  <2>2. PlaceOf(xs, id) = k
    BY <2>1, ArgumentParts
  <2> QED
    BY <1>1, <2>1, <2>2
<1>2. CASE id \notin IdsOf(xs)
  <2>1. PICK k \in DOMAIN ops : ops[k].id = id
    BY <1>2 DEF IdsOf, Values
  <2>2. PlaceOf(ops, id) = k /\ id \in IdsOf(ops)
    BY <2>1, OperationParts
  <2> QED
    BY <1>2, <2>1, <2>2
<1> QED
  BY <1>1, <1>2

\* d gives each argument its data, each operation its result.
IsDataOf(xs, ops, d) ==
  /\ \A k \in DOMAIN xs : d[xs[k].id] = xs[k].data
  /\ \A k \in DOMAIN ops : d[ops[k].id] = Result(ops[k], d)

\* There are such data, ...
LEMMA DataIs ==
  ASSUME NEW xs, NEW ops, IsFunction(xs, ops)
  PROVE  /\ DataOf(xs, ops) \in [Values(xs, ops) -> Seq(Words)]
         /\ IsDataOf(xs, ops, DataOf(xs, ops))
<1> DEFINE S == Values(xs, ops)
           V == Seq(Words)
           rank == RankOf(xs, ops)
           Def(g, id) == IF id \in IdsOf(xs) THEN xs[PlaceOf(xs, id)].data
                         ELSE Result(ops[PlaceOf(ops, id)], g)
           D == [g \in [S -> V] |-> [id \in S |-> Def(g, id)]]
<1>1. DataOf(xs, ops) = CHOOSE g : g = [id \in S |-> Def(g, id)]
  BY DEF DataOf
<1>2. ASSUME NEW g \in [S -> V], NEW h, NEW id \in S,
             AgreeBelow(xs, ops, id, g, h)
      PROVE  Def(g, id) \in V /\ Def(g, id) = Def(h, id)
  <2>1. CASE id \in IdsOf(xs)
    <3>1. PICK k \in DOMAIN xs : xs[k].id = id /\ PlaceOf(xs, id) = k
      BY <2>1, ValueIs
    <3> QED
      BY <2>1, <3>1, ArgumentParts
  <2>2. CASE id \notin IdsOf(xs)
    <3>1. PICK k \in DOMAIN ops : ops[k].id = id /\ PlaceOf(ops, id) = k
      BY <2>2, ValueIs
    <3>2. AgreeBelow(xs, ops, ops[k].id, g, h)
      BY <1>2, <3>1
    <3>3. Result(ops[k], g) \in Seq(Words) /\ Result(ops[k], g) = Result(ops[k], h)
      <4> PICK op : op = ops[k]
        OBVIOUS
      <4>1. AgreeAt(xs, ops, op, g, h)
        BY <3>1, <3>2 DEF AgreeAt
      <4>2. Result(op, g) \in Seq(Words) /\ Result(op, g) = Result(op, h)
        BY <4>1, ResultDepends
      <4> QED
        BY <4>2
    <3> QED
      BY <2>2, <3>1, <3>3
  <2> QED
    BY <2>1, <2>2
<1>3. \A g \in [S -> V] : \A id \in S : Def(g, id) \in V
  BY <1>2 DEF AgreeBelow
<1> HIDE DEF V, Def
<1>4. D \in [[S -> V] -> [S -> V]]
  BY <1>3
<1>5. \A g, h \in [S -> V] : \A x \in S :
        (\A y \in S : rank[y] < rank[x] => g[y] = h[y]) => D[g][x] = D[h][x]
  <2> TAKE g, h \in [S -> V]
  <2> TAKE x \in S
  <2> HAVE \A y \in S : rank[y] < rank[x] => g[y] = h[y]
  <2>1. AgreeBelow(xs, ops, x, g, h)
    BY DEF AgreeBelow
  <2>2. Def(g, x) = Def(h, x)
    BY <1>2, <2>1
  <2>3. D[g][x] = Def(g, x) /\ D[h][x] = Def(h, x)
    OBVIOUS
  <2> QED
    BY <2>2, <2>3
<1>6. \E g \in [S -> V] : g = D[g]
  <2>1. V # {}
    BY EmptySeq DEF V
  <2>2. IsRanking(S, rank)
    BY ValuesAreRanked
  <2>3. IsRecursion(S, V, rank, D)
    BY <1>4, <1>5 DEF IsRecursion
  <2> HIDE DEF D, S, rank
  <2> QED
    BY <2>1, <2>2, <2>3, RecursionSolves
<1>7. PICK f \in [S -> V] : f = [id \in S |-> Def(f, id)]
  BY <1>6
<1> DEFINE d == DataOf(xs, ops)
<1>8. d = [id \in S |-> Def(d, id)]
  BY <1>1, <1>7
<1> HIDE DEF d
<1>9. d = f
  <2>1. \A x \in S : d[x] = Def(d, x) /\ f[x] = Def(f, x)
    BY <1>7, <1>8
  <2>2. \A x \in S : (\A y \in S : rank[y] < rank[x] => f[y] = d[y]) => f[x] = d[x]
    BY <1>2, <2>1 DEF AgreeBelow
  <2>3. rank \in [S -> Nat]
    BY ValuesAreRanked DEF IsRanking
  <2>4. \A x \in S : f[x] = d[x]
    <3> HIDE DEF S, rank
    <3> QED
      BY <2>2, <2>3, RecursionIsUnique
  <2>5. DOMAIN d = S /\ d = [x \in S |-> d[x]]
    BY <1>8
  <2> QED
    BY <1>7, <2>4, <2>5
<1>10. d \in [S -> V] /\ \A id \in S : d[id] = Def(d, id)
  BY <1>8, <1>9
<1>11. ASSUME NEW k \in DOMAIN xs
       PROVE  d[xs[k].id] = xs[k].data
  <2>1. xs[k].id \in S /\ xs[k].id \in IdsOf(xs) /\ PlaceOf(xs, xs[k].id) = k
    BY ArgumentParts
  <2>2. d[xs[k].id] = Def(d, xs[k].id)
    BY <1>10, <2>1
  <2> QED
    BY <2>1, <2>2 DEF Def
<1>12. ASSUME NEW k \in DOMAIN ops
       PROVE  d[ops[k].id] = Result(ops[k], d)
  <2>1. ops[k].id \in S /\ ops[k].id \notin IdsOf(xs) /\ PlaceOf(ops, ops[k].id) = k
    BY OperationParts
  <2>2. d[ops[k].id] = Def(d, ops[k].id)
    BY <1>10, <2>1
  <2> QED
    BY <2>1, <2>2 DEF Def
<1> QED
  BY <1>10, <1>11, <1>12 DEF IsDataOf, d, V

\* ... and no others.
LEMMA DataIsOnly ==
  ASSUME NEW xs, NEW ops, IsFunction(xs, ops),
         NEW c, c \in [Values(xs, ops) -> Seq(Words)], IsDataOf(xs, ops, c)
  PROVE  c = DataOf(xs, ops)
<1> DEFINE S == Values(xs, ops)
           d == DataOf(xs, ops)
           rank == RankOf(xs, ops)
<1>1. d \in [S -> Seq(Words)] /\ IsDataOf(xs, ops, d)
  BY DataIs
<1>2. ASSUME NEW x \in S, AgreeBelow(xs, ops, x, c, d)
      PROVE  c[x] = d[x]
  <2>1. CASE x \in IdsOf(xs)
    <3>1. PICK k \in DOMAIN xs : xs[k].id = x
      BY <2>1 DEF IdsOf
    <3> HIDE DEF d
    <3> QED
      BY <1>1, <3>1 DEF IsDataOf
  <2>2. CASE x \notin IdsOf(xs)
    <3>1. PICK k \in DOMAIN ops : ops[k].id = x
      BY <2>2, ValueIs
    <3>3. AgreeBelow(xs, ops, ops[k].id, c, d)
      BY <1>2, <3>1
    <3>2. Result(ops[k], c) = Result(ops[k], d)
      <4> PICK op : op = ops[k]
        OBVIOUS
      <4>1. AgreeAt(xs, ops, op, c, d)
        BY <3>1, <3>3 DEF AgreeAt
      <4>2. Result(op, c) \in Seq(Words) /\ Result(op, c) = Result(op, d)
        BY <4>1, ResultDepends
      <4> QED
        BY <4>2
    <3> HIDE DEF d
    <3> QED
      BY <1>1, <3>1, <3>2 DEF IsDataOf
  <2> QED
    BY <2>1, <2>2
<1>3. rank \in [S -> Nat]
  BY ValuesAreRanked DEF IsRanking
<1>4. \A x \in S : (\A y \in S : rank[y] < rank[x] => c[y] = d[y]) => c[x] = d[x]
  BY <1>2 DEF AgreeBelow
<1>5. \A x \in S : c[x] = d[x]
  <2> PICK T, r, e : T = S /\ r = rank /\ e = d
    OBVIOUS
  <2>1. /\ r \in [T -> Nat]
        /\ \A x \in T : (\A y \in T : r[y] < r[x] => c[y] = e[y]) => c[x] = e[x]
    <3> HIDE DEF S, rank, d
    <3> QED
      BY <1>3, <1>4
  <2>2. \A x \in T : c[x] = e[x]
    BY ONLY <2>1, RecursionIsUnique
  <2> QED
    BY <2>2
<1> HIDE DEF d, S
<1>6. c = d
  <2>1. d \in [S -> Seq(Words)] /\ c \in [S -> Seq(Words)]
    BY <1>1 DEF S
  <2> QED
    BY <1>5, <2>1
<1> QED
  BY <1>6 DEF d

\* Each sink gets the data it should.
UsesKeep(xs, ops) ==
  \A k \in DOMAIN ops : ops[k].kind \in Sinks => DataOf(xs, ops)[ops[k].of[1]] = ops[k].want

\* The same operation, of operands with the same data.
IsLike(q, c, op, d) ==
  /\ q.id = op.id /\ q.kind = op.kind /\ q.part = op.part /\ q.want = op.want
  /\ DOMAIN q.of = DOMAIN op.of
  /\ \A i \in DOMAIN q.of : c[q.of[i]] = d[op.of[i]]

\* The operations qs, with c for data, are operations of ops.
Follows(xs, ops, ys, qs, c) ==
  /\ c \in [Values(ys, qs) -> Seq(Words)]
  /\ \A k \in DOMAIN ys : c[ys[k].id] = ys[k].data
  /\ \A k \in DOMAIN qs : \E j \in DOMAIN ops :
       /\ IsLike(qs[k], c, ops[j], DataOf(xs, ops))
       /\ c[qs[k].id] = DataOf(xs, ops)[ops[j].id]

\* Operations that are alike have the same result.
LEMMA LikeResults ==
  ASSUME NEW xs, NEW ops, IsFunction(xs, ops), NEW j \in DOMAIN ops, NEW q, NEW c, NEW d,
         IsLike(q, c, ops[j], d)
  PROVE  Result(q, c) = Result(ops[j], d) /\ c[q.of[1]] = d[ops[j].of[1]]
<1>1. DOMAIN ops[j].of = IF ops[j].kind = "join" THEN {1, 2} ELSE {1}
  BY OperandParts
<1>2. 1 \in DOMAIN q.of /\ (q.kind = "join" => 2 \in DOMAIN q.of)
  BY <1>1 DEF IsLike
<1>3. c[q.of[1]] = d[ops[j].of[1]] /\ (q.kind = "join" => c[q.of[2]] = d[ops[j].of[2]])
  BY <1>2 DEF IsLike
<1>4. q.kind = ops[j].kind /\ q.part = ops[j].part
  BY DEF IsLike
<1> QED
  BY <1>3, <1>4 DEF Result

\* What follows a function has its data, and keeps what its sinks get.
LEMMA FollowersKeepData ==
  ASSUME NEW xs, NEW ops, NEW ys, NEW qs, NEW c, IsFunction(xs, ops), IsFunction(ys, qs),
         Follows(xs, ops, ys, qs, c)
  PROVE  c = DataOf(ys, qs) /\ (UsesKeep(xs, ops) => UsesKeep(ys, qs))
<1> PICK d : d = DataOf(xs, ops)
  OBVIOUS
<1>1. IsDataOf(xs, ops, d)
  BY DataIs
<1>2. \A k \in DOMAIN qs : \E j \in DOMAIN ops :
        IsLike(qs[k], c, ops[j], d) /\ c[qs[k].id] = d[ops[j].id]
  BY DEF Follows
<1>3. ASSUME NEW k \in DOMAIN qs
      PROVE  c[qs[k].id] = Result(qs[k], c)
  <2>1. PICK j \in DOMAIN ops : IsLike(qs[k], c, ops[j], d) /\ c[qs[k].id] = d[ops[j].id]
    BY <1>2
  <2>2. Result(qs[k], c) = Result(ops[j], d)
    BY <2>1, LikeResults
  <2>3. d[ops[j].id] = Result(ops[j], d)
    BY <1>1 DEF IsDataOf
  <2> QED
    BY <2>1, <2>2, <2>3
<1>4. c = DataOf(ys, qs)
  <2>1. IsDataOf(ys, qs, c)
    BY <1>3 DEF IsDataOf, Follows
  <2>2. c \in [Values(ys, qs) -> Seq(Words)]
    BY DEF Follows
  <2> QED
    BY <2>1, <2>2, DataIsOnly
<1>5. ASSUME UsesKeep(xs, ops), NEW k \in DOMAIN qs, qs[k].kind \in Sinks
      PROVE  c[qs[k].of[1]] = qs[k].want
  <2>1. PICK j \in DOMAIN ops : IsLike(qs[k], c, ops[j], d)
    BY <1>2
  <2>2. ops[j].kind \in Sinks /\ qs[k].want = ops[j].want
    BY <1>5, <2>1 DEF IsLike
  <2>3. d[ops[j].of[1]] = ops[j].want
    BY <1>5, <2>2 DEF UsesKeep
  <2>4. c[qs[k].of[1]] = d[ops[j].of[1]]
    BY <2>1, LikeResults
  <2> QED
    BY <2>2, <2>3, <2>4
<1> QED
  BY <1>4, <1>5 DEF UsesKeep

\* Operations with other operands, among other arguments, where c are the data
\* of both.
Rebinds(xs, ops, ys, by, c) ==
  /\ ys \in Seq(Arguments)
  /\ \A j, k \in DOMAIN ys : ys[j].id = ys[k].id => j = k
  /\ \A j \in DOMAIN ys : ys[j].id \notin IdsOf(ops)
  /\ c \in [Values(ys, ops) -> Seq(Words)]
  /\ \A k \in DOMAIN ys : c[ys[k].id] = ys[k].data
  /\ \A id \in IdsOf(ops) : c[id] = DataOf(xs, ops)[id]
  /\ \A k \in DOMAIN ops : \A i \in DOMAIN ops[k].of :
       LET x == ops[k].of[i]
           y == IF x \in DOMAIN by THEN by[x] ELSE x
       IN y \in Nat /\ IsBefore(ys, ops, y, k) /\ c[y] = DataOf(xs, ops)[x]

\* What stands at a place after a substitution.
LEMMA SubstitutedIs ==
  ASSUME NEW ops \in Seq(Operations), NEW by
  PROVE  /\ DOMAIN Substituted(ops, by) = DOMAIN ops
         /\ \A k \in DOMAIN ops :
              LET q == Substituted(ops, by)[k]
              IN /\ q.id = ops[k].id /\ q.kind = ops[k].kind
                 /\ q.part = ops[k].part /\ q.want = ops[k].want
                 /\ q.of = [i \in DOMAIN ops[k].of |->
                              IF ops[k].of[i] \in DOMAIN by THEN by[ops[k].of[i]] ELSE ops[k].of[i]]
                 /\ q = [ops[k] EXCEPT !.of = q.of]
<1>1. DOMAIN Substituted(ops, by) = DOMAIN ops
  BY DEF Substituted
<1>2. ASSUME NEW k \in DOMAIN ops
      PROVE  LET q == Substituted(ops, by)[k]
             IN /\ q.id = ops[k].id /\ q.kind = ops[k].kind
                /\ q.part = ops[k].part /\ q.want = ops[k].want
                /\ q.of = [i \in DOMAIN ops[k].of |->
                             IF ops[k].of[i] \in DOMAIN by THEN by[ops[k].of[i]] ELSE ops[k].of[i]]
                /\ q = [ops[k] EXCEPT !.of = q.of]
  <2> PICK of : of = [i \in DOMAIN ops[k].of |->
                        IF ops[k].of[i] \in DOMAIN by THEN by[ops[k].of[i]] ELSE ops[k].of[i]]
    OBVIOUS
  <2>1. Substituted(ops, by)[k] = [ops[k] EXCEPT !.of = of]
    BY DEF Substituted
  <2>2. ops[k] \in Operations
    BY LenProperties, ElementOfSeq
  <2> QED
    BY <2>1, <2>2 DEF Operations
<1> QED
  BY <1>1, <1>2

\* A substitution (replaceAllUsesWith) changes operands and nothing else.
LEMMA SubstitutedKeeps ==
  ASSUME NEW ops, ops \in Seq(Operations), NEW by, NEW qs, qs = Substituted(ops, by)
  PROVE  /\ DOMAIN qs = DOMAIN ops
         /\ \A k \in DOMAIN ops : /\ qs[k].id = ops[k].id /\ qs[k].kind = ops[k].kind
                                  /\ qs[k].part = ops[k].part /\ qs[k].want = ops[k].want
                                  /\ qs[k].of = [i \in DOMAIN ops[k].of |->
                                                  IF ops[k].of[i] \in DOMAIN by
                                                  THEN by[ops[k].of[i]] ELSE ops[k].of[i]]
<1>1. DOMAIN qs = DOMAIN ops
  BY SubstitutedIs
<1>2. ASSUME NEW k \in DOMAIN ops
      PROVE  /\ qs[k].id = ops[k].id /\ qs[k].kind = ops[k].kind
             /\ qs[k].part = ops[k].part /\ qs[k].want = ops[k].want
             /\ qs[k].of = [i \in DOMAIN ops[k].of |->
                             IF ops[k].of[i] \in DOMAIN by THEN by[ops[k].of[i]] ELSE ops[k].of[i]]
  <2> PICK op, q, of : /\ op = ops[k] /\ q = qs[k]
                       /\ of = [i \in DOMAIN ops[k].of |->
                                  IF ops[k].of[i] \in DOMAIN by THEN by[ops[k].of[i]] ELSE ops[k].of[i]]
    OBVIOUS
  <2>1. q = [op EXCEPT !.of = of]
    BY DEF Substituted
  <2>2. op \in Operations
    BY LenProperties, ElementOfSeq
  <2>3. q.id = op.id /\ q.kind = op.kind /\ q.part = op.part /\ q.want = op.want /\ q.of = of
    BY ONLY <2>1, <2>2 DEF Operations
  <2> QED
    BY <2>3
<1> QED
  BY <1>1, <1>2

\* A list whose elements are in a set.
LEMMA ListIsSeq ==
  ASSUME NEW S, NEW n \in Nat, NEW list, list = [k \in 1..n |-> list[k]],
         \A k \in 1..n : list[k] \in S
  PROVE  list \in Seq(S) /\ Len(list) = n /\ DOMAIN list = 1..n
<1>1. list \in [1..n -> S]
  OBVIOUS
<1>2. list \in Seq(S)
  BY <1>1, SeqDef
<1> QED
  BY <1>1, <1>2, LenProperties

\* If each operand is redirected to a value of the same data, all data stay.
LEMMA RebindingKeepsData ==
  ASSUME NEW xs, NEW ops, NEW ys, NEW by, NEW c, IsFunction(xs, ops),
         Rebinds(xs, ops, ys, by, c)
  PROVE  /\ IsFunction(ys, Substituted(ops, by))
         /\ IdsOf(Substituted(ops, by)) = IdsOf(ops)
         /\ c = DataOf(ys, Substituted(ops, by))
         /\ UsesKeep(xs, ops) => UsesKeep(ys, Substituted(ops, by))
<1> PICK qs : qs = Substituted(ops, by)
  OBVIOUS
<1> PICK d : d = DataOf(xs, ops)
  OBVIOUS
<1>1. ops \in Seq(Operations)
  BY DEF IsFunction
<1>2. DOMAIN qs = DOMAIN ops
  BY <1>1, SubstitutedIs
<1> DEFINE Of(k) == [i \in DOMAIN ops[k].of |->
                       IF ops[k].of[i] \in DOMAIN by THEN by[ops[k].of[i]] ELSE ops[k].of[i]]
<1>3. ASSUME NEW k \in DOMAIN ops
      PROVE  /\ qs[k].id = ops[k].id /\ qs[k].kind = ops[k].kind
             /\ qs[k].part = ops[k].part /\ qs[k].want = ops[k].want
             /\ qs[k].of = Of(k) /\ qs[k] = [ops[k] EXCEPT !.of = qs[k].of]
  BY <1>1, SubstitutedIs
<1>4. ASSUME NEW k \in DOMAIN ops
      PROVE  /\ DOMAIN qs[k].of = DOMAIN ops[k].of
             /\ \A i \in DOMAIN ops[k].of :
                  /\ qs[k].of[i] \in Nat /\ IsBefore(ys, ops, qs[k].of[i], k)
                  /\ c[qs[k].of[i]] = d[ops[k].of[i]]
  <2>1. qs[k].of = Of(k)
    BY <1>3
  <2>2. ASSUME NEW i \in DOMAIN ops[k].of
        PROVE  /\ qs[k].of[i] \in Nat /\ IsBefore(ys, ops, qs[k].of[i], k)
               /\ c[qs[k].of[i]] = d[ops[k].of[i]]
    <3> DEFINE y == IF ops[k].of[i] \in DOMAIN by THEN by[ops[k].of[i]] ELSE ops[k].of[i]
    <3>1. qs[k].of[i] = y
      BY <2>1
    <3>2. y \in Nat /\ IsBefore(ys, ops, y, k) /\ c[y] = d[ops[k].of[i]]
      BY DEF Rebinds
    <3> HIDE DEF y
    <3> QED
      BY <3>1, <3>2
  <2> QED
    BY <2>1, <2>2
<1> HIDE DEF Of
<1>5. IdsOf(qs) = IdsOf(ops)
  BY <1>2, <1>3 DEF IdsOf
<1>6. \A id, k : IsBefore(ys, qs, id, k) <=> IsBefore(ys, ops, id, k)
  BY <1>2, <1>3 DEF IsBefore
<1>7. qs \in Seq(Operations)
  <2>1. Len(ops) \in Nat /\ DOMAIN ops = 1..Len(ops)
    BY <1>1, LenProperties
  <2>2. ASSUME NEW k \in DOMAIN ops
        PROVE  qs[k] \in Operations
    <3>1. ops[k] \in Operations
      BY <1>1, <2>1, ElementOfSeq
    <3>2. ops[k].of \in Seq(Nat)
      BY <3>1 DEF Operations
    <3>3. Len(ops[k].of) \in Nat /\ DOMAIN ops[k].of = 1..Len(ops[k].of)
      BY <3>2, LenProperties
    <3> PICK of : of = qs[k].of
      OBVIOUS
    <3>4. of = [i \in 1..Len(ops[k].of) |-> of[i]]
      BY <1>3, <3>3 DEF Of
    <3>5. of \in Seq(Nat)
      BY <1>4, <3>3, <3>4, ListIsSeq
    <3>6. qs[k] = [ops[k] EXCEPT !.of = of]
      BY <1>3
    <3> QED
      BY <3>1, <3>5, <3>6 DEF Operations
  <2>3. qs = [k \in 1..Len(ops) |-> qs[k]]
    BY <2>1 DEF Substituted
  <2> QED
    BY <2>1, <2>2, <2>3, ListIsSeq
<1>8. IsNumbered(ys, qs)
  <2>1. \A j, k \in DOMAIN qs : qs[j].id = qs[k].id => j = k
    BY <1>2, <1>3 DEF IsFunction, IsNumbered
  <2>2. \A j, k \in DOMAIN ys : ys[j].id = ys[k].id => j = k
    BY DEF Rebinds
  <2>3. \A j \in DOMAIN ys, k \in DOMAIN qs : ys[j].id # qs[k].id
    <3> TAKE j \in DOMAIN ys, k \in DOMAIN qs
    <3>1. ys[j].id \notin IdsOf(qs)
      BY <1>5 DEF Rebinds
    <3>2. qs[k].id \in IdsOf(qs)
      BY DEF IdsOf
    <3> QED
      BY <3>1, <3>2
  <2> QED
    BY <2>1, <2>2, <2>3 DEF IsNumbered
<1>9. IsFunction(ys, qs)
  <2>1. ASSUME NEW k \in DOMAIN qs
        PROVE  /\ Len(qs[k].of) = IF qs[k].kind = "join" THEN 2 ELSE 1
               /\ \A i \in DOMAIN qs[k].of : IsBefore(ys, qs, qs[k].of[i], k)
    <3>1. Len(ops[k].of) = IF ops[k].kind = "join" THEN 2 ELSE 1
      BY <1>2 DEF IsFunction
    <3>2. qs[k] \in Operations /\ ops[k] \in Operations
      BY <1>1, <1>2, <1>7, LenProperties, ElementOfSeq
    <3>3. Len(qs[k].of) = Len(ops[k].of)
      <4>1. qs[k].of \in Seq(Nat) /\ ops[k].of \in Seq(Nat)
        BY <3>2 DEF Operations
      <4>2. DOMAIN qs[k].of = DOMAIN ops[k].of
        BY <1>2, <1>4
      <4> QED
        BY <4>1, <4>2, LenProperties
    <3> QED
      BY <1>2, <1>3, <1>4, <1>6, <3>1, <3>3
  <2>2. ys \in Seq(Arguments)
    BY DEF Rebinds
  <2> QED
    BY <1>7, <1>8, <2>1, <2>2 DEF IsFunction
<1>10. Follows(xs, ops, ys, qs, c)
  <2>1. c \in [Values(ys, qs) -> Seq(Words)]
    BY <1>5 DEF Rebinds, Values
  <2>2. ASSUME NEW k \in DOMAIN qs
        PROVE  IsLike(qs[k], c, ops[k], d) /\ c[qs[k].id] = d[ops[k].id]
    <3>1. IsLike(qs[k], c, ops[k], d)
      BY <1>2, <1>3, <1>4 DEF IsLike
    <3>2. qs[k].id = ops[k].id /\ ops[k].id \in IdsOf(ops)
      BY <1>2, <1>3 DEF IdsOf
    <3> QED
      BY <3>1, <3>2 DEF Rebinds
  <2> QED
    BY <1>2, <2>1, <2>2 DEF Follows, Rebinds
<1> QED
  BY <1>5, <1>9, <1>10, FollowersKeepData

\* Each element of kept is the one of list at its place in o: the places are
\* those given, each once, in ascending order.
Selects(o, kept, list, places) ==
  /\ \A k \in DOMAIN kept : o[k] \in places /\ kept[k] = list[o[k]]
  /\ \A x \in places : \E k \in DOMAIN kept : o[k] = x
  /\ \A j, k \in DOMAIN kept : j < k <=> o[j] < o[k]

\* Kept selects the given places of a list in ascending order.
LEMMA KeptIs ==
  ASSUME NEW S, NEW list, list \in Seq(S), NEW places, places \subseteq DOMAIN list
  PROVE  Kept(list, places) \in Seq(S) /\ \E o : Selects(o, Kept(list, places), list, places)
<1>1. Len(list) \in Nat /\ DOMAIN list = 1..Len(list) /\ \A k \in DOMAIN list : list[k] \in S
  BY LenProperties, ElementOfSeq
<1>2. places \in SUBSET Nat /\ IsFiniteSet(places)
  <2>1. IsFiniteSet(1..Len(list))
    BY <1>1, FS_Interval
  <2>2. places \in SUBSET Nat
    BY <1>1
  <2> QED
    BY <1>1, <2>1, <2>2, FS_Subset
<1> PICK c, o : c = Cardinality(places) /\ o = Ascending(places)
  OBVIOUS
<1>3. /\ c \in Nat /\ o \in [1..c -> places]
      /\ \A x \in places : \E k \in 1..c : o[k] = x
      /\ \A j, k \in 1..c : j < k <=> o[j] < o[k]
  BY <1>2, AscendingLists
<1>4. Kept(list, places) = [k \in 1..c |-> list[o[k]]]
  BY <1>3 DEF Kept
<1> PICK kept : kept = Kept(list, places)
  OBVIOUS
<1>5. DOMAIN kept = 1..c /\ kept = [k \in 1..c |-> kept[k]]
      /\ \A k \in 1..c : o[k] \in places /\ kept[k] = list[o[k]]
  BY <1>3, <1>4
<1>6. \A k \in 1..c : kept[k] \in S
  BY <1>1, <1>5
<1>7. kept \in Seq(S)
  BY ONLY <1>3, <1>5, <1>6, ListIsSeq
<1>8. Selects(o, kept, list, places)
  BY <1>3, <1>5 DEF Selects
<1> QED
  BY <1>7, <1>8

\* A part of the operations that has what it uses.
LEMMA KeepingOperations ==
  ASSUME NEW xs, NEW ops, IsFunction(xs, ops), NEW places, places \subseteq DOMAIN ops,
         \A k \in places : \A i \in DOMAIN ops[k].of :
           ops[k].of[i] \in IdsOf(xs) \/ \E j \in places : ops[j].id = ops[k].of[i]
  PROVE  /\ IsFunction(xs, Kept(ops, places))
         /\ IdsOf(Kept(ops, places)) = {ops[k].id : k \in places}
         /\ UsesKeep(xs, ops) => UsesKeep(xs, Kept(ops, places))
<1> PICK qs : qs = Kept(ops, places)
  OBVIOUS
<1>1. xs \in Seq(Arguments) /\ ops \in Seq(Operations)
  BY DEF IsFunction
<1>2. qs \in Seq(Operations) /\ \E o : Selects(o, qs, ops, places)
  BY <1>1, KeptIs
<1>3. PICK o : Selects(o, qs, ops, places)
  BY <1>2
<1>4. /\ \A k \in DOMAIN qs : o[k] \in places /\ o[k] \in DOMAIN ops /\ qs[k] = ops[o[k]]
      /\ \A x \in places : \E k \in DOMAIN qs : o[k] = x
      /\ \A j, k \in DOMAIN qs : j < k <=> o[j] < o[k]
  BY <1>3 DEF Selects
<1>5. IdsOf(qs) = {ops[k].id : k \in places}
  <2>1. ASSUME NEW id \in IdsOf(qs)
        PROVE  id \in {ops[k].id : k \in places}
    BY <1>4 DEF IdsOf
  <2>2. ASSUME NEW k \in places
        PROVE  ops[k].id \in IdsOf(qs)
    <3>1. PICK n \in DOMAIN qs : o[n] = k
      BY <1>4
    <3>2. qs[n].id = ops[k].id
      BY <1>4, <3>1
    <3> QED
      BY <3>2 DEF IdsOf
  <2> QED
    BY <2>1, <2>2
<1>6. IsNumbered(xs, qs)
  <2>1. \A j, k \in DOMAIN qs : qs[j].id = qs[k].id => j = k
    <3> TAKE j, k \in DOMAIN qs
    <3> HAVE qs[j].id = qs[k].id
    <3>1. o[j] = o[k]
      BY <1>4 DEF IsFunction, IsNumbered
    <3>2. DOMAIN qs = 1..Len(qs) /\ Len(qs) \in Nat /\ DOMAIN ops = 1..Len(ops) /\ Len(ops) \in Nat
      BY <1>1, <1>2, LenProperties
    <3>3. j \in Nat /\ k \in Nat /\ o[j] \in Nat
      BY <1>4, <3>2
    <3>4. ~(j < k) /\ ~(k < j)
      BY <1>4, <3>1, <3>3
    <3> QED
      BY <3>3, <3>4
  <2>2. \A j \in DOMAIN xs, k \in DOMAIN qs : xs[j].id # qs[k].id
    BY <1>4 DEF IsFunction, IsNumbered
  <2>3. \A j, k \in DOMAIN xs : xs[j].id = xs[k].id => j = k
    BY DEF IsFunction, IsNumbered
  <2> QED
    BY <2>1, <2>2, <2>3 DEF IsNumbered
<1>7. ASSUME NEW k \in DOMAIN qs, NEW i \in DOMAIN qs[k].of
      PROVE  IsBefore(xs, qs, qs[k].of[i], k)
  <2>1. qs[k] = ops[o[k]] /\ o[k] \in places /\ o[k] \in DOMAIN ops
    BY <1>4
  <2> PICK id : id = qs[k].of[i]
    OBVIOUS
  <2>2. id = ops[o[k]].of[i] /\ i \in DOMAIN ops[o[k]].of
    BY <2>1
  <2>3. IsBefore(xs, ops, id, o[k])
    BY <2>1, <2>2 DEF IsFunction
  <2>4. CASE id \in IdsOf(xs)
    BY <2>4 DEF IsBefore
  <2>5. CASE id \notin IdsOf(xs)
    <3>1. PICK j \in places : ops[j].id = id
      BY <2>1, <2>2, <2>5
    <3>2. PICK h \in DOMAIN ops : h < o[k] /\ ops[h].id = id /\ ops[h].kind \in {"slice", "join"}
      BY <2>3, <2>5 DEF IsBefore
    <3>3. j = h
      BY <3>1, <3>2 DEF IsFunction, IsNumbered
    <3>4. PICK n \in DOMAIN qs : o[n] = j
      BY <1>4
    <3>5. n < k /\ qs[n].id = id /\ qs[n].kind \in {"slice", "join"}
      BY <1>4, <3>2, <3>3, <3>4
    <3> QED
      BY <3>5 DEF IsBefore
  <2> QED
    BY <2>4, <2>5
<1>8. IsFunction(xs, qs)
  <2>1. \A k \in DOMAIN qs : Len(qs[k].of) = IF qs[k].kind = "join" THEN 2 ELSE 1
    <3> TAKE k \in DOMAIN qs
    <3>1. qs[k] = ops[o[k]] /\ o[k] \in DOMAIN ops
      BY <1>4
    <3>2. Len(ops[o[k]].of) = IF ops[o[k]].kind = "join" THEN 2 ELSE 1
      BY <3>1 DEF IsFunction
    <3> QED
      BY <3>1, <3>2
  <2> QED
    BY <1>1, <1>2, <1>6, <1>7, <2>1 DEF IsFunction
<1> PICK d : d = DataOf(xs, ops)
  OBVIOUS
<1>9. d \in [Values(xs, ops) -> Seq(Words)] /\ IsDataOf(xs, ops, d)
  BY DataIs
<1> PICK c : c = [id \in Values(xs, qs) |-> d[id]]
  OBVIOUS
<1>10. Values(xs, qs) \subseteq Values(xs, ops)
  BY <1>5 DEF Values, IdsOf
<1>11. c \in [Values(xs, qs) -> Seq(Words)] /\ \A id \in Values(xs, qs) : c[id] = d[id]
  BY <1>9, <1>10
<1>12. Follows(xs, ops, xs, qs, c)
  <2>1. \A k \in DOMAIN xs : c[xs[k].id] = xs[k].data
    BY <1>8, <1>9, <1>11, ArgumentParts DEF IsDataOf
  <2>2. ASSUME NEW k \in DOMAIN qs
        PROVE  IsLike(qs[k], c, ops[o[k]], d) /\ c[qs[k].id] = d[ops[o[k]].id]
    <3>1. qs[k] = ops[o[k]] /\ o[k] \in DOMAIN ops
      BY <1>4
    <3>2. qs[k].id \in Values(xs, qs) /\ \A i \in DOMAIN qs[k].of : qs[k].of[i] \in Values(xs, qs)
      BY <1>8, OperationParts, OperandParts
    <3> QED
      BY <1>11, <3>1, <3>2 DEF IsLike
  <2>3. \A k \in DOMAIN qs : \E j \in DOMAIN ops : IsLike(qs[k], c, ops[j], d) /\ c[qs[k].id] = d[ops[j].id]
    BY <1>4, <2>2
  <2> QED
    BY <1>11, <2>1, <2>3 DEF Follows
<1>13. UsesKeep(xs, ops) => UsesKeep(xs, qs)
  BY <1>8, <1>12, FollowersKeepData
<1> QED
  BY <1>5, <1>8, <1>13

\* The arguments without some that nothing uses.
LEMMA KeepingArguments ==
  ASSUME NEW xs, NEW ops, IsFunction(xs, ops), NEW places, places \subseteq DOMAIN xs,
         \A k \in DOMAIN ops : \A i \in DOMAIN ops[k].of : \A j \in DOMAIN xs \ places :
           ops[k].of[i] # xs[j].id
  PROVE  /\ IsFunction(Kept(xs, places), ops)
         /\ IdsOf(Kept(xs, places)) = {xs[k].id : k \in places}
         /\ UsesKeep(xs, ops) => UsesKeep(Kept(xs, places), ops)
         /\ \A id \in Values(Kept(xs, places), ops) :
              DataOf(Kept(xs, places), ops)[id] = DataOf(xs, ops)[id]
<1> PICK ys : ys = Kept(xs, places)
  OBVIOUS
<1>1. xs \in Seq(Arguments) /\ ops \in Seq(Operations)
  BY DEF IsFunction
<1>2. ys \in Seq(Arguments) /\ \E o : Selects(o, ys, xs, places)
  BY <1>1, KeptIs
<1>3. PICK o : Selects(o, ys, xs, places)
  BY <1>2
<1>4. /\ \A k \in DOMAIN ys : o[k] \in places /\ o[k] \in DOMAIN xs /\ ys[k] = xs[o[k]]
      /\ \A x \in places : \E k \in DOMAIN ys : o[k] = x
      /\ \A j, k \in DOMAIN ys : j < k <=> o[j] < o[k]
  BY <1>3 DEF Selects
<1>5. IdsOf(ys) = {xs[k].id : k \in places}
  <2>1. ASSUME NEW id \in IdsOf(ys)
        PROVE  id \in {xs[k].id : k \in places}
    BY <1>4 DEF IdsOf
  <2>2. ASSUME NEW k \in places
        PROVE  xs[k].id \in IdsOf(ys)
    <3>1. PICK n \in DOMAIN ys : o[n] = k
      BY <1>4
    <3>2. ys[n].id = xs[k].id
      BY <1>4, <3>1
    <3> QED
      BY <3>2 DEF IdsOf
  <2> QED
    BY <2>1, <2>2
<1>6. IsNumbered(ys, ops)
  <2>1. \A j, k \in DOMAIN ys : ys[j].id = ys[k].id => j = k
    <3> TAKE j, k \in DOMAIN ys
    <3> HAVE ys[j].id = ys[k].id
    <3>1. o[j] = o[k]
      BY <1>4 DEF IsFunction, IsNumbered
    <3>2. DOMAIN ys = 1..Len(ys) /\ Len(ys) \in Nat /\ DOMAIN xs = 1..Len(xs) /\ Len(xs) \in Nat
      BY <1>1, <1>2, LenProperties
    <3>3. j \in Nat /\ k \in Nat /\ o[j] \in Nat
      BY <1>4, <3>2
    <3>4. ~(j < k) /\ ~(k < j)
      BY <1>4, <3>1, <3>3
    <3> QED
      BY <3>3, <3>4
  <2>2. \A j \in DOMAIN ys, k \in DOMAIN ops : ys[j].id # ops[k].id
    BY <1>4 DEF IsFunction, IsNumbered
  <2>3. \A j, k \in DOMAIN ops : ops[j].id = ops[k].id => j = k
    BY DEF IsFunction, IsNumbered
  <2> QED
    BY <2>1, <2>2, <2>3 DEF IsNumbered
<1>7. ASSUME NEW k \in DOMAIN ops, NEW i \in DOMAIN ops[k].of
      PROVE  IsBefore(ys, ops, ops[k].of[i], k)
  <2> PICK id : id = ops[k].of[i]
    OBVIOUS
  <2>1. IsBefore(xs, ops, id, k)
    BY DEF IsFunction
  <2>2. CASE id \in IdsOf(xs)
    <3>1. PICK j \in DOMAIN xs : xs[j].id = id
      BY <2>2 DEF IdsOf
    <3>2. j \in places
      BY <3>1
    <3> QED
      BY <1>5, <3>1, <3>2 DEF IsBefore
  <2>3. CASE id \notin IdsOf(xs)
    BY <2>1, <2>3 DEF IsBefore
  <2> QED
    BY <2>2, <2>3
<1>8. IsFunction(ys, ops)
  BY <1>2, <1>6, <1>7 DEF IsFunction
<1> PICK d : d = DataOf(xs, ops)
  OBVIOUS
<1>9. d \in [Values(xs, ops) -> Seq(Words)] /\ IsDataOf(xs, ops, d)
  BY DataIs
<1> PICK c : c = [id \in Values(ys, ops) |-> d[id]]
  OBVIOUS
<1>10. Values(ys, ops) \subseteq Values(xs, ops)
  BY <1>5 DEF Values, IdsOf
<1>11. c \in [Values(ys, ops) -> Seq(Words)] /\ \A id \in Values(ys, ops) : c[id] = d[id]
  BY <1>9, <1>10
<1>12. Follows(xs, ops, ys, ops, c)
  <2>1. ASSUME NEW k \in DOMAIN ys
        PROVE  c[ys[k].id] = ys[k].data
    <3>1. ys[k].id \in Values(ys, ops)
      BY <1>8, ArgumentParts
    <3>2. ys[k] = xs[o[k]] /\ o[k] \in DOMAIN xs
      BY <1>4
    <3>3. d[xs[o[k]].id] = xs[o[k]].data
      BY <1>9, <3>2 DEF IsDataOf
    <3> QED
      BY <1>11, <3>1, <3>2, <3>3
  <2>2. ASSUME NEW k \in DOMAIN ops
        PROVE  IsLike(ops[k], c, ops[k], d) /\ c[ops[k].id] = d[ops[k].id]
    <3>2. ops[k].id \in Values(ys, ops) /\ \A i \in DOMAIN ops[k].of : ops[k].of[i] \in Values(ys, ops)
      BY <1>8, OperationParts, OperandParts
    <3> QED
      BY <1>11, <3>2 DEF IsLike
  <2> QED
    BY <1>11, <2>1, <2>2 DEF Follows
<1>13. c = DataOf(ys, ops) /\ (UsesKeep(xs, ops) => UsesKeep(ys, ops))
  BY <1>8, <1>12, FollowersKeepData
<1> QED
  BY <1>5, <1>8, <1>11, <1>13

\* A list with one more operation.
LEMMA AppendedIs ==
  ASSUME NEW ops, ops \in Seq(Operations), NEW op, op \in Operations, NEW n, n = Len(ops),
         NEW qs, qs = ops \o <<op>>
  PROVE  /\ n \in Nat /\ DOMAIN ops = 1..n
         /\ qs \in Seq(Operations) /\ Len(qs) = n + 1 /\ DOMAIN qs = 1..(n + 1)
         /\ qs[n + 1] = op /\ \A k \in 1..n : qs[k] = ops[k]
<1>1. n \in Nat /\ DOMAIN ops = 1..n
  BY LenProperties
<1>2. <<op>> \in Seq(Operations) /\ Len(<<op>>) = 1 /\ <<op>>[1] = op
  OBVIOUS
<1>3. /\ qs \in Seq(Operations) /\ Len(qs) = n + 1
      /\ \A i \in 1..(n + 1) : qs[i] = IF i <= n THEN ops[i] ELSE <<op>>[i - n]
  BY <1>1, <1>2, ConcatProperties
<1>4. DOMAIN qs = 1..(n + 1)
  BY <1>3, LenProperties
<1>5. qs[n + 1] = <<op>>[1]
  BY <1>1, <1>3
<1> QED
  BY <1>1, <1>2, <1>3, <1>4, <1>5

\* One more operation.
LEMMA AddingAnOperation ==
  ASSUME NEW xs, NEW ops, IsFunction(xs, ops), NEW op, op \in Operations,
         op.id \notin Values(xs, ops),
         Len(op.of) = IF op.kind = "join" THEN 2 ELSE 1,
         \A i \in DOMAIN op.of : IsBefore(xs, ops, op.of[i], Len(ops) + 1)
  PROVE  /\ IsFunction(xs, ops \o <<op>>)
         /\ IdsOf(ops \o <<op>>) = IdsOf(ops) \cup {op.id}
         /\ \A id \in Values(xs, ops) : DataOf(xs, ops \o <<op>>)[id] = DataOf(xs, ops)[id]
         /\ DataOf(xs, ops \o <<op>>)[op.id] = Result(op, DataOf(xs, ops))
<1> PICK qs, n : qs = ops \o <<op>> /\ n = Len(ops)
  OBVIOUS
<1>1. xs \in Seq(Arguments) /\ ops \in Seq(Operations) /\ n \in Nat /\ DOMAIN ops = 1..n
  BY FunctionParts DEF IsFunction
<1>2. qs \in Seq(Operations) /\ DOMAIN qs = 1..(n + 1) /\ qs[n + 1] = op
      /\ \A k \in 1..n : qs[k] = ops[k]
  BY ONLY <1>1, op \in Operations, n = Len(ops), qs = ops \o <<op>>, AppendedIs
<1>3. IdsOf(qs) = IdsOf(ops) \cup {op.id}
  <2>1. ASSUME NEW id \in IdsOf(qs)
        PROVE  id \in IdsOf(ops) \cup {op.id}
    <3>1. PICK k \in 1..(n + 1) : qs[k].id = id
      BY <1>2 DEF IdsOf
    <3>2. CASE k = n + 1
      BY <1>2, <3>1, <3>2
    <3>3. CASE k \in 1..n
      BY <1>1, <1>2, <3>1, <3>3 DEF IdsOf
    <3> QED
      BY <1>1, <3>2, <3>3
  <2>2. \A k \in DOMAIN ops : ops[k].id \in IdsOf(qs)
    BY <1>1, <1>2 DEF IdsOf
  <2>3. op.id \in IdsOf(qs)
    <3>1. n + 1 \in DOMAIN qs
      BY <1>1, <1>2
    <3> QED
      BY <1>2, <3>1 DEF IdsOf
  <2>4. IdsOf(ops) \subseteq IdsOf(qs)
    BY <2>2 DEF IdsOf
  <2> QED
    BY <2>1, <2>3, <2>4
<1>4. op.id \notin IdsOf(xs) /\ op.id \notin IdsOf(ops)
  BY DEF Values
<1>5. IsNumbered(xs, qs)
  <2>1. \A k \in 1..n : qs[k].id # op.id
    BY <1>1, <1>2, <1>4 DEF IdsOf
  <2>2. ASSUME NEW j \in DOMAIN qs, NEW k \in DOMAIN qs, qs[j].id = qs[k].id
        PROVE  j = k
    <3>1. CASE j \in 1..n /\ k \in 1..n
      BY <1>1, <1>2, <2>2, <3>1 DEF IsFunction, IsNumbered
    <3>2. CASE ~(j \in 1..n /\ k \in 1..n)
      BY <1>1, <1>2, <2>1, <2>2, <3>2
    <3> QED
      BY <3>1, <3>2
  <2>3. ASSUME NEW j \in DOMAIN xs, NEW k \in DOMAIN qs
        PROVE  xs[j].id # qs[k].id
    <3>1. xs[j].id \in IdsOf(xs) /\ xs[j].id \notin IdsOf(ops)
      BY ArgumentParts
    <3>2. qs[k].id \in IdsOf(ops) \cup {op.id}
      BY <1>3 DEF IdsOf
    <3> QED
      BY <1>4, <3>1, <3>2
  <2>4. \A j, k \in DOMAIN xs : xs[j].id = xs[k].id => j = k
    BY DEF IsFunction, IsNumbered
  <2> QED
    BY <2>2, <2>3, <2>4 DEF IsNumbered
<1>6. \A id : \A k \in 1..(n + 1) : IsBefore(xs, ops, id, k) => IsBefore(xs, qs, id, k)
  BY <1>1, <1>2 DEF IsBefore
<1>7. IsFunction(xs, qs)
  <2>1. ASSUME NEW k \in DOMAIN qs
        PROVE  /\ Len(qs[k].of) = IF qs[k].kind = "join" THEN 2 ELSE 1
               /\ \A i \in DOMAIN qs[k].of : IsBefore(xs, qs, qs[k].of[i], k)
    <3>1. CASE k \in 1..n
      <4>1. /\ Len(ops[k].of) = IF ops[k].kind = "join" THEN 2 ELSE 1
            /\ \A i \in DOMAIN ops[k].of : IsBefore(xs, ops, ops[k].of[i], k)
        BY <1>1, <3>1 DEF IsFunction
      <4>2. qs[k] = ops[k] /\ k \in 1..(n + 1)
        BY <1>1, <1>2, <3>1
      <4> QED
        BY <1>6, <4>1, <4>2
    <3>2. CASE k = n + 1
      <4>1. qs[k] = op
        BY <1>2, <3>2
      <4>2. k \in 1..(n + 1)
        BY <1>1, <3>2
      <4>3. \A i \in DOMAIN op.of : IsBefore(xs, ops, op.of[i], k)
        BY <3>2
      <4>4. \A i \in DOMAIN op.of : IsBefore(xs, qs, op.of[i], k)
        BY <1>6, <4>2, <4>3
      <4> QED
        BY <4>1, <4>4, Zenon
    <3>3. k \in 1..n \/ k = n + 1
      BY <1>1, <1>2
    <3> QED
      BY <3>1, <3>2, <3>3, Zenon
  <2> QED
    BY <1>1, <1>2, <1>5, <2>1 DEF IsFunction
<1> PICK d, e : d = DataOf(xs, ops) /\ e = DataOf(xs, qs)
  OBVIOUS
<1>8. d \in [Values(xs, ops) -> Seq(Words)] /\ IsDataOf(xs, ops, d)
  BY DataIs
<1>9. e \in [Values(xs, qs) -> Seq(Words)] /\ IsDataOf(xs, qs, e)
  BY <1>7, DataIs
<1>10. Values(xs, ops) \subseteq Values(xs, qs)
  BY <1>3 DEF Values
<1> PICK c : c = [id \in Values(xs, ops) |-> e[id]]
  OBVIOUS
<1>11. c \in [Values(xs, ops) -> Seq(Words)] /\ \A id \in Values(xs, ops) : c[id] = e[id]
  BY <1>9, <1>10
<1>12. c = d
  <2>1. \A k \in DOMAIN xs : c[xs[k].id] = xs[k].data
    BY <1>9, <1>11, ArgumentParts DEF IsDataOf
  <2>2. ASSUME NEW k \in DOMAIN ops
        PROVE  c[ops[k].id] = Result(ops[k], c)
    <3>1. ops[k].id \in Values(xs, ops) /\ \A i \in DOMAIN ops[k].of : ops[k].of[i] \in Values(xs, ops)
      BY OperationParts, OperandParts
    <3>2. IsLike(ops[k], e, ops[k], c)
      BY <1>11, <3>1 DEF IsLike
    <3>3. Result(ops[k], e) = Result(ops[k], c)
      BY <3>2, LikeResults
    <3>4. e[ops[k].id] = Result(ops[k], e)
      <4>1. qs[k] = ops[k] /\ k \in DOMAIN qs
        BY <1>1, <1>2
      <4> QED
        BY <1>9, <4>1 DEF IsDataOf
    <3> QED
      BY <1>11, <3>1, <3>3, <3>4
  <2>3. IsDataOf(xs, ops, c)
    BY <2>1, <2>2 DEF IsDataOf
  <2> QED
    BY <1>11, <2>3, DataIsOnly
<1>13. e[op.id] = Result(op, d)
  <2>1. n + 1 \in DOMAIN qs /\ qs[n + 1] = op
    BY <1>1, <1>2
  <2>2. e[op.id] = Result(op, e)
    BY <1>9, <2>1 DEF IsDataOf
  <2>3. \A i \in DOMAIN op.of : op.of[i] \in Values(xs, ops)
    BY DEF IsBefore, Values, IdsOf
  <2>4. IsLike(op, d, op, e)
    BY <1>11, <1>12, <2>3 DEF IsLike
  <2>5. Result(op, d) = Result(op, e)
    <3> PICK j : j = n + 1
      OBVIOUS
    <3>1. j \in DOMAIN qs /\ IsLike(op, d, qs[j], e)
      BY <2>1, <2>4
    <3>2. Result(op, d) = Result(qs[j], e)
      BY ONLY <1>7, <3>1, LikeResults
    <3> QED
      BY <2>1, <3>2
  <2> QED
    BY <2>2, <2>5
<1> QED
  BY <1>3, <1>7, <1>11, <1>12, <1>13

-----------------------------------------------------------------------------
(* Slices that are followed back *)

\* What the results of slices that take all are folded to.
LEMMA FoldsAre ==
  ASSUME NEW xs, NEW ops, IsFunction(xs, ops)
  PROVE  /\ Folds(xs, ops) \in [Values(xs, ops) -> Values(xs, ops)]
         /\ \A k \in DOMAIN xs : Folds(xs, ops)[xs[k].id] = xs[k].id
         /\ \A k \in DOMAIN ops :
              Folds(xs, ops)[ops[k].id] =
                IF ops[k].kind = "slice" /\ ops[k].part = <<>>
                THEN Folds(xs, ops)[ops[k].of[1]] ELSE ops[k].id
<1> DEFINE S == Values(xs, ops)
           rank == RankOf(xs, ops)
           IsFolded(id) == /\ id \in IdsOf(ops)
                           /\ ops[PlaceOf(ops, id)].kind = "slice"
                           /\ ops[PlaceOf(ops, id)].part = <<>>
           Def(g, id) == IF IsFolded(id) THEN g[ops[PlaceOf(ops, id)].of[1]] ELSE id
           D == [g \in [S -> S] |-> [id \in S |-> Def(g, id)]]
<1>1. Folds(xs, ops) = CHOOSE g : g = [id \in S |-> Def(g, id)]
  BY DEF Folds
<1>2. ASSUME NEW id \in S, IsFolded(id)
      PROVE  /\ ops[PlaceOf(ops, id)].of[1] \in S
             /\ rank[ops[PlaceOf(ops, id)].of[1]] < rank[id]
  <2>1. PICK k \in DOMAIN ops : ops[k].id = id
    BY <1>2 DEF IdsOf
  <2>2. PlaceOf(ops, id) = k
    BY <2>1, OperationParts
  <2>3. 1 \in DOMAIN ops[k].of
    BY OperandParts
  <2> QED
    BY <2>1, <2>2, <2>3, OperandParts
<1> HIDE DEF IsFolded
<1>3. ASSUME NEW g, NEW h, NEW id \in S, g \in [S -> S],
             \A y \in S : rank[y] < rank[id] => g[y] = h[y]
      PROVE  Def(g, id) \in S /\ Def(g, id) = Def(h, id)
  <2>1. CASE IsFolded(id)
    <3> PICK x : x = ops[PlaceOf(ops, id)].of[1]
      OBVIOUS
    <3>1. x \in S /\ rank[x] < rank[id]
      BY <1>2, <2>1
    <3>2. g[x] \in S /\ g[x] = h[x]
      BY <1>3, <3>1
    <3> QED
      BY <2>1, <3>2
  <2>2. CASE ~IsFolded(id)
    BY <2>2
  <2> QED
    BY <2>1, <2>2
<1>4. \A g \in [S -> S] : \A id \in S : Def(g, id) \in S
  BY <1>3
<1> HIDE DEF Def
<1>5. D \in [[S -> S] -> [S -> S]]
  BY <1>4
<1>6. \A g, h \in [S -> S] : \A x \in S :
        (\A y \in S : rank[y] < rank[x] => g[y] = h[y]) => D[g][x] = D[h][x]
  <2> TAKE g, h \in [S -> S]
  <2> TAKE x \in S
  <2> HAVE \A y \in S : rank[y] < rank[x] => g[y] = h[y]
  <2>1. Def(g, x) = Def(h, x)
    BY <1>3
  <2>2. D[g][x] = Def(g, x) /\ D[h][x] = Def(h, x)
    OBVIOUS
  <2> QED
    BY <2>1, <2>2
<1>7. \E g : g = [id \in S |-> Def(g, id)]
  <2>1. CASE S = {}
    <3>1. \A g : [id \in S |-> Def(g, id)] = [id \in {} |-> 0]
      BY <2>1
    <3> QED
      BY <3>1
  <2>2. CASE S # {}
    <3>1. IsRanking(S, rank)
      BY ValuesAreRanked
    <3>2. IsRecursion(S, S, rank, D)
      BY <1>5, <1>6 DEF IsRecursion
    <3>3. \E g \in [S -> S] : g = D[g]
      <4> HIDE DEF D, S, rank
      <4> QED
        BY <2>2, <3>1, <3>2, RecursionSolves
    <3>4. PICK g \in [S -> S] : g = D[g]
      BY <3>3
    <3>5. D[g] = [id \in S |-> Def(g, id)]
      OBVIOUS
    <3> HIDE DEF D, S
    <3> QED
      BY <3>4, <3>5
  <2> QED
    BY <2>1, <2>2
<1> PICK f : f = Folds(xs, ops)
  OBVIOUS
<1>8. f = [id \in S |-> Def(f, id)]
  <2> HIDE DEF S
  <2> QED
    BY <1>1, <1>7
<1>9. DOMAIN f = S /\ \A id \in S : f[id] = Def(f, id)
  BY <1>8
<1>10. \A id \in S : f[id] \in S
  <2> DEFINE T == {id \in S : f[id] \in S}
  <2>1. ASSUME NEW x \in S, \A y \in S : rank[y] < rank[x] => y \in T
        PROVE  x \in T
    <3>1. CASE IsFolded(x)
      <4> PICK y : y = ops[PlaceOf(ops, x)].of[1]
        OBVIOUS
      <4>1. y \in S /\ rank[y] < rank[x]
        BY <1>2, <3>1
      <4>2. f[y] \in S
        BY <2>1, <4>1
      <4>3. f[x] = f[y]
        BY <1>9, <3>1 DEF Def
      <4> QED
        BY <4>2, <4>3
    <3>2. CASE ~IsFolded(x)
      BY <1>9, <3>2 DEF Def
    <3> QED
      BY <3>1, <3>2
  <2>2. rank \in [S -> Nat]
    BY ValuesAreRanked DEF IsRanking
  <2>3. S \subseteq T
    <3> HIDE DEF S, T, rank
    <3> QED
      BY <2>1, <2>2, RankInduction
  <2> QED
    BY <2>3
<1>11. f \in [S -> S]
  <2>1. f = [id \in S |-> f[id]]
    BY <1>8, <1>9
  <2> QED
    BY <1>10, <2>1
<1>12. ASSUME NEW k \in DOMAIN xs
       PROVE  f[xs[k].id] = xs[k].id
  <2>1. xs[k].id \in S /\ xs[k].id \notin IdsOf(ops)
    BY ArgumentParts
  <2> QED
    BY <1>9, <2>1 DEF Def, IsFolded
<1>13. ASSUME NEW k \in DOMAIN ops
       PROVE  f[ops[k].id] = IF ops[k].kind = "slice" /\ ops[k].part = <<>>
                             THEN f[ops[k].of[1]] ELSE ops[k].id
  <2>1. ops[k].id \in S /\ ops[k].id \in IdsOf(ops) /\ PlaceOf(ops, ops[k].id) = k
    BY OperationParts
  <2>2. IsFolded(ops[k].id) <=> ops[k].kind = "slice" /\ ops[k].part = <<>>
    BY <2>1 DEF IsFolded
  <2>3. f[ops[k].id] = Def(f, ops[k].id)
    BY <1>9, <2>1
  <2> QED
    BY <2>1, <2>2, <2>3 DEF Def
<1> QED
  BY <1>11, <1>12, <1>13

\* They have the same data, and stand no later.
LEMMA FoldsKeepData ==
  ASSUME NEW xs, NEW ops, IsFunction(xs, ops)
  PROVE  \A id \in Values(xs, ops) :
           /\ Folds(xs, ops)[id] \in Values(xs, ops)
           /\ DataOf(xs, ops)[Folds(xs, ops)[id]] = DataOf(xs, ops)[id]
           /\ \A k \in Nat : IsBefore(xs, ops, id, k) => IsBefore(xs, ops, Folds(xs, ops)[id], k)
<1> PICK S, rank, f, d : S = Values(xs, ops) /\ rank = RankOf(xs, ops)
                         /\ f = Folds(xs, ops) /\ d = DataOf(xs, ops)
  OBVIOUS
<1>1. /\ f \in [S -> S]
      /\ \A k \in DOMAIN xs : f[xs[k].id] = xs[k].id
      /\ \A k \in DOMAIN ops :
           f[ops[k].id] = IF ops[k].kind = "slice" /\ ops[k].part = <<>>
                          THEN f[ops[k].of[1]] ELSE ops[k].id
  BY FoldsAre
<1>2. d \in [S -> Seq(Words)] /\ IsDataOf(xs, ops, d)
  BY DataIs
<1> DEFINE T == {id \in S : /\ d[f[id]] = d[id]
                            /\ \A k \in Nat : IsBefore(xs, ops, id, k) => IsBefore(xs, ops, f[id], k)}
<1>3. ASSUME NEW x \in S, \A y \in S : rank[y] < rank[x] => y \in T
      PROVE  x \in T
  <2>1. CASE f[x] = x
    BY <2>1
  <2>2. CASE f[x] # x
    <3>1. x \notin IdsOf(xs)
      BY <1>1, <2>2 DEF IdsOf
    <3>2. PICK j \in DOMAIN ops : ops[j].id = x
      BY <3>1, ValueIs
    <3>3. ops[j].kind = "slice" /\ ops[j].part = <<>> /\ f[x] = f[ops[j].of[1]]
      BY <1>1, <2>2, <3>2
    <3> PICK y : y = ops[j].of[1]
      OBVIOUS
    <3>4. 1 \in DOMAIN ops[j].of
      BY OperandParts
    <3>5. y \in S /\ rank[y] < rank[x]
      BY <3>2, <3>4, OperandParts
    <3>6. y \in T
      BY <1>3, <3>5
    <3>7. d[x] = d[y]
      <4>1. d[x] = Result(ops[j], d)
        BY <1>2, <3>2 DEF IsDataOf
      <4>2. Result(ops[j], d) = d[y] \o <<>>
        BY <3>3 DEF Result
      <4>3. d[y] \in Seq(Words)
        BY <1>2, <3>5
      <4>4. d[y] \o <<>> = d[y]
        BY <4>3, ConcatEmptySeq
      <4> QED
        BY <4>1, <4>2, <4>4
    <3>8. ASSUME NEW k \in Nat, IsBefore(xs, ops, x, k)
          PROVE  IsBefore(xs, ops, y, k)
      <4>1. PICK h \in DOMAIN ops : h < k /\ ops[h].id = x
        BY <3>1, <3>8 DEF IsBefore
      <4>2. h = j /\ j \in Nat
        BY <3>2, <4>1, OperationParts DEF IsFunction, IsNumbered
      <4>3. IsBefore(xs, ops, y, j)
        BY <3>4 DEF IsFunction
      <4>4. \A i \in DOMAIN ops : i \in Nat
        BY OperationParts
      <4> QED
        BY <4>1, <4>2, <4>3, <4>4 DEF IsBefore
    <3>9. d[f[y]] = d[y] /\ \A k \in Nat : IsBefore(xs, ops, y, k) => IsBefore(xs, ops, f[y], k)
      BY <3>6
    <3> QED
      BY <3>3, <3>7, <3>8, <3>9
  <2> QED
    BY <2>1, <2>2
<1>4. rank \in [S -> Nat]
  BY ValuesAreRanked DEF IsRanking
<1>5. S \subseteq T
  <2> HIDE DEF T
  <2> QED
    BY <1>3, <1>4, RankInduction
<1> QED
  BY <1>1, <1>5

Cuttings(xs, ops) == [of : Values(xs, ops), part : Seq(Words)]

\* f says what a value is a slice of, and the part.
IsDirect(xs, ops, f) ==
  /\ f \in [Values(xs, ops) -> Cuttings(xs, ops)]
  /\ \A k \in DOMAIN xs : f[xs[k].id] = [of |-> xs[k].id, part |-> <<>>]
  /\ \A k \in DOMAIN ops :
       f[ops[k].id] =
         IF ops[k].kind = "slice"
         THEN [of |-> f[ops[k].of[1]].of, part |-> f[ops[k].of[1]].part \o ops[k].part]
         ELSE [of |-> ops[k].id, part |-> <<>>]

\* Direct satisfies the equation it is defined by (createDirectStaticSlice).
LEMMA DirectIs ==
  ASSUME NEW xs, NEW ops, IsFunction(xs, ops)
  PROVE  IsDirect(xs, ops, Direct(xs, ops))
<1> DEFINE S == Values(xs, ops)
           V == Cuttings(xs, ops)
           rank == RankOf(xs, ops)
           IsSlice(id) == id \in IdsOf(ops) /\ ops[PlaceOf(ops, id)].kind = "slice"
           Def(g, id) == IF IsSlice(id)
                         THEN [of |-> g[ops[PlaceOf(ops, id)].of[1]].of,
                               part |-> g[ops[PlaceOf(ops, id)].of[1]].part \o ops[PlaceOf(ops, id)].part]
                         ELSE [of |-> id, part |-> <<>>]
           D == [g \in [S -> V] |-> [id \in S |-> Def(g, id)]]
<1>1. Direct(xs, ops) = CHOOSE g : g = [id \in S |-> Def(g, id)]
  BY DEF Direct
<1>2. ASSUME NEW id \in S, IsSlice(id)
      PROVE  /\ ops[PlaceOf(ops, id)].of[1] \in S
             /\ rank[ops[PlaceOf(ops, id)].of[1]] < rank[id]
             /\ ops[PlaceOf(ops, id)].part \in Seq(Words)
  <2>1. PICK k \in DOMAIN ops : ops[k].id = id
    BY <1>2 DEF IdsOf
  <2>2. PlaceOf(ops, id) = k
    BY <2>1, OperationParts
  <2>3. 1 \in DOMAIN ops[k].of
    BY OperandParts
  <2>4. ops[k].part \in Seq(Words)
    BY OperationParts
  <2> QED
    BY <2>1, <2>2, <2>3, <2>4, OperandParts
<1> HIDE DEF IsSlice
<1>3. ASSUME NEW g, NEW h, NEW id \in S, g \in [S -> V],
             \A y \in S : rank[y] < rank[id] => g[y] = h[y]
      PROVE  Def(g, id) \in V /\ Def(g, id) = Def(h, id)
  <2>1. CASE IsSlice(id)
    <3> PICK x, p : x = ops[PlaceOf(ops, id)].of[1] /\ p = ops[PlaceOf(ops, id)].part
      OBVIOUS
    <3>1. x \in S /\ rank[x] < rank[id] /\ p \in Seq(Words)
      BY <1>2, <2>1
    <3>2. g[x] \in V /\ g[x] = h[x]
      BY <1>3, <3>1
    <3>3. g[x].of \in S /\ g[x].part \in Seq(Words)
      BY <3>2 DEF Cuttings
    <3>4. g[x].part \o p \in Seq(Words)
      BY <3>1, <3>3, ConcatProperties
    <3>5. Def(g, id) = [of |-> g[x].of, part |-> g[x].part \o p]
          /\ Def(h, id) = [of |-> h[x].of, part |-> h[x].part \o p]
      BY <2>1
    <3> QED
      BY <3>2, <3>3, <3>4, <3>5, Zenon DEF Cuttings
  <2>2. CASE ~IsSlice(id)
    <3>1. Def(g, id) = [of |-> id, part |-> <<>>] /\ Def(h, id) = [of |-> id, part |-> <<>>]
      BY <2>2
    <3>2. <<>> \in Seq(Words)
      BY EmptySeq
    <3> QED
      BY <3>1, <3>2, Zenon DEF Cuttings
  <2> QED
    BY <2>1, <2>2, Zenon
<1>4. \A g \in [S -> V] : \A id \in S : Def(g, id) \in V
  BY <1>3, Zenon
<1> HIDE DEF Def, V
<1>5. D \in [[S -> V] -> [S -> V]]
  BY <1>4
<1>6. \A g, h \in [S -> V] : \A x \in S :
        (\A y \in S : rank[y] < rank[x] => g[y] = h[y]) => D[g][x] = D[h][x]
  <2> TAKE g, h \in [S -> V]
  <2> TAKE x \in S
  <2> HAVE \A y \in S : rank[y] < rank[x] => g[y] = h[y]
  <2>1. Def(g, x) = Def(h, x)
    BY <1>3
  <2>2. D[g][x] = Def(g, x) /\ D[h][x] = Def(h, x)
    OBVIOUS
  <2> QED
    BY <2>1, <2>2
<1>7. \E g : g = [id \in S |-> Def(g, id)]
  <2>1. CASE S = {}
    <3>1. \A g : [id \in S |-> Def(g, id)] = [id \in {} |-> 0]
      BY <2>1
    <3> QED
      BY <3>1
  <2>2. CASE S # {}
    <3>1. IsRanking(S, rank)
      BY ValuesAreRanked
    <3>2. IsRecursion(S, V, rank, D)
      BY <1>5, <1>6 DEF IsRecursion
    <3>6. V # {}
      <4>1. <<>> \in Seq(Words)
        BY EmptySeq
      <4> PICK x \in S : TRUE
        BY <2>2
      <4>2. [of |-> x, part |-> <<>>] \in V
        BY <4>1 DEF V, Cuttings
      <4> QED
        BY <4>2
    <3>3. \E g \in [S -> V] : g = D[g]
      <4> HIDE DEF D, S, rank
      <4> QED
        BY <3>6, <3>1, <3>2, RecursionSolves
    <3>4. PICK g \in [S -> V] : g = D[g]
      BY <3>3
    <3>5. D[g] = [id \in S |-> Def(g, id)]
      OBVIOUS
    <3> HIDE DEF D, S
    <3> QED
      BY <3>4, <3>5
  <2> QED
    BY <2>1, <2>2
<1> PICK f : f = Direct(xs, ops)
  OBVIOUS
<1>8. f = [id \in S |-> Def(f, id)]
  <2> HIDE DEF S
  <2> QED
    BY <1>1, <1>7
<1>9. DOMAIN f = S /\ \A id \in S : f[id] = Def(f, id)
  BY <1>8
<1>10. \A id \in S : f[id] \in V
  <2> DEFINE T == {id \in S : f[id] \in V}
  <2>1. ASSUME NEW x \in S, \A y \in S : rank[y] < rank[x] => y \in T
        PROVE  x \in T
    <3>1. CASE IsSlice(x)
      <4> PICK y, p : y = ops[PlaceOf(ops, x)].of[1] /\ p = ops[PlaceOf(ops, x)].part
        OBVIOUS
      <4>1. y \in S /\ rank[y] < rank[x] /\ p \in Seq(Words)
        BY <1>2, <3>1
      <4>2. f[y].of \in S /\ f[y].part \in Seq(Words)
        BY <2>1, <4>1 DEF V, Cuttings
      <4>3. f[y].part \o p \in Seq(Words)
        BY <4>1, <4>2, ConcatProperties, SMTT(30)
      <4>4. f[x] = [of |-> f[y].of, part |-> f[y].part \o p]
        BY <1>9, <3>1 DEF Def
      <4> PICK o, q : o = f[y].of /\ q = f[y].part \o p
        OBVIOUS
      <4>5. f[x] \in V
        <5>1. o \in S /\ q \in Seq(Words) /\ f[x] = [of |-> o, part |-> q]
          BY <4>2, <4>3, <4>4
        <5> QED
          BY ONLY <5>1 DEF V, Cuttings
      <4> QED
        BY <4>5
    <3>2. CASE ~IsSlice(x)
      <4>1. f[x] = [of |-> x, part |-> <<>>]
        BY <1>9, <3>2 DEF Def
      <4>2. <<>> \in Seq(Words)
        BY EmptySeq
      <4>3. f[x] \in V
        BY <4>1, <4>2 DEF V, Cuttings
      <4> QED
        BY <4>3
    <3> QED
      BY <3>1, <3>2
  <2>2. rank \in [S -> Nat]
    BY ValuesAreRanked DEF IsRanking
  <2>3. S \subseteq T
    <3> HIDE DEF S, T, rank
    <3> QED
      BY <2>1, <2>2, RankInduction
  <2> QED
    BY <2>3
<1>11. f \in [S -> V]
  <2>1. f = [id \in S |-> f[id]]
    BY <1>8, <1>9
  <2> QED
    BY <1>10, <2>1
<1>12. ASSUME NEW k \in DOMAIN xs
       PROVE  f[xs[k].id] = [of |-> xs[k].id, part |-> <<>>]
  <2>1. xs[k].id \in S /\ xs[k].id \notin IdsOf(ops)
    BY ArgumentParts
  <2> QED
    BY <1>9, <2>1 DEF Def, IsSlice
<1>13. ASSUME NEW k \in DOMAIN ops
       PROVE  f[ops[k].id] = IF ops[k].kind = "slice"
                             THEN [of |-> f[ops[k].of[1]].of, part |-> f[ops[k].of[1]].part \o ops[k].part]
                             ELSE [of |-> ops[k].id, part |-> <<>>]
  <2>1. ops[k].id \in S /\ ops[k].id \in IdsOf(ops) /\ PlaceOf(ops, ops[k].id) = k
    BY OperationParts
  <2>2. IsSlice(ops[k].id) <=> ops[k].kind = "slice"
    BY <2>1 DEF IsSlice
  <2>3. f[ops[k].id] = Def(f, ops[k].id)
    BY <1>9, <2>1
  <2> QED
    BY <2>1, <2>2, <2>3 DEF Def
<1> QED
  BY <1>11, <1>12, <1>13 DEF V, IsDirect

\* The part of what it is a slice of is its data; a slice of it may stand where
\* one of the value may.
LEMMA DirectKeepsData ==
  ASSUME NEW xs, NEW ops, IsFunction(xs, ops)
  PROVE  \A id \in Values(xs, ops) :
           /\ Direct(xs, ops)[id].of \in Values(xs, ops)
           /\ Direct(xs, ops)[id].part \in Seq(Words)
           /\ DataOf(xs, ops)[Direct(xs, ops)[id].of] \o Direct(xs, ops)[id].part
                = DataOf(xs, ops)[id]
           /\ \A k \in Nat : IsBefore(xs, ops, id, k)
                               => IsBefore(xs, ops, Direct(xs, ops)[id].of, k)
<1> PICK S, rank, f, d : S = Values(xs, ops) /\ rank = RankOf(xs, ops)
                         /\ f = Direct(xs, ops) /\ d = DataOf(xs, ops)
  OBVIOUS
<1>1. /\ f \in [S -> Cuttings(xs, ops)]
      /\ \A k \in DOMAIN xs : f[xs[k].id] = [of |-> xs[k].id, part |-> <<>>]
      /\ \A k \in DOMAIN ops :
           f[ops[k].id] = IF ops[k].kind = "slice"
                          THEN [of |-> f[ops[k].of[1]].of, part |-> f[ops[k].of[1]].part \o ops[k].part]
                          ELSE [of |-> ops[k].id, part |-> <<>>]
  <2>1. IsDirect(xs, ops, f)
    BY DirectIs
  <2> QED
    BY <2>1 DEF IsDirect
<1>2. d \in [S -> Seq(Words)] /\ IsDataOf(xs, ops, d)
  BY DataIs
<1>3. \A id \in S : f[id].of \in S /\ f[id].part \in Seq(Words)
  BY <1>1 DEF Cuttings
<1> DEFINE T == {id \in S : /\ d[f[id].of] \o f[id].part = d[id]
                            /\ \A k \in Nat : IsBefore(xs, ops, id, k)
                                                => IsBefore(xs, ops, f[id].of, k)}
<1>4. ASSUME NEW x \in S, \A y \in S : rank[y] < rank[x] => y \in T
      PROVE  x \in T
  <2>1. CASE f[x] = [of |-> x, part |-> <<>>]
    <3>1. f[x].of = x /\ f[x].part = <<>> /\ d[x] \in Seq(Words)
      BY <1>2, <2>1
    <3>2. d[x] \o <<>> = d[x]
      BY <3>1, ConcatEmptySeq
    <3> QED
      BY <3>1, <3>2
  <2>2. CASE f[x] # [of |-> x, part |-> <<>>]
    <3>1. x \notin IdsOf(xs)
      BY <1>1, <2>2 DEF IdsOf
    <3>2. PICK j \in DOMAIN ops : ops[j].id = x
      BY <3>1, ValueIs
    <3> PICK y, p : y = ops[j].of[1] /\ p = ops[j].part
      OBVIOUS
    <3>3. ops[j].kind = "slice" /\ f[x] = [of |-> f[y].of, part |-> f[y].part \o p]
      BY <1>1, <2>2, <3>2
    <3>4. 1 \in DOMAIN ops[j].of
      BY OperandParts
    <3>5. y \in S /\ rank[y] < rank[x] /\ p \in Seq(Words)
      BY <3>2, <3>4, OperandParts, OperationParts
    <3>6. y \in T
      BY <1>4, <3>5
    <3>7. d[f[x].of] \o f[x].part = d[x]
      <4>1. d[x] = Result(ops[j], d)
        BY <1>2, <3>2 DEF IsDataOf
      <4>2. Result(ops[j], d) = d[y] \o p
        BY <3>3 DEF Result
      <4> PICK a, b : a = d[f[y].of] /\ b = f[y].part
        OBVIOUS
      <4>3. a \in Seq(Words) /\ b \in Seq(Words) /\ p \in Seq(Words)
        BY <1>2, <1>3, <3>5
      <4>4. (a \o b) \o p = a \o (b \o p)
        BY ONLY <4>3, ConcatAssociative, SMTT(30)
      <4>5. a \o b = d[y]
        BY <3>6
      <4>6. d[f[x].of] = a /\ f[x].part = b \o p
        <5> PICK o : o = f[y].of
          OBVIOUS
        <5>1. f[x] = [of |-> o, part |-> b \o p]
          BY <3>3
        <5>2. f[x].of = o /\ f[x].part = b \o p
          BY ONLY <5>1
        <5> QED
          BY <5>2
      <4> QED
        BY ONLY <4>1, <4>2, <4>4, <4>5, <4>6
    <3>8. ASSUME NEW k \in Nat, IsBefore(xs, ops, x, k)
          PROVE  IsBefore(xs, ops, y, k)
      <4>1. PICK h \in DOMAIN ops : h < k /\ ops[h].id = x
        BY <3>1, <3>8 DEF IsBefore
      <4>2. h = j /\ j \in Nat
        BY <3>2, <4>1, OperationParts DEF IsFunction, IsNumbered
      <4>3. IsBefore(xs, ops, y, j)
        BY <3>4 DEF IsFunction
      <4>4. \A i \in DOMAIN ops : i \in Nat
        BY OperationParts
      <4> QED
        BY <4>1, <4>2, <4>3, <4>4 DEF IsBefore
    <3>9. /\ \A k \in Nat : IsBefore(xs, ops, y, k) => IsBefore(xs, ops, f[y].of, k)
          /\ f[x].of = f[y].of
      <4> PICK o, b : o = f[y].of /\ b = f[y].part \o p
        OBVIOUS
      <4>1. f[x] = [of |-> o, part |-> b]
        BY <3>3, Zenon
      <4>2. f[x].of = o
        BY ONLY <4>1
      <4> QED
        BY <3>6, <4>2, Zenon
    <3> QED
      BY <3>7, <3>8, <3>9, Zenon
  <2> QED
    BY <2>1, <2>2
<1>5. rank \in [S -> Nat]
  BY ValuesAreRanked DEF IsRanking
<1>6. S \subseteq T
  <2> HIDE DEF T
  <2> QED
    BY <1>4, <1>5, RankInduction
<1> QED
  BY <1>3, <1>6

-----------------------------------------------------------------------------
(* The function as it comes *)

\* What the function as it comes takes as parts are data.
LEMMA StringsAreWords ==
  ASSUME NEW s, s \in Seq(STRING)
  PROVE  s \in Seq(Words)
<1>1. Len(s) \in Nat /\ DOMAIN s = 1..Len(s) /\ s = [k \in 1..Len(s) |-> s[k]]
      /\ \A k \in 1..Len(s) : s[k] \in STRING
  BY LenProperties, ElementOfSeq
<1>2. \A k \in 1..Len(s) : s[k] \in Words
  BY <1>1 DEF Words
<1> QED
  BY ONLY <1>1, <1>2, ListIsSeq

\* The arguments and operations as they come, from FuncsAssumption.
LEMMA GivenParts ==
  ASSUME func \in Funcs
  PROVE  /\ Len(func.args) \in Nat /\ DOMAIN func.args = 1..Len(func.args)
         /\ Len(func.body) \in Nat /\ DOMAIN func.body = 1..Len(func.body)
         /\ \A k \in DOMAIN func.args : func.args[k] \in STRING
         /\ \A k \in DOMAIN func.body :
              /\ func.body[k].kind \in {"slice", "join", "init", "send"}
              /\ func.body[k].of \in Seq(Nat)
              /\ Len(func.body[k].of) = IF func.body[k].kind = "join" THEN 2 ELSE 1
              /\ DOMAIN func.body[k].of = IF func.body[k].kind = "join" THEN {1, 2} ELSE {1}
              /\ \A j \in DOMAIN func.body[k].of :
                   /\ func.body[k].of[j] \in 1..(Len(func.args) + k - 1)
                   /\ func.body[k].of[j] > Len(func.args) =>
                        func.body[func.body[k].of[j] - Len(func.args)].kind \in {"slice", "join"}
              /\ func.body[k].part \in Seq(Words)
<1>1. /\ func.args \in Seq(STRING)
      /\ func.body \in Seq({func.body[k] : k \in DOMAIN func.body})
      /\ \A k \in DOMAIN func.body :
           /\ func.body[k].kind \in {"slice", "join", "init", "send"}
           /\ func.body[k].of \in Seq(1..(Len(func.args) + k - 1))
           /\ Len(func.body[k].of) = IF func.body[k].kind = "join" THEN 2 ELSE 1
           /\ \A j \in DOMAIN func.body[k].of :
                func.body[k].of[j] > Len(func.args) => func.body[func.body[k].of[j] - Len(func.args)].kind \in {"slice", "join"}
           /\ func.body[k].part \in Seq(STRING)
  BY FuncsAssumption DEF IsGiven
<1>2. Len(func.args) \in Nat /\ DOMAIN func.args = 1..Len(func.args) /\ \A k \in DOMAIN func.args : func.args[k] \in STRING
  BY <1>1, LenProperties, ElementOfSeq
<1>3. Len(func.body) \in Nat /\ DOMAIN func.body = 1..Len(func.body)
  BY <1>1, LenProperties
<1>4. ASSUME NEW k \in DOMAIN func.body
      PROVE  /\ func.body[k].of \in Seq(Nat)
             /\ DOMAIN func.body[k].of = IF func.body[k].kind = "join" THEN {1, 2} ELSE {1}
             /\ \A j \in DOMAIN func.body[k].of : func.body[k].of[j] \in 1..(Len(func.args) + k - 1)
             /\ func.body[k].part \in Seq(Words)
  <2> PICK of : of = func.body[k].of
    OBVIOUS
  <2>1. of \in Seq(1..(Len(func.args) + k - 1)) /\ k \in Nat
    BY <1>1, <1>3
  <2>2. Len(of) \in Nat /\ DOMAIN of = 1..Len(of) /\ of = [j \in 1..Len(of) |-> of[j]]
        /\ \A j \in 1..Len(of) : of[j] \in 1..(Len(func.args) + k - 1)
    BY ONLY <2>1, LenProperties, ElementOfSeq
  <2>3. \A j \in 1..Len(of) : of[j] \in Nat
    BY <2>2, <1>2, <2>1
  <2>4. of \in Seq(Nat)
    BY ONLY <2>2, <2>3, ListIsSeq
  <2>5. 1..2 = {1, 2} /\ 1..1 = {1}
    OBVIOUS
  <2>8. Len(of) = IF func.body[k].kind = "join" THEN 2 ELSE 1
    BY <1>1
  <2>6. DOMAIN of = IF func.body[k].kind = "join" THEN {1, 2} ELSE {1}
    BY ONLY <2>2, <2>5, <2>8
  <2>7. func.body[k].part \in Seq(Words)
    BY <1>1, StringsAreWords
  <2> QED
    BY <2>2, <2>4, <2>6, <2>7
<1> QED
  BY <1>1, <1>2, <1>3, <1>4

\* The function as it comes is one in the sense of IsFunction.
LEMMA GivenIsFunction ==
  ASSUME func \in Funcs
  PROVE  /\ IsFunction(GivenArgs, GivenOps)
         /\ IdsOf(GivenArgs) = 1..Len(func.args)
         /\ IdsOf(GivenOps) = (Len(func.args) + 1)..(Len(func.args) + Len(func.body))
<1> PICK xs, ops, n, m : xs = GivenArgs /\ ops = GivenOps
                         /\ n = Len(func.args) /\ m = Len(func.body)
  OBVIOUS
<1>1. n \in Nat /\ m \in Nat /\ DOMAIN func.args = 1..n /\ DOMAIN func.body = 1..m
  BY GivenParts
<1>2. /\ DOMAIN xs = 1..n /\ xs = [k \in 1..n |-> xs[k]]
      /\ \A k \in 1..n : xs[k] = [id |-> k, data |-> <<func.args[k]>>, isParameter |-> FALSE]
  BY <1>1 DEF GivenArgs
<1>3. /\ DOMAIN ops = 1..m /\ ops = [k \in 1..m |-> ops[k]]
      /\ \A k \in 1..m :
           ops[k] = [id |-> n + k, kind |-> func.body[k].kind, of |-> func.body[k].of,
                     part |-> func.body[k].part, want |-> <<>>]
  BY <1>1 DEF GivenOps
<1>4. \A k \in 1..n : xs[k].id = k /\ xs[k] \in Arguments
  <2> TAKE k \in 1..n
  <2>1. func.args[k] \in Words
    BY <1>1, GivenParts DEF Words
  <2> PICK s : s = func.args[k]
    OBVIOUS
  <2>2. <<s>> \in Seq(Words)
    <3>1. <<s>> \in [1..1 -> Words]
      BY <2>1
    <3> QED
      BY <3>1, SeqDef
  <2> QED
    <3> PICK r : r = <<s>>
      OBVIOUS
    <3>1. xs[k] = [id |-> k, data |-> r, isParameter |-> FALSE] /\ r \in Seq(Words) /\ k \in Nat
      BY <1>1, <1>2, <2>2
    <3> QED
      BY ONLY <3>1 DEF Arguments
<1>5. \A k \in 1..m :
        /\ ops[k].id = n + k /\ ops[k].kind = func.body[k].kind
        /\ ops[k].of = func.body[k].of
        /\ ops[k] \in Operations
  <2> TAKE k \in 1..m
  <2> PICK kind, of, part : kind = func.body[k].kind /\ of = func.body[k].of /\ part = func.body[k].part
    OBVIOUS
  <2>1. kind \in Kinds /\ of \in Seq(Nat) /\ part \in Seq(Words)
    BY <1>1, GivenParts DEF Kinds
  <2>2. <<>> \in Seq(Words)
    BY EmptySeq
  <2>3. ops[k] = [id |-> n + k, kind |-> kind, of |-> of, part |-> part, want |-> <<>>]
    BY <1>3
  <2>4. n + k \in Nat
    BY <1>1
  <2> QED
    BY <2>1, <2>2, <2>3, <2>4 DEF Operations
<1>6. xs \in Seq(Arguments)
  BY ONLY <1>1, <1>2, <1>4, ListIsSeq
<1>7. ops \in Seq(Operations)
  BY ONLY <1>1, <1>3, <1>5, ListIsSeq
<1>8. IdsOf(xs) = 1..n
  BY ONLY <1>2, <1>4 DEF IdsOf
<1>9. IdsOf(ops) = (n + 1)..(n + m)
  <2>1. \A id \in (n + 1)..(n + m) : id - n \in 1..m /\ id = n + (id - n)
    BY ONLY <1>1
  <2>2. \A k \in 1..m : n + k \in (n + 1)..(n + m)
    BY ONLY <1>1
  <2> QED
    BY ONLY <1>3, <1>5, <2>1, <2>2 DEF IdsOf
<1>10. IsNumbered(xs, ops)
  BY ONLY <1>1, <1>2, <1>3, <1>4, <1>5 DEF IsNumbered
<1>11. ASSUME NEW k \in 1..m
       PROVE  /\ Len(ops[k].of) = IF ops[k].kind = "join" THEN 2 ELSE 1
              /\ \A i \in DOMAIN ops[k].of : IsBefore(xs, ops, ops[k].of[i], k)
  <2>1. ASSUME NEW i \in DOMAIN ops[k].of
        PROVE  IsBefore(xs, ops, ops[k].of[i], k)
    <3> PICK id : id = func.body[k].of[i]
      OBVIOUS
    <3>1. id \in 1..(n + k - 1) /\ (id > n => func.body[id - n].kind \in {"slice", "join"})
      BY <1>1, <1>5, GivenParts
    <3>2. ops[k].of[i] = id
      BY <1>5
    <3>3. CASE id <= n
      BY <1>1, <1>8, <3>1, <3>2, <3>3 DEF IsBefore
    <3>4. CASE id > n
      <4>1. id - n \in 1..m /\ id - n < k /\ n + (id - n) = id
        BY ONLY <1>1, <3>1, <3>4, k \in 1..m
      <4> QED
        BY ONLY <1>3, <1>5, <3>1, <3>2, <3>4, <4>1 DEF IsBefore
    <3> QED
      BY <1>1, <3>1, <3>3, <3>4
  <2> QED
    <3>1. Len(func.body[k].of) = IF func.body[k].kind = "join" THEN 2 ELSE 1
      BY <1>1, GivenParts
    <3> QED
      BY ONLY <1>5, <2>1, <3>1, k \in 1..m
<1> QED
  BY <1>3, <1>6, <1>7, <1>8, <1>9, <1>10, <1>11 DEF IsFunction

-----------------------------------------------------------------------------
(* The invariant *)

SlotNames == {func.body[k].slot : k \in InitSends}

\* What each phase and round allow, and how far the loads are.
PhaseIs ==
  /\ func \in Funcs /\ lowered \in 0..Len(func.loads) /\ moved \in BOOLEAN
  /\ next \in Nat /\ next > 0
  /\ \/ phase = "annotate" /\ round = 0
     \/ phase \in {"lift", "erase", "reorder"} /\ round \in 1..3
     \/ phase \in {"lower", "undefined"} /\ round = 1
     \/ phase = "cleanup" /\ round = 2
     \/ phase = "done" /\ round = 3

\* The next number is not taken.
NumbersAreBelow == \A id \in Values(args, body) : id \in 1..(next - 1)

\* Until the tiles are lowered the operations stay where they are, and what is
\* sent is known.
SendsStay ==
  round \in {0, 1} =>
    \A k \in DOMAIN func.body :
      /\ k \in DOMAIN body
      /\ body[k].id = Len(func.args) + k /\ body[k].kind = func.body[k].kind
      /\ k \in InitSends => body[k].want = Meaning[func.body[k].of[1]]

\* Until then a slot has the value it was found to hold, or that value is no
\* more; and if the parameters keep their order, it is.
SlotHolds(s) ==
  /\ slots[s] \in 1..(next - 1)
  /\ slots[s] \in Values(args, body) =>
       /\ IsBefore(args, body, slots[s], Len(body) + 1)
       /\ Data[slots[s]] = SlotMeaning(s)
  /\ ~moved =>
       /\ slots[s] \in Values(args, body)
       /\ slots[s] \in ArgIds => body[SlotSend(s)].of[1] = slots[s]

SlotsHold ==
  /\ DOMAIN slots = SlotNames
  /\ round \in {0, 1} => \A s \in SlotNames : SlotHolds(s)

\* The arguments that are not parameters are the inputs in their order.
IsInput(k) == k \in DOMAIN func.args /\ k \notin Stored

HasInputs(xs) ==
  /\ \A k \in DOMAIN xs : ~xs[k].isParameter => IsInput(xs[k].id)
  /\ \A i \in DOMAIN func.args :
       IsInput(i) => \E k \in DOMAIN xs : ~xs[k].isParameter /\ xs[k].id = i
  /\ \A j, k \in DOMAIN xs :
       ~xs[j].isParameter /\ ~xs[k].isParameter /\ j < k => xs[j].id < xs[k].id

InputsStay == IF phase = "annotate" THEN args = GivenArgs ELSE HasInputs(args)

IInv ==
  /\ PhaseIs
  /\ IsFunction(args, body) /\ UsesKeep(args, body)
  /\ NumbersAreBelow
  /\ SendsStay
  /\ SlotsHold
  /\ InputsStay

\* A set of places of a list that is not empty has a last one.
LEMMA LastIs ==
  ASSUME NEW c \in Nat, NEW S \in SUBSET (1..c), S # {}
  PROVE  \E n \in S : \A j \in S : j <= n
<1>1. IsFiniteSet(S) /\ S \in SUBSET Nat
  <2>1. IsFiniteSet(1..c)
    BY FS_Interval
  <2>2. IsFiniteSet(S)
    BY ONLY <2>1, S \in SUBSET (1..c), FS_Subset
  <2>3. S \in SUBSET Nat
    OBVIOUS
  <2> QED
    BY <2>2, <2>3
<1> PICK m, f : m = Cardinality(S) /\ f = Ascending(S)
  OBVIOUS
<1>2. /\ m \in Nat /\ f \in [1..m -> S]
      /\ \A x \in S : \E n \in 1..m : f[n] = x
      /\ \A j, k \in 1..m : j < k <=> f[j] < f[k]
  BY <1>1, AscendingLists
<1>3. m \in 1..m
  <2>1. PICK n : n \in 1..m
    BY <1>2
  <2> QED
    BY ONLY <1>2, <2>1
<1>4. f[m] \in S
  BY <1>2, <1>3
<1>5. ASSUME NEW x \in S
      PROVE  x <= f[m]
  <2>0. x \in Nat /\ f[m] \in Nat
    BY <1>1, <1>4
  <2>1. PICK n \in 1..m : f[n] = x
    BY <1>2
  <2>2. CASE n = m
    BY ONLY <2>0, <2>1, <2>2
  <2>3. CASE n # m
    <3>1. n < m
      BY <1>2, <2>3
    <3>2. f[n] < f[m]
      BY <1>2, <1>3, <3>1
    <3> QED
      BY ONLY <2>0, <2>1, <3>2
  <2> QED
    BY <2>2, <2>3
<1> QED
  BY <1>4, <1>5

\* A send of the init region sends an argument or the result of a slice or join.
LEMMA SlotSendIs ==
  ASSUME func \in Funcs, NEW s, s \in SlotNames
  PROVE  /\ SlotSend(s) \in InitSends /\ func.body[SlotSend(s)].slot = s
         /\ SlotSend(s) \in DOMAIN func.body /\ func.body[SlotSend(s)].kind = "init"
         /\ 1 \in DOMAIN func.body[SlotSend(s)].of
         /\ func.body[SlotSend(s)].of[1] \in 1..(Len(func.args) + SlotSend(s) - 1)
<1> PICK k, S : k = SlotSend(s) /\ S = SendsTo(s)
  OBVIOUS
<1>1. k \in InitSends /\ func.body[k].slot = s
  <2>1. S # {} /\ S \subseteq DOMAIN func.body
    BY DEF SlotNames, SendsTo, InitSends
  <2>2. S \subseteq 1..Len(func.body) /\ Len(func.body) \in Nat
    BY <2>1, GivenParts
  <2>3. PICK last \in S : \A j \in S : j <= last
    BY <2>1, <2>2, LastIs
  <2>4. \E n \in S : \A j \in S : j <= n
    BY ONLY <2>3
  <2> QED
    BY <2>4 DEF SlotSend, SendsTo
<1>2. k \in DOMAIN func.body /\ func.body[k].kind = "init"
  BY <1>1 DEF InitSends
<1>3. 1 \in DOMAIN func.body[k].of
  BY <1>2, GivenParts
<1>4. func.body[k].of[1] \in 1..(Len(func.args) + k - 1)
  BY <1>2, <1>3, GivenParts
<1> QED
  BY <1>1, <1>2, <1>3, <1>4

\* The operations as they come, with what the sinks should get, have the same
\* data.
LEMMA WantingIs ==
  ASSUME Init
  PROVE  /\ func \in Funcs /\ DOMAIN body = DOMAIN func.body
         /\ IsFunction(args, body) /\ IdsOf(body) = IdsOf(GivenOps)
         /\ DataOf(args, body) = Meaning /\ UsesKeep(args, body)
         /\ \A k \in DOMAIN body :
              /\ body[k].id = Len(func.args) + k /\ body[k].kind = func.body[k].kind
              /\ body[k].of = func.body[k].of
              /\ k \in InitSends => body[k].want = Meaning[func.body[k].of[1]]
<1>0. func \in Funcs /\ args = GivenArgs
  BY DEF Init
<1> PICK xs, ops, qs, d : xs = GivenArgs /\ ops = GivenOps /\ qs = body /\ d = Meaning
  OBVIOUS
<1>1. IsFunction(xs, ops)
  BY <1>0, GivenIsFunction
<1>2. d \in [Values(xs, ops) -> Seq(Words)] /\ IsDataOf(xs, ops, d)
  BY <1>1, DataIs DEF Meaning
<1>3. DOMAIN ops = DOMAIN func.body
      /\ \A k \in DOMAIN ops : /\ ops[k].id = Len(func.args) + k
                               /\ ops[k].kind = func.body[k].kind /\ ops[k].of = func.body[k].of
                               /\ ops[k] \in Operations
  <2>1. DOMAIN ops = DOMAIN func.body
        /\ \A k \in DOMAIN ops :
             ops[k] = [id |-> Len(func.args) + k, kind |-> func.body[k].kind,
                       of |-> func.body[k].of, part |-> func.body[k].part, want |-> <<>>]
    BY DEF GivenOps
  <2>2. \A k \in DOMAIN ops : ops[k] \in Operations
    BY <1>1, FunctionParts
  <2>3. ASSUME NEW k \in DOMAIN ops
        PROVE  ops[k].id = Len(func.args) + k /\ ops[k].kind = func.body[k].kind
               /\ ops[k].of = func.body[k].of
    <3> PICK id, kind, of, part : id = Len(func.args) + k /\ kind = func.body[k].kind
                                  /\ of = func.body[k].of /\ part = func.body[k].part
      OBVIOUS
    <3>1. ops[k] = [id |-> id, kind |-> kind, of |-> of, part |-> part, want |-> <<>>]
      BY <2>1
    <3>2. ops[k].id = id /\ ops[k].kind = kind /\ ops[k].of = of
      BY ONLY <3>1
    <3> QED
      BY <3>2
  <2> QED
    BY <2>1, <2>2, <2>3
<1>4. /\ DOMAIN qs = DOMAIN ops /\ qs = [k \in DOMAIN ops |-> qs[k]]
      /\ \A k \in DOMAIN ops :
           qs[k] = IF ops[k].kind \in Sinks THEN [ops[k] EXCEPT !.want = d[ops[k].of[1]]]
                   ELSE ops[k]
  BY <1>3 DEF Init
<1>5. ASSUME NEW k \in DOMAIN ops
      PROVE  /\ qs[k].id = ops[k].id /\ qs[k].kind = ops[k].kind /\ qs[k].of = ops[k].of
             /\ qs[k].part = ops[k].part /\ qs[k] \in Operations
             /\ qs[k].kind \in Sinks => qs[k].want = d[qs[k].of[1]]
  <2> PICK op, w : op = ops[k] /\ w = d[ops[k].of[1]]
    OBVIOUS
  <2>1. op \in Operations
    BY <1>3
  <2>2. w \in Seq(Words)
    <3>1. 1 \in DOMAIN ops[k].of
      BY <1>1, OperandParts
    <3>2. ops[k].of[1] \in Values(xs, ops)
      BY <1>1, <3>1, OperandParts
    <3> QED
      BY <1>2, <3>2
  <2>3. qs[k] = IF op.kind \in Sinks THEN [op EXCEPT !.want = w] ELSE op
    BY <1>4
  <2>4. /\ qs[k].id = op.id /\ qs[k].kind = op.kind /\ qs[k].of = op.of
        /\ qs[k].part = op.part /\ qs[k] \in Operations
        /\ qs[k].kind \in Sinks => qs[k].want = w
    BY ONLY <2>1, <2>2, <2>3 DEF Operations
  <2> QED
    BY <2>4
<1>6. IdsOf(qs) = IdsOf(ops)
  BY <1>4, <1>5 DEF IdsOf
<1>7. IsFunction(xs, qs)
  <2>1. qs \in Seq(Operations)
    <3>1. Len(ops) \in Nat /\ DOMAIN ops = 1..Len(ops)
      BY <1>1, FunctionParts
    <3>2. \A k \in 1..Len(ops) : qs[k] \in Operations
      BY <1>5, <3>1
    <3> QED
      BY ONLY <1>4, <3>1, <3>2, ListIsSeq
  <2>2. xs \in Seq(Arguments) /\ IsNumbered(xs, qs)
    BY <1>1, <1>4, <1>5 DEF IsFunction, IsNumbered
  <2>3. ASSUME NEW k \in DOMAIN qs
        PROVE  /\ Len(qs[k].of) = IF qs[k].kind = "join" THEN 2 ELSE 1
               /\ \A i \in DOMAIN qs[k].of : IsBefore(xs, qs, qs[k].of[i], k)
    <3>1. /\ Len(ops[k].of) = IF ops[k].kind = "join" THEN 2 ELSE 1
          /\ \A i \in DOMAIN ops[k].of : IsBefore(xs, ops, ops[k].of[i], k)
      BY <1>1, <1>4 DEF IsFunction
    <3>2. \A id : IsBefore(xs, ops, id, k) => IsBefore(xs, qs, id, k)
      BY <1>4, <1>5 DEF IsBefore
    <3> QED
      BY <1>4, <1>5, <3>1, <3>2
  <2> QED
    BY <2>1, <2>2, <2>3 DEF IsFunction
<1>8. IsDataOf(xs, qs, d)
  <2>1. \A k \in DOMAIN qs : d[qs[k].id] = Result(qs[k], d)
    <3> TAKE k \in DOMAIN qs
    <3>1. d[ops[k].id] = Result(ops[k], d)
      BY <1>2, <1>4 DEF IsDataOf
    <3>2. Result(qs[k], d) = Result(ops[k], d)
      BY <1>4, <1>5 DEF Result
    <3> QED
      BY <1>4, <1>5, <3>1, <3>2
  <2> QED
    BY <1>2, <2>1 DEF IsDataOf
<1>9. d \in [Values(xs, qs) -> Seq(Words)]
  BY <1>2, <1>6 DEF Values
<1>10. d = DataOf(xs, qs)
  BY <1>7, <1>8, <1>9, DataIsOnly
<1>11. UsesKeep(xs, qs)
  BY <1>4, <1>5, <1>10 DEF UsesKeep
<1>12. ASSUME NEW k \in DOMAIN body
       PROVE  /\ body[k].id = Len(func.args) + k /\ body[k].kind = func.body[k].kind
              /\ body[k].of = func.body[k].of
              /\ k \in InitSends => body[k].want = Meaning[func.body[k].of[1]]
  <2>1. k \in DOMAIN ops
    BY <1>4
  <2>2. k \in InitSends => qs[k].kind \in Sinks
    BY <1>3, <1>5, <2>1 DEF InitSends, Sinks
  <2> QED
    BY <1>3, <1>5, <2>1, <2>2
<1> QED
  BY <1>0, <1>3, <1>4, <1>6, <1>7, <1>10, <1>11, <1>12

\* The invariant holds of the function as it comes (analyzeMapsProgram).
LEMMA InitKeeps ==
  ASSUME Init
  PROVE  IInv
<1>1. /\ func \in Funcs /\ DOMAIN body = DOMAIN func.body
      /\ IsFunction(args, body) /\ IdsOf(body) = IdsOf(GivenOps)
      /\ DataOf(args, body) = Meaning /\ UsesKeep(args, body)
      /\ \A k \in DOMAIN body :
           /\ body[k].id = Len(func.args) + k /\ body[k].kind = func.body[k].kind
           /\ body[k].of = func.body[k].of
           /\ k \in InitSends => body[k].want = Meaning[func.body[k].of[1]]
  BY WantingIs
<1> PICK n, m : n = Len(func.args) /\ m = Len(func.body)
  OBVIOUS
<1>2. n \in Nat /\ m \in Nat /\ DOMAIN func.body = 1..m /\ DOMAIN func.args = 1..n
  BY <1>1, GivenParts
<1>3. IdsOf(args) = 1..n /\ IdsOf(body) = (n + 1)..(n + m)
  BY <1>1, GivenIsFunction, Zenon DEF Init
<1>4. args = GivenArgs /\ phase = "annotate" /\ round = 0 /\ lowered = 0 /\ moved = FALSE
      /\ next = n + m + 1
      /\ slots = [s \in SlotNames |-> func.body[SlotSend(s)].of[1]]
  BY DEF Init, SlotNames
<1>5. PhaseIs
  <2>1. Len(func.loads) \in Nat
    BY <1>1, FuncsAssumption, LenProperties DEF IsGiven
  <2>2. lowered \in 0..Len(func.loads) /\ next \in Nat /\ next > 0
    BY ONLY <1>2, <1>4, <2>1
  <2> QED
    BY <1>1, <1>4, <2>2 DEF PhaseIs
<1>6. NumbersAreBelow
  <2>3. next = n + m + 1
    BY <1>4
  <2>1. \A id \in (1..n) \cup ((n + 1)..(n + m)) : id \in 1..(next - 1)
    BY ONLY <1>2, <2>3
  <2>2. Values(args, body) = (1..n) \cup ((n + 1)..(n + m))
    BY <1>3 DEF Values
  <2> QED
    BY ONLY <2>1, <2>2, Zenon DEF NumbersAreBelow
<1>7. SendsStay
  BY <1>1 DEF SendsStay
<1>8. ASSUME NEW s \in SlotNames
      PROVE  SlotHolds(s)
  <2> PICK k, id : k = SlotSend(s) /\ id = func.body[SlotSend(s)].of[1]
    OBVIOUS
  <2>1. k \in DOMAIN body /\ 1 \in DOMAIN body[k].of /\ body[k].of[1] = id /\ slots[s] = id
    BY <1>1, <1>4, SlotSendIs
  <2>2. id \in Values(args, body)
    BY <1>1, <2>1, OperandParts
  <2>3. IsBefore(args, body, id, Len(body) + 1)
    <3>1. IsBefore(args, body, id, k)
      BY <1>1, <2>1 DEF IsFunction
    <3>2. Len(body) \in Nat /\ DOMAIN body = 1..Len(body)
      BY <1>1, FunctionParts
    <3>3. \A j \in DOMAIN body : j < Len(body) + 1
      BY ONLY <3>2
    <3> QED
      BY <3>1, <3>3 DEF IsBefore
  <2>4. Data[id] = SlotMeaning(s)
    BY <1>1 DEF Data, SlotMeaning
  <2>5. id \in 1..(next - 1)
    BY <1>6, <2>2 DEF NumbersAreBelow
  <2> QED
    BY <2>1, <2>2, <2>3, <2>4, <2>5 DEF SlotHolds
<1>9. SlotsHold
  BY <1>4, <1>8 DEF SlotsHold
<1> QED
  BY <1>1, <1>4, <1>5, <1>6, <1>7, <1>9 DEF IInv, InputsStay

\* What is said of the function as it comes does not change.
LEMMA FuncStays ==
  ASSUME func' = func
  PROVE  /\ Meaning' = Meaning /\ GivenArgs' = GivenArgs
         /\ InitSends' = InitSends /\ SlotNames' = SlotNames
         /\ \A k : IsInput(k)' = IsInput(k)
         /\ \A s : SlotSend(s)' = SlotSend(s) /\ SlotMeaning(s)' = SlotMeaning(s)
<1>1. GivenArgs' = GivenArgs /\ GivenOps' = GivenOps /\ InitSends' = InitSends
  BY DEF GivenArgs, GivenOps, InitSends
<1>2. Meaning' = Meaning
  BY <1>1 DEF Meaning
<1>3. SlotNames' = SlotNames
  BY <1>1 DEF SlotNames
<1>4. Stored' = Stored
  <2>1. Root' = Root
    BY DEF Root
  <2> QED
    BY <1>1, <2>1 DEF Stored
<1>5. \A k : IsInput(k)' = IsInput(k)
  BY <1>4 DEF IsInput
<1>6. \A s : SlotSend(s)' = SlotSend(s)
  BY <1>1 DEF SlotSend, SendsTo
<1>7. \A s : SlotMeaning(s)' = SlotMeaning(s)
  BY <1>2, <1>6 DEF SlotMeaning
<1> QED
  BY <1>1, <1>2, <1>3, <1>5, <1>6, <1>7

\* Arguments with the same numbers and data are as good as others.
LEMMA RelabellingKeepsData ==
  ASSUME NEW xs, NEW ops, IsFunction(xs, ops), NEW ys, ys \in Seq(Arguments),
         DOMAIN ys = DOMAIN xs,
         \A k \in DOMAIN xs : ys[k].id = xs[k].id /\ ys[k].data = xs[k].data
  PROVE  /\ IsFunction(ys, ops) /\ IdsOf(ys) = IdsOf(xs)
         /\ DataOf(ys, ops) = DataOf(xs, ops)
         /\ UsesKeep(xs, ops) => UsesKeep(ys, ops)
<1> PICK d : d = DataOf(xs, ops)
  OBVIOUS
<1>1. d \in [Values(xs, ops) -> Seq(Words)] /\ IsDataOf(xs, ops, d)
  BY DataIs
<1>2. IdsOf(ys) = IdsOf(xs)
  BY DEF IdsOf
<1>3. IsFunction(ys, ops)
  <2>1. IsNumbered(ys, ops)
    BY DEF IsFunction, IsNumbered
  <2>2. \A k : \A id : IsBefore(xs, ops, id, k) => IsBefore(ys, ops, id, k)
    BY <1>2 DEF IsBefore
  <2> QED
    BY <2>1, <2>2 DEF IsFunction
<1>4. Follows(xs, ops, ys, ops, d)
  <2>1. Values(ys, ops) = Values(xs, ops)
    BY <1>2 DEF Values
  <2>2. \A k \in DOMAIN ops : IsLike(ops[k], d, ops[k], d)
    BY DEF IsLike
  <2>3. \A k \in DOMAIN ys : d[ys[k].id] = ys[k].data
    BY <1>1 DEF IsDataOf
  <2> QED
    BY <1>1, <2>1, <2>2, <2>3 DEF Follows
<1> QED
  BY <1>2, <1>3, <1>4, FollowersKeepData

\* Marking the parameters keeps it: what is not marked are the inputs.
LEMMA AnnotateKeeps ==
  ASSUME IInv, Annotate
  PROVE  IInv'
<1>1. /\ PhaseIs /\ IsFunction(args, body) /\ UsesKeep(args, body)
      /\ NumbersAreBelow /\ SendsStay /\ SlotsHold /\ args = GivenArgs
  BY DEF IInv, InputsStay, Annotate
<1>2. /\ func' = func /\ body' = body /\ slots' = slots /\ next' = next
      /\ lowered' = lowered /\ moved' = moved /\ phase' = "lift" /\ round' = 1
      /\ round = 0
  BY <1>1 DEF Annotate, PhaseIs
<1> PICK xs, ys : xs = args /\ ys = args'
  OBVIOUS
<1>3. Len(xs) \in Nat /\ DOMAIN xs = 1..Len(xs) /\ \A k \in DOMAIN xs : xs[k] \in Arguments
  BY <1>1, FunctionParts
<1>4. DOMAIN ys = DOMAIN xs /\ ys = [k \in 1..Len(xs) |-> ys[k]]
      /\ \A k \in DOMAIN xs : ys[k] = [xs[k] EXCEPT !.isParameter = (xs[k].id \in Stored)]
  BY <1>3 DEF Annotate
<1>5. ASSUME NEW k \in DOMAIN xs
      PROVE  /\ ys[k].id = xs[k].id /\ ys[k].data = xs[k].data
             /\ ys[k].isParameter <=> xs[k].id \in Stored
             /\ ys[k] \in Arguments
  <2> PICK b \in BOOLEAN : b <=> xs[k].id \in Stored
    OBVIOUS
  <2>1. ys[k] = [xs[k] EXCEPT !.isParameter = b]
    BY <1>4
  <2>2. xs[k] \in Arguments
    BY <1>3
  <2> PICK x, y : x = xs[k] /\ y = ys[k]
    OBVIOUS
  <2>3. y.id = x.id /\ y.data = x.data /\ y.isParameter = b /\ y \in Arguments
    BY ONLY <2>1, <2>2, x = xs[k], y = ys[k], b \in BOOLEAN DEF Arguments
  <2> QED
    BY <2>3
<1>6. ys \in Seq(Arguments)
  BY ONLY <1>3, <1>4, <1>5, ListIsSeq
<1>7. /\ IsFunction(ys, body) /\ IdsOf(ys) = IdsOf(xs)
      /\ DataOf(ys, body) = DataOf(xs, body) /\ UsesKeep(ys, body)
  BY <1>1, <1>4, <1>5, <1>6, RelabellingKeepsData
<1>8. /\ Meaning' = Meaning /\ InitSends' = InitSends /\ SlotNames' = SlotNames
      /\ \A k : IsInput(k)' = IsInput(k)
      /\ \A s : SlotSend(s)' = SlotSend(s) /\ SlotMeaning(s)' = SlotMeaning(s)
  BY <1>2, FuncStays
<1>9. PhaseIs'
  BY <1>1, <1>2 DEF PhaseIs
<1>10. NumbersAreBelow'
  BY <1>1, <1>2, <1>7 DEF NumbersAreBelow, Values
<1>11. SendsStay'
  BY <1>1, <1>2, <1>8 DEF SendsStay
<1>12. SlotsHold'
  <2>1. Data' = Data /\ ArgIds' = ArgIds /\ Values(args', body') = Values(args, body)
    BY <1>2, <1>7 DEF Data, ArgIds, Values
  <2>2. \A id, k : IsBefore(args', body', id, k) <=> IsBefore(args, body, id, k)
    BY <1>2, <1>7 DEF IsBefore
  <2>3. \A s \in SlotNames : SlotHolds(s)'
    BY <1>1, <1>2, <1>8, <2>1, <2>2 DEF SlotsHold, SlotHolds
  <2> QED
    BY <1>1, <1>2, <1>8, <2>3 DEF SlotsHold
<1>13. InputsStay'
  <2>1. DOMAIN xs = DOMAIN func.args /\ \A k \in DOMAIN xs : xs[k].id = k /\ k \in Nat
    BY <1>1, <1>3 DEF GivenArgs
  <2>2. \A k \in DOMAIN ys : ys[k].id = k /\ (~ys[k].isParameter <=> IsInput(k))
    BY <1>4, <1>5, <2>1 DEF IsInput
  <2>3. HasInputs(ys)
    <3>1. \A k \in DOMAIN ys : ~ys[k].isParameter => IsInput(ys[k].id)
      BY <2>2
    <3>2. \A i \in DOMAIN func.args :
            IsInput(i) => \E k \in DOMAIN ys : ~ys[k].isParameter /\ ys[k].id = i
      BY <1>4, <2>1, <2>2
    <3>3. \A j, k \in DOMAIN ys : j < k => ys[j].id < ys[k].id
      BY <2>2
    <3> QED
      BY <3>1, <3>2, <3>3 DEF HasInputs
  <2>4. HasInputs(args)'
    BY <1>2, <1>8, <2>3 DEF HasInputs
  <2> QED
    BY <1>2, <2>4 DEF InputsStay
<1> QED
  BY <1>2, <1>7, <1>9, <1>10, <1>11, <1>12, <1>13 DEF IInv

\* A part of the arguments with all inputs has them in their order.
LEMMA KeepingInputs ==
  ASSUME NEW xs, xs \in Seq(Arguments), HasInputs(xs), NEW places, places \subseteq DOMAIN xs,
         \A k \in DOMAIN xs : ~xs[k].isParameter => k \in places
  PROVE  HasInputs(Kept(xs, places))
<1> PICK ys : ys = Kept(xs, places)
  OBVIOUS
<1> PICK o : Selects(o, ys, xs, places)
  BY KeptIs
<1>1. /\ \A k \in DOMAIN ys : o[k] \in DOMAIN xs /\ ys[k] = xs[o[k]]
      /\ \A x \in places : \E k \in DOMAIN ys : o[k] = x
      /\ \A j, k \in DOMAIN ys : j < k => o[j] < o[k]
  BY DEF Selects
<1>2. \A k \in DOMAIN ys : ~ys[k].isParameter => IsInput(ys[k].id)
  BY <1>1 DEF HasInputs
<1>3. ASSUME NEW i \in DOMAIN func.args, IsInput(i)
      PROVE  \E k \in DOMAIN ys : ~ys[k].isParameter /\ ys[k].id = i
  <2>1. PICK j \in DOMAIN xs : ~xs[j].isParameter /\ xs[j].id = i
    BY <1>3 DEF HasInputs
  <2>2. PICK k \in DOMAIN ys : o[k] = j
    BY <1>1, <2>1
  <2> QED
    BY <1>1, <2>1, <2>2
<1>4. \A j, k \in DOMAIN ys :
        ~ys[j].isParameter /\ ~ys[k].isParameter /\ j < k => ys[j].id < ys[k].id
  BY <1>1 DEF HasInputs
<1> QED
  BY <1>2, <1>3, <1>4 DEF HasInputs

\* Erasing unused parameters (eraseUnusedParameterArgs) keeps the invariant.
LEMMA EraseKeeps ==
  ASSUME IInv, Erase
  PROVE  IInv'
<1>1. /\ PhaseIs /\ IsFunction(args, body) /\ UsesKeep(args, body)
      /\ NumbersAreBelow /\ SendsStay /\ SlotsHold /\ HasInputs(args)
  BY DEF IInv, InputsStay, Erase
<1>2. /\ func' = func /\ body' = body /\ slots' = slots /\ next' = next
      /\ lowered' = lowered /\ moved' = moved /\ phase' = "reorder" /\ round' = round
      /\ round \in 1..3
  BY <1>1 DEF Erase, PhaseIs
<1> PICK xs, ys, places : xs = args /\ ys = args'
                          /\ places = {k \in DOMAIN xs : ~IsErased(xs[k])}
  OBVIOUS
<1>3. ys = Kept(xs, places) /\ places \subseteq DOMAIN xs
  BY DEF Erase
<1>4. \A k \in DOMAIN xs : k \notin places =>
        /\ xs[k].isParameter
        /\ \A j \in DOMAIN body : \A i \in DOMAIN body[j].of : body[j].of[i] # xs[k].id
  BY DEF IsErased, UsersOf
<1>5. /\ IsFunction(ys, body) /\ IdsOf(ys) = {xs[k].id : k \in places}
      /\ UsesKeep(ys, body)
      /\ \A id \in Values(ys, body) : DataOf(ys, body)[id] = DataOf(xs, body)[id]
  <2>1. \A k \in DOMAIN body : \A i \in DOMAIN body[k].of : \A j \in DOMAIN xs \ places :
          body[k].of[i] # xs[j].id
    BY <1>4
  <2> QED
    BY <1>1, <1>3, <2>1, KeepingArguments
<1>6. /\ Meaning' = Meaning /\ InitSends' = InitSends /\ SlotNames' = SlotNames
      /\ \A k : IsInput(k)' = IsInput(k)
      /\ \A s : SlotSend(s)' = SlotSend(s) /\ SlotMeaning(s)' = SlotMeaning(s)
  BY <1>2, FuncStays
<1>7. PhaseIs'
  BY <1>1, <1>2 DEF PhaseIs
<1>8. IdsOf(ys) \subseteq IdsOf(xs)
  BY <1>3, <1>5 DEF IdsOf
<1>9. NumbersAreBelow'
  BY <1>1, <1>2, <1>8 DEF NumbersAreBelow, Values
<1>10. SendsStay'
  BY <1>1, <1>2, <1>6 DEF SendsStay
<1>11. ASSUME NEW s \in SlotNames, round = 1
       PROVE  SlotHolds(s)'
  <2> PICK id : id = slots[s]
    OBVIOUS
  <2>1. SlotHolds(s)
    BY <1>1, <1>11 DEF SlotsHold
  <2>2. slots'[s] \in 1..(next' - 1)
    BY <1>2, <2>1 DEF SlotHolds
  <2>3. ASSUME id \in Values(ys, body)
        PROVE  IsBefore(ys, body, id, Len(body) + 1) /\ Data'[id] = SlotMeaning(s)
    <3>1. id \in Values(xs, body)
      BY <1>8, <2>3 DEF Values
    <3>2. IsBefore(xs, body, id, Len(body) + 1) /\ Data[id] = SlotMeaning(s)
      BY <2>1, <3>1 DEF SlotHolds
    <3>3. IsBefore(ys, body, id, Len(body) + 1)
      <4>1. CASE id \in IdsOf(ys)
        BY <4>1 DEF IsBefore
      <4>2. CASE id \in IdsOf(body)
        <5>1. id \notin IdsOf(xs)
          BY <1>1, <4>2 DEF IsFunction, IsNumbered, IdsOf
        <5> QED
          BY <3>2, <5>1 DEF IsBefore
      <4> QED
        BY <2>3, <4>1, <4>2 DEF Values
    <3>4. Data'[id] = Data[id]
      BY <1>2, <1>5, <2>3 DEF Data
    <3> QED
      BY <3>2, <3>3, <3>4
  <2>4. ASSUME ~moved
        PROVE  /\ id \in Values(ys, body)
               /\ id \in IdsOf(ys) => body[SlotSend(s)].of[1] = id
    <3>1. /\ id \in Values(xs, body)
          /\ id \in IdsOf(xs) => body[SlotSend(s)].of[1] = id
      BY <2>1, <2>4 DEF SlotHolds, ArgIds
    <3>2. ASSUME NEW k \in DOMAIN xs, xs[k].id = id
          PROVE  k \in places
      <4> PICK j : j = SlotSend(s)
        OBVIOUS
      <4>1. j \in DOMAIN body
        BY <1>1, <1>11, SlotSendIs DEF PhaseIs, SendsStay
      <4>2. 1 \in DOMAIN body[j].of
        BY <1>1, <4>1, OperandParts
      <4>3. body[j].of[1] = id
        BY <3>1, <3>2 DEF IdsOf
      <4> QED
        BY <1>4, <3>2, <4>1, <4>2, <4>3
    <3>3. id \in IdsOf(xs) => id \in IdsOf(ys)
      BY <1>5, <3>2 DEF IdsOf
    <3> QED
      BY <1>8, <3>1, <3>3 DEF Values
  <2> QED
    BY <1>2, <1>6, <2>2, <2>3, <2>4 DEF SlotHolds, ArgIds
<1>12. SlotsHold'
  BY <1>1, <1>2, <1>6, <1>11 DEF SlotsHold
<1>13. InputsStay'
  <2>1. \A k \in DOMAIN xs : ~xs[k].isParameter => k \in places
    BY <1>4
  <2>2. HasInputs(ys)
    BY <1>1, <1>3, <2>1, KeepingInputs DEF IsFunction
  <2>3. HasInputs(args)'
    BY <1>2, <1>6, <2>2 DEF HasInputs
  <2> QED
    BY <1>2, <2>3 DEF InputsStay
<1> QED
  BY <1>2, <1>5, <1>7, <1>9, <1>10, <1>12, <1>13 DEF IInv

\* Erasing the sends of the host (eraseHostToTileSends) keeps the invariant.
LEMMA EraseHostSendsKeeps ==
  ASSUME IInv, EraseHostSends
  PROVE  IInv'
<1>1. /\ PhaseIs /\ IsFunction(args, body) /\ UsesKeep(args, body)
      /\ NumbersAreBelow /\ SlotsHold /\ HasInputs(args)
  BY DEF IInv, InputsStay, EraseHostSends
<1>2. /\ func' = func /\ args' = args /\ slots' = slots /\ next' = next
      /\ lowered' = lowered /\ moved' = moved /\ phase' = "lift" /\ round' = 2
  BY DEF EraseHostSends
<1> PICK places : places = {k \in DOMAIN body : body[k].kind \notin {"init", "send"}}
  OBVIOUS
<1>3. body' = Kept(body, places) /\ places \subseteq DOMAIN body
  BY DEF EraseHostSends
<1>4. ASSUME NEW k \in places, NEW i \in DOMAIN body[k].of
      PROVE  body[k].of[i] \in IdsOf(args) \/ \E j \in places : body[j].id = body[k].of[i]
  <2>1. IsBefore(args, body, body[k].of[i], k)
    BY <1>1 DEF IsFunction
  <2> QED
    BY <2>1 DEF IsBefore
<1>5. /\ IsFunction(args, body') /\ UsesKeep(args, body')
      /\ IdsOf(body') \subseteq IdsOf(body)
  <2>1. /\ IsFunction(args, body') /\ UsesKeep(args, body')
        /\ IdsOf(body') = {body[k].id : k \in places}
    BY <1>1, <1>3, <1>4, KeepingOperations
  <2> QED
    BY <1>3, <2>1 DEF IdsOf
<1>6. SlotNames' = SlotNames /\ \A k : IsInput(k)' = IsInput(k)
  BY <1>2, FuncStays
<1>7. PhaseIs'
  BY <1>1, <1>2 DEF PhaseIs
<1>8. NumbersAreBelow'
  BY <1>1, <1>2, <1>5 DEF NumbersAreBelow, Values
<1>9. SendsStay' /\ SlotsHold'
  BY <1>1, <1>2, <1>6 DEF SendsStay, SlotsHold
<1>10. InputsStay'
  BY <1>1, <1>2, <1>6 DEF InputsStay, HasInputs
<1> QED
  BY <1>2, <1>5, <1>7, <1>8, <1>9, <1>10 DEF IInv

\* What an operation that reaches a use takes reaches it too, and so do the sinks.
LEMMA LiveIs ==
  ASSUME NEW xs, NEW ops, IsFunction(xs, ops)
  PROVE  /\ LivePlaces(ops) \subseteq DOMAIN ops
         /\ \A k \in DOMAIN ops :
              k \in LivePlaces(ops) <=>
                \/ ops[k].kind \in Sinks
                \/ \E j \in LivePlaces(ops) : \E n \in DOMAIN ops[j].of : ops[j].of[n] = ops[k].id
<1> DEFINE S == DOMAIN ops
           UsersAt(k) == {i \in DOMAIN ops : \E n \in DOMAIN ops[i].of : ops[i].of[n] = ops[k].id}
           Def(g, k) == ops[k].kind \in Sinks \/ \E j \in UsersAt(k) : g[j]
           D == [g \in [S -> BOOLEAN] |-> [k \in S |-> Def(g, k)]]
           rank == [k \in S |-> Len(ops) - k]
           live == CHOOSE g : g = [k \in S |-> Def(g, k)]
<1>1. LivePlaces(ops) = {k \in S : live[k]}
  BY DEF LivePlaces
<1>2. Len(ops) \in Nat /\ S = 1..Len(ops)
  BY FunctionParts
<1>3. ASSUME NEW k \in S, NEW j \in UsersAt(k)
      PROVE  j \in S /\ k < j
  <2>1. PICK n \in DOMAIN ops[j].of : ops[j].of[n] = ops[k].id
    OBVIOUS
  <2>2. IsBefore(xs, ops, ops[k].id, j)
    BY <2>1 DEF IsFunction
  <2>3. ops[k].id \notin IdsOf(xs)
    BY OperationParts
  <2>4. PICK h \in DOMAIN ops : h < j /\ ops[h].id = ops[k].id
    BY <2>2, <2>3 DEF IsBefore
  <2>5. h = k
    BY <2>4 DEF IsFunction, IsNumbered
  <2> QED
    BY <2>4, <2>5
<1>4. \A k \in S : \A j \in UsersAt(k) : j \in S /\ rank[j] < rank[k]
  <2> TAKE k \in S
  <2> TAKE j \in UsersAt(k)
  <2>1. j \in S /\ k < j
    BY <1>3
  <2>2. rank[j] = Len(ops) - j /\ rank[k] = Len(ops) - k
    BY <2>1
  <2>3. j \in Nat /\ k \in Nat
    BY <1>2, <2>1
  <2> HIDE DEF rank, UsersAt, S
  <2>4. Len(ops) - j < Len(ops) - k
    BY ONLY <1>2, <2>1, <2>3
  <2> QED
    BY <2>1, <2>2, <2>4
<1>5. IsRanking(S, rank)
  <2> PICK n \in Nat : n = Len(ops)
    BY <1>2, Zenon
  <2>1. rank = [k \in S |-> n - k] /\ S = 1..n
    BY <1>2
  <2> HIDE DEF rank, S
  <2>2. rank \in [S -> Nat] /\ \A k \in S : rank[k] < n
    BY ONLY <2>1, n \in Nat
  <2> QED
    BY <2>2 DEF IsRanking
<1> HIDE DEF UsersAt, rank
<1>6. D \in [[S -> BOOLEAN] -> [S -> BOOLEAN]]
  <2>1. \A g \in [S -> BOOLEAN] : \A k \in S : Def(g, k) \in BOOLEAN
    <3> TAKE g \in [S -> BOOLEAN]
    <3> TAKE k \in S
    <3> QED
      BY Zenon
  <2> HIDE DEF Def, S
  <2> QED
    BY <2>1
<1>7. \A g, h \in [S -> BOOLEAN] : \A k \in S :
        (\A j \in S : rank[j] < rank[k] => g[j] = h[j]) => D[g][k] = D[h][k]
  <2> TAKE g, h \in [S -> BOOLEAN]
  <2> TAKE k \in S
  <2> HAVE \A j \in S : rank[j] < rank[k] => g[j] = h[j]
  <2>1. \A j \in UsersAt(k) : g[j] = h[j]
    BY <1>4
  <2>2. Def(g, k) = Def(h, k)
    BY <2>1
  <2>3. D[g][k] = Def(g, k) /\ D[h][k] = Def(h, k)
    <3> HIDE DEF Def, S
    <3> QED
      OBVIOUS
  <2> HIDE DEF Def, D
  <2> QED
    BY <2>2, <2>3
<1>8. \E g \in [S -> BOOLEAN] : g = D[g]
  <2>1. IsRecursion(S, BOOLEAN, rank, D)
    <3> HIDE DEF D, S
    <3> QED
      BY <1>6, <1>7 DEF IsRecursion
  <2>2. BOOLEAN # {}
    OBVIOUS
  <2> HIDE DEF D, S
  <2> QED
    BY <1>5, <2>1, <2>2, RecursionSolves
<1>9. \E g : g = [k \in S |-> Def(g, k)]
  <2>1. PICK g \in [S -> BOOLEAN] : g = D[g]
    BY <1>8
  <2>2. D[g] = [k \in S |-> Def(g, k)]
    <3> HIDE DEF Def, S
    <3> QED
      OBVIOUS
  <2> HIDE DEF D, S, Def
  <2> QED
    BY <2>1, <2>2
<1>10. live = [k \in S |-> Def(live, k)]
  <2> HIDE DEF S, Def
  <2> QED
    BY <1>9
<1> PICK f : f = live
  OBVIOUS
<1>11. \A k \in S : f[k] = Def(f, k)
  <2>1. f = [k \in S |-> Def(f, k)]
    BY <1>10
  <2> HIDE DEF Def, S, live
  <2> QED
    BY <2>1
<1>12. LivePlaces(ops) = {k \in S : f[k]}
  BY <1>1
<1> HIDE DEF live
<1>13. \A k \in S : f[k] <=> ops[k].kind \in Sinks \/ \E j \in UsersAt(k) : f[j]
  BY <1>11, Zenon DEF Def
<1> QED
  BY <1>12, <1>13 DEF UsersAt

\* Folding the slices that take all, and what reaches a use then.
LEMMA FoldingKeeps ==
  ASSUME IInv, NEW xs, NEW ops, xs = args, ops = body,
         NEW qs, qs = Substituted(ops, Folds(xs, ops))
  PROVE  /\ IsFunction(xs, qs) /\ IdsOf(qs) = IdsOf(ops) /\ UsesKeep(xs, qs)
         /\ LivePlaces(qs) \subseteq DOMAIN qs
         /\ \A k \in DOMAIN qs :
              k \in LivePlaces(qs) <=>
                \/ qs[k].kind \in Sinks
                \/ \E j \in LivePlaces(qs) : \E n \in DOMAIN qs[j].of : qs[j].of[n] = qs[k].id
         /\ \A k \in LivePlaces(qs) : \A i \in DOMAIN qs[k].of :
              qs[k].of[i] \in IdsOf(xs) \/ \E j \in LivePlaces(qs) : qs[j].id = qs[k].of[i]
<1>1. /\ PhaseIs /\ IsFunction(args, body) /\ UsesKeep(args, body) /\ NumbersAreBelow
  BY DEF IInv
<1> PICK by, d, places : by = Folds(args, body) /\ d = DataOf(args, body) /\ places = LivePlaces(qs)
  OBVIOUS
<1>4. Rebinds(xs, ops, xs, by, d)
  <2>1. d \in [Values(xs, ops) -> Seq(Words)] /\ IsDataOf(xs, ops, d)
    BY <1>1, DataIs
  <2>2. DOMAIN by = Values(xs, ops)
    <3>1. by \in [Values(xs, ops) -> Values(xs, ops)]
      BY <1>1, FoldsAre
    <3> QED
      BY <3>1
  <2>3. ASSUME NEW k \in DOMAIN ops, NEW i \in DOMAIN ops[k].of
        PROVE  LET x == ops[k].of[i]
                   y == IF x \in DOMAIN by THEN by[x] ELSE x
               IN y \in Nat /\ IsBefore(xs, ops, y, k) /\ d[y] = d[x]
    <3> PICK x : x = ops[k].of[i]
      OBVIOUS
    <3>1. x \in Values(xs, ops) /\ IsBefore(xs, ops, x, k) /\ k \in Nat
      BY <1>1, OperandParts, OperationParts DEF IsFunction
    <3>2. by[x] \in Values(xs, ops) /\ IsBefore(xs, ops, by[x], k) /\ d[by[x]] = d[x]
      BY <1>1, <3>1, FoldsKeepData
    <3>3. by[x] \in Nat
      BY <1>1, <3>2 DEF NumbersAreBelow, PhaseIs
    <3> QED
      BY <2>2, <3>1, <3>2, <3>3
  <2>4. xs \in Seq(Arguments) /\ \A j, k \in DOMAIN xs : xs[j].id = xs[k].id => j = k
    BY <1>1 DEF IsFunction, IsNumbered
  <2>5. \A j \in DOMAIN xs : xs[j].id \notin IdsOf(ops)
    BY <1>1, ArgumentParts
  <2> QED
    BY <2>1, <2>3, <2>4, <2>5 DEF Rebinds, IsDataOf
<1>5. IsFunction(xs, qs) /\ IdsOf(qs) = IdsOf(ops) /\ UsesKeep(xs, qs)
  BY <1>1, <1>4, RebindingKeepsData
<1>6. places \subseteq DOMAIN qs
      /\ \A k \in DOMAIN qs :
           k \in places <=>
             \/ qs[k].kind \in Sinks
             \/ \E j \in places : \E n \in DOMAIN qs[j].of : qs[j].of[n] = qs[k].id
  BY <1>5, LiveIs
<1>7. ASSUME NEW k \in places, NEW i \in DOMAIN qs[k].of
      PROVE  qs[k].of[i] \in IdsOf(xs) \/ \E j \in places : qs[j].id = qs[k].of[i]
  <2>1. IsBefore(xs, qs, qs[k].of[i], k)
    BY <1>5, <1>6 DEF IsFunction
  <2> QED
    BY <1>6, <2>1 DEF IsBefore
<1> QED
  BY <1>5, <1>6, <1>7

\* Folding slices and erasing dead operations (cleanupGeneratedIR) keeps it.
LEMMA CleanupKeeps ==
  ASSUME IInv, Cleanup
  PROVE  IInv'
<1>1. /\ PhaseIs /\ IsFunction(args, body) /\ UsesKeep(args, body)
      /\ NumbersAreBelow /\ SlotsHold /\ HasInputs(args)
  BY DEF IInv, InputsStay, Cleanup
<1>2. /\ func' = func /\ args' = args /\ slots' = slots /\ next' = next
      /\ lowered' = lowered /\ moved' = moved /\ phase' = "lift" /\ round' = 3
  BY DEF Cleanup
<1> PICK xs, ops, by, d : xs = args /\ ops = body /\ by = Folds(args, body) /\ d = DataOf(args, body)
  OBVIOUS
<1> PICK qs, places : qs = Substituted(ops, by) /\ places = LivePlaces(qs)
  OBVIOUS
<1>3. body' = Kept(qs, places)
  BY DEF Cleanup
<1>5. IsFunction(xs, qs) /\ IdsOf(qs) = IdsOf(ops) /\ UsesKeep(xs, qs)
  BY FoldingKeeps
<1>6. places \subseteq DOMAIN qs
  BY FoldingKeeps
<1>7. \A k \in places : \A i \in DOMAIN qs[k].of :
        qs[k].of[i] \in IdsOf(xs) \/ \E j \in places : qs[j].id = qs[k].of[i]
  BY FoldingKeeps
<1>8. /\ IsFunction(xs, body') /\ UsesKeep(xs, body')
      /\ IdsOf(body') \subseteq IdsOf(body)
  <2>1. /\ IsFunction(xs, body') /\ UsesKeep(xs, body')
        /\ IdsOf(body') = {qs[k].id : k \in places}
    BY <1>3, <1>5, <1>6, <1>7, KeepingOperations
  <2>2. {qs[k].id : k \in places} \subseteq IdsOf(qs)
    BY <1>6 DEF IdsOf
  <2> QED
    BY <1>5, <2>1, <2>2
<1>9. SlotNames' = SlotNames /\ \A k : IsInput(k)' = IsInput(k)
  BY <1>2, FuncStays
<1>10. PhaseIs'
  BY <1>1, <1>2 DEF PhaseIs
<1>11. NumbersAreBelow'
  BY <1>1, <1>2, <1>8 DEF NumbersAreBelow, Values
<1>12. SendsStay' /\ SlotsHold'
  BY <1>1, <1>2, <1>9 DEF SendsStay, SlotsHold
<1>13. InputsStay'
  BY <1>1, <1>2, <1>9 DEF InputsStay, HasInputs
<1> QED
  BY <1>2, <1>8, <1>10, <1>11, <1>12, <1>13 DEF IInv

\* Parameters with the next numbers come behind arguments that stay.
Extends(xs, ops, kept, new, nx) ==
  /\ nx \in Nat /\ \A id \in Values(xs, ops) : id \in 1..(nx - 1)
  /\ kept \in Seq(Arguments) /\ IdsOf(kept) \subseteq IdsOf(xs)
  /\ \A j, k \in DOMAIN kept : kept[j].id = kept[k].id => j = k
  /\ \A k \in DOMAIN kept : DataOf(xs, ops)[kept[k].id] = kept[k].data
  /\ new \in Seq(Arguments)
  /\ \A n \in DOMAIN new : new[n].id = nx - 1 + n /\ new[n].isParameter

\* Each operand becomes a value that stays, or a new parameter, of its data.
Redirects(xs, ops, kept, new, nx, by) ==
  \A k \in DOMAIN ops : \A i \in DOMAIN ops[k].of :
    LET x == ops[k].of[i]
        y == IF x \in DOMAIN by THEN by[x] ELSE x
    IN \/ IsBefore(kept, ops, y, k) /\ DataOf(xs, ops)[y] = DataOf(xs, ops)[x]
       \/ \E n \in DOMAIN new : y = new[n].id /\ new[n].data = DataOf(xs, ops)[x]

\* What stands where when arguments are put behind those that are kept.
LEMMA ExtendedArguments ==
  ASSUME NEW xs, NEW ops, NEW kept, NEW new, NEW nx, Extends(xs, ops, kept, new, nx)
  PROVE  /\ kept \o new \in Seq(Arguments)
         /\ Len(kept) \in Nat /\ Len(new) \in Nat
         /\ DOMAIN kept = 1..Len(kept) /\ DOMAIN new = 1..Len(new)
         /\ Len(kept \o new) = Len(kept) + Len(new)
         /\ DOMAIN (kept \o new) = 1..(Len(kept) + Len(new))
         /\ \A k \in DOMAIN (kept \o new) :
              \/ k \in DOMAIN kept /\ (kept \o new)[k] = kept[k]
              \/ k - Len(kept) \in DOMAIN new /\ (kept \o new)[k] = new[k - Len(kept)]
                 /\ Len(kept) < k
         /\ \A k \in DOMAIN kept : k \in DOMAIN (kept \o new) /\ (kept \o new)[k] = kept[k]
         /\ \A n \in DOMAIN new : Len(kept) + n \in DOMAIN (kept \o new)
                                  /\ (kept \o new)[Len(kept) + n] = new[n]
         /\ IdsOf(kept \o new) = IdsOf(kept) \cup {nx - 1 + n : n \in DOMAIN new}
<1> PICK ys : ys = kept \o new
  OBVIOUS
<1>1. kept \in Seq(Arguments) /\ new \in Seq(Arguments)
      /\ \A n \in DOMAIN new : new[n].id = nx - 1 + n
  BY DEF Extends
<1> PICK a, b : a = Len(kept) /\ b = Len(new)
  OBVIOUS
<1>2. a \in Nat /\ b \in Nat /\ DOMAIN kept = 1..a /\ DOMAIN new = 1..b
  BY <1>1, LenProperties
<1>3. /\ ys \in Seq(Arguments) /\ Len(ys) = a + b
      /\ \A k \in 1..(a + b) : ys[k] = IF k <= a THEN kept[k] ELSE new[k - a]
  BY <1>1, ConcatProperties
<1>4. DOMAIN ys = 1..(a + b)
  BY <1>3, LenProperties
<1>5. \A k \in DOMAIN ys :
        \/ k \in DOMAIN kept /\ ys[k] = kept[k]
        \/ k - a \in DOMAIN new /\ ys[k] = new[k - a] /\ a < k
  BY ONLY <1>2, <1>3, <1>4
<1>6. \A k \in DOMAIN kept : k \in DOMAIN ys /\ ys[k] = kept[k]
  BY ONLY <1>2, <1>3, <1>4
<1>7. \A n \in DOMAIN new : a + n \in DOMAIN ys /\ ys[a + n] = new[n]
  <2> TAKE n \in DOMAIN new
  <2>1. a + n \in 1..(a + b) /\ ~(a + n <= a) /\ a + n - a = n
    BY ONLY <1>2, n \in DOMAIN new
  <2> QED
    <3> PICK m : m = a + n
      OBVIOUS
    <3>1. m \in 1..(a + b) /\ ~(m <= a) /\ m - a = n
      BY ONLY <1>2, <2>1, m = a + n
    <3>2. m \in DOMAIN ys /\ ys[m] = new[n]
      BY ONLY <1>3, <1>4, <3>1
    <3> QED
      BY <3>2
<1>8. IdsOf(ys) = IdsOf(kept) \cup {nx - 1 + n : n \in DOMAIN new}
  <2>1. ASSUME NEW id \in IdsOf(ys)
        PROVE  id \in IdsOf(kept) \cup {nx - 1 + n : n \in DOMAIN new}
    <3>1. PICK k \in DOMAIN ys : ys[k].id = id
      BY DEF IdsOf
    <3>2. CASE k \in DOMAIN kept /\ ys[k] = kept[k]
      BY <3>1, <3>2 DEF IdsOf
    <3>3. CASE k - a \in DOMAIN new /\ ys[k] = new[k - a]
      BY <1>1, <3>1, <3>3
    <3> QED
      BY <1>5, <3>2, <3>3
  <2>2. IdsOf(kept) \subseteq IdsOf(ys)
    BY <1>6 DEF IdsOf
  <2>3. ASSUME NEW n \in DOMAIN new
        PROVE  nx - 1 + n \in IdsOf(ys)
    <3>1. new[n].id = nx - 1 + n
      BY <1>1
    <3> PICK m : m = a + n
      OBVIOUS
    <3>2. m \in DOMAIN ys /\ ys[m] = new[n]
      BY <1>7
    <3> QED
      BY ONLY <3>1, <3>2 DEF IdsOf
  <2> QED
    BY <2>1, <2>2, <2>3
<1> QED
  BY <1>2, <1>3, <1>4, <1>5, <1>6, <1>7, <1>8

\* New arguments with the data of what they stand for keep all data.
LEMMA ExtendingKeepsData ==
  ASSUME NEW xs, NEW ops, IsFunction(xs, ops), NEW kept, NEW new, NEW nx, NEW by,
         Extends(xs, ops, kept, new, nx), Redirects(xs, ops, kept, new, nx, by)
  PROVE  /\ IsFunction(kept \o new, Substituted(ops, by))
         /\ IdsOf(Substituted(ops, by)) = IdsOf(ops)
         /\ \A id \in IdsOf(kept) \cup IdsOf(ops) :
              DataOf(kept \o new, Substituted(ops, by))[id] = DataOf(xs, ops)[id]
         /\ UsesKeep(xs, ops) => UsesKeep(kept \o new, Substituted(ops, by))
<1> PICK ys, d : ys = kept \o new /\ d = DataOf(xs, ops)
  OBVIOUS
<1>1. /\ nx \in Nat /\ \A id \in Values(xs, ops) : id \in 1..(nx - 1)
      /\ kept \in Seq(Arguments) /\ IdsOf(kept) \subseteq IdsOf(xs)
      /\ \A j, k \in DOMAIN kept : kept[j].id = kept[k].id => j = k
      /\ \A k \in DOMAIN kept : d[kept[k].id] = kept[k].data
      /\ new \in Seq(Arguments)
      /\ \A n \in DOMAIN new : new[n].id = nx - 1 + n
  BY DEF Extends
<1> PICK a, b : a = Len(kept) /\ b = Len(new)
  OBVIOUS
<1>2. /\ ys \in Seq(Arguments)
      /\ a \in Nat /\ b \in Nat /\ DOMAIN kept = 1..a /\ DOMAIN new = 1..b
      /\ DOMAIN ys = 1..(a + b)
      /\ \A k \in DOMAIN ys :
           \/ k \in DOMAIN kept /\ ys[k] = kept[k]
           \/ k - a \in DOMAIN new /\ ys[k] = new[k - a] /\ a < k
      /\ IdsOf(ys) = IdsOf(kept) \cup {nx - 1 + n : n \in DOMAIN new}
  BY ExtendedArguments
<1>3. d \in [Values(xs, ops) -> Seq(Words)] /\ IsDataOf(xs, ops, d)
  BY DataIs
<1> DEFINE Old == IdsOf(kept) \cup IdsOf(ops)
           c == [id \in Values(ys, ops) |-> IF id \in Old THEN d[id] ELSE new[id - nx + 1].data]
<1>4. \A id \in Old : id \in Values(xs, ops) /\ id \in 1..(nx - 1)
  BY <1>1 DEF Values
<1>5. \A n \in DOMAIN new : /\ new[n].id = nx - 1 + n /\ new[n].id \notin Old
                            /\ new[n].id - nx + 1 = n /\ new[n].id \in IdsOf(ys)
                            /\ new[n].data \in Seq(Words)
  <2> TAKE n \in DOMAIN new
  <2>1. nx - 1 + n \notin 1..(nx - 1) /\ nx - 1 + n - nx + 1 = n
    BY ONLY <1>1, <1>2, n \in DOMAIN new
  <2>2. new[n] \in Arguments
    BY <1>1, <1>2, ElementOfSeq
  <2>3. new[n].data \in Seq(Words)
    BY <2>2 DEF Arguments
  <2>4. nx - 1 + n \in IdsOf(ys)
    BY <1>2
  <2> HIDE DEF Old
  <2> QED
    BY <1>1, <1>4, <2>1, <2>3, <2>4
<1>6. Values(ys, ops) = Old \cup {new[n].id : n \in DOMAIN new}
  <2>1. {nx - 1 + n : n \in DOMAIN new} = {new[n].id : n \in DOMAIN new}
    BY <1>1
  <2>2. IdsOf(ys) = IdsOf(kept) \cup {nx - 1 + n : n \in DOMAIN new}
    BY <1>2
  <2> QED
    BY ONLY <2>1, <2>2 DEF Values, Old
<1> HIDE DEF Old
<1>7. \A id \in Old : c[id] = d[id]
  BY <1>6
<1>8. \A n \in DOMAIN new : c[new[n].id] = new[n].data
  <2> TAKE n \in DOMAIN new
  <2>1. new[n].id \in Values(ys, ops) /\ new[n].id \notin Old /\ new[n].id - nx + 1 = n
    BY <1>5, <1>6
  <2> QED
    BY ONLY <2>1
<1>9. c \in [Values(ys, ops) -> Seq(Words)]
  <2>1. ASSUME NEW id \in Values(ys, ops)
        PROVE  c[id] \in Seq(Words)
    <3>1. CASE id \in Old
      BY <1>3, <1>4, <1>7, <3>1
    <3>2. CASE id \notin Old
      <4>1. PICK n \in DOMAIN new : id = new[n].id
        BY <1>6, <3>2
      <4> QED
        BY <1>5, <1>8, <4>1
    <3> QED
      BY <3>1, <3>2
  <2>2. c = [id \in Values(ys, ops) |-> c[id]]
    OBVIOUS
  <2> HIDE DEF c
  <2> QED
    BY <2>1, <2>2
<1> HIDE DEF c
<1>10. \A k \in DOMAIN kept : kept[k].id \in Old
  BY DEF Old, IdsOf
<1>11. Rebinds(xs, ops, ys, by, c)
  <2>1. ASSUME NEW j \in DOMAIN ys, NEW k \in DOMAIN ys, ys[j].id = ys[k].id
        PROVE  j = k
    <3>1. CASE j \in DOMAIN kept /\ ys[j] = kept[j] /\ k \in DOMAIN kept /\ ys[k] = kept[k]
      BY <1>1, <2>1, <3>1
    <3>2. CASE j \in DOMAIN kept /\ ys[j] = kept[j] /\ k - a \in DOMAIN new /\ ys[k] = new[k - a]
      BY <1>5, <1>10, <2>1, <3>2
    <3>3. CASE k \in DOMAIN kept /\ ys[k] = kept[k] /\ j - a \in DOMAIN new /\ ys[j] = new[j - a]
      BY <1>5, <1>10, <2>1, <3>3
    <3>4. CASE k - a \in DOMAIN new /\ ys[k] = new[k - a] /\ j - a \in DOMAIN new /\ ys[j] = new[j - a]
      <4>1. nx - 1 + (j - a) = nx - 1 + (k - a)
        BY <1>1, <2>1, <3>4
      <4>2. j \in Nat /\ k \in Nat
        BY <1>2
      <4> QED
        BY ONLY <1>1, <1>2, <4>1, <4>2
    <3> QED
      BY <1>2, <3>1, <3>2, <3>3, <3>4
  <2>2. ASSUME NEW j \in DOMAIN ys
        PROVE  ys[j].id \notin IdsOf(ops) /\ c[ys[j].id] = ys[j].data
    <3>1. CASE j \in DOMAIN kept /\ ys[j] = kept[j]
      <4>1. kept[j].id \in IdsOf(xs)
        BY <1>1, <3>1 DEF IdsOf
      <4>2. kept[j].id \notin IdsOf(ops)
        BY <4>1, ArgumentParts DEF IdsOf
      <4> QED
        BY <1>1, <1>7, <1>10, <3>1, <4>2
    <3>2. CASE j - a \in DOMAIN new /\ ys[j] = new[j - a]
      BY <1>5, <1>8, <3>2 DEF Old
    <3> QED
      BY <1>2, <3>1, <3>2
  <2>3. ASSUME NEW k \in DOMAIN ops, NEW i \in DOMAIN ops[k].of
        PROVE  LET x == ops[k].of[i]
                   y == IF x \in DOMAIN by THEN by[x] ELSE x
               IN y \in Nat /\ IsBefore(ys, ops, y, k) /\ c[y] = d[x]
    <3> DEFINE x == ops[k].of[i]
               y == IF x \in DOMAIN by THEN by[x] ELSE x
    <3>1. \/ IsBefore(kept, ops, y, k) /\ d[y] = d[x]
          \/ \E n \in DOMAIN new : y = new[n].id /\ new[n].data = d[x]
      BY DEF Redirects
    <3> HIDE DEF x, y
    <3>2. CASE IsBefore(kept, ops, y, k) /\ d[y] = d[x]
      <4>1. y \in Old
        BY <3>2 DEF IsBefore, Old, IdsOf
      <4>2. y \in Nat
        <5>1. y \in 1..(nx - 1)
          BY <1>4, <4>1
        <5> QED
          BY <5>1
      <4>3. IsBefore(ys, ops, y, k)
        BY <1>2, <3>2 DEF IsBefore
      <4> QED
        BY <1>7, <3>2, <4>1, <4>2, <4>3 DEF x, y
    <3>3. CASE \E n \in DOMAIN new : y = new[n].id /\ new[n].data = d[x]
      <4>1. PICK n \in DOMAIN new : y = new[n].id /\ new[n].data = d[x]
        BY <3>3
      <4>2. c[y] = d[x] /\ IsBefore(ys, ops, y, k)
        BY <1>5, <1>8, <4>1 DEF IsBefore
      <4>3. y = nx - 1 + n /\ n \in 1..b
        BY <1>2, <1>5, <4>1
      <4>4. y \in Nat
        BY ONLY <1>1, <4>3
      <4> QED
        BY <4>2, <4>4 DEF x, y
    <3> QED
      BY <3>1, <3>2, <3>3
  <2>4. \A id \in IdsOf(ops) : c[id] = d[id]
    BY <1>7 DEF Old
  <2> QED
    BY <1>2, <1>9, <2>1, <2>2, <2>3, <2>4 DEF Rebinds
<1>12. /\ IsFunction(ys, Substituted(ops, by))
       /\ IdsOf(Substituted(ops, by)) = IdsOf(ops)
       /\ c = DataOf(ys, Substituted(ops, by))
       /\ UsesKeep(xs, ops) => UsesKeep(ys, Substituted(ops, by))
  BY <1>11, RebindingKeepsData
<1> QED
  BY <1>7, <1>12 DEF Old

\* A slot has the value it was found to hold, or that value is no more.
HasMeaning(s) ==
  /\ slots[s] \in 1..(next - 1)
  /\ slots[s] \in Values(args, body) =>
       IsBefore(args, body, slots[s], Len(body) + 1) /\ Data[slots[s]] = SlotMeaning(s)

\* A step that replaces parameters by new ones.
ReplacesBy(kept, new, by) ==
  /\ Extends(args, body, kept, new, next) /\ Redirects(args, body, kept, new, next, by)
  /\ HasInputs(kept)
  /\ args' = kept \o new /\ body' = Substituted(body, by) /\ next' = next + Len(new)
  /\ func' = func /\ slots' = slots /\ round' = round
  /\ phase # "annotate" /\ phase' # "annotate"

\* What lifting and reordering have in common keeps all but the slots.
LEMMA ReplacingKeeps ==
  ASSUME IInv, NEW kept, NEW new, NEW by, ReplacesBy(kept, new, by)
  PROVE  /\ IsFunction(args, body)' /\ UsesKeep(args, body)'
         /\ NumbersAreBelow' /\ SendsStay' /\ InputsStay'
         /\ IdsOf(body') = IdsOf(body) /\ DOMAIN body' = DOMAIN body
         /\ DOMAIN slots' = SlotNames' /\ next' \in Nat /\ next' > 0
         /\ round = 1 => \A s \in SlotNames : HasMeaning(s)'
<1>1. /\ PhaseIs /\ IsFunction(args, body) /\ UsesKeep(args, body)
      /\ NumbersAreBelow /\ SendsStay /\ SlotsHold
  BY DEF IInv
<1>2. /\ Extends(args, body, kept, new, next) /\ Redirects(args, body, kept, new, next, by)
      /\ HasInputs(kept)
      /\ args' = kept \o new /\ body' = Substituted(body, by) /\ next' = next + Len(new)
      /\ func' = func /\ slots' = slots /\ round' = round
      /\ phase # "annotate" /\ phase' # "annotate"
  BY DEF ReplacesBy
<1> PICK xs, ops, ys, qs : xs = args /\ ops = body /\ ys = args' /\ qs = body'
  OBVIOUS
<1>3. /\ IsFunction(ys, qs) /\ IdsOf(qs) = IdsOf(ops)
      /\ \A id \in IdsOf(kept) \cup IdsOf(ops) : DataOf(ys, qs)[id] = DataOf(xs, ops)[id]
      /\ UsesKeep(ys, qs)
  BY <1>1, <1>2, ExtendingKeepsData
<1>4. /\ Meaning' = Meaning /\ InitSends' = InitSends /\ SlotNames' = SlotNames
      /\ \A k : IsInput(k)' = IsInput(k)
      /\ \A s : SlotSend(s)' = SlotSend(s) /\ SlotMeaning(s)' = SlotMeaning(s)
  BY <1>2, FuncStays
<1>5. /\ Len(new) \in Nat /\ DOMAIN new = 1..Len(new)
      /\ IdsOf(ys) = IdsOf(kept) \cup {next - 1 + n : n \in DOMAIN new}
  BY <1>2, ExtendedArguments
<1>6. next \in Nat /\ next > 0 /\ IdsOf(kept) \subseteq IdsOf(xs)
      /\ \A id \in IdsOf(kept) \cup IdsOf(ops) : id \in 1..(next - 1)
  BY <1>1, <1>2 DEF Extends, Values, PhaseIs
<1>7. next' \in Nat /\ next' > 0
  BY <1>2, <1>5, <1>6
<1>8. NumbersAreBelow'
  <2>1. ASSUME NEW id \in Values(ys, qs)
        PROVE  id \in 1..(next + Len(new) - 1)
    <3>1. CASE id \in IdsOf(kept) \cup IdsOf(ops)
      <4>1. id \in 1..(next - 1)
        BY <1>6, <3>1
      <4> QED
        BY ONLY <1>5, <1>6, <4>1
    <3>2. CASE \E n \in DOMAIN new : id = next - 1 + n
      <4>1. PICK n \in 1..Len(new) : id = next - 1 + n
        BY <1>5, <3>2
      <4> QED
        BY ONLY <1>5, <1>6, <4>1
    <3> QED
      BY <1>3, <1>5, <3>1, <3>2 DEF Values
  <2>4. next' = next + Len(new)
    BY <1>2
  <2>2. next' - 1 = next + Len(new) - 1
    BY ONLY <1>5, <1>6, <2>4
  <2>3. \A id \in Values(args', body') : id \in 1..(next' - 1)
    BY <2>1, <2>2
  <2> QED
    BY <2>3 DEF NumbersAreBelow
<1>9. /\ DOMAIN qs = DOMAIN ops
      /\ \A k \in DOMAIN ops : /\ qs[k].id = ops[k].id /\ qs[k].kind = ops[k].kind
                               /\ qs[k].want = ops[k].want
  <2>1. ops \in Seq(Operations)
    BY <1>1 DEF IsFunction
  <2>2. qs = Substituted(ops, by)
    BY <1>2
  <2>3. /\ DOMAIN qs = DOMAIN ops
        /\ \A k \in DOMAIN ops : /\ qs[k].id = ops[k].id /\ qs[k].kind = ops[k].kind
                                 /\ qs[k].part = ops[k].part /\ qs[k].want = ops[k].want
                                 /\ qs[k].of = [i \in DOMAIN ops[k].of |->
                                                 IF ops[k].of[i] \in DOMAIN by
                                                 THEN by[ops[k].of[i]] ELSE ops[k].of[i]]
    BY ONLY <2>1, <2>2, SubstitutedKeeps
  <2> QED
    BY ONLY <2>3, Zenon
<1>10. SendsStay'
  BY <1>1, <1>2, <1>4, <1>9 DEF SendsStay
<1>11. InputsStay'
  <2>1. HasInputs(ys)
    <3>1. /\ Len(kept) \in Nat /\ DOMAIN kept = 1..Len(kept)
          /\ \A k \in DOMAIN ys :
               \/ k \in DOMAIN kept /\ ys[k] = kept[k]
               \/ k - Len(kept) \in DOMAIN new /\ ys[k] = new[k - Len(kept)]
          /\ \A k \in DOMAIN kept : k \in DOMAIN ys /\ ys[k] = kept[k]
      BY <1>2, ExtendedArguments
    <3>2. \A n \in DOMAIN new : new[n].isParameter
      BY <1>2 DEF Extends
    <3>3. \A k \in DOMAIN ys : ~ys[k].isParameter => k \in DOMAIN kept /\ ys[k] = kept[k]
      BY <3>1, <3>2
    <3>4. \A k \in DOMAIN ys : ~ys[k].isParameter => IsInput(ys[k].id)
      BY <1>2, <3>3 DEF HasInputs
    <3>5. \A i \in DOMAIN func.args :
            IsInput(i) => \E k \in DOMAIN ys : ~ys[k].isParameter /\ ys[k].id = i
      BY <1>2, <3>1 DEF HasInputs
    <3>6. \A j, k \in DOMAIN ys :
            ~ys[j].isParameter /\ ~ys[k].isParameter /\ j < k => ys[j].id < ys[k].id
      BY <1>2, <3>3 DEF HasInputs
    <3> QED
      BY <3>4, <3>5, <3>6 DEF HasInputs
  <2>2. HasInputs(args)'
    BY <1>2, <1>4, <2>1 DEF HasInputs
  <2> QED
    BY <1>2, <2>2 DEF InputsStay
<1>12. ASSUME NEW s \in SlotNames, round = 1
       PROVE  HasMeaning(s)'
  <2> PICK id : id = slots[s]
    OBVIOUS
  <2>1. SlotHolds(s)
    BY <1>1, <1>12 DEF SlotsHold
  <2>2. id \in 1..(next - 1) /\ id \in 1..(next' - 1)
    <3>1. id \in 1..(next - 1)
      BY <2>1 DEF SlotHolds
    <3> QED
      BY ONLY <1>2, <1>5, <1>6, <3>1
  <2>3. ASSUME id \in Values(ys, qs)
        PROVE  IsBefore(ys, qs, id, Len(qs) + 1) /\ Data'[id] = SlotMeaning(s)
    <3>1. \A n \in DOMAIN new : id # next - 1 + n
      BY ONLY <1>5, <1>6, <2>2
    <3>2. id \in IdsOf(kept) \cup IdsOf(ops)
      BY <1>3, <1>5, <2>3, <3>1 DEF Values
    <3>3. id \in Values(xs, ops)
      BY <1>6, <3>2 DEF Values
    <3>4. IsBefore(xs, ops, id, Len(ops) + 1) /\ Data[id] = SlotMeaning(s)
      BY <2>1, <3>3 DEF SlotHolds
    <3>5. IsBefore(ys, qs, id, Len(qs) + 1)
      <4>1. CASE id \in IdsOf(kept)
        BY <1>5, <4>1 DEF IsBefore
      <4>2. CASE id \in IdsOf(ops)
        <5>1. id \notin IdsOf(xs)
          BY <1>1, <4>2 DEF IsFunction, IsNumbered, IdsOf
        <5>2. Len(qs) = Len(ops)
          <6>1. /\ Len(ops) \in Nat /\ DOMAIN ops = 1..Len(ops)
                /\ Len(qs) \in Nat /\ DOMAIN qs = 1..Len(qs)
            BY <1>1, <1>3, FunctionParts
          <6> PICK m, n : m = Len(ops) /\ n = Len(qs)
            OBVIOUS
          <6>2. m \in Nat /\ n \in Nat /\ 1..m = 1..n
            BY <1>9, <6>1
          <6>3. m = n
            BY ONLY <6>2
          <6> QED
            BY <6>3
        <5> QED
          BY <1>9, <3>4, <5>1, <5>2 DEF IsBefore
      <4> QED
        BY <3>2, <4>1, <4>2
    <3>6. Data'[id] = Data[id]
      BY <1>3, <3>2 DEF Data
    <3> QED
      BY <3>4, <3>5, <3>6
  <2> QED
    BY <1>2, <1>4, <2>2, <2>3 DEF HasMeaning
<1>13. DOMAIN slots' = SlotNames'
  BY <1>1, <1>2, <1>4 DEF SlotsHold
<1> QED
  BY <1>2, <1>3, <1>7, <1>8, <1>9, <1>10, <1>11, <1>12, <1>13

\* A part of the arguments has what belongs to it.
LEMMA KeptArguments ==
  ASSUME NEW xs, NEW ops, IsFunction(xs, ops), NEW places, places \subseteq DOMAIN xs,
         NEW kept, kept = Kept(xs, places)
  PROVE  /\ kept \in Seq(Arguments)
         /\ IdsOf(kept) = {xs[k].id : k \in places} /\ IdsOf(kept) \subseteq IdsOf(xs)
         /\ \A j, k \in DOMAIN kept : kept[j].id = kept[k].id => j = k
         /\ \A k \in DOMAIN kept : DataOf(xs, ops)[kept[k].id] = kept[k].data
<1> PICK d : d = DataOf(xs, ops)
  OBVIOUS
<1>1. xs \in Seq(Arguments) /\ \A j, k \in DOMAIN xs : xs[j].id = xs[k].id => j = k
  BY DEF IsFunction, IsNumbered
<1>2. kept \in Seq(Arguments) /\ \E o : Selects(o, kept, xs, places)
  BY <1>1, KeptIs
<1> PICK o : Selects(o, kept, xs, places)
  BY <1>2
<1>3. /\ \A k \in DOMAIN kept : o[k] \in places /\ kept[k] = xs[o[k]]
      /\ \A x \in places : \E k \in DOMAIN kept : o[k] = x
      /\ \A j, k \in DOMAIN kept : j < k <=> o[j] < o[k]
  BY DEF Selects
<1>4. IdsOf(kept) = {xs[k].id : k \in places}
  BY <1>3 DEF IdsOf
<1>5. ASSUME NEW j \in DOMAIN kept, NEW k \in DOMAIN kept, kept[j].id = kept[k].id
      PROVE  j = k
  <2>1. o[j] = o[k]
    BY <1>1, <1>3, <1>5
  <2>2. Len(kept) \in Nat /\ DOMAIN kept = 1..Len(kept) /\ Len(xs) \in Nat /\ DOMAIN xs = 1..Len(xs)
    BY <1>1, <1>2, LenProperties
  <2>3. o[j] \in Nat /\ o[k] \in Nat /\ j \in Nat /\ k \in Nat
    BY <1>3, <2>2
  <2>4. ~(j < k) /\ ~(k < j)
    BY <1>3, <2>1, <2>3
  <2> QED
    BY ONLY <2>3, <2>4
<1>6. \A k \in DOMAIN kept : d[kept[k].id] = kept[k].data
  <2>1. IsDataOf(xs, ops, d)
    BY DataIs
  <2> QED
    BY <1>3, <2>1 DEF IsDataOf
<1>7. IdsOf(kept) \subseteq IdsOf(xs)
  BY <1>4 DEF IdsOf
<1> QED
  BY <1>2, <1>4, <1>5, <1>6, <1>7

\* The first use of an argument is a place, or the one behind all.
LEMMA FirstUseIs ==
  ASSUME IsFunction(args, body), NEW arg
  PROVE  FirstUse(arg) \in Nat
<1>1. Len(body) \in Nat /\ DOMAIN body = 1..Len(body)
  BY FunctionParts
<1>2. UsersOf(arg.id) \subseteq DOMAIN body /\ UsersOf(arg.id) \in SUBSET Nat
  BY <1>1 DEF UsersOf
<1>3. CASE UsersOf(arg.id) = {}
  BY <1>1, <1>3 DEF FirstUse
<1>4. CASE UsersOf(arg.id) # {}
  <2>1. \E k \in UsersOf(arg.id) : \A j \in UsersOf(arg.id) : k <= j
    BY <1>2, <1>4, LeastNumber
  <2>2. FirstUse(arg) \in UsersOf(arg.id)
    BY <1>4, <2>1 DEF FirstUse
  <2> QED
    BY <1>2, <2>2
<1> QED
  BY <1>3, <1>4

\* The parameters in the order of their first use.
LEMMA WantedIs ==
  ASSUME IsFunction(args, body)
  PROVE  /\ ParameterPlaces \subseteq DOMAIN args
         /\ \E c \in Nat :
              /\ Wanted \in [1..c -> ParameterPlaces]
              /\ \A k \in ParameterPlaces : \E n \in 1..c : Wanted[n] = k
              /\ \A m, n \in 1..c : ComesBefore(Wanted[m], Wanted[n]) <=> m < n
<1> PICK S, R : /\ S = ParameterPlaces
                /\ R = {x \in ParameterPlaces \X ParameterPlaces : ComesBefore(x[1], x[2])}
  OBVIOUS
<1>1. Len(args) \in Nat /\ DOMAIN args = 1..Len(args)
  BY FunctionParts
<1>2. S \subseteq DOMAIN args
  BY DEF ParameterPlaces
<1>3. IsFiniteSet(S)
  <2>1. IsFiniteSet(1..Len(args))
    BY <1>1, FS_Interval
  <2> QED
    BY <1>1, <1>2, <2>1, FS_Subset
<1>4. \A j, k \in S : <<j, k>> \in R <=> ComesBefore(j, k)
  OBVIOUS
<1>5. \A k \in S : k \in Nat /\ FirstUse(args[k]) \in Nat
  BY <1>1, <1>2, FirstUseIs
<1>6. IsOrder(S, R)
  <2>1. \A j, k \in S : ComesBefore(j, k) <=>
          \/ FirstUse(args[j]) < FirstUse(args[k])
          \/ FirstUse(args[j]) = FirstUse(args[k]) /\ j < k
    BY DEF ComesBefore
  <2> QED
    BY ONLY <1>4, <1>5, <2>1 DEF IsOrder
<1>7. Wanted = InOrder(S, R)
  BY DEF Wanted
<1>8. /\ Cardinality(S) \in Nat
      /\ Wanted \in [1..Cardinality(S) -> S]
      /\ \A x \in S : \E n \in 1..Cardinality(S) : Wanted[n] = x
      /\ \A m, n \in 1..Cardinality(S) : <<Wanted[m], Wanted[n]>> \in R <=> m < n
  <2>1. /\ Cardinality(S) \in Nat
        /\ InOrder(S, R) \in [1..Cardinality(S) -> S]
        /\ \A x \in S : \E n \in 1..Cardinality(S) : InOrder(S, R)[n] = x
        /\ \A m, n \in 1..Cardinality(S) : <<InOrder(S, R)[m], InOrder(S, R)[n]>> \in R <=> m < n
    BY ONLY <1>3, <1>6, InOrderLists
  <2> QED
    BY <1>7, <2>1
<1>9. \A m, n \in 1..Cardinality(S) : ComesBefore(Wanted[m], Wanted[n]) <=> m < n
  BY <1>4, <1>8
<1> QED
  BY <1>2, <1>8, <1>9

\* The parameters created again stand for the old ones.
LEMMA RenewedIs ==
  ASSUME IsFunction(args, body), next \in Nat, NumbersAreBelow, HasInputs(args)
  PROVE  LET kept == Kept(args, DOMAIN args \ ParameterPlaces)
             new == [n \in DOMAIN Wanted |-> [args[Wanted[n]] EXCEPT !.id = next - 1 + n]]
         IN /\ Extends(args, body, kept, new, next)
            /\ Redirects(args, body, kept, new, next, Renewed)
            /\ HasInputs(kept) /\ Len(new) = Len(Wanted)
<1> PICK xs, ops, kept, new, W, by :
      /\ xs = args /\ ops = body /\ W = Wanted /\ by = Renewed
      /\ kept = Kept(args, DOMAIN args \ ParameterPlaces)
      /\ new = [n \in DOMAIN Wanted |-> [args[Wanted[n]] EXCEPT !.id = next - 1 + n]]
  OBVIOUS
<1> PICK d : d = DataOf(xs, ops)
  OBVIOUS
<1> PICK c \in Nat :
      /\ W \in [1..c -> ParameterPlaces]
      /\ \A k \in ParameterPlaces : \E n \in 1..c : W[n] = k
      /\ \A m, n \in 1..c : ComesBefore(W[m], W[n]) <=> m < n
  BY WantedIs
<1>1. ParameterPlaces \subseteq DOMAIN xs /\ DOMAIN W = 1..c
  BY WantedIs
<1>2. \A m, n \in 1..c : W[m] = W[n] => m = n
  <2> TAKE m, n \in 1..c
  <2> HAVE W[m] = W[n]
  <2>1. (ComesBefore(W[m], W[n]) <=> m < n) /\ (ComesBefore(W[n], W[m]) <=> n < m)
        /\ (ComesBefore(W[n], W[n]) <=> n < n)
    OBVIOUS
  <2>2. ~(n < n) /\ m \in Nat /\ n \in Nat
    OBVIOUS
  <2>3. ~(m < n) /\ ~(n < m)
    BY <2>1, <2>2
  <2> QED
    BY ONLY <2>2, <2>3
<1>3. /\ DOMAIN new = 1..c /\ new = [n \in 1..c |-> new[n]]
      /\ \A n \in 1..c : new[n] = [xs[W[n]] EXCEPT !.id = next - 1 + n]
  BY <1>1
<1>4. \A k \in DOMAIN xs : xs[k] \in Arguments
  BY FunctionParts
<1>5. ASSUME NEW n \in 1..c
      PROVE  /\ new[n].id = next - 1 + n /\ new[n].data = xs[W[n]].data
             /\ new[n].isParameter /\ new[n] \in Arguments
  <2> PICK x, y, i : x = xs[W[n]] /\ y = new[n] /\ i = next - 1 + n
    OBVIOUS
  <2>1. W[n] \in DOMAIN xs /\ x.isParameter /\ x \in Arguments
    BY <1>1, <1>4 DEF ParameterPlaces
  <2>2. i \in Nat
    BY ONLY i = next - 1 + n, next \in Nat, n \in 1..c, c \in Nat
  <2>3. y = [x EXCEPT !.id = i]
    BY <1>3
  <2>4. y.id = i /\ y.data = x.data /\ y.isParameter = x.isParameter /\ y \in Arguments
    BY ONLY <2>1, <2>2, <2>3 DEF Arguments
  <2> QED
    BY <2>1, <2>4
<1>6. new \in Seq(Arguments) /\ Len(new) = c
  BY ONLY <1>3, <1>5, c \in Nat, ListIsSeq
<1>7. /\ kept \in Seq(Arguments)
      /\ IdsOf(kept) = {xs[k].id : k \in DOMAIN xs \ ParameterPlaces}
      /\ IdsOf(kept) \subseteq IdsOf(xs)
      /\ \A j, k \in DOMAIN kept : kept[j].id = kept[k].id => j = k
      /\ \A k \in DOMAIN kept : d[kept[k].id] = kept[k].data
  <2> PICK places : places = DOMAIN xs \ ParameterPlaces
    OBVIOUS
  <2>1. places \subseteq DOMAIN xs /\ kept = Kept(xs, places) /\ IsFunction(xs, ops)
    OBVIOUS
  <2>2. /\ kept \in Seq(Arguments)
        /\ IdsOf(kept) = {xs[k].id : k \in places}
        /\ IdsOf(kept) \subseteq IdsOf(xs)
        /\ \A j, k \in DOMAIN kept : kept[j].id = kept[k].id => j = k
        /\ \A k \in DOMAIN kept : DataOf(xs, ops)[kept[k].id] = kept[k].data
    BY ONLY <2>1, KeptArguments
  <2> QED
    BY <2>2
<1>8. Extends(xs, ops, kept, new, next)
  BY <1>3, <1>5, <1>6, <1>7 DEF Extends, NumbersAreBelow
<1>9. HasInputs(kept)
  <2>1. \A k \in DOMAIN xs : ~xs[k].isParameter => k \in DOMAIN xs \ ParameterPlaces
    BY DEF ParameterPlaces
  <2>2. xs \in Seq(Arguments)
    BY DEF IsFunction
  <2> QED
    BY <2>1, <2>2, KeepingInputs
<1>10. Len(W) = c
  <2>1. W = [n \in 1..c |-> W[n]] /\ \A n \in 1..c : W[n] \in ParameterPlaces
    OBVIOUS
  <2> QED
    BY ONLY <2>1, c \in Nat, ListIsSeq
<1>11. ASSUME NEW k \in ParameterPlaces
       PROVE  /\ xs[k].id \in DOMAIN by
              /\ \E n \in DOMAIN new : by[xs[k].id] = new[n].id /\ new[n].data = xs[k].data
  <2>1. PICK n \in 1..c : W[n] = k
    OBVIOUS
  <2>2. \A m \in DOMAIN W : args[W[m]].id = xs[k].id <=> m = n
    BY <1>1, <1>2, <2>1 DEF IsFunction, IsNumbered
  <2>3. (CHOOSE m \in DOMAIN W : args[W[m]].id = xs[k].id) = n
    BY <1>1, <2>1, <2>2
  <2>4. xs[k].id \in Parameters
    BY DEF Parameters
  <2>5. by[xs[k].id] = next - 1 + n /\ xs[k].id \in DOMAIN by
    BY <2>3, <2>4 DEF Renewed
  <2>6. n \in DOMAIN new /\ by[xs[k].id] = new[n].id /\ new[n].data = xs[k].data
    BY <1>3, <1>5, <2>1, <2>5
  <2> QED
    BY <2>5, <2>6
<1>12. DOMAIN by = {xs[k].id : k \in ParameterPlaces}
  BY DEF Renewed, Parameters
<1>13. Redirects(xs, ops, kept, new, next, by)
  <2>1. ASSUME NEW k \in DOMAIN ops, NEW i \in DOMAIN ops[k].of
        PROVE  LET x == ops[k].of[i]
                   y == IF x \in DOMAIN by THEN by[x] ELSE x
               IN \/ IsBefore(kept, ops, y, k) /\ d[y] = d[x]
                  \/ \E n \in DOMAIN new : y = new[n].id /\ new[n].data = d[x]
    <3> PICK x : x = ops[k].of[i]
      OBVIOUS
    <3>1. IsBefore(xs, ops, x, k)
      BY DEF IsFunction
    <3>2. CASE x \in DOMAIN by
      <4>1. PICK j \in ParameterPlaces : xs[j].id = x
        BY <1>12, <3>2
      <4>4. \E n \in DOMAIN new : by[xs[j].id] = new[n].id /\ new[n].data = xs[j].data
        BY <1>11
      <4>2. PICK n \in DOMAIN new : by[x] = new[n].id /\ new[n].data = xs[j].data
        BY ONLY <4>1, <4>4, Zenon
      <4>3. d[x] = xs[j].data
        BY <1>1, <4>1, DataIs DEF IsDataOf
      <4> QED
        BY ONLY <3>2, <4>2, <4>3, x = ops[k].of[i], Zenon
    <3>3. CASE x \notin DOMAIN by
      <4>1. x \in IdsOf(xs) => x \in IdsOf(kept)
        <5>1. ASSUME x \in IdsOf(xs)
              PROVE  \E j \in DOMAIN xs \ ParameterPlaces : xs[j].id = x
          <6>1. PICK j \in DOMAIN xs : xs[j].id = x
            BY <5>1 DEF IdsOf
          <6>2. j \notin ParameterPlaces
            BY <1>12, <3>3, <6>1
          <6> QED
            BY <6>1, <6>2
        <5> QED
          BY ONLY <1>7, <5>1, Zenon
      <4>2. IsBefore(kept, ops, x, k)
        BY <3>1, <4>1 DEF IsBefore
      <4> QED
        BY <3>3, <4>2
    <3> QED
      BY <3>2, <3>3
  <2> QED
    BY ONLY <2>1, d = DataOf(xs, ops) DEF Redirects
<1> QED
  BY <1>6, <1>8, <1>9, <1>10, <1>13

\* Creating the parameters again in order of first use
\* (reorderParameterArgsByFirstUse) keeps the invariant.
LEMMA ReorderKeeps ==
  ASSUME IInv, Reorder
  PROVE  IInv'
<1>1. /\ PhaseIs /\ IsFunction(args, body) /\ UsesKeep(args, body)
      /\ NumbersAreBelow /\ SendsStay /\ SlotsHold /\ HasInputs(args)
  BY DEF IInv, InputsStay, Reorder
<1>2. /\ func' = func /\ slots' = slots /\ round' = round /\ lowered' = lowered
      /\ phase = "reorder" /\ phase' # "annotate" /\ round \in 1..3
      /\ phase' = IF round = 1 THEN "lower" ELSE IF round = 2 THEN "cleanup" ELSE "done"
  <2>1. phase' = CASE round = 1 -> "lower" [] round = 2 -> "cleanup" [] OTHER -> "done"
    BY DEF Reorder
  <2>2. phase' = IF round = 1 THEN "lower" ELSE IF round = 2 THEN "cleanup" ELSE "done"
    BY <2>1
  <2> QED
    BY <1>1, <2>2 DEF Reorder, PhaseIs
<1>3. CASE UNCHANGED <<args, body, next, moved>>
  <2>1. /\ IsInput(0)' = IsInput(0) /\ SlotNames' = SlotNames
        /\ Meaning' = Meaning /\ InitSends' = InitSends
        /\ \A k : IsInput(k)' = IsInput(k)
        /\ \A s : SlotSend(s)' = SlotSend(s) /\ SlotMeaning(s)' = SlotMeaning(s)
    BY <1>2, FuncStays
  <2>2. PhaseIs'
    BY <1>1, <1>2, <1>3 DEF PhaseIs
  <2>3. NumbersAreBelow'
    BY <1>1, <1>3 DEF NumbersAreBelow
  <2>4. SendsStay'
    BY <1>1, <1>2, <1>3, <2>1 DEF SendsStay
  <2>5. SlotsHold'
    <3>1. Data' = Data /\ ArgIds' = ArgIds
      BY <1>3 DEF Data, ArgIds
    <3>2. \A s \in SlotNames : SlotHolds(s) => SlotHolds(s)'
      BY <1>2, <1>3, <2>1, <3>1 DEF SlotHolds
    <3> QED
      BY <1>1, <1>2, <2>1, <3>2 DEF SlotsHold
  <2>6. InputsStay'
    BY <1>1, <1>2, <1>3, <2>1 DEF InputsStay, HasInputs
  <2> QED
    BY <1>1, <1>3, <2>2, <2>3, <2>4, <2>5, <2>6 DEF IInv
<1>4. CASE /\ args' = Kept(args, DOMAIN args \ ParameterPlaces)
                      \o [n \in DOMAIN Wanted |-> [args[Wanted[n]] EXCEPT !.id = next - 1 + n]]
           /\ body' = Substituted(body, Renewed)
           /\ next' = next + Len(Wanted)
           /\ moved' = TRUE
  <2> PICK kept, new, by :
        /\ by = Renewed
        /\ kept = Kept(args, DOMAIN args \ ParameterPlaces)
        /\ new = [n \in DOMAIN Wanted |-> [args[Wanted[n]] EXCEPT !.id = next - 1 + n]]
    OBVIOUS
  <2>1. /\ Extends(args, body, kept, new, next)
        /\ Redirects(args, body, kept, new, next, by)
        /\ HasInputs(kept) /\ Len(new) = Len(Wanted)
    BY <1>1, RenewedIs DEF PhaseIs
  <2>2. ReplacesBy(kept, new, by)
    BY <1>2, <1>4, <2>1 DEF ReplacesBy
  <2>3. /\ IsFunction(args, body)' /\ UsesKeep(args, body)'
        /\ NumbersAreBelow' /\ SendsStay' /\ InputsStay'
        /\ DOMAIN slots' = SlotNames' /\ next' \in Nat /\ next' > 0
        /\ round = 1 => \A s \in SlotNames : HasMeaning(s)'
    BY <2>2, ReplacingKeeps
  <2>4. PhaseIs'
    BY <1>1, <1>2, <1>4, <2>3 DEF PhaseIs
  <2>5. SlotsHold'
    <3>1. \A s : HasMeaning(s)' => SlotHolds(s)'
      BY <1>4 DEF HasMeaning, SlotHolds
    <3>2. SlotNames' = SlotNames
      BY <1>2, FuncStays
    <3> QED
      BY <1>2, <2>3, <3>1, <3>2 DEF SlotsHold
  <2> QED
    BY <2>3, <2>4, <2>5 DEF IInv
<1> QED
  BY <1>3, <1>4 DEF Reorder

\* The new parameters and what stands for each slice of a parameter.
LEMMA LiftedIs ==
  ASSUME IsFunction(args, body), next \in Nat, NumbersAreBelow
  PROVE  LET new == [n \in DOMAIN Lifts |->
                       [id |-> next - 1 + n, data |-> Data[body[Lifts[n]].id],
                        isParameter |-> TRUE]]
         IN /\ Extends(args, body, args, new, next)
            /\ Redirects(args, body, args, new, next, Lifted)
            /\ Len(new) = Len(Lifts) /\ DOMAIN Lifted \subseteq IdsOf(body)
<1> PICK xs, ops, new, W, by :
      /\ xs = args /\ ops = body /\ W = Lifts /\ by = Lifted
      /\ new = [n \in DOMAIN Lifts |->
                  [id |-> next - 1 + n, data |-> Data[body[Lifts[n]].id], isParameter |-> TRUE]]
  OBVIOUS
<1> PICK d : d = DataOf(xs, ops)
  OBVIOUS
<1>0. d \in [Values(xs, ops) -> Seq(Words)] /\ IsDataOf(xs, ops, d)
  BY DataIs
<1>1. Len(ops) \in Nat /\ DOMAIN ops = 1..Len(ops) /\ FirstCuts \subseteq Cuts
      /\ Cuts \subseteq Slices /\ Slices \subseteq DOMAIN ops
  BY FunctionParts DEF FirstCuts, Cuts, Slices
<1>2. ASSUME NEW k \in Slices
      PROVE  /\ k \in Nat /\ ops[k].kind = "slice" /\ 1 \in DOMAIN ops[k].of
             /\ ops[k].of[1] \in IdsOf(xs)
             /\ PlaceOf(xs, ops[k].of[1]) \in Nat
             /\ d[ops[k].id] = d[ops[k].of[1]] \o ops[k].part
  <2>1. k \in DOMAIN ops /\ ops[k].kind = "slice" /\ ops[k].of[1] \in Parameters
    BY DEF Slices
  <2>2. ops[k].of[1] \in IdsOf(xs)
    BY <2>1 DEF Parameters, ParameterPlaces, IdsOf
  <2>3. PICK j \in DOMAIN xs : xs[j].id = ops[k].of[1]
    BY <2>2 DEF IdsOf
  <2>4. PlaceOf(xs, ops[k].of[1]) = j
    BY <2>3, ArgumentParts
  <2>5. Len(xs) \in Nat /\ DOMAIN xs = 1..Len(xs)
    BY FunctionParts
  <2>6. j \in Nat
    BY <2>5
  <2>7. d[ops[k].id] = Result(ops[k], d)
    BY <1>0, <2>1 DEF IsDataOf
  <2>8. Result(ops[k], d) = d[ops[k].of[1]] \o ops[k].part
    BY <2>1 DEF Result
  <2>9. 1 \in DOMAIN ops[k].of /\ k \in Nat
    BY <2>1, OperandParts, OperationParts
  <2> QED
    BY <2>1, <2>2, <2>4, <2>6, <2>7, <2>8, <2>9
<1> PICK S, R : S = FirstCuts /\ R = {x \in FirstCuts \X FirstCuts : LiftsBefore(x[1], x[2])}
  OBVIOUS
<1>3. IsFiniteSet(S)
  <2>1. IsFiniteSet(1..Len(ops))
    BY <1>1, FS_Interval
  <2> QED
    BY <1>1, <2>1, FS_Subset
<1>4. IsOrder(S, R)
  <2>1. \A j, k \in S : <<j, k>> \in R <=>
          \/ PlaceOf(xs, ops[j].of[1]) < PlaceOf(xs, ops[k].of[1])
          \/ PlaceOf(xs, ops[j].of[1]) = PlaceOf(xs, ops[k].of[1]) /\ j < k
    BY DEF LiftsBefore
  <2>2. \A k \in S : k \in Nat /\ PlaceOf(xs, ops[k].of[1]) \in Nat
    BY <1>1, <1>2
  <2> QED
    BY ONLY <2>1, <2>2 DEF IsOrder
<1> PICK c : c = Cardinality(S)
  OBVIOUS
<1>5. /\ c \in Nat /\ W \in [1..c -> S]
      /\ \A x \in S : \E n \in 1..c : W[n] = x
  <2>1. /\ Cardinality(S) \in Nat
        /\ InOrder(S, R) \in [1..Cardinality(S) -> S]
        /\ \A x \in S : \E n \in 1..Cardinality(S) : InOrder(S, R)[n] = x
    BY ONLY <1>3, <1>4, InOrderLists
  <2>2. W = InOrder(S, R)
    BY DEF Lifts
  <2> QED
    BY ONLY <2>1, <2>2, c = Cardinality(S)
<1>6. /\ DOMAIN new = 1..c /\ new = [n \in 1..c |-> new[n]]
      /\ \A n \in 1..c : new[n] = [id |-> next - 1 + n, data |-> d[ops[W[n]].id],
                                   isParameter |-> TRUE]
  BY <1>5 DEF Data
<1>7. ASSUME NEW n \in 1..c
      PROVE  /\ new[n].id = next - 1 + n /\ new[n].data = d[ops[W[n]].id]
             /\ new[n].isParameter /\ new[n] \in Arguments
  <2> PICK y, i, v : y = new[n] /\ i = next - 1 + n /\ v = d[ops[W[n]].id]
    OBVIOUS
  <2>1. v \in Seq(Words)
    <3>1. W[n] \in DOMAIN ops
      BY <1>1, <1>5
    <3>2. ops[W[n]].id \in Values(xs, ops)
      BY <3>1, OperationParts
    <3> QED
      BY <1>0, <3>2
  <2>2. i \in Nat
    BY ONLY i = next - 1 + n, next \in Nat, n \in 1..c, <1>5
  <2>3. y = [id |-> i, data |-> v, isParameter |-> TRUE]
    BY <1>6
  <2>4. y.id = i /\ y.data = v /\ y.isParameter /\ y \in Arguments
    BY ONLY <2>1, <2>2, <2>3 DEF Arguments
  <2> QED
    BY <2>4, Zenon
<1>8. new \in Seq(Arguments) /\ Len(new) = c
  BY ONLY <1>5, <1>6, <1>7, ListIsSeq
<1>9. Len(W) = c
  <2>1. W = [n \in 1..c |-> W[n]] /\ \A n \in 1..c : W[n] \in S
    BY <1>5
  <2> QED
    BY ONLY <1>5, <2>1, ListIsSeq
<1>10. Extends(xs, ops, xs, new, next)
  <2>1. xs \in Seq(Arguments) /\ \A j, k \in DOMAIN xs : xs[j].id = xs[k].id => j = k
    BY DEF IsFunction, IsNumbered
  <2>2. \A k \in DOMAIN xs : d[xs[k].id] = xs[k].data
    BY <1>0 DEF IsDataOf
  <2> QED
    BY <1>6, <1>7, <1>8, <2>1, <2>2 DEF Extends, NumbersAreBelow
<1>11. ASSUME NEW k \in Cuts
       PROVE  \E n \in 1..c : Number(k) = n /\ d[ops[W[n]].id] = d[ops[k].id]
  <2> DEFINE T == {j \in Cuts : SliceKey(ops[j]) = SliceKey(ops[k])}
  <2>1. T \in SUBSET Nat /\ T # {}
    BY <1>1, <1>2
  <2>2. PICK j \in T : \A i \in T : j <= i
    BY <2>1, LeastNumber
  <2>3. j \in FirstCuts
    BY <2>2 DEF FirstCuts
  <2>4. PICK m \in 1..c : W[m] = j
    BY <1>5, <2>3
  <2>5. m \in DOMAIN Lifts /\ SliceKey(body[Lifts[m]]) = SliceKey(body[k])
    BY <1>5, <2>2, <2>4
  <2>6. Number(k) \in DOMAIN Lifts /\ SliceKey(body[Lifts[Number(k)]]) = SliceKey(body[k])
    BY <2>5 DEF Number
  <2> PICK n : n = Number(k)
    OBVIOUS
  <2>7. n \in 1..c /\ W[n] \in Slices /\ k \in Slices /\ SliceKey(ops[W[n]]) = SliceKey(ops[k])
    BY <1>1, <1>5, <2>6
  <2>8. ops[W[n]].of[1] = ops[k].of[1] /\ ops[W[n]].part = ops[k].part
    BY <2>7 DEF SliceKey
  <2>9. d[ops[W[n]].id] = d[ops[W[n]].of[1]] \o ops[W[n]].part
    BY <1>2, <2>7, Zenon
  <2>10. d[ops[k].id] = d[ops[k].of[1]] \o ops[k].part
    BY <1>2, <2>7, Zenon
  <2>11. d[ops[W[n]].id] = d[ops[k].id]
    BY <2>8, <2>9, <2>10, Zenon
  <2> QED
    BY <2>7, <2>11
<1>12. DOMAIN by = {ops[k].id : k \in Slices} /\ DOMAIN by \subseteq IdsOf(ops)
  BY <1>1 DEF Lifted, IdsOf
<1>13. ASSUME NEW k \in Slices
       PROVE  by[ops[k].id] = IF k \in Cuts THEN next - 1 + Number(k) ELSE ops[k].of[1]
  <2>1. PlaceOf(ops, ops[k].id) = k
    BY <1>1, OperationParts
  <2> QED
    BY <1>12, <2>1 DEF Lifted
<1>14. ASSUME NEW x \in DOMAIN by, NEW m
       PROVE  \/ IsBefore(xs, ops, by[x], m) /\ d[by[x]] = d[x]
              \/ \E n \in DOMAIN new : by[x] = new[n].id /\ new[n].data = d[x]
  <2>1. PICK k \in Slices : ops[k].id = x
    BY <1>12
  <2>2. CASE k \in Cuts
    <3>1. PICK n \in 1..c : Number(k) = n /\ d[ops[W[n]].id] = d[ops[k].id]
      BY <1>11, <2>2
    <3>2. by[x] = next - 1 + n
      BY <1>13, <2>1, <2>2, <3>1
    <3> QED
      BY <1>6, <1>7, <2>1, <3>1, <3>2
  <2>3. CASE k \notin Cuts
    <3>1. by[x] = ops[k].of[1] /\ ops[k].part = <<>>
      BY <1>13, <2>1, <2>3 DEF Cuts
    <3>2. d[x] = d[ops[k].of[1]] \o <<>> /\ ops[k].of[1] \in IdsOf(xs)
      BY <1>2, <2>1, <3>1
    <3> PICK v : v = d[ops[k].of[1]]
      OBVIOUS
    <3>3. v \in Seq(Words)
      BY <1>0, <3>2 DEF Values
    <3>4. v \o <<>> = v
      BY ONLY <3>3, ConcatEmptySeq
    <3> QED
      BY <3>1, <3>2, <3>4 DEF IsBefore
  <2> QED
    BY <2>2, <2>3
<1>15. Redirects(xs, ops, xs, new, next, by)
  <2>1. ASSUME NEW k \in DOMAIN ops, NEW i \in DOMAIN ops[k].of
        PROVE  LET x == ops[k].of[i]
                   y == IF x \in DOMAIN by THEN by[x] ELSE x
               IN \/ IsBefore(xs, ops, y, k) /\ d[y] = d[x]
                  \/ \E n \in DOMAIN new : y = new[n].id /\ new[n].data = d[x]
    <3> PICK x : x = ops[k].of[i]
      OBVIOUS
    <3>1. IsBefore(xs, ops, x, k)
      BY DEF IsFunction
    <3>2. CASE x \in DOMAIN by
      BY ONLY <1>14, <3>2, x = ops[k].of[i], Zenon
    <3>3. CASE x \notin DOMAIN by
      BY <3>1, <3>3
    <3> QED
      BY <3>2, <3>3
  <2> QED
    BY ONLY <2>1, d = DataOf(xs, ops) DEF Redirects
<1> QED
  BY <1>8, <1>9, <1>10, <1>12, <1>15

\* Lifting slices of parameters (liftParameterSlices) keeps the invariant.
LEMMA LiftKeeps ==
  ASSUME IInv, Lift
  PROVE  IInv'
<1>1. /\ PhaseIs /\ IsFunction(args, body) /\ UsesKeep(args, body)
      /\ NumbersAreBelow /\ SendsStay /\ SlotsHold /\ HasInputs(args)
  BY DEF IInv, InputsStay, Lift
<1> PICK new, by :
      /\ by = Lifted
      /\ new = [n \in DOMAIN Lifts |->
                  [id |-> next - 1 + n, data |-> Data[body[Lifts[n]].id], isParameter |-> TRUE]]
  OBVIOUS
<1>2. /\ Extends(args, body, args, new, next)
      /\ Redirects(args, body, args, new, next, by)
      /\ Len(new) = Len(Lifts) /\ DOMAIN by \subseteq IdsOf(body)
  BY <1>1, LiftedIs DEF PhaseIs
<1>3. /\ func' = func /\ slots' = slots /\ round' = round /\ lowered' = lowered
      /\ moved' = moved /\ phase' = "erase" /\ round \in 1..3 /\ phase = "lift"
      /\ args' = args \o new /\ body' = Substituted(body, by) /\ next' = next + Len(new)
  BY <1>1, <1>2 DEF Lift, Remaining, PhaseIs
<1>4. ReplacesBy(args, new, by)
  BY <1>1, <1>2, <1>3, Zenon DEF ReplacesBy
<1>5. /\ IsFunction(args, body)' /\ UsesKeep(args, body)'
      /\ NumbersAreBelow' /\ SendsStay' /\ InputsStay'
      /\ IdsOf(body') = IdsOf(body) /\ DOMAIN body' = DOMAIN body
      /\ DOMAIN slots' = SlotNames' /\ next' \in Nat /\ next' > 0
      /\ round = 1 => \A s \in SlotNames : HasMeaning(s)'
  BY <1>4, ReplacingKeeps
<1>6. PhaseIs'
  BY <1>1, <1>3, <1>5 DEF PhaseIs
<1>7. SlotNames' = SlotNames /\ \A s : SlotSend(s)' = SlotSend(s)
  BY <1>3, FuncStays
<1>8. ASSUME NEW s \in SlotNames, round = 1
      PROVE  SlotHolds(s)'
  <2> PICK id, j : id = slots[s] /\ j = SlotSend(s)
    OBVIOUS
  <2>1. HasMeaning(s)'
    BY <1>5, <1>8
  <2>2. ASSUME ~moved
        PROVE  id \in Values(args', body') /\ (id \in IdsOf(args') => body'[j].of[1] = id)
    <3>1. /\ id \in 1..(next - 1) /\ id \in Values(args, body)
          /\ id \in IdsOf(args) => body[j].of[1] = id
      BY <1>1, <1>8, <2>2 DEF SlotsHold, SlotHolds, ArgIds
    <3>2. /\ IdsOf(args') = IdsOf(args) \cup {next - 1 + n : n \in DOMAIN new}
          /\ DOMAIN new = 1..Len(new) /\ Len(new) \in Nat
      <4> PICK xs, ops, ys, nx : xs = args /\ ops = body /\ ys = args' /\ nx = next
        BY SMTT(30)
      <4>1. Extends(xs, ops, xs, new, nx) /\ ys = xs \o new
        BY <1>2, <1>3
      <4>2. /\ IdsOf(ys) = IdsOf(xs) \cup {nx - 1 + n : n \in DOMAIN new}
            /\ DOMAIN new = 1..Len(new) /\ Len(new) \in Nat
        BY ONLY <4>1, ExtendedArguments
      <4> QED
        BY <4>2
    <3>3. id \in Values(args', body')
      BY <1>5, <3>1, <3>2 DEF Values
    <3>4. ASSUME id \in IdsOf(args')
          PROVE  body'[j].of[1] = id
      <4>1. next \in Nat
        BY <1>1 DEF PhaseIs
      <4>2. \A n \in DOMAIN new : id # next - 1 + n
        BY ONLY <3>1, <3>2, <4>1
      <4>3. id \in IdsOf(args)
        BY <3>2, <3>4, <4>2
      <4>4. j \in DOMAIN body
        BY <1>1, <1>8, SlotSendIs DEF PhaseIs, SendsStay
      <4>5. 1 \in DOMAIN body[j].of
        BY <1>1, <4>4, OperandParts
      <4>6. id \notin DOMAIN by
        BY <1>1, <1>2, <4>3 DEF IsFunction, IsNumbered, IdsOf
      <4>7. body'[j].of = [i \in DOMAIN body[j].of |->
                             IF body[j].of[i] \in DOMAIN by THEN by[body[j].of[i]]
                             ELSE body[j].of[i]]
        <5>1. body \in Seq(Operations)
          BY <1>1 DEF IsFunction
        <5> PICK qs : qs = Substituted(body, by)
          OBVIOUS
        <5>2. qs[j].of = [i \in DOMAIN body[j].of |->
                            IF body[j].of[i] \in DOMAIN by THEN by[body[j].of[i]]
                            ELSE body[j].of[i]]
          BY ONLY <4>4, <5>1, qs = Substituted(body, by), SubstitutedKeeps
        <5> QED
          BY <1>3, <5>2
      <4>8. body[j].of[1] = id
        BY <3>1, <4>3
      <4> QED
        BY <4>5, <4>6, <4>7, <4>8
    <3> QED
      BY <3>3, <3>4
  <2> QED
    BY <1>3, <1>7, <2>1, <2>2 DEF HasMeaning, SlotHolds, ArgIds
<1>9. SlotsHold'
  BY ONLY <1>3, <1>5, <1>7, <1>8, SMTT(30) DEF SlotsHold
<1> QED
  BY <1>5, <1>6, <1>9 DEF IInv

\* Adding an operation keeps what the sinks get.
LEMMA AddingKeepsUses ==
  ASSUME NEW xs, NEW ops, IsFunction(xs, ops), UsesKeep(xs, ops),
         NEW op, op \in Operations, op.id \notin Values(xs, ops),
         Len(op.of) = IF op.kind = "join" THEN 2 ELSE 1,
         \A i \in DOMAIN op.of : IsBefore(xs, ops, op.of[i], Len(ops) + 1),
         op.kind \in Sinks => DataOf(xs, ops)[op.of[1]] = op.want
  PROVE  UsesKeep(xs, ops \o <<op>>)
<1> PICK qs, d, c, n : qs = ops \o <<op>> /\ d = DataOf(xs, ops) /\ c = DataOf(xs, ops \o <<op>>)
                       /\ n = Len(ops)
  OBVIOUS
<1>1. /\ IsFunction(xs, qs)
      /\ \A id \in Values(xs, ops) : c[id] = d[id]
  BY AddingAnOperation, SMTT(30)
<1>2. ops \in Seq(Operations) /\ n \in Nat /\ DOMAIN ops = 1..n
  BY FunctionParts DEF IsFunction
<1>3. DOMAIN qs = 1..(n + 1) /\ qs[n + 1] = op /\ \A k \in DOMAIN ops : qs[k] = ops[k]
  BY <1>2, AppendedIs
<1>4. ASSUME NEW k \in DOMAIN qs, qs[k].kind \in Sinks
      PROVE  c[qs[k].of[1]] = qs[k].want
  <2>1. CASE k \in DOMAIN ops
    <3>1. 1 \in DOMAIN ops[k].of
      BY <2>1, OperandParts
    <3>2. ops[k].of[1] \in Values(xs, ops)
      BY <2>1, <3>1, OperandParts
    <3>3. d[ops[k].of[1]] = ops[k].want
      BY <1>3, <1>4, <2>1 DEF UsesKeep
    <3> QED
      BY <1>1, <1>3, <2>1, <3>2, <3>3
  <2>2. CASE k = n + 1
    <3>1. op.of \in Seq(Nat)
      BY DEF Operations
    <3>2. 1 \in DOMAIN op.of
      BY <3>1, LenProperties
    <3>3. IsBefore(xs, ops, op.of[1], n + 1)
      BY <3>2
    <3>4. op.of[1] \in Values(xs, ops)
      BY <3>3 DEF IsBefore, Values, IdsOf
    <3> QED
      BY <1>1, <1>3, <1>4, <2>2, <3>4
  <2>3. k \in DOMAIN ops \/ k = n + 1
    BY ONLY <1>2, <1>3, k \in DOMAIN qs
  <2> QED
    BY <2>1, <2>2, <2>3
<1> QED
  BY <1>4 DEF UsesKeep

\* An operation of a new number that takes values there are, and, if it is a
\* sink, should get what it gets.
IsNext(xs, ops, op) ==
  /\ op \in Operations /\ op.id \notin Values(xs, ops)
  /\ Len(op.of) = IF op.kind = "join" THEN 2 ELSE 1
  /\ \A i \in DOMAIN op.of : IsBefore(xs, ops, op.of[i], Len(ops) + 1)
  /\ op.kind \in Sinks => DataOf(xs, ops)[op.of[1]] = op.want

\* What it is to have it behind the others.
IsAdded(xs, ops, op, qs) ==
  /\ IsFunction(xs, qs) /\ UsesKeep(xs, qs)
  /\ IdsOf(qs) = IdsOf(ops) \cup {op.id}
  /\ \A id \in Values(xs, ops) : DataOf(xs, qs)[id] = DataOf(xs, ops)[id]
  /\ DataOf(xs, qs)[op.id] = Result(op, DataOf(xs, ops))
  /\ Len(ops) \in Nat /\ Len(qs) = Len(ops) + 1 /\ qs[Len(ops) + 1] = op
  /\ \A k \in DOMAIN ops : k \in DOMAIN qs /\ qs[k] = ops[k]
  /\ Len(ops) + 1 \in DOMAIN qs

\* An operation IsNext speaks of can be added.
LEMMA NextIsAdded ==
  ASSUME NEW xs, NEW ops, IsFunction(xs, ops), UsesKeep(xs, ops), NEW op, IsNext(xs, ops, op)
  PROVE  IsAdded(xs, ops, op, ops \o <<op>>)
<1> PICK qs : qs = ops \o <<op>>
  OBVIOUS
<1>1. /\ op \in Operations /\ op.id \notin Values(xs, ops)
      /\ Len(op.of) = IF op.kind = "join" THEN 2 ELSE 1
      /\ \A i \in DOMAIN op.of : IsBefore(xs, ops, op.of[i], Len(ops) + 1)
      /\ op.kind \in Sinks => DataOf(xs, ops)[op.of[1]] = op.want
  BY DEF IsNext
<1>2. /\ IsFunction(xs, ops \o <<op>>)
      /\ IdsOf(ops \o <<op>>) = IdsOf(ops) \cup {op.id}
      /\ \A id \in Values(xs, ops) : DataOf(xs, ops \o <<op>>)[id] = DataOf(xs, ops)[id]
      /\ DataOf(xs, ops \o <<op>>)[op.id] = Result(op, DataOf(xs, ops))
  BY <1>1, AddingAnOperation
<1>3. UsesKeep(xs, ops \o <<op>>)
  BY <1>1, AddingKeepsUses
<1>4. ops \in Seq(Operations)
  BY DEF IsFunction
<1> PICK n : n = Len(ops)
  OBVIOUS
<1>5. /\ n \in Nat /\ DOMAIN ops = 1..n /\ Len(qs) = n + 1 /\ DOMAIN qs = 1..(n + 1)
      /\ qs[n + 1] = op /\ \A k \in 1..n : qs[k] = ops[k]
  BY ONLY <1>1, <1>4, n = Len(ops), qs = ops \o <<op>>, AppendedIs
<1>6. /\ \A k \in DOMAIN ops : k \in DOMAIN qs /\ qs[k] = ops[k]
      /\ n + 1 \in DOMAIN qs
  BY ONLY <1>5
<1> QED
  BY <1>2, <1>3, <1>5, <1>6 DEF IsAdded

\* A load that is left and what it takes.
IsLoad(load, source) ==
  /\ phase = "lower" /\ lowered < Len(func.loads)
  /\ load = func.loads[lowered + 1] /\ source = Source(load)

\* What a load takes is what its slot should have; if it is no more, the
\* parameters have been put in another order.
LEMMA SourceIs ==
  ASSUME IInv, NEW load, NEW source, IsLoad(load, source)
  PROVE  /\ load.slot \in SlotNames /\ load.part \in Seq(Words)
         /\ source \in Values(args, body) =>
              /\ IsBefore(args, body, source, Len(body) + 1)
              /\ Data[source] = SlotMeaning(load.slot)
         /\ source \notin Values(args, body) => moved
<1>1. /\ PhaseIs /\ IsFunction(args, body) /\ UsesKeep(args, body)
      /\ SendsStay /\ SlotsHold
  BY DEF IInv
<1>2. /\ lowered < Len(func.loads) /\ round = 1 /\ func \in Funcs /\ lowered \in Nat
      /\ load = func.loads[lowered + 1] /\ source = Source(load)
  BY <1>1 DEF PhaseIs, IsLoad
<1>3. /\ func.loads \in Seq({func.loads[k] : k \in DOMAIN func.loads})
      /\ \A k \in DOMAIN func.loads :
           /\ \E j \in DOMAIN func.body : func.body[j].kind = "init"
                                          /\ func.body[j].slot = func.loads[k].slot
           /\ func.loads[k].part \in Seq(STRING)
  BY <1>2, FuncsAssumption DEF IsGiven
<1>4. lowered + 1 \in DOMAIN func.loads
  <2>1. Len(func.loads) \in Nat /\ DOMAIN func.loads = 1..Len(func.loads)
    BY <1>3, LenProperties
  <2> QED
    BY <1>2, <2>1
<1>5. load.part \in Seq(Words)
  BY <1>2, <1>3, <1>4, StringsAreWords
<1> PICK s : s = load.slot
  OBVIOUS
<1>6. s \in SlotNames
  BY <1>2, <1>3, <1>4 DEF SlotNames, InitSends
<1> PICK k : k = SlotSend(s)
  OBVIOUS
<1>7. k \in InitSends /\ k \in DOMAIN func.body /\ func.body[k].kind = "init"
  BY <1>2, <1>6, SlotSendIs
<1>8. CASE load.form = "recv"
  <2>1. k \in DOMAIN body /\ body[k].id = Len(func.args) + k /\ body[k].kind = "init"
        /\ body[k].want = SlotMeaning(s)
    BY <1>1, <1>2, <1>7 DEF SendsStay, SlotMeaning
  <2>2. PlaceOf(body, Len(func.args) + k) = k
    BY <1>1, <2>1, OperationParts
  <2>3. source = body[k].of[1]
    BY <1>2, <1>8, <2>2 DEF Source
  <2>4. 1 \in DOMAIN body[k].of
    BY <1>1, <2>1, OperandParts
  <2>5. source \in Values(args, body) /\ IsBefore(args, body, source, k)
    BY <1>1, <2>1, <2>3, <2>4, OperandParts DEF IsFunction
  <2>6. Data[source] = SlotMeaning(s)
    BY <1>1, <2>1, <2>3 DEF UsesKeep, Data, Sinks
  <2>7. IsBefore(args, body, source, Len(body) + 1)
    <3>1. Len(body) \in Nat /\ DOMAIN body = 1..Len(body)
      BY <1>1, FunctionParts
    <3>2. \A j \in DOMAIN body : j < Len(body) + 1
      BY ONLY <3>1
    <3> QED
      BY <2>5, <3>2 DEF IsBefore
  <2> QED
    BY <1>5, <1>6, <2>5, <2>6, <2>7
<1>9. CASE load.form # "recv"
  <2>1. source = slots[s]
    BY <1>2, <1>9 DEF Source
  <2>2. SlotHolds(s)
    BY <1>1, <1>2, <1>6 DEF SlotsHold
  <2> QED
    BY <1>1, <1>5, <1>6, <2>1, <2>2 DEF SlotHolds, PhaseIs
<1> QED
  BY <1>8, <1>9

\* The slice a load takes gives its part of what it takes.
LEMMA SliceOfIs ==
  ASSUME IsFunction(args, body), next \in Nat, NEW load, load.part \in Seq(Words),
         NEW source, source \in Values(args, body),
         IsBefore(args, body, source, Len(body) + 1), NEW op, op = SliceOf(load, source)
  PROVE  /\ op \in Operations /\ op.id = next /\ op.kind = "slice"
         /\ op.of = <<op.of[1]>>
         /\ IsBefore(args, body, op.of[1], Len(body) + 1)
         /\ Result(op, Data) = Data[source] \o load.part
<1> PICK xs, ops, d, f : xs = args /\ ops = body /\ d = DataOf(xs, ops) /\ f = Direct(xs, ops)
  OBVIOUS
<1>1. d \in [Values(xs, ops) -> Seq(Words)]
  BY DataIs
<1>2. /\ f[source].of \in Values(xs, ops) /\ f[source].part \in Seq(Words)
      /\ d[f[source].of] \o f[source].part = d[source]
      /\ \A k \in Nat : IsBefore(xs, ops, source, k) => IsBefore(xs, ops, f[source].of, k)
  BY DirectKeepsData
<1> PICK from, part :
      /\ from = IF load.form = "cut" THEN f[source].of ELSE source
      /\ part = IF load.form = "cut" THEN f[source].part \o load.part ELSE load.part
  OBVIOUS
<1>3. op = [id |-> next, kind |-> "slice", of |-> <<from>>, part |-> part, want |-> <<>>]
  BY DEF SliceOf
<1>4. from \in Values(xs, ops) /\ part \in Seq(Words)
  <2>1. f[source].part \o load.part \in Seq(Words)
    BY <1>2, ConcatProperties
  <2> QED
    BY <1>2, <2>1
<1>5. IsBefore(xs, ops, from, Len(ops) + 1)
  <2>1. Len(ops) + 1 \in Nat
    BY FunctionParts, SMTT(30)
  <2> QED
    BY <1>2, <2>1
<1>6. d[from] \o part = d[source] \o load.part
  <2>1. CASE load.form = "cut"
    <3> PICK u, v, p : u = d[f[source].of] /\ v = f[source].part /\ p = load.part
      OBVIOUS
    <3>1. u \in Seq(Words) /\ v \in Seq(Words) /\ p \in Seq(Words)
      BY <1>1, <1>2
    <3>2. (u \o v) \o p = u \o (v \o p)
      BY ONLY <3>1, ConcatAssociative
    <3>3. u \o v = d[source] /\ d[from] = u /\ part = v \o p
      BY <1>2, <2>1
    <3> QED
      BY ONLY <3>2, <3>3, p = load.part, Zenon
  <2>2. CASE load.form # "cut"
    BY <2>2
  <2> QED
    BY <2>1, <2>2
<1>7. from \in Nat
  <2>1. CASE from \in IdsOf(xs)
    BY <1>4, <2>1, ValueIs, ArgumentParts
  <2>2. CASE from \in IdsOf(ops)
    BY <1>4, <2>2, OperationParts DEF IdsOf
  <2> QED
    BY <1>4, <2>1, <2>2 DEF Values
<1>8. /\ op.id = next /\ op.kind = "slice" /\ op.of = <<from>> /\ op.part = part
      /\ op \in Operations
  <2>1. <<from>> \in Seq(Nat)
    <3>1. <<from>> \in [1..1 -> Nat]
      BY <1>7
    <3> QED
      BY <3>1, SeqDef
  <2>2. <<>> \in Seq(Words)
    BY EmptySeq
  <2> PICK of : of = <<from>>
    OBVIOUS
  <2>3. op = [id |-> next, kind |-> "slice", of |-> of, part |-> part, want |-> <<>>]
    BY <1>3
  <2>4. op.id = next /\ op.kind = "slice" /\ op.of = of /\ op.part = part
    BY ONLY <2>3
  <2>5. op \in Operations
    BY ONLY <1>4, <2>1, <2>2, <2>3, of = <<from>>, next \in Nat DEF Operations, Kinds
  <2> QED
    BY <2>4, <2>5
<1>9. op.of[1] = from
  BY <1>8, SMTT(30)
<1>10. Result(op, d) = d[from] \o part
  BY <1>8, <1>9 DEF Result
<1> QED
  BY <1>5, <1>6, <1>8, <1>9, <1>10, Zenon DEF Data

\* Operations with the next numbers behind those there are.
Grows(xs, ops, qs, nx) ==
  /\ IsFunction(xs, qs) /\ UsesKeep(xs, qs)
  /\ \A k \in DOMAIN ops : k \in DOMAIN qs /\ qs[k] = ops[k]
  /\ IdsOf(ops) \subseteq IdsOf(qs) /\ IdsOf(qs) \subseteq IdsOf(ops) \cup {nx, nx + 1}
  /\ \A id \in Values(xs, ops) : DataOf(xs, qs)[id] = DataOf(xs, ops)[id]

\* Adding operations with the next numbers keeps the invariant.
LEMMA GrowingKeeps ==
  ASSUME IInv, phase # "annotate", phase' # "annotate", PhaseIs',
         Grows(args, body, body', next), next' = next + 2,
         func' = func, args' = args, slots' = slots, round' = round, moved' = moved
  PROVE  IInv'
<1> PICK xs, ops, qs : xs = args /\ ops = body /\ qs = body'
  OBVIOUS
<1>1. /\ PhaseIs /\ IsFunction(xs, ops)
      /\ NumbersAreBelow /\ SendsStay /\ SlotsHold /\ HasInputs(xs)
  BY DEF IInv, InputsStay
<1>2. /\ IsFunction(xs, qs) /\ UsesKeep(xs, qs)
      /\ \A k \in DOMAIN ops : k \in DOMAIN qs /\ qs[k] = ops[k]
      /\ IdsOf(ops) \subseteq IdsOf(qs) /\ IdsOf(qs) \subseteq IdsOf(ops) \cup {next, next + 1}
      /\ \A id \in Values(xs, ops) : DataOf(xs, qs)[id] = DataOf(xs, ops)[id]
  BY DEF Grows
<1>3. next \in Nat /\ next > 0
  BY <1>1 DEF PhaseIs
<1>4. /\ Meaning' = Meaning /\ InitSends' = InitSends /\ SlotNames' = SlotNames
      /\ \A k : IsInput(k)' = IsInput(k)
      /\ \A s : SlotSend(s)' = SlotSend(s) /\ SlotMeaning(s)' = SlotMeaning(s)
  BY FuncStays
<1>5. NumbersAreBelow'
  <2>1. ASSUME NEW id \in Values(xs, qs)
        PROVE  id \in 1..(next + 2 - 1)
    <3>1. CASE id \in Values(xs, ops)
      <4>1. id \in 1..(next - 1)
        BY <1>1, <3>1 DEF NumbersAreBelow
      <4> QED
        BY ONLY <1>3, <4>1
    <3>2. CASE id \in {next, next + 1}
      BY ONLY <1>3, <3>2
    <3> QED
      BY <1>2, <3>1, <3>2 DEF Values
  <2>3. next' - 1 = next + 2 - 1
    BY ONLY <1>3, next' = next + 2
  <2>2. \A id \in Values(args', body') : id \in 1..(next' - 1)
    BY <2>1, <2>3
  <2> QED
    BY <2>2 DEF NumbersAreBelow
<1>6. SendsStay'
  BY <1>1, <1>2, <1>4 DEF SendsStay
<1>7. Len(ops) <= Len(qs) /\ Len(ops) \in Nat /\ Len(qs) \in Nat /\ DOMAIN ops = 1..Len(ops)
  <2>1. /\ Len(ops) \in Nat /\ DOMAIN ops = 1..Len(ops)
        /\ Len(qs) \in Nat /\ DOMAIN qs = 1..Len(qs)
    BY <1>1, <1>2, FunctionParts
  <2>2. CASE Len(ops) = 0
    BY <2>1, <2>2
  <2>3. CASE Len(ops) # 0
    <3>1. Len(ops) \in DOMAIN ops
      BY <2>1, <2>3
    <3>2. Len(ops) \in DOMAIN qs
      BY <1>2, <3>1
    <3> QED
      BY <2>1, <3>2
  <2> QED
    BY <2>1, <2>2, <2>3
<1>8. ASSUME NEW s \in SlotNames, round = 1
      PROVE  SlotHolds(s)'
  <2> PICK id, j : id = slots[s] /\ j = SlotSend(s)
    OBVIOUS
  <2>1. SlotHolds(s)
    BY <1>1, <1>8 DEF SlotsHold
  <2>2. id \in 1..(next - 1)
    BY <2>1 DEF SlotHolds
  <2>3. id \in 1..(next' - 1) /\ id # next /\ id # next + 1
    <3>1. id \in 1..(next + 2 - 1) /\ id # next /\ id # next + 1
      BY ONLY <1>3, <2>2
    <3>2. next' - 1 = next + 2 - 1
      BY ONLY <1>3, next' = next + 2
    <3> QED
      BY <3>1, <3>2
  <2>4. ASSUME id \in Values(xs, qs)
        PROVE  IsBefore(xs, qs, id, Len(qs) + 1) /\ Data'[id] = SlotMeaning(s)
    <3>1. id \in Values(xs, ops)
      BY <1>2, <2>3, <2>4 DEF Values
    <3>2. IsBefore(xs, ops, id, Len(ops) + 1) /\ Data[id] = SlotMeaning(s)
      BY <2>1, <3>1 DEF SlotHolds
    <3>3. \A i \in DOMAIN ops : i < Len(qs) + 1
      BY ONLY <1>7
    <3>4. IsBefore(xs, qs, id, Len(qs) + 1)
      BY <1>2, <3>2, <3>3 DEF IsBefore
    <3>5. Data'[id] = Data[id]
      BY <1>2, <3>1 DEF Data
    <3> QED
      BY <3>2, <3>4, <3>5
  <2>5. ASSUME ~moved
        PROVE  id \in Values(xs, qs) /\ (id \in IdsOf(xs) => qs[j].of[1] = id)
    <3>1. /\ id \in Values(xs, ops)
          /\ id \in IdsOf(xs) => ops[j].of[1] = id
      BY <2>1, <2>5 DEF SlotHolds, ArgIds
    <3>2. j \in DOMAIN ops
      BY <1>1, <1>8, SlotSendIs DEF PhaseIs, SendsStay
    <3> QED
      BY <1>2, <3>1, <3>2 DEF Values
  <2> QED
    BY <1>4, <2>3, <2>4, <2>5 DEF SlotHolds, ArgIds
<1>9. SlotsHold'
  <2>1. round = 1 \/ round \notin {0, 1}
    BY <1>1 DEF PhaseIs
  <2> QED
    BY <1>1, <1>4, <1>8, <2>1 DEF SlotsHold
<1>10. InputsStay'
  BY <1>1, <1>4 DEF InputsStay, HasInputs
<1> QED
  BY <1>2, <1>5, <1>6, <1>9, <1>10 DEF IInv

\* A use of a value.
LEMMA UseIs ==
  ASSUME NEW xs, NEW ops, NEW nx, nx \in Nat, nx \notin Values(xs, ops),
         NEW id, id \in Nat, IsBefore(xs, ops, id, Len(ops) + 1),
         NEW want, want \in Seq(Words), DataOf(xs, ops)[id] = want,
         NEW use, use = [id |-> nx, kind |-> "use", of |-> <<id>>, part |-> <<>>, want |-> want]
  PROVE  IsNext(xs, ops, use) /\ use.id = nx
<1> PICK of : of = <<id>>
  OBVIOUS
<1>1. of \in Seq(Nat) /\ Len(of) = 1 /\ DOMAIN of = {1} /\ of[1] = id
  <2>1. of \in [1..1 -> Nat] /\ 1..1 = {1}
    OBVIOUS
  <2> QED
    BY <2>1, SeqDef
<1>2. <<>> \in Seq(Words)
  BY EmptySeq
<1>3. use.id = nx /\ use.kind = "use" /\ use.of = of /\ use.want = want /\ use \in Operations
  BY ONLY <1>1, <1>2, nx \in Nat, want \in Seq(Words), of = <<id>>,
     use = [id |-> nx, kind |-> "use", of |-> <<id>>, part |-> <<>>, want |-> want]
     DEF Operations, Kinds
<1>4. /\ use.id \notin Values(xs, ops)
      /\ Len(use.of) = IF use.kind = "join" THEN 2 ELSE 1
      /\ \A i \in DOMAIN use.of : IsBefore(xs, ops, use.of[i], Len(ops) + 1)
      /\ use.kind \in Sinks => DataOf(xs, ops)[use.of[1]] = use.want
  BY <1>1, <1>3
<1> QED
  BY <1>3, <1>4 DEF IsNext

\* Lowering a load keeps the invariant, also when its slot is lost.
LEMMA LowerLoadKeeps ==
  ASSUME IInv, LowerLoad
  PROVE  IInv'
<1>1. /\ PhaseIs /\ IsFunction(args, body) /\ UsesKeep(args, body) /\ NumbersAreBelow
  BY DEF IInv
<1> PICK load, source, slice, use :
      /\ load = func.loads[lowered + 1] /\ source = Source(load)
      /\ slice = IF load.part = <<>> THEN <<>> ELSE <<SliceOf(load, source)>>
      /\ use = [id |-> next + 1, kind |-> "use",
                of |-> <<IF load.part = <<>> THEN source ELSE next>>, part |-> <<>>,
                want |-> SlotMeaning(load.slot) \o load.part]
  OBVIOUS
<1>2. /\ phase = "lower" /\ lowered < Len(func.loads)
      /\ func' = func /\ round' = round /\ args' = args /\ slots' = slots /\ moved' = moved
      /\ \/ /\ source \in ArgIds \cup OpIds
            /\ body' = body \o slice \o <<use>> /\ next' = next + 2
            /\ lowered' = lowered + 1 /\ phase' = phase
         \/ /\ source \notin ArgIds \cup OpIds
            /\ phase' = "undefined" /\ body' = body /\ next' = next /\ lowered' = lowered
  BY Zenon DEF LowerLoad
<1>3. /\ load.slot \in SlotNames /\ load.part \in Seq(Words)
      /\ source \in Values(args, body) =>
           /\ IsBefore(args, body, source, Len(body) + 1)
           /\ Data[source] = SlotMeaning(load.slot)
  BY <1>2, SourceIs, Zenon DEF IsLoad
<1>4. next \in Nat /\ round = 1 /\ lowered \in Nat /\ Len(func.loads) \in Nat
  <2>1. func.loads \in Seq({func.loads[k] : k \in DOMAIN func.loads})
    <3>1. IsGiven(func)
      BY <1>1, FuncsAssumption, Zenon DEF PhaseIs
    <3> QED
      BY ONLY <3>1 DEF IsGiven
  <2>2. Len(func.loads) \in Nat
    BY <2>1, LenProperties
  <2>3. next \in Nat /\ round = 1 /\ lowered \in 0..Len(func.loads)
    BY <1>1, <1>2, Zenon DEF PhaseIs
  <2> QED
    BY <2>2, <2>3
<1>5. CASE source \notin ArgIds \cup OpIds
  <2>1. /\ phase' = "undefined" /\ body' = body /\ next' = next /\ lowered' = lowered
    BY <1>2, <1>5, Zenon
  <2>2. PhaseIs'
    BY <1>1, <1>2, <1>4, <2>1 DEF PhaseIs
  <2>3. /\ Meaning' = Meaning /\ InitSends' = InitSends /\ SlotNames' = SlotNames
        /\ \A k : IsInput(k)' = IsInput(k)
        /\ \A s : SlotSend(s)' = SlotSend(s) /\ SlotMeaning(s)' = SlotMeaning(s)
    BY <1>2, FuncStays, Zenon
  <2>4. SlotsHold'
    <3>1. Data' = Data /\ ArgIds' = ArgIds
      BY <1>2, <2>1 DEF Data, ArgIds
    <3>2. \A s \in SlotNames : SlotHolds(s) => SlotHolds(s)'
      BY <1>2, <2>1, <2>3, <3>1 DEF SlotHolds
    <3> QED
      BY <1>2, <2>3, <3>2, Zenon DEF SlotsHold, IInv
  <2>5. SendsStay'
    BY <1>2, <2>1, <2>3 DEF SendsStay, IInv
  <2>6. InputsStay'
    BY <1>2, <2>1, <2>3 DEF InputsStay, HasInputs, IInv
  <2>7. NumbersAreBelow'
    BY <1>1, <1>2, <2>1 DEF NumbersAreBelow
  <2> QED
    BY <1>1, <1>2, <2>1, <2>2, <2>4, <2>5, <2>6, <2>7 DEF IInv
<1>6. CASE source \in ArgIds \cup OpIds
  <2>1. /\ body' = body \o slice \o <<use>> /\ next' = next + 2
        /\ lowered' = lowered + 1 /\ phase' = "lower"
    BY <1>2, <1>6, Zenon
  <2>2. source \in Values(args, body)
    BY <1>6 DEF ArgIds, OpIds, Values
  <2> PICK xs, ops, qs, d, p, m, nx :
        /\ xs = args /\ ops = body /\ qs = body' /\ d = Data
        /\ p = load.part /\ m = SlotMeaning(load.slot) /\ nx = next
    OBVIOUS
  <2>3. d \in [Values(xs, ops) -> Seq(Words)] /\ d = DataOf(xs, ops)
    BY <1>1, DataIs DEF Data
  <2>4. /\ p \in Seq(Words) /\ IsBefore(xs, ops, source, Len(ops) + 1)
        /\ d[source] = m /\ m \in Seq(Words)
    BY <1>3, <2>2, <2>3
  <2>5. m \o p \in Seq(Words)
    BY ONLY <2>4, ConcatProperties
  <2>6. \A id \in Values(xs, ops) : id \in 1..(nx - 1)
    BY <1>1 DEF NumbersAreBelow
  <2>7. nx \in Nat /\ nx + 1 \in Nat /\ nx \notin Values(xs, ops) /\ nx + 1 \notin Values(xs, ops)
    <3>1. nx \in Nat /\ nx + 1 \in Nat /\ nx \notin 1..(nx - 1) /\ nx + 1 \notin 1..(nx - 1)
      BY <1>4
    <3> QED
      BY <2>6, <3>1
  <2>8. source \in Nat
    BY <2>2, <2>6, <2>7
  <2>9. /\ ops \in Seq(Operations) /\ Len(ops) \in Nat /\ DOMAIN ops = 1..Len(ops)
        /\ IsFunction(xs, ops) /\ UsesKeep(xs, ops)
    BY <1>1, FunctionParts DEF IsFunction
  <2> PICK w, i : w = m \o p /\ i = nx + 1
    OBVIOUS
  <2>10. ASSUME p = <<>>
         PROVE  Grows(xs, ops, qs, nx)
    <3>1. use = [id |-> i, kind |-> "use", of |-> <<source>>, part |-> <<>>, want |-> w]
      BY <2>10
    <3>2. DataOf(xs, ops)[source] = w
      <4>1. m \o <<>> = m
        BY ONLY <2>4, ConcatEmptySeq
      <4> QED
        BY <2>3, <2>4, <2>10, <4>1
    <3>3. qs = ops \o <<use>>
      <4>1. ops \o <<>> = ops
        BY ONLY <2>9, ConcatEmptySeq
      <4>2. qs = ops \o <<>> \o <<use>>
        BY <2>1, <2>10
      <4> QED
        BY <4>1, <4>2, Zenon
    <3>4. i \in Nat /\ i \notin Values(xs, ops) /\ w \in Seq(Words)
      BY <2>5, <2>7
    <3>5. IsNext(xs, ops, use) /\ use.id = i
      BY ONLY <2>4, <2>8, <3>1, <3>2, <3>4, UseIs
    <3>6. /\ IsFunction(xs, qs) /\ UsesKeep(xs, qs)
          /\ IdsOf(qs) = IdsOf(ops) \cup {use.id}
          /\ \A id \in Values(xs, ops) : DataOf(xs, qs)[id] = DataOf(xs, ops)[id]
          /\ \A k \in DOMAIN ops : k \in DOMAIN qs /\ qs[k] = ops[k]
      <4>1. IsAdded(xs, ops, use, ops \o <<use>>)
        BY ONLY <2>9, <3>5, NextIsAdded
      <4> QED
        BY ONLY <3>3, <4>1 DEF IsAdded
    <3> QED
      BY <3>5, <3>6 DEF Grows
  <2>11. ASSUME p # <<>>
         PROVE  Grows(xs, ops, qs, nx)
    <3> PICK op, rs : op = SliceOf(load, source) /\ rs = ops \o <<op>>
      OBVIOUS
    <3>1. qs = rs \o <<use>>
      BY <2>1, <2>11, Zenon
    <3>2. /\ op \in Operations /\ op.id = nx /\ op.kind = "slice" /\ op.of = <<op.of[1]>>
          /\ IsBefore(xs, ops, op.of[1], Len(ops) + 1)
          /\ Result(op, d) = d[source] \o p
      <4>1. /\ IsFunction(args, body) /\ next \in Nat /\ load.part \in Seq(Words)
            /\ source \in Values(args, body) /\ IsBefore(args, body, source, Len(body) + 1)
            /\ op = SliceOf(load, source)
        BY <1>1, <1>4, <2>2, <2>4, Zenon
      <4>2. /\ op \in Operations /\ op.id = next /\ op.kind = "slice" /\ op.of = <<op.of[1]>>
            /\ IsBefore(args, body, op.of[1], Len(body) + 1)
            /\ Result(op, Data) = Data[source] \o load.part
        BY ONLY <4>1, SliceOfIs
      <4> QED
        BY <4>2, Zenon
    <3>3. Len(op.of) = 1 /\ DOMAIN op.of = {1}
      <4> PICK from : from = op.of[1]
        OBVIOUS
      <4>1. op.of = <<from>>
        BY <3>2, Zenon
      <4>2. Len(<<from>>) = 1 /\ DOMAIN <<from>> = {1}
        BY ONLY <4>1
      <4> QED
        BY ONLY <4>1, <4>2
    <3>4. IsNext(xs, ops, op)
      BY <2>7, <3>2, <3>3, Zenon DEF IsNext, Sinks
    <3>5. /\ IsFunction(xs, rs) /\ UsesKeep(xs, rs)
          /\ IdsOf(rs) = IdsOf(ops) \cup {op.id}
          /\ \A id \in Values(xs, ops) : DataOf(xs, rs)[id] = DataOf(xs, ops)[id]
          /\ DataOf(xs, rs)[op.id] = Result(op, DataOf(xs, ops))
          /\ Len(ops) \in Nat /\ Len(rs) = Len(ops) + 1 /\ rs[Len(ops) + 1] = op
          /\ \A k \in DOMAIN ops : k \in DOMAIN rs /\ rs[k] = ops[k]
          /\ Len(ops) + 1 \in DOMAIN rs
      <4>1. IsAdded(xs, ops, op, ops \o <<op>>)
        BY ONLY <2>9, <3>4, NextIsAdded
      <4> QED
        BY ONLY <4>1, rs = ops \o <<op>>, Zenon DEF IsAdded
    <3>6. IsBefore(xs, rs, nx, Len(rs) + 1)
      <4>1. Len(ops) + 1 < Len(rs) + 1
        BY ONLY <3>5
      <4> QED
        BY ONLY <3>2, <3>5, <4>1 DEF IsBefore
    <3>7. DataOf(xs, rs)[nx] = w
      BY <2>3, <2>4, <3>2, <3>5, Zenon
    <3>8. Values(xs, rs) = Values(xs, ops) \cup {nx}
      BY <3>2, <3>5, Zenon DEF Values
    <3>9. i \in Nat /\ i \notin Values(xs, rs) /\ w \in Seq(Words)
      <4>1. nx + 1 # nx
        BY ONLY <2>7
      <4> QED
        BY <2>5, <2>7, <3>8, <4>1
    <3>10. use = [id |-> i, kind |-> "use", of |-> <<nx>>, part |-> <<>>, want |-> w]
      BY <2>11
    <3>11. IsNext(xs, rs, use) /\ use.id = i
      BY ONLY <2>7, <3>6, <3>7, <3>9, <3>10, UseIs
    <3>12. /\ IsFunction(xs, qs) /\ UsesKeep(xs, qs)
           /\ IdsOf(qs) = IdsOf(rs) \cup {use.id}
           /\ \A id \in Values(xs, rs) : DataOf(xs, qs)[id] = DataOf(xs, rs)[id]
           /\ \A k \in DOMAIN rs : k \in DOMAIN qs /\ qs[k] = rs[k]
      <4>1. IsAdded(xs, rs, use, rs \o <<use>>)
        BY ONLY <3>5, <3>11, NextIsAdded
      <4> QED
        BY ONLY <3>1, <4>1 DEF IsAdded
    <3>13. \A k \in DOMAIN ops : k \in DOMAIN qs /\ qs[k] = ops[k]
      BY ONLY <3>5, <3>12, Zenon
    <3>14. \A id \in Values(xs, ops) : DataOf(xs, qs)[id] = DataOf(xs, ops)[id]
      <4>1. \A id \in Values(xs, ops) : id \in Values(xs, rs)
        BY ONLY <3>8
      <4>2. ASSUME NEW id \in Values(xs, ops)
            PROVE  DataOf(xs, qs)[id] = DataOf(xs, ops)[id]
        <5>1. DataOf(xs, rs)[id] = DataOf(xs, ops)[id]
          BY ONLY <3>5, id \in Values(xs, ops), Zenon
        <5>2. DataOf(xs, qs)[id] = DataOf(xs, rs)[id]
          BY ONLY <3>12, <4>1, id \in Values(xs, ops), Zenon
        <5> QED
          BY ONLY <5>1, <5>2, Zenon
      <4> QED
        BY ONLY <4>2, Zenon
    <3>15. IdsOf(ops) \subseteq IdsOf(qs) /\ IdsOf(qs) \subseteq IdsOf(ops) \cup {nx, nx + 1}
      BY <3>2, <3>5, <3>11, <3>12, Zenon
    <3> QED
      BY <3>12, <3>13, <3>14, <3>15 DEF Grows
  <2>12. Grows(args, body, body', next)
    BY <2>10, <2>11
  <2>13. PhaseIs'
    <3>1. lowered' \in 0..Len(func'.loads) /\ next' \in Nat /\ next' > 0
      <4>1. lowered + 1 \in 0..Len(func.loads) /\ next + 2 \in Nat /\ next + 2 > 0
        BY ONLY <1>2, <1>4
      <4> QED
        BY <1>2, <2>1, <4>1, Zenon
    <3> QED
      BY <1>1, <1>2, <1>4, <2>1, <3>1, Zenon DEF PhaseIs
  <2> QED
    BY <1>2, <2>1, <2>12, <2>13, GrowingKeeps, Zenon
<1> QED
  BY <1>5, <1>6

-----------------------------------------------------------------------------
(* What always holds *)

\* A step that changes nothing keeps the invariant.
LEMMA StutteringKeeps ==
  ASSUME IInv, UNCHANGED vars
  PROVE  IInv'
<1>1. /\ func' = func /\ phase' = phase /\ round' = round /\ args' = args /\ body' = body
      /\ slots' = slots /\ next' = next /\ lowered' = lowered /\ moved' = moved
  BY DEF vars
<1>2. /\ Meaning' = Meaning /\ InitSends' = InitSends /\ SlotNames' = SlotNames
      /\ \A k : IsInput(k)' = IsInput(k)
      /\ \A s : SlotSend(s)' = SlotSend(s) /\ SlotMeaning(s)' = SlotMeaning(s)
  BY <1>1, FuncStays
<1>3. /\ PhaseIs /\ IsFunction(args, body) /\ UsesKeep(args, body) /\ NumbersAreBelow
      /\ SendsStay /\ SlotsHold /\ InputsStay
  BY DEF IInv
<1>4. PhaseIs'
  BY <1>1, <1>3 DEF PhaseIs
<1>5. NumbersAreBelow' /\ SendsStay'
  BY <1>1, <1>2, <1>3 DEF NumbersAreBelow, SendsStay
<1>6. SlotsHold'
  <2>1. Data' = Data /\ ArgIds' = ArgIds
    BY <1>1 DEF Data, ArgIds
  <2>2. \A s \in SlotNames : SlotHolds(s) => SlotHolds(s)'
    BY <1>1, <1>2, <2>1 DEF SlotHolds
  <2> QED
    BY <1>1, <1>2, <1>3, <2>2 DEF SlotsHold
<1>7. InputsStay'
  <2>1. HasInputs(args) => HasInputs(args)'
    BY <1>1, <1>2 DEF HasInputs
  <2>2. GivenArgs' = GivenArgs
    BY <1>1 DEF GivenArgs
  <2> QED
    BY <1>1, <1>3, <2>1, <2>2 DEF InputsStay
<1> QED
  BY <1>1, <1>3, <1>4, <1>5, <1>6, <1>7 DEF IInv

\* Every reachable state satisfies the invariant the properties follow from:
\* what the rounds, the lowering of the loads and the clean-ups keep.
THEOREM ForwardIsKept == Spec => []IInv
<1>1. Init => IInv
  BY InitKeeps
<1>2. IInv /\ [Next]_vars => IInv'
  <2> SUFFICES ASSUME IInv, [Next]_vars
               PROVE  IInv'
    OBVIOUS
  <2>1. CASE Annotate
    BY <2>1, AnnotateKeeps
  <2>2. CASE Lift
    BY <2>2, LiftKeeps
  <2>3. CASE Erase
    BY <2>3, EraseKeeps
  <2>4. CASE Reorder
    BY <2>4, ReorderKeeps
  <2>5. CASE LowerLoad
    BY <2>5, LowerLoadKeeps
  <2>6. CASE EraseHostSends
    BY <2>6, EraseHostSendsKeeps
  <2>7. CASE Cleanup
    BY <2>7, CleanupKeeps
  <2>8. CASE UNCHANGED vars
    BY <2>8, StutteringKeeps
  <2> QED
    BY <2>1, <2>2, <2>3, <2>4, <2>5, <2>6, <2>7, <2>8 DEF Next
<1> QED
  BY <1>1, <1>2, PTL DEF Spec

\* Lifting, erasing, reordering, lowering and cleaning up never change what is
\* sent or used.
THEOREM SinksKeepTheirData == Spec => []UsesKeepTheirData
<1>1. IInv => UsesKeepTheirData
  BY DEF IInv, UsesKeep, UsesKeepTheirData, Data
<1> QED
  BY <1>1, ForwardIsKept, PTL

\* A list whose elements have numbers of their own has as many numbers as
\* elements.
LEMMA IdsAreCounted ==
  ASSUME NEW S, NEW list, list \in Seq(S),
         \A j, k \in DOMAIN list : list[j].id = list[k].id => j = k
  PROVE  Cardinality(IdsOf(list)) = Len(list)
<1> PICK n, T, f : n = Len(list) /\ T = IdsOf(list) /\ f = [k \in 1..n |-> list[k].id]
  OBVIOUS
<1>1. n \in Nat /\ DOMAIN list = 1..n
  BY LenProperties
<1>2. \A k \in 1..n : f[k] = list[k].id
  OBVIOUS
<1>3. f \in [1..n -> T]
  BY <1>1 DEF IdsOf
<1>4. \A x \in T : \E k \in 1..n : f[k] = x
  BY <1>1, <1>2 DEF IdsOf
<1>5. \A j, k \in 1..n : f[j] = f[k] => j = k
  BY <1>1, <1>2
<1>6. f \in Surjection(1..n, T) /\ f \in Injection(1..n, T)
  BY <1>3, <1>4, <1>5 DEF Surjection, Injection, IsInjective
<1>7. IsFiniteSet(1..n) /\ Cardinality(1..n) = n
  <2>1. /\ IsFiniteSet(1..n)
        /\ Cardinality(1..n) = IF 1 > n THEN 0 ELSE n - 1 + 1
    BY ONLY <1>1, FS_Interval
  <2>2. (IF 1 > n THEN 0 ELSE n - 1 + 1) = n
    BY ONLY <1>1
  <2> QED
    BY <2>1, <2>2
<1>8. Cardinality(T) = Cardinality(1..n)
  BY <1>6, <1>7, FS_Surjection
<1> QED
  BY <1>7, <1>8

\* Arguments and operations have numbers of their own below the next, and
\* every operand is one of them, through all the rounds and the lowering.
THEOREM ForwardIsTyped == Spec => []TypeOK
<1>1. ASSUME IInv
      PROVE  TypeOK
  <2>1. PhaseIs /\ IsFunction(args, body) /\ NumbersAreBelow
    BY <1>1 DEF IInv
  <2>2. args \in Seq(Arguments) /\ body \in Seq(Operations) /\ IsNumbered(args, body)
    BY <2>1 DEF IsFunction
  <2>3. phase \in {"annotate", "lift", "erase", "reorder", "lower", "cleanup", "done",
                   "undefined"}
    BY <2>1 DEF PhaseIs
  <2>4. ArgIds \cap OpIds = {}
    BY <2>2 DEF IsNumbered, ArgIds, OpIds, IdsOf
  <2>5. Cardinality(ArgIds) = Len(args)
    BY <2>2, IdsAreCounted DEF IsNumbered, ArgIds
  <2>6. Cardinality(OpIds) = Len(body)
    BY <2>2, IdsAreCounted DEF IsNumbered, OpIds
  <2>7. \A id \in ArgIds \cup OpIds : id \in 1..(next - 1)
    BY <2>1 DEF NumbersAreBelow, Values, ArgIds, OpIds
  <2>8. \A k \in DOMAIN body : \A j \in DOMAIN body[k].of : body[k].of[j] \in ArgIds \cup OpIds
    <3>1. \A k \in DOMAIN body : \A j \in DOMAIN body[k].of : IsBefore(args, body, body[k].of[j], k)
      BY <2>1 DEF IsFunction
    <3>2. \A id, k : IsBefore(args, body, id, k) => id \in ArgIds \cup OpIds
      BY DEF IsBefore, ArgIds, OpIds, IdsOf
    <3> QED
      BY <3>1, <3>2
  <2> QED
    BY <2>3, <2>4, <2>5, <2>6, <2>7, <2>8 DEF TypeOK
<1> QED
  BY <1>1, ForwardIsKept, PTL

\* The inputs, in the order of the function as it comes, stay the first thing
\* the caller passes: the arguments that are not parameters are the inputs.
THEOREM InputsStayInOrder == Spec => []InputsKeepTheirOrder
<1>1. ASSUME IInv, phase # "annotate"
      PROVE  InputsKeepTheirOrder
  <2>1. HasInputs(args) /\ args \in Seq(Arguments) /\ func \in Funcs
    BY <1>1 DEF IInv, InputsStay, IsFunction, PhaseIs
  <2> PICK xs, places, ys, S :
        /\ xs = args /\ places = DOMAIN xs \ ParameterPlaces /\ ys = Kept(xs, places)
        /\ S = {k \in DOMAIN func.args : k \notin Stored}
    OBVIOUS
  <2>1a. /\ \A k \in DOMAIN xs : ~xs[k].isParameter => IsInput(xs[k].id)
         /\ \A i \in DOMAIN func.args :
              IsInput(i) => \E k \in DOMAIN xs : ~xs[k].isParameter /\ xs[k].id = i
         /\ \A j, k \in DOMAIN xs :
              ~xs[j].isParameter /\ ~xs[k].isParameter /\ j < k => xs[j].id < xs[k].id
    BY <2>1 DEF HasInputs
  <2>2. places \subseteq DOMAIN xs /\ \A k \in DOMAIN xs : k \in places <=> ~xs[k].isParameter
    BY DEF ParameterPlaces
  <2>3. ys \in Seq(Arguments) /\ \E o : Selects(o, ys, xs, places)
    BY ONLY <2>1, <2>2, xs = args, ys = Kept(xs, places), KeptIs
  <2> PICK o : Selects(o, ys, xs, places)
    BY <2>3
  <2>4. /\ \A k \in DOMAIN ys : o[k] \in places /\ ys[k] = xs[o[k]]
        /\ \A x \in places : \E k \in DOMAIN ys : o[k] = x
        /\ \A j, k \in DOMAIN ys : j < k <=> o[j] < o[k]
    BY DEF Selects
  <2> PICK n, f : n = Len(ys) /\ f = [k \in 1..n |-> ys[k].id]
    OBVIOUS
  <2>5. n \in Nat /\ DOMAIN ys = 1..n
    BY <2>3, LenProperties
  <2>6. \A i : i \in S <=> IsInput(i)
    BY DEF IsInput
  <2>7. S \in SUBSET Nat
    <3>1. func.args \in Seq(STRING)
      BY <2>1, FuncsAssumption DEF IsGiven
    <3>2. Len(func.args) \in Nat /\ DOMAIN func.args = 1..Len(func.args)
      BY <3>1, LenProperties
    <3> QED
      BY <3>2
  <2>8. \A k \in 1..n : f[k] = ys[k].id
    OBVIOUS
  <2>9. f \in [1..n -> S]
    <3>1. \A k \in 1..n : ys[k] = xs[o[k]] /\ o[k] \in DOMAIN xs /\ ~xs[o[k]].isParameter
      BY ONLY <2>2, <2>4, <2>5
    <3>2. \A k \in 1..n : ys[k].id \in S
      BY ONLY <2>1a, <2>6, <3>1
    <3> QED
      BY <3>2
  <2>10. ASSUME NEW x \in S
         PROVE  \E k \in 1..n : f[k] = x
    <3>1. x \in DOMAIN func.args /\ IsInput(x)
      BY <2>6
    <3>2. PICK j \in DOMAIN xs : ~xs[j].isParameter /\ xs[j].id = x
      BY <2>1, <3>1 DEF HasInputs
    <3>3. PICK k \in DOMAIN ys : o[k] = j
      BY <2>2, <2>4, <3>2
    <3>4. k \in 1..n /\ f[k] = ys[k].id /\ ys[k] = xs[j]
      BY <2>4, <2>5, <2>8, <3>3
    <3> QED
      BY <3>2, <3>4
  <2>11. ASSUME NEW j \in 1..n, NEW k \in 1..n, j < k
         PROVE  f[j] < f[k]
    <3>1. o[j] < o[k] /\ o[j] \in DOMAIN xs /\ o[k] \in DOMAIN xs
          /\ ~xs[o[j]].isParameter /\ ~xs[o[k]].isParameter
          /\ ys[j] = xs[o[j]] /\ ys[k] = xs[o[k]]
      BY <2>2, <2>4, <2>5, <2>11
    <3>2. xs[o[j]].id < xs[o[k]].id
      BY <2>1, <3>1 DEF HasInputs
    <3> QED
      BY <2>8, <3>1, <3>2
  <2>12. f = Ascending(S)
    BY ONLY <2>5, <2>7, <2>9, <2>10, <2>11, AscendingIsOnly
  <2>13. Inputs = Ascending(S)
    BY DEF Inputs
  <2>14. [k \in DOMAIN ys |-> ys[k].id] = f
    BY <2>5
  <2> QED
    BY <2>12, <2>13, <2>14 DEF InputsKeepTheirOrder
<1>2. IInv => InputsKeepTheirOrder
  BY <1>1 DEF InputsKeepTheirOrder
<1> QED
  BY <1>2, ForwardIsKept, PTL

\* What a slot was found to hold is only lost when a round has put the
\* parameters in another order.
THEOREM SlotsAreLostByMoving == Spec => []SlotsSurviveInOrder
<1>1. Init => SlotsSurviveInOrder
  BY DEF Init, SlotsSurviveInOrder
<1>2. ASSUME IInv, SlotsSurviveInOrder, [Next]_vars
      PROVE  SlotsSurviveInOrder'
  <2>1. CASE Annotate
    BY <2>1 DEF Annotate, SlotsSurviveInOrder
  <2>2. CASE Lift
    BY <2>2 DEF Lift, SlotsSurviveInOrder
  <2>3. CASE Erase
    BY <2>3 DEF Erase, SlotsSurviveInOrder
  <2>4. CASE Reorder
    <3>1. phase' = CASE round = 1 -> "lower" [] round = 2 -> "cleanup" [] OTHER -> "done"
      BY <2>4 DEF Reorder
    <3>2. phase' \in {"lower", "cleanup", "done"}
      BY <3>1
    <3> QED
      BY <3>2 DEF SlotsSurviveInOrder
  <2>5. CASE LowerLoad
    <3> PICK load, source : load = func.loads[lowered + 1] /\ source = Source(load)
      OBVIOUS
    <3>1. /\ phase = "lower" /\ lowered < Len(func.loads) /\ moved' = moved
          /\ \/ phase' = phase
             \/ source \notin ArgIds \cup OpIds
      BY <2>5 DEF LowerLoad
    <3>2. CASE phase' = phase
      BY <3>1, <3>2 DEF SlotsSurviveInOrder
    <3>3. CASE source \notin ArgIds \cup OpIds
      <4>1. IsLoad(load, source)
        BY <3>1 DEF IsLoad
      <4>2. source \notin Values(args, body)
        BY <3>3 DEF ArgIds, OpIds, Values
      <4>3. moved
        BY <1>2, <4>1, <4>2, SourceIs
      <4> QED
        BY <3>1, <4>3 DEF SlotsSurviveInOrder
    <3> QED
      BY <3>1, <3>2, <3>3
  <2>6. CASE EraseHostSends
    BY <2>6 DEF EraseHostSends, SlotsSurviveInOrder
  <2>7. CASE Cleanup
    BY <2>7 DEF Cleanup, SlotsSurviveInOrder
  <2>8. CASE UNCHANGED vars
    BY <1>2, <2>8 DEF vars, SlotsSurviveInOrder
  <2> QED
    BY <1>2, <2>1, <2>2, <2>3, <2>4, <2>5, <2>6, <2>7, <2>8 DEF Next
<1> QED
  BY <1>1, <1>2, ForwardIsKept, PTL DEF Spec


-----------------------------------------------------------------------------
(* The order of the parameters *)

\* Some operation takes a value.
IsTaken(ops, id) == \E k \in DOMAIN ops : \E i \in DOMAIN ops[k].of : ops[k].of[i] = id

\* A value is the result of a slice.
IsCut(ops, id) == \E k \in DOMAIN ops : ops[k].kind = "slice" /\ ops[k].id = id

IsParameter(xs, id) == \E k \in DOMAIN xs : xs[k].isParameter /\ xs[k].id = id

\* No slice is taken of a slice.
AreFlat(ops) == \A k \in DOMAIN ops : ops[k].kind = "slice" => ~IsCut(ops, ops[k].of[1])

\* What is sent of a slice is sent of a slice of a parameter, ...
SendsTakeParameters(xs, ops) ==
  \A k, j \in DOMAIN ops :
    ops[k].kind = "init" /\ ops[j].kind = "slice" /\ ops[j].id = ops[k].of[1] =>
      IsParameter(xs, ops[j].of[1])

\* ... and once those are lifted, nothing is.
SendsTakeNoCuts(ops) == \A k \in DOMAIN ops : ops[k].kind = "init" => ~IsCut(ops, ops[k].of[1])

\* Slices of parameters that have been lifted are not used, ...
CutsAreUnused(xs, ops) ==
  \A k \in DOMAIN ops :
    ops[k].kind = "slice" /\ IsParameter(xs, ops[k].of[1]) => ~IsTaken(ops, ops[k].id)

\* ... and the clean-up leaves none, nor anything else that is not used.
NoCuts(xs, ops) == \A k \in DOMAIN ops : ops[k].kind = "slice" => ~IsParameter(xs, ops[k].of[1])
AllAreTaken(ops) == \A k \in DOMAIN ops : ops[k].kind \in Sinks \/ IsTaken(ops, ops[k].id)

\* What the rounds leave of slices when no slice is taken of a slice.
FlatInvariant ==
  IsFlat =>
    /\ AreFlat(body)
    /\ phase = "lift" /\ round = 1 => SendsTakeParameters(args, body)
    /\ phase \in {"erase", "reorder", "lower"} /\ round = 1 => SendsTakeNoCuts(body)
    /\ phase \in {"erase", "reorder", "cleanup"} /\ round = 2 => CutsAreUnused(args, body)
    /\ round = 3 => NoCuts(args, body) /\ AllAreTaken(body)

\* The numbers of the function as it comes: those of arguments are the least,
\* and a slot has what it was found to hold.
GivenStays ==
  /\ next > Len(func.args)
  /\ \A k \in DOMAIN body : body[k].id > Len(func.args)
  /\ \A s \in SlotNames : slots[s] = func.body[SlotSend(s)].of[1]
  /\ phase = "annotate" =>
       /\ DOMAIN body = DOMAIN func.body
       /\ \A k \in DOMAIN func.body : body[k].of = func.body[k].of

\* Once what is unused is erased, each parameter is taken by some operation.
ParametersAreTaken(xs, ops) == \A k \in DOMAIN xs : xs[k].isParameter => IsTaken(ops, xs[k].id)

\* The first place of a list that takes a value.
UsersIn(ops, id) == {k \in DOMAIN ops : \E j \in DOMAIN ops[k].of : ops[k].of[j] = id}
FirstIn(ops, id) ==
  IF UsersIn(ops, id) = {} THEN Len(ops) + 1
  ELSE CHOOSE k \in UsersIn(ops, id) : \A j \in UsersIn(ops, id) : k <= j

\* Parameters stand in the order of their first use.
AreSorted(xs, ops) ==
  \A j, k \in DOMAIN xs :
    xs[j].isParameter /\ xs[k].isParameter /\ j < k =>
      \/ FirstIn(ops, xs[j].id) < FirstIn(ops, xs[k].id)
      \/ FirstIn(ops, xs[j].id) = FirstIn(ops, xs[k].id)

OrderInvariant ==
  /\ phase \in {"reorder", "done"} => ParametersAreTaken(args, body)
  /\ phase = "done" => AreSorted(args, body)

\* An operand is the value of an argument or an operation, below the next.
LEMMA OperandIsBelow ==
  ASSUME IInv, NEW k \in DOMAIN body, NEW i \in DOMAIN body[k].of
  PROVE  /\ body[k].of[i] \in Values(args, body) /\ body[k].of[i] \in Nat
         /\ body[k].of[i] < next /\ next \in Nat
<1>1. IsFunction(args, body) /\ NumbersAreBelow /\ next \in Nat
  BY DEF IInv, PhaseIs
<1> PICK x : x = body[k].of[i]
  OBVIOUS
<1>2. x \in Values(args, body) /\ x \in Nat
  BY <1>1, OperandParts
<1>3. x \in 1..(next - 1)
  BY <1>1, <1>2 DEF NumbersAreBelow
<1>4. x < next
  BY ONLY <1>1, <1>3
<1> QED
  BY <1>1, <1>2, <1>4

\* A slice has one operand.
LEMMA SliceHasOperand ==
  ASSUME IInv, NEW k \in DOMAIN body, body[k].kind # "join"
  PROVE  DOMAIN body[k].of = {1}
<1>1. IsFunction(args, body)
  BY DEF IInv
<1> QED
  BY <1>1, OperandParts

\* Where some arguments stay and parameters with the next numbers come behind
\* them, a parameter of a number below is one of those that stay.
LEMMA OldParameters ==
  ASSUME NEW xs, NEW ops, NEW kept, NEW new, NEW nx, Extends(xs, ops, kept, new, nx),
         NEW ys, ys = kept \o new, NEW x \in Nat, x < nx, IsParameter(ys, x)
  PROVE  IsParameter(kept, x)
<1>1. /\ Len(kept) \in Nat /\ DOMAIN new = 1..Len(new) /\ Len(new) \in Nat /\ nx \in Nat
      /\ \A k \in DOMAIN ys :
           \/ k \in DOMAIN kept /\ ys[k] = kept[k]
           \/ k - Len(kept) \in DOMAIN new /\ ys[k] = new[k - Len(kept)] /\ Len(kept) < k
  BY ExtendedArguments DEF Extends
<1>2. \A n \in DOMAIN new : new[n].id = nx - 1 + n
  BY DEF Extends
<1>3. \A n \in DOMAIN new : new[n].id # x
  BY <1>1, <1>2
<1>4. PICK k \in DOMAIN ys : ys[k].isParameter /\ ys[k].id = x
  BY DEF IsParameter
<1> QED
  BY <1>1, <1>3, <1>4 DEF IsParameter

\* Operations whose operands are redirected to values that are not results.
AreRedirected(ops, by, qs) ==
  /\ ops \in Seq(Operations) /\ qs = Substituted(ops, by)
  /\ \A k \in DOMAIN ops : 1 \in DOMAIN ops[k].of
  /\ \A x \in DOMAIN by : by[x] \notin IdsOf(ops)

\* What is said of uses and slices after a redirection.
LEMMA RedirectionKeeps ==
  ASSUME NEW ops, NEW by, NEW qs, AreRedirected(ops, by, qs)
  PROVE  /\ \A id : IsCut(qs, id) <=> IsCut(ops, id)
         /\ \A id \in IdsOf(ops) : IsTaken(qs, id) <=> id \notin DOMAIN by /\ IsTaken(ops, id)
         /\ AreFlat(ops) => AreFlat(qs)
         /\ SendsTakeNoCuts(ops) => SendsTakeNoCuts(qs)
         /\ \A k \in DOMAIN ops :
              qs[k].of[1] = IF ops[k].of[1] \in DOMAIN by THEN by[ops[k].of[1]] ELSE ops[k].of[1]
         /\ DOMAIN qs = DOMAIN ops
         /\ \A k \in DOMAIN ops : qs[k].id = ops[k].id /\ qs[k].kind = ops[k].kind
<1>1. /\ DOMAIN qs = DOMAIN ops
      /\ \A k \in DOMAIN ops :
           /\ qs[k].id = ops[k].id /\ qs[k].kind = ops[k].kind
           /\ qs[k].of = [i \in DOMAIN ops[k].of |->
                            IF ops[k].of[i] \in DOMAIN by THEN by[ops[k].of[i]] ELSE ops[k].of[i]]
  <2>1. ops \in Seq(Operations) /\ qs = Substituted(ops, by)
    BY DEF AreRedirected
  <2> QED
    BY ONLY <2>1, SubstitutedKeeps
<1>2. \A k \in DOMAIN ops : 1 \in DOMAIN ops[k].of
  BY DEF AreRedirected
<1>3. \A x \in DOMAIN by : \A k \in DOMAIN ops : by[x] # ops[k].id
  BY DEF AreRedirected, IdsOf
<1>4. \A id : IsCut(qs, id) <=> IsCut(ops, id)
  BY <1>1 DEF IsCut
<1>5. \A k \in DOMAIN ops :
        qs[k].of[1] = IF ops[k].of[1] \in DOMAIN by THEN by[ops[k].of[1]] ELSE ops[k].of[1]
  BY <1>1, <1>2
<1>6. \A x \in DOMAIN by : ~IsCut(ops, by[x])
  BY <1>3 DEF IsCut
<1>7. AreFlat(ops) => AreFlat(qs)
  BY <1>1, <1>4, <1>5, <1>6 DEF AreFlat
<1>8. SendsTakeNoCuts(ops) => SendsTakeNoCuts(qs)
  BY <1>1, <1>4, <1>5, <1>6 DEF SendsTakeNoCuts
<1>9. ASSUME NEW id \in IdsOf(ops)
      PROVE  IsTaken(qs, id) <=> id \notin DOMAIN by /\ IsTaken(ops, id)
  <2>1. \A x \in DOMAIN by : by[x] # id
    BY <1>3 DEF IdsOf
  <2>2. \A k \in DOMAIN ops :
          /\ DOMAIN qs[k].of = DOMAIN ops[k].of
          /\ \A i \in DOMAIN ops[k].of : qs[k].of[i] = id <=> id \notin DOMAIN by /\ ops[k].of[i] = id
    <3> TAKE k \in DOMAIN ops
    <3>1. qs[k].of = [i \in DOMAIN ops[k].of |->
                        IF ops[k].of[i] \in DOMAIN by THEN by[ops[k].of[i]] ELSE ops[k].of[i]]
      BY <1>1
    <3>2. ASSUME NEW i \in DOMAIN ops[k].of
          PROVE  qs[k].of[i] = id <=> id \notin DOMAIN by /\ ops[k].of[i] = id
      <4>1. qs[k].of[i] = IF ops[k].of[i] \in DOMAIN by THEN by[ops[k].of[i]] ELSE ops[k].of[i]
        BY <3>1
      <4> QED
        BY <2>1, <4>1
    <3> QED
      BY <3>1, <3>2
  <2> QED
    BY <1>1, <2>2 DEF IsTaken
<1> QED
  BY <1>1, <1>4, <1>5, <1>7, <1>8, <1>9

\* What stands for the results of slices of parameters are parameters.
LEMMA LiftedAreParameters ==
  ASSUME IInv, Lift
  PROVE  /\ AreRedirected(body, Lifted, body')
         /\ DOMAIN Lifted = {body[k].id : k \in Slices}
         /\ Slices = {k \in DOMAIN body : body[k].kind = "slice" /\ IsParameter(args, body[k].of[1])}
         /\ \A x \in Nat : x < next /\ IsParameter(args', x) => IsParameter(args, x)
         /\ IsFunction(args, body) /\ IsFunction(args, body)'
<1>1. IsFunction(args, body) /\ next \in Nat /\ NumbersAreBelow
  BY DEF IInv, PhaseIs
<1>2. body' = Substituted(body, Lifted) /\ next' = next + Len(Lifts)
  BY DEF Lift, Remaining
<1> PICK new : new = [n \in DOMAIN Lifts |->
                  [id |-> next - 1 + n, data |-> Data[body[Lifts[n]].id], isParameter |-> TRUE]]
  OBVIOUS
<1>3. /\ Extends(args, body, args, new, next) /\ Redirects(args, body, args, new, next, Lifted)
      /\ args' = args \o new
  BY <1>1, LiftedIs DEF Lift
<1>4. Slices = {k \in DOMAIN body : body[k].kind = "slice" /\ IsParameter(args, body[k].of[1])}
  BY DEF Slices, Parameters, ParameterPlaces, IsParameter
<1>5. DOMAIN Lifted = {body[k].id : k \in Slices}
  BY DEF Lifted
<1>6. IInv'
  BY LiftKeeps
<1>7. IsFunction(args', body')
  BY <1>6 DEF IInv
<1>8. \A k \in DOMAIN body : 1 \in DOMAIN body[k].of
  BY <1>1, OperandParts
<1>9. body \in Seq(Operations)
  BY <1>1 DEF IsFunction
<1>10. ASSUME NEW k \in Slices
       PROVE  Lifted[body[k].id] \notin IdsOf(body)
  <2> PICK x, y : x = body[k].id /\ y = Lifted[body[k].id]
    OBVIOUS
  <2>1. k \in DOMAIN body /\ PlaceOf(body, x) = k
    BY <1>1, OperationParts DEF Slices
  <2>2. y = IF k \in Cuts THEN next - 1 + Number(k) ELSE body[k].of[1]
    BY <1>5, <2>1 DEF Lifted
  <2>3. CASE k \notin Cuts
    <3>1. \E j \in DOMAIN args : args[j].id = y
      BY <2>2, <2>3 DEF Slices, Parameters, ParameterPlaces
    <3> QED
      BY <1>1, <3>1, ArgumentParts
  <2>4. CASE k \in Cuts
    <3> DEFINE T == {j \in Cuts : SliceKey(body[j]) = SliceKey(body[k])}
    <3>1. Cuts \subseteq DOMAIN body /\ DOMAIN body = 1..Len(body) /\ Len(body) \in Nat
      BY <1>1, FunctionParts DEF Cuts, Slices
    <3>2. T \in SUBSET Nat /\ T # {}
      BY <2>4, <3>1
    <3>3. PICK j \in T : \A i \in T : j <= i
      BY <3>2, LeastNumber
    <3>4. j \in FirstCuts
      BY <3>3 DEF FirstCuts
    <3>5. \E n \in DOMAIN Lifts : Lifts[n] = j
      <4> PICK S, R : S = FirstCuts /\ R = {z \in FirstCuts \X FirstCuts : LiftsBefore(z[1], z[2])}
        OBVIOUS
      <4>1. IsFiniteSet(S)
        <5>1. IsFiniteSet(1..Len(body))
          BY <3>1, FS_Interval
        <5>2. S \subseteq 1..Len(body)
          BY <3>1 DEF FirstCuts
        <5> QED
          BY <5>1, <5>2, FS_Subset
      <4>2. IsOrder(S, R)
        <5>1. \A a, b \in S : <<a, b>> \in R <=>
                \/ PlaceOf(args, body[a].of[1]) < PlaceOf(args, body[b].of[1])
                \/ PlaceOf(args, body[a].of[1]) = PlaceOf(args, body[b].of[1]) /\ a < b
          BY DEF LiftsBefore
        <5>2. ASSUME NEW a \in S
              PROVE  a \in Nat /\ PlaceOf(args, body[a].of[1]) \in Nat
          <6>1. a \in Slices /\ a \in Nat
            BY <3>1 DEF FirstCuts, Cuts
          <6>2. PICK i \in DOMAIN args : args[i].id = body[a].of[1]
            BY <6>1 DEF Slices, Parameters, ParameterPlaces
          <6>3. PlaceOf(args, body[a].of[1]) = i /\ i \in Nat
            BY <1>1, <6>2, ArgumentParts, FunctionParts
          <6> QED
            BY <6>1, <6>3
        <5> QED
          BY ONLY <5>1, <5>2 DEF IsOrder
      <4>3. /\ InOrder(S, R) \in [1..Cardinality(S) -> S]
            /\ \A z \in S : \E n \in 1..Cardinality(S) : InOrder(S, R)[n] = z
        BY ONLY <4>1, <4>2, InOrderLists
      <4>4. Lifts = InOrder(S, R)
        BY DEF Lifts
      <4> QED
        BY <3>4, <4>3, <4>4
    <3>6. Number(k) \in DOMAIN Lifts
      BY <3>3, <3>5 DEF Number
    <3>7. DOMAIN new = DOMAIN Lifts /\ DOMAIN new = 1..Len(new) /\ Len(new) \in Nat
      BY <1>3, ExtendedArguments, SMTT(30)
    <3> PICK n : n = Number(k)
      OBVIOUS
    <3>8. n \in 1..Len(new) /\ y = next - 1 + n
      BY <2>2, <2>4, <3>6, <3>7
    <3>9. ~(y \in 1..(next - 1))
      BY ONLY <1>1, <3>7, <3>8
    <3> QED
      BY <1>1, <3>9 DEF NumbersAreBelow, Values
  <2> QED
    BY <2>3, <2>4
<1>11. AreRedirected(body, Lifted, body')
  BY <1>2, <1>5, <1>8, <1>9, <1>10 DEF AreRedirected
<1>12. \A x \in Nat : x < next /\ IsParameter(args', x) => IsParameter(args, x)
  <2> PICK xs, ops, nx, ys : xs = args /\ ops = body /\ nx = next /\ ys = args'
    OBVIOUS
  <2>1. Extends(xs, ops, xs, new, nx) /\ ys = xs \o new
    BY <1>3
  <2>2. ASSUME NEW x \in Nat, x < nx, IsParameter(ys, x)
        PROVE  IsParameter(xs, x)
    BY ONLY <2>1, <2>2, OldParameters
  <2> QED
    BY <2>2
<1> QED
  BY <1>1, <1>4, <1>5, <1>7, <1>11, <1>12

\* Lifting (liftParameterSlices) leaves no use of a lifted slice.
LEMMA LiftKeepsFlat ==
  ASSUME IInv, FlatInvariant, Lift
  PROVE  FlatInvariant'
<1> PICK xs, ops, by, ys, qs :
      xs = args /\ ops = body /\ by = Lifted /\ ys = args' /\ qs = body'
  OBVIOUS
<1>1. /\ AreRedirected(ops, by, qs) /\ DOMAIN by = {ops[k].id : k \in Slices}
      /\ Slices = {k \in DOMAIN ops : ops[k].kind = "slice" /\ IsParameter(xs, ops[k].of[1])}
      /\ \A x \in Nat : x < next /\ IsParameter(ys, x) => IsParameter(xs, x)
      /\ IsFunction(xs, ops) /\ IsFunction(ys, qs)
  BY LiftedAreParameters
<1>2. /\ \A id : IsCut(qs, id) <=> IsCut(ops, id)
      /\ \A id \in IdsOf(ops) : IsTaken(qs, id) <=> id \notin DOMAIN by /\ IsTaken(ops, id)
      /\ AreFlat(ops) => AreFlat(qs)
      /\ SendsTakeNoCuts(ops) => SendsTakeNoCuts(qs)
      /\ \A k \in DOMAIN ops :
           qs[k].of[1] = IF ops[k].of[1] \in DOMAIN by THEN by[ops[k].of[1]] ELSE ops[k].of[1]
  BY ONLY <1>1, RedirectionKeeps
<1>3. /\ DOMAIN qs = DOMAIN ops
      /\ \A k \in DOMAIN ops : qs[k].id = ops[k].id /\ qs[k].kind = ops[k].kind
  BY ONLY <1>1, RedirectionKeeps
<1>4. /\ phase = "lift" /\ phase' = "erase" /\ round' = round /\ func' = func
  BY DEF Lift
<1>5. IsFlat' = IsFlat
  BY <1>4 DEF IsFlat, SlotSend, SendsTo, InitSends
<1>6. \A k \in DOMAIN ops : 1 \in DOMAIN ops[k].of /\ ops[k].id \in IdsOf(ops)
  BY <1>1, OperandParts, OperationParts
<1>7. \A k \in DOMAIN ops : ops[k].of[1] \in Nat /\ ops[k].of[1] < next
  BY <1>6, OperandIsBelow
<1>8. \A x \in DOMAIN by : IsCut(ops, x) /\ by[x] \notin IdsOf(ops)
  BY <1>1 DEF AreRedirected, IsCut
<1> SUFFICES ASSUME IsFlat
             PROVE  /\ AreFlat(qs)
                    /\ round = 1 => SendsTakeNoCuts(qs)
                    /\ round = 2 => CutsAreUnused(ys, qs)
                    /\ round = 3 => NoCuts(ys, qs) /\ AllAreTaken(qs)
  BY <1>4, <1>5 DEF FlatInvariant
<1>9. /\ AreFlat(ops)
      /\ round = 1 => SendsTakeParameters(xs, ops)
      /\ round = 3 => NoCuts(xs, ops) /\ AllAreTaken(ops)
  BY <1>4 DEF FlatInvariant
<1>10. ASSUME round = 1
       PROVE  SendsTakeNoCuts(qs)
  <2>1. SUFFICES ASSUME NEW k \in DOMAIN ops, ops[k].kind = "init", IsCut(qs, qs[k].of[1])
                 PROVE  FALSE
    BY <1>3 DEF SendsTakeNoCuts
  <2>2. ops[k].of[1] \notin DOMAIN by
    <3>1. ASSUME ops[k].of[1] \in DOMAIN by
          PROVE  FALSE
      <4>1. by[ops[k].of[1]] \notin IdsOf(ops) /\ IsCut(ops, by[ops[k].of[1]])
        BY <1>2, <1>8, <2>1, <3>1
      <4> QED
        BY <1>6, <4>1 DEF IsCut
    <3> QED
      BY <3>1
  <2>3. IsCut(ops, ops[k].of[1])
    BY <1>2, <2>1, <2>2
  <2>4. PICK j \in DOMAIN ops : ops[j].kind = "slice" /\ ops[j].id = ops[k].of[1]
    BY <2>3 DEF IsCut
  <2>5. IsParameter(xs, ops[j].of[1])
    BY <1>9, <1>10, <2>1, <2>4 DEF SendsTakeParameters
  <2> QED
    BY <1>1, <2>2, <2>4, <2>5
<1>11. ASSUME NEW k \in DOMAIN ops, ops[k].kind = "slice", IsParameter(ys, qs[k].of[1])
       PROVE  k \in Slices
  <2>1. ops[k].of[1] \notin DOMAIN by
    BY <1>8, <1>9, <1>11 DEF AreFlat
  <2>2. qs[k].of[1] = ops[k].of[1]
    BY <1>2, <2>1
  <2>3. IsParameter(xs, ops[k].of[1])
    BY <1>1, <1>7, <1>11, <2>2
  <2> QED
    BY <1>1, <1>11, <2>3
<1>12. CutsAreUnused(ys, qs)
  <2>1. SUFFICES ASSUME NEW k \in DOMAIN ops, ops[k].kind = "slice", IsParameter(ys, qs[k].of[1])
                 PROVE  ~IsTaken(qs, ops[k].id)
    BY <1>3 DEF CutsAreUnused
  <2>2. k \in Slices
    BY <1>11, <2>1
  <2>3. ops[k].id \in DOMAIN by /\ ops[k].id \in IdsOf(ops)
    BY <1>1, <1>6, <2>2
  <2> QED
    BY <1>2, <2>3
<1>13. ASSUME round = 3
       PROVE  NoCuts(ys, qs) /\ AllAreTaken(qs)
  <2>1. Slices = {}
    BY <1>1, <1>9, <1>13 DEF NoCuts
  <2>2. NoCuts(ys, qs)
    BY <1>3, <1>11, <2>1 DEF NoCuts
  <2>3. DOMAIN by = {}
    BY <1>1, <2>1
  <2>4. AllAreTaken(qs)
    BY <1>2, <1>3, <1>6, <1>9, <1>13, <2>3 DEF AllAreTaken
  <2> QED
    BY <2>2, <2>4
<1> QED
  BY <1>2, <1>9, <1>10, <1>12, <1>13

\* After it the parameters that remain are taken by some operation
\* (eraseUnusedParameterArgs).
LEMMA EraseLeavesTaken ==
  ASSUME IInv, Erase
  PROVE  /\ ParametersAreTaken(args', body')
         /\ \A x : IsParameter(args', x) => IsParameter(args, x)
<1>1. IsFunction(args, body)
  BY DEF IInv
<1> PICK places : places = {k \in DOMAIN args : ~IsErased(args[k])}
  OBVIOUS
<1>2. args' = Kept(args, places) /\ body' = body /\ places \subseteq DOMAIN args
  BY DEF Erase
<1>3. args \in Seq(Arguments)
  BY <1>1 DEF IsFunction
<1>4. PICK o : Selects(o, args', args, places)
  <2>1. \E o : Selects(o, Kept(args, places), args, places)
    BY ONLY <1>2, <1>3, KeptIs
  <2> QED
    BY <1>2, <2>1
<1>5. \A k \in DOMAIN args' : o[k] \in places /\ args'[k] = args[o[k]]
  BY <1>4 DEF Selects
<1>6. \A k \in places : args[k].isParameter => IsTaken(body, args[k].id)
  BY DEF IsErased, UsersOf, IsTaken
<1> QED
  BY <1>2, <1>5, <1>6 DEF ParametersAreTaken, IsParameter

\* Erasing the parameters that are not used (eraseUnusedParameterArgs).
LEMMA EraseKeepsFlat ==
  ASSUME IInv, FlatInvariant, Erase
  PROVE  FlatInvariant'
<1>1. \A x : IsParameter(args', x) => IsParameter(args, x)
  BY EraseLeavesTaken
<1>2. /\ phase = "erase" /\ phase' = "reorder" /\ round' = round /\ func' = func /\ body' = body
  BY DEF Erase
<1>3. IsFlat' = IsFlat
  BY <1>2 DEF IsFlat, SlotSend, SendsTo, InitSends
<1>4. CutsAreUnused(args, body) => CutsAreUnused(args', body)
  BY <1>1 DEF CutsAreUnused
<1>5. NoCuts(args, body) => NoCuts(args', body)
  BY <1>1 DEF NoCuts
<1> QED
  BY <1>2, <1>3, <1>4, <1>5 DEF FlatInvariant

\* Operations that are kept of a flat list are flat.
LEMMA SelectedAreFlat ==
  ASSUME NEW o, NEW ops, NEW qs, NEW places, Selects(o, qs, ops, places),
         places \subseteq DOMAIN ops, AreFlat(ops)
  PROVE  AreFlat(qs)
<1>1. \A k \in DOMAIN qs : o[k] \in DOMAIN ops /\ qs[k] = ops[o[k]]
  BY DEF Selects
<1> QED
  BY <1>1 DEF AreFlat, IsCut

\* Erasing what the host sends (eraseHostToTileSends).
LEMMA EraseHostSendsKeepsFlat ==
  ASSUME IInv, FlatInvariant, EraseHostSends
  PROVE  FlatInvariant' /\ IdsOf(body') \subseteq IdsOf(body)
<1>1. body \in Seq(Operations)
  BY DEF IInv, IsFunction
<1> PICK places : places = {k \in DOMAIN body : body[k].kind \notin {"init", "send"}}
  OBVIOUS
<1>2. /\ func' = func /\ phase = "lower" /\ phase' = "lift" /\ round' = 2
      /\ body' = Kept(body, places) /\ places \subseteq DOMAIN body
  BY DEF EraseHostSends
<1>3. PICK o : Selects(o, body', body, places)
  <2>1. \E o : Selects(o, Kept(body, places), body, places)
    BY ONLY <1>1, <1>2, KeptIs
  <2> QED
    BY <1>2, <2>1
<1>4. IsFlat' = IsFlat
  BY <1>2 DEF IsFlat, SlotSend, SendsTo, InitSends
<1>5. AreFlat(body) => AreFlat(body')
  BY ONLY <1>2, <1>3, SelectedAreFlat
<1>6. IdsOf(body') \subseteq IdsOf(body)
  BY <1>2, <1>3 DEF Selects, IdsOf
<1> QED
  BY <1>2, <1>4, <1>5, <1>6 DEF FlatInvariant

\* What createDirectStaticSlice takes a slice of is no slice.
LEMMA DirectIsNoCut ==
  ASSUME NEW xs, NEW ops, IsFunction(xs, ops), NEW id, id \in Values(xs, ops)
  PROVE  ~IsCut(ops, Direct(xs, ops)[id].of)
<1> PICK S, rank, f : S = Values(xs, ops) /\ rank = RankOf(xs, ops) /\ f = Direct(xs, ops)
  OBVIOUS
<1>1. IsDirect(xs, ops, f)
  BY DirectIs
<1> DEFINE T == {y \in S : ~IsCut(ops, f[y].of)}
<1>2. ASSUME NEW x \in S, \A y \in S : rank[y] < rank[x] => y \in T
      PROVE  x \in T
  <2>1. CASE f[x] = [of |-> x, part |-> <<>>] /\ ~IsCut(ops, x)
    BY <2>1
  <2>2. CASE IsCut(ops, x)
    <3>1. PICK j \in DOMAIN ops : ops[j].kind = "slice" /\ ops[j].id = x
      BY <2>2 DEF IsCut
    <3> PICK y, p : y = ops[j].of[1] /\ p = ops[j].part
      OBVIOUS
    <3>2. f[x] = [of |-> f[y].of, part |-> f[y].part \o p]
      BY <1>1, <3>1 DEF IsDirect
    <3>3. 1 \in DOMAIN ops[j].of
      BY OperandParts
    <3>4. y \in S /\ rank[y] < rank[x]
      BY <3>1, <3>3, OperandParts
    <3>5. ~IsCut(ops, f[y].of)
      BY <1>2, <3>4
    <3>6. f[x].of = f[y].of
      <4> PICK a, b : a = f[y].of /\ b = f[y].part \o p
        OBVIOUS
      <4>1. f[x] = [of |-> a, part |-> b]
        BY <3>2
      <4>2. f[x].of = a
        BY ONLY <4>1
      <4> QED
        BY <4>2
    <3> QED
      BY <3>5, <3>6
  <2>3. CASE ~IsCut(ops, x)
    <3>1. f[x] = [of |-> x, part |-> <<>>]
      <4>1. CASE \E k \in DOMAIN xs : xs[k].id = x
        BY <1>1, <4>1 DEF IsDirect
      <4>2. CASE \E k \in DOMAIN ops : ops[k].id = x
        <5>1. PICK k \in DOMAIN ops : ops[k].id = x
          BY <4>2
        <5>2. ops[k].kind # "slice"
          BY <2>3, <5>1 DEF IsCut
        <5>3. f[ops[k].id] = [of |-> ops[k].id, part |-> <<>>]
          BY <1>1, <5>2 DEF IsDirect
        <5> QED
          BY <5>1, <5>3
      <4> QED
        BY <4>1, <4>2, ValueIs
    <3> QED
      BY <2>1, <2>3, <3>1
  <2> QED
    BY <2>2, <2>3
<1>3. rank \in [S -> Nat]
  BY ValuesAreRanked DEF IsRanking
<1>4. S \subseteq T
  <2> HIDE DEF T
  <2> QED
    BY <1>2, <1>3, RankInduction
<1> QED
  BY <1>4

\* What a load takes a slice of is no slice.
LEMMA SourceIsFlat ==
  ASSUME IInv, GivenStays, IsFlat, AreFlat(body), SendsTakeNoCuts(body),
         NEW load, NEW source, IsLoad(load, source), load.part # <<>>,
         source \in Values(args, body), NEW op, op = SliceOf(load, source)
  PROVE  ~IsCut(body, op.of[1])
<1>1. IsFunction(args, body) /\ SendsStay /\ PhaseIs
  BY DEF IInv
<1>2. /\ lowered < Len(func.loads) /\ round = 1 /\ func \in Funcs /\ lowered \in Nat
      /\ load = func.loads[lowered + 1] /\ source = Source(load)
  BY <1>1 DEF PhaseIs, IsLoad
<1>3. lowered + 1 \in DOMAIN func.loads
  <2>1. func.loads \in Seq({func.loads[k] : k \in DOMAIN func.loads})
    BY <1>2, FuncsAssumption DEF IsGiven
  <2>2. Len(func.loads) \in Nat /\ DOMAIN func.loads = 1..Len(func.loads)
    BY <2>1, LenProperties
  <2> QED
    BY <1>2, <2>2
<1> PICK f, from, part :
      /\ f = Direct(args, body)
      /\ from = IF load.form = "cut" THEN f[source].of ELSE source
      /\ part = IF load.form = "cut" THEN f[source].part \o load.part ELSE load.part
  OBVIOUS
<1>4. op.of[1] = from
  <2>1. op = [id |-> next, kind |-> "slice", of |-> <<from>>, part |-> part, want |-> <<>>]
    BY DEF SliceOf
  <2>2. op.of = <<from>>
    BY ONLY <2>1
  <2> QED
    BY ONLY <2>2
<1>5. CASE load.form = "cut"
  BY <1>1, <1>4, <1>5, DirectIsNoCut
<1> PICK s, k : s = load.slot /\ k = SlotSend(s)
  OBVIOUS
<1>6. s \in SlotNames
  BY SourceIs
<1>7. k \in InitSends /\ k \in DOMAIN func.body /\ func.body[k].kind = "init"
  BY <1>2, <1>6, SlotSendIs
<1>8. CASE load.form = "recv"
  <2>1. k \in DOMAIN body /\ body[k].id = Len(func.args) + k /\ body[k].kind = "init"
    BY <1>1, <1>2, <1>7 DEF SendsStay
  <2>2. PlaceOf(body, Len(func.args) + k) = k
    BY <1>1, <2>1, OperationParts
  <2>3. source = body[k].of[1]
    BY <1>2, <1>8, <2>2 DEF Source
  <2> QED
    BY <1>4, <1>8, <2>1, <2>3 DEF SendsTakeNoCuts
<1>9. CASE load.form \notin {"recv", "cut"}
  <2>1. source = slots[s]
    BY <1>2, <1>9 DEF Source
  <2>2. source = func.body[k].of[1]
    BY <1>6, <2>1 DEF GivenStays
  <2>3. source <= Len(func.args)
    BY <1>2, <1>3, <1>9, <2>2 DEF IsFlat
  <2>4. \A j \in DOMAIN body : body[j].id # source
    <3>1. \A j \in DOMAIN body : body[j].id \in Nat /\ body[j].id > Len(func.args)
      BY <1>1, OperationParts DEF GivenStays
    <3>2. Len(func.args) \in Nat /\ source \in Nat
      <4> PICK n, x : n = Len(func.args) /\ x = func.body[k].of[1]
        OBVIOUS
      <4>5. n \in Nat /\ DOMAIN func.body = 1..Len(func.body) /\ Len(func.body) \in Nat
        BY <1>2, GivenParts
      <4>3. n \in Nat /\ k \in Nat
        BY ONLY <1>7, <4>5
      <4>4. x \in 1..(n + k - 1)
        BY <1>2, <1>6, SlotSendIs
      <4>1. x \in 1..(n + k - 1) /\ n \in Nat /\ k \in Nat
        BY <4>3, <4>4
      <4>2. x \in Nat
        BY ONLY <4>1
      <4> QED
        BY <2>2, <4>1, <4>2
    <3> QED
      BY ONLY <2>3, <3>1, <3>2
  <2> QED
    BY <1>4, <1>9, <2>4 DEF IsCut
<1> QED
  BY <1>5, <1>8, <1>9

\* A load adds at most the slice of what it takes and a use.
AddsLoad(load, source, op, use) ==
  /\ IsLoad(load, source) /\ source \in Values(args, body)
  /\ op = SliceOf(load, source) /\ op.id = next
  /\ use.kind = "use" /\ use.id = next + 1
  /\ IsBefore(args, body, op.of[1], Len(body) + 1)
  /\ \A k \in DOMAIN body' :
       \/ k \in DOMAIN body /\ body'[k] = body[k]
       \/ load.part # <<>> /\ body'[k] = op
       \/ body'[k] = use

\* That is all a load adds.
LEMMA LoadAdds ==
  ASSUME IInv, LowerLoad, phase' # "undefined"
  PROVE  \E load, source, op, use : AddsLoad(load, source, op, use)
<1> PICK load, source, op, slice, use, ops, qs :
      /\ load = func.loads[lowered + 1] /\ source = Source(load)
      /\ op = SliceOf(load, source)
      /\ slice = IF load.part = <<>> THEN <<>> ELSE <<op>>
      /\ use = [id |-> next + 1, kind |-> "use",
                of |-> <<IF load.part = <<>> THEN source ELSE next>>, part |-> <<>>,
                want |-> SlotMeaning(load.slot) \o load.part]
      /\ ops = body /\ qs = body'
  OBVIOUS
<1>1. /\ IsFunction(args, body) /\ next \in Nat
  BY DEF IInv, PhaseIs
<1>2. /\ phase = "lower" /\ lowered < Len(func.loads)
      /\ source \in ArgIds \cup OpIds
      /\ qs = ops \o slice \o <<use>>
  BY Zenon DEF LowerLoad
<1>3. source \in Values(args, body)
  BY <1>2 DEF ArgIds, OpIds, Values
<1>4. /\ load.part \in Seq(Words) /\ IsBefore(args, body, source, Len(body) + 1)
      /\ IsLoad(load, source)
  BY <1>2, <1>3, SourceIs, Zenon DEF IsLoad
<1>5. op \in Operations /\ op.id = next /\ IsBefore(args, body, op.of[1], Len(body) + 1)
  BY <1>1, <1>3, <1>4, SliceOfIs
<1>6. use.kind = "use" /\ use.id = next + 1
  <2> PICK nx, x, w : nx = next + 1 /\ x = <<IF load.part = <<>> THEN source ELSE next>>
                      /\ w = SlotMeaning(load.slot) \o load.part
    OBVIOUS
  <2>1. use = [id |-> nx, kind |-> "use", of |-> x, part |-> <<>>, want |-> w]
    BY Zenon
  <2>2. use.kind = "use" /\ use.id = nx
    BY ONLY <2>1
  <2> QED
    BY <2>2
<1>7. \A k \in DOMAIN qs :
        \/ k \in DOMAIN ops /\ qs[k] = ops[k]
        \/ load.part # <<>> /\ qs[k] = op
        \/ qs[k] = use
  <2>1. ops \in Seq(Operations)
    BY <1>1 DEF IsFunction
  <2>2. CASE load.part = <<>>
    <3>1. ops \o <<>> = ops
      BY <2>1, ConcatEmptySeq
    <3>2. qs = ops \o <<use>>
      BY <1>2, <2>2, <3>1, Zenon
    <3>3. \A k \in DOMAIN qs : (k \in DOMAIN ops /\ qs[k] = ops[k]) \/ qs[k] = use
      BY ONLY <2>1, <3>2
    <3> QED
      BY <3>3
  <2>3. CASE load.part # <<>>
    <3>1. qs = ops \o <<op>> \o <<use>>
      BY <1>2, <2>3, Zenon
    <3> PICK rs : rs = ops \o <<op>>
      OBVIOUS
    <3>2. rs \in Seq(Operations) /\ \A k \in DOMAIN rs : (k \in DOMAIN ops /\ rs[k] = ops[k]) \/ rs[k] = op
      BY ONLY <1>5, <2>1, rs = ops \o <<op>>
    <3>3. qs = rs \o <<use>>
      BY <3>1
    <3>4. \A k \in DOMAIN qs : (k \in DOMAIN rs /\ qs[k] = rs[k]) \/ qs[k] = use
      BY ONLY <3>2, <3>3
    <3> QED
      BY ONLY <2>3, <3>2, <3>4, Zenon
  <2> QED
    BY <2>2, <2>3
<1>8. \A k \in DOMAIN body' :
        \/ k \in DOMAIN body /\ body'[k] = body[k]
        \/ load.part # <<>> /\ body'[k] = op
        \/ body'[k] = use
  BY <1>7
<1>9. op = SliceOf(load, source)
  OBVIOUS
<1>10. AddsLoad(load, source, op, use)
  BY ONLY <1>3, <1>4, <1>5, <1>6, <1>8, <1>9, Zenon DEF AddsLoad
<1> QED
  BY <1>10, Zenon

\* Lowering a load.
LEMMA LowerLoadKeepsFlat ==
  ASSUME IInv, GivenStays, FlatInvariant, LowerLoad
  PROVE  /\ FlatInvariant'
         /\ \A id \in IdsOf(body') : id \in IdsOf(body) \/ id = next \/ id = next + 1
<1>1. /\ IsFunction(args, body) /\ NumbersAreBelow /\ next \in Nat
      /\ round = 1 /\ phase = "lower" /\ round' = round /\ func' = func
  BY DEF IInv, LowerLoad, PhaseIs
<1>2. IsFlat' = IsFlat
  BY <1>1 DEF IsFlat, SlotSend, SendsTo, InitSends
<1>3. CASE phase' = "undefined"
  <2>1. body' = body
    BY <1>3, <1>1 DEF LowerLoad
  <2> QED
    BY <1>1, <1>2, <1>3, <2>1 DEF FlatInvariant
<1>4. CASE phase' # "undefined"
  <2>1. phase' = "lower"
    BY <1>1, <1>4, Zenon DEF LowerLoad
  <2>11. PICK load, source, op, use : AddsLoad(load, source, op, use)
    BY <1>4, LoadAdds, Zenon
  <2> /\ IsLoad(load, source) /\ source \in Values(args, body)
      /\ op = SliceOf(load, source) /\ op.id = next
      /\ use.kind = "use" /\ use.id = next + 1
      /\ IsBefore(args, body, op.of[1], Len(body) + 1)
      /\ \A k \in DOMAIN body' :
           \/ k \in DOMAIN body /\ body'[k] = body[k]
           \/ load.part # <<>> /\ body'[k] = op
           \/ body'[k] = use
    BY <2>11, Zenon DEF AddsLoad
  <2>2. op.kind = "slice"
    <3>1. load.part \in Seq(Words) /\ IsBefore(args, body, source, Len(body) + 1)
      BY SourceIs
    <3> QED
      BY <1>1, <3>1, SliceOfIs, Zenon
  <2>3. \A id \in IdsOf(body') : id \in IdsOf(body) \/ id = next \/ id = next + 1
    BY DEF IdsOf
  <2>4. op.of[1] \in Values(args, body)
    BY DEF IsBefore, Values, IdsOf
  <2>5. \A x \in Values(args, body) : x # next
    <3>1. next \notin 1..(next - 1)
      BY <1>1
    <3> QED
      BY <1>1, <3>1 DEF NumbersAreBelow
  <2>6. ASSUME IsFlat
        PROVE  AreFlat(body') /\ SendsTakeNoCuts(body')
    <3>1. AreFlat(body) /\ SendsTakeNoCuts(body)
      BY <1>1, <2>6 DEF FlatInvariant
    <3>2. load.part # <<>> => ~IsCut(body, op.of[1])
      BY <2>6, <3>1, SourceIsFlat
    <3>3. \A x \in Values(args, body) : IsCut(body', x) => IsCut(body, x)
      BY <2>5 DEF IsCut
    <3>4. \A k \in DOMAIN body : body[k].kind # "join" => body[k].of[1] \in Values(args, body)
      BY SliceHasOperand, OperandIsBelow
    <3>5. AreFlat(body')
      <4>1. SUFFICES ASSUME NEW k \in DOMAIN body', body'[k].kind = "slice", IsCut(body', body'[k].of[1])
                     PROVE  FALSE
        BY DEF AreFlat
      <4>2. CASE k \in DOMAIN body /\ body'[k] = body[k]
        BY <3>1, <3>3, <3>4, <4>1, <4>2 DEF AreFlat
      <4>3. CASE load.part # <<>> /\ body'[k] = op
        BY <2>4, <3>2, <3>3, <4>1, <4>3
      <4>4. CASE body'[k] = use
        BY <4>1, <4>4
      <4> QED
        BY <4>2, <4>3, <4>4
    <3>6. SendsTakeNoCuts(body')
      <4>1. SUFFICES ASSUME NEW k \in DOMAIN body', body'[k].kind = "init", IsCut(body', body'[k].of[1])
                     PROVE  FALSE
        BY DEF SendsTakeNoCuts
      <4>2. k \in DOMAIN body /\ body'[k] = body[k]
        BY <2>2, <4>1
      <4> QED
        BY <3>1, <3>3, <3>4, <4>1, <4>2 DEF SendsTakeNoCuts
    <3> QED
      BY <3>5, <3>6
  <2> QED
    BY <1>1, <1>2, <2>1, <2>3, <2>6 DEF FlatInvariant
<1> QED
  BY <1>3, <1>4

\* Folding a flat list takes a slice that takes all to what is no slice.
LEMMA FoldsOfFlat ==
  ASSUME NEW xs, NEW ops, IsFunction(xs, ops), AreFlat(ops), NEW by, by = Folds(xs, ops)
  PROVE  /\ DOMAIN by = Values(xs, ops)
         /\ \A y \in Values(xs, ops) : ~IsCut(ops, y) => by[y] = y
         /\ \A y \in Values(xs, ops) : by[y] = y \/ ~IsCut(ops, by[y])
<1>1. /\ by \in [Values(xs, ops) -> Values(xs, ops)]
      /\ \A k \in DOMAIN xs : by[xs[k].id] = xs[k].id
      /\ \A k \in DOMAIN ops :
           by[ops[k].id] = IF ops[k].kind = "slice" /\ ops[k].part = <<>>
                           THEN by[ops[k].of[1]] ELSE ops[k].id
  BY FoldsAre
<1>2. ASSUME NEW y \in Values(xs, ops), ~IsCut(ops, y)
      PROVE  by[y] = y
  <2>1. CASE \E k \in DOMAIN xs : xs[k].id = y
    BY <1>1, <2>1
  <2>2. CASE \E k \in DOMAIN ops : ops[k].id = y
    BY <1>1, <1>2, <2>2 DEF IsCut
  <2> QED
    BY <2>1, <2>2, ValueIs
<1>3. ASSUME NEW y \in Values(xs, ops), by[y] # y
      PROVE  ~IsCut(ops, by[y])
  <2>1. PICK k \in DOMAIN ops : ops[k].id = y /\ ops[k].kind = "slice"
    BY <1>2, <1>3 DEF IsCut
  <2>2. by[y] = by[ops[k].of[1]]
    BY <1>1, <1>3, <2>1
  <2>3. ops[k].of[1] \in Values(xs, ops)
    BY <2>1, OperandParts
  <2>4. ~IsCut(ops, ops[k].of[1])
    BY <2>1 DEF AreFlat
  <2> QED
    BY <1>2, <2>2, <2>3, <2>4
<1> QED
  BY <1>1, <1>2, <1>3

\* Cleaning up (cleanupGeneratedIR) leaves no slice of a parameter.
LEMMA CleanupKeepsFlat ==
  ASSUME IInv, FlatInvariant, Cleanup
  PROVE  FlatInvariant' /\ IdsOf(body') \subseteq IdsOf(body)
<1>1. /\ IsFunction(args, body) /\ IsFunction(args, body)' /\ NumbersAreBelow /\ next \in Nat
  BY CleanupKeeps DEF IInv, PhaseIs
<1>2. /\ func' = func /\ args' = args /\ phase = "cleanup" /\ phase' = "lift" /\ round = 2 /\ round' = 3
  BY DEF IInv, Cleanup, PhaseIs
<1> PICK xs, ops, by : xs = args /\ ops = body /\ by = Folds(args, body)
  OBVIOUS
<1> PICK qs, places : qs = Substituted(ops, by) /\ places = LivePlaces(qs)
  OBVIOUS
<1>3. body' = Kept(qs, places)
  BY DEF Cleanup
<1>4. ops \in Seq(Operations)
  BY <1>1 DEF IsFunction
<1>5. /\ DOMAIN qs = DOMAIN ops
      /\ \A k \in DOMAIN ops :
           /\ qs[k].id = ops[k].id /\ qs[k].kind = ops[k].kind
           /\ qs[k].of = [i \in DOMAIN ops[k].of |->
                            IF ops[k].of[i] \in DOMAIN by THEN by[ops[k].of[i]] ELSE ops[k].of[i]]
  BY ONLY <1>4, qs = Substituted(ops, by), SubstitutedKeeps
<1>13. DOMAIN qs = DOMAIN ops /\ \A k \in DOMAIN ops : qs[k].id = ops[k].id /\ qs[k].kind = ops[k].kind
  BY ONLY <1>5
<1>6. DOMAIN by = Values(xs, ops)
  BY <1>1, FoldsAre
<1>7. /\ IsFunction(xs, qs) /\ places \subseteq DOMAIN qs
      /\ \A k \in DOMAIN qs :
           k \in places <=>
             \/ qs[k].kind \in Sinks
             \/ \E j \in places : \E n \in DOMAIN qs[j].of : qs[j].of[n] = qs[k].id
  BY FoldingKeeps
<1>8. PICK o : Selects(o, body', qs, places)
  <2>1. qs \in Seq(Operations)
    BY <1>7 DEF IsFunction
  <2>2. \E o : Selects(o, Kept(qs, places), qs, places)
    BY ONLY <1>7, <2>1, KeptIs
  <2> QED
    BY <1>3, <2>2
<1>9. \A k \in DOMAIN body' : o[k] \in places /\ o[k] \in DOMAIN qs /\ body'[k] = qs[o[k]]
  BY <1>7, <1>8 DEF Selects
<1>10. IdsOf(body') \subseteq IdsOf(body)
  BY <1>9, <1>13 DEF IdsOf
<1>11. IsFlat' = IsFlat
  BY <1>2 DEF IsFlat, SlotSend, SendsTo, InitSends
<1>12. ASSUME IsFlat
       PROVE  AreFlat(body') /\ NoCuts(args', body') /\ AllAreTaken(body')
  <2>1. AreFlat(ops) /\ CutsAreUnused(xs, ops)
    BY <1>2, <1>12 DEF FlatInvariant
  <2>2. /\ \A y \in Values(xs, ops) : ~IsCut(ops, y) => by[y] = y
        /\ \A y \in Values(xs, ops) : by[y] = y \/ ~IsCut(ops, by[y])
    BY <1>1, <2>1, FoldsOfFlat
  <2>3. \A id : IsCut(qs, id) <=> IsCut(ops, id)
    BY <1>13 DEF IsCut
  <2>4. ASSUME NEW k \in DOMAIN ops, ops[k].kind = "slice"
        PROVE  qs[k].of[1] = ops[k].of[1] /\ ~IsCut(ops, ops[k].of[1])
    <3>1. 1 \in DOMAIN ops[k].of /\ ops[k].of[1] \in Values(xs, ops)
      BY <1>1, <2>4, OperandParts
    <3>2. ~IsCut(ops, ops[k].of[1])
      BY <2>1, <2>4 DEF AreFlat
    <3>3. by[ops[k].of[1]] = ops[k].of[1]
      BY <2>2, <3>1, <3>2
    <3>4. qs[k].of = [i \in DOMAIN ops[k].of |->
                        IF ops[k].of[i] \in DOMAIN by THEN by[ops[k].of[i]] ELSE ops[k].of[i]]
      BY <1>5
    <3> QED
      BY ONLY <1>6, <3>1, <3>2, <3>3, <3>4
  <2>5. AreFlat(qs)
    BY <1>13, <2>3, <2>4 DEF AreFlat
  <2>6. AreFlat(body')
    BY ONLY <1>7, <1>8, <2>5, SelectedAreFlat
  <2>7. ASSUME NEW k \in places, qs[k].kind = "slice"
        PROVE  ~IsParameter(xs, qs[k].of[1])
    <3>1. SUFFICES ASSUME IsParameter(xs, qs[k].of[1])
                   PROVE  FALSE
      OBVIOUS
    <3>2. k \in DOMAIN ops /\ ops[k].kind = "slice" /\ qs[k].id = ops[k].id
      BY <1>7, <1>13, <2>7
    <3>3. ~IsTaken(ops, ops[k].id)
      BY <2>1, <2>4, <3>1, <3>2 DEF CutsAreUnused
    <3>4. PICK j \in places : \E n \in DOMAIN qs[j].of : qs[j].of[n] = qs[k].id
      BY <1>7, <2>7 DEF Sinks
    <3>5. PICK n \in DOMAIN qs[j].of : qs[j].of[n] = ops[k].id
      BY <3>2, <3>4
    <3>6. j \in DOMAIN ops /\ n \in DOMAIN ops[j].of /\ ops[j].of[n] \in Values(xs, ops)
      <4>1. j \in DOMAIN ops
        BY <1>5, <1>7
      <4>2. n \in DOMAIN ops[j].of
        BY <1>5, <4>1
      <4> QED
        BY <1>1, <4>1, <4>2, OperandParts
    <3>7. by[ops[j].of[n]] = ops[k].id
      <4>1. qs[j].of = [i \in DOMAIN ops[j].of |->
                          IF ops[j].of[i] \in DOMAIN by THEN by[ops[j].of[i]] ELSE ops[j].of[i]]
        BY <1>5, <3>6
      <4> QED
        BY ONLY <1>6, <3>5, <3>6, <4>1
    <3>8. IsCut(ops, ops[k].id)
      BY <3>2 DEF IsCut
    <3>9. ops[j].of[n] = ops[k].id
      BY <2>2, <3>6, <3>7, <3>8
    <3> QED
      BY <3>3, <3>6, <3>9 DEF IsTaken
  <2>8. NoCuts(args', body')
    BY <1>2, <1>9, <2>7 DEF NoCuts
  <2>9. ASSUME NEW k \in DOMAIN body'
        PROVE  body'[k].kind \in Sinks \/ IsTaken(body', body'[k].id)
    <3>1. SUFFICES ASSUME body'[k].kind \notin Sinks
                   PROVE  IsTaken(body', body'[k].id)
      OBVIOUS
    <3>2. PICK j \in places : \E n \in DOMAIN qs[j].of : qs[j].of[n] = qs[o[k]].id
      BY <1>7, <1>9, <3>1
    <3>3. PICK m \in DOMAIN body' : o[m] = j
      BY <1>8 DEF Selects
    <3> QED
      BY <1>9, <3>2, <3>3 DEF IsTaken
  <2> QED
    BY <2>6, <2>8, <2>9 DEF AllAreTaken
<1> QED
  BY <1>2, <1>10, <1>11, <1>12 DEF FlatInvariant

\* Parameters that are created again have new numbers, which stand for the old.
Renews(xs, ops, kept, new, by, nx) ==
  /\ Extends(xs, ops, kept, new, nx)
  /\ \A k \in DOMAIN kept : ~kept[k].isParameter
  /\ DOMAIN by = {xs[k].id : k \in {j \in DOMAIN xs : xs[j].isParameter}}
  /\ \A x \in DOMAIN by : \E n \in DOMAIN new : by[x] = nx - 1 + n

\* What reordering does when it changes anything.
LEMMA ReorderRenews ==
  ASSUME IInv, NEW kept, kept = Kept(args, DOMAIN args \ ParameterPlaces),
         NEW new, new = [n \in DOMAIN Wanted |-> [args[Wanted[n]] EXCEPT !.id = next - 1 + n]],
         phase # "annotate"
  PROVE  Renews(args, body, kept, new, Renewed, next) /\ AreRedirected(body, Renewed, Substituted(body, Renewed))
<1>1. IsFunction(args, body) /\ next \in Nat /\ NumbersAreBelow /\ HasInputs(args)
  BY DEF IInv, PhaseIs, InputsStay
<1>2. Extends(args, body, kept, new, next)
  BY <1>1, RenewedIs
<1>3. \A k \in DOMAIN kept : ~kept[k].isParameter
  <2> PICK places : places = DOMAIN args \ ParameterPlaces
    OBVIOUS
  <2>1. kept = Kept(args, places) /\ places \subseteq DOMAIN args /\ args \in Seq(Arguments)
    BY <1>1 DEF IsFunction
  <2>2. PICK o : Selects(o, kept, args, places)
    <3>1. \E o : Selects(o, Kept(args, places), args, places)
      BY ONLY <2>1, KeptIs
    <3> QED
      BY <2>1, <3>1
  <2>3. \A k \in DOMAIN kept : o[k] \in places /\ kept[k] = args[o[k]]
    BY <2>2 DEF Selects
  <2>4. \A k \in places : ~args[k].isParameter
    BY DEF ParameterPlaces
  <2> QED
    BY <2>3, <2>4
<1>4. DOMAIN Renewed = Parameters
  BY DEF Renewed
<1>5. ASSUME NEW x \in Parameters
      PROVE  \E n \in DOMAIN Wanted : args[Wanted[n]].id = x /\ Renewed[x] = next - 1 + n
  <2>1. PICK k \in ParameterPlaces : args[k].id = x
    BY DEF Parameters
  <2>2. \E n \in DOMAIN Wanted : args[Wanted[n]].id = x
    <3>1. \E n \in DOMAIN Wanted : Wanted[n] = k
      BY <1>1, WantedIs
    <3> QED
      BY <2>1, <3>1
  <2> PICK n : n = CHOOSE m \in DOMAIN Wanted : args[Wanted[m]].id = x
    OBVIOUS
  <2>3. n \in DOMAIN Wanted /\ args[Wanted[n]].id = x
    BY <2>2
  <2>4. Renewed[x] = next - 1 + n
    BY DEF Renewed
  <2> QED
    BY <2>3, <2>4
<1>6. DOMAIN new = DOMAIN Wanted
  OBVIOUS
<1>7. DOMAIN Renewed = {args[k].id : k \in {j \in DOMAIN args : args[j].isParameter}}
  BY <1>4 DEF Parameters, ParameterPlaces
<1>8. Renews(args, body, kept, new, Renewed, next)
  BY <1>2, <1>3, <1>4, <1>5, <1>6, <1>7 DEF Renews
<1>9. \A x \in DOMAIN Renewed : Renewed[x] \notin IdsOf(body)
  <2>1. DOMAIN new = 1..Len(new) /\ Len(new) \in Nat
    BY <1>2, ExtendedArguments
  <2>2. \A n \in 1..Len(new) : ~(next - 1 + n \in 1..(next - 1))
    BY ONLY <1>1, <2>1
  <2>3. \A id \in IdsOf(body) : id \in 1..(next - 1)
    BY <1>1 DEF NumbersAreBelow, Values
  <2>4. \A x \in DOMAIN Renewed : \E n \in 1..Len(new) : Renewed[x] = next - 1 + n
    BY <1>4, <1>5, <1>6, <2>1
  <2> QED
    BY ONLY <2>2, <2>3, <2>4
<1>10. body \in Seq(Operations) /\ \A k \in DOMAIN body : 1 \in DOMAIN body[k].of
  BY <1>1, OperandParts DEF IsFunction
<1> QED
  BY <1>8, <1>9, <1>10 DEF AreRedirected

\* What is said of slices stays.
KeepsCuts(xs, ops, ys, qs) ==
  /\ AreFlat(ops) => AreFlat(qs)
  /\ SendsTakeNoCuts(ops) => SendsTakeNoCuts(qs)
  /\ CutsAreUnused(xs, ops) => CutsAreUnused(ys, qs)
  /\ NoCuts(xs, ops) => NoCuts(ys, qs)
  /\ AllAreTaken(ops) => AllAreTaken(qs)
  /\ IdsOf(qs) = IdsOf(ops)

\* It does when parameters are created again.
LEMMA RenewingKeepsFlat ==
  ASSUME NEW xs, NEW ops, NEW kept, NEW new, NEW by, NEW nx, IsFunction(xs, ops),
         Renews(xs, ops, kept, new, by, nx), NEW ys, ys = kept \o new,
         NEW qs, AreRedirected(ops, by, qs)
  PROVE  KeepsCuts(xs, ops, ys, qs)
<1>1. /\ \A id : IsCut(qs, id) <=> IsCut(ops, id)
      /\ \A id \in IdsOf(ops) : IsTaken(qs, id) <=> id \notin DOMAIN by /\ IsTaken(ops, id)
      /\ AreFlat(ops) => AreFlat(qs)
      /\ SendsTakeNoCuts(ops) => SendsTakeNoCuts(qs)
      /\ \A k \in DOMAIN ops :
           qs[k].of[1] = IF ops[k].of[1] \in DOMAIN by THEN by[ops[k].of[1]] ELSE ops[k].of[1]
      /\ DOMAIN qs = DOMAIN ops
      /\ \A k \in DOMAIN ops : qs[k].id = ops[k].id /\ qs[k].kind = ops[k].kind
  BY RedirectionKeeps
<1>2. /\ Extends(xs, ops, kept, new, nx)
      /\ \A k \in DOMAIN kept : ~kept[k].isParameter
      /\ DOMAIN by = {xs[k].id : k \in {j \in DOMAIN xs : xs[j].isParameter}}
  BY DEF Renews
<1>3. IdsOf(qs) = IdsOf(ops)
  BY <1>1 DEF IdsOf
<1>4. ASSUME NEW k \in DOMAIN ops, ops[k].kind = "slice", IsParameter(ys, qs[k].of[1])
      PROVE  IsParameter(xs, ops[k].of[1])
  <2> PICK x : x = ops[k].of[1]
    OBVIOUS
  <2>1. x \in Nat /\ x \in Values(xs, ops)
    BY <1>4, OperandParts
  <2>2. x < nx
    <3>1. x \in 1..(nx - 1) /\ nx \in Nat
      BY <1>2, <2>1 DEF Extends
    <3> QED
      BY ONLY <2>1, <3>1
  <2>3. x \in DOMAIN by
    <3>1. ASSUME x \notin DOMAIN by
          PROVE  FALSE
      <4>1. IsParameter(ys, x)
        BY <1>1, <1>4, <3>1
      <4>2. Extends(xs, ops, kept, new, nx) /\ ys = kept \o new
        BY <1>2
      <4>3. IsParameter(kept, x)
        BY ONLY <2>1, <2>2, <4>1, <4>2, OldParameters
      <4> QED
        BY <1>2, <4>3 DEF IsParameter
    <3> QED
      BY <3>1
  <2> QED
    BY <1>2, <2>3 DEF IsParameter
<1>5. \A k \in DOMAIN ops : ops[k].id \in IdsOf(ops) /\ ops[k].id \notin DOMAIN by
  BY <1>2, OperationParts DEF IdsOf
<1>6. CutsAreUnused(xs, ops) => CutsAreUnused(ys, qs)
  BY <1>1, <1>4, <1>5 DEF CutsAreUnused
<1>7. NoCuts(xs, ops) => NoCuts(ys, qs)
  BY <1>1, <1>4 DEF NoCuts
<1>8. AllAreTaken(ops) => AllAreTaken(qs)
  BY <1>1, <1>5 DEF AllAreTaken
<1> QED
  BY <1>1, <1>3, <1>6, <1>7, <1>8 DEF KeepsCuts

\* The two ways a round may end.
LEMMA ReorderIs ==
  ASSUME IInv, Reorder
  PROVE  /\ phase = "reorder" /\ round \in 1..3 /\ round' = round /\ func' = func
         /\ phase' = IF round = 1 THEN "lower" ELSE IF round = 2 THEN "cleanup" ELSE "done"
         /\ \/ Wanted = Ascending(ParameterPlaces) /\ args' = args /\ body' = body /\ next' = next
            \/ /\ args' = Kept(args, DOMAIN args \ ParameterPlaces)
                          \o [n \in DOMAIN Wanted |-> [args[Wanted[n]] EXCEPT !.id = next - 1 + n]]
               /\ body' = Substituted(body, Renewed)
               /\ next' = next + Len(Wanted)
<1>1. phase' = CASE round = 1 -> "lower" [] round = 2 -> "cleanup" [] OTHER -> "done"
  BY DEF Reorder
<1>2. phase' = IF round = 1 THEN "lower" ELSE IF round = 2 THEN "cleanup" ELSE "done"
  BY <1>1
<1> QED
  BY <1>2 DEF Reorder, IInv, PhaseIs

\* Reordering (reorderParameterArgsByFirstUse).
LEMMA ReorderKeepsFlat ==
  ASSUME IInv, FlatInvariant, Reorder
  PROVE  FlatInvariant' /\ IdsOf(body') = IdsOf(body)
<1>1. /\ phase = "reorder" /\ round \in 1..3 /\ round' = round /\ func' = func
      /\ phase' = IF round = 1 THEN "lower" ELSE IF round = 2 THEN "cleanup" ELSE "done"
  BY ReorderIs
<1>2. IsFlat' = IsFlat
  BY <1>1 DEF IsFlat, SlotSend, SendsTo, InitSends
<1>3. /\ AreFlat(body) => AreFlat(body')
      /\ SendsTakeNoCuts(body) => SendsTakeNoCuts(body')
      /\ CutsAreUnused(args, body) => CutsAreUnused(args', body')
      /\ NoCuts(args, body) => NoCuts(args', body')
      /\ AllAreTaken(body) => AllAreTaken(body')
      /\ IdsOf(body') = IdsOf(body)
  <2>1. CASE args' = args /\ body' = body
    BY <2>1
  <2>2. CASE /\ args' = Kept(args, DOMAIN args \ ParameterPlaces)
                        \o [n \in DOMAIN Wanted |-> [args[Wanted[n]] EXCEPT !.id = next - 1 + n]]
             /\ body' = Substituted(body, Renewed)
    <3> PICK kept, new :
          /\ kept = Kept(args, DOMAIN args \ ParameterPlaces)
          /\ new = [n \in DOMAIN Wanted |-> [args[Wanted[n]] EXCEPT !.id = next - 1 + n]]
      OBVIOUS
    <3> PICK xs, ops, ys, qs, by, nx :
          xs = args /\ ops = body /\ ys = args' /\ qs = body' /\ by = Renewed /\ nx = next
      OBVIOUS
    <3>1. Renews(xs, ops, kept, new, by, nx) /\ AreRedirected(ops, by, qs) /\ ys = kept \o new
      BY <1>1, <2>2, ReorderRenews
    <3>2. IsFunction(xs, ops)
      BY DEF IInv
    <3>3. KeepsCuts(xs, ops, ys, qs)
      BY ONLY <3>1, <3>2, RenewingKeepsFlat
    <3> QED
      BY <3>3 DEF KeepsCuts
  <2> QED
    BY <2>1, <2>2, ReorderIs
<1> QED
  BY <1>1, <1>2, <1>3 DEF FlatInvariant

\* The number of a parameter that is created again stands for the old one's
\* everywhere, and for nothing else.
StandsFor(ops, ids, by, nx) ==
  /\ nx \in Nat /\ \E c \in Nat : DOMAIN ids = 1..c
  /\ \A k \in DOMAIN ops : \A i \in DOMAIN ops[k].of : ops[k].of[i] \in 1..(nx - 1)
  /\ \A m, n \in DOMAIN ids : ids[m] = ids[n] => m = n
  /\ \A n \in DOMAIN ids : ids[n] \in DOMAIN by
  /\ \A x \in DOMAIN by : \E n \in DOMAIN ids : ids[n] = x /\ by[x] = nx - 1 + n

\* The new parameter is used where the old one was.
LEMMA RenewedUsers ==
  ASSUME NEW ops, NEW ids, NEW by, NEW nx, StandsFor(ops, ids, by, nx),
         NEW qs, ops \in Seq(Operations), qs = Substituted(ops, by), NEW n \in DOMAIN ids
  PROVE  UsersIn(qs, nx - 1 + n) = UsersIn(ops, ids[n])
<1>1. /\ DOMAIN qs = DOMAIN ops
      /\ \A k \in DOMAIN ops :
           /\ qs[k].id = ops[k].id /\ qs[k].kind = ops[k].kind
           /\ qs[k].of = [i \in DOMAIN ops[k].of |->
                            IF ops[k].of[i] \in DOMAIN by THEN by[ops[k].of[i]] ELSE ops[k].of[i]]
  BY SubstitutedKeeps
<1>2. nx \in Nat /\ n \in Nat /\ n > 0 /\ \A m \in DOMAIN ids : m \in Nat
  BY DEF StandsFor
<1>3. ASSUME NEW k \in DOMAIN ops
      PROVE  /\ DOMAIN qs[k].of = DOMAIN ops[k].of
             /\ \A i \in DOMAIN ops[k].of : qs[k].of[i] = nx - 1 + n <=> ops[k].of[i] = ids[n]
  <2>1. qs[k].of = [i \in DOMAIN ops[k].of |->
                      IF ops[k].of[i] \in DOMAIN by THEN by[ops[k].of[i]] ELSE ops[k].of[i]]
    BY <1>1
  <2>2. ASSUME NEW i \in DOMAIN ops[k].of
        PROVE  qs[k].of[i] = nx - 1 + n <=> ops[k].of[i] = ids[n]
    <3> PICK x, y : x = ops[k].of[i] /\ y = qs[k].of[i]
      OBVIOUS
    <3>1. y = IF x \in DOMAIN by THEN by[x] ELSE x
      BY <2>1
    <3>2. x \in 1..(nx - 1)
      BY DEF StandsFor
    <3>3. CASE x \in DOMAIN by
      <4>1. PICK m \in DOMAIN ids : ids[m] = x /\ by[x] = nx - 1 + m
        BY <3>3 DEF StandsFor
      <4>2. y = nx - 1 + n <=> m = n
        BY ONLY <1>2, <3>1, <3>3, <4>1
      <4>3. x = ids[n] <=> m = n
        BY <4>1 DEF StandsFor
      <4> QED
        BY <4>2, <4>3
    <3>4. CASE x \notin DOMAIN by
      <4>1. y # nx - 1 + n
        BY ONLY <1>2, <3>1, <3>2, <3>4
      <4>2. x # ids[n]
        BY <3>4 DEF StandsFor
      <4> QED
        BY <4>1, <4>2
    <3> QED
      BY <3>3, <3>4
  <2> QED
    BY <2>1, <2>2
<1> QED
  BY <1>1, <1>3 DEF UsersIn

\* The values are taken, in their order.
AreTakenInOrder(ops, ids) ==
  /\ \A n \in DOMAIN ids : IsTaken(ops, ids[n])
  /\ \A m, n \in DOMAIN ids :
       m < n => \/ FirstIn(ops, ids[m]) < FirstIn(ops, ids[n])
                \/ FirstIn(ops, ids[m]) = FirstIn(ops, ids[n])

\* The parameters created again stand in the order of their first use.
LEMMA RenewedAreSorted ==
  ASSUME NEW xs, NEW ops, NEW kept, NEW new, NEW by, NEW nx, Renews(xs, ops, kept, new, by, nx),
         NEW ids, StandsFor(ops, ids, by, nx), DOMAIN new = DOMAIN ids,
         ops \in Seq(Operations), NEW qs, qs = Substituted(ops, by), NEW ys, ys = kept \o new,
         AreTakenInOrder(ops, ids)
  PROVE  AreSorted(ys, qs) /\ ParametersAreTaken(ys, qs)
<1>1. /\ Extends(xs, ops, kept, new, nx)
      /\ \A k \in DOMAIN kept : ~kept[k].isParameter
  BY DEF Renews
<1>2. /\ Len(kept) \in Nat /\ DOMAIN new = 1..Len(new) /\ Len(new) \in Nat
      /\ \A k \in DOMAIN ys :
           \/ k \in DOMAIN kept /\ ys[k] = kept[k]
           \/ k - Len(kept) \in DOMAIN new /\ ys[k] = new[k - Len(kept)] /\ Len(kept) < k
      /\ DOMAIN ys = 1..(Len(kept) + Len(new))
  BY <1>1, ExtendedArguments
<1>3. \A n \in DOMAIN new : new[n].id = nx - 1 + n
  BY <1>1 DEF Extends
<1>4. \A k \in DOMAIN ys : ys[k].isParameter =>
        k - Len(kept) \in DOMAIN ids /\ ys[k].id = nx - 1 + (k - Len(kept))
  BY <1>1, <1>2, <1>3
<1>5. \A n \in DOMAIN ids : UsersIn(qs, nx - 1 + n) = UsersIn(ops, ids[n])
  BY RenewedUsers
<1>6. Len(qs) = Len(ops)
  <2>1. DOMAIN qs = DOMAIN ops /\ qs = [k \in DOMAIN ops |-> qs[k]]
    BY DEF Substituted
  <2>2. DOMAIN ops = 1..Len(ops) /\ Len(ops) \in Nat
    BY LenProperties
  <2>3. qs = [k \in 1..Len(ops) |-> qs[k]]
    BY <2>1, <2>2
  <2>4. Len([k \in 1..Len(ops) |-> qs[k]]) = Len(ops)
    BY ONLY <2>2
  <2> QED
    BY ONLY <2>3, <2>4
<1>7. \A n \in DOMAIN ids : FirstIn(qs, nx - 1 + n) = FirstIn(ops, ids[n])
  <2> TAKE n \in DOMAIN ids
  <2> PICK a, b : a = nx - 1 + n /\ b = ids[n]
    OBVIOUS
  <2>1. UsersIn(qs, a) = UsersIn(ops, b)
    BY <1>5
  <2>2. FirstIn(qs, a) = FirstIn(ops, b)
    BY ONLY <1>6, <2>1 DEF FirstIn
  <2> QED
    BY <2>2
<1>8. AreSorted(ys, qs)
  <2>1. SUFFICES ASSUME NEW j \in DOMAIN ys, NEW k \in DOMAIN ys,
                        ys[j].isParameter, ys[k].isParameter, j < k
                 PROVE  \/ FirstIn(qs, ys[j].id) < FirstIn(qs, ys[k].id)
                        \/ FirstIn(qs, ys[j].id) = FirstIn(qs, ys[k].id)
    BY DEF AreSorted
  <2> PICK m, n : m = j - Len(kept) /\ n = k - Len(kept)
    OBVIOUS
  <2>2. m < n
    BY <1>2, <2>1
  <2>3. m \in DOMAIN ids /\ n \in DOMAIN ids /\ ys[j].id = nx - 1 + m /\ ys[k].id = nx - 1 + n
    BY <1>4, <2>1
  <2> QED
    BY <1>7, <2>2, <2>3 DEF AreTakenInOrder
<1>9. ParametersAreTaken(ys, qs)
  <2>1. \A n \in DOMAIN ids : UsersIn(ops, ids[n]) # {}
    BY DEF AreTakenInOrder, IsTaken, UsersIn
  <2>2. \A n \in DOMAIN ids : IsTaken(qs, nx - 1 + n)
    BY <1>5, <2>1 DEF IsTaken, UsersIn
  <2> QED
    BY <1>4, <2>2 DEF ParametersAreTaken
<1> QED
  BY <1>8, <1>9

\* The first use, said of any list.
LEMMA FirstUseIsFirst ==
  \A arg : FirstUse(arg) = FirstIn(body, arg.id) /\ UsersOf(arg.id) = UsersIn(body, arg.id)
BY DEF FirstUse, FirstIn, UsersOf, UsersIn

\* Reordering leaves the parameters in the order of their first use.
LEMMA ReorderSorts ==
  ASSUME IInv, OrderInvariant, Reorder
  PROVE  OrderInvariant'
<1>1. /\ phase = "reorder" /\ round \in 1..3
      /\ phase' = IF round = 1 THEN "lower" ELSE IF round = 2 THEN "cleanup" ELSE "done"
  BY ReorderIs
<1>2. IsFunction(args, body) /\ next \in Nat /\ NumbersAreBelow
  BY DEF IInv, PhaseIs
<1>3. ParametersAreTaken(args, body)
  BY <1>1 DEF OrderInvariant
<1>4. PICK c \in Nat :
        /\ Wanted \in [1..c -> ParameterPlaces]
        /\ \A k \in ParameterPlaces : \E n \in 1..c : Wanted[n] = k
        /\ \A m, n \in 1..c : ComesBefore(Wanted[m], Wanted[n]) <=> m < n
  BY <1>2, WantedIs
<1>5. \A m, n \in 1..c : m < n =>
        \/ FirstIn(body, args[Wanted[m]].id) < FirstIn(body, args[Wanted[n]].id)
        \/ FirstIn(body, args[Wanted[m]].id) = FirstIn(body, args[Wanted[n]].id)
  BY <1>4, FirstUseIsFirst DEF ComesBefore
<1>6. ASSUME Wanted = Ascending(ParameterPlaces)
      PROVE  AreSorted(args, body)
  <2> PICK S : S = ParameterPlaces
    OBVIOUS
  <2>1. S \in SUBSET Nat /\ IsFiniteSet(S)
    <3>1. DOMAIN args = 1..Len(args) /\ Len(args) \in Nat
      BY <1>2, FunctionParts
    <3>2. IsFiniteSet(1..Len(args)) /\ S \subseteq 1..Len(args)
      BY <3>1, FS_Interval DEF ParameterPlaces
    <3>3. IsFiniteSet(S)
      BY ONLY <3>2, FS_Subset
    <3>4. S \subseteq Nat
      BY ONLY <3>1, <3>2
    <3> QED
      BY <3>3, <3>4
  <2>2. \A m, n \in 1..Cardinality(S) : m < n <=> Ascending(S)[m] < Ascending(S)[n]
    BY <2>1, AscendingLists
  <2>3. DOMAIN Wanted = 1..Cardinality(S)
    <3>1. Ascending(S) \in [1..Cardinality(S) -> S]
      BY <2>1, AscendingLists
    <3> QED
      BY <1>6, <3>1
  <2>4. DOMAIN Wanted = 1..c
    BY <1>4
  <2>5. ASSUME NEW j \in DOMAIN args, NEW k \in DOMAIN args, args[j].isParameter, args[k].isParameter, j < k
        PROVE  \/ FirstIn(body, args[j].id) < FirstIn(body, args[k].id)
               \/ FirstIn(body, args[j].id) = FirstIn(body, args[k].id)
    <3>1. PICK m, n \in 1..c : Wanted[m] = j /\ Wanted[n] = k
      BY <1>4, <2>5 DEF ParameterPlaces
    <3>2. m < n
      BY <1>6, <2>2, <2>3, <2>4, <2>5, <3>1
    <3> QED
      BY <1>5, <3>1, <3>2
  <2> QED
    BY <2>5 DEF AreSorted
<1>7. CASE Wanted = Ascending(ParameterPlaces) /\ args' = args /\ body' = body
  BY <1>1, <1>3, <1>6, <1>7 DEF OrderInvariant
<1>8. CASE /\ args' = Kept(args, DOMAIN args \ ParameterPlaces)
                      \o [n \in DOMAIN Wanted |-> [args[Wanted[n]] EXCEPT !.id = next - 1 + n]]
           /\ body' = Substituted(body, Renewed)
  <2> PICK kept, new :
        /\ kept = Kept(args, DOMAIN args \ ParameterPlaces)
        /\ new = [n \in DOMAIN Wanted |-> [args[Wanted[n]] EXCEPT !.id = next - 1 + n]]
    OBVIOUS
  <2> PICK xs, ops, ys, qs, by, nx :
        xs = args /\ ops = body /\ ys = args' /\ qs = body' /\ by = Renewed /\ nx = next
    OBVIOUS
  <2> PICK ids : ids = [n \in DOMAIN Wanted |-> args[Wanted[n]].id]
    OBVIOUS
  <2>1. Renews(xs, ops, kept, new, by, nx) /\ ys = kept \o new /\ qs = Substituted(ops, by)
    BY <1>1, <1>8, ReorderRenews
  <2>2. ops \in Seq(Operations)
    BY <1>2 DEF IsFunction
  <2>3. DOMAIN Wanted = 1..c
    BY <1>4
  <2>4. DOMAIN ids = 1..c /\ DOMAIN new = DOMAIN ids /\ \A n \in 1..c : ids[n] = args[Wanted[n]].id
    BY <2>3
  <2>5. \A n \in 1..c : Wanted[n] \in DOMAIN args /\ args[Wanted[n]].isParameter /\ Wanted[n] \in ParameterPlaces
    BY <1>4 DEF ParameterPlaces
  <2>6. StandsFor(ops, ids, by, nx)
    <3>1. \A k \in DOMAIN ops : \A i \in DOMAIN ops[k].of : ops[k].of[i] \in 1..(nx - 1)
      BY <1>2, OperandParts DEF NumbersAreBelow
    <3>2. \A m, n \in 1..c : ids[m] = ids[n] => m = n
      <4>1. \A m, n \in 1..c : ids[m] = ids[n] => Wanted[m] = Wanted[n]
        BY <1>2, <2>4, <2>5 DEF IsFunction, IsNumbered
      <4>2. ASSUME NEW m \in 1..c, NEW n \in 1..c, Wanted[m] = Wanted[n]
            PROVE  m = n
        <5>1. (m < n <=> m < m) /\ (n < m <=> m < m) /\ c \in Nat
          BY <1>4, <4>2
        <5> QED
          BY ONLY <5>1
      <4> QED
        BY <4>1, <4>2
    <3>3. DOMAIN by = Parameters
      BY DEF Renewed
    <3>4. \A n \in 1..c : ids[n] \in DOMAIN by
      BY <2>4, <2>5, <3>3 DEF Parameters
    <3>5. ASSUME NEW x \in DOMAIN by
          PROVE  \E n \in 1..c : ids[n] = x /\ by[x] = nx - 1 + n
      <4>1. PICK k \in ParameterPlaces : args[k].id = x
        BY <3>3, <3>5 DEF Parameters
      <4>2. \E n \in DOMAIN Wanted : args[Wanted[n]].id = x
        BY <1>4, <2>3, <4>1
      <4> PICK n : n = CHOOSE m \in DOMAIN Wanted : args[Wanted[m]].id = x
        OBVIOUS
      <4>3. n \in DOMAIN Wanted /\ args[Wanted[n]].id = x
        BY <4>2
      <4>4. by[x] = nx - 1 + n
        BY <3>3 DEF Renewed
      <4> QED
        BY <2>3, <2>4, <4>3, <4>4
    <3> QED
      BY <1>2, <2>4, <3>1, <3>2, <3>4, <3>5 DEF StandsFor
  <2>7. AreTakenInOrder(ops, ids)
    BY <1>3, <1>5, <2>4, <2>5 DEF ParametersAreTaken, AreTakenInOrder
  <2>9. DOMAIN new = DOMAIN ids
    BY <2>4
  <2>10. AreSorted(ys, qs) /\ ParametersAreTaken(ys, qs)
    BY ONLY <2>1, <2>2, <2>6, <2>7, <2>9, RenewedAreSorted
  <2> QED
    BY <2>10 DEF OrderInvariant
<1> QED
  BY <1>7, <1>8, ReorderIs

\* The argument a value goes back to, step by step.
LEMMA RootIs ==
  ASSUME func \in Funcs, NEW n, n = Len(func.args)
  PROVE  /\ \A id \in 1..n : Root[id] = id
         /\ \A j \in DOMAIN func.body :
              Len(func.body[j].of) = 1 => Root[n + j] = Root[func.body[j].of[1]]
<1> PICK m, ops : m = Len(func.body) /\ ops = func.body
  OBVIOUS
<1>1. /\ n \in Nat /\ m \in Nat /\ DOMAIN ops = 1..m
      /\ \A j \in 1..m : Len(ops[j].of) = 1 => ops[j].of[1] \in 1..(n + j - 1)
  <2>1. /\ n \in Nat /\ m \in Nat /\ DOMAIN ops = 1..m
    BY GivenParts
  <2>2. ASSUME NEW j \in 1..m, Len(ops[j].of) = 1
        PROVE  ops[j].of[1] \in 1..(n + j - 1)
    <3>1. 1 \in DOMAIN ops[j].of
      BY <2>1, GivenParts
    <3> QED
      BY <2>1, <3>1, GivenParts
  <2> QED
    BY <2>1, <2>2
<1> DEFINE S == 1..(n + m)
           rank == [id \in S |-> id]
           Def(g, id) == IF id <= n THEN id
                         ELSE LET op == ops[id - n] IN IF Len(op.of) = 1 THEN g[op.of[1]] ELSE 0
           D == [g \in [S -> Nat] |-> [id \in S |-> Def(g, id)]]
<1>2. Root = CHOOSE g : g = [id \in S |-> Def(g, id)]
  BY DEF Root
<1>3. ASSUME NEW id \in S, id > n, Len(ops[id - n].of) = 1
      PROVE  ops[id - n].of[1] \in S /\ ops[id - n].of[1] < id
  <2>1. id - n \in 1..m
    <3>1. id \in 1..(n + m) /\ id > n
      BY <1>3
    <3> QED
      BY ONLY <1>1, <3>1
  <2>2. ops[id - n].of[1] \in 1..(n + (id - n) - 1)
    BY <1>1, <1>3, <2>1
  <2> PICK x : x = ops[id - n].of[1]
    OBVIOUS
  <2>3. x \in 1..(n + m) /\ x < id
    <3>1. id \in 1..(n + m) /\ id > n
      BY <1>3
    <3>2. x \in 1..(n + (id - n) - 1)
      BY <2>2
    <3> QED
      BY ONLY <1>1, <3>1, <3>2
  <2> QED
    BY <2>3
<1>4. ASSUME NEW g \in [S -> Nat], NEW h, NEW id \in S, \A y \in S : y < id => g[y] = h[y]
      PROVE  Def(g, id) \in Nat /\ Def(g, id) = Def(h, id)
  <2>1. CASE id <= n
    BY <2>1
  <2>2. CASE ~(id <= n) /\ Len(ops[id - n].of) = 1
    <3> PICK x : x = ops[id - n].of[1]
      OBVIOUS
    <3>1. id > n
      BY <1>1, <2>2
    <3>2. x \in S /\ x < id
      BY <1>3, <2>2, <3>1
    <3>3. g[x] \in Nat /\ g[x] = h[x]
      BY <1>4, <3>2
    <3>4. Def(g, id) = g[x] /\ Def(h, id) = h[x]
      BY <2>2
    <3> QED
      BY <3>3, <3>4
  <2>3. CASE ~(id <= n) /\ Len(ops[id - n].of) # 1
    BY <2>3
  <2> QED
    BY <2>1, <2>2, <2>3
<1> HIDE DEF Def
<1>15. \A g \in [S -> Nat] : \A id \in S : Def(g, id) \in Nat
  <2> HIDE DEF S
  <2> QED
    BY <1>4
<1>5. D \in [[S -> Nat] -> [S -> Nat]]
  BY <1>15
<1>6. IsRecursion(S, Nat, rank, D)
  <2>1. ASSUME NEW g \in [S -> Nat], NEW h \in [S -> Nat], NEW x \in S,
               \A y \in S : rank[y] < rank[x] => g[y] = h[y]
        PROVE  D[g][x] = D[h][x]
    <3>1. \A y \in S : y < x => g[y] = h[y]
      BY <2>1
    <3>2. Def(g, x) = Def(h, x)
      <4> HIDE DEF S, D, rank
      <4> QED
        BY <1>4, <3>1, Zenon
    <3>3. D[g][x] = Def(g, x) /\ D[h][x] = Def(h, x)
      OBVIOUS
    <3> QED
      BY <3>2, <3>3
  <2> QED
    BY <1>5, <2>1 DEF IsRecursion
<1>7. IsRanking(S, rank)
  <2>1. n + m + 1 \in Nat /\ rank \in [S -> Nat] /\ \A x \in S : rank[x] < n + m + 1
    <3>1. \A x \in 1..(n + m) : x \in Nat /\ x < n + m + 1 /\ n + m + 1 \in Nat
      BY ONLY <1>1
    <3>2. n + m + 1 \in Nat
      BY ONLY <1>1
    <3> QED
      BY <3>1, <3>2
  <2> QED
    BY <2>1 DEF IsRanking
<1>8. \E g \in [S -> Nat] : g = D[g]
  <2> HIDE DEF D, S, rank
  <2> PICK SS, V, r, DD : SS = S /\ V = Nat /\ r = rank /\ DD = D
    OBVIOUS
  <2>1. V # {} /\ IsRanking(SS, r) /\ IsRecursion(SS, V, r, DD)
    BY <1>6, <1>7
  <2>2. \E g \in [SS -> V] : g = DD[g]
    BY ONLY <2>1, RecursionSolves
  <2> QED
    BY <2>2
<1>9. PICK g \in [S -> Nat] : g = D[g]
  BY <1>8
<1>10. g = [id \in S |-> Def(g, id)]
  BY <1>9
<1> PICK f : f = Root
  OBVIOUS
<1>11. f = [id \in S |-> Def(f, id)]
  <2> HIDE DEF S
  <2> QED
    BY <1>2, <1>10
<1>12. \A id \in S : f[id] = Def(f, id)
  BY <1>11
<1>13. \A id \in 1..n : f[id] = id
  <2>1. \A id \in 1..n : id \in S /\ id <= n
    BY ONLY <1>1
  <2> QED
    BY <1>12, <2>1 DEF Def
<1>14. ASSUME NEW j \in DOMAIN func.body, Len(func.body[j].of) = 1
       PROVE  f[n + j] = f[func.body[j].of[1]]
  <2>1. n + j \in S /\ ~(n + j <= n) /\ (n + j) - n = j
    <3>1. j \in 1..m
      BY <1>1
    <3> QED
      BY ONLY <1>1, <3>1
  <2>2. f[n + j] = Def(f, n + j)
    BY <1>12, <2>1
  <2> QED
    BY <1>14, <2>1, <2>2 DEF Def
<1> QED
  BY <1>13, <1>14

\* What the host sends of a slice is sent of a slice of an argument it stores.
LEMMA AnnotateKeepsFlat ==
  ASSUME IInv, GivenStays, FlatInvariant, Annotate
  PROVE  FlatInvariant'
<1>1. /\ IsFunction(args, body) /\ SendsStay /\ func \in Funcs /\ round = 0 /\ args = GivenArgs
  BY DEF IInv, InputsStay, Annotate, PhaseIs
<1>2. /\ phase = "annotate" /\ phase' = "lift" /\ round' = 1 /\ func' = func /\ body' = body
      /\ args' = [k \in DOMAIN args |->
                    [args[k] EXCEPT !.isParameter = args[k].id \in Stored]]
  BY DEF Annotate
<1>3. IsFlat' = IsFlat
  BY <1>2 DEF IsFlat, SlotSend, SendsTo, InitSends
<1> PICK n : n = Len(func.args)
  OBVIOUS
<1>4. n \in Nat /\ DOMAIN func.args = 1..n
  BY <1>1, GivenParts
<1>5. DOMAIN body = DOMAIN func.body
      /\ \A k \in DOMAIN body : /\ body[k].id = n + k /\ body[k].kind = func.body[k].kind
                                /\ body[k].of = func.body[k].of
  BY <1>1, <1>2 DEF GivenStays, SendsStay
<1>6. ASSUME IsFlat, NEW k \in DOMAIN body, NEW j \in DOMAIN body,
             body[k].kind = "init", body[j].kind = "slice", body[j].id = body[k].of[1]
      PROVE  IsParameter(args', body[j].of[1])
  <2> PICK a : a = func.body[j].of[1]
    OBVIOUS
  <2>1. func.body[j].kind = "slice" /\ j \in DOMAIN func.body /\ body[j].of[1] = a
    BY <1>5, <1>6
  <2>2. a \in 1..n
    <3>1. a <= n
      BY <1>6, <2>1 DEF IsFlat
    <3>2. a \in 1..(n + j - 1) /\ j \in Nat
      BY <1>1, <2>1, GivenParts
    <3> QED
      BY ONLY <1>4, <3>1, <3>2
  <2>3. Len(func.body[j].of) = 1
    BY <1>1, <2>1, GivenParts
  <2>4. Root[n + j] = Root[a] /\ Root[a] = a
    BY <1>1, <2>1, <2>2, <2>3, RootIs
  <2>5. k \in InitSends /\ func.body[k].of[1] = n + j
    BY <1>5, <1>6 DEF InitSends
  <2>6. a \in Stored
    <3>1. Root[func.body[k].of[1]] = a
      BY <2>4, <2>5
    <3> QED
      BY <2>5, <3>1 DEF Stored
  <2>7. a \in DOMAIN args /\ args[a].id = a
    BY <1>1, <1>4, <2>2 DEF GivenArgs
  <2>8. a \in DOMAIN args' /\ args'[a].id = a /\ args'[a].isParameter
    <3> PICK x, y, b : x = args[a] /\ y = args'[a] /\ b = (args[a].id \in Stored)
      OBVIOUS
    <3>1. y = [x EXCEPT !.isParameter = b] /\ b /\ a \in DOMAIN args'
      BY <1>2, <2>6, <2>7
    <3>2. x \in Arguments
      BY <1>1, <2>7, FunctionParts
    <3>3. y.id = x.id /\ y.isParameter = b
      BY ONLY <3>1, <3>2 DEF Arguments
    <3> QED
      BY <2>7, <3>1, <3>3
  <2> QED
    BY <2>1, <2>8 DEF IsParameter
<1>7. IsFlat => SendsTakeParameters(args', body)
  BY <1>6 DEF SendsTakeParameters
<1> QED
  BY <1>2, <1>3, <1>7 DEF FlatInvariant

\* The function as it comes.
LEMMA InitIsFlat ==
  ASSUME Init
  PROVE  GivenStays /\ FlatInvariant /\ OrderInvariant
<1>1. /\ func \in Funcs /\ DOMAIN body = DOMAIN func.body
      /\ \A k \in DOMAIN body :
           /\ body[k].id = Len(func.args) + k /\ body[k].kind = func.body[k].kind
           /\ body[k].of = func.body[k].of
  BY WantingIs
<1>2. phase = "annotate" /\ round = 0 /\ next = Len(func.args) + Len(func.body) + 1
      /\ slots = [s \in SlotNames |-> func.body[SlotSend(s)].of[1]]
  BY DEF Init, SlotNames
<1>3. Len(func.args) \in Nat /\ Len(func.body) \in Nat /\ DOMAIN func.body = 1..Len(func.body)
  BY <1>1, GivenParts
<1>4. next > Len(func.args) /\ \A k \in DOMAIN body : body[k].id > Len(func.args)
  <2> PICK n, m : n = Len(func.args) /\ m = Len(func.body)
    OBVIOUS
  <2>3. next = n + m + 1 /\ n \in Nat /\ m \in Nat
    BY <1>2, <1>3
  <2>1. next > n
    BY ONLY <2>3
  <2>2. \A k \in 1..m : n + k > n
    BY ONLY <1>3, n = Len(func.args), m = Len(func.body)
  <2> QED
    BY <1>1, <1>3, <2>1, <2>2
<1>5. GivenStays
  BY <1>1, <1>2, <1>4 DEF GivenStays
<1>6. IsFlat => AreFlat(body)
  <2>1. SUFFICES ASSUME IsFlat, NEW k \in DOMAIN body, body[k].kind = "slice", NEW j \in DOMAIN body,
                        body[j].id = body[k].of[1]
                 PROVE  FALSE
    BY DEF AreFlat, IsCut
  <2>2. body[k].of[1] <= Len(func.args)
    BY <1>1, <2>1 DEF IsFlat
  <2>3. body[j].id > Len(func.args) /\ body[j].id \in Nat
    BY <1>1, <1>3, <1>4
  <2> QED
    BY <1>3, <2>1, <2>2, <2>3
<1> QED
  BY <1>2, <1>5, <1>6 DEF FlatInvariant, OrderInvariant

\* What keeps the numbers of the function as it comes: operations keep their
\* numbers or get the next.
LEMMA KeepingGiven ==
  ASSUME GivenStays, func' = func, slots' = slots, phase' # "annotate",
         Len(func.args) \in Nat, next \in Nat, next' \in Nat, next' >= next,
         \A id \in IdsOf(body') : id \in IdsOf(body) \/ (id \in Nat /\ id >= next)
  PROVE  GivenStays'
<1> PICK n, nx : n = Len(func.args) /\ nx = next
  OBVIOUS
<1>1. n \in Nat /\ nx \in Nat /\ next' \in Nat /\ next' >= nx /\ nx > n
  BY DEF GivenStays
<1>2. next' > n
  BY ONLY <1>1
<1>3. \A k \in DOMAIN body : body[k].id > n
  BY DEF GivenStays
<1>4. ASSUME NEW k \in DOMAIN body'
      PROVE  body'[k].id > n
  <2> PICK x : x = body'[k].id
    OBVIOUS
  <2>1. (\E j \in DOMAIN body : body[j].id = x) \/ (x \in Nat /\ x >= nx)
    BY DEF IdsOf
  <2>2. (x \in Nat /\ x >= nx) => x > n
    BY ONLY <1>1
  <2> QED
    BY <1>3, <2>1, <2>2
<1>5. SlotNames' = SlotNames /\ \A s : SlotSend(s)' = SlotSend(s)
  BY FuncStays
<1>6. \A s \in SlotNames' : slots'[s] = func'.body[SlotSend(s)'].of[1]
  BY <1>5 DEF GivenStays
<1> QED
  BY <1>2, <1>4, <1>6 DEF GivenStays

\* The invariant of the parameters' order.
ParameterInvariant == IInv /\ GivenStays /\ FlatInvariant /\ OrderInvariant

\* Every step keeps it.
LEMMA StepsKeepParameters ==
  ASSUME ParameterInvariant, IInv', [Next]_vars
  PROVE  GivenStays' /\ FlatInvariant' /\ OrderInvariant'
<1>1. IInv /\ GivenStays /\ FlatInvariant /\ OrderInvariant
  BY DEF ParameterInvariant
<1>2. next \in Nat /\ next' \in Nat /\ Len(func.args) \in Nat
  <2>1. next \in Nat /\ func \in Funcs
    BY <1>1 DEF IInv, PhaseIs
  <2>2. next' \in Nat
    BY DEF IInv, PhaseIs
  <2> QED
    BY <2>1, <2>2, GivenParts
<1>3. CASE Annotate
  <2>1. FlatInvariant'
    BY <1>1, <1>3, AnnotateKeepsFlat
  <2>2. func' = func /\ slots' = slots /\ next' = next /\ body' = body /\ phase' = "lift"
    BY <1>3 DEF Annotate
  <2>3. GivenStays'
    BY <1>1, <1>2, <2>2, KeepingGiven
  <2> QED
    BY <2>1, <2>2, <2>3 DEF OrderInvariant
<1>4. CASE Lift
  <2>1. FlatInvariant'
    BY <1>1, <1>4, LiftKeepsFlat
  <2>2. func' = func /\ slots' = slots /\ next' = next + Len(Lifts) /\ phase' = "erase"
    BY <1>4 DEF Lift
  <2>3. IdsOf(body') = IdsOf(body)
    <3> PICK ops, by, qs : ops = body /\ by = Lifted /\ qs = body'
      OBVIOUS
    <3>1. AreRedirected(ops, by, qs)
      BY <1>1, <1>4, LiftedAreParameters
    <3>2. DOMAIN qs = DOMAIN ops /\ \A k \in DOMAIN ops : qs[k].id = ops[k].id
      BY ONLY <3>1, RedirectionKeeps
    <3> QED
      BY <3>2 DEF IdsOf
  <2>4. Len(Lifts) \in Nat
    <3> PICK new : new = [n \in DOMAIN Lifts |->
                      [id |-> next - 1 + n, data |-> Data[body[Lifts[n]].id], isParameter |-> TRUE]]
      OBVIOUS
    <3>1. IsFunction(args, body) /\ NumbersAreBelow
      BY <1>1 DEF IInv
    <3>2. Extends(args, body, args, new, next) /\ Len(new) = Len(Lifts)
      BY <1>2, <3>1, LiftedIs
    <3>3. Len(new) \in Nat
      BY <3>2, ExtendedArguments
    <3> QED
      BY <3>2, <3>3
  <2>5. next' >= next
    BY ONLY <1>2, <2>2, <2>4
  <2>6. GivenStays'
    BY <1>1, <1>2, <2>2, <2>3, <2>5, KeepingGiven
  <2> QED
    BY <2>1, <2>2, <2>6 DEF OrderInvariant
<1>5. CASE Erase
  <2>1. FlatInvariant'
    BY <1>1, <1>5, EraseKeepsFlat
  <2>2. func' = func /\ slots' = slots /\ next' = next /\ body' = body /\ phase' = "reorder"
    BY <1>5 DEF Erase
  <2>3. GivenStays'
    BY <1>1, <1>2, <2>2, KeepingGiven
  <2>4. ParametersAreTaken(args', body')
    BY <1>1, <1>5, EraseLeavesTaken
  <2> QED
    BY <2>1, <2>2, <2>3, <2>4 DEF OrderInvariant
<1>6. CASE Reorder
  <2>1. FlatInvariant' /\ IdsOf(body') = IdsOf(body)
    BY <1>1, <1>6, ReorderKeepsFlat
  <2>2. OrderInvariant'
    BY <1>1, <1>6, ReorderSorts
  <2>3. func' = func /\ slots' = slots
    BY <1>6 DEF Reorder
  <2>4. phase' # "annotate" /\ (next' = next \/ next' = next + Len(Wanted))
    BY <1>1, <1>6, ReorderIs
  <2>5. Len(Wanted) \in Nat
    <3>1. IsFunction(args, body)
      BY <1>1 DEF IInv
    <3>2. PICK c \in Nat : Wanted \in [1..c -> ParameterPlaces]
      BY <3>1, WantedIs
    <3>3. Wanted = [n \in 1..c |-> Wanted[n]] /\ \A n \in 1..c : Wanted[n] \in ParameterPlaces
      BY <3>2
    <3>4. Len(Wanted) = c
      BY ONLY <3>2, <3>3, ListIsSeq
    <3> QED
      BY <3>2, <3>4
  <2>6. next' >= next
    BY ONLY <1>2, <2>4, <2>5
  <2>7. GivenStays'
    BY <1>1, <1>2, <2>1, <2>3, <2>4, <2>6, KeepingGiven
  <2> QED
    BY <2>1, <2>2, <2>7
<1>7. CASE LowerLoad
  <2>1. FlatInvariant' /\ \A id \in IdsOf(body') : id \in IdsOf(body) \/ id = next \/ id = next + 1
    BY <1>1, <1>7, LowerLoadKeepsFlat
  <2>2. func' = func /\ slots' = slots /\ phase = "lower"
    BY <1>7 DEF LowerLoad
  <2>3. phase' \in {"lower", "undefined"} /\ (next' = next \/ next' = next + 2)
    BY <1>7, <2>2, Zenon DEF LowerLoad
  <2>4. next' >= next /\ \A id : (id = next \/ id = next + 1) => id \in Nat /\ id >= next
    BY ONLY <1>2, <2>3
  <2>5. GivenStays'
    BY <1>1, <1>2, <2>1, <2>2, <2>3, <2>4, KeepingGiven
  <2> QED
    BY <2>1, <2>3, <2>5 DEF OrderInvariant
<1>8. CASE EraseHostSends
  <2>1. FlatInvariant' /\ IdsOf(body') \subseteq IdsOf(body)
    BY <1>1, <1>8, EraseHostSendsKeepsFlat
  <2>2. func' = func /\ slots' = slots /\ next' = next /\ phase' = "lift"
    BY <1>8 DEF EraseHostSends
  <2>3. GivenStays'
    BY <1>1, <1>2, <2>1, <2>2, KeepingGiven
  <2> QED
    BY <2>1, <2>2, <2>3 DEF OrderInvariant
<1>9. CASE Cleanup
  <2>1. FlatInvariant' /\ IdsOf(body') \subseteq IdsOf(body)
    BY <1>1, <1>9, CleanupKeepsFlat
  <2>2. func' = func /\ slots' = slots /\ next' = next /\ phase' = "lift"
    BY <1>9 DEF Cleanup
  <2>3. GivenStays'
    BY <1>1, <1>2, <2>1, <2>2, KeepingGiven
  <2> QED
    BY <2>1, <2>2, <2>3 DEF OrderInvariant
<1>10. CASE UNCHANGED vars
  <2>1. /\ func' = func /\ phase' = phase /\ round' = round /\ args' = args /\ body' = body
        /\ slots' = slots /\ next' = next
    BY <1>10 DEF vars
  <2>2. SlotNames' = SlotNames /\ \A s : SlotSend(s)' = SlotSend(s)
    BY <2>1, FuncStays
  <2>3. IsFlat' = IsFlat
    BY <2>1 DEF IsFlat, SlotSend, SendsTo, InitSends
  <2>4. GivenStays'
    BY <1>1, <2>1, <2>2 DEF GivenStays
  <2> QED
    BY <1>1, <2>1, <2>3, <2>4 DEF FlatInvariant, OrderInvariant
<1> QED
  BY <1>3, <1>4, <1>5, <1>6, <1>7, <1>8, <1>9, <1>10 DEF Next

\* When every operation is taken, all of them reach a use.
LEMMA AllAreLive ==
  ASSUME NEW xs, NEW ops, IsFunction(xs, ops), AllAreTaken(ops)
  PROVE  LivePlaces(ops) = DOMAIN ops
<1> PICK S, T, n : S = DOMAIN ops /\ T = LivePlaces(ops) /\ n = Len(ops)
  OBVIOUS
<1>1. n \in Nat /\ S = 1..n
  BY FunctionParts
<1>2. /\ T \subseteq S
      /\ \A k \in S : k \in T <=>
           \/ ops[k].kind \in Sinks
           \/ \E j \in T : \E i \in DOMAIN ops[j].of : ops[j].of[i] = ops[k].id
  BY LiveIs
<1> PICK rank : rank = [k \in S |-> n - k]
  OBVIOUS
<1>3. rank \in [S -> Nat]
  BY <1>1
<1>4. ASSUME NEW k \in S, \A j \in S : rank[j] < rank[k] => j \in T
      PROVE  k \in T
  <2>1. SUFFICES ASSUME ops[k].kind \notin Sinks
                 PROVE  k \in T
    BY <1>2
  <2>2. PICK j \in S : \E i \in DOMAIN ops[j].of : ops[j].of[i] = ops[k].id
    BY <2>1 DEF AllAreTaken, IsTaken
  <2>3. IsBefore(xs, ops, ops[k].id, j)
    BY <2>2 DEF IsFunction
  <2>4. ops[k].id \notin IdsOf(xs)
    BY OperationParts
  <2>5. PICK h \in S : h < j /\ ops[h].id = ops[k].id
    BY <2>3, <2>4 DEF IsBefore
  <2>6. h = k
    BY <2>5 DEF IsFunction, IsNumbered
  <2>7. rank[j] < rank[k]
    <3>1. j \in 1..n /\ k \in 1..n /\ k < j
      BY <1>1, <2>5, <2>6
    <3>2. n - j < n - k
      BY ONLY <1>1, <3>1
    <3> QED
      BY <3>2
  <2> QED
    BY <1>2, <1>4, <2>2, <2>7
<1>5. S \subseteq T
  BY ONLY <1>3, <1>4, RankInduction
<1> QED
  BY <1>2, <1>5

\* What the property says follows once the rounds are done.
LEMMA InvariantGivesOrder ==
  ASSUME ParameterInvariant
  PROVE  ParametersAreInOrder
<1>1. SUFFICES ASSUME phase = "done"
               PROVE  /\ \A j, k \in ParameterPlaces :
                           j < k => \/ FirstUse(args[j]) < FirstUse(args[k])
                                    \/ UsersOf(args[j].id) \cap UsersOf(args[k].id) # {}
                      /\ IsFlat => \A k \in ParameterPlaces :
                                     UsersOf(args[k].id) \cap LivePlaces(body) # {}
  BY DEF ParametersAreInOrder
<1>2. /\ IsFunction(args, body) /\ round = 3
      /\ ParametersAreTaken(args, body) /\ AreSorted(args, body)
      /\ IsFlat => AllAreTaken(body)
  BY <1>1 DEF ParameterInvariant, IInv, PhaseIs, OrderInvariant, FlatInvariant
<1>3. DOMAIN body \subseteq Nat
  <2>1. Len(body) \in Nat /\ DOMAIN body = 1..Len(body)
    BY <1>2, FunctionParts
  <2> QED
    BY <2>1
<1>4. ASSUME NEW k \in ParameterPlaces
      PROVE  /\ k \in DOMAIN args /\ args[k].isParameter
             /\ UsersOf(args[k].id) # {} /\ UsersOf(args[k].id) \subseteq DOMAIN body
             /\ FirstUse(args[k]) \in UsersOf(args[k].id)
  <2>1. k \in DOMAIN args /\ args[k].isParameter
    BY DEF ParameterPlaces
  <2> PICK U : U = UsersOf(args[k].id)
    OBVIOUS
  <2>2. U # {} /\ U \subseteq DOMAIN body
    BY <1>2, <2>1 DEF ParametersAreTaken, IsTaken, UsersOf
  <2>3. \E x \in U : \A y \in U : x <= y
    BY <1>3, <2>2, LeastNumber
  <2>4. FirstUse(args[k]) = CHOOSE x \in U : \A y \in U : x <= y
    BY <2>2 DEF FirstUse
  <2>5. FirstUse(args[k]) \in U
    BY <2>3, <2>4
  <2> QED
    BY <2>1, <2>2, <2>5
<1>5. ASSUME NEW j \in ParameterPlaces, NEW k \in ParameterPlaces, j < k
      PROVE  \/ FirstUse(args[j]) < FirstUse(args[k])
             \/ UsersOf(args[j].id) \cap UsersOf(args[k].id) # {}
  <2>1. FirstUse(args[j]) < FirstUse(args[k]) \/ FirstUse(args[j]) = FirstUse(args[k])
    BY <1>2, <1>4, <1>5, FirstUseIsFirst DEF AreSorted
  <2> QED
    BY <1>4, <2>1
<1>6. ASSUME IsFlat, NEW k \in ParameterPlaces
      PROVE  UsersOf(args[k].id) \cap LivePlaces(body) # {}
  <2>1. LivePlaces(body) = DOMAIN body
    BY <1>2, <1>6, AllAreLive
  <2> QED
    BY <1>4, <2>1
<1> QED
  BY <1>5, <1>6

\* When the rounds are done the parameters of @forward stand in the order of
\* their first use (reorderParameterArgsByFirstUse) and, if no slice is taken of
\* a slice, each is needed by a use (eraseUnusedParameterArgs and the clean-up).
THEOREM ParametersStayInOrder == Spec => []ParametersAreInOrder
<1>1. Init => ParameterInvariant
  BY InitKeeps, InitIsFlat DEF ParameterInvariant
<1>2. ParameterInvariant /\ IInv' /\ [Next]_vars => ParameterInvariant'
  BY StepsKeepParameters DEF ParameterInvariant
<1>3. ParameterInvariant => ParametersAreInOrder
  BY InvariantGivesOrder
<1> QED
  BY <1>1, <1>2, <1>3, ForwardIsKept, PTL DEF Spec

=============================================================================
