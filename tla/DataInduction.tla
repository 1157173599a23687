---------------------------- MODULE DataInduction ----------------------------
(***************************************************************************)
(* Induction over data without operators as parameters: a set of natural   *)
(* numbers that has 0, and with a number the next, has all of them.  It    *)
(* rests on the library's theorem that every set with a well-founded order *)
(* has a least element.  A definition by recursion is a choice among the   *)
(* solutions of its equation: that there is one follows for the set of the *)
(* numbers up to which there is.                                           *)
(***************************************************************************)
EXTENDS Integers, WellFoundedInduction, TLAPS

\* The order of the natural numbers as a relation.
LEMMA LessIsWellFounded == IsWellFoundedOn({ss \in Nat \X Nat : ss[1] < ss[2]}, Nat)
<1>1. OpToRel(<, Nat) = {ss \in Nat \X Nat : ss[1] < ss[2]}
  BY DEF OpToRel
<1> QED
  BY <1>1, NatLessThanWellFounded, Zenon

\* Every set of natural numbers that is not empty has a least element.
LEMMA LeastNumber ==
  ASSUME NEW T \in SUBSET Nat, T # {}
  PROVE  \E x \in T : \A y \in T : x <= y
<1> DEFINE R == {ss \in Nat \X Nat : ss[1] < ss[2]}
<1>1. IsWellFoundedOn(R, Nat)
  BY LessIsWellFounded, Zenon
<1> HIDE DEF R
<1>2. PICK x \in T : \A y \in T : <<y, x>> \notin R
  BY <1>1, WFMin, Zenon
<1>3. \A y \in T : <<y, x>> \in R <=> y < x
  BY DEF R
<1>4. \A y \in T : ~(y < x)
  BY <1>2, <1>3, Zenon
<1>5. \A y \in T : x <= y
  BY <1>4
<1> QED
  BY <1>5

\* Induction, for a set: with 0, and n + 1 whenever n, all numbers.
LEMMA SetInduction ==
  ASSUME NEW T, 0 \in T, \A n \in Nat : n \in T => n + 1 \in T
  PROVE  Nat \subseteq T
<1>1. SUFFICES ASSUME Nat \ T # {}
               PROVE  FALSE
  OBVIOUS
<1>2. PICK x \in Nat \ T : \A y \in Nat \ T : x <= y
  BY <1>1, LeastNumber
<1>3. x - 1 \in Nat /\ x - 1 \in T
  BY <1>2
<1> QED
  BY <1>2, <1>3

\* Course of values: when all smaller numbers being in T puts n in T.
LEMMA CourseInduction ==
  ASSUME NEW T, \A n \in Nat : (\A m \in Nat : m < n => m \in T) => n \in T
  PROVE  Nat \subseteq T
<1>1. SUFFICES ASSUME Nat \ T # {}
               PROVE  FALSE
  OBVIOUS
<1>2. PICK x \in Nat \ T : \A y \in Nat \ T : x <= y
  BY <1>1, LeastNumber
<1>3. \A m \in Nat : m < x => m \in T
  BY <1>2
<1> QED
  BY <1>2, <1>3

-----------------------------------------------------------------------------
\* The places of S have ranks, of which there are only so many.
IsRanking(S, rank) ==
  /\ rank \in [S -> Nat]
  /\ \E top \in Nat : \A x \in S : rank[x] < top

\* D makes a function into V out of one, and what it makes at a place depends on
\* the values at places of smaller rank alone.
IsRecursion(S, V, rank, D) ==
  /\ D \in [[S -> V] -> [S -> V]]
  /\ \A g, h \in [S -> V] : \A x \in S :
       (\A y \in S : rank[y] < rank[x] => g[y] = h[y]) => D[g][x] = D[h][x]

\* A definition by recursion has a solution.
LEMMA RecursionSolves ==
  ASSUME NEW S, NEW V, V # {}, NEW rank, NEW D,
         IsRanking(S, rank), IsRecursion(S, V, rank, D)
  PROVE  \E g \in [S -> V] : g = D[g]
<1> /\ rank \in [S -> Nat] /\ D \in [[S -> V] -> [S -> V]]
    /\ \A g, h \in [S -> V] : \A x \in S :
         (\A y \in S : rank[y] < rank[x] => g[y] = h[y]) => D[g][x] = D[h][x]
  BY DEF IsRanking, IsRecursion
<1> PICK top \in Nat : \A x \in S : rank[x] < top
  BY DEF IsRanking
<1> PICK v \in V : TRUE
  OBVIOUS
<1> DEFINE T == {n \in Nat : \E g \in [S -> V] : \A x \in S : rank[x] < n => g[x] = D[g][x]}
<1>1. 0 \in T
  <2>1. [x \in S |-> v] \in [S -> V] /\ \A x \in S : ~(rank[x] < 0)
    OBVIOUS
  <2> QED
    BY <2>1
<1>2. ASSUME NEW n \in Nat, n \in T
      PROVE  n + 1 \in T
  <2>1. PICK g \in [S -> V] : \A x \in S : rank[x] < n => g[x] = D[g][x]
    BY <1>2
  <2>2. D[g] \in [S -> V]
    BY <2>1
  <2>3. ASSUME NEW x \in S, rank[x] < n + 1
        PROVE  D[g][x] = D[D[g]][x]
    <3>1. \A y \in S : rank[y] < rank[x] => rank[y] < n
      BY <2>3
    <3>2. \A y \in S : rank[y] < rank[x] => g[y] = D[g][y]
      BY <2>1, <3>1
    <3> QED
      BY <2>1, <2>2, <3>2
  <2> QED
    BY <2>2, <2>3
<1>3. top \in T
  <2> HIDE DEF T
  <2> QED
    BY <1>1, <1>2, SetInduction
<1>4. PICK g \in [S -> V] : \A x \in S : g[x] = D[g][x]
  BY <1>3
<1>5. g = D[g]
  BY <1>4
<1> QED
  BY <1>5

\* Induction over the rank of places.
LEMMA RankInduction ==
  ASSUME NEW S, NEW rank \in [S -> Nat], NEW T,
         \A x \in S : (\A y \in S : rank[y] < rank[x] => y \in T) => x \in T
  PROVE  S \subseteq T
<1> DEFINE U == {n \in Nat : \A x \in S : rank[x] = n => x \in T}
<1>1. ASSUME NEW n \in Nat, \A m \in Nat : m < n => m \in U
      PROVE  n \in U
  <2>1. SUFFICES ASSUME NEW x \in S, rank[x] = n
                 PROVE  x \in T
    OBVIOUS
  <2>2. \A y \in S : rank[y] < rank[x] => y \in T
    BY <1>1, <2>1
  <2> QED
    BY <2>2
<1>2. Nat \subseteq U
  <2> HIDE DEF U
  <2> QED
    BY <1>1, CourseInduction
<1> QED
  BY <1>2

\* Two solutions are the same.
LEMMA RecursionIsUnique ==
  ASSUME NEW S, NEW rank \in [S -> Nat], NEW g, NEW h,
         \A x \in S : (\A y \in S : rank[y] < rank[x] => g[y] = h[y]) => g[x] = h[x]
  PROVE  \A x \in S : g[x] = h[x]
<1> DEFINE T == {x \in S : g[x] = h[x]}
<1>1. S \subseteq T
  <2>1. \A x \in S : (\A y \in S : rank[y] < rank[x] => y \in T) => x \in T
    OBVIOUS
  <2> HIDE DEF T
  <2> QED
    BY <2>1, RankInduction
<1> QED
  BY <1>1
=============================================================================
