--------------------------------- MODULE Ranks ---------------------------------
(***************************************************************************)
(* Facts about finite sets with a strict order, for the proofs of the other*)
(* modules: the rank of an element (how many come before it) tells the     *)
(* elements apart and takes every value below the size of the set, so the  *)
(* i-th element exists, and "the first c" are c elements when there are    *)
(* that many.  The order is a set of pairs, for the lemmas to be cited with*)
(* any of the orders that the models use.                                  *)
(***************************************************************************)
EXTENDS FiniteSetTheorems, TLAPS

StrictlyOrders(L, S) ==
    /\ \A a \in S : <<a, a>> \notin L
    /\ \A a, b, c \in S : (<<a, b>> \in L /\ <<b, c>> \in L) => <<a, c>> \in L
    /\ \A a, b \in S : (<<a, b>> \in L \/ <<b, a>> \in L) \/ a = b

Preceding(L, S, a) == {o \in S : <<o, a>> \in L}
Rank(L, S, a)   == Cardinality(Preceding(L, S, a))

\* The rank of an element is below the size of the set.
LEMMA RankBound ==
    ASSUME NEW S, IsFiniteSet(S), NEW L, StrictlyOrders(L, S), NEW a \in S
    PROVE  IsFiniteSet(Preceding(L, S, a)) /\ Rank(L, S, a) \in 0 .. Cardinality(S) - 1
  <1>1. Preceding(L, S, a) \in SUBSET (S \ {a}) BY DEF Preceding, StrictlyOrders
  <1>2. IsFiniteSet(S \ {a}) /\ Cardinality(S \ {a}) = Cardinality(S) - 1
    BY FS_RemoveElement
  <1>3. IsFiniteSet(Preceding(L, S, a)) /\ Cardinality(Preceding(L, S, a)) <= Cardinality(S) - 1
    BY <1>1, <1>2, FS_Subset
  <1>4. Cardinality(S) \in Nat /\ Cardinality(Preceding(L, S, a)) \in Nat
    BY <1>3, FS_CardinalityType
  <1> QED BY <1>3, <1>4 DEF Rank

\* The rank is strictly monotone.
LEMMA RankGrows ==
    ASSUME NEW S, IsFiniteSet(S), NEW L, StrictlyOrders(L, S),
           NEW a \in S, NEW b \in S, <<a, b>> \in L
    PROVE  Rank(L, S, a) < Rank(L, S, b)
  <1>1. IsFiniteSet(Preceding(L, S, a)) /\ IsFiniteSet(Preceding(L, S, b)) BY RankBound
  <1>2. a \notin Preceding(L, S, a) BY DEF Preceding, StrictlyOrders
  <1>3. IsFiniteSet(Preceding(L, S, a) \cup {a})
        /\ Cardinality(Preceding(L, S, a) \cup {a}) = Cardinality(Preceding(L, S, a)) + 1
    BY <1>1, <1>2, FS_AddElement
  <1>4. Preceding(L, S, a) \cup {a} \in SUBSET Preceding(L, S, b)
    BY DEF Preceding, StrictlyOrders
  <1>5. Cardinality(Preceding(L, S, a) \cup {a}) <= Cardinality(Preceding(L, S, b))
    BY <1>1, <1>4, FS_Subset
  <1>6. Cardinality(Preceding(L, S, a)) \in Nat /\ Cardinality(Preceding(L, S, b)) \in Nat
    BY <1>1, FS_CardinalityType
  <1> QED BY <1>3, <1>5, <1>6 DEF Rank

\* So it tells the elements apart, and orders them.
LEMMA RankOrders ==
    ASSUME NEW S, IsFiniteSet(S), NEW L, StrictlyOrders(L, S), NEW a \in S, NEW b \in S
    PROVE  /\ Rank(L, S, a) = Rank(L, S, b) => a = b
           /\ Rank(L, S, a) < Rank(L, S, b) => <<a, b>> \in L
  <1>1. Rank(L, S, a) \in Int /\ Rank(L, S, b) \in Int
    <2>1. Cardinality(S) \in Nat BY FS_CardinalityType
    <2> QED BY <2>1, RankBound
  <1>2. <<a, b>> \in L => Rank(L, S, a) < Rank(L, S, b) BY RankGrows
  <1>3. <<b, a>> \in L => Rank(L, S, b) < Rank(L, S, a) BY RankGrows
  <1>4. (<<a, b>> \in L \/ <<b, a>> \in L) \/ a = b BY DEF StrictlyOrders
  <1> QED BY <1>1, <1>2, <1>3, <1>4

\* Every value below the size of the set is the rank of an element.
LEMMA RankOnto ==
    ASSUME NEW S, IsFiniteSet(S), NEW L, StrictlyOrders(L, S)
    PROVE  \A i \in 0 .. Cardinality(S) - 1 : \E a \in S : Rank(L, S, a) = i
  <1> DEFINE n == Cardinality(S)
             f == [a \in S |-> Rank(L, S, a)]
  <1>1. n \in Nat BY FS_CardinalityType
  <1>2. IsFiniteSet(0 .. n - 1) /\ Cardinality(0 .. n - 1) = n
    <2>1. 0 \in Int /\ n - 1 \in Int BY <1>1
    <2>2. IsFiniteSet(0 .. n - 1)
          /\ Cardinality(0 .. n - 1) = IF 0 > n - 1 THEN 0 ELSE (n - 1) - 0 + 1
      BY <2>1, FS_Interval
    <2> HIDE DEF n
    <2> QED BY <1>1, <2>2
  <1>3. \A a \in S : Rank(L, S, a) \in 0 .. n - 1 BY RankBound
  <1>4. \A a, b \in S : Rank(L, S, a) = Rank(L, S, b) => a = b BY RankOrders
  <1>5. f \in Injection(S, 0 .. n - 1)
    <2> HIDE DEF n
    <2> QED BY <1>3, <1>4 DEF Injection, IsInjective
  <1>6. f \in Surjection(S, 0 .. n - 1) BY <1>2, <1>5, FS_Injection
  <1> QED BY <1>6 DEF Surjection

Placed(L, S, i) == CHOOSE a \in S : Rank(L, S, a) = i - 1

\* So a finite set can be counted off in its order.
LEMMA CountedOff ==
    ASSUME NEW S, IsFiniteSet(S), NEW L, StrictlyOrders(L, S)
    PROVE  /\ Cardinality(S) \in Nat
           /\ \A i \in 1 .. Cardinality(S) : Placed(L, S, i) \in S
           /\ \A i, j \in 1 .. Cardinality(S) :
                 i < j => <<Placed(L, S, i), Placed(L, S, j)>> \in L
           /\ \A a \in S : \E i \in 1 .. Cardinality(S) : a = Placed(L, S, i)
  <1> DEFINE n == Cardinality(S)
  <1>1. n \in Nat BY FS_CardinalityType
  <1>2. \A r \in 0 .. n - 1 : \E s \in S : Rank(L, S, s) = r BY RankOnto
  <1>3. ASSUME NEW i \in 1 .. n
        PROVE  Placed(L, S, i) \in S /\ Rank(L, S, Placed(L, S, i)) = i - 1
    <2> HIDE DEF n
    <2>1. i - 1 \in 0 .. n - 1 BY <1>1
    <2>2. \E s \in S : Rank(L, S, s) = i - 1 BY <1>2, <2>1
    <2> QED BY <2>2 DEF Placed
  <1>4. ASSUME NEW i \in 1 .. n, NEW j \in 1 .. n, i < j
        PROVE  <<Placed(L, S, i), Placed(L, S, j)>> \in L
    <2> HIDE DEF n
    <2>1. /\ Placed(L, S, i) \in S /\ Rank(L, S, Placed(L, S, i)) = i - 1
          /\ Placed(L, S, j) \in S /\ Rank(L, S, Placed(L, S, j)) = j - 1
      BY <1>3
    <2>2. i - 1 < j - 1 BY <1>1, <1>4
    <2> QED BY <2>1, <2>2, RankOrders
  <1>5. ASSUME NEW a \in S PROVE \E i \in 1 .. n : a = Placed(L, S, i)
    <2>1. Rank(L, S, a) \in 0 .. n - 1 BY RankBound
    <2> DEFINE i == Rank(L, S, a) + 1
    <2>2. i \in 1 .. n /\ i - 1 = Rank(L, S, a) BY <1>1, <2>1
    <2> HIDE DEF i, n
    <2>3. Placed(L, S, i) \in S /\ Rank(L, S, Placed(L, S, i)) = Rank(L, S, a) BY <1>3, <2>2
    <2>4. Placed(L, S, i) = a BY <2>3, RankOrders
    <2> QED BY <2>2, <2>4
  <1> QED BY <1>1, <1>3, <1>4, <1>5

\* The elements of a rank below c: all of them, or c of them.
LEMMA FirstOnes ==
    ASSUME NEW S, IsFiniteSet(S), NEW L, StrictlyOrders(L, S), NEW c \in Nat
    PROVE  LET K == {a \in S : Rank(L, S, a) < c}
           IN  /\ IsFiniteSet(K)
               /\ Cardinality(K) = IF Cardinality(S) <= c THEN Cardinality(S) ELSE c
  <1> DEFINE n == Cardinality(S)
             K == {a \in S : Rank(L, S, a) < c}
             m == IF n <= c THEN n ELSE c
             f == [a \in K |-> Rank(L, S, a)]
  <1>1. n \in Nat BY FS_CardinalityType
  <1>2. IsFiniteSet(K)
    <2>1. K \in SUBSET S OBVIOUS
    <2> HIDE DEF K
    <2> QED BY <2>1, FS_Subset
  <1>3. IsFiniteSet(0 .. m - 1) /\ Cardinality(0 .. m - 1) = m
    <2>1. m \in Nat BY <1>1
    <2>2. 0 \in Int /\ m - 1 \in Int BY <2>1
    <2> HIDE DEF m
    <2>3. IsFiniteSet(0 .. m - 1)
          /\ Cardinality(0 .. m - 1) = IF 0 > m - 1 THEN 0 ELSE (m - 1) - 0 + 1
      BY <2>2, FS_Interval
    <2> QED BY <2>1, <2>3
  <1>4. \A a \in S : Rank(L, S, a) \in 0 .. n - 1 BY RankBound
  <1>5. \A a, b \in S : Rank(L, S, a) = Rank(L, S, b) => a = b BY RankOrders
  <1>6. \A i \in 0 .. n - 1 : \E a \in S : Rank(L, S, a) = i BY RankOnto
  <1>7. f \in Injection(K, 0 .. m - 1)
    <2> HIDE DEF n
    <2> QED BY <1>1, <1>4, <1>5 DEF Injection, IsInjective
  <1>8. \A i \in 0 .. m - 1 : \E a \in K : f[a] = i
    <2> SUFFICES ASSUME NEW i \in 0 .. m - 1 PROVE \E a \in K : f[a] = i OBVIOUS
    <2> HIDE DEF n
    <2>1. i \in 0 .. n - 1 /\ i < c BY <1>1
    <2>2. PICK a \in S : Rank(L, S, a) = i BY <2>1, <1>6
    <2> QED BY <2>1, <2>2
  <1>9. f \in Surjection(K, 0 .. m - 1)
    BY <1>7, <1>8 DEF Surjection, Injection
  <1> HIDE DEF K, m, f
  <1>10. Cardinality(K) = Cardinality(0 .. m - 1) BY <1>3, <1>7, <1>9, FS_Injection
  <1> QED BY <1>2, <1>3, <1>10 DEF K, m

LessPairs(S) == {e \in S \X S : e[1] < e[2]}

\* The numbers of a set, in their order, of which the i-th exists.
LEMMA NumbersCountedOff ==
    ASSUME NEW S, S \subseteq Nat, IsFiniteSet(S)
    PROVE  StrictlyOrders(LessPairs(S), S)
           /\ \A i : Placed(LessPairs(S), S, i)
                       = CHOOSE s \in S : Cardinality({o \in S : o < s}) = i - 1
  <1> DEFINE L == LessPairs(S)
  <1>1. StrictlyOrders(L, S) BY DEF StrictlyOrders, LessPairs
  <1>2. \A s \in S : Preceding(L, S, s) = {o \in S : o < s} BY DEF Preceding, LessPairs
  <1>3. \A s \in S : Rank(L, S, s) = Cardinality({o \in S : o < s}) BY <1>2 DEF Rank
  <1> HIDE DEF L
  <1>4. \A i : Placed(L, S, i) = CHOOSE s \in S : Cardinality({o \in S : o < s}) = i - 1
    BY <1>3 DEF Placed
  <1> QED BY <1>1, <1>4 DEF L

-----------------------------------------------------------------------------
\* A set of naturals that is not empty has a least element.
LEMMA LeastExists ==
    ASSUME NEW T, T \subseteq Nat, T # {}
    PROVE  \E x \in T : \A y \in T : x <= y
  <1>1. PICK x \in T : \A y \in T : <<y, x>> \notin OpToRel(<, Nat)
    BY NatLessThanWellFounded, WFMin
  <1>2. \A y \in T : ~ (y < x) BY <1>1 DEF OpToRel
  <1> QED BY <1>2

\* And a greatest one when it has a bound.
LEMMA GreatestExists ==
    ASSUME NEW T, T \subseteq Nat, T # {}, NEW t \in Nat, \A y \in T : y <= t
    PROVE  \E x \in T : \A y \in T : y <= x
  <1> DEFINE U == {t - y : y \in T}
  <1>1. U \subseteq Nat
    <2> SUFFICES ASSUME NEW y \in T PROVE t - y \in Nat OBVIOUS
    <2> y \in Nat /\ y <= t OBVIOUS
    <2> QED OBVIOUS
  <1>5. U # {}
    <2> PICK y \in T : TRUE OBVIOUS
    <2> t - y \in U OBVIOUS
    <2> HIDE DEF U
    <2> QED OBVIOUS
  <1> HIDE DEF U
  <1>2. PICK u \in U : \A v \in U : u <= v BY <1>1, <1>5, LeastExists
  <1>3. PICK x \in T : u = t - x BY DEF U
  <1>4. \A y \in T : t - x <= t - y BY <1>2, <1>3 DEF U
  <1> QED BY <1>4

-----------------------------------------------------------------------------
\* The values of a function on a finite set are finitely many.
LEMMA ValuesAreFinite ==
    ASSUME NEW f, IsFiniteSet(DOMAIN f)
    PROVE  /\ IsFiniteSet({f[x] : x \in DOMAIN f})
           /\ Cardinality({f[x] : x \in DOMAIN f}) <= Cardinality(DOMAIN f)
  <1> DEFINE T == {f[x] : x \in DOMAIN f}
             g == [x \in DOMAIN f |-> f[x]]
  <1>1. g \in [DOMAIN f -> T] OBVIOUS
  <1>2. \A t \in T : \E x \in DOMAIN f : g[x] = t OBVIOUS
  <1> HIDE DEF T, g
  <1>3. g \in Surjection(DOMAIN f, T) BY <1>1, <1>2 DEF Surjection
  <1>4. IsFiniteSet(T) /\ Cardinality(T) <= Cardinality(DOMAIN f) BY <1>3, FS_Surjection
  <1> QED BY <1>4 DEF T

\* And as many when they differ.
LEMMA DifferentValues ==
    ASSUME NEW f, IsFiniteSet(DOMAIN f), \A x, y \in DOMAIN f : f[x] = f[y] => x = y
    PROVE  Cardinality({f[x] : x \in DOMAIN f}) = Cardinality(DOMAIN f)
  <1> DEFINE T == {f[x] : x \in DOMAIN f}
             g == [x \in DOMAIN f |-> f[x]]
  <1>1. g \in [DOMAIN f -> T] OBVIOUS
  <1>2. \A t \in T : \E x \in DOMAIN f : g[x] = t OBVIOUS
  <1>3. \A x, y \in DOMAIN f : g[x] = g[y] => x = y OBVIOUS
  <1>4. IsFiniteSet(T) BY ValuesAreFinite
  <1> HIDE DEF T, g
  <1>5. g \in Surjection(DOMAIN f, T) BY <1>1, <1>2 DEF Surjection
  <1>6. g \in Injection(DOMAIN f, T) BY <1>1, <1>3 DEF Injection, IsInjective
  <1>7. Cardinality(T) = Cardinality(DOMAIN f) BY <1>4, <1>5, <1>6, FS_Injection
  <1> QED BY <1>7 DEF T

=============================================================================
