-------------------------- MODULE GeneratorProofs --------------------------
(***************************************************************************)
(* Facts about the generator, of every call it accepts and of any number   *)
(* of days, profiles and payments: the plan has the records asked for,     *)
(* what is assembled from it and what each injector makes of it are rows   *)
(* of the right kind, and a data set that is written has passed the check  *)
(* run on it.                                                              *)
(***************************************************************************)
EXTENDS Truth, RuleProofs, SequenceTheorems

(* What a sequence is that lists the members of a set, each once.          *)
Lists(s, S) ==
    /\ s \in Seq(S) /\ Len(s) = Cardinality(S)
    /\ \A x \in S : \E i \in 1 .. Len(s) : s[i] = x
    /\ \A i, j \in 1 .. Len(s) : s[i] = s[j] => i = j

(* A strict total order of a set's members, and how many come before one.  *)
Orders(R, S) ==
    /\ \A x \in S : <<x, x>> \notin R
    /\ \A x, y, z \in S : <<x, y>> \in R /\ <<y, z>> \in R => <<x, z>> \in R
    /\ \A x, y \in S : x = y \/ <<x, y>> \in R \/ <<y, x>> \in R

Earlier(R, S, x) == {y \in S : <<y, x>> \in R}

(* The numbers of members before each differ, so they are all there.       *)
LEMMA RanksDiffer ==
  ASSUME NEW S, IsFiniteSet(S), NEW R, Orders(R, S)
  PROVE  /\ \A x \in S : Cardinality(Earlier(R, S, x)) \in 0 .. Cardinality(S) - 1
         /\ \A x, z \in S : <<x, z>> \in R =>
               Cardinality(Earlier(R, S, x)) < Cardinality(Earlier(R, S, z))
<1>1. Cardinality(S) \in Nat
  BY FS_CardinalityType
<1>2. ASSUME NEW x \in S
      PROVE  /\ IsFiniteSet(Earlier(R, S, x)) /\ Cardinality(Earlier(R, S, x)) \in Nat
             /\ Cardinality(Earlier(R, S, x)) \in 0 .. Cardinality(S) - 1
  <2>1. Earlier(R, S, x) \in SUBSET S /\ x \notin Earlier(R, S, x)
    BY DEF Earlier, Orders
  <2>2. /\ IsFiniteSet(Earlier(R, S, x)) /\ Cardinality(Earlier(R, S, x)) =< Cardinality(S)
        /\ Cardinality(Earlier(R, S, x)) # Cardinality(S)
    BY <2>1, FS_Subset
  <2>3. Cardinality(Earlier(R, S, x)) \in Nat
    BY <2>2, FS_CardinalityType
  <2>. QED  BY <1>1, <2>2, <2>3
<1>3. ASSUME NEW x \in S, NEW z \in S, <<x, z>> \in R
      PROVE  Cardinality(Earlier(R, S, x)) < Cardinality(Earlier(R, S, z))
  <2>1. /\ Earlier(R, S, x) \in SUBSET Earlier(R, S, z)
        /\ x \in Earlier(R, S, z) /\ x \notin Earlier(R, S, x)
    BY <1>3 DEF Earlier, Orders
  <2>2. /\ Cardinality(Earlier(R, S, x)) =< Cardinality(Earlier(R, S, z))
        /\ Cardinality(Earlier(R, S, z)) # Cardinality(Earlier(R, S, x))
    BY <1>2, <2>1, FS_Subset
  <2>. QED  BY <1>2, <2>2
<1>. QED  BY <1>2, <1>3

LEMMA RanksArePlaces ==
  ASSUME NEW S, IsFiniteSet(S), NEW R, Orders(R, S), NEW i \in 1 .. Cardinality(S)
  PROVE  \E x \in S : Cardinality(Earlier(R, S, x)) = i - 1
<1>. DEFINE n == Cardinality(S)
            rank == [x \in S |-> Cardinality(Earlier(R, S, x)) + 1]
<1>1. n \in Nat
  BY FS_CardinalityType
<1>2. /\ \A x \in S : Cardinality(Earlier(R, S, x)) \in 0 .. n - 1
      /\ \A x, z \in S : <<x, z>> \in R =>
               Cardinality(Earlier(R, S, x)) < Cardinality(Earlier(R, S, z))
  BY RanksDiffer
<1>3. IsFiniteSet(1 .. n) /\ Cardinality(1 .. n) = n
  BY <1>1, FS_Interval
<1>. HIDE DEF n
<1>4. rank \in [S -> 1 .. n]
  BY <1>1, <1>2
<1>5. ASSUME NEW x \in S, NEW z \in S, rank[x] = rank[z]
      PROVE  x = z
  <2>1. Cardinality(Earlier(R, S, x)) + 1 = Cardinality(Earlier(R, S, z)) + 1
    BY <1>5
  <2>2. Cardinality(Earlier(R, S, x)) = Cardinality(Earlier(R, S, z))
    BY <1>1, <1>2, <2>1
  <2>3. <<x, z>> \notin R /\ <<z, x>> \notin R
    BY <1>1, <1>2, <2>2
  <2>. QED  BY <2>3 DEF Orders
<1>6. rank \in Surjection(S, 1 .. n)
  <2>1. rank \in Injection(S, 1 .. n)
    <3>. HIDE DEF rank
    <3>. QED  BY <1>4, <1>5 DEF Injection, IsInjective
  <2>. QED  BY <1>3, <2>1, FS_Injection DEF n
<1>7. PICK x \in S : rank[x] = i
  <2>. HIDE DEF rank
  <2>. QED  BY <1>6 DEF Surjection, n
<1>8. Cardinality(Earlier(R, S, x)) \in 0 .. n - 1 /\ Cardinality(Earlier(R, S, x)) + 1 = i
  BY <1>2, <1>7
<1>. QED  BY <1>1, <1>8

(* A sequence in which each member has as many before it in the set as in  *)
(* the sequence lists the set in order.                                    *)
LEMMA PlacedByRank ==
  ASSUME NEW S, IsFiniteSet(S), NEW R, Orders(R, S),
         NEW s \in [1 .. Cardinality(S) -> S],
         \A i \in 1 .. Cardinality(S) : Cardinality(Earlier(R, S, s[i])) = i - 1
  PROVE  /\ Lists(s, S)
         /\ \A i, j \in 1 .. Len(s) : i < j => <<s[i], s[j]>> \in R
<1>. DEFINE n == Cardinality(S)
<1>1. /\ \A x \in S : Cardinality(Earlier(R, S, x)) \in 0 .. n - 1
      /\ \A x, z \in S : <<x, z>> \in R =>
               Cardinality(Earlier(R, S, x)) < Cardinality(Earlier(R, S, z))
  BY RanksDiffer
<1>2. n \in Nat
  BY FS_CardinalityType
<1>3. s \in Seq(S) /\ Len(s) = n
  BY <1>2
<1>4. \A i \in 1 .. n : s[i] \in S /\ Cardinality(Earlier(R, S, s[i])) = i - 1
  OBVIOUS
<1>. HIDE DEF n
<1>5. ASSUME NEW x \in S
      PROVE  \E i \in 1 .. n : s[i] = x
  <2>. DEFINE i == Cardinality(Earlier(R, S, x)) + 1
  <2>1. i \in 1 .. n /\ i - 1 = Cardinality(Earlier(R, S, x))
    BY <1>1, <1>2
  <2>. HIDE DEF i
  <2>2. s[i] \in S /\ Cardinality(Earlier(R, S, s[i])) = Cardinality(Earlier(R, S, x))
    BY <1>4, <2>1
  <2>3. <<s[i], x>> \notin R /\ <<x, s[i]>> \notin R
    BY <1>1, <1>2, <2>2
  <2>4. s[i] = x
    BY <2>2, <2>3 DEF Orders
  <2>. QED  BY <2>1, <2>4
<1>6. ASSUME NEW i \in 1 .. n, NEW j \in 1 .. n, s[i] = s[j]
      PROVE  i = j
  BY <1>2, <1>4, <1>6
<1>7. ASSUME NEW i \in 1 .. n, NEW j \in 1 .. n, i < j
      PROVE  <<s[i], s[j]>> \in R
  <2>1. /\ s[i] \in S /\ s[j] \in S /\ i - 1 < j - 1 /\ i - 1 \in Int /\ j - 1 \in Int
        /\ Cardinality(Earlier(R, S, s[i])) = i - 1 /\ Cardinality(Earlier(R, S, s[j])) = j - 1
    BY <1>2, <1>4, <1>7
  <2>2. s[i] # s[j] /\ <<s[j], s[i]>> \notin R
    BY <1>1, <2>1
  <2>. QED  BY <2>1, <2>2 DEF Orders
<1>. QED  BY <1>3, <1>5, <1>6, <1>7 DEF Lists, n

(* So a set of numbers is listed in ascending order. *)
LEMMA AscendingLists ==
  ASSUME NEW S \in SUBSET Int, IsFiniteSet(S)
  PROVE  /\ Lists(Ascending(S), S)
         /\ \A i, j \in 1 .. Len(Ascending(S)) : i < j => Ascending(S)[i] < Ascending(S)[j]
<1>. DEFINE R == {p \in S \X S : p[1] < p[2]}
            s == Ascending(S)
<1>1. \A x, y \in S : <<x, y>> \in R <=> x < y
  OBVIOUS
<1>2. s = [i \in 1 .. Cardinality(S) |->
             CHOOSE x \in S : Cardinality({y \in S : y < x}) = i - 1]
  BY DEF Ascending, Lexical, SortedBy
<1>. HIDE DEF R, s
<1>3. \A x \in S : {y \in S : y < x} = Earlier(R, S, x)
  BY <1>1 DEF Earlier
<1>4. ASSUME NEW i \in 1 .. Cardinality(S), Orders(R, S)
      PROVE  s[i] \in S /\ Cardinality(Earlier(R, S, s[i])) = i - 1
  <2>1. PICK x \in S : Cardinality(Earlier(R, S, x)) = i - 1
    BY <1>4, RanksArePlaces
  <2>2. Cardinality({y \in S : y < x}) = i - 1
    BY <1>3, <2>1
  <2>3. s[i] \in S /\ Cardinality({y \in S : y < s[i]}) = i - 1
    BY <1>2, <2>2
  <2>. QED  BY <1>3, <2>3
<1>5. Orders(R, S)
  BY <1>1 DEF Orders
<1>6. Lists(s, S) /\ \A i, j \in 1 .. Len(s) : i < j => <<s[i], s[j]>> \in R
  <2>1. s \in [1 .. Cardinality(S) -> S]
    BY <1>2, <1>4, <1>5
  <2>. QED  BY <1>4, <1>5, <2>1, PlacedByRank
<1>7. \A i \in 1 .. Len(s) : s[i] \in S
  BY <1>6 DEF Lists
<1>8. Lists(s, S) /\ \A i, j \in 1 .. Len(s) : i < j => s[i] < s[j]
  BY <1>1, <1>6, <1>7
<1>. QED  BY <1>8 DEF s

LEMMA LexicalListsPairs ==
  ASSUME NEW S \in SUBSET (Int \X Int), IsFiniteSet(S)
  PROVE  /\ Lists(Lexical(S), S)
         /\ \A i, j \in 1 .. Len(Lexical(S)) : i < j => Before(Lexical(S)[i], Lexical(S)[j])
<1>. DEFINE R == {p \in S \X S : Before(p[1], p[2])}
            s == Lexical(S)
<1>1. \A x, y \in S : <<x, y>> \in R <=> Before(x, y)
  OBVIOUS
<1>2. s = [i \in 1 .. Cardinality(S) |->
             CHOOSE x \in S : Cardinality({y \in S : Before(y, x)}) = i - 1]
  BY DEF Ascending, Lexical, SortedBy
<1>. HIDE DEF R, s
<1>3. \A x \in S : {y \in S : Before(y, x)} = Earlier(R, S, x)
  BY <1>1 DEF Earlier
<1>4. ASSUME NEW i \in 1 .. Cardinality(S), Orders(R, S)
      PROVE  s[i] \in S /\ Cardinality(Earlier(R, S, s[i])) = i - 1
  <2>1. PICK x \in S : Cardinality(Earlier(R, S, x)) = i - 1
    BY <1>4, RanksArePlaces
  <2>2. Cardinality({y \in S : Before(y, x)}) = i - 1
    BY <1>3, <2>1
  <2>3. s[i] \in S /\ Cardinality({y \in S : Before(y, s[i])}) = i - 1
    BY <1>2, <2>2
  <2>. QED  BY <1>3, <2>3
<1>5. ASSUME NEW x \in Int \X Int, NEW y \in Int \X Int
      PROVE  Before(x, y) <=> x[1] < y[1] \/ (x[1] = y[1] /\ x[2] < y[2])
  <2>1. DOMAIN x = {1, 2}
    OBVIOUS
  <2>2. 1 .. 1 - 1 = {} /\ 1 .. 2 - 1 = {1}
    OBVIOUS
  <2>. QED  BY <2>1, <2>2 DEF Before
<1>6. Orders(R, S)
  BY <1>1, <1>5 DEF Orders
<1>7. s \in [1 .. Cardinality(S) -> S]
  BY <1>2, <1>4, <1>6
<1>8. Lists(s, S) /\ \A i, j \in 1 .. Len(s) : i < j => <<s[i], s[j]>> \in R
  BY <1>4, <1>6, <1>7, PlacedByRank
<1>9. \A i \in 1 .. Len(s) : s[i] \in S
  BY <1>8, LenProperties, ElementOfSeq DEF Lists
<1>. QED  BY <1>1, <1>8, <1>9 DEF s

LEMMA LexicalListsTriples ==
  ASSUME NEW S \in SUBSET (Int \X Int \X Int), IsFiniteSet(S)
  PROVE  Lists(Lexical(S), S)
<1>. DEFINE R == {p \in S \X S : Before(p[1], p[2])}
            s == Lexical(S)
<1>1. \A x, y \in S : <<x, y>> \in R <=> Before(x, y)
  OBVIOUS
<1>2. s = [i \in 1 .. Cardinality(S) |->
             CHOOSE x \in S : Cardinality({y \in S : Before(y, x)}) = i - 1]
  BY DEF Ascending, Lexical, SortedBy
<1>. HIDE DEF R, s
<1>3. \A x \in S : {y \in S : Before(y, x)} = Earlier(R, S, x)
  BY <1>1 DEF Earlier
<1>4. ASSUME NEW i \in 1 .. Cardinality(S), Orders(R, S)
      PROVE  s[i] \in S /\ Cardinality(Earlier(R, S, s[i])) = i - 1
  <2>1. PICK x \in S : Cardinality(Earlier(R, S, x)) = i - 1
    BY <1>4, RanksArePlaces
  <2>2. Cardinality({y \in S : Before(y, x)}) = i - 1
    BY <1>3, <2>1
  <2>3. s[i] \in S /\ Cardinality({y \in S : Before(y, s[i])}) = i - 1
    BY <1>2, <2>2
  <2>. QED  BY <1>3, <2>3
<1>5. ASSUME NEW x \in Int \X Int \X Int, NEW y \in Int \X Int \X Int
      PROVE  Before(x, y) <=> \/ x[1] < y[1]
                              \/ x[1] = y[1] /\ x[2] < y[2]
                              \/ x[1] = y[1] /\ x[2] = y[2] /\ x[3] < y[3]
  <2>1. DOMAIN x = {1, 2, 3}
    OBVIOUS
  <2>2. 1 .. 1 - 1 = {} /\ 1 .. 2 - 1 = {1} /\ 1 .. 3 - 1 = {1, 2}
    OBVIOUS
  <2>. QED  BY <2>1, <2>2 DEF Before
<1>6. Orders(R, S)
  BY <1>1, <1>5 DEF Orders
<1>7. s \in [1 .. Cardinality(S) -> S]
  BY <1>2, <1>4, <1>6
<1>. QED  BY <1>4, <1>6, <1>7, PlacedByRank DEF s

-----------------------------------------------------------------------------
(* n things shared among m as build_plan shares them: the sth of share k   *)
(* is the thing numbered (s - 1) m + k.                                    *)
Quotient(n, m) == n \div m
Remainder(n, m) == n % m
ShareOf(n, m, k) == Quotient(n, m) + (IF k =< Remainder(n, m) THEN 1 ELSE 0)

LEMMA DivisionLeaves ==
  ASSUME NEW n \in Int, NEW m \in Int, m > 0,
         NEW q, q = Quotient(n, m), NEW r, r = Remainder(n, m)
  PROVE  n = m * q + r
BY Z3T(60) DEF Quotient, Remainder

LEMMA Divided ==
  ASSUME NEW n \in Nat, NEW m \in Nat \ {0}
  PROVE  /\ Quotient(n, m) \in Nat /\ Remainder(n, m) \in 0 .. m - 1
         /\ n = m * Quotient(n, m) + Remainder(n, m)
<1>1. Remainder(n, m) \in 0 .. m - 1
  BY Z3 DEF Remainder
<1>2. Quotient(n, m) \in Int
  BY Z3 DEF Quotient
<1>3. Quotient(n, m) >= 0
  BY Z3T(30) DEF Quotient
<1>4. n = m * Quotient(n, m) + Remainder(n, m)
  BY DivisionLeaves
<1>. QED  BY <1>1, <1>2, <1>3, <1>4

LEMMA ShareIsNumber ==
  ASSUME NEW n \in Nat, NEW m \in Nat \ {0}, NEW k
  PROVE  ShareOf(n, m, k) \in Nat
<1>1. Quotient(n, m) \in Nat
  BY Divided
<1>2. (IF k =< Remainder(n, m) THEN 1 ELSE 0) \in {0, 1}
  OBVIOUS
<1>. QED  BY <1>1, <1>2 DEF ShareOf

LEMMA ShareIsWithin ==
  ASSUME NEW n \in Nat, NEW m \in Nat \ {0}, NEW k \in 1 .. m,
         NEW s \in 1 .. ShareOf(n, m, k)
  PROVE  (s - 1) * m + k \in 1 .. n
<1>. DEFINE q == Quotient(n, m)
            r == Remainder(n, m)
<1>1. q \in Nat /\ r \in 0 .. m - 1 /\ n = m * q + r
  BY Divided
<1>2. s \in 1 .. q + (IF k =< r THEN 1 ELSE 0)
  BY DEF ShareOf
<1>. HIDE DEF q, r
<1>. DEFINE a == (s - 1) * m
<1>3. a \in Nat /\ a >= 0
  BY <1>1, <1>2
<1>4. CASE k =< r
  <2>1. s - 1 \in Nat /\ s - 1 =< q
    BY <1>1, <1>2, <1>4
  <2>2. a =< m * q
    BY <1>1, <2>1, SMTT(30)
  <2>. HIDE DEF a
  <2>. DEFINE b == m * q
  <2>3. b \in Nat
    BY <1>1
  <2>. HIDE DEF b
  <2>4. a + k \in 1 .. n
    BY <1>1, <1>3, <1>4, <2>2, <2>3 DEF b
  <2>. QED  BY <2>4 DEF a
<1>5. CASE ~(k =< r)
  <2>1. s - 1 \in Nat /\ s - 1 =< q - 1
    BY <1>1, <1>2, <1>5
  <2>2. a =< m * q - m
    <3>1. (s - 1) * m =< (q - 1) * m
      BY <1>1, <2>1, SMTT(30)
    <3>2. (q - 1) * m = m * q - m
      BY <1>1
    <3>. QED  BY <3>1, <3>2
  <2>. HIDE DEF a
  <2>. DEFINE b == m * q
  <2>3. b \in Nat
    BY <1>1
  <2>. HIDE DEF b
  <2>4. a + k \in 1 .. n
    BY <1>1, <1>3, <2>2, <2>3 DEF b
  <2>. QED  BY <2>4 DEF a
<1>. QED  BY <1>4, <1>5

LEMMA ShareNumbersDiffer ==
  ASSUME NEW m \in Nat \ {0}, NEW k \in 1 .. m, NEW j \in 1 .. m, NEW s \in Nat \ {0},
         NEW t \in Nat \ {0}, (s - 1) * m + k = (t - 1) * m + j
  PROVE  s = t /\ k = j
<1>1. ASSUME NEW a \in 1 .. m, NEW b \in 1 .. m, NEW x \in Nat, NEW y \in Nat,
             x * m + a = y * m + b, x < y
      PROVE  FALSE
  <2>1. (y - x) * m >= m
    BY <1>1, SMTT(30)
  <2>2. y * m - x * m = (y - x) * m
    BY SMTT(30)
  <2>. DEFINE c == y * m
              d == x * m
  <2>3. c \in Nat /\ d \in Nat
    OBVIOUS
  <2>4. c - d >= m /\ d + a = c + b
    BY <1>1, <2>1, <2>2
  <2>. HIDE DEF c, d
  <2>. QED  BY <2>3, <2>4
<1>2. s = t
  BY <1>1
<1>. QED  BY <1>2

LEMMA SharesAreAll ==
  ASSUME NEW n \in Nat, NEW m \in Nat \ {0}, NEW i \in 1 .. n
  PROVE  \E k \in 1 .. m : \E s \in 1 .. ShareOf(n, m, k) : i = (s - 1) * m + k
<1>. DEFINE q == Quotient(n, m)
            r == Remainder(n, m)
            s == Quotient(i - 1, m)
            k == Remainder(i - 1, m) + 1
<1>1. q \in Nat /\ r \in 0 .. m - 1 /\ n = m * q + r
  BY Divided
<1>2. s \in Nat /\ k \in 1 .. m /\ i - 1 = m * s + (k - 1)
  <2>. DEFINE h == i - 1
              u == Remainder(h, m)
  <2>1. h \in Nat /\ s = Quotient(h, m) /\ u = Remainder(h, m) /\ k = u + 1
    OBVIOUS
  <2>. HIDE DEF h, s, u, k
  <2>2. s \in Nat /\ u \in 0 .. m - 1 /\ h = m * s + u
    BY <2>1, Divided
  <2>. QED  BY <2>1, <2>2 DEF h
<1>3. ShareOf(n, m, k) = q + (IF k =< r THEN 1 ELSE 0)
  BY DEF ShareOf
<1>. HIDE DEF q, r, s, k
<1>4. m * s + (k - 1) < m * q + r
  BY <1>1, <1>2
<1>5. s =< q
  <2>1. ASSUME s >= q + 1
        PROVE  FALSE
    <3>1. m * s >= m * (q + 1)
      BY <1>1, <1>2, <2>1, SMTT(30)
    <3>2. m * (q + 1) = m * q + m
      BY <1>1
    <3>. DEFINE a == m * s
                b == m * q
    <3>3. a \in Nat /\ b \in Nat /\ a >= b + m /\ a + (k - 1) < b + r
      BY <1>1, <1>2, <1>4, <3>1, <3>2
    <3>. HIDE DEF a, b
    <3>. QED  BY <1>1, <1>2, <3>3
  <2>. QED  BY <1>1, <1>2, <2>1
<1>6. s + 1 \in 1 .. ShareOf(n, m, k)
  <2>1. CASE s = q
    <3>. DEFINE b == m * q
    <3>1. b \in Nat /\ b + (k - 1) < b + r
      BY <1>1, <1>4, <2>1
    <3>. HIDE DEF b
    <3>2. k =< r
      BY <1>1, <1>2, <3>1
    <3>. QED  BY <1>1, <1>3, <2>1, <3>2
  <2>2. CASE s # q
    BY <1>1, <1>2, <1>3, <1>5, <2>2
  <2>. QED  BY <2>1, <2>2
<1>7. i = (s + 1 - 1) * m + k
  <2>1. (s + 1 - 1) * m = m * s
    BY <1>2
  <2>. DEFINE a == m * s
  <2>2. a \in Nat /\ i - 1 = a + (k - 1)
    BY <1>2
  <2>. HIDE DEF a
  <2>3. i = a + k
    BY <1>2, <2>2
  <2>. QED  BY <2>1, <2>3 DEF a
<1>. QED  BY <1>2, <1>6, <1>7

LEMMA EachHasAShare ==
  ASSUME NEW n \in Nat, NEW m \in Nat \ {0}, NEW k \in 1 .. m, m =< n
  PROVE  ShareOf(n, m, k) >= 1
<1>. DEFINE q == Quotient(n, m)
            r == Remainder(n, m)
<1>1. q \in Nat /\ r \in 0 .. m - 1 /\ n = m * q + r
  BY Divided
<1>2. ShareOf(n, m, k) = q + (IF k =< r THEN 1 ELSE 0)
  BY DEF ShareOf
<1>. HIDE DEF q, r
<1>3. q # 0
  BY <1>1
<1>. QED  BY <1>1, <1>2, <1>3

(* The entries of the plan: day, profile, number among the day's of it.    *)
PlanEntries ==
    {entry \in (1 .. call.days) \X (DOMAIN ProfileOrder) \X (1 .. call.records) :
        entry[3] =< Share(entry[1], entry[2])}

LEMMA CallIsTyped ==
  ASSUME call \in Calls
  PROVE  /\ call.days \in Nat \ {0} /\ call.records \in Nat
         /\ Len(ProfileOrder) \in Nat \ {0} /\ DOMAIN ProfileOrder = 1 .. Len(ProfileOrder)
         /\ call.days * Len(ProfileOrder) =< call.records
         /\ call.days =< call.records
         /\ \A day \in 1 .. call.days :
               /\ PerDay(day) = ShareOf(call.records, call.days, day)
               /\ PerDay(day) \in Nat /\ PerDay(day) >= Len(ProfileOrder)
               /\ PerDay(day) =< call.records
               /\ \A k \in DOMAIN ProfileOrder :
                     Share(day, k) = ShareOf(PerDay(day), Len(ProfileOrder), k)
<1>. DEFINE p == Len(ProfileOrder)
            n == call.records
            m == call.days
<1>1. p \in Nat \ {0} /\ DOMAIN ProfileOrder = 1 .. p
  BY ProfilesAssumption
<1>2. n \in Nat /\ m \in Nat \ {0} /\ m * p =< n
  BY CallsAssumption
<1>. HIDE DEF p, n, m
<1>3. m =< m * p
  BY <1>1, <1>2, SMTT(30)
<1>4. m =< n /\ m * p \in Nat
  BY <1>1, <1>2, <1>3
<1>5. ASSUME NEW day \in 1 .. m
      PROVE  /\ PerDay(day) = ShareOf(n, m, day)
             /\ PerDay(day) \in Nat /\ PerDay(day) >= p /\ PerDay(day) =< n
             /\ \A k \in 1 .. p : Share(day, k) = ShareOf(PerDay(day), p, k)
  <2>1. PerDay(day) = ShareOf(n, m, day)
    BY DEF PerDay, ShareOf, Quotient, Remainder, n, m
  <2>. DEFINE q == Quotient(n, m)
              r == Remainder(n, m)
  <2>2. q \in Nat /\ r \in 0 .. m - 1 /\ n = m * q + r
    BY <1>2, Divided
  <2>3. PerDay(day) = q \/ (PerDay(day) = q + 1 /\ day =< r)
    <3>1. PerDay(day) = q + (IF day =< r THEN 1 ELSE 0)
      BY <2>1 DEF ShareOf
    <3>. HIDE DEF q, r
    <3>. QED  BY <2>2, <3>1
  <2>. HIDE DEF q, r
  <2>4. q >= p
    <3>1. ASSUME q + 1 =< p
          PROVE  FALSE
      <4>1. m * (q + 1) =< m * p
        BY <1>1, <1>2, <2>2, <3>1, SMTT(30)
      <4>2. m * (q + 1) = m * q + m
        BY <1>2, <2>2
      <4>. DEFINE a == m * q
                  b == m * p
      <4>3. a \in Nat /\ b \in Nat /\ a + m =< b /\ b =< n /\ n = a + r
        BY <1>1, <1>2, <2>2, <4>1, <4>2
      <4>. HIDE DEF a, b
      <4>. QED  BY <1>2, <2>2, <4>3
    <3>. QED  BY <1>1, <2>2, <3>1
  <2>5. PerDay(day) =< n
    <3>1. q =< m * q
      BY <1>2, <2>2, SMTT(30)
    <3>. DEFINE a == m * q
    <3>2. a \in Nat /\ q =< a /\ n = a + r
      BY <1>2, <2>2, <3>1
    <3>. HIDE DEF a
    <3>. QED  BY <1>2, <2>2, <2>3, <3>2
  <2>6. \A k \in 1 .. p : Share(day, k) = ShareOf(PerDay(day), p, k)
    BY DEF Share, ShareOf, Quotient, Remainder, p
  <2>. QED  BY <1>1, <2>1, <2>2, <2>3, <2>4, <2>5, <2>6
<1>. QED  BY <1>1, <1>2, <1>4, <1>5 DEF p, n, m

(* build_plan plans exactly the records asked for, and something for each  *)
(* profile on each day.                                                    *)
LEMMA PlanIsListed ==
  ASSUME call \in Calls
  PROVE  /\ Lists(Plan, PlanEntries)
         /\ Len(Plan) = call.records
         /\ \A day \in 1 .. call.days, k \in DOMAIN ProfileOrder :
               \E i \in 1 .. Len(Plan) : Plan[i] = <<day, k, 1>>
<1>. DEFINE n == call.records
            m == call.days
            p == Len(ProfileOrder)
            turn(e) == (e[3] - 1) * p + e[2]
            place == [e \in PlanEntries |-> (turn(e) - 1) * m + e[1]]
<1>1. /\ m \in Nat \ {0} /\ n \in Nat /\ p \in Nat \ {0} /\ DOMAIN ProfileOrder = 1 .. p
      /\ m =< n
      /\ \A day \in 1 .. m :
            /\ PerDay(day) = ShareOf(n, m, day)
            /\ PerDay(day) \in Nat /\ PerDay(day) >= p /\ PerDay(day) =< n
            /\ \A k \in 1 .. p : Share(day, k) = ShareOf(PerDay(day), p, k)
  BY CallIsTyped
<1>. HIDE DEF n, m, p
<1>2. IsFiniteSet(1 .. n) /\ Cardinality(1 .. n) = n
  BY <1>1, FS_Interval
<1>3. PlanEntries \subseteq (1 .. m) \X (1 .. p) \X (1 .. n)
  BY <1>1 DEF PlanEntries, n, m
<1>4. PlanEntries \in SUBSET (Int \X Int \X Int)
  BY <1>1, <1>3
<1>5. ASSUME NEW e \in PlanEntries
      PROVE  /\ e[1] \in 1 .. m /\ e[2] \in 1 .. p /\ e[3] \in Nat \ {0}
             /\ e[3] \in 1 .. ShareOf(PerDay(e[1]), p, e[2])
             /\ turn(e) \in 1 .. ShareOf(n, m, e[1]) /\ turn(e) \in Nat \ {0}
             /\ (turn(e) - 1) * m + e[1] \in 1 .. n
             /\ e = <<e[1], e[2], e[3]>>
  <2>1. e[1] \in 1 .. m /\ e[2] \in 1 .. p /\ e[3] \in 1 .. n /\ e = <<e[1], e[2], e[3]>>
    BY <1>3
  <2>2. e[3] =< Share(e[1], e[2])
    BY DEF PlanEntries
  <2>3. PerDay(e[1]) \in Nat /\ Share(e[1], e[2]) = ShareOf(PerDay(e[1]), p, e[2])
    BY <1>1, <2>1
  <2>4. e[3] \in 1 .. ShareOf(PerDay(e[1]), p, e[2])
    <3>1. ShareOf(PerDay(e[1]), p, e[2]) \in Nat
      BY <1>1, <2>3, ShareIsNumber
    <3>. QED  BY <1>1, <2>1, <2>2, <2>3, <3>1
  <2>5. turn(e) \in 1 .. PerDay(e[1])
    BY <1>1, <2>1, <2>3, <2>4, ShareIsWithin
  <2>. HIDE DEF turn
  <2>6. turn(e) \in 1 .. ShareOf(n, m, e[1]) /\ turn(e) \in Nat \ {0}
    BY <1>1, <2>1, <2>5
  <2>7. (turn(e) - 1) * m + e[1] \in 1 .. n
    BY <1>1, <2>1, <2>6, ShareIsWithin
  <2>. QED  BY <1>1, <2>1, <2>4, <2>6, <2>7
<1>6. place \in Injection(PlanEntries, 1 .. n)
  <2>1. place \in [PlanEntries -> 1 .. n]
    BY <1>5
  <2>2. ASSUME NEW e \in PlanEntries, NEW f \in PlanEntries, place[e] = place[f]
        PROVE  e = f
    <3>1. (turn(e) - 1) * m + e[1] = (turn(f) - 1) * m + f[1]
      <4>. HIDE DEF turn
      <4>. QED  BY <2>2
    <3>2. /\ turn(e) \in Nat \ {0} /\ e[1] \in 1 .. m /\ e[2] \in 1 .. p /\ e[3] \in Nat \ {0}
          /\ turn(f) \in Nat \ {0} /\ f[1] \in 1 .. m /\ f[2] \in 1 .. p /\ f[3] \in Nat \ {0}
      BY <1>5
    <3>3. turn(e) = turn(f) /\ e[1] = f[1]
      <4>. HIDE DEF turn, place
      <4>. QED  BY <1>1, <3>1, <3>2, ShareNumbersDiffer
    <3>4. (e[3] - 1) * p + e[2] = (f[3] - 1) * p + f[2]
      BY <3>3
    <3>6. e[3] = f[3] /\ e[2] = f[2]
      <4>. HIDE DEF turn, place
      <4>. DEFINE s == e[3]
                  t == f[3]
                  k == e[2]
                  j == f[2]
      <4>1. s \in Nat \ {0} /\ t \in Nat \ {0} /\ k \in 1 .. p /\ j \in 1 .. p
        BY <3>2
      <4>2. (s - 1) * p + k = (t - 1) * p + j
        BY <3>4
      <4>. HIDE DEF s, t, k, j
      <4>3. s = t /\ k = j
        BY <1>1, <4>1, <4>2, ShareNumbersDiffer
      <4>. QED  BY <4>3 DEF s, t, k, j
    <3>5. e = <<e[1], e[2], e[3]>> /\ f = <<f[1], f[2], f[3]>>
      BY <1>5
    <3>. HIDE DEF turn, place
    <3>. QED  BY <3>3, <3>5, <3>6
  <2>. HIDE DEF place
  <2>. QED  BY <2>1, <2>2 DEF Injection, IsInjective
<1>7. ASSUME NEW i \in 1 .. n
      PROVE  \E e \in PlanEntries : place[e] = i
  <2>1. PICK day \in 1 .. m : \E t \in 1 .. ShareOf(n, m, day) : i = (t - 1) * m + day
    BY <1>1, SharesAreAll
  <2>2. PICK t \in 1 .. PerDay(day) : i = (t - 1) * m + day
    BY <1>1, <2>1
  <2>3. PICK k \in 1 .. p : \E s \in 1 .. ShareOf(PerDay(day), p, k) : t = (s - 1) * p + k
    <3>1. PerDay(day) \in Nat
      BY <1>1
    <3>. QED  BY <1>1, <3>1, SharesAreAll
  <2>4. PICK s \in 1 .. ShareOf(PerDay(day), p, k) : t = (s - 1) * p + k
    BY <2>3
  <2>5. ShareOf(PerDay(day), p, k) \in Nat
    <3>1. PerDay(day) \in Nat
      BY <1>1
    <3>. QED  BY <1>1, <3>1, ShareIsNumber
  <2>6. ShareOf(PerDay(day), p, k) =< n
    <3>1. PerDay(day) \in Nat /\ PerDay(day) =< n
      BY <1>1
    <3>. DEFINE w == ShareOf(PerDay(day), p, k)
    <3>2. CASE w = 0
      BY <1>1, <3>2
    <3>3. CASE w # 0
      <4>1. w \in 1 .. w
        BY <2>5, <3>3
      <4>2. (w - 1) * p + k \in 1 .. PerDay(day)
        BY <1>1, <4>1, ShareIsWithin
      <4>. HIDE DEF w
      <4>3. w \in Nat /\ w - 1 \in Nat
        BY <2>5, <3>3 DEF w
      <4>4. (w - 1) * p >= w - 1
        BY <1>1, <4>3, SMTT(30)
      <4>. DEFINE a == (w - 1) * p
      <4>5. a \in Nat /\ a >= w - 1 /\ a + k =< PerDay(day)
        BY <1>1, <4>2, <4>3, <4>4
      <4>. HIDE DEF a
      <4>. QED  BY <1>1, <3>1, <4>3, <4>5 DEF w
    <3>. QED  BY <3>2, <3>3
  <2>. DEFINE e == <<day, k, s>>
  <2>7. e \in PlanEntries
    <3>1. s \in 1 .. n /\ s =< Share(day, k)
      BY <1>1, <2>4, <2>5, <2>6
    <3>2. day \in 1 .. call.days /\ k \in DOMAIN ProfileOrder /\ s \in 1 .. call.records
      BY <1>1, <3>1 DEF n, m
    <3>. QED  BY <3>1, <3>2 DEF PlanEntries
  <2>8. place[e] = i
    <3>1. place[e] = (turn(e) - 1) * m + e[1] /\ e[1] = day
      <4>. HIDE DEF turn
      <4>. QED  BY <2>7
    <3>2. turn(e) = (s - 1) * p + k
      OBVIOUS
    <3>. HIDE DEF turn, place
    <3>. QED  BY <2>2, <2>4, <3>1, <3>2
  <2>. QED  BY <2>7, <2>8
<1>8. place \in Surjection(PlanEntries, 1 .. n)
  <2>1. place \in [PlanEntries -> 1 .. n]
    BY <1>5
  <2>. HIDE DEF place
  <2>. QED  BY <1>7, <2>1 DEF Surjection
<1>9. IsFiniteSet(PlanEntries) /\ Cardinality(PlanEntries) = n
  <2>1. IsFiniteSet(PlanEntries)
    BY <1>2, <1>6, FS_Injection
  <2>2. Cardinality(PlanEntries) = Cardinality(1 .. n)
    BY <1>2, <1>6, <1>8, FS_Injection
  <2>. QED  BY <1>2, <2>1, <2>2
<1>10. Lists(Plan, PlanEntries)
  <2>1. Plan = Lexical(PlanEntries)
    BY DEF Plan, PlanEntries
  <2>. QED  BY <1>4, <1>9, <2>1, LexicalListsTriples
<1>11. ASSUME NEW day \in 1 .. m, NEW k \in 1 .. p
       PROVE  \E i \in 1 .. Len(Plan) : Plan[i] = <<day, k, 1>>
  <2>1. Share(day, k) >= 1
    <3>1. ShareOf(PerDay(day), p, k) >= 1
      BY <1>1, EachHasAShare
    <3>. QED  BY <1>1, <3>1
  <2>2. <<day, k, 1>> \in PlanEntries
    <3>1. day \in 1 .. call.days /\ k \in DOMAIN ProfileOrder /\ 1 \in 1 .. call.records
      BY <1>1 DEF n, m
    <3>. QED  BY <2>1, <3>1 DEF PlanEntries
  <2>. QED  BY <1>10, <2>2 DEF Lists
<1>. QED  BY <1>1, <1>9, <1>10, <1>11 DEF Lists, n, m

-----------------------------------------------------------------------------
(* The rows of a data set, kind by kind.  What of a batch's UTR a credit   *)
(* carries is of some batch's, or nothing.                                 *)
LedgerEntry ==
    [order : Nat \ {0}, customer : DOMAIN CustomerProfile, gross : Int,
     invoice : Nat \ {0}, date : Int]
PaymentRow ==
    [order : Nat \ {0}, method : Methods, authorized : Int, captured : Int, capturedAt : Int]
RefundRow == [payment : Nat \ {0}, amount : Int, created : Int]
LineRow ==
    [type : {"PAYMENT", "REFUND"}, payment : Nat \ {0}, refund : Nat, batch : Nat \ {0},
     gross : Int, fee : Int, tax : Int, net : Int, settled : Int]
UtrsUsed == {UtrOf[n] : n \in Nat}
BatchRow == [utr : UtrsUsed, net : Int, settled : Int]
TokensUsed == {NoToken} \union [kind : {"PREFIX", "GARBLED"}, of : UtrsUsed, kept : Int]
BankRow == [direction : {"CREDIT"}, amount : Int, valueDate : Int, token : TokensUsed]
ChainRow ==
    [profile : Profiles, day : Nat \ {0}, captured : Int, fee : Int, tax : Int, net : Int,
     refund : Int]
BankTables == UNION {[ids -> BankRow] : ids \in SUBSET (Nat \ {0})}

RowTables ==
    [ledger : Seq(LedgerEntry), payments : Seq(PaymentRow), refunds : Seq(RefundRow),
     lines : Seq(LineRow), batches : Seq(BatchRow), bank : BankTables, chains : Seq(ChainRow)]

(* A chain before it becomes rows. *)
Prices == [gross : Int, fee : Int, tax : Int, net : Int]
PlannedChain ==
    [profile : Profiles, day : Nat \ {0}, k : DOMAIN ProfileOrder,
     customer : DOMAIN CustomerProfile, method : Methods, date : Int,
     refund : Nat, refundDate : Int, settles : Int, refundSettles : Int, priced : Prices]

LEMMA SeqOf ==
  ASSUME NEW n \in Nat, NEW T, NEW f \in [1 .. n -> T]
  PROVE  f \in Seq(T) /\ Len(f) = n /\ DOMAIN f = 1 .. n
<1>1. f \in Seq(T)
  BY SeqDef
<1>. QED  BY <1>1, LenProperties

LEMMA ScaledIsWhole ==
  ASSUME NEW a \in Int, NEW m \in Nat \ {0}
  PROVE  a \div m \in Int
BY Z3

LEMMA PartIsWithin ==
  ASSUME NEW n \in Nat, NEW p \in 0 .. 100
  PROVE  (n * p) \div 100 \in 0 .. n
<1>. DEFINE whole == n * p
            rest == n * (100 - p)
<1>1. whole \in Nat /\ rest \in Nat /\ whole + rest = 100 * n
  <2>1. whole \in Int /\ rest \in Int /\ whole + rest = 100 * n
    OBVIOUS
  <2>2. \A a, b \in Nat : a * b \in Nat
    OBVIOUS
  <2>3. 100 - p \in Nat /\ p \in Nat
    OBVIOUS
  <2>. QED  BY <2>1, <2>2, <2>3
<1>. HIDE DEF whole, rest
<1>2. whole =< 100 * n
  BY <1>1
<1>3. whole \div 100 \in 0 .. n
  BY <1>1, <1>2
<1>. QED  BY <1>3 DEF whole

(* Whatever is priced is priced in paise. *)
LEMMA PricedInPaise ==
  ASSUME NEW gross \in Int, NEW method \in Methods, NEW profile \in Profiles
  PROVE  /\ Priced(gross, method, profile) \in Prices
         /\ Priced(gross, method, profile).gross = gross
<1>1. ASSUME NEW a \in Int, NEW rate \in Int
      PROVE  TimesRate(a, rate) \in Int
  <2>. DEFINE x == 2 * a * rate + BasisPoint
              m == 2 * BasisPoint
  <2>1. x \in Int /\ m \in Nat \ {0}
    BY DEF BasisPoint
  <2>2. TimesRate(a, rate) = x \div m
    BY DEF TimesRate
  <2>. HIDE DEF x, m
  <2>. QED  BY <2>1, <2>2, ScaledIsWhole
<1>2. MdrRate[profile][method] \in Int /\ GstRate \in Int
  <2>1. /\ MdrRate \in [Profiles -> [Methods -> 0 .. BasisPoint]]
        /\ GstRate \in 0 .. BasisPoint
    BY ConfigAssumption DEF ValidConfig, ValidMdrRates
  <2>2. MdrRate[profile] \in [Methods -> 0 .. BasisPoint]
    BY <2>1
  <2>3. MdrRate[profile][method] \in 0 .. BasisPoint
    BY <2>2
  <2>. QED  BY <2>1, <2>3
<1>3. Fee(gross, method, profile) \in Int
  BY <1>1, <1>2 DEF Fee
<1>4. Gst(Fee(gross, method, profile)) \in Int
  BY <1>1, <1>2, <1>3 DEF Gst
<1>. QED  BY <1>3, <1>4 DEF Priced, Prices

(* What is planned, each entry becomes a chain of. *)
LEMMA ChainsArePlanned ==
  ASSUME call \in Calls, NEW i \in 1 .. Len(Plan)
  PROVE  /\ CleanChain(i) \in PlannedChain
         /\ CleanChain(i).k = Plan[i][2]
         /\ CleanChain(i).profile = ProfileOrder[Plan[i][2]]
         /\ CustomerProfile[CleanChain(i).customer] = CleanChain(i).profile
         /\ CleanChain(i).settles >= CleanChain(i).date
         /\ CleanChain(i).settles = NextWorkingDay(CleanChain(i).date)
         /\ CleanChain(i).priced.gross \in Nat
         /\ CleanChain(i).settles = NextWorkingDay(BaseDate + Plan[i][1] - 1)
         /\ CleanChain(i).refundSettles =< NextWorkingDay(BaseDate + call.days - 1)
<1>. DEFINE entry == Plan[i]
            draw == call.draws[i]
            profile == ProfileOrder[entry[2]]
            customer == CustomerId[profile][draw.customer]
            day == BaseDate + entry[1] - 1
            lastCapture == BaseDate + call.days - 1
            refunded == IF day + draw.refundLag < lastCapture
                        THEN day + draw.refundLag ELSE lastCapture
            priced == Priced(draw.gross, draw.method, profile)
<1>1. /\ entry \in PlanEntries /\ i \in 1 .. call.records
      /\ call.days \in Nat \ {0} /\ call.records \in Nat
  <2>1. Lists(Plan, PlanEntries) /\ Len(Plan) = call.records
    BY PlanIsListed
  <2>. QED  BY <2>1, CallIsTyped DEF Lists
<1>2. entry[1] \in 1 .. call.days /\ entry[2] \in DOMAIN ProfileOrder
  BY <1>1 DEF PlanEntries
<1>3. profile \in Profiles
  BY <1>2, ProfilesAssumption
<1>4. /\ draw.method \in Methods
      /\ draw.gross \in Nat /\ draw.refund \in Nat /\ draw.refundLag \in 0 .. 3
  BY <1>1, CallsAssumption
<1>0. customer \in DOMAIN CustomerProfile /\ CustomerProfile[customer] = profile
  <2>1. draw.customer \in DOMAIN CustomerId[profile]
    BY <1>1, <1>3, CallsAssumption
  <2>. QED  BY <1>3, <2>1, CustomersAssumption
<1>5. BaseDate \in Int
  <2>1. WindowStart \in Int
    BY ConfigAssumption DEF ValidConfig, ValidCalendar
  <2>2. NextWorkingDay(WindowStart) \in Int
    BY <2>1, CalendarWalkTerminates, ConfigAssumption DEF ValidConfig
  <2>. QED  BY <2>2 DEF BaseDate
<1>6. day \in Int /\ lastCapture \in Int
  BY <1>1, <1>2, <1>5
<1>7. refunded \in Int /\ refunded =< lastCapture
  BY <1>4, <1>6
<1>8. priced \in Prices /\ priced.gross = draw.gross
  BY <1>3, <1>4, PricedInPaise DEF Priced
<1>9. CleanChain(i) =
        [profile |-> profile, day |-> entry[1], k |-> entry[2],
         customer |-> customer, method |-> draw.method, date |-> day,
         refund |-> draw.refund, refundDate |-> refunded,
         settles |-> NextWorkingDay(day), refundSettles |-> NextWorkingDay(refunded),
         priced |-> priced]
  BY DEF CleanChain
<1>. HIDE DEF entry, draw, profile, customer, day, lastCapture, refunded, priced
<1>10. /\ NextWorkingDay(day) \in Int /\ NextWorkingDay(day) >= day
       /\ NextWorkingDay(refunded) \in Int
  BY <1>6, <1>7, CalendarWalkTerminates, ConfigAssumption DEF ValidConfig
<1>11. NextWorkingDay(refunded) =< NextWorkingDay(lastCapture)
  <2>1. /\ NextWorkingDay(lastCapture) \in Int /\ NextWorkingDay(lastCapture) >= lastCapture
        /\ IsWorkingDay(NextWorkingDay(lastCapture))
    BY <1>6, CalendarWalkTerminates, ConfigAssumption DEF ValidConfig
  <2>2. \A e \in refunded .. NextWorkingDay(refunded) - 1 : ~IsWorkingDay(e)
    BY <1>7, CalendarWalkTerminates, ConfigAssumption DEF ValidConfig
  <2>. QED  BY <1>6, <1>7, <1>10, <2>1, <2>2
<1>12. CleanChain(i) \in PlannedChain
  <2>1. entry[1] \in Nat \ {0}
    BY <1>1, <1>2
  <2>. QED  BY <1>0, <1>2, <1>3, <1>4, <1>6, <1>7, <1>8, <1>9, <1>10, <2>1 DEF PlannedChain
<1>13. /\ CleanChain(i).k = entry[2] /\ CleanChain(i).settles = NextWorkingDay(day)
       /\ CleanChain(i).date = day /\ CleanChain(i).refundSettles = NextWorkingDay(refunded)
       /\ CleanChain(i).profile = profile /\ CleanChain(i).customer = customer
      /\ CleanChain(i).priced = priced
  BY <1>9
<1>. QED  BY <1>0, <1>4, <1>8, <1>10, <1>11, <1>12, <1>13 DEF entry, day, lastCapture, profile

(* A refund is made while its profile still settles: a payment of the      *)
(* profile, of the last day, settles no earlier.                           *)
Refundable(chains) ==
    \A i \in DOMAIN chains :
        \E j \in DOMAIN chains :
            chains[j].k = chains[i].k /\ chains[j].settles >= chains[i].refundSettles

Prompt(chains) == \A i \in DOMAIN chains : chains[i].date =< chains[i].settles

LEMMA PlannedIsRefundable ==
  ASSUME call \in Calls, NEW chains, chains = [i \in 1 .. Len(Plan) |-> CleanChain(i)]
  PROVE  /\ chains \in Seq(PlannedChain) /\ Refundable(chains) /\ Prompt(chains)
<1>1. Len(Plan) \in Nat /\ call.days \in Nat \ {0}
  BY PlanIsListed, CallIsTyped
<1>2. /\ DOMAIN chains = 1 .. Len(Plan)
      /\ \A i \in DOMAIN chains : chains[i] = CleanChain(i)
  OBVIOUS
<1>3. chains \in Seq(PlannedChain)
  <2>1. chains \in [1 .. Len(Plan) -> PlannedChain]
    BY ChainsArePlanned
  <2>. QED  BY <1>1, <2>1, SeqOf
<1>4. ASSUME NEW i \in DOMAIN chains
      PROVE  \E j \in DOMAIN chains :
                chains[j].k = chains[i].k /\ chains[j].settles >= chains[i].refundSettles
  <2>1. /\ chains[i] \in PlannedChain /\ chains[i].k = Plan[i][2]
        /\ chains[i].refundSettles =< NextWorkingDay(BaseDate + call.days - 1)
    BY <1>2, ChainsArePlanned
  <2>2. chains[i].k \in DOMAIN ProfileOrder /\ chains[i].refundSettles \in Int
    BY <2>1 DEF PlannedChain
  <2>3. call.days \in 1 .. call.days
    BY <1>1
  <2>4. PICK j \in 1 .. Len(Plan) : Plan[j] = <<call.days, chains[i].k, 1>>
    BY <2>2, <2>3, PlanIsListed
  <2>5. Plan[j][1] = call.days /\ Plan[j][2] = chains[i].k
    BY <2>4
  <2>6. /\ chains[j] \in PlannedChain /\ chains[j].k = chains[i].k
        /\ chains[j].settles = NextWorkingDay(BaseDate + call.days - 1)
    BY <1>2, <2>5, ChainsArePlanned
  <2>7. chains[j].settles \in Int
    BY <2>6 DEF PlannedChain
  <2>. QED  BY <1>2, <2>1, <2>2, <2>4, <2>6, <2>7
<1>5. Prompt(chains)
  <2>1. ASSUME NEW i \in DOMAIN chains
        PROVE  chains[i].date =< chains[i].settles
    <3>1. chains[i] \in PlannedChain /\ chains[i].settles >= chains[i].date
      BY <1>2, ChainsArePlanned
    <3>. QED  BY <3>1 DEF PlannedChain
  <2>. QED  BY <2>1 DEF Prompt
<1>. QED  BY <1>3, <1>4, <1>5 DEF Refundable

(* The batches are those of the chains' profiles and days. *)
LEMMA KeysAreListed ==
  ASSUME NEW chains \in Seq(PlannedChain)
  PROVE  /\ BatchKeys(chains) \in Seq((DOMAIN ProfileOrder) \X Int)
         /\ \A i \in DOMAIN chains : \E b \in DOMAIN BatchKeys(chains) :
               BatchKeys(chains)[b] = <<chains[i].k, chains[i].settles>>
         /\ \A b \in DOMAIN BatchKeys(chains) : \E i \in DOMAIN chains :
               BatchKeys(chains)[b] = <<chains[i].k, chains[i].settles>>
         /\ \A a, b \in DOMAIN BatchKeys(chains) :
               a < b => Before(BatchKeys(chains)[a], BatchKeys(chains)[b])
<1>. DEFINE n == Len(chains)
            key == [i \in 1 .. n |-> <<chains[i].k, chains[i].settles>>]
            K == {<<chains[i].k, chains[i].settles>> : i \in 1 .. n}
            P == DOMAIN ProfileOrder
<1>1. n \in Nat /\ DOMAIN chains = 1 .. n
  BY LenProperties
<1>2. ASSUME NEW i \in 1 .. n
      PROVE  key[i] \in P \X Int /\ key[i] \in K /\ key[i] = <<chains[i].k, chains[i].settles>>
  <2>1. chains[i] \in PlannedChain
    BY <1>1, <1>2, ElementOfSeq
  <2>2. chains[i].k \in P /\ chains[i].settles \in Int
    BY <2>1 DEF PlannedChain
  <2>. QED  BY <2>2
<1>3. P \subseteq Int
  BY ProfilesAssumption
<1>4. K \in SUBSET (P \X Int) /\ K \in SUBSET (Int \X Int)
  BY <1>2, <1>3
<1>5. IsFiniteSet(K)
  <2>1. key \in Surjection(1 .. n, K)
    BY <1>2 DEF Surjection
  <2>2. IsFiniteSet(1 .. n)
    BY <1>1, FS_Interval
  <2>. HIDE DEF key, K
  <2>. QED  BY <2>1, <2>2, FS_Surjection
<1>6. BatchKeys(chains) = Lexical(K)
  BY DEF BatchKeys
<1>. HIDE DEF K, P
<1>7. /\ Lists(BatchKeys(chains), K)
      /\ \A a, b \in 1 .. Len(BatchKeys(chains)) :
            a < b => Before(BatchKeys(chains)[a], BatchKeys(chains)[b])
  BY <1>4, <1>5, <1>6, LexicalListsPairs
<1>8. BatchKeys(chains) \in Seq(P \X Int)
  BY <1>4, <1>7, SeqMonotonic DEF Lists
<1>9. DOMAIN BatchKeys(chains) = 1 .. Len(BatchKeys(chains))
  BY <1>8, LenProperties
<1>10. ASSUME NEW i \in DOMAIN chains
       PROVE  \E b \in DOMAIN BatchKeys(chains) :
                 BatchKeys(chains)[b] = <<chains[i].k, chains[i].settles>>
  <2>1. key[i] \in K /\ key[i] = <<chains[i].k, chains[i].settles>>
    BY <1>1, <1>2
  <2>. HIDE DEF key
  <2>2. \E b \in 1 .. Len(BatchKeys(chains)) : BatchKeys(chains)[b] = key[i]
    BY <1>7, <2>1 DEF Lists
  <2>. QED  BY <1>9, <2>1, <2>2
<1>11. ASSUME NEW b \in DOMAIN BatchKeys(chains)
       PROVE  \E i \in DOMAIN chains : BatchKeys(chains)[b] = <<chains[i].k, chains[i].settles>>
  <2>1. BatchKeys(chains)[b] \in K
    BY <1>7, ElementOfSeq, LenProperties DEF Lists
  <2>. QED  BY <1>1, <2>1 DEF K
<1>. QED  BY <1>7, <1>8, <1>9, <1>10, <1>11 DEF P

LEMMA RefundsAreListed ==
  ASSUME NEW chains \in Seq(PlannedChain)
  PROVE  Refunded(chains) \in Seq(DOMAIN chains)
<1>. DEFINE n == Len(chains)
            S == {i \in 1 .. Len(chains) : chains[i].refund > 0}
<1>1. n \in Nat /\ DOMAIN chains = 1 .. n
  BY LenProperties
<1>2. S \in SUBSET (1 .. n) /\ IsFiniteSet(1 .. n)
  BY <1>1, FS_Interval
<1>3. IsFiniteSet(S) /\ S \in SUBSET Int
  <2>1. S \in SUBSET Int
    BY <1>1, <1>2
  <2>. HIDE DEF S, n
  <2>. QED  BY <1>2, <2>1, FS_Subset
<1>4. Refunded(chains) = Ascending(S)
  BY DEF Refunded
<1>5. Refunded(chains) \in Seq(S)
  <2>. HIDE DEF S
  <2>. QED  BY <1>3, <1>4, AscendingLists DEF Lists
<1>. QED  BY <1>1, <1>2, <1>5, SeqMonotonic

(* The batch a line goes to: the first of the profile's that is settled on *)
(* or after a day.                                                         *)
BatchOf(keys, k, day) ==
    CHOOSE b \in DOMAIN keys :
        /\ keys[b][1] = k /\ keys[b][2] >= day
        /\ \A o \in 1 .. b - 1 : keys[o][1] # k \/ keys[o][2] < day

LEMMA BatchIsFound ==
  ASSUME NEW P, NEW keys \in Seq(P \X Int), NEW k, NEW day \in Int,
         NEW c \in DOMAIN keys, keys[c][1] = k, keys[c][2] >= day
  PROVE  /\ BatchOf(keys, k, day) \in DOMAIN keys
         /\ keys[BatchOf(keys, k, day)][1] = k
         /\ keys[BatchOf(keys, k, day)][2] >= day
<1>. DEFINE T == {b \in DOMAIN keys : keys[b][1] = k /\ keys[b][2] >= day}
<1>1. DOMAIN keys = 1 .. Len(keys) /\ Len(keys) \in Nat
  BY LenProperties
<1>2. T \in SUBSET Nat /\ c \in T
  BY <1>1
<1>3. PICK b \in T : \A o \in T : b =< o
  BY <1>2, LeastNumber
<1>4. ASSUME NEW o \in 1 .. b - 1
      PROVE  keys[o][1] # k \/ keys[o][2] < day
  <2>1. o \in DOMAIN keys /\ ~(b =< o)
    BY <1>1, <1>2, <1>3
  <2>2. keys[o] \in P \X Int
    BY <1>1, <2>1, ElementOfSeq
  <2>3. keys[o][2] \in Int
    BY <2>2
  <2>. QED  BY <1>3, <2>1, <2>3
<1>5. /\ b \in DOMAIN keys /\ keys[b][1] = k /\ keys[b][2] >= day
      /\ \A o \in 1 .. b - 1 : keys[o][1] # k \/ keys[o][2] < day
  BY <1>3, <1>4
<1>. QED  BY <1>5 DEF BatchOf

(* How the tables of a data set hang together: a payment has a chain and a *)
(* line, a line has its payment and its batch, and settles when that does; *)
(* no ledger row is dated after everything has settled; and a batch keeps  *)
(* the UTR it was given.                                                   *)
Wired(r) ==
    /\ Len(r.chains) = Len(r.payments)
    /\ \A l \in DOMAIN r.lines :
          /\ r.lines[l].payment \in DOMAIN r.payments /\ r.lines[l].batch \in DOMAIN r.batches
          /\ r.lines[l].settled = r.batches[r.lines[l].batch].settled
    /\ \A p \in DOMAIN r.payments : \E l \in DOMAIN r.lines :
          r.lines[l].type = "PAYMENT" /\ r.lines[l].payment = p
    /\ \A i \in DOMAIN r.ledger : \E l \in DOMAIN r.lines :
          r.ledger[i].date =< r.lines[l].settled
    /\ \A b \in DOMAIN r.batches : r.batches[b].utr = UtrOf[b]

(* The ledger before any row of it is repeated. *)
Plain(r) ==
    /\ Len(r.ledger) = Len(r.chains)
    /\ \A i \in DOMAIN r.ledger : r.ledger[i].order = i

(* A payment settles on one line, until it is split. *)
SingleLines(r) ==
    \A k, l \in DOMAIN r.lines :
        r.lines[k].type = "PAYMENT" /\ r.lines[l].type = "PAYMENT"
          /\ r.lines[k].payment = r.lines[l].payment => k = l

(* Every batch has its credit, of its total. *)
PaidOut(r) ==
    /\ DOMAIN r.bank = DOMAIN r.batches
    /\ \A c \in DOMAIN r.bank : r.bank[c].amount = r.batches[c].net

PaymentPart(chains, i) ==
    LET keys == BatchKeys(chains)
        b == BatchOf(keys, chains[i].k, chains[i].settles)
    IN  [type |-> "PAYMENT", payment |-> i, refund |-> 0, batch |-> b,
         gross |-> chains[i].priced.gross, fee |-> chains[i].priced.fee,
         tax |-> chains[i].priced.tax, net |-> chains[i].priced.net, settled |-> keys[b][2]]

RefundPart(chains, r) ==
    LET keys == BatchKeys(chains)
        i == Refunded(chains)[r]
        b == BatchOf(keys, chains[i].k, chains[i].refundSettles)
    IN  [type |-> "REFUND", payment |-> i, refund |-> r, batch |-> b,
         gross |-> 0, fee |-> 0, tax |-> 0, net |-> -chains[i].refund, settled |-> keys[b][2]]

LEMMA PartsAreLines ==
  ASSUME NEW chains \in Seq(PlannedChain), Refundable(chains), Prompt(chains)
  PROVE  /\ \A i \in DOMAIN chains :
               /\ PaymentPart(chains, i) \in LineRow
               /\ PaymentPart(chains, i).batch \in DOMAIN BatchKeys(chains)
               /\ PaymentPart(chains, i).settled = BatchKeys(chains)[PaymentPart(chains, i).batch][2]
               /\ PaymentPart(chains, i).type = "PAYMENT" /\ PaymentPart(chains, i).payment = i
               /\ chains[i].date =< PaymentPart(chains, i).settled
         /\ \A r \in DOMAIN Refunded(chains) :
               /\ RefundPart(chains, r) \in LineRow
               /\ RefundPart(chains, r).batch \in DOMAIN BatchKeys(chains)
               /\ RefundPart(chains, r).settled = BatchKeys(chains)[RefundPart(chains, r).batch][2]
               /\ RefundPart(chains, r).payment \in DOMAIN chains
               /\ RefundPart(chains, r).type = "REFUND"
<1>. DEFINE keys == BatchKeys(chains)
            P == DOMAIN ProfileOrder
            refunded == Refunded(chains)
<1>1. DOMAIN chains = 1 .. Len(chains) /\ Len(chains) \in Nat
  BY LenProperties
<1>2. /\ keys \in Seq(P \X Int)
      /\ \A i \in DOMAIN chains : \E b \in DOMAIN keys :
            keys[b] = <<chains[i].k, chains[i].settles>>
  BY KeysAreListed
<1>3. refunded \in Seq(DOMAIN chains)
  BY RefundsAreListed
<1>. HIDE DEF keys, refunded, P
<1>4. DOMAIN keys = 1 .. Len(keys) /\ Len(keys) \in Nat
  BY <1>2, LenProperties
<1>5. ASSUME NEW b \in DOMAIN keys
      PROVE  keys[b][2] \in Int /\ b \in Nat \ {0}
  <2>1. keys[b] \in P \X Int
    BY <1>2, <1>4, <1>5, ElementOfSeq
  <2>. QED  BY <1>4, <1>5, <2>1
<1>6. ASSUME NEW i \in DOMAIN chains
      PROVE  /\ chains[i] \in PlannedChain
             /\ chains[i].settles \in Int /\ chains[i].refundSettles \in Int
             /\ chains[i].refund \in Nat /\ chains[i].priced \in Prices
             /\ chains[i].date \in Int /\ i \in Nat \ {0}
  <2>1. chains[i] \in PlannedChain
    BY <1>1, <1>6, ElementOfSeq
  <2>. QED  BY <1>1, <1>6, <2>1 DEF PlannedChain
<1>7. ASSUME NEW i \in DOMAIN chains
      PROVE  /\ PaymentPart(chains, i) \in LineRow
             /\ PaymentPart(chains, i).batch \in DOMAIN keys
             /\ PaymentPart(chains, i).settled = keys[PaymentPart(chains, i).batch][2]
             /\ PaymentPart(chains, i).type = "PAYMENT" /\ PaymentPart(chains, i).payment = i
             /\ chains[i].date =< PaymentPart(chains, i).settled
  <2>. DEFINE b == BatchOf(keys, chains[i].k, chains[i].settles)
  <2>1. PICK c \in DOMAIN keys : keys[c] = <<chains[i].k, chains[i].settles>>
    BY <1>2
  <2>2. keys[c][1] = chains[i].k /\ keys[c][2] = chains[i].settles
    BY <2>1
  <2>3. keys[c][2] >= chains[i].settles
    BY <1>6, <2>2
  <2>4. b \in DOMAIN keys /\ keys[b][2] >= chains[i].settles
    BY <1>2, <1>6, <2>2, <2>3, BatchIsFound
  <2>. HIDE DEF b
  <2>5. keys[b][2] \in Int /\ b \in Nat \ {0}
    BY <1>5, <2>4
  <2>6. PaymentPart(chains, i) =
          [type |-> "PAYMENT", payment |-> i, refund |-> 0, batch |-> b,
           gross |-> chains[i].priced.gross, fee |-> chains[i].priced.fee,
           tax |-> chains[i].priced.tax, net |-> chains[i].priced.net, settled |-> keys[b][2]]
    BY DEF PaymentPart, keys, b
  <2>7. /\ chains[i].priced.gross \in Int /\ chains[i].priced.fee \in Int
        /\ chains[i].priced.tax \in Int /\ chains[i].priced.net \in Int
    BY <1>6 DEF Prices
  <2>8. PaymentPart(chains, i) \in LineRow
    BY <1>6, <2>5, <2>6, <2>7 DEF LineRow
  <2>9. chains[i].date =< keys[b][2]
    <3>1. chains[i].date =< chains[i].settles
      BY DEF Prompt
    <3>. QED  BY <1>6, <2>4, <2>5, <3>1
  <2>. QED  BY <2>4, <2>6, <2>8, <2>9
<1>8. ASSUME NEW r \in DOMAIN refunded
      PROVE  /\ RefundPart(chains, r) \in LineRow
             /\ RefundPart(chains, r).batch \in DOMAIN keys
             /\ RefundPart(chains, r).settled = keys[RefundPart(chains, r).batch][2]
             /\ RefundPart(chains, r).payment \in DOMAIN chains
             /\ RefundPart(chains, r).type = "REFUND"
  <2>. DEFINE i == refunded[r]
              b == BatchOf(keys, chains[i].k, chains[i].refundSettles)
  <2>1. r \in Nat \ {0} /\ i \in DOMAIN chains
    <3>1. DOMAIN refunded = 1 .. Len(refunded) /\ Len(refunded) \in Nat
      BY <1>3, LenProperties
    <3>2. refunded[r] \in DOMAIN chains
      BY <1>3, <3>1, ElementOfSeq
    <3>. QED  BY <3>1, <3>2
  <2>. HIDE DEF i
  <2>2. PICK j \in DOMAIN chains :
          chains[j].k = chains[i].k /\ chains[j].settles >= chains[i].refundSettles
    BY <2>1 DEF Refundable
  <2>3. PICK c \in DOMAIN keys : keys[c] = <<chains[j].k, chains[j].settles>>
    BY <1>2
  <2>4. keys[c][1] = chains[i].k /\ keys[c][2] >= chains[i].refundSettles
    BY <2>2, <2>3
  <2>5. b \in DOMAIN keys
    BY <1>2, <1>6, <2>1, <2>4, BatchIsFound
  <2>. HIDE DEF b
  <2>6. keys[b][2] \in Int /\ b \in Nat \ {0}
    BY <1>5, <2>5
  <2>7. RefundPart(chains, r) =
          [type |-> "REFUND", payment |-> i, refund |-> r, batch |-> b,
           gross |-> 0, fee |-> 0, tax |-> 0, net |-> -chains[i].refund, settled |-> keys[b][2]]
    BY DEF RefundPart, keys, refunded, b, i
  <2>8. -chains[i].refund \in Int /\ i \in Nat \ {0}
    BY <1>6, <2>1
  <2>9. RefundPart(chains, r) \in LineRow
    BY <2>1, <2>6, <2>7, <2>8 DEF LineRow
  <2>. QED  BY <2>1, <2>5, <2>7, <2>9
<1>. QED  BY <1>7, <1>8 DEF keys, refunded

LEMMA LinesAreParts ==
  ASSUME NEW chains \in Seq(PlannedChain), Refundable(chains), Prompt(chains)
  PROVE  /\ AssembledLines(chains) \in Seq(LineRow)
         /\ \A i \in DOMAIN chains :
               i \in DOMAIN AssembledLines(chains)
                 /\ AssembledLines(chains)[i] = PaymentPart(chains, i)
         /\ \A l \in DOMAIN AssembledLines(chains) :
               /\ AssembledLines(chains)[l].payment \in DOMAIN chains
               /\ AssembledLines(chains)[l].batch \in DOMAIN BatchKeys(chains)
               /\ AssembledLines(chains)[l].settled
                    = BatchKeys(chains)[AssembledLines(chains)[l].batch][2]
               /\ AssembledLines(chains)[l].type = "PAYMENT"
                    => AssembledLines(chains)[l].payment = l
<1>. DEFINE n == Len(chains)
            m == Len(Refunded(chains))
            paid == [i \in 1 .. n |-> PaymentPart(chains, i)]
            back == [r \in 1 .. m |-> RefundPart(chains, r)]
            lines == AssembledLines(chains)
            keys == BatchKeys(chains)
            Good(line) == /\ line \in LineRow
                          /\ line.payment \in DOMAIN chains
                          /\ line.batch \in DOMAIN keys
                          /\ line.settled = keys[line.batch][2]
<1>1. n \in Nat /\ m \in Nat /\ DOMAIN chains = 1 .. n /\ DOMAIN Refunded(chains) = 1 .. m
  BY RefundsAreListed, LenProperties
<1>2. lines = paid \o back
  BY DEF AssembledLines, PaymentPart, RefundPart, BatchOf
<1>3. /\ \A i \in 1 .. n : Good(PaymentPart(chains, i))
      /\ \A r \in 1 .. m : Good(RefundPart(chains, r))
  BY <1>1, PartsAreLines
<1>4. paid \in Seq(LineRow) /\ Len(paid) = n
  <2>1. paid \in [1 .. n -> LineRow]
    BY <1>3
  <2>. HIDE DEF paid, n
  <2>. QED  BY <1>1, <2>1, SeqOf
<1>5. back \in Seq(LineRow) /\ Len(back) = m
  <2>1. back \in [1 .. m -> LineRow]
    BY <1>3
  <2>. HIDE DEF back, m
  <2>. QED  BY <1>1, <2>1, SeqOf
<1>. HIDE DEF lines, n, m, Good
<1>6. /\ lines \in Seq(LineRow) /\ Len(lines) = n + m
      /\ \A l \in 1 .. n + m : lines[l] = IF l =< n THEN paid[l] ELSE back[l - n]
  <2>. HIDE DEF paid, back
  <2>. QED  BY <1>2, <1>4, <1>5, ConcatProperties
<1>7. DOMAIN lines = 1 .. n + m
  BY <1>6, LenProperties
<1>8. ASSUME NEW i \in 1 .. n
      PROVE  i \in DOMAIN lines /\ lines[i] = PaymentPart(chains, i)
  <2>1. i \in 1 .. n + m /\ i =< n
    BY <1>1
  <2>. QED  BY <1>6, <1>7, <2>1
<1>9. ASSUME NEW l \in DOMAIN lines
      PROVE  Good(lines[l]) /\ (lines[l].type = "PAYMENT" => lines[l].payment = l)
  <2>1. l \in 1 .. n + m /\ lines[l] = IF l =< n THEN paid[l] ELSE back[l - n]
    BY <1>6, <1>7
  <2>2. CASE l =< n
    <3>1. l \in 1 .. n
      BY <1>1, <2>1, <2>2
    <3>2. PaymentPart(chains, l).payment = l
      BY <1>1, <3>1, PartsAreLines
    <3>3. lines[l] = PaymentPart(chains, l)
      BY <2>1, <2>2, <3>1
    <3>. QED  BY <1>3, <3>1, <3>2, <3>3
  <2>3. CASE ~(l =< n)
    <3>1. l - n \in 1 .. m
      BY <1>1, <2>1, <2>3
    <3>2. lines[l] = RefundPart(chains, l - n)
      BY <2>1, <2>3, <3>1
    <3>3. lines[l].type = "REFUND"
      BY <1>1, <3>1, <3>2, PartsAreLines
    <3>. QED  BY <1>3, <3>1, <3>2, <3>3
  <2>. QED  BY <2>2, <2>3
<1>. QED  BY <1>1, <1>6, <1>8, <1>9 DEF lines, Good, keys

(* assemble_batches: rows of every kind, hung together, one batch to a     *)
(* profile and day and one credit to a batch.                              *)
LEMMA AssembledIsSound ==
  ASSUME NEW chains \in Seq(PlannedChain), Refundable(chains), Prompt(chains), CyclesAreShort
  PROVE  /\ Assemble(chains) \in RowTables
         /\ Wired(Assemble(chains)) /\ Plain(Assemble(chains)) /\ PaidOut(Assemble(chains))
         /\ SingleLines(Assemble(chains))
<1>. DEFINE n == Len(chains)
            refunded == Refunded(chains)
            m == Len(refunded)
            keys == BatchKeys(chains)
            k == Len(keys)
            lines == AssembledLines(chains)
            net == [b \in DOMAIN keys |->
                      SumOf(lines, {l \in DOMAIN lines : lines[l].batch = b}, "net")]
            ledger == [i \in 1 .. n |-> [order |-> i, customer |-> chains[i].customer,
                          gross |-> chains[i].priced.gross, invoice |-> i,
                          date |-> chains[i].date]]
            payments == [i \in 1 .. n |-> [order |-> i, method |-> chains[i].method,
                          authorized |-> chains[i].priced.gross,
                          captured |-> chains[i].priced.gross, capturedAt |-> chains[i].date]]
            refunds == [r \in DOMAIN refunded |-> [payment |-> refunded[r],
                          amount |-> chains[refunded[r]].refund,
                          created |-> chains[refunded[r]].refundDate]]
            batches == [b \in DOMAIN keys |-> [utr |-> UtrOf[b], net |-> net[b],
                          settled |-> keys[b][2]]]
            bank == [b \in DOMAIN keys |-> [direction |-> "CREDIT", amount |-> net[b],
                          valueDate |-> BankValueDue(keys[b][2], ProfileOrder[keys[b][1]]),
                          token |-> [kind |-> "PREFIX", of |-> UtrOf[b], kept |-> UtrLength]]]
            remembered == [i \in 1 .. n |-> [profile |-> chains[i].profile, day |-> chains[i].day,
                          captured |-> chains[i].priced.gross, fee |-> chains[i].priced.fee,
                          tax |-> chains[i].priced.tax, net |-> chains[i].priced.net,
                          refund |-> chains[i].refund]]
            a == Assemble(chains)
<1>1. a = [ledger |-> ledger, payments |-> payments, refunds |-> refunds, lines |-> lines,
           batches |-> batches, bank |-> bank, chains |-> remembered]
  BY DEF Assemble
<1>2. n \in Nat /\ DOMAIN chains = 1 .. n
  BY LenProperties
<1>3. refunded \in Seq(DOMAIN chains) /\ m \in Nat /\ DOMAIN refunded = 1 .. m
  BY RefundsAreListed, LenProperties
<1>4. keys \in Seq((DOMAIN ProfileOrder) \X Int) /\ k \in Nat /\ DOMAIN keys = 1 .. k
  BY KeysAreListed, LenProperties
<1>5. /\ lines \in Seq(LineRow)
      /\ \A i \in DOMAIN chains : i \in DOMAIN lines /\ lines[i] = PaymentPart(chains, i)
      /\ \A l \in DOMAIN lines :
            /\ lines[l].payment \in DOMAIN chains /\ lines[l].batch \in DOMAIN keys
            /\ lines[l].settled = keys[lines[l].batch][2]
            /\ lines[l].type = "PAYMENT" => lines[l].payment = l
  BY LinesAreParts
<1>6. ASSUME NEW i \in 1 .. n
      PROVE  /\ chains[i] \in PlannedChain /\ chains[i].priced \in Prices
             /\ chains[i].customer \in DOMAIN CustomerProfile /\ chains[i].method \in Methods
             /\ chains[i].date \in Int /\ chains[i].refund \in Int
             /\ chains[i].refundDate \in Int /\ chains[i].profile \in Profiles
             /\ chains[i].day \in Nat \ {0}
             /\ chains[i].priced.gross \in Int /\ chains[i].priced.fee \in Int
             /\ chains[i].priced.tax \in Int /\ chains[i].priced.net \in Int
             /\ i \in Nat \ {0}
  <2>1. chains[i] \in PlannedChain
    BY <1>2, <1>6, ElementOfSeq
  <2>2. chains[i].priced \in Prices /\ chains[i].refund \in Nat
    BY <2>1 DEF PlannedChain
  <2>3. /\ chains[i].priced.gross \in Int /\ chains[i].priced.fee \in Int
        /\ chains[i].priced.tax \in Int /\ chains[i].priced.net \in Int
    BY <2>2 DEF Prices
  <2>. QED  BY <1>2, <1>6, <2>1, <2>2, <2>3 DEF PlannedChain
<1>7. ASSUME NEW b \in 1 .. k
      PROVE  /\ net[b] \in Int /\ keys[b][2] \in Int /\ b \in Nat \ {0} /\ b \in Nat
             /\ ProfileOrder[keys[b][1]] \in Profiles
             /\ BankValueDue(keys[b][2], ProfileOrder[keys[b][1]]) \in Int
  <2>. DEFINE ids == {l \in DOMAIN lines : lines[l].batch = b}
  <2>1. keys[b] \in (DOMAIN ProfileOrder) \X Int
    BY <1>4, <1>7, ElementOfSeq
  <2>2. keys[b][1] \in DOMAIN ProfileOrder /\ keys[b][2] \in Int
    BY <2>1
  <2>3. ProfileOrder[keys[b][1]] \in Profiles
    BY <2>2, ProfilesAssumption
  <2>4. SettlementCycle[ProfileOrder[keys[b][1]]] \in 0 .. 4
    <3>1. SettlementCycle \in [Profiles -> Nat \ {0}]
      BY ConfigAssumption DEF ValidConfig, ValidCalendar
    <3>. QED  BY <2>3, <3>1 DEF CyclesAreShort
  <2>5. BankValueDue(keys[b][2], ProfileOrder[keys[b][1]]) \in Int
    BY <2>2, <2>4, SettlementWalkTerminates, ConfigAssumption DEF BankValueDue, ValidConfig
  <2>6. IsFiniteSet(ids) /\ \A l \in ids : lines[l]["net"] \in Int
    <3>. HIDE DEF lines
    <3>1. DOMAIN lines = 1 .. Len(lines) /\ Len(lines) \in Nat
      BY <1>5, LenProperties
    <3>2. IsFiniteSet(DOMAIN lines)
      BY <3>1, FS_Interval
    <3>3. ids \in SUBSET DOMAIN lines
      OBVIOUS
    <3>4. \A l \in DOMAIN lines : lines[l] \in LineRow
      BY <1>5, <3>1, ElementOfSeq
    <3>. HIDE DEF ids
    <3>5. IsFiniteSet(ids)
      BY <3>2, <3>3, FS_Subset
    <3>. QED  BY <3>3, <3>4, <3>5 DEF LineRow
  <2>7. SumOf(lines, ids, "net") \in Int
    <3>. HIDE DEF lines, ids
    <3>. QED  BY <2>6, SumIsAmount
  <2>8. net[b] = SumOf(lines, ids, "net")
    <3>. HIDE DEF lines, keys, k
    <3>. QED  BY <1>4, <1>7
  <2>. HIDE DEF net
  <2>. QED  BY <1>4, <1>7, <2>2, <2>3, <2>5, <2>7, <2>8
<1>. HIDE DEF n, m, k, keys, lines, refunded, net
<1>8. ledger \in Seq(LedgerEntry) /\ Len(ledger) = n
  <2>1. ledger \in [1 .. n -> LedgerEntry]
    BY <1>6 DEF LedgerEntry
  <2>. HIDE DEF ledger
  <2>. QED  BY <1>2, <2>1, SeqOf
<1>9. payments \in Seq(PaymentRow) /\ Len(payments) = n
  <2>1. payments \in [1 .. n -> PaymentRow]
    BY <1>6 DEF PaymentRow
  <2>. HIDE DEF payments
  <2>. QED  BY <1>2, <2>1, SeqOf
<1>10. refunds \in Seq(RefundRow) /\ Len(refunds) = m
  <2>1. ASSUME NEW r \in 1 .. m
        PROVE  refunded[r] \in 1 .. n
    <3>1. refunded[r] \in DOMAIN chains
      BY <1>3, <2>1, ElementOfSeq DEF m
    <3>. QED  BY <1>2, <3>1
  <2>2. refunds \in [1 .. m -> RefundRow]
    <3>1. ASSUME NEW r \in 1 .. m
          PROVE  [payment |-> refunded[r], amount |-> chains[refunded[r]].refund,
                  created |-> chains[refunded[r]].refundDate] \in RefundRow
      BY <1>6, <2>1 DEF RefundRow
    <3>. QED  BY <1>3, <3>1
  <2>. HIDE DEF refunds
  <2>. QED  BY <1>3, <2>2, SeqOf
<1>11. batches \in Seq(BatchRow) /\ Len(batches) = k
  <2>1. ASSUME NEW b \in 1 .. k
        PROVE  [utr |-> UtrOf[b], net |-> net[b], settled |-> keys[b][2]] \in BatchRow
    BY <1>7 DEF BatchRow, UtrsUsed
  <2>2. batches \in [1 .. k -> BatchRow]
    BY <1>4, <2>1
  <2>. HIDE DEF batches
  <2>. QED  BY <1>4, <2>2, SeqOf
<1>12. bank \in BankTables /\ DOMAIN bank = 1 .. k
  <2>1. ASSUME NEW b \in 1 .. k
        PROVE  [direction |-> "CREDIT", amount |-> net[b],
                valueDate |-> BankValueDue(keys[b][2], ProfileOrder[keys[b][1]]),
                token |-> [kind |-> "PREFIX", of |-> UtrOf[b], kept |-> UtrLength]] \in BankRow
    <3>1. [kind |-> "PREFIX", of |-> UtrOf[b], kept |-> UtrLength] \in TokensUsed
      BY <1>7 DEF TokensUsed, UtrsUsed, UtrLength
    <3>. QED  BY <1>7, <3>1 DEF BankRow
  <2>2. bank \in [1 .. k -> BankRow]
    BY <1>4, <2>1
  <2>3. 1 .. k \in SUBSET (Nat \ {0})
    BY <1>4
  <2>. HIDE DEF bank
  <2>. QED  BY <2>2, <2>3 DEF BankTables
<1>13. remembered \in Seq(ChainRow) /\ Len(remembered) = n
  <2>1. remembered \in [1 .. n -> ChainRow]
    BY <1>6 DEF ChainRow
  <2>. HIDE DEF remembered
  <2>. QED  BY <1>2, <2>1, SeqOf
<1>14. /\ DOMAIN ledger = 1 .. n /\ DOMAIN payments = 1 .. n /\ DOMAIN batches = 1 .. k
       /\ \A i \in 1 .. n : ledger[i].order = i /\ ledger[i].date = chains[i].date
       /\ \A b \in 1 .. k : batches[b].settled = keys[b][2] /\ batches[b].net = net[b]
       /\ \A b \in 1 .. k : batches[b].utr = UtrOf[b]
       /\ \A b \in 1 .. k : bank[b].amount = net[b]
  BY <1>4
<1>. HIDE DEF ledger, payments, refunds, batches, bank, remembered
<1>15. a \in RowTables
  BY <1>1, <1>5, <1>8, <1>9, <1>10, <1>11, <1>12, <1>13 DEF RowTables
<1>16. /\ a.ledger = ledger /\ a.payments = payments /\ a.lines = lines
       /\ a.batches = batches /\ a.bank = bank /\ a.chains = remembered
  BY <1>1
<1>. HIDE DEF a
<1>17. Wired(a)
  <2>1. Len(a.chains) = Len(a.payments)
    BY <1>9, <1>13, <1>16
  <2>2. ASSUME NEW l \in DOMAIN lines
        PROVE  /\ lines[l].payment \in DOMAIN payments /\ lines[l].batch \in DOMAIN batches
               /\ lines[l].settled = batches[lines[l].batch].settled
    BY <1>2, <1>4, <1>5, <1>14
  <2>3. ASSUME NEW p \in 1 .. n
        PROVE  /\ p \in DOMAIN lines
               /\ lines[p].type = "PAYMENT" /\ lines[p].payment = p
               /\ ledger[p].date =< lines[p].settled
    <3>1. p \in DOMAIN lines /\ lines[p] = PaymentPart(chains, p)
      BY <1>2, <1>5
    <3>2. /\ PaymentPart(chains, p).type = "PAYMENT" /\ PaymentPart(chains, p).payment = p
          /\ chains[p].date =< PaymentPart(chains, p).settled
      BY <1>2, PartsAreLines
    <3>. QED  BY <1>14, <3>1, <3>2
  <2>4. /\ \A p \in DOMAIN payments : \E l \in DOMAIN lines :
              lines[l].type = "PAYMENT" /\ lines[l].payment = p
        /\ \A i \in DOMAIN ledger : \E l \in DOMAIN lines : ledger[i].date =< lines[l].settled
    BY <1>14, <2>3
  <2>. QED  BY <1>14, <1>16, <2>1, <2>2, <2>4 DEF Wired
<1>18. Plain(a)
  BY <1>8, <1>13, <1>14, <1>16 DEF Plain
<1>19. PaidOut(a)
  BY <1>12, <1>14, <1>16 DEF PaidOut
<1>20. SingleLines(a)
  BY <1>5, <1>16 DEF SingleLines
<1>. QED  BY <1>15, <1>17, <1>18, <1>19, <1>20 DEF a

-----------------------------------------------------------------------------
(* An order has one ledger row, or two that are the same.                  *)
TwiceAtMost(r) ==
    /\ \A i, j \in DOMAIN r.ledger :
          r.ledger[i].order = r.ledger[j].order => r.ledger[i] = r.ledger[j]
    /\ \A i, j, k \in DOMAIN r.ledger :
          i < j /\ j < k /\ r.ledger[i].order = r.ledger[j].order
            => r.ledger[j].order # r.ledger[k].order

(* Amounts that were rendered are the totals of their batches, and rows    *)
(* that are late are rows, or were.                                        *)
Rendered(r, amounts) ==
    \A c \in DOMAIN amounts :
        c \in DOMAIN r.batches /\ amounts[c] = r.batches[c].net

Late(r, days) ==
    \A at \in DOMAIN days :
        /\ days[at] \in 1 .. 2
        /\ \/ \E l \in DOMAIN r.lines : at = <<"lines", l>>
           \/ \E c \in DOMAIN r.batches : at = <<"bank", c>>
           \/ \E f \in DOMAIN r.refunds : at = <<"refunds", f>>

(* What main keeps is sound at every step: more so until an injector has   *)
(* undone it.                                                              *)
Orderly == {"BUILD", "VERIFY", "partial_captures", "duplicate_ledger_rows"}
Single == Orderly \union {"delayed_settlement", "split_settlement"}
Punctual ==
    Orderly \union {"delayed_settlement", "split_settlement", "truncate_utr", "drop_utr",
                    "garbled_narration", "mixed_amount_formats", "out_of_order_arrival"}
Settling == Punctual \union {"unexplainable"}

GeneratorInv ==
    /\ stage \in Stages
    /\ stage # "IDLE" => call \in Calls
    /\ rows \in RowTables /\ Wired(rows) /\ TwiceAtMost(rows)
    /\ notes \in SUBSET NoteTypes
    /\ Rendered(rows, texts) /\ Late(rows, lags)
    /\ stage \in Orderly => Plain(rows)
    /\ stage \in Single => SingleLines(rows)
    /\ stage \in Settling => PaidOut(rows)
    /\ stage \in Punctual => lags = <<>>
    /\ stage \in Punctual \ {"out_of_order_arrival"} => texts = <<>>

LEMMA NamesInOrder ==
  /\ NoiseOrder[1] = "partial_captures" /\ NoiseOrder[2] = "duplicate_ledger_rows"
  /\ NoiseOrder[3] = "delayed_settlement" /\ NoiseOrder[4] = "split_settlement"
  /\ NoiseOrder[5] = "truncate_utr" /\ NoiseOrder[6] = "drop_utr"
  /\ NoiseOrder[7] = "garbled_narration" /\ NoiseOrder[8] = "mixed_amount_formats"
  /\ NoiseOrder[9] = "out_of_order_arrival" /\ NoiseOrder[10] = "unexplainable"
  /\ NoiseOrder[11] = "rounding_residual" /\ NoiseOrder[12] = "TRUTH"
  /\ Len(NoiseOrder) = 12 /\ DOMAIN NoiseOrder = 1 .. 12
BY DEF NoiseOrder

LEMMA NextInOrder ==
  ASSUME NEW k \in 1 .. 11
  PROVE  Following(NoiseOrder[k]) = NoiseOrder[k + 1]
<1>1. \A i, j \in 1 .. 11 : NoiseOrder[i] = NoiseOrder[j] => i = j
  BY DEF NoiseOrder
<1>2. Len(NoiseOrder) - 1 = 11
  BY NamesInOrder
<1>. DEFINE at == CHOOSE i \in 1 .. Len(NoiseOrder) - 1 : NoiseOrder[i] = NoiseOrder[k]
<1>3. at = k
  BY <1>1, <1>2
<1>4. Following(NoiseOrder[k]) = NoiseOrder[1 + at]
  BY DEF Following
<1>. HIDE DEF at
<1>. QED  BY <1>3, <1>4

LEMMA FollowingIs ==
  /\ Following("partial_captures") = "duplicate_ledger_rows"
  /\ Following("duplicate_ledger_rows") = "delayed_settlement"
  /\ Following("delayed_settlement") = "split_settlement"
  /\ Following("split_settlement") = "truncate_utr"
  /\ Following("truncate_utr") = "drop_utr"
  /\ Following("drop_utr") = "garbled_narration"
  /\ Following("garbled_narration") = "mixed_amount_formats"
  /\ Following("mixed_amount_formats") = "out_of_order_arrival"
  /\ Following("out_of_order_arrival") = "unexplainable"
  /\ Following("unexplainable") = "rounding_residual"
  /\ Following("rounding_residual") = "TRUTH"
<1>1. \A k \in 1 .. 11 : Following(NoiseOrder[k]) = NoiseOrder[k + 1]
  BY NextInOrder
<1>2. /\ Following(NoiseOrder[1]) = NoiseOrder[1 + 1] /\ Following(NoiseOrder[2]) = NoiseOrder[2 + 1]
      /\ Following(NoiseOrder[3]) = NoiseOrder[3 + 1] /\ Following(NoiseOrder[4]) = NoiseOrder[4 + 1]
      /\ Following(NoiseOrder[5]) = NoiseOrder[5 + 1] /\ Following(NoiseOrder[6]) = NoiseOrder[6 + 1]
      /\ Following(NoiseOrder[7]) = NoiseOrder[7 + 1] /\ Following(NoiseOrder[8]) = NoiseOrder[8 + 1]
      /\ Following(NoiseOrder[9]) = NoiseOrder[9 + 1]
      /\ Following(NoiseOrder[10]) = NoiseOrder[10 + 1]
      /\ Following(NoiseOrder[11]) = NoiseOrder[11 + 1]
  BY <1>1
<1>. QED  BY <1>2, NamesInOrder

(* SkipWithheld leaves everything as it is. *)
LEMMA SkipKeeps ==
  ASSUME GeneratorInv, SkipWithheld
  PROVE  GeneratorInv'
<1>1. stage \in {"split_settlement", "garbled_narration"} /\ stage' = Following(stage)
  BY DEF SkipWithheld
<1>2. stage' \in {"truncate_utr", "mixed_amount_formats"}
  BY <1>1, FollowingIs
<1>3. UNCHANGED <<call, rows, notes, lags, texts>>
  BY DEF SkipWithheld
<1>4. stage' \in Stages
  BY <1>2, NamesInOrder DEF Stages
<1>. QED  BY <1>1, <1>2, <1>3, <1>4 DEF GeneratorInv, Orderly, Single, Punctual, Settling

(* Totals follow the lines and credits the totals; nothing else changes.   *)
LEMMA ResummedIsSound ==
  ASSUME NEW r \in RowTables, Wired(r)
  PROVE  /\ Resummed(r) \in RowTables /\ Wired(Resummed(r))
         /\ Resummed(r).ledger = r.ledger /\ Resummed(r).chains = r.chains
         /\ Resummed(r).lines = r.lines
         /\ DOMAIN r.bank = DOMAIN r.batches => PaidOut(Resummed(r))
<1>. DEFINE ids(b) == {l \in DOMAIN r.lines : r.lines[l].batch = b}
            total == [b \in DOMAIN r.batches |-> SumOf(r.lines, ids(b), "net")]
            batches == [b \in DOMAIN r.batches |-> [r.batches[b] EXCEPT !.net = total[b]]]
            bank == [c \in DOMAIN r.bank |-> IF c \in DOMAIN total
                        THEN [r.bank[c] EXCEPT !.amount = total[c]] ELSE r.bank[c]]
            s == Resummed(r)
            k == Len(r.batches)
<1>1. /\ r.lines \in Seq(LineRow) /\ r.batches \in Seq(BatchRow) /\ r.bank \in BankTables
      /\ DOMAIN r = {"ledger", "payments", "refunds", "lines", "batches", "bank", "chains"}
  BY DEF RowTables
<1>2. k \in Nat /\ DOMAIN r.batches = 1 .. k
  BY <1>1, LenProperties
<1>3. s = [r EXCEPT !.batches = batches, !.bank = bank]
  BY DEF Resummed
<1>4. ASSUME NEW b \in DOMAIN r.batches
      PROVE  total[b] \in Int
  <2>1. DOMAIN r.lines = 1 .. Len(r.lines) /\ Len(r.lines) \in Nat
    BY <1>1, LenProperties
  <2>2. IsFiniteSet(DOMAIN r.lines) /\ ids(b) \in SUBSET DOMAIN r.lines
    BY <2>1, FS_Interval
  <2>3. \A l \in DOMAIN r.lines : r.lines[l] \in LineRow
    BY <1>1, <2>1, ElementOfSeq
  <2>4. \A l \in ids(b) : r.lines[l]["net"] \in Int
    BY <2>3 DEF LineRow
  <2>5. IsFiniteSet(ids(b))
    <3>. DEFINE here == ids(b)
    <3>1. here \in SUBSET DOMAIN r.lines
      BY <2>2
    <3>. HIDE DEF here
    <3>2. IsFiniteSet(here)
      BY <2>2, <3>1, FS_Subset
    <3>. QED  BY <3>2 DEF here
  <2>6. total[b] = SumOf(r.lines, ids(b), "net")
    OBVIOUS
  <2>7. SumOf(r.lines, ids(b), "net") \in Int
    <3>. HIDE DEF ids
    <3>. QED  BY <2>4, <2>5, SumIsAmount
  <2>. QED  BY <2>6, <2>7
<1>. HIDE DEF total
<1>5. DOMAIN total = DOMAIN r.batches
  BY DEF total
<1>6. batches \in Seq(BatchRow) /\ DOMAIN batches = 1 .. k
  <2>1. ASSUME NEW b \in 1 .. k
        PROVE  [r.batches[b] EXCEPT !.net = total[b]] \in BatchRow
    <3>1. r.batches[b] \in BatchRow
      BY <1>1, <2>1, ElementOfSeq
    <3>. QED  BY <1>2, <1>4, <3>1 DEF BatchRow
  <2>2. batches \in [1 .. k -> BatchRow]
    BY <1>2, <2>1
  <2>. HIDE DEF batches
  <2>. QED  BY <1>2, <2>2, SeqOf
<1>7. ASSUME NEW b \in 1 .. k
      PROVE  /\ batches[b].settled = r.batches[b].settled /\ batches[b].net = total[b]
             /\ batches[b].utr = r.batches[b].utr
  <2>1. r.batches[b] \in BatchRow
    BY <1>1, <1>7, ElementOfSeq
  <2>. QED  BY <1>2, <2>1 DEF BatchRow
<1>8. bank \in BankTables /\ DOMAIN bank = DOMAIN r.bank
  <2>1. PICK D \in SUBSET (Nat \ {0}) : r.bank \in [D -> BankRow]
    BY <1>1 DEF BankTables
  <2>2. ASSUME NEW c \in D
        PROVE  (IF c \in DOMAIN total THEN [r.bank[c] EXCEPT !.amount = total[c]]
                ELSE r.bank[c]) \in BankRow
    <3>1. r.bank[c] \in BankRow
      BY <2>1, <2>2
    <3>. QED  BY <1>4, <1>5, <3>1 DEF BankRow
  <2>3. bank \in [D -> BankRow]
    BY <2>1, <2>2
  <2>. QED  BY <2>1, <2>3 DEF BankTables
<1>9. ASSUME NEW c \in DOMAIN r.bank, c \in DOMAIN r.batches
      PROVE  bank[c].amount = total[c]
  <2>1. r.bank[c] \in BankRow
    BY <1>1, <1>9 DEF BankTables
  <2>. QED  BY <1>5, <1>9, <2>1 DEF BankRow
<1>. HIDE DEF batches, bank
<1>10. /\ s.ledger = r.ledger /\ s.payments = r.payments /\ s.refunds = r.refunds
       /\ s.lines = r.lines /\ s.chains = r.chains /\ s.batches = batches /\ s.bank = bank
  BY <1>1, <1>3
<1>11. s \in RowTables
  BY <1>3, <1>6, <1>8 DEF RowTables
<1>. HIDE DEF s
<1>12. Wired(s)
  <2>1. \A b \in DOMAIN s.batches : s.batches[b].utr = UtrOf[b]
    BY <1>2, <1>6, <1>7, <1>10 DEF Wired
  <2>2. \A l \in DOMAIN s.lines :
            /\ s.lines[l].payment \in DOMAIN s.payments /\ s.lines[l].batch \in DOMAIN s.batches
            /\ s.lines[l].settled = s.batches[s.lines[l].batch].settled
    <3>1. \A b \in DOMAIN r.batches : b \in DOMAIN batches /\ batches[b].settled = r.batches[b].settled
      BY <1>2, <1>6, <1>7
    <3>. QED  BY <1>10, <3>1 DEF Wired
  <2>. QED  BY <1>10, <2>1, <2>2 DEF Wired
<1>13. ASSUME DOMAIN r.bank = DOMAIN r.batches
       PROVE  PaidOut(s)
  BY <1>2, <1>6, <1>7, <1>8, <1>9, <1>10, <1>13 DEF PaidOut
<1>. QED  BY <1>10, <1>11, <1>12, <1>13 DEF s

(* What each table of a data set holds. *)
LEMMA TablesHoldRows ==
  ASSUME NEW r \in RowTables
  PROVE  /\ DOMAIN r = {"ledger", "payments", "refunds", "lines", "batches", "bank", "chains"}
         /\ Len(r.ledger) \in Nat /\ DOMAIN r.ledger = 1 .. Len(r.ledger)
         /\ Len(r.payments) \in Nat /\ DOMAIN r.payments = 1 .. Len(r.payments)
         /\ Len(r.lines) \in Nat /\ DOMAIN r.lines = 1 .. Len(r.lines)
         /\ Len(r.batches) \in Nat /\ DOMAIN r.batches = 1 .. Len(r.batches)
         /\ Len(r.refunds) \in Nat /\ DOMAIN r.refunds = 1 .. Len(r.refunds)
         /\ Len(r.chains) \in Nat /\ DOMAIN r.chains = 1 .. Len(r.chains)
         /\ \A i \in DOMAIN r.ledger : r.ledger[i] \in LedgerEntry
         /\ \A p \in DOMAIN r.payments : r.payments[p] \in PaymentRow
         /\ \A l \in DOMAIN r.lines : r.lines[l] \in LineRow
         /\ \A b \in DOMAIN r.batches : r.batches[b] \in BatchRow
         /\ \A f \in DOMAIN r.refunds : r.refunds[f] \in RefundRow
         /\ \A p \in DOMAIN r.chains : r.chains[p] \in ChainRow
         /\ \A c \in DOMAIN r.bank : c \in Nat \ {0} /\ r.bank[c] \in BankRow
<1>1. /\ r.ledger \in Seq(LedgerEntry) /\ r.payments \in Seq(PaymentRow)
      /\ r.refunds \in Seq(RefundRow) /\ r.lines \in Seq(LineRow)
      /\ r.batches \in Seq(BatchRow) /\ r.bank \in BankTables /\ r.chains \in Seq(ChainRow)
      /\ DOMAIN r = {"ledger", "payments", "refunds", "lines", "batches", "bank", "chains"}
  BY DEF RowTables
<1>2. ASSUME NEW T, NEW s \in Seq(T)
      PROVE  Len(s) \in Nat /\ DOMAIN s = 1 .. Len(s) /\ \A i \in DOMAIN s : s[i] \in T
  BY LenProperties, ElementOfSeq
<1>3. \A c \in DOMAIN r.bank : c \in Nat \ {0} /\ r.bank[c] \in BankRow
  BY <1>1 DEF BankTables
<1>. QED  BY <1>1, <1>2, <1>3

LEMMA PickedAreRows ==
  ASSUME NEW population, NEW minimum, NEW picked \in Picks(population, minimum)
  PROVE  picked \in SUBSET population
BY DEF Picks, kSubset

LEMMA SamplesAreWhole ==
  /\ CapturedParts \subseteq Int /\ SplitParts \subseteq Int /\ KeepLengths \subseteq Int
  /\ GarblePositions \subseteq Int /\ OrphanParts \subseteq 3 .. 11 /\ Residuals \subseteq Int
<1>1. /\ CapturedParts \subseteq 30 .. 90 /\ SplitParts \subseteq 30 .. 70
      /\ KeepLengths \subseteq 6 .. 10 /\ GarblePositions \subseteq 0 .. UtrLength - 2
      /\ OrphanParts \subseteq 3 .. 11 /\ Residuals \subseteq -99 .. 99 \ {0}
  BY SamplesAssumption, Zenon
<1>2. CapturedParts \subseteq Int
  BY <1>1
<1>3. SplitParts \subseteq Int
  BY <1>1
<1>4. KeepLengths \subseteq Int
  BY <1>1
<1>5. GarblePositions \subseteq Int
  BY <1>1
<1>6. Residuals \subseteq Int
  BY <1>1
<1>. QED  BY <1>1, <1>2, <1>3, <1>4, <1>5, <1>6, Zenon

(* A sequence whose rows are changed one by one is one of as many.         *)
LEMMA ChangedIsSeq ==
  ASSUME NEW T, NEW s \in Seq(T), NEW t, DOMAIN t = DOMAIN s, t = [i \in DOMAIN t |-> t[i]],
         \A i \in DOMAIN s : t[i] \in T
  PROVE  t \in Seq(T) /\ Len(t) = Len(s)
<1>1. Len(s) \in Nat /\ DOMAIN s = 1 .. Len(s)
  BY LenProperties
<1>2. t \in [1 .. Len(s) -> T]
  BY <1>1
<1>. QED  BY <1>1, <1>2, SeqOf

(* What a data set that changed must have kept to hang together as it did. *)
Outlived(r, s) ==
    /\ Len(s.chains) = Len(s.payments)
    /\ \A l \in DOMAIN s.lines :
          /\ s.lines[l].payment \in DOMAIN s.payments /\ s.lines[l].batch \in DOMAIN s.batches
          /\ s.lines[l].settled = s.batches[s.lines[l].batch].settled
    /\ \A l \in DOMAIN r.lines :
          /\ l \in DOMAIN s.lines /\ s.lines[l].type = r.lines[l].type
          /\ s.lines[l].payment = r.lines[l].payment
          /\ r.lines[l].settled =< s.lines[l].settled
    /\ \A p \in DOMAIN s.payments :
          \/ p \in DOMAIN r.payments
          \/ \E l \in DOMAIN s.lines : s.lines[l].type = "PAYMENT" /\ s.lines[l].payment = p
    /\ \A i \in DOMAIN s.ledger : \E j \in DOMAIN r.ledger :
          s.ledger[i].date = r.ledger[j].date
    /\ s.batches = r.batches

LEMMA WiredStays ==
  ASSUME NEW r \in RowTables, NEW s \in RowTables, Wired(r), Outlived(r, s)
  PROVE  Wired(s)
<1>0. /\ Len(s.chains) = Len(s.payments)
      /\ \A l \in DOMAIN s.lines :
            /\ s.lines[l].payment \in DOMAIN s.payments /\ s.lines[l].batch \in DOMAIN s.batches
            /\ s.lines[l].settled = s.batches[s.lines[l].batch].settled
      /\ \A l \in DOMAIN r.lines :
            /\ l \in DOMAIN s.lines /\ s.lines[l].type = r.lines[l].type
            /\ s.lines[l].payment = r.lines[l].payment
            /\ r.lines[l].settled =< s.lines[l].settled
      /\ \A p \in DOMAIN s.payments :
            \/ p \in DOMAIN r.payments
            \/ \E l \in DOMAIN s.lines : s.lines[l].type = "PAYMENT" /\ s.lines[l].payment = p
      /\ \A i \in DOMAIN s.ledger : \E j \in DOMAIN r.ledger :
            s.ledger[i].date = r.ledger[j].date
      /\ s.batches = r.batches
  BY DEF Outlived
<1>1. ASSUME NEW p \in DOMAIN s.payments
      PROVE  \E l \in DOMAIN s.lines : s.lines[l].type = "PAYMENT" /\ s.lines[l].payment = p
  <2>1. CASE p \in DOMAIN r.payments
    <3>1. PICK l \in DOMAIN r.lines : r.lines[l].type = "PAYMENT" /\ r.lines[l].payment = p
      BY <2>1 DEF Wired
    <3>2. l \in DOMAIN s.lines /\ s.lines[l].type = "PAYMENT" /\ s.lines[l].payment = p
      BY <1>0, <3>1
    <3>. QED  BY <3>2
  <2>. QED  BY <1>0, <2>1
<1>2. ASSUME NEW i \in DOMAIN s.ledger
      PROVE  \E l \in DOMAIN s.lines : s.ledger[i].date =< s.lines[l].settled
  <2>1. PICK j \in DOMAIN r.ledger : s.ledger[i].date = r.ledger[j].date
    BY <1>0
  <2>2. PICK l \in DOMAIN r.lines : r.ledger[j].date =< r.lines[l].settled
    BY DEF Wired
  <2>3. l \in DOMAIN s.lines /\ r.lines[l].settled =< s.lines[l].settled
    BY <1>0
  <2>4. r.ledger[j] \in LedgerEntry /\ r.lines[l] \in LineRow /\ s.lines[l] \in LineRow
    BY <2>3, TablesHoldRows
  <2>5. r.ledger[j].date \in Int /\ r.lines[l].settled \in Int /\ s.lines[l].settled \in Int
    BY <2>4 DEF LedgerEntry, LineRow
  <2>6. s.ledger[i].date =< s.lines[l].settled
    BY <2>1, <2>2, <2>3, <2>5
  <2>. QED  BY <2>3, <2>6
<1>. QED  BY <1>0, <1>1, <1>2 DEF Wired

LEMMA SingleStays ==
  ASSUME NEW r, NEW s, SingleLines(r), DOMAIN s.lines = DOMAIN r.lines,
         \A l \in DOMAIN r.lines :
            s.lines[l].type = r.lines[l].type /\ s.lines[l].payment = r.lines[l].payment
  PROVE  SingleLines(s)
BY DEF SingleLines

(* While injectors still work on clean narrations and dates it is enough   *)
(* that the rows they leave are sound.                                     *)
LEMMA EarlyInjectionKeeps ==
  ASSUME GeneratorInv, NEW r \in RowTables, NEW new \in SUBSET NoteTypes,
         stage \in {"partial_captures", "duplicate_ledger_rows", "delayed_settlement",
                    "split_settlement", "truncate_utr", "drop_utr", "garbled_narration"},
         Injected(stage, r, new), Wired(r), TwiceAtMost(r), PaidOut(r),
         stage = "partial_captures" => Plain(r),
         stage \in {"partial_captures", "duplicate_ledger_rows", "delayed_settlement"}
            => SingleLines(r)
  PROVE  GeneratorInv'
<1>1. /\ rows' = r /\ notes' = notes \union new /\ stage' = Following(stage)
      /\ call' = call /\ lags' = lags /\ texts' = texts
  BY DEF Injected
<1>2. /\ stage' \in {"duplicate_ledger_rows", "delayed_settlement", "split_settlement",
                     "truncate_utr", "drop_utr", "garbled_narration", "mixed_amount_formats"}
      /\ stage' = "duplicate_ledger_rows" => stage = "partial_captures"
      /\ stage' = "delayed_settlement" => stage = "duplicate_ledger_rows"
      /\ stage' = "split_settlement" => stage = "delayed_settlement"
  BY <1>1, FollowingIs
<1>3. stage' \in Stages
  BY <1>2, NamesInOrder DEF Stages
<1>4. texts = <<>> /\ lags = <<>> /\ notes \in SUBSET NoteTypes /\ call \in Calls
  BY DEF GeneratorInv, Punctual, Orderly
<1>5. Rendered(r, texts) /\ Late(r, lags)
  BY <1>4 DEF Rendered, Late
<1>6. stage' \in Orderly => Plain(r)
  BY <1>2 DEF Orderly
<1>7. notes' \in SUBSET NoteTypes
  BY <1>1, <1>4
<1>8. stage' \in Single => SingleLines(r)
  BY <1>2 DEF Orderly, Single
<1>. QED  BY <1>1, <1>3, <1>4, <1>5, <1>6, <1>7, <1>8 DEF GeneratorInv

LEMMA NoteIsTyped ==
  ASSUME NEW noise \in {"partial_captures", "duplicate_ledger_rows", "delayed_settlement",
                        "split_settlement", "truncate_utr", "drop_utr", "garbled_narration",
                        "unexplainable", "rounding_residual"},
         NEW kind \in {"case", "batch_link", "ledger_row", "bank_row"},
         NEW target \in Nat \ {0},
         NEW category \in {"UNEXPLAINED", "MISSING_VS_LATE_CREDIT", "SPLIT_SETTLEMENT",
                           "UTR_MISSING_MAPPING", "UTR_TRUNCATED_MAPPING",
                           "DUPLICATE_CANDIDATE", "DUPLICATE_CONFIRMED", "PARTIAL_CAPTURE",
                           "T_PLUS_N_TIMING", "ROUNDING_DIFFERENCE"},
         NEW amount \in Int
  PROVE  /\ Note(noise, kind, target, category, TRUE, amount) \in NoteTypes
         /\ Note(noise, kind, target, category, FALSE, amount) \in NoteTypes
         /\ Note(noise, kind, target, category, TRUE, 0) \in NoteTypes
         /\ Note(noise, kind, target, category, FALSE, 0) \in NoteTypes
<1>1. noise \in {NoiseOrder[k] : k \in DOMAIN NoiseOrder}
  BY NamesInOrder
<1>2. category \in {CategoryPrecedence[k] : k \in DOMAIN CategoryPrecedence}
  <2>1. /\ CategoryPrecedence[1] = "UNEXPLAINED"
        /\ CategoryPrecedence[2] = "MISSING_VS_LATE_CREDIT"
        /\ CategoryPrecedence[3] = "SPLIT_SETTLEMENT"
        /\ CategoryPrecedence[4] = "UTR_MISSING_MAPPING"
        /\ CategoryPrecedence[5] = "UTR_TRUNCATED_MAPPING"
        /\ CategoryPrecedence[6] = "DUPLICATE_CANDIDATE"
        /\ CategoryPrecedence[7] = "DUPLICATE_CONFIRMED"
        /\ CategoryPrecedence[8] = "PARTIAL_CAPTURE"
        /\ CategoryPrecedence[9] = "T_PLUS_N_TIMING"
        /\ CategoryPrecedence[10] = "ROUNDING_DIFFERENCE"
        /\ DOMAIN CategoryPrecedence = 1 .. 10
    BY DEF CategoryPrecedence
  <2>. QED  BY <2>1
<1>. QED  BY <1>1, <1>2 DEF Note, NoteTypes

(* The narration tells which batch is meant, or it does not. *)
LEMMA ResolvableOrNot ==
  ASSUME NEW noise \in {"truncate_utr", "drop_utr"}, NEW target \in Nat \ {0},
         NEW category \in {"UTR_TRUNCATED_MAPPING", "UTR_MISSING_MAPPING"}, NEW count
  PROVE  Note(noise, "batch_link", target, category, count = 1, 0) \in NoteTypes
<1>1. /\ Note(noise, "batch_link", target, category, TRUE, 0) \in NoteTypes
      /\ Note(noise, "batch_link", target, category, FALSE, 0) \in NoteTypes
  <2>1. 0 \in Int
    OBVIOUS
  <2>. QED  BY <2>1, NoteIsTyped
<1>. QED  BY <1>1 DEF Note, NoteTypes

LEMMA PartialCapturesKeeps ==
  ASSUME GeneratorInv, PartialCaptures
  PROVE  GeneratorInv'
<1>. DEFINE authorized(p) == rows.payments[p].authorized
            pricing(picked, part) ==
                [p \in picked |-> Priced((authorized(p) * part[p]) \div 100,
                                        rows.payments[p].method, rows.chains[p].profile)]
            less(picked, part) ==
                {p \in picked : pricing(picked, part)[p].gross \in 1 .. authorized(p) - 1}
            captured(partial, priced) ==
                [rows EXCEPT
                  !.payments = [p \in DOMAIN @ |-> IF p \in partial
                      THEN [@[p] EXCEPT !.captured = priced[p].gross] ELSE @[p]],
                  !.chains = [p \in DOMAIN @ |-> IF p \in partial
                      THEN ChainOf(@[p], priced[p].gross, priced[p].fee, priced[p].tax,
                                   priced[p].net) ELSE @[p]],
                  !.lines = [l \in DOMAIN @ |-> IF @[l].type = "PAYMENT" /\ @[l].payment \in partial
                      THEN Repriced(@[l], priced[@[l].payment]) ELSE @[l]]]
            noted(partial, priced) ==
                {Note("partial_captures", "case", p, "PARTIAL_CAPTURE", TRUE,
                      authorized(p) - priced[p].gross) : p \in partial}
<1>1. /\ stage = "partial_captures" /\ rows \in RowTables /\ Wired(rows) /\ TwiceAtMost(rows)
      /\ Plain(rows) /\ PaidOut(rows) /\ SingleLines(rows)
  BY DEF GeneratorInv, PartialCaptures, Orderly, Single, Settling, Punctual
<1>2. \E picked \in Picks({p \in DOMAIN rows.chains : rows.chains[p].refund = 0}, 0) :
      \E part \in [picked -> CapturedParts] :
        Injected("partial_captures",
                 Resummed(captured(less(picked, part), pricing(picked, part))),
                 noted(less(picked, part), pricing(picked, part)))
  BY DEF PartialCaptures
<1>3. PICK picked \in Picks({p \in DOMAIN rows.chains : rows.chains[p].refund = 0}, 0) :
      \E part \in [picked -> CapturedParts] :
        Injected("partial_captures",
                 Resummed(captured(less(picked, part), pricing(picked, part))),
                 noted(less(picked, part), pricing(picked, part)))
  BY <1>2
<1>4. PICK part \in [picked -> CapturedParts] :
        Injected("partial_captures",
                 Resummed(captured(less(picked, part), pricing(picked, part))),
                 noted(less(picked, part), pricing(picked, part)))
  BY <1>3
<1>. DEFINE priced == pricing(picked, part)
            partial == less(picked, part)
            payments == [p \in DOMAIN rows.payments |-> IF p \in partial
                THEN [rows.payments[p] EXCEPT !.captured = priced[p].gross] ELSE rows.payments[p]]
            chains == [p \in DOMAIN rows.chains |-> IF p \in partial
                THEN ChainOf(rows.chains[p], priced[p].gross, priced[p].fee, priced[p].tax,
                             priced[p].net) ELSE rows.chains[p]]
            lines == [l \in DOMAIN rows.lines |->
                IF rows.lines[l].type = "PAYMENT" /\ rows.lines[l].payment \in partial
                THEN Repriced(rows.lines[l], priced[rows.lines[l].payment]) ELSE rows.lines[l]]
            r == [rows EXCEPT !.payments = payments, !.chains = chains, !.lines = lines]
            new == noted(partial, priced)
<1>5. Injected("partial_captures", Resummed(r), new)
  BY <1>4
<1>6. /\ DOMAIN rows = {"ledger", "payments", "refunds", "lines", "batches", "bank", "chains"}
      /\ Len(rows.chains) = Len(rows.payments) /\ DOMAIN rows.chains = DOMAIN rows.payments
      /\ \A p \in DOMAIN rows.payments : rows.payments[p] \in PaymentRow /\ p \in Nat \ {0}
      /\ \A p \in DOMAIN rows.chains : rows.chains[p] \in ChainRow
      /\ \A l \in DOMAIN rows.lines : rows.lines[l] \in LineRow
  BY <1>1, TablesHoldRows DEF Wired
<1>7. ASSUME NEW p \in picked
      PROVE  /\ p \in DOMAIN rows.payments /\ p \in DOMAIN rows.chains
             /\ authorized(p) \in Int /\ priced[p] \in Prices
             /\ priced[p].gross \in Int /\ priced[p].fee \in Int
             /\ priced[p].tax \in Int /\ priced[p].net \in Int
  <2>1. p \in DOMAIN rows.chains /\ p \in DOMAIN rows.payments
    BY <1>6, PickedAreRows
  <2>2. /\ authorized(p) \in Int /\ rows.payments[p].method \in Methods
        /\ rows.chains[p].profile \in Profiles
    BY <1>6, <2>1 DEF PaymentRow, ChainRow
  <2>3. part[p] \in Int
    BY SamplesAreWhole
  <2>. DEFINE whole == authorized(p) * part[p]
              amount == whole \div 100
  <2>4. whole \in Int
    <3>. HIDE DEF authorized
    <3>. QED  BY <2>2, <2>3
  <2>5. amount \in Int
    <3>. HIDE DEF whole
    <3>. QED  BY <2>4, ScaledIsWhole
  <2>6. priced[p] = Priced(amount, rows.payments[p].method, rows.chains[p].profile)
    OBVIOUS
  <2>. HIDE DEF amount, priced
  <2>7. priced[p] \in Prices
    BY <2>2, <2>5, <2>6, PricedInPaise
  <2>. QED  BY <2>1, <2>2, <2>7 DEF Prices
<1>8. \A p \in partial : p \in picked
  OBVIOUS
<1>. HIDE DEF priced, partial
<1>9. payments \in Seq(PaymentRow) /\ Len(payments) = Len(rows.payments)
  <2>1. ASSUME NEW p \in DOMAIN rows.payments
        PROVE  payments[p] \in PaymentRow
    <3>1. CASE p \in partial
      <4>1. payments[p] = [rows.payments[p] EXCEPT !.captured = priced[p].gross]
        BY <3>1
      <4>2. priced[p].gross \in Int /\ rows.payments[p] \in PaymentRow
        BY <1>6, <1>7, <1>8, <3>1
      <4>. HIDE DEF payments
      <4>. QED  BY <4>1, <4>2 DEF PaymentRow
    <3>2. CASE p \notin partial
      BY <1>6, <3>2
    <3>. QED  BY <3>1, <3>2
  <2>2. DOMAIN payments = DOMAIN rows.payments /\ payments = [p \in DOMAIN payments |-> payments[p]]
    OBVIOUS
  <2>. HIDE DEF payments
  <2>3. rows.payments \in Seq(PaymentRow)
    BY <1>1 DEF RowTables
  <2>. QED  BY <2>1, <2>2, <2>3, ChangedIsSeq
<1>10. chains \in Seq(ChainRow) /\ Len(chains) = Len(rows.chains)
  <2>1. ASSUME NEW p \in DOMAIN rows.chains
        PROVE  chains[p] \in ChainRow
    <3>1. CASE p \in partial
      BY <1>6, <1>7, <1>8, <3>1 DEF ChainRow, ChainOf
    <3>2. CASE p \notin partial
      BY <1>6, <3>2
    <3>. QED  BY <3>1, <3>2
  <2>2. DOMAIN chains = DOMAIN rows.chains /\ chains = [p \in DOMAIN chains |-> chains[p]]
    OBVIOUS
  <2>. HIDE DEF chains
  <2>3. rows.chains \in Seq(ChainRow)
    BY <1>1 DEF RowTables
  <2>. QED  BY <2>1, <2>2, <2>3, ChangedIsSeq
<1>11. ASSUME NEW l \in DOMAIN rows.lines
       PROVE  /\ lines[l] \in LineRow /\ lines[l].type = rows.lines[l].type
              /\ lines[l].payment = rows.lines[l].payment
              /\ lines[l].batch = rows.lines[l].batch
              /\ lines[l].settled = rows.lines[l].settled
  <2>1. CASE rows.lines[l].type = "PAYMENT" /\ rows.lines[l].payment \in partial
    BY <1>6, <1>7, <1>8, <2>1 DEF LineRow, Repriced
  <2>2. CASE ~(rows.lines[l].type = "PAYMENT" /\ rows.lines[l].payment \in partial)
    BY <1>6, <2>2
  <2>. QED  BY <2>1, <2>2
<1>12. lines \in Seq(LineRow) /\ DOMAIN lines = DOMAIN rows.lines
  <2>1. DOMAIN lines = DOMAIN rows.lines /\ lines = [l \in DOMAIN lines |-> lines[l]]
    OBVIOUS
  <2>. HIDE DEF lines
  <2>2. rows.lines \in Seq(LineRow)
    BY <1>1 DEF RowTables
  <2>. QED  BY <1>11, <2>1, <2>2, ChangedIsSeq
<1>13. DOMAIN payments = DOMAIN rows.payments
  OBVIOUS
<1>. HIDE DEF payments, chains, lines
<1>14. /\ r.payments = payments /\ r.chains = chains /\ r.lines = lines
       /\ r.ledger = rows.ledger /\ r.batches = rows.batches /\ r.bank = rows.bank
  BY <1>6
<1>15. r \in RowTables
  BY <1>1, <1>9, <1>10, <1>12 DEF RowTables
<1>16. new \in SUBSET NoteTypes
  <2>1. ASSUME NEW p \in partial
        PROVE  Note("partial_captures", "case", p, "PARTIAL_CAPTURE", TRUE,
                    authorized(p) - priced[p].gross) \in NoteTypes
    <3>1. p \in Nat \ {0} /\ authorized(p) - priced[p].gross \in Int
      <4>1. authorized(p) \in Int /\ priced[p].gross \in Int /\ p \in Nat \ {0}
        BY <1>6, <1>7, <1>8, <2>1
      <4>. HIDE DEF authorized
      <4>. QED  BY <4>1
    <3>. QED  BY <3>1, NoteIsTyped
  <2>. QED  BY <2>1
<1>. HIDE DEF r, new
<1>17. Wired(r)
  <2>1. \A l \in DOMAIN r.lines :
          /\ r.lines[l].payment \in DOMAIN r.payments /\ r.lines[l].batch \in DOMAIN r.batches
          /\ r.lines[l].settled = r.batches[r.lines[l].batch].settled
    <3>1. \A l \in DOMAIN rows.lines :
            /\ rows.lines[l].payment \in DOMAIN rows.payments
            /\ rows.lines[l].batch \in DOMAIN rows.batches
            /\ rows.lines[l].settled = rows.batches[rows.lines[l].batch].settled
      BY <1>1 DEF Wired
    <3>2. \A l \in DOMAIN lines :
            /\ lines[l].payment \in DOMAIN payments /\ lines[l].batch \in DOMAIN rows.batches
            /\ lines[l].settled = rows.batches[lines[l].batch].settled
      BY <1>11, <1>12, <1>13, <3>1
    <3>. QED  BY <1>14, <3>2
  <2>2. \A l \in DOMAIN rows.lines :
          /\ l \in DOMAIN r.lines /\ r.lines[l].type = rows.lines[l].type
          /\ r.lines[l].payment = rows.lines[l].payment
          /\ rows.lines[l].settled =< r.lines[l].settled
    <3>1. \A l \in DOMAIN rows.lines : rows.lines[l].settled \in Int
      BY <1>6 DEF LineRow
    <3>. QED  BY <1>11, <1>12, <1>14, <3>1
  <2>3. Len(r.chains) = Len(r.payments) /\ DOMAIN r.payments = DOMAIN rows.payments
    BY <1>6, <1>9, <1>10, <1>13, <1>14
  <2>4. Outlived(rows, r)
    BY <1>14, <2>1, <2>2, <2>3 DEF Outlived
  <2>. QED  BY <1>1, <1>15, <2>4, WiredStays
<1>18. /\ Resummed(r) \in RowTables /\ Wired(Resummed(r)) /\ PaidOut(Resummed(r))
       /\ Resummed(r).ledger = rows.ledger /\ Resummed(r).chains = chains
       /\ Resummed(r).lines = r.lines
  BY <1>1, <1>14, <1>15, <1>17, ResummedIsSound DEF PaidOut
<1>19. TwiceAtMost(Resummed(r)) /\ Plain(Resummed(r))
  BY <1>1, <1>10, <1>18 DEF TwiceAtMost, Plain
<1>20. SingleLines(Resummed(r))
  BY <1>1, <1>11, <1>12, <1>14, <1>18, SingleStays
<1>21. Injected(stage, Resummed(r), new)
  BY <1>1, <1>5 DEF Injected
<1>. QED  BY <1>1, <1>16, <1>18, <1>19, <1>21, <1>20, EarlyInjectionKeeps

(* Every payment has its line. *)
LEMMA LineIsFound ==
  ASSUME Wired(rows), NEW p \in DOMAIN rows.payments
  PROVE  /\ LineOf(p) \in PaymentLineIds /\ LineOf(p) \in DOMAIN rows.lines
         /\ rows.lines[LineOf(p)].payment = p /\ rows.lines[LineOf(p)].type = "PAYMENT"
<1>1. PICK l \in DOMAIN rows.lines : rows.lines[l].type = "PAYMENT" /\ rows.lines[l].payment = p
  BY DEF Wired
<1>2. l \in PaymentLineIds /\ rows.lines[l].payment = p
  BY <1>1 DEF PaymentLineIds
<1>3. LineOf(p) \in PaymentLineIds /\ rows.lines[LineOf(p)].payment = p
  BY <1>2 DEF LineOf
<1>. QED  BY <1>3 DEF PaymentLineIds

(* A sequence with another behind it. *)
Extended(u, s, n, t) ==
    /\ Len(u) = Len(s) + n /\ DOMAIN u = 1 .. Len(s) + n
    /\ \A i \in 1 .. Len(s) : u[i] = s[i]
    /\ \A i \in 1 .. n : u[Len(s) + i] = t[i]
    /\ \A i \in 1 .. Len(s) + n : i \in 1 .. Len(s) \/ \E j \in 1 .. n : i = Len(s) + j

LEMMA Lengthened ==
  ASSUME NEW T, NEW s \in Seq(T), NEW n \in Nat, NEW t \in [1 .. n -> T]
  PROVE  s \o t \in Seq(T) /\ Extended(s \o t, s, n, t)
<1>1. t \in Seq(T) /\ Len(t) = n /\ Len(s) \in Nat
  BY SeqOf, LenProperties
<1>2. /\ s \o t \in Seq(T) /\ Len(s \o t) = Len(s) + n
      /\ \A i \in 1 .. Len(s) + n : (s \o t)[i] = IF i =< Len(s) THEN s[i] ELSE t[i - Len(s)]
  BY <1>1, ConcatProperties
<1>3. DOMAIN (s \o t) = 1 .. Len(s) + n
  BY <1>2, LenProperties
<1>. DEFINE k == Len(s)
            u == s \o t
<1>. HIDE DEF k, u
<1>4. ASSUME NEW i \in 1 .. n
      PROVE  u[k + i] = t[i]
  <2>1. k + i \in 1 .. k + n /\ ~(k + i =< k) /\ k + i - k = i
    BY <1>1 DEF k
  <2>2. u[k + i] = IF k + i =< k THEN s[k + i] ELSE t[k + i - k]
    BY <1>2, <2>1 DEF k, u
  <2>. QED  BY <2>1, <2>2
<1>5. ASSUME NEW i \in 1 .. k
      PROVE  u[i] = s[i]
  <2>1. i \in 1 .. k + n /\ i =< k
    BY <1>1 DEF k
  <2>. QED  BY <1>2, <2>1 DEF k, u
<1>6. ASSUME NEW i \in 1 .. k + n
      PROVE  i \in 1 .. k \/ \E j \in 1 .. n : i = k + j
  <2>1. CASE i > k
    <3>1. i - k \in 1 .. n /\ i = k + (i - k)
      BY <1>1, <2>1 DEF k
    <3>. QED  BY <3>1
  <2>2. CASE ~(i > k)
    BY <1>1, <2>2 DEF k
  <2>. QED  BY <2>1, <2>2
<1>. QED  BY <1>2, <1>3, <1>4, <1>5, <1>6 DEF k, u, Extended

(* Rows numbered from one, then copies of some of them, then rows with     *)
(* numbers of their own: no number comes up three times.                   *)
Copied(led, n, c, d, copy) ==
    /\ DOMAIN led = 1 .. n + c + d
    /\ copy \in [1 .. c -> 1 .. n] /\ \A i, j \in 1 .. c : copy[i] = copy[j] => i = j
    /\ \A i \in 1 .. n : led[i].order = i
    /\ \A i \in 1 .. c : led[n + i] = led[copy[i]]
    /\ \A i \in 1 .. d : led[n + c + i].order = n + i

LEMMA CopiesAreSecond ==
  ASSUME NEW r, NEW n \in Nat, NEW c \in Nat, NEW d \in Nat, NEW copy,
         Copied(r.ledger, n, c, d, copy)
  PROVE  TwiceAtMost(r)
<1>. DEFINE led == r.ledger
<1>. HIDE DEF led
<1>0. /\ DOMAIN led = 1 .. n + c + d
      /\ copy \in [1 .. c -> 1 .. n] /\ \A i, j \in 1 .. c : copy[i] = copy[j] => i = j
      /\ \A i \in 1 .. n : led[i].order = i
      /\ \A i \in 1 .. c : led[n + i] = led[copy[i]]
      /\ \A i \in 1 .. d : led[n + c + i].order = n + i
  BY DEF Copied, led
<1>1. ASSUME NEW i \in 1 .. n + c + d
      PROVE  \/ i \in 1 .. n
             \/ i > n /\ \E j \in 1 .. c : i = n + j
             \/ i > n + c /\ \E j \in 1 .. d : i = n + c + j
  <2>1. CASE i > n + c
    <3>1. i - n - c \in 1 .. d /\ i = n + c + (i - n - c)
      BY <2>1
    <3>. QED  BY <2>1, <3>1
  <2>2. CASE i > n /\ i =< n + c
    <3>1. i - n \in 1 .. c /\ i = n + (i - n)
      BY <2>2
    <3>. QED  BY <2>2, <3>1
  <2>. QED  BY <2>1, <2>2
<1>2. ASSUME NEW i \in 1 .. c
      PROVE  led[n + i].order = copy[i] /\ copy[i] \in 1 .. n
  <2>1. copy[i] \in 1 .. n
    BY <1>0
  <2>. QED  BY <1>0, <2>1
<1>3. ASSUME NEW i \in 1 .. n + c + d, NEW j \in 1 .. n + c + d, i < j,
             led[i].order = led[j].order
      PROVE  i =< n /\ j > n /\ led[i] = led[j]
  <2>1. CASE i \in 1 .. n
    <3>1. led[i].order = i
      BY <1>0, <2>1
    <3>2. ASSUME j \in 1 .. n
          PROVE  FALSE
      <4>1. led[j].order = j
        BY <1>0, <3>2
      <4>2. i = j
        BY <1>3, <3>1, <4>1, Zenon
      <4>. QED  BY <1>3, <4>2
    <3>3. ASSUME NEW b \in 1 .. c, j = n + b
          PROVE  i =< n /\ j > n /\ led[i] = led[j]
      <4>1. led[j].order = copy[b] /\ led[j] = led[copy[b]]
        BY <1>0, <1>2, <3>3
      <4>2. i = copy[b]
        BY <1>3, <3>1, <4>1, Zenon
      <4>3. i =< n /\ j > n
        BY <2>1, <3>3
      <4>. QED  BY <4>1, <4>2, <4>3
    <3>4. ASSUME NEW b \in 1 .. d, j = n + c + b
          PROVE  FALSE
      <4>1. led[j].order = n + b
        BY <1>0, <3>4
      <4>2. i = n + b
        BY <1>3, <3>1, <4>1, Zenon
      <4>. QED  BY <2>1, <4>2
    <3>. QED  BY <1>1, <3>2, <3>3, <3>4
  <2>2. ASSUME NEW a \in 1 .. c, i = n + a
        PROVE  FALSE
    <3>1. led[i].order = copy[a] /\ copy[a] \in 1 .. n /\ i > n
      BY <1>2, <2>2
    <3>2. ASSUME NEW b \in 1 .. c, j = n + b
          PROVE  FALSE
      <4>1. led[j].order = copy[b]
        BY <1>2, <3>2
      <4>2. a = b
        BY <1>0, <1>3, <3>1, <4>1
      <4>. QED  BY <1>3, <2>2, <3>2, <4>2
    <3>3. ASSUME NEW b \in 1 .. d, j = n + c + b
          PROVE  FALSE
      <4>1. led[j].order = n + b
        BY <1>0, <3>3
      <4>2. copy[a] = n + b
        BY <1>3, <3>1, <4>1, Zenon
      <4>. QED  BY <3>1, <4>2
    <3>. QED  BY <1>0, <1>1, <1>3, <3>1, <3>2, <3>3
  <2>3. ASSUME NEW a \in 1 .. d, i = n + c + a
        PROVE  FALSE
    <3>1. led[i].order = n + a
      BY <1>0, <2>3
    <3>2. PICK b \in 1 .. d : j = n + c + b
      BY <1>1, <1>3, <2>3
    <3>3. led[j].order = n + b
      BY <1>0, <3>2
    <3>. QED  BY <1>3, <2>3, <3>1, <3>2, <3>3
  <2>. QED  BY <1>1, <2>1, <2>2, <2>3
<1>4. ASSUME NEW i \in DOMAIN led, NEW j \in DOMAIN led, led[i].order = led[j].order
      PROVE  led[i] = led[j]
  <2>1. CASE i < j
    BY <1>0, <1>3, <1>4, <2>1
  <2>2. CASE j < i
    BY <1>0, <1>3, <1>4, <2>2
  <2>3. i = j \/ i < j \/ j < i
    BY <1>0
  <2>. QED  BY <2>1, <2>2, <2>3
<1>5. ASSUME NEW i \in DOMAIN led, NEW j \in DOMAIN led, NEW k \in DOMAIN led, i < j, j < k,
             led[i].order = led[j].order, led[j].order = led[k].order
      PROVE  FALSE
  <2>1. j > n
    BY <1>0, <1>3, <1>5
  <2>2. j =< n
    BY <1>0, <1>3, <1>5
  <2>. QED  BY <1>0, <2>1, <2>2
<1>. QED  BY <1>4, <1>5 DEF TwiceAtMost, led

LEMMA DuplicateLedgerRowsKeeps ==
  ASSUME GeneratorInv, DuplicateLedgerRows
  PROVE  GeneratorInv'
<1>. DEFINE old == Len(rows.payments)
            repeat(p) == rows.payments[p]
            addedLedger(copies, repeats) ==
                rows.ledger \o [i \in DOMAIN copies |-> rows.ledger[copies[i]]]
                  \o [i \in DOMAIN repeats |-> [rows.ledger[repeats[i]] EXCEPT
                          !.order = old + i, !.invoice = old + i]]
            addedPayments(repeats) ==
                rows.payments \o [i \in DOMAIN repeats |-> [repeat(repeats[i]) EXCEPT
                          !.order = old + i, !.authorized = repeat(repeats[i]).captured]]
            addedLines(repeats) ==
                rows.lines \o [i \in DOMAIN repeats |-> [rows.lines[LineOf(repeats[i])] EXCEPT
                          !.payment = old + i]]
            addedChains(repeats) ==
                rows.chains \o [i \in DOMAIN repeats |->
                          [rows.chains[repeats[i]] EXCEPT !.refund = 0]]
            repeated(copies, repeats) ==
                [rows EXCEPT !.ledger = addedLedger(copies, repeats),
                             !.payments = addedPayments(repeats),
                             !.lines = addedLines(repeats), !.chains = addedChains(repeats)]
            noted(copied, repeats) ==
                {Note("duplicate_ledger_rows", "ledger_row", p, "DUPLICATE_CONFIRMED", TRUE,
                      rows.ledger[p].gross) : p \in copied}
                \union {Note("duplicate_ledger_rows", "case", old + i, "DUPLICATE_CANDIDATE",
                             TRUE, 0) : i \in DOMAIN repeats}
<1>1. /\ stage = "duplicate_ledger_rows" /\ rows \in RowTables /\ Wired(rows)
      /\ Plain(rows) /\ PaidOut(rows) /\ SingleLines(rows)
  BY DEF GeneratorInv, DuplicateLedgerRows, Orderly, Single, Settling, Punctual
<1>2. \E picked \in Picks(DOMAIN rows.chains, 0) : \E copied \in SUBSET picked :
        Injected("duplicate_ledger_rows",
                 Resummed(repeated(Ascending(copied), Ascending(picked \ copied))),
                 noted(copied, Ascending(picked \ copied)))
  BY DEF DuplicateLedgerRows
<1>3. PICK picked \in Picks(DOMAIN rows.chains, 0) : \E copied \in SUBSET picked :
        Injected("duplicate_ledger_rows",
                 Resummed(repeated(Ascending(copied), Ascending(picked \ copied))),
                 noted(copied, Ascending(picked \ copied)))
  BY <1>2
<1>4. PICK copied \in SUBSET picked :
        Injected("duplicate_ledger_rows",
                 Resummed(repeated(Ascending(copied), Ascending(picked \ copied))),
                 noted(copied, Ascending(picked \ copied)))
  BY <1>3
<1>. DEFINE n == Len(rows.chains)
            copies == Ascending(copied)
            repeats == Ascending(picked \ copied)
            c == Len(copies)
            d == Len(repeats)
            middle == [i \in DOMAIN copies |-> rows.ledger[copies[i]]]
            last == [i \in DOMAIN repeats |-> [rows.ledger[repeats[i]] EXCEPT
                          !.order = old + i, !.invoice = old + i]]
            ledger == addedLedger(copies, repeats)
            morePayments == [i \in DOMAIN repeats |-> [repeat(repeats[i]) EXCEPT
                          !.order = old + i, !.authorized = repeat(repeats[i]).captured]]
            payments == addedPayments(repeats)
            moreLines == [i \in DOMAIN repeats |-> [rows.lines[LineOf(repeats[i])] EXCEPT
                          !.payment = old + i]]
            lines == addedLines(repeats)
            moreChains == [i \in DOMAIN repeats |-> [rows.chains[repeats[i]] EXCEPT !.refund = 0]]
            chains == addedChains(repeats)
            r == repeated(copies, repeats)
            new == noted(copied, repeats)
<1>5. /\ DOMAIN rows = {"ledger", "payments", "refunds", "lines", "batches", "bank", "chains"}
      /\ n \in Nat /\ old = n /\ Len(rows.ledger) = n
      /\ DOMAIN rows.chains = 1 .. n /\ DOMAIN rows.payments = 1 .. n /\ DOMAIN rows.ledger = 1 .. n
      /\ DOMAIN rows.lines = 1 .. Len(rows.lines) /\ Len(rows.lines) \in Nat
      /\ \A i \in 1 .. n : rows.ledger[i] \in LedgerEntry /\ rows.ledger[i].order = i
      /\ \A p \in 1 .. n : rows.payments[p] \in PaymentRow
      /\ \A p \in 1 .. n : rows.chains[p] \in ChainRow
      /\ \A l \in DOMAIN rows.lines : rows.lines[l] \in LineRow
  BY <1>1, TablesHoldRows DEF Wired, Plain
<1>6. /\ rows.ledger \in Seq(LedgerEntry) /\ rows.payments \in Seq(PaymentRow)
      /\ rows.lines \in Seq(LineRow) /\ rows.chains \in Seq(ChainRow)
  BY <1>1 DEF RowTables
<1>7. copied \in SUBSET (1 .. n) /\ (picked \ copied) \in SUBSET (1 .. n)
  BY <1>5, PickedAreRows
<1>8. ASSUME NEW S \in SUBSET (1 .. n)
      PROVE  Lists(Ascending(S), S)
  <2>1. IsFiniteSet(1 .. n) /\ S \in SUBSET Int
    BY <1>5, FS_Interval
  <2>2. IsFiniteSet(S)
    BY <2>1, FS_Subset
  <2>. QED  BY <2>1, <2>2, AscendingLists
<1>9. Lists(copies, copied) /\ Lists(repeats, picked \ copied)
  BY <1>7, <1>8
<1>. HIDE DEF n, old, copies, repeats
<1>10. /\ c \in Nat /\ d \in Nat /\ DOMAIN copies = 1 .. c /\ DOMAIN repeats = 1 .. d
       /\ copies \in [1 .. c -> 1 .. n]
       /\ \A i, j \in 1 .. c : copies[i] = copies[j] => i = j
       /\ \A i \in 1 .. d : repeats[i] \in 1 .. n
  <2>1. copies \in Seq(1 .. n) /\ repeats \in Seq(1 .. n)
    BY <1>7, <1>9, SeqMonotonic DEF Lists
  <2>2. /\ c \in Nat /\ copies \in [1 .. c -> 1 .. n]
        /\ d \in Nat /\ repeats \in [1 .. d -> 1 .. n]
    BY <2>1, LenProperties
  <2>. QED  BY <1>9, <2>2 DEF Lists
<1>. HIDE DEF c, d
<1>11. /\ ledger \in Seq(LedgerEntry) /\ DOMAIN ledger = 1 .. n + c + d
       /\ \A i \in 1 .. n : ledger[i] = rows.ledger[i]
       /\ \A i \in 1 .. c : ledger[n + i] = rows.ledger[copies[i]]
       /\ \A i \in 1 .. d : ledger[n + c + i] = last[i]
       /\ \A i \in 1 .. d : last[i].order = n + i /\ last[i].date = rows.ledger[repeats[i]].date
       /\ \A i \in 1 .. n + c + d :
             i \in 1 .. n \/ (\E j \in 1 .. c : i = n + j) \/ (\E j \in 1 .. d : i = n + c + j)
  <2>1. middle \in [1 .. c -> LedgerEntry]
    BY <1>5, <1>10
  <2>2. ASSUME NEW i \in 1 .. d
        PROVE  /\ last[i] \in LedgerEntry /\ last[i].order = n + i
               /\ last[i].date = rows.ledger[repeats[i]].date
    <3>1. rows.ledger[repeats[i]] \in LedgerEntry /\ n + i \in Nat \ {0}
      BY <1>5, <1>10
    <3>2. last[i] = [rows.ledger[repeats[i]] EXCEPT !.order = n + i, !.invoice = n + i]
      BY <1>5, <1>10
    <3>. HIDE DEF last
    <3>. QED  BY <3>1, <3>2 DEF LedgerEntry
  <2>3. last \in [1 .. d -> LedgerEntry]
    BY <1>10, <2>2
  <2>4. ledger = (rows.ledger \o middle) \o last
    OBVIOUS
  <2>5. \A i \in 1 .. c : middle[i] = rows.ledger[copies[i]]
    BY <1>10
  <2>. HIDE DEF middle, last, ledger
  <2>. DEFINE front == rows.ledger \o middle
  <2>6. /\ front \in Seq(LedgerEntry) /\ Len(front) = n + c
        /\ \A i \in 1 .. n : front[i] = rows.ledger[i]
        /\ \A i \in 1 .. c : front[n + i] = middle[i]
        /\ \A i \in 1 .. n + c : i \in 1 .. n \/ \E j \in 1 .. c : i = n + j
    <3>1. front \in Seq(LedgerEntry) /\ Extended(front, rows.ledger, c, middle)
      BY <1>6, <1>10, <2>1, Lengthened
    <3>. HIDE DEF front
    <3>. QED  BY <1>5, <3>1 DEF Extended
  <2>. HIDE DEF front
  <2>7. /\ ledger \in Seq(LedgerEntry) /\ DOMAIN ledger = 1 .. (n + c) + d
        /\ \A i \in 1 .. n + c : ledger[i] = front[i]
        /\ \A i \in 1 .. d : ledger[(n + c) + i] = last[i]
        /\ \A i \in 1 .. (n + c) + d : i \in 1 .. n + c \/ \E j \in 1 .. d : i = (n + c) + j
    <3>1. ledger \in Seq(LedgerEntry) /\ Extended(ledger, front, d, last)
      <4>1. front \in Seq(LedgerEntry) /\ ledger = front \o last
        BY <2>4, <2>6 DEF front
      <4>. QED  BY <1>10, <2>3, <4>1, Lengthened
    <3>. QED  BY <2>6, <3>1 DEF Extended
  <2>8. \A i \in 1 .. n : i \in 1 .. n + c
    BY <1>5, <1>10
  <2>9. \A i \in 1 .. c : n + i \in 1 .. n + c
    BY <1>5, <1>10
  <2>. QED  BY <2>2, <2>5, <2>6, <2>7, <2>8, <2>9
<1>12. /\ payments \in Seq(PaymentRow) /\ Len(payments) = n + d /\ DOMAIN payments = 1 .. n + d
       /\ \A i \in 1 .. n + d : i \in 1 .. n \/ \E j \in 1 .. d : i = n + j
  <2>1. ASSUME NEW i \in 1 .. d
        PROVE  morePayments[i] \in PaymentRow
    <3>1. /\ rows.payments[repeats[i]] \in PaymentRow /\ n + i \in Nat \ {0}
      BY <1>5, <1>10
    <3>2. rows.payments[repeats[i]].captured \in Int
      BY <3>1 DEF PaymentRow
    <3>3. morePayments[i] = [rows.payments[repeats[i]] EXCEPT !.order = n + i,
                                !.authorized = rows.payments[repeats[i]].captured]
      BY <1>5, <1>10
    <3>. HIDE DEF morePayments
    <3>. QED  BY <3>1, <3>2, <3>3 DEF PaymentRow
  <2>2. morePayments \in [1 .. d -> PaymentRow]
    BY <1>10, <2>1
  <2>3. payments = rows.payments \o morePayments /\ Len(rows.payments) = n
    BY <1>5 DEF old
  <2>. HIDE DEF morePayments, payments
  <2>4. payments \in Seq(PaymentRow) /\ Extended(payments, rows.payments, d, morePayments)
    BY <1>6, <1>10, <2>2, <2>3, Lengthened
  <2>. QED  BY <2>3, <2>4 DEF Extended
<1>13. chains \in Seq(ChainRow) /\ Len(chains) = n + d
  <2>1. ASSUME NEW i \in 1 .. d
        PROVE  moreChains[i] \in ChainRow
    <3>1. rows.chains[repeats[i]] \in ChainRow
      BY <1>5, <1>10
    <3>2. moreChains[i] = [rows.chains[repeats[i]] EXCEPT !.refund = 0]
      BY <1>10
    <3>. HIDE DEF moreChains
    <3>. QED  BY <3>1, <3>2 DEF ChainRow
  <2>2. moreChains \in [1 .. d -> ChainRow]
    BY <1>10, <2>1
  <2>3. chains = rows.chains \o moreChains /\ Len(rows.chains) = n
    BY DEF n
  <2>. HIDE DEF moreChains, chains
  <2>4. chains \in Seq(ChainRow) /\ Extended(chains, rows.chains, d, moreChains)
    BY <1>6, <1>10, <2>2, <2>3, Lengthened
  <2>. QED  BY <2>3, <2>4 DEF Extended
<1>14. ASSUME NEW i \in 1 .. d
       PROVE  /\ moreLines[i] \in LineRow /\ moreLines[i].type = "PAYMENT"
              /\ moreLines[i].payment = n + i /\ moreLines[i].batch \in DOMAIN rows.batches
              /\ moreLines[i].settled = rows.batches[moreLines[i].batch].settled
  <2>. DEFINE l == LineOf(repeats[i])
  <2>1. l \in DOMAIN rows.lines /\ rows.lines[l].type = "PAYMENT"
    <3>1. repeats[i] \in DOMAIN rows.payments
      BY <1>5, <1>10
    <3>. QED  BY <1>1, <3>1, LineIsFound
  <2>. HIDE DEF l
  <2>2. moreLines[i] = [rows.lines[l] EXCEPT !.payment = n + i]
    BY <1>5, <1>10 DEF l
  <2>3. rows.lines[l] \in LineRow /\ n + i \in Nat \ {0}
    BY <1>5, <2>1
  <2>4. /\ rows.lines[l].batch \in DOMAIN rows.batches
        /\ rows.lines[l].settled = rows.batches[rows.lines[l].batch].settled
    BY <1>1, <2>1 DEF Wired
  <2>. HIDE DEF moreLines
  <2>5. /\ moreLines[i] \in LineRow /\ moreLines[i].type = rows.lines[l].type
        /\ moreLines[i].payment = n + i /\ moreLines[i].batch = rows.lines[l].batch
        /\ moreLines[i].settled = rows.lines[l].settled
    BY <2>2, <2>3 DEF LineRow
  <2>. QED  BY <2>1, <2>4, <2>5
<1>15. /\ lines \in Seq(LineRow) /\ DOMAIN lines = 1 .. Len(rows.lines) + d
       /\ \A i \in 1 .. Len(rows.lines) : lines[i] = rows.lines[i]
       /\ \A i \in 1 .. d : lines[Len(rows.lines) + i] = moreLines[i]
       /\ \A i \in 1 .. Len(rows.lines) + d :
             i \in 1 .. Len(rows.lines) \/ \E j \in 1 .. d : i = Len(rows.lines) + j
  <2>1. moreLines \in [1 .. d -> LineRow]
    BY <1>10, <1>14
  <2>2. lines = rows.lines \o moreLines
    OBVIOUS
  <2>. HIDE DEF moreLines, lines
  <2>3. lines \in Seq(LineRow) /\ Extended(lines, rows.lines, d, moreLines)
    BY <1>6, <1>10, <2>1, <2>2, Lengthened
  <2>. QED  BY <2>3 DEF Extended
<1>. HIDE DEF ledger, payments, lines, chains, last, moreLines
<1>16. /\ r.payments = payments /\ r.chains = chains /\ r.lines = lines
       /\ r.ledger = ledger /\ r.batches = rows.batches /\ r.bank = rows.bank
  BY <1>5 DEF ledger, payments, lines, chains
<1>17. r = [rows EXCEPT !.ledger = ledger, !.payments = payments, !.lines = lines,
                        !.chains = chains]
  BY DEF ledger, payments, lines, chains
<1>. HIDE DEF r, new
<1>18. r \in RowTables
  BY <1>1, <1>11, <1>12, <1>13, <1>15, <1>17 DEF RowTables
<1>19. Wired(r)
  <2>1. Len(r.chains) = Len(r.payments)
    BY <1>12, <1>13, <1>16
  <2>2. \A l \in DOMAIN rows.lines :
          /\ rows.lines[l].payment \in 1 .. n /\ rows.lines[l].batch \in DOMAIN rows.batches
          /\ rows.lines[l].settled = rows.batches[rows.lines[l].batch].settled
          /\ rows.lines[l].settled \in Int
    BY <1>1, <1>5 DEF Wired, LineRow
  <2>3. \A p \in 1 .. n : p \in 1 .. n + d
    BY <1>5, <1>10
  <2>4. \A i \in 1 .. d : n + i \in 1 .. n + d
    BY <1>5, <1>10
  <2>5. ASSUME NEW l \in DOMAIN lines
        PROVE  /\ lines[l].payment \in 1 .. n + d /\ lines[l].batch \in DOMAIN rows.batches
               /\ lines[l].settled = rows.batches[lines[l].batch].settled
    <3>1. CASE l \in 1 .. Len(rows.lines)
      BY <1>5, <1>15, <2>2, <2>3, <3>1
    <3>2. ASSUME NEW j \in 1 .. d, l = Len(rows.lines) + j
          PROVE  /\ lines[l].payment \in 1 .. n + d /\ lines[l].batch \in DOMAIN rows.batches
                 /\ lines[l].settled = rows.batches[lines[l].batch].settled
      BY <1>14, <1>15, <2>4, <3>2
    <3>. QED  BY <1>15, <3>1, <3>2
  <2>6. ASSUME NEW l \in DOMAIN rows.lines
        PROVE  l \in DOMAIN lines /\ lines[l] = rows.lines[l]
    BY <1>5, <1>10, <1>15
  <2>7. ASSUME NEW p \in 1 .. n + d
        PROVE  \/ p \in 1 .. n
               \/ \E l \in DOMAIN lines : lines[l].type = "PAYMENT" /\ lines[l].payment = p
    <3>1. ASSUME NEW j \in 1 .. d, p = n + j
          PROVE  \E l \in DOMAIN lines : lines[l].type = "PAYMENT" /\ lines[l].payment = p
      <4>1. Len(rows.lines) + j \in DOMAIN lines
        BY <1>5, <1>10, <1>15
      <4>. QED  BY <1>14, <1>15, <3>1, <4>1
    <3>. QED  BY <1>12, <3>1
  <2>8. ASSUME NEW i \in DOMAIN ledger
        PROVE  \E j \in 1 .. n : ledger[i].date = rows.ledger[j].date
    <3>1. ASSUME NEW j \in 1 .. c, i = n + j
          PROVE  \E k \in 1 .. n : ledger[i].date = rows.ledger[k].date
      <4>1. copies[j] \in 1 .. n /\ ledger[i] = rows.ledger[copies[j]]
        BY <1>10, <1>11, <3>1
      <4>. QED  BY <4>1 DEF Note
    <3>2. ASSUME NEW j \in 1 .. d, i = n + c + j
          PROVE  \E k \in 1 .. n : ledger[i].date = rows.ledger[k].date
      <4>1. repeats[j] \in 1 .. n /\ ledger[i].date = rows.ledger[repeats[j]].date
        BY <1>10, <1>11, <3>2
      <4>. QED  BY <4>1 DEF Note
    <3>3. CASE i \in 1 .. n
      BY <1>11, <3>3
    <3>. QED  BY <1>11, <3>1, <3>2, <3>3
  <2>9. \A l \in DOMAIN rows.lines :
          /\ l \in DOMAIN lines /\ lines[l].type = rows.lines[l].type
          /\ lines[l].payment = rows.lines[l].payment
          /\ rows.lines[l].settled =< lines[l].settled
    <3>1. ASSUME NEW l \in DOMAIN rows.lines
          PROVE  rows.lines[l].settled =< lines[l].settled
      BY <2>2, <2>6
    <3>. QED  BY <2>6, <3>1
  <2>10. DOMAIN rows.payments = 1 .. n /\ DOMAIN payments = 1 .. n + d /\ DOMAIN rows.ledger = 1 .. n
    BY <1>5, <1>12
  <2>11. \A l \in DOMAIN r.lines :
           /\ r.lines[l].payment \in DOMAIN r.payments /\ r.lines[l].batch \in DOMAIN r.batches
           /\ r.lines[l].settled = r.batches[r.lines[l].batch].settled
    BY <1>16, <2>5, <2>10
  <2>12. \A l \in DOMAIN rows.lines :
          /\ l \in DOMAIN r.lines /\ r.lines[l].type = rows.lines[l].type
          /\ r.lines[l].payment = rows.lines[l].payment
          /\ rows.lines[l].settled =< r.lines[l].settled
    BY <1>16, <2>9
  <2>13. \A p \in DOMAIN r.payments :
            \/ p \in DOMAIN rows.payments
            \/ \E l \in DOMAIN r.lines : r.lines[l].type = "PAYMENT" /\ r.lines[l].payment = p
    BY <1>16, <2>7, <2>10
  <2>14. \A i \in DOMAIN r.ledger : \E j \in DOMAIN rows.ledger :
            r.ledger[i].date = rows.ledger[j].date
    BY <1>16, <2>8, <2>10
  <2>15. Outlived(rows, r)
    BY <1>16, <2>1, <2>11, <2>12, <2>13, <2>14 DEF Outlived
  <2>. QED  BY <1>1, <1>18, <2>15, WiredStays
<1>20. TwiceAtMost(r)
  <2>1. \A i \in 1 .. n : ledger[i].order = i
    BY <1>5, <1>11
  <2>2. \A i \in 1 .. c : ledger[n + i] = ledger[copies[i]]
    BY <1>10, <1>11
  <2>3. \A i \in 1 .. d : ledger[n + c + i].order = n + i
    BY <1>11
  <2>4. Copied(r.ledger, n, c, d, copies)
    BY <1>10, <1>11, <1>16, <2>1, <2>2, <2>3 DEF Copied
  <2>. QED  BY <1>5, <1>10, <2>4, CopiesAreSecond
<1>21. new \in SUBSET NoteTypes
  <2>1. ASSUME NEW p \in copied
        PROVE  Note("duplicate_ledger_rows", "ledger_row", p, "DUPLICATE_CONFIRMED", TRUE,
                    rows.ledger[p].gross) \in NoteTypes
    <3>1. p \in Nat \ {0} /\ rows.ledger[p].gross \in Int
      BY <1>5, <1>7 DEF LedgerEntry
    <3>. QED  BY <3>1, NoteIsTyped
  <2>2. ASSUME NEW i \in DOMAIN repeats
        PROVE  Note("duplicate_ledger_rows", "case", old + i, "DUPLICATE_CANDIDATE", TRUE, 0)
                 \in NoteTypes
    <3>. DEFINE q == old + i
    <3>1. q \in Nat \ {0} /\ 0 \in Int
      BY <1>5, <1>10
    <3>. HIDE DEF q
    <3>. QED  BY <3>1, NoteIsTyped DEF q
  <2>. QED  BY <2>1, <2>2 DEF new
<1>22. SingleLines(r)
  <2>1. ASSUME NEW l \in DOMAIN lines
        PROVE  \/ l \in DOMAIN rows.lines /\ lines[l] = rows.lines[l] /\ rows.lines[l].payment \in 1 .. n
               \/ \E i \in 1 .. d : l = Len(rows.lines) + i /\ lines[l].payment = n + i
    <3>1. CASE l \in 1 .. Len(rows.lines)
      BY <1>1, <1>5, <1>15, <3>1 DEF Wired
    <3>2. ASSUME NEW j \in 1 .. d, l = Len(rows.lines) + j
          PROVE  \E i \in 1 .. d : l = Len(rows.lines) + i /\ lines[l].payment = n + i
      BY <1>14, <1>15, <3>2
    <3>. QED  BY <1>15, <3>1, <3>2
  <2>2. ASSUME NEW k \in DOMAIN lines, NEW l \in DOMAIN lines,
               lines[k].type = "PAYMENT", lines[l].type = "PAYMENT",
               lines[k].payment = lines[l].payment
        PROVE  k = l
    <3>1. CASE k \in DOMAIN rows.lines /\ lines[k] = rows.lines[k]
                 /\ l \in DOMAIN rows.lines /\ lines[l] = rows.lines[l]
      BY <1>1, <2>2, <3>1 DEF SingleLines
    <3>2. ASSUME NEW i \in 1 .. d, k = Len(rows.lines) + i, lines[k].payment = n + i
          PROVE  k = l
      <4>1. \A p \in 1 .. n : p # n + i
        BY <1>5, <1>10
      <4>2. PICK j \in 1 .. d : l = Len(rows.lines) + j /\ lines[l].payment = n + j
        BY <2>1, <2>2, <3>2, <4>1
      <4>3. n + i = n + j
        BY <2>2, <3>2, <4>2, Zenon
      <4>. QED  BY <1>5, <1>10, <3>2, <4>2, <4>3
    <3>3. ASSUME NEW i \in 1 .. d, l = Len(rows.lines) + i, lines[l].payment = n + i
          PROVE  k = l
      <4>1. \A p \in 1 .. n : p # n + i
        BY <1>5, <1>10
      <4>2. PICK j \in 1 .. d : k = Len(rows.lines) + j /\ lines[k].payment = n + j
        BY <2>1, <2>2, <3>3, <4>1
      <4>3. n + i = n + j
        BY <2>2, <3>3, <4>2, Zenon
      <4>. QED  BY <1>5, <1>10, <3>3, <4>2, <4>3
    <3>. QED  BY <2>1, <2>2, <3>1, <3>2, <3>3
  <2>. QED  BY <1>16, <2>2 DEF SingleLines
<1>23. /\ Resummed(r) \in RowTables /\ Wired(Resummed(r)) /\ PaidOut(Resummed(r))
       /\ TwiceAtMost(Resummed(r)) /\ SingleLines(Resummed(r))
  <2>1. /\ Resummed(r) \in RowTables /\ Wired(Resummed(r)) /\ PaidOut(Resummed(r))
        /\ Resummed(r).ledger = r.ledger /\ Resummed(r).lines = r.lines
    BY <1>1, <1>16, <1>18, <1>19, ResummedIsSound DEF PaidOut
  <2>. QED  BY <1>20, <1>22, <2>1 DEF TwiceAtMost, SingleLines
<1>24. Injected(stage, Resummed(r), new)
  BY <1>1, <1>4 DEF Injected, r, new, copies, repeats, old
<1>. QED  BY <1>1, <1>21, <1>23, <1>24, EarlyInjectionKeeps

-----------------------------------------------------------------------------
(* Other lines and chains, of the same payments and batches, that settle   *)
(* no earlier, are as sound as they were.                                  *)
Relines(lines) ==
    /\ \A l \in DOMAIN lines :
          /\ lines[l].payment \in DOMAIN rows.payments
          /\ lines[l].batch \in DOMAIN rows.batches
          /\ lines[l].settled = rows.batches[lines[l].batch].settled
    /\ \A l \in DOMAIN rows.lines :
          /\ l \in DOMAIN lines /\ lines[l].type = rows.lines[l].type
          /\ lines[l].payment = rows.lines[l].payment
          /\ rows.lines[l].settled =< lines[l].settled

LEMMA RelinedIsSound ==
  ASSUME rows \in RowTables, Wired(rows), TwiceAtMost(rows), PaidOut(rows),
         NEW lines \in Seq(LineRow), NEW chains \in Seq(ChainRow), NEW r,
         r = [rows EXCEPT !.lines = lines, !.chains = chains],
         Len(chains) = Len(rows.chains), Relines(lines)
  PROVE  /\ Resummed(r) \in RowTables /\ Wired(Resummed(r)) /\ PaidOut(Resummed(r))
         /\ TwiceAtMost(Resummed(r)) /\ Resummed(r).lines = lines
<1>1. DOMAIN rows = {"ledger", "payments", "refunds", "lines", "batches", "bank", "chains"}
  BY TablesHoldRows
<1>2. /\ r.lines = lines /\ r.chains = chains /\ r.payments = rows.payments
      /\ r.ledger = rows.ledger /\ r.batches = rows.batches /\ r.bank = rows.bank
  BY <1>1
<1>3. r \in RowTables
  BY DEF RowTables
<1>4. Wired(r)
  <2>1. Len(r.chains) = Len(r.payments)
    BY <1>2 DEF Wired
  <2>2. \A l \in DOMAIN r.lines :
            /\ r.lines[l].payment \in DOMAIN r.payments /\ r.lines[l].batch \in DOMAIN r.batches
            /\ r.lines[l].settled = r.batches[r.lines[l].batch].settled
    BY <1>2 DEF Relines
  <2>3. \A l \in DOMAIN rows.lines :
            /\ l \in DOMAIN r.lines /\ r.lines[l].type = rows.lines[l].type
            /\ r.lines[l].payment = rows.lines[l].payment
            /\ rows.lines[l].settled =< r.lines[l].settled
    BY <1>2 DEF Relines
  <2>4. \A p \in DOMAIN r.payments :
            \/ p \in DOMAIN rows.payments
            \/ \E l \in DOMAIN r.lines : r.lines[l].type = "PAYMENT" /\ r.lines[l].payment = p
    BY <1>2
  <2>5. \A i \in DOMAIN r.ledger : \E j \in DOMAIN rows.ledger :
            r.ledger[i].date = rows.ledger[j].date
    BY <1>2
  <2>6. Outlived(rows, r)
    BY <1>2, <2>1, <2>2, <2>3, <2>4, <2>5 DEF Outlived
  <2>. QED  BY <1>3, <2>6, WiredStays
<1>5. /\ Resummed(r) \in RowTables /\ Wired(Resummed(r)) /\ PaidOut(Resummed(r))
      /\ Resummed(r).ledger = rows.ledger /\ Resummed(r).lines = lines
  BY <1>2, <1>3, <1>4, ResummedIsSound DEF PaidOut
<1>. QED  BY <1>5 DEF TwiceAtMost

LEMMA LaterIsLater ==
  ASSUME NEW b, NEW profile, NEW n, NEW o \in LaterBatches(b, profile, n)
  PROVE  o \in DOMAIN rows.batches /\ rows.batches[b].settled < rows.batches[o].settled
BY DEF LaterBatches

LEMMA MovedIsLine ==
  ASSUME rows \in RowTables, NEW line \in LineRow, NEW b \in DOMAIN rows.batches
  PROVE  /\ Moved(line, b) \in LineRow
         /\ Moved(line, b).type = line.type /\ Moved(line, b).payment = line.payment
         /\ Moved(line, b).batch = b /\ Moved(line, b).settled = rows.batches[b].settled
<1>1. b \in Nat \ {0} /\ rows.batches[b] \in BatchRow
  BY TablesHoldRows
<1>2. rows.batches[b].settled \in Int
  BY <1>1 DEF BatchRow
<1>. QED  BY <1>1, <1>2 DEF Moved, LineRow

LEMMA DelayedSettlementKeeps ==
  ASSUME GeneratorInv, DelayedSettlement
  PROVE  GeneratorInv'
<1>. DEFINE target(picked, lag) == [l \in picked |->
                LaterBatches(rows.lines[l].batch, ProfileOfLine(l), lag[l])]
            later(picked, lag) == {l \in picked : target(picked, lag)[l] # {}}
            delayed(picked, lag) == [l \in DOMAIN rows.lines |-> IF l \in later(picked, lag)
                THEN Moved(rows.lines[l], CHOOSE b \in target(picked, lag)[l] : TRUE)
                ELSE rows.lines[l]]
            noted(picked, lag) ==
                {Note("delayed_settlement", "case", rows.lines[l].payment, "T_PLUS_N_TIMING",
                      TRUE, 0) : l \in later(picked, lag)}
<1>1. /\ stage = "delayed_settlement" /\ rows \in RowTables /\ Wired(rows)
      /\ TwiceAtMost(rows) /\ PaidOut(rows) /\ SingleLines(rows)
  BY DEF GeneratorInv, DelayedSettlement, Single, Settling, Punctual
<1>2. \E picked \in Picks(PaymentLineIds, 0) : \E lag \in [picked -> 1 .. 2] :
        Injected("delayed_settlement", Resummed([rows EXCEPT !.lines = delayed(picked, lag)]),
                 noted(picked, lag))
  BY DEF DelayedSettlement
<1>3. PICK picked \in Picks(PaymentLineIds, 0) : \E lag \in [picked -> 1 .. 2] :
        Injected("delayed_settlement", Resummed([rows EXCEPT !.lines = delayed(picked, lag)]),
                 noted(picked, lag))
  BY <1>2
<1>4. PICK lag \in [picked -> 1 .. 2] :
        Injected("delayed_settlement", Resummed([rows EXCEPT !.lines = delayed(picked, lag)]),
                 noted(picked, lag))
  BY <1>3
<1>. DEFINE late == later(picked, lag)
            to(l) == CHOOSE b \in target(picked, lag)[l] : TRUE
            lines == delayed(picked, lag)
            r == [rows EXCEPT !.lines = lines]
            new == noted(picked, lag)
<1>5. /\ \A l \in DOMAIN rows.lines : rows.lines[l] \in LineRow
      /\ \A b \in DOMAIN rows.batches : rows.batches[b] \in BatchRow
      /\ rows.lines \in Seq(LineRow) /\ rows.chains \in Seq(ChainRow)
      /\ \A l \in DOMAIN rows.lines :
            /\ rows.lines[l].payment \in DOMAIN rows.payments
            /\ rows.lines[l].batch \in DOMAIN rows.batches
            /\ rows.lines[l].settled = rows.batches[rows.lines[l].batch].settled
      /\ DOMAIN rows = {"ledger", "payments", "refunds", "lines", "batches", "bank", "chains"}
  BY <1>1, TablesHoldRows DEF Wired, RowTables
<1>6. ASSUME NEW l \in late
      PROVE  /\ l \in DOMAIN rows.lines /\ to(l) \in DOMAIN rows.batches
             /\ rows.lines[l].settled < rows.batches[to(l)].settled
  <2>1. l \in picked /\ l \in PaymentLineIds
    BY PickedAreRows
  <2>2. l \in DOMAIN rows.lines
    BY <2>1 DEF PaymentLineIds
  <2>3. to(l) \in LaterBatches(rows.lines[l].batch, ProfileOfLine(l), lag[l])
    BY <2>1
  <2>. QED  BY <1>5, <2>2, <2>3, LaterIsLater
<1>. HIDE DEF late, to
<1>7. ASSUME NEW l \in DOMAIN rows.lines
      PROVE  /\ lines[l] \in LineRow /\ lines[l].type = rows.lines[l].type
             /\ lines[l].payment = rows.lines[l].payment
             /\ lines[l].batch \in DOMAIN rows.batches
             /\ lines[l].settled = rows.batches[lines[l].batch].settled
             /\ rows.lines[l].settled =< lines[l].settled
  <2>1. lines[l] = IF l \in late THEN Moved(rows.lines[l], to(l)) ELSE rows.lines[l]
    BY DEF late, to
  <2>2. rows.lines[l] \in LineRow /\ rows.lines[l].settled \in Int
    BY <1>5 DEF LineRow
  <2>. HIDE DEF lines
  <2>3. CASE l \in late
    <3>1. to(l) \in DOMAIN rows.batches /\ rows.batches[to(l)].settled \in Int
      BY <1>5, <1>6, <2>3 DEF BatchRow
    <3>2. /\ lines[l] \in LineRow
          /\ lines[l].type = rows.lines[l].type /\ lines[l].payment = rows.lines[l].payment
          /\ lines[l].batch = to(l) /\ lines[l].settled = rows.batches[to(l)].settled
      BY <1>1, <2>1, <2>2, <2>3, <3>1, MovedIsLine
    <3>. QED  BY <1>6, <2>2, <2>3, <3>1, <3>2
  <2>4. CASE l \notin late
    BY <1>5, <2>1, <2>2, <2>4
  <2>. QED  BY <2>3, <2>4
<1>8. lines \in Seq(LineRow) /\ DOMAIN lines = DOMAIN rows.lines
  <2>1. DOMAIN lines = DOMAIN rows.lines /\ lines = [l \in DOMAIN lines |-> lines[l]]
    OBVIOUS
  <2>. HIDE DEF lines
  <2>. QED  BY <1>5, <1>7, <2>1, ChangedIsSeq
<1>. HIDE DEF lines
<1>9. r = [rows EXCEPT !.lines = lines, !.chains = rows.chains]
  BY <1>1, <1>5 DEF RowTables
<1>10. Relines(lines)
  BY <1>5, <1>7, <1>8 DEF Relines
<1>11. /\ Resummed(r) \in RowTables /\ Wired(Resummed(r)) /\ PaidOut(Resummed(r))
       /\ TwiceAtMost(Resummed(r)) /\ Resummed(r).lines = lines
  <2>. HIDE DEF r
  <2>. QED  BY <1>1, <1>5, <1>8, <1>9, <1>10, RelinedIsSound
<1>12. SingleLines(Resummed(r))
  BY <1>1, <1>7, <1>8, <1>11, SingleStays
<1>13. new \in SUBSET NoteTypes
  <2>1. ASSUME NEW l \in late
        PROVE  Note("delayed_settlement", "case", rows.lines[l].payment, "T_PLUS_N_TIMING",
                    TRUE, 0) \in NoteTypes
    <3>1. rows.lines[l].payment \in Nat \ {0} /\ 0 \in Int
      BY <1>5, <1>6 DEF LineRow
    <3>. QED  BY <3>1, NoteIsTyped
  <2>. QED  BY <2>1 DEF late
<1>14. Injected(stage, Resummed(r), new)
  BY <1>1, <1>4 DEF Injected, lines
<1>. HIDE DEF r, new
<1>. QED  BY <1>1, <1>11, <1>13, <1>14, <1>12, EarlyInjectionKeeps

LEMMA RepricedIsLine ==
  ASSUME NEW line \in LineRow, NEW price \in Prices
  PROVE  /\ Repriced(line, price) \in LineRow
         /\ Repriced(line, price).type = line.type
         /\ Repriced(line, price).payment = line.payment
         /\ Repriced(line, price).batch = line.batch
         /\ Repriced(line, price).settled = line.settled
<1>1. /\ price.gross \in Int /\ price.fee \in Int /\ price.tax \in Int /\ price.net \in Int
  BY DEF Prices
<1>. QED  BY <1>1 DEF Repriced, LineRow

LEMMA SplitSettlementKeeps ==
  ASSUME GeneratorInv, SplitSettlement
  PROVE  GeneratorInv'
<1>. DEFINE following(picked) == [l \in picked |->
                LaterBatches(rows.lines[l].batch, ProfileOfLine(l), 1)]
            priced(l, gross) ==
                Priced(gross, rows.payments[rows.lines[l].payment].method, ProfileOfLine(l))
            firsts(picked, part) ==
                [l \in picked |-> priced(l, (rows.lines[l].gross * part[l]) \div 100)]
            seconds(picked, part) ==
                [l \in picked |-> priced(l, rows.lines[l].gross - firsts(picked, part)[l].gross)]
            parted(picked, part) ==
                {l \in picked : following(picked)[l] # {} /\ firsts(picked, part)[l].net > 0
                                  /\ seconds(picked, part)[l].net > 0}
            lineOf(split) == [p \in {rows.lines[l].payment : l \in split} |-> LineOf(p)]
            relined(split, first, second, next) ==
                [l \in DOMAIN rows.lines |-> IF l \in split
                    THEN Repriced(rows.lines[l], first[l]) ELSE rows.lines[l]]
                  \o [i \in DOMAIN Ascending(split) |->
                        Moved(Repriced(rows.lines[Ascending(split)[i]], second[Ascending(split)[i]]),
                              CHOOSE b \in next[Ascending(split)[i]] : TRUE)]
            rechained(split, first, second) ==
                [p \in DOMAIN rows.chains |-> IF p \in DOMAIN lineOf(split)
                  THEN LET a == first[lineOf(split)[p]]
                           b == second[lineOf(split)[p]]
                       IN  ChainOf(rows.chains[p], rows.chains[p].captured, a.fee + b.fee,
                                   a.tax + b.tax, a.net + b.net)
                  ELSE rows.chains[p]]
            noted(split) == {Note("split_settlement", "case", rows.lines[l].payment,
                                  "SPLIT_SETTLEMENT", TRUE, 0) : l \in split}
            big == {l \in PaymentLineIds : rows.lines[l].gross >= SplitFloor}
            Done(split, first, second, next) ==
                Injected("split_settlement",
                    Resummed([rows EXCEPT !.lines = relined(split, first, second, next),
                                          !.chains = rechained(split, first, second)]),
                    noted(split))
<1>1. /\ stage = "split_settlement" /\ rows \in RowTables /\ Wired(rows)
      /\ TwiceAtMost(rows) /\ PaidOut(rows) /\ SingleLines(rows)
  BY DEF GeneratorInv, SplitSettlement, Single, Settling, Punctual
<1>2. \E picked \in Picks(big, 0) : \E part \in [picked -> SplitParts] :
        Done(parted(picked, part), firsts(picked, part), seconds(picked, part), following(picked))
  BY DEF SplitSettlement
<1>. HIDE DEF Done
<1>3. PICK picked \in Picks(big, 0) : \E part \in [picked -> SplitParts] :
        Done(parted(picked, part), firsts(picked, part), seconds(picked, part), following(picked))
  BY <1>2
<1>4. PICK part \in [picked -> SplitParts] :
        Done(parted(picked, part), firsts(picked, part), seconds(picked, part), following(picked))
  BY <1>3
<1>. DEFINE next == following(picked)
            first == firsts(picked, part)
            second == seconds(picked, part)
            split == parted(picked, part)
            added == Ascending(split)
            n == Len(rows.lines)
            d == Len(added)
            to(l) == CHOOSE b \in next[l] : TRUE
            repriced == [l \in DOMAIN rows.lines |-> IF l \in split
                            THEN Repriced(rows.lines[l], first[l]) ELSE rows.lines[l]]
            more == [i \in DOMAIN added |->
                        Moved(Repriced(rows.lines[added[i]], second[added[i]]), to(added[i]))]
            lines == relined(split, first, second, next)
            chains == rechained(split, first, second)
            r == [rows EXCEPT !.lines = lines, !.chains = chains]
            new == noted(split)
<1>5. /\ n \in Nat /\ DOMAIN rows.lines = 1 .. n
      /\ \A l \in 1 .. n : rows.lines[l] \in LineRow
      /\ \A b \in DOMAIN rows.batches : rows.batches[b] \in BatchRow
      /\ \A p \in DOMAIN rows.payments : rows.payments[p] \in PaymentRow
      /\ \A p \in DOMAIN rows.chains : rows.chains[p] \in ChainRow
      /\ DOMAIN rows.chains = DOMAIN rows.payments
      /\ rows.lines \in Seq(LineRow) /\ rows.chains \in Seq(ChainRow)
      /\ \A l \in 1 .. n :
            /\ rows.lines[l].payment \in DOMAIN rows.payments
            /\ rows.lines[l].batch \in DOMAIN rows.batches
            /\ rows.lines[l].settled = rows.batches[rows.lines[l].batch].settled
            /\ rows.lines[l].payment \in Nat \ {0} /\ rows.lines[l].gross \in Int
            /\ rows.lines[l].settled \in Int
  <2>1. /\ n \in Nat /\ DOMAIN rows.lines = 1 .. n
        /\ \A l \in 1 .. n : rows.lines[l] \in LineRow
        /\ \A b \in DOMAIN rows.batches : rows.batches[b] \in BatchRow
        /\ \A p \in DOMAIN rows.payments : rows.payments[p] \in PaymentRow
        /\ \A p \in DOMAIN rows.chains : rows.chains[p] \in ChainRow
        /\ DOMAIN rows.chains = DOMAIN rows.payments
    BY <1>1, TablesHoldRows DEF Wired
  <2>2. rows.lines \in Seq(LineRow) /\ rows.chains \in Seq(ChainRow)
    BY <1>1 DEF RowTables
  <2>. HIDE DEF n
  <2>. QED  BY <1>1, <2>1, <2>2 DEF Wired, LineRow
<1>6. \A l \in picked : l \in 1 .. n /\ rows.lines[l].type = "PAYMENT"
  <2>1. picked \in SUBSET big
    BY PickedAreRows
  <2>. QED  BY <1>5, <2>1 DEF PaymentLineIds
<1>. HIDE DEF n
<1>7. ASSUME NEW l \in picked, NEW gross \in Int
      PROVE  priced(l, gross) \in Prices
  <2>1. l \in 1 .. n
    BY <1>6
  <2>2. /\ rows.payments[rows.lines[l].payment].method \in Methods
        /\ rows.chains[rows.lines[l].payment].profile \in Profiles
    BY <1>5, <2>1 DEF PaymentRow, ChainRow
  <2>. QED  BY <2>2, PricedInPaise DEF ProfileOfLine
<1>8. ASSUME NEW l \in picked
      PROVE  /\ first[l] \in Prices /\ second[l] \in Prices
             /\ first[l].fee \in Int /\ first[l].tax \in Int /\ first[l].net \in Int
             /\ second[l].fee \in Int /\ second[l].tax \in Int /\ second[l].net \in Int
  <2>. DEFINE whole == rows.lines[l].gross * part[l]
              amount == whole \div 100
              rest == rows.lines[l].gross - first[l].gross
  <2>1. rows.lines[l].gross \in Int /\ part[l] \in Int
    <3>1. part[l] \in Int
      BY SamplesAreWhole
    <3>. QED  BY <1>5, <1>6, <3>1
  <2>2. whole \in Int
    BY <2>1
  <2>3. amount \in Int
    <3>. HIDE DEF whole
    <3>. QED  BY <2>2, ScaledIsWhole
  <2>4. first[l] = priced(l, amount) /\ second[l] = priced(l, rest)
    OBVIOUS
  <2>. HIDE DEF amount, first, second, priced
  <2>5. first[l] \in Prices
    BY <1>7, <2>3, <2>4
  <2>6. first[l].gross \in Int
    BY <2>5 DEF Prices
  <2>7. rest \in Int
    BY <2>1, <2>6
  <2>. HIDE DEF rest
  <2>8. second[l] \in Prices
    BY <1>7, <2>4, <2>7
  <2>. QED  BY <2>5, <2>8 DEF Prices
<1>9. \A l \in split : l \in picked /\ l \in 1 .. n /\ next[l] # {}
  BY <1>6
<1>10. ASSUME NEW l \in split
       PROVE  /\ to(l) \in DOMAIN rows.batches
              /\ rows.lines[l].settled < rows.batches[to(l)].settled
  <2>1. l \in picked /\ l \in 1 .. n /\ next[l] # {}
    BY <1>9
  <2>2. next[l] = LaterBatches(rows.lines[l].batch, ProfileOfLine(l), 1)
    BY <2>1
  <2>. HIDE DEF next
  <2>3. to(l) \in LaterBatches(rows.lines[l].batch, ProfileOfLine(l), 1)
    BY <2>1, <2>2
  <2>. QED  BY <1>5, <2>1, <2>3, LaterIsLater
<1>. HIDE DEF next, first, second, split, to, added
<1>11. /\ d \in Nat /\ DOMAIN added = 1 .. d
       /\ \A i \in 1 .. d : added[i] \in split
  <2>1. split \in SUBSET (1 .. n) /\ IsFiniteSet(1 .. n) /\ split \in SUBSET Int
    BY <1>5, <1>9, FS_Interval
  <2>2. Lists(added, split)
    BY <2>1, FS_Subset, AscendingLists DEF added
  <2>3. added \in Seq(split)
    BY <2>2 DEF Lists
  <2>. QED  BY <2>3, LenProperties, ElementOfSeq
<1>. HIDE DEF d
<1>12. ASSUME NEW l \in 1 .. n
       PROVE  /\ repriced[l] \in LineRow /\ repriced[l].type = rows.lines[l].type
              /\ repriced[l].payment = rows.lines[l].payment
              /\ repriced[l].batch = rows.lines[l].batch
              /\ repriced[l].settled = rows.lines[l].settled
  <2>1. repriced[l] = IF l \in split THEN Repriced(rows.lines[l], first[l]) ELSE rows.lines[l]
    BY <1>5
  <2>. HIDE DEF repriced
  <2>2. CASE l \in split
    BY <1>5, <1>8, <1>9, <2>1, <2>2, RepricedIsLine
  <2>3. CASE l \notin split
    BY <1>5, <2>1, <2>3
  <2>. QED  BY <2>2, <2>3
<1>13. ASSUME NEW i \in 1 .. d
       PROVE  /\ more[i] \in LineRow
              /\ more[i].payment \in DOMAIN rows.payments /\ more[i].batch \in DOMAIN rows.batches
              /\ more[i].settled = rows.batches[more[i].batch].settled
  <2>. DEFINE l == added[i]
              line == Repriced(rows.lines[l], second[l])
  <2>1. l \in split /\ more[i] = Moved(line, to(l))
    BY <1>11
  <2>. HIDE DEF more, l
  <2>2. line \in LineRow /\ line.payment = rows.lines[l].payment
    BY <1>5, <1>8, <1>9, <2>1, RepricedIsLine
  <2>. HIDE DEF line
  <2>3. to(l) \in DOMAIN rows.batches
    BY <1>10, <2>1
  <2>4. /\ more[i] \in LineRow /\ more[i].payment = line.payment
        /\ more[i].batch = to(l) /\ more[i].settled = rows.batches[to(l)].settled
    BY <1>1, <2>1, <2>2, <2>3, MovedIsLine
  <2>. QED  BY <1>5, <1>9, <2>1, <2>2, <2>3, <2>4
<1>14. lines = repriced \o more
  BY DEF added, to
<1>15. /\ lines \in Seq(LineRow) /\ DOMAIN lines = 1 .. n + d
       /\ \A l \in 1 .. n : lines[l] = repriced[l]
       /\ \A i \in 1 .. d : lines[n + i] = more[i]
       /\ \A l \in 1 .. n + d : l \in 1 .. n \/ \E i \in 1 .. d : l = n + i
  <2>1. repriced \in [1 .. n -> LineRow] /\ more \in [1 .. d -> LineRow]
    BY <1>5, <1>11, <1>12, <1>13
  <2>. HIDE DEF repriced, more, lines
  <2>2. repriced \in Seq(LineRow) /\ Len(repriced) = n
    BY <1>5, <2>1, SeqOf
  <2>3. lines \in Seq(LineRow) /\ Extended(lines, repriced, d, more)
    BY <1>11, <1>14, <2>1, <2>2, Lengthened
  <2>. QED  BY <2>2, <2>3 DEF Extended
<1>. HIDE DEF repriced, more, lines
<1>16. Relines(lines)
  <2>1. ASSUME NEW l \in DOMAIN lines
        PROVE  /\ lines[l].payment \in DOMAIN rows.payments
               /\ lines[l].batch \in DOMAIN rows.batches
               /\ lines[l].settled = rows.batches[lines[l].batch].settled
    <3>1. CASE l \in 1 .. n
      <4>1. lines[l] = repriced[l]
        BY <1>15, <3>1
      <4>. QED  BY <1>5, <1>12, <3>1, <4>1
    <3>2. ASSUME NEW i \in 1 .. d, l = n + i
          PROVE  /\ lines[l].payment \in DOMAIN rows.payments
                 /\ lines[l].batch \in DOMAIN rows.batches
                 /\ lines[l].settled = rows.batches[lines[l].batch].settled
      <4>1. lines[l] = more[i]
        BY <1>15, <3>2
      <4>. QED  BY <1>13, <4>1
    <3>. QED  BY <1>15, <3>1, <3>2
  <2>2. ASSUME NEW l \in 1 .. n
        PROVE  /\ l \in DOMAIN lines /\ lines[l].type = rows.lines[l].type
               /\ lines[l].payment = rows.lines[l].payment
               /\ rows.lines[l].settled =< lines[l].settled
    <3>1. l \in 1 .. n + d
      BY <1>5, <1>11
    <3>2. lines[l] = repriced[l]
      BY <1>15
    <3>. QED  BY <1>5, <1>12, <1>15, <3>1, <3>2
  <2>. QED  BY <1>5, <2>1, <2>2 DEF Relines
<1>17. chains \in Seq(ChainRow) /\ Len(chains) = Len(rows.chains)
  <2>. DEFINE pays == {rows.lines[l].payment : l \in split}
              a(p) == first[LineOf(p)]
              b(p) == second[LineOf(p)]
  <2>1. ASSUME NEW p \in pays
        PROVE  LineOf(p) \in picked
    <3>1. PICK l \in split : p = rows.lines[l].payment
      OBVIOUS
    <3>2. l \in picked /\ l \in 1 .. n /\ rows.lines[l].type = "PAYMENT"
      BY <1>6, <1>9
    <3>3. p \in DOMAIN rows.payments
      BY <1>5, <3>1, <3>2
    <3>4. /\ LineOf(p) \in 1 .. n /\ rows.lines[LineOf(p)].payment = p
          /\ rows.lines[LineOf(p)].type = "PAYMENT"
      BY <1>1, <1>5, <3>3, LineIsFound
    <3>5. LineOf(p) = l
      BY <1>1, <1>5, <3>1, <3>2, <3>4 DEF SingleLines
    <3>. QED  BY <3>2, <3>5
  <2>2. ASSUME NEW p \in DOMAIN rows.chains
        PROVE  chains[p] \in ChainRow
    <3>0. rows.chains[p] \in ChainRow /\ rows.chains[p].captured \in Int
      BY <1>5 DEF ChainRow
    <3>1. CASE p \in pays
      <4>1. chains[p] = ChainOf(rows.chains[p], rows.chains[p].captured, a(p).fee + b(p).fee,
                                a(p).tax + b(p).tax, a(p).net + b(p).net)
        BY <3>1
      <4>2. /\ a(p).fee \in Int /\ a(p).tax \in Int /\ a(p).net \in Int
            /\ b(p).fee \in Int /\ b(p).tax \in Int /\ b(p).net \in Int
        BY <1>8, <2>1, <3>1
      <4>. DEFINE fee == a(p).fee + b(p).fee
                  tax == a(p).tax + b(p).tax
                  net == a(p).net + b(p).net
      <4>3. fee \in Int /\ tax \in Int /\ net \in Int
        <5>. HIDE DEF a, b
        <5>. QED  BY <4>2
      <4>. HIDE DEF fee, tax, net, chains
      <4>4. chains[p] = ChainOf(rows.chains[p], rows.chains[p].captured, fee, tax, net)
        BY <4>1 DEF fee, tax, net
      <4>. QED  BY <3>0, <4>3, <4>4 DEF ChainRow, ChainOf
    <3>2. CASE p \notin pays
      <4>1. chains[p] = rows.chains[p]
        BY <3>2
      <4>. HIDE DEF chains
      <4>. QED  BY <3>0, <4>1
    <3>. QED  BY <3>1, <3>2
  <2>3. DOMAIN chains = DOMAIN rows.chains /\ chains = [p \in DOMAIN chains |-> chains[p]]
    OBVIOUS
  <2>. HIDE DEF chains
  <2>. QED  BY <1>5, <2>2, <2>3, ChangedIsSeq
<1>. HIDE DEF chains
<1>18. /\ Resummed(r) \in RowTables /\ Wired(Resummed(r)) /\ PaidOut(Resummed(r))
       /\ TwiceAtMost(Resummed(r))
  BY <1>1, <1>15, <1>16, <1>17, RelinedIsSound
<1>19. new \in SUBSET NoteTypes
  <2>1. ASSUME NEW l \in split
        PROVE  Note("split_settlement", "case", rows.lines[l].payment, "SPLIT_SETTLEMENT",
                    TRUE, 0) \in NoteTypes
    <3>1. rows.lines[l].payment \in Nat \ {0} /\ 0 \in Int
      BY <1>5, <1>9
    <3>. QED  BY <3>1, NoteIsTyped
  <2>. QED  BY <2>1
<1>20. Injected(stage, Resummed(r), new)
  <2>1. Done(split, first, second, next)
    BY <1>4 DEF split, first, second, next
  <2>. QED  BY <1>1, <2>1 DEF Injected, Done, lines, chains
<1>. HIDE DEF r, new
<1>. QED  BY <1>1, <1>18, <1>19, <1>20, EarlyInjectionKeeps

-----------------------------------------------------------------------------
(* Other credits leave the rest as it hung together. *)
LEMMA RebankedIsSound ==
  ASSUME rows \in RowTables, Wired(rows), TwiceAtMost(rows), NEW bank \in BankTables, NEW r,
         r = [rows EXCEPT !.bank = bank]
  PROVE  /\ r \in RowTables /\ Wired(r) /\ TwiceAtMost(r)
         /\ r.bank = bank /\ r.batches = rows.batches /\ r.lines = rows.lines
         /\ r.refunds = rows.refunds
<1>1. DOMAIN rows = {"ledger", "payments", "refunds", "lines", "batches", "bank", "chains"}
  BY TablesHoldRows
<1>2. /\ r.lines = rows.lines /\ r.chains = rows.chains /\ r.payments = rows.payments
      /\ r.ledger = rows.ledger /\ r.batches = rows.batches /\ r.bank = bank
      /\ r.refunds = rows.refunds
  BY <1>1
<1>3. r \in RowTables
  BY DEF RowTables
<1>4. Wired(r)
  BY <1>2 DEF Wired
<1>5. TwiceAtMost(r)
  BY <1>2 DEF TwiceAtMost
<1>. QED  BY <1>2, <1>3, <1>4, <1>5

LEMMA WithTokensIsSound ==
  ASSUME rows \in RowTables, Wired(rows), TwiceAtMost(rows), PaidOut(rows), NEW token,
         \A c \in DOMAIN rows.bank : c \in DOMAIN token => token[c] \in TokensUsed
  PROVE  /\ WithTokens(token) \in RowTables /\ Wired(WithTokens(token))
         /\ TwiceAtMost(WithTokens(token)) /\ PaidOut(WithTokens(token))
<1>. DEFINE bank == [c \in DOMAIN rows.bank |-> IF c \in DOMAIN token
                        THEN [rows.bank[c] EXCEPT !.token = token[c]] ELSE rows.bank[c]]
<1>1. /\ rows.bank \in BankTables
      /\ \A c \in DOMAIN rows.bank : rows.bank[c] \in BankRow
  BY TablesHoldRows DEF RowTables
<1>2. ASSUME NEW c \in DOMAIN rows.bank
      PROVE  bank[c] \in BankRow /\ bank[c].amount = rows.bank[c].amount
  <2>1. rows.bank[c] \in BankRow
    BY <1>1
  <2>. QED  BY <2>1 DEF BankRow
<1>3. bank \in BankTables /\ DOMAIN bank = DOMAIN rows.bank
  <2>1. PICK ids \in SUBSET (Nat \ {0}) : rows.bank \in [ids -> BankRow]
    BY <1>1 DEF BankTables
  <2>2. bank \in [ids -> BankRow]
    BY <1>2, <2>1
  <2>. HIDE DEF bank
  <2>. QED  BY <2>1, <2>2 DEF BankTables
<1>4. WithTokens(token) = [rows EXCEPT !.bank = bank]
  BY DEF WithTokens
<1>. HIDE DEF bank
<1>5. /\ WithTokens(token) \in RowTables /\ Wired(WithTokens(token))
      /\ TwiceAtMost(WithTokens(token))
      /\ WithTokens(token).bank = bank /\ WithTokens(token).batches = rows.batches
  BY <1>3, <1>4, RebankedIsSound
<1>. QED  BY <1>2, <1>3, <1>5 DEF PaidOut

LEMMA IntactIsCarried ==
  ASSUME rows \in RowTables, NEW c \in IntactCredits
  PROVE  /\ c \in DOMAIN rows.bank /\ c \in DOMAIN rows.batches /\ c \in Nat \ {0}
         /\ rows.batches[c].utr \in UtrsUsed
         /\ rows.bank[c].token \in [kind : {"PREFIX", "GARBLED"}, of : UtrsUsed, kept : Int]
<1>1. /\ c \in DOMAIN rows.bank /\ c \in DOMAIN rows.batches
      /\ rows.bank[c].token.kind = "PREFIX"
  BY DEF IntactCredits, CarriesUtr
<1>2. rows.bank[c] \in BankRow /\ c \in Nat \ {0} /\ rows.batches[c] \in BatchRow
  BY <1>1, TablesHoldRows
<1>3. rows.bank[c].token \in TokensUsed /\ rows.batches[c].utr \in UtrsUsed
  BY <1>2 DEF BankRow, BatchRow
<1>4. rows.bank[c].token # NoToken
  BY <1>1 DEF NoToken
<1>. QED  BY <1>1, <1>2, <1>3, <1>4 DEF TokensUsed

LEMMA TruncateUtrKeeps ==
  ASSUME GeneratorInv, TruncateUtr
  PROVE  GeneratorInv'
<1>. DEFINE cut(picked, keep) == [c \in picked |-> [rows.bank[c].token EXCEPT !.kept = keep[c]]]
            sharing(c, picked, keep) == {b \in DOMAIN rows.batches :
                Shared(cut(picked, keep)[c], rows.batches[b].utr) = keep[c]}
            noted(picked, keep) ==
                {Note("truncate_utr", "batch_link", c, "UTR_TRUNCATED_MAPPING",
                      Cardinality(sharing(c, picked, keep)) = 1, 0) : c \in picked}
<1>1. /\ stage = "truncate_utr" /\ rows \in RowTables /\ Wired(rows)
      /\ TwiceAtMost(rows) /\ PaidOut(rows)
  BY DEF GeneratorInv, TruncateUtr, Settling, Punctual
<1>2. \E picked \in Picks(IntactCredits, 0) : \E keep \in [picked -> KeepLengths] :
        Injected("truncate_utr", WithTokens(cut(picked, keep)), noted(picked, keep))
  BY DEF TruncateUtr
<1>3. PICK picked \in Picks(IntactCredits, 0) : \E keep \in [picked -> KeepLengths] :
        Injected("truncate_utr", WithTokens(cut(picked, keep)), noted(picked, keep))
  BY <1>2
<1>4. PICK keep \in [picked -> KeepLengths] :
        Injected("truncate_utr", WithTokens(cut(picked, keep)), noted(picked, keep))
  BY <1>3
<1>. DEFINE prefix == cut(picked, keep)
            r == WithTokens(prefix)
            new == noted(picked, keep)
<1>5. \A c \in picked : c \in IntactCredits
  BY PickedAreRows
<1>6. ASSUME NEW c \in picked
      PROVE  prefix[c] \in TokensUsed
  <2>1. keep[c] \in Int
    BY SamplesAreWhole
  <2>2. rows.bank[c].token \in [kind : {"PREFIX", "GARBLED"}, of : UtrsUsed, kept : Int]
    BY <1>1, <1>5, IntactIsCarried
  <2>3. prefix[c] = [rows.bank[c].token EXCEPT !.kept = keep[c]]
    OBVIOUS
  <2>. HIDE DEF prefix
  <2>. QED  BY <2>1, <2>2, <2>3 DEF TokensUsed
<1>7. DOMAIN prefix = picked
  OBVIOUS
<1>8. new \in SUBSET NoteTypes
  <2>1. ASSUME NEW c \in picked
        PROVE  Note("truncate_utr", "batch_link", c, "UTR_TRUNCATED_MAPPING",
                    Cardinality(sharing(c, picked, keep)) = 1, 0) \in NoteTypes
    <3>1. c \in Nat \ {0} /\ 0 \in Int
      BY <1>1, <1>5, IntactIsCarried
    <3>. HIDE DEF sharing
    <3>. QED  BY <3>1, ResolvableOrNot
  <2>. HIDE DEF sharing
  <2>. QED  BY <2>1
<1>9. Injected(stage, r, new)
  BY <1>1, <1>4 DEF Injected
<1>. HIDE DEF prefix
<1>10. r \in RowTables /\ Wired(r) /\ TwiceAtMost(r) /\ PaidOut(r)
  BY <1>1, <1>6, <1>7, WithTokensIsSound
<1>. HIDE DEF r, new
<1>. QED  BY <1>1, <1>8, <1>9, <1>10, EarlyInjectionKeeps

LEMMA DropUtrKeeps ==
  ASSUME GeneratorInv, DropUtr
  PROVE  GeneratorInv'
<1>. DEFINE equal(c) == {b \in DOMAIN rows.batches : rows.batches[b].net = rows.bank[c].amount}
            noted(picked) ==
                {Note("drop_utr", "batch_link", c, "UTR_MISSING_MAPPING",
                      Cardinality(equal(c)) = 1, 0) : c \in picked}
<1>1. /\ stage = "drop_utr" /\ rows \in RowTables /\ Wired(rows)
      /\ TwiceAtMost(rows) /\ PaidOut(rows)
  BY DEF GeneratorInv, DropUtr, Settling, Punctual
<1>2. \E picked \in Picks(IntactCredits, 0) :
        Injected("drop_utr", WithTokens([c \in picked |-> NoToken]), noted(picked))
  BY DEF DropUtr
<1>3. PICK picked \in Picks(IntactCredits, 0) :
        Injected("drop_utr", WithTokens([c \in picked |-> NoToken]), noted(picked))
  BY <1>2
<1>. DEFINE token == [c \in picked |-> NoToken]
            r == WithTokens(token)
            new == noted(picked)
<1>4. \A c \in DOMAIN token : token[c] \in TokensUsed
  BY DEF TokensUsed
<1>5. new \in SUBSET NoteTypes
  <2>1. ASSUME NEW c \in picked
        PROVE  Note("drop_utr", "batch_link", c, "UTR_MISSING_MAPPING",
                    Cardinality(equal(c)) = 1, 0) \in NoteTypes
    <3>1. c \in Nat \ {0} /\ 0 \in Int
      BY <1>1, PickedAreRows, IntactIsCarried
    <3>. HIDE DEF equal
    <3>. QED  BY <3>1, ResolvableOrNot
  <2>. HIDE DEF equal
  <2>. QED  BY <2>1
<1>6. Injected(stage, r, new)
  BY <1>1, <1>3 DEF Injected
<1>. HIDE DEF token
<1>7. r \in RowTables /\ Wired(r) /\ TwiceAtMost(r) /\ PaidOut(r)
  BY <1>1, <1>4, WithTokensIsSound
<1>. HIDE DEF r, new
<1>. QED  BY <1>1, <1>5, <1>6, <1>7, EarlyInjectionKeeps

LEMMA GarbledNarrationKeeps ==
  ASSUME GeneratorInv, GarbledNarration
  PROVE  GeneratorInv'
<1>. DEFINE garbled(picked, at) ==
                [c \in picked |-> [kind |-> "GARBLED", of |-> rows.batches[c].utr, kept |-> at[c]]]
            noted(picked) ==
                {Note("garbled_narration", "batch_link", c, "UTR_TRUNCATED_MAPPING", TRUE, 0) :
                    c \in picked}
<1>1. /\ stage = "garbled_narration" /\ rows \in RowTables /\ Wired(rows)
      /\ TwiceAtMost(rows) /\ PaidOut(rows)
  BY DEF GeneratorInv, GarbledNarration, Settling, Punctual
<1>2. \E picked \in Picks(IntactCredits, 0) : \E at \in [picked -> GarblePositions] :
        Injected("garbled_narration", WithTokens(garbled(picked, at)), noted(picked))
  BY DEF GarbledNarration
<1>3. PICK picked \in Picks(IntactCredits, 0) : \E at \in [picked -> GarblePositions] :
        Injected("garbled_narration", WithTokens(garbled(picked, at)), noted(picked))
  BY <1>2
<1>4. PICK at \in [picked -> GarblePositions] :
        Injected("garbled_narration", WithTokens(garbled(picked, at)), noted(picked))
  BY <1>3
<1>. DEFINE token == garbled(picked, at)
            r == WithTokens(token)
            new == noted(picked)
<1>5. ASSUME NEW c \in picked
      PROVE  /\ c \in Nat \ {0}
             /\ [kind |-> "GARBLED", of |-> rows.batches[c].utr, kept |-> at[c]] \in TokensUsed
  <2>1. at[c] \in Int
    BY SamplesAreWhole
  <2>2. c \in Nat \ {0} /\ rows.batches[c].utr \in UtrsUsed
    <3>1. picked \in SUBSET IntactCredits
      BY PickedAreRows
    <3>2. c \in IntactCredits
      BY <3>1
    <3>. QED  BY <1>1, <3>2, IntactIsCarried
  <2>. QED  BY <2>1, <2>2 DEF TokensUsed
<1>6. \A c \in DOMAIN token : token[c] \in TokensUsed
  BY <1>5
<1>7. new \in SUBSET NoteTypes
  <2>1. ASSUME NEW c \in picked
        PROVE  Note("garbled_narration", "batch_link", c, "UTR_TRUNCATED_MAPPING", TRUE, 0)
                 \in NoteTypes
    <3>1. c \in Nat \ {0} /\ 0 \in Int
      BY <1>1, PickedAreRows, IntactIsCarried
    <3>. QED  BY <3>1, NoteIsTyped
  <2>. QED  BY <2>1
<1>8. Injected(stage, r, new)
  BY <1>1, <1>4 DEF Injected
<1>. HIDE DEF token
<1>9. r \in RowTables /\ Wired(r) /\ TwiceAtMost(r) /\ PaidOut(r)
  BY <1>1, <1>6, WithTokensIsSound
<1>. HIDE DEF r, new
<1>. QED  BY <1>1, <1>7, <1>8, <1>9, EarlyInjectionKeeps

LEMMA MixedAmountFormatsKeeps ==
  ASSUME GeneratorInv, MixedAmountFormats
  PROVE  GeneratorInv'
<1>1. /\ stage = "mixed_amount_formats" /\ rows \in RowTables /\ PaidOut(rows)
      /\ lags = <<>>
  BY DEF GeneratorInv, MixedAmountFormats, Settling, Punctual
<1>2. PICK picked \in Picks(DOMAIN rows.bank, 0) : texts' = [c \in picked |-> rows.bank[c].amount]
  BY DEF MixedAmountFormats
<1>3. stage' = "out_of_order_arrival" /\ UNCHANGED <<call, rows, notes, lags>>
  BY FollowingIs DEF MixedAmountFormats
<1>4. Rendered(rows, texts')
  <2>1. picked \in SUBSET DOMAIN rows.bank
    BY PickedAreRows
  <2>. QED  BY <1>1, <1>2, <2>1 DEF Rendered, PaidOut
<1>5. stage' \in Stages
  BY <1>3, NamesInOrder DEF Stages
<1>. QED  BY <1>1, <1>3, <1>4, <1>5 DEF GeneratorInv, Orderly, Single, Punctual, Settling

LEMMA OutOfOrderArrivalKeeps ==
  ASSUME GeneratorInv, OutOfOrderArrival
  PROVE  GeneratorInv'
<1>. DEFINE population == {<<"lines", l>> : l \in DOMAIN rows.lines}
                            \union {<<"bank", c>> : c \in DOMAIN rows.bank}
                            \union {<<"refunds", r>> : r \in DOMAIN rows.refunds}
<1>1. stage = "out_of_order_arrival" /\ rows \in RowTables /\ PaidOut(rows)
  BY DEF GeneratorInv, OutOfOrderArrival, Settling, Punctual
<1>2. PICK picked \in Picks(population, 0) : lags' \in [picked -> 1 .. 2]
  BY DEF OutOfOrderArrival
<1>3. stage' = "unexplainable" /\ UNCHANGED <<call, rows, notes, texts>>
  BY FollowingIs DEF OutOfOrderArrival
<1>4. Late(rows, lags')
  <2>1. ASSUME NEW at \in picked
        PROVE  \/ \E l \in DOMAIN rows.lines : at = <<"lines", l>>
               \/ \E c \in DOMAIN rows.batches : at = <<"bank", c>>
               \/ \E f \in DOMAIN rows.refunds : at = <<"refunds", f>>
    <3>1. picked \in SUBSET population
      <4>. HIDE DEF population
      <4>. QED  BY PickedAreRows
    <3>2. at \in population
      BY <3>1
    <3>. QED  BY <1>1, <3>2 DEF PaidOut
  <2>2. DOMAIN lags' = picked /\ \A at \in picked : lags'[at] \in 1 .. 2
    BY <1>2
  <2>. QED  BY <2>1, <2>2 DEF Late
<1>5. stage' \in Stages
  BY <1>3, NamesInOrder DEF Stages
<1>. QED  BY <1>1, <1>3, <1>4, <1>5 DEF GeneratorInv, Orderly, Single, Punctual, Settling

(* The last injectors change the credits only, and what the clean data     *)
(* promised of them is promised no longer.                                 *)
LEMMA LateInjectionKeeps ==
  ASSUME GeneratorInv, stage \in {"unexplainable", "rounding_residual"},
         NEW bank \in BankTables, NEW new \in SUBSET NoteTypes,
         Injected(stage, [rows EXCEPT !.bank = bank], new)
  PROVE  GeneratorInv'
<1>. DEFINE r == [rows EXCEPT !.bank = bank]
<1>1. /\ rows' = r /\ notes' = notes \union new /\ stage' = Following(stage)
      /\ call' = call /\ lags' = lags /\ texts' = texts
  BY DEF Injected
<1>2. stage' \in {"rounding_residual", "TRUTH"}
  BY <1>1, FollowingIs
<1>3. stage' \in Stages
  BY <1>2, NamesInOrder DEF Stages
<1>4. /\ rows \in RowTables /\ Wired(rows) /\ TwiceAtMost(rows) /\ call \in Calls
      /\ notes \in SUBSET NoteTypes /\ Rendered(rows, texts) /\ Late(rows, lags)
  BY DEF GeneratorInv
<1>. HIDE DEF r
<1>5. /\ r \in RowTables /\ Wired(r) /\ TwiceAtMost(r)
      /\ r.batches = rows.batches /\ r.lines = rows.lines /\ r.refunds = rows.refunds
  BY <1>4, RebankedIsSound DEF r
<1>6. Rendered(r, texts) /\ Late(r, lags)
  BY <1>4, <1>5 DEF Rendered, Late
<1>7. notes' \in SUBSET NoteTypes
  BY <1>1, <1>4
<1>. QED  BY <1>1, <1>2, <1>3, <1>4, <1>5, <1>6, <1>7
          DEF GeneratorInv, Orderly, Single, Punctual, Settling

LEMMA RoundingResidualKeeps ==
  ASSUME GeneratorInv, RoundingResidual
  PROVE  GeneratorInv'
<1>. DEFINE within(picked, delta) == {c \in picked : rows.bank[c].amount + delta[c] > 0}
            shifted(off, delta) == [c \in DOMAIN rows.bank |-> IF c \in off
                THEN [rows.bank[c] EXCEPT !.amount = @ + delta[c]]
                ELSE rows.bank[c]]
            noted(off, delta) ==
                {Note("rounding_residual", "batch_link", c, "ROUNDING_DIFFERENCE", TRUE,
                      delta[c]) : c \in off}
            banked == DOMAIN rows.bank \intersect DOMAIN rows.batches
<1>1. stage = "rounding_residual" /\ rows \in RowTables
  BY DEF GeneratorInv, RoundingResidual
<1>2. \E picked \in Picks(banked, MinRounding) : \E delta \in [picked -> Residuals] :
        Injected("rounding_residual",
                 [rows EXCEPT !.bank = shifted(within(picked, delta), delta)],
                 noted(within(picked, delta), delta))
  BY DEF RoundingResidual
<1>3. PICK picked \in Picks(banked, MinRounding) : \E delta \in [picked -> Residuals] :
        Injected("rounding_residual",
                 [rows EXCEPT !.bank = shifted(within(picked, delta), delta)],
                 noted(within(picked, delta), delta))
  BY <1>2
<1>4. PICK delta \in [picked -> Residuals] :
        Injected("rounding_residual",
                 [rows EXCEPT !.bank = shifted(within(picked, delta), delta)],
                 noted(within(picked, delta), delta))
  BY <1>3
<1>. DEFINE off == within(picked, delta)
            bank == shifted(off, delta)
            new == noted(off, delta)
<1>5. ASSUME NEW c \in off
      PROVE  c \in DOMAIN rows.bank /\ c \in Nat \ {0} /\ delta[c] \in Int
  <2>1. picked \in SUBSET banked
    BY PickedAreRows
  <2>2. c \in picked /\ c \in DOMAIN rows.bank
    BY <2>1
  <2>3. delta[c] \in Int
    BY <2>2, SamplesAreWhole
  <2>. QED  BY <1>1, <2>2, <2>3, TablesHoldRows
<1>. HIDE DEF off
<1>6. bank \in BankTables
  <2>1. rows.bank \in BankTables
    BY <1>1 DEF RowTables
  <2>2. PICK ids \in SUBSET (Nat \ {0}) : rows.bank \in [ids -> BankRow]
    BY <2>1 DEF BankTables
  <2>3. ASSUME NEW c \in DOMAIN rows.bank
        PROVE  bank[c] \in BankRow
    <3>1. rows.bank[c] \in BankRow /\ rows.bank[c].amount \in Int
      BY <2>2, <2>3 DEF BankRow
    <3>2. CASE c \in off
      <4>. DEFINE amount == rows.bank[c].amount + delta[c]
      <4>1. amount \in Int
        BY <1>5, <3>1, <3>2
      <4>2. bank[c] = [rows.bank[c] EXCEPT !.amount = amount]
        BY <3>2
      <4>. HIDE DEF amount, bank
      <4>. QED  BY <3>1, <4>1, <4>2 DEF BankRow
    <3>3. CASE c \notin off
      BY <3>1, <3>3
    <3>. QED  BY <3>2, <3>3
  <2>4. bank \in [ids -> BankRow]
    BY <2>2, <2>3
  <2>. HIDE DEF bank
  <2>. QED  BY <2>4 DEF BankTables
<1>7. new \in SUBSET NoteTypes
  <2>1. ASSUME NEW c \in off
        PROVE  Note("rounding_residual", "batch_link", c, "ROUNDING_DIFFERENCE", TRUE, delta[c])
                 \in NoteTypes
    BY <1>5, NoteIsTyped
  <2>. QED  BY <2>1
<1>8. Injected(stage, [rows EXCEPT !.bank = bank], new)
  BY <1>1, <1>4 DEF Injected, off
<1>. HIDE DEF bank, new
<1>. QED  BY <1>1, <1>6, <1>7, <1>8, LateInjectionKeeps

LEMMA VerifyCleanKeeps ==
  ASSUME GeneratorInv, VerifyClean
  PROVE  GeneratorInv'
<1>1. stage = "VERIFY" /\ UNCHANGED <<call, rows, notes, lags, texts>>
  BY DEF VerifyClean
<1>2. stage' \in {"partial_captures", "REFUSED"}
  BY NamesInOrder DEF VerifyClean
<1>3. stage' \in Stages
  BY <1>2, NamesInOrder DEF Stages
<1>. QED  BY <1>1, <1>2, <1>3 DEF GeneratorInv, Orderly, Single, Punctual, Settling

LEMMA CheckAndWriteKeeps ==
  ASSUME GeneratorInv, CheckAndWrite
  PROVE  GeneratorInv'
<1>1. stage = "TRUTH" /\ UNCHANGED <<call, rows, notes, lags, texts>>
  BY DEF CheckAndWrite
<1>2. stage' \in {"WRITTEN", "REFUSED"}
  BY DEF CheckAndWrite
<1>3. stage' \in Stages
  BY <1>2 DEF Stages
<1>. QED  BY <1>1, <1>2, <1>3 DEF GeneratorInv, Orderly, Single, Punctual, Settling

LEMMA BuildCleanKeeps ==
  ASSUME GeneratorInv, BuildClean, CyclesAreShort
  PROVE  GeneratorInv'
<1>. DEFINE chains == [i \in 1 .. Len(Plan) |-> CleanChain(i)]
            r == Assemble(chains)
<1>1. /\ stage = "BUILD" /\ call \in Calls /\ texts = <<>> /\ lags = <<>>
      /\ notes \in SUBSET NoteTypes
  BY DEF GeneratorInv, BuildClean, Punctual, Orderly
<1>2. chains \in Seq(PlannedChain) /\ Refundable(chains) /\ Prompt(chains)
  <2>1. DOMAIN chains = 1 .. Len(chains) /\ Len(chains) = Len(Plan)
    BY PlanIsListed, CallIsTyped, <1>1
  <2>. QED  BY <1>1, PlannedIsRefundable
<1>3. rows' = r /\ stage' \in {"FAILED", "VERIFY"} /\ UNCHANGED <<call, notes, lags, texts>>
  BY DEF BuildClean
<1>. HIDE DEF chains
<1>4. r \in RowTables /\ Wired(r) /\ Plain(r) /\ PaidOut(r) /\ SingleLines(r)
  BY <1>2, AssembledIsSound
<1>. HIDE DEF r
<1>5. TwiceAtMost(r)
  <2>1. DOMAIN r.ledger \in SUBSET Int
    BY <1>4, TablesHoldRows
  <2>2. \A i, j \in DOMAIN r.ledger : r.ledger[i].order = r.ledger[j].order => i = j
    BY <1>4 DEF Plain
  <2>. QED  BY <2>1, <2>2 DEF TwiceAtMost
<1>6. stage' \in Stages
  BY <1>3 DEF Stages
<1>7. Rendered(r, texts) /\ Late(r, lags)
  BY <1>1 DEF Rendered, Late
<1>. QED  BY <1>1, <1>3, <1>4, <1>5, <1>6, <1>7 DEF GeneratorInv


(* unexplainable: what the credits it adds are made of. *)
OrphanAmounts(picked, part) ==
    [b \in picked |-> (2 * rows.batches[b].net + part[b]) \div (2 * part[b])]

LEMMA OrphansArePaid ==
  ASSUME rows \in RowTables, NEW picked \in SUBSET DOMAIN rows.batches,
         NEW part \in [picked -> OrphanParts]
  PROVE  \A b \in picked : OrphanAmounts(picked, part)[b] \in Int
<1>1. ASSUME NEW b \in picked
      PROVE  OrphanAmounts(picked, part)[b] \in Int
  <2>1. rows.batches[b].net \in Int
    <3>1. rows.batches[b] \in BatchRow
      BY TablesHoldRows
    <3>. QED  BY <3>1 DEF BatchRow
  <2>2. part[b] \in Int /\ part[b] > 0
    <3>1. part[b] \in OrphanParts
      OBVIOUS
    <3>2. \A k \in 3 .. 11 : k \in Int /\ k > 0
      OBVIOUS
    <3>. QED  BY <3>1, <3>2, SamplesAreWhole
  <2>. DEFINE x == 2 * rows.batches[b].net + part[b]
              m == 2 * part[b]
  <2>3. x \in Int /\ m \in Nat \ {0}
    BY <2>1, <2>2
  <2>4. OrphanAmounts(picked, part)[b] = x \div m
    BY DEF OrphanAmounts
  <2>. HIDE DEF x, m
  <2>. QED  BY <2>3, <2>4, ScaledIsWhole
<1>. QED  BY <1>1

WithOrphans(amount, behind) ==
    LET last == Len(rows.batches)
        orphans == last + 1 .. last + Len(behind)
    IN  [c \in DOMAIN rows.bank \union orphans |->
            IF c \in DOMAIN rows.bank THEN rows.bank[c]
            ELSE [direction |-> "CREDIT", amount |-> amount[behind[c - last]],
                  valueDate |-> rows.batches[behind[c - last]].settled,
                  token |-> NoToken]]

LEMMA OrphansAreCredits ==
  ASSUME rows \in RowTables, NEW picked \in SUBSET DOMAIN rows.batches,
         NEW amount, \A b \in picked : amount[b] \in Int,
         NEW behind, behind = Ascending({b \in picked : amount[b] > 0}),
         NEW c \in DOMAIN WithOrphans(amount, behind)
  PROVE  c \in Nat \ {0} /\ WithOrphans(amount, behind)[c] \in BankRow
<1>. DEFINE last == Len(rows.batches)
            orphans == last + 1 .. last + Len(behind)
            paid == {b \in picked : amount[b] > 0}
<1>1. /\ last \in Nat /\ DOMAIN rows.batches = 1 .. last
      /\ \A b \in DOMAIN rows.batches : rows.batches[b] \in BatchRow
      /\ \A d \in DOMAIN rows.bank : d \in Nat \ {0} /\ rows.bank[d] \in BankRow
  BY TablesHoldRows
<1>. HIDE DEF last
<1>2. paid \in SUBSET (1 .. last) /\ paid \in SUBSET Int /\ IsFiniteSet(1 .. last)
  BY <1>1, FS_Interval
<1>3. IsFiniteSet(paid)
  BY <1>2, FS_Subset
<1>4. behind \in Seq(paid)
  <2>. HIDE DEF paid
  <2>1. behind = Ascending(paid)
    BY DEF paid
  <2>. QED  BY <1>2, <1>3, <2>1, AscendingLists DEF Lists
<1>5. Len(behind) \in Nat /\ \A i \in 1 .. Len(behind) : behind[i] \in paid
  <2>. HIDE DEF paid
  <2>. QED  BY <1>4, LenProperties, ElementOfSeq
<1>6. c \in DOMAIN rows.bank \union orphans
  BY DEF WithOrphans, last
<1>7. CASE c \in DOMAIN rows.bank
  <2>1. WithOrphans(amount, behind)[c] = rows.bank[c]
    BY <1>7 DEF WithOrphans
  <2>. QED  BY <1>1, <1>7, <2>1
<1>8. CASE c \notin DOMAIN rows.bank
  <2>. DEFINE b == behind[c - last]
  <2>1. c \in Nat \ {0} /\ c - last \in 1 .. Len(behind)
    BY <1>1, <1>5, <1>6, <1>8
  <2>2. WithOrphans(amount, behind)[c]
          = [direction |-> "CREDIT", amount |-> amount[b],
             valueDate |-> rows.batches[b].settled, token |-> NoToken]
    BY <1>6, <1>8 DEF WithOrphans, last
  <2>3. b \in paid
    <3>. HIDE DEF paid
    <3>. QED  BY <1>5, <2>1
  <2>4. b \in picked
    BY <2>3
  <2>. HIDE DEF b
  <2>5. amount[b] \in Int /\ rows.batches[b].settled \in Int
    BY <1>1, <2>4 DEF BatchRow
  <2>6. NoToken \in TokensUsed
    BY DEF TokensUsed
  <2>. QED  BY <2>1, <2>2, <2>5, <2>6 DEF BankRow
<1>. QED  BY <1>7, <1>8

LEMMA UnexplainableKeeps ==
  ASSUME GeneratorInv, Unexplainable
  PROVE  GeneratorInv'
<1>. DEFINE amount(picked, part) == [b \in picked |->
                (2 * rows.batches[b].net + part[b]) \div (2 * part[b])]
            behind(picked, part) ==
                Ascending({b \in picked : amount(picked, part)[b] > 0})
            last == Len(rows.batches)
            orphans(picked, part) == last + 1 .. last + Len(behind(picked, part))
            bank(picked, part) ==
                [c \in DOMAIN rows.bank \union orphans(picked, part) |->
                    IF c \in DOMAIN rows.bank THEN rows.bank[c]
                    ELSE [direction |-> "CREDIT",
                          amount |-> amount(picked, part)[behind(picked, part)[c - last]],
                          valueDate |-> rows.batches[behind(picked, part)[c - last]].settled,
                          token |-> NoToken]]
            left(picked, part, withheld) ==
                [c \in DOMAIN bank(picked, part) \ (withheld \ orphans(picked, part)) |->
                    bank(picked, part)[c]]
            noted(picked, part, withheld) ==
                {Note("unexplainable", "bank_row", c, "UNEXPLAINED", FALSE,
                      bank(picked, part)[c].amount) : c \in orphans(picked, part)}
                \union {Note("unexplainable", "batch_link", c, "MISSING_VS_LATE_CREDIT",
                             FALSE, bank(picked, part)[c].amount)
                          : c \in withheld \ orphans(picked, part)}
            Done(picked, part, withheld) ==
                /\ Cardinality(picked) + Cardinality(withheld) =< call.maxNoise - Spent
                /\ Injected("unexplainable",
                     [rows EXCEPT !.bank = left(picked, part, withheld)],
                     noted(picked, part, withheld))
<1>1. stage = "unexplainable" /\ rows \in RowTables
  BY DEF GeneratorInv, Unexplainable
<1>2. \E picked \in Picks(DOMAIN rows.batches, MinUnexplainable) :
      \E part \in [picked -> OrphanParts] :
      \E withheld \in Picks(DOMAIN bank(picked, part), MinUnexplainable) :
         Done(picked, part, withheld)
  BY DEF Unexplainable
<1>3. PICK picked \in Picks(DOMAIN rows.batches, MinUnexplainable) :
      \E part \in [picked -> OrphanParts] :
      \E withheld \in Picks(DOMAIN bank(picked, part), MinUnexplainable) :
         Done(picked, part, withheld)
  BY <1>2
<1>4. PICK part \in [picked -> OrphanParts] :
      \E withheld \in Picks(DOMAIN bank(picked, part), MinUnexplainable) :
         Done(picked, part, withheld)
  BY <1>3
<1>5. PICK withheld \in Picks(DOMAIN bank(picked, part), MinUnexplainable) :
         Done(picked, part, withheld)
  BY <1>4
<1>. DEFINE cut == amount(picked, part)
            lent == behind(picked, part)
            added == orphans(picked, part)
            full == bank(picked, part)
            rest == left(picked, part, withheld)
            new == noted(picked, part, withheld)
<1>6. picked \in SUBSET DOMAIN rows.batches
  BY PickedAreRows
<1>7. withheld \in SUBSET DOMAIN full
  BY PickedAreRows
<1>8. \A b \in picked : cut[b] \in Int
  <2>1. cut = OrphanAmounts(picked, part)
    BY DEF OrphanAmounts
  <2>. HIDE DEF cut
  <2>. QED  BY <1>1, <1>6, <2>1, OrphansArePaid
<1>9. full = WithOrphans(cut, lent)
  BY DEF WithOrphans
<1>10. lent = Ascending({b \in picked : cut[b] > 0})
  OBVIOUS
<1>11. added \in SUBSET DOMAIN full
  OBVIOUS
<1>. DEFINE ids == DOMAIN full \ (withheld \ added)
<1>12. rest = [c \in ids |-> full[c]]
  OBVIOUS
<1>13. new = {Note("unexplainable", "bank_row", c, "UNEXPLAINED", FALSE, full[c].amount)
                 : c \in added}
             \union {Note("unexplainable", "batch_link", c, "MISSING_VS_LATE_CREDIT",
                          FALSE, full[c].amount) : c \in withheld \ added}
  OBVIOUS
<1>. HIDE DEF cut, lent, added, full, rest, new
<1>14. ASSUME NEW c \in DOMAIN full
       PROVE  c \in Nat \ {0} /\ full[c] \in BankRow
  BY <1>1, <1>6, <1>8, <1>9, <1>10, OrphansAreCredits
<1>15. rest \in BankTables
  <2>1. ids \in SUBSET (Nat \ {0}) /\ rest \in [ids -> BankRow]
    BY <1>12, <1>14
  <2>. QED  BY <2>1 DEF BankTables
<1>16. new \in SUBSET NoteTypes
  <2>1. ASSUME NEW c \in DOMAIN full
        PROVE  /\ Note("unexplainable", "bank_row", c, "UNEXPLAINED", FALSE, full[c].amount)
                    \in NoteTypes
               /\ Note("unexplainable", "batch_link", c, "MISSING_VS_LATE_CREDIT", FALSE,
                       full[c].amount) \in NoteTypes
    <3>. DEFINE paise == full[c].amount
    <3>1. c \in Nat \ {0} /\ paise \in Int
      BY <1>14 DEF BankRow
    <3>. HIDE DEF paise
    <3>2. /\ Note("unexplainable", "bank_row", c, "UNEXPLAINED", FALSE, paise) \in NoteTypes
          /\ Note("unexplainable", "batch_link", c, "MISSING_VS_LATE_CREDIT", FALSE, paise)
               \in NoteTypes
      BY <3>1, NoteIsTyped
    <3>. QED  BY <3>2 DEF paise
  <2>. QED  BY <1>7, <1>11, <1>13, <2>1
<1>17. Injected(stage, [rows EXCEPT !.bank = rest], new)
  BY <1>1, <1>5 DEF Injected, rest, new
<1>. QED  BY <1>1, <1>15, <1>16, <1>17, LateInjectionKeeps


(* Before anything is built there is nothing that could be wrong.          *)
LEMMA NothingIsSound ==
  /\ NoData \in RowTables /\ Wired(NoData) /\ TwiceAtMost(NoData) /\ Plain(NoData)
  /\ SingleLines(NoData) /\ PaidOut(NoData)
<1>1. DOMAIN NoData.lines = {} /\ DOMAIN NoData.payments = {} /\ DOMAIN NoData.ledger = {}
      /\ DOMAIN NoData.bank = {} /\ DOMAIN NoData.batches = {}
      /\ Len(NoData.chains) = 0 /\ Len(NoData.payments) = 0 /\ Len(NoData.ledger) = 0
  BY DEF NoData
<1>2. NoData \in RowTables
  <2>1. \A T : <<>> \in Seq(T)
    OBVIOUS
  <2>2. <<>> \in [{} -> BankRow] /\ {} \in SUBSET (Nat \ {0})
    OBVIOUS
  <2>3. <<>> \in BankTables
    BY <2>2 DEF BankTables
  <2>. QED  BY <2>1, <2>3 DEF NoData, RowTables
<1>. QED  BY <1>1, <1>2 DEF Wired, TwiceAtMost, Plain, SingleLines, PaidOut

LEMMA GeneratorStarts ==
  ASSUME stage \in {"IDLE", "BUILD"}, stage = "BUILD" => call \in Calls, rows = NoData,
         notes = {}, lags = <<>>, texts = <<>>
  PROVE  GeneratorInv
<1>1. stage \in Stages /\ (stage # "IDLE" => call \in Calls)
  BY DEF Stages
<1>2. notes \in SUBSET NoteTypes /\ Rendered(rows, texts) /\ Late(rows, lags)
  BY DEF Rendered, Late
<1>. QED  BY <1>1, <1>2, NothingIsSound DEF GeneratorInv

(* Every step of the generator keeps what main keeps sound. *)
LEMMA GeneratorKeeps ==
  ASSUME GeneratorInv, GeneratorNext, CyclesAreShort
  PROVE  GeneratorInv'
<1>1. CASE BuildClean
  BY <1>1, BuildCleanKeeps
<1>2. CASE VerifyClean
  BY <1>2, VerifyCleanKeeps
<1>3. CASE CheckAndWrite
  BY <1>3, CheckAndWriteKeeps
<1>4. CASE ApplyNoise
  <2>1. CASE PartialCaptures
    BY <2>1, PartialCapturesKeeps
  <2>2. CASE DuplicateLedgerRows
    BY <2>2, DuplicateLedgerRowsKeeps
  <2>3. CASE DelayedSettlement
    BY <2>3, DelayedSettlementKeeps
  <2>4. CASE SplitSettlement
    BY <2>4, SplitSettlementKeeps
  <2>5. CASE TruncateUtr
    BY <2>5, TruncateUtrKeeps
  <2>6. CASE DropUtr
    BY <2>6, DropUtrKeeps
  <2>7. CASE GarbledNarration
    BY <2>7, GarbledNarrationKeeps
  <2>8. CASE MixedAmountFormats
    BY <2>8, MixedAmountFormatsKeeps
  <2>9. CASE OutOfOrderArrival
    BY <2>9, OutOfOrderArrivalKeeps
  <2>10. CASE Unexplainable
    BY <2>10, UnexplainableKeeps
  <2>11. CASE RoundingResidual
    BY <2>11, RoundingResidualKeeps
  <2>12. CASE SkipWithheld
    BY <2>12, SkipKeeps
  <2>. QED  BY <1>4, <2>1, <2>2, <2>3, <2>4, <2>5, <2>6, <2>7, <2>8, <2>9, <2>10, <2>11, <2>12
            DEF ApplyNoise
<1>. QED  BY <1>1, <1>2, <1>3, <1>4 DEF GeneratorNext

(* The injectors end where the truth is derived. *)
LEMMA NoiseIsFollowed ==
  ASSUME ApplyNoise
  PROVE  \E k \in 1 .. 11 : stage' = Following(NoiseOrder[k])
<1>1. \/ stage' = Following("partial_captures") \/ stage' = Following("duplicate_ledger_rows")
      \/ stage' = Following("delayed_settlement") \/ stage' = Following("split_settlement")
      \/ stage' = Following("truncate_utr") \/ stage' = Following("drop_utr")
      \/ stage' = Following("garbled_narration") \/ stage' = Following("mixed_amount_formats")
      \/ stage' = Following("out_of_order_arrival") \/ stage' = Following("unexplainable")
      \/ stage' = Following("rounding_residual")
  <2>1. PartialCaptures => stage' = Following("partial_captures")
    BY Zenon DEF PartialCaptures, Injected
  <2>2. DuplicateLedgerRows => stage' = Following("duplicate_ledger_rows")
    BY Zenon DEF DuplicateLedgerRows, Injected
  <2>3. DelayedSettlement => stage' = Following("delayed_settlement")
    BY Zenon DEF DelayedSettlement, Injected
  <2>4. SplitSettlement => stage' = Following("split_settlement")
    BY ZenonT(90) DEF SplitSettlement, Injected
  <2>5. TruncateUtr => stage' = Following("truncate_utr")
    BY Zenon DEF TruncateUtr, Injected
  <2>6. DropUtr => stage' = Following("drop_utr")
    BY Zenon DEF DropUtr, Injected
  <2>7. GarbledNarration => stage' = Following("garbled_narration")
    BY Zenon DEF GarbledNarration, Injected
  <2>8. MixedAmountFormats => stage' = Following("mixed_amount_formats")
    BY Zenon DEF MixedAmountFormats
  <2>9. OutOfOrderArrival => stage' = Following("out_of_order_arrival")
    BY Zenon DEF OutOfOrderArrival
  <2>10. Unexplainable => stage' = Following("unexplainable")
    BY ZenonT(90) DEF Unexplainable, Injected
  <2>11. RoundingResidual => stage' = Following("rounding_residual")
    BY Zenon DEF RoundingResidual, Injected
  <2>12. SkipWithheld => \/ stage' = Following("split_settlement")
                         \/ stage' = Following("garbled_narration")
    BY Zenon DEF SkipWithheld
  <2>. QED  BY <2>1, <2>2, <2>3, <2>4, <2>5, <2>6, <2>7, <2>8, <2>9, <2>10, <2>11, <2>12
            DEF ApplyNoise
<1>. QED  BY <1>1, NamesInOrder

(* A data set that is written has passed the check run on it: of what is   *)
(* checked, that the noise is accounted for and credits follow batches.    *)
Checked ==
    stage = "WRITTEN" =>
        NoiseIsAccountedFor /\ CreditsFollowBatches /\ CreditsFallDue /\ OneOwnerEach

LEMMA CheckStands ==
  ASSUME UNCHANGED <<rows, notes>>
  PROVE  /\ NoiseIsAccountedFor => NoiseIsAccountedFor'
         /\ CreditsFollowBatches => CreditsFollowBatches'
         /\ CreditsFallDue => CreditsFallDue'
         /\ OneOwnerEach => OneOwnerEach'
<1>0. /\ OrphanNotes' = OrphanNotes /\ Unbanked' = Unbanked /\ Banked' = Banked
      /\ TargetsOf("duplicate_ledger_rows", "DUPLICATE_CONFIRMED")'
           = TargetsOf("duplicate_ledger_rows", "DUPLICATE_CONFIRMED")
      /\ TargetsOf("split_settlement", "SPLIT_SETTLEMENT")'
           = TargetsOf("split_settlement", "SPLIT_SETTLEMENT")
      /\ TargetsOf("partial_captures", "PARTIAL_CAPTURE")'
           = TargetsOf("partial_captures", "PARTIAL_CAPTURE")
      /\ \A b : Residual(b)' = Residual(b)
  BY DEF OrphanNotes, Unbanked, TargetsOf, Banked, Residual, Noted
<1>1. NoiseIsAccountedFor => NoiseIsAccountedFor'
  BY <1>0 DEF NoiseIsAccountedFor
<1>2. CreditsFollowBatches => CreditsFollowBatches'
  BY <1>0 DEF CreditsFollowBatches
<1>3. CreditsFallDue => CreditsFallDue'
  <2>. DEFINE FallsDue(b, owners) ==
                  rows.bank[b].valueDate
                    = BankValueDue(rows.batches[b].settled, CHOOSE o \in owners : TRUE)
  <2>1. \A b : Owners(b)' = Owners(b)
    BY DEF Owners
  <2>2. ASSUME CreditsFallDue, NEW b \in Banked, Cardinality(Owners(b)) = 1
        PROVE  FallsDue(b, Owners(b))
    BY <2>2 DEF CreditsFallDue
  <2>3. ASSUME CreditsFallDue, NEW b \in Banked', Cardinality(Owners(b)') = 1
        PROVE  (rows.bank[b].valueDate
                  = BankValueDue(rows.batches[b].settled, CHOOSE o \in Owners(b) : TRUE))'
    <3>1. FallsDue(b, Owners(b)) /\ Owners(b)' = Owners(b)
      BY <1>0, <2>1, <2>2, <2>3
    <3>2. FallsDue(b, Owners(b)')
      BY <3>1
    <3>. QED  BY <3>2
  <2>. QED  BY <2>3 DEF CreditsFallDue
<1>4. OneOwnerEach => OneOwnerEach'
  BY DEF OneOwnerEach, Banked, Owners
<1>. QED  BY <1>1, <1>2, <1>3, <1>4

LEMMA WritingIsChecked ==
  ASSUME GeneratorNext
  PROVE  Checked'
<1>. SUFFICES ASSUME stage' = "WRITTEN"
              PROVE  (NoiseIsAccountedFor /\ CreditsFollowBatches /\ CreditsFallDue /\ OneOwnerEach)'
  BY DEF Checked
<1>1. ~BuildClean /\ ~VerifyClean
  BY NamesInOrder DEF BuildClean, VerifyClean
<1>2. ~ApplyNoise
  <2>1. \A k \in 1 .. 11 : NoiseOrder[k + 1] # "WRITTEN"
    BY DEF NoiseOrder
  <2>. QED  BY <2>1, NoiseIsFollowed, NextInOrder
<1>3. CheckAndWrite
  BY <1>1, <1>2 DEF GeneratorNext
<1>4. RunSelfCheck /\ UNCHANGED <<rows, notes>>
  BY <1>3 DEF CheckAndWrite
<1>. QED  BY <1>4, CheckStands DEF RunSelfCheck, BooksAreSound

(* Nothing is generated before main is called, nor once it has ended. *)
LEMMA GeneratorEnds ==
  ASSUME GeneratorNext
  PROVE  stage \notin {"IDLE", "WRITTEN", "FAILED", "REFUSED"}
<1>1. BuildClean \/ VerifyClean \/ CheckAndWrite => stage \in {"BUILD", "VERIFY", "TRUTH"}
  BY Zenon DEF BuildClean, VerifyClean, CheckAndWrite
<1>2. ApplyNoise => stage \in {"partial_captures", "duplicate_ledger_rows",
            "delayed_settlement", "split_settlement", "truncate_utr", "drop_utr",
            "garbled_narration", "mixed_amount_formats", "out_of_order_arrival",
            "unexplainable", "rounding_residual"}
  <2>1. /\ PartialCaptures => stage = "partial_captures"
        /\ DuplicateLedgerRows => stage = "duplicate_ledger_rows"
        /\ DelayedSettlement => stage = "delayed_settlement"
        /\ SplitSettlement => stage = "split_settlement"
    BY Zenon DEF PartialCaptures, DuplicateLedgerRows, DelayedSettlement, SplitSettlement
  <2>2. /\ TruncateUtr => stage = "truncate_utr"
        /\ DropUtr => stage = "drop_utr"
        /\ GarbledNarration => stage = "garbled_narration"
    BY Zenon DEF TruncateUtr, DropUtr, GarbledNarration
  <2>3. /\ MixedAmountFormats => stage = "mixed_amount_formats"
        /\ OutOfOrderArrival => stage = "out_of_order_arrival"
        /\ Unexplainable => stage = "unexplainable"
        /\ RoundingResidual => stage = "rounding_residual"
        /\ SkipWithheld => stage \in {"split_settlement", "garbled_narration"}
    BY Zenon DEF MixedAmountFormats, OutOfOrderArrival, Unexplainable, RoundingResidual,
                 SkipWithheld
  <2>. QED  BY <2>1, <2>2, <2>3 DEF ApplyNoise
<1>. QED  BY <1>1, <1>2 DEF GeneratorNext

(* What main keeps has the type it should have. *)
LEMMA GeneratorIsTyped ==
  ASSUME GeneratorInv
  PROVE  GeneratorTypeOK
<1>1. stage \in Stages /\ notes \subseteq NoteTypes
  BY DEF GeneratorInv
<1>2. DOMAIN rows.chains = DOMAIN rows.payments
  BY TablesHoldRows DEF GeneratorInv, Wired
<1>3. ASSUME NEW at \in DOMAIN lags
      PROVE  /\ lags[at] \in 1 .. 2
             /\ at \in {<<"lines", l>> : l \in DOMAIN rows.lines}
                         \union {<<"bank", c>> : c \in DOMAIN rows.batches}
                         \union {<<"refunds", r>> : r \in DOMAIN rows.refunds}
  BY DEF GeneratorInv, Late
<1>4. DOMAIN texts \subseteq DOMAIN rows.batches
  BY DEF GeneratorInv, Rendered
<1>. QED  BY <1>1, <1>2, <1>3, <1>4 DEF GeneratorTypeOK

-----------------------------------------------------------------------------
(* What an injector does to a data set r to make s of it, said without the *)
(* draws it takes.  After _resum_batches totals follow the lines and       *)
(* credits the totals.                                                     *)
OfBatch(lines, b) == {l \in DOMAIN lines : lines[l].batch = b}
PaymentLinesOf(lines) == {l \in DOMAIN lines : lines[l].type = "PAYMENT"}

Retotalled(r, s) ==
    /\ s.batches = [b \in DOMAIN r.batches |->
            [r.batches[b] EXCEPT !.net = SumOf(s.lines, OfBatch(s.lines, b), "net")]]
    /\ s.bank = [c \in DOMAIN r.bank |->
            IF c \in DOMAIN r.batches
            THEN [r.bank[c] EXCEPT !.amount = SumOf(s.lines, OfBatch(s.lines, c), "net")]
            ELSE r.bank[c]]

LEMMA ResummedFields ==
  ASSUME NEW r,
         DOMAIN r = {"ledger", "payments", "refunds", "lines", "batches", "bank", "chains"}
  PROVE  /\ Resummed(r).ledger = r.ledger /\ Resummed(r).payments = r.payments
         /\ Resummed(r).refunds = r.refunds /\ Resummed(r).lines = r.lines
         /\ Resummed(r).chains = r.chains /\ Retotalled(r, Resummed(r))
<1>. DEFINE total == [b \in DOMAIN r.batches |->
                SumOf(r.lines, {l \in DOMAIN r.lines : r.lines[l].batch = b}, "net")]
            batches == [b \in DOMAIN r.batches |-> [r.batches[b] EXCEPT !.net = total[b]]]
            bank == [c \in DOMAIN r.bank |-> IF c \in DOMAIN total
                        THEN [r.bank[c] EXCEPT !.amount = total[c]] ELSE r.bank[c]]
            s == Resummed(r)
<1>1. s = [r EXCEPT !.batches = batches, !.bank = bank]
  BY DEF Resummed
<1>2. DOMAIN total = DOMAIN r.batches
      /\ \A b \in DOMAIN r.batches : total[b] = SumOf(r.lines, OfBatch(r.lines, b), "net")
  BY DEF OfBatch
<1>3. /\ batches = [b \in DOMAIN r.batches |->
            [r.batches[b] EXCEPT !.net = SumOf(r.lines, OfBatch(r.lines, b), "net")]]
      /\ bank = [c \in DOMAIN r.bank |->
            IF c \in DOMAIN r.batches
            THEN [r.bank[c] EXCEPT !.amount = SumOf(r.lines, OfBatch(r.lines, c), "net")]
            ELSE r.bank[c]]
  <2>. HIDE DEF total
  <2>. QED  BY <1>2
<1>. HIDE DEF total, batches, bank, s
<1>4. /\ s.ledger = r.ledger /\ s.payments = r.payments /\ s.refunds = r.refunds
      /\ s.lines = r.lines /\ s.chains = r.chains /\ s.batches = batches /\ s.bank = bank
  BY <1>1
<1>. QED  BY <1>3, <1>4 DEF s, Retotalled

(* partial_captures: some payments without a refund are priced on less.    *)
Captured(r, s, partial, priced) ==
    /\ partial \in SUBSET DOMAIN r.payments
    /\ \A p \in partial :
          /\ r.chains[p].refund = 0
          /\ priced[p] = Priced(priced[p].gross, r.payments[p].method, r.chains[p].profile)
          /\ priced[p] \in Prices
          /\ priced[p].gross \in 1 .. r.payments[p].authorized - 1
    /\ s.ledger = r.ledger /\ s.refunds = r.refunds
    /\ s.payments = [p \in DOMAIN r.payments |-> IF p \in partial
          THEN [r.payments[p] EXCEPT !.captured = priced[p].gross] ELSE r.payments[p]]
    /\ s.chains = [p \in DOMAIN r.chains |-> IF p \in partial
          THEN ChainOf(r.chains[p], priced[p].gross, priced[p].fee, priced[p].tax, priced[p].net)
          ELSE r.chains[p]]
    /\ s.lines = [l \in DOMAIN r.lines |->
          IF r.lines[l].type = "PAYMENT" /\ r.lines[l].payment \in partial
          THEN Repriced(r.lines[l], priced[r.lines[l].payment]) ELSE r.lines[l]]
    /\ Retotalled(r, s)

LEMMA PartialCapturesDone ==
  ASSUME GeneratorInv, PartialCaptures
  PROVE  \E partial, priced :
            /\ Captured(rows, rows', partial, priced)
            /\ notes' = notes \union
                  {Note("partial_captures", "case", p, "PARTIAL_CAPTURE", TRUE,
                        rows.payments[p].authorized - priced[p].gross) : p \in partial}
<1>. DEFINE authorized(p) == rows.payments[p].authorized
            pricing(picked, part) ==
                [p \in picked |-> Priced((authorized(p) * part[p]) \div 100,
                                        rows.payments[p].method, rows.chains[p].profile)]
            less(picked, part) ==
                {p \in picked : pricing(picked, part)[p].gross \in 1 .. authorized(p) - 1}
            captured(partial, priced) ==
                [rows EXCEPT
                  !.payments = [p \in DOMAIN @ |-> IF p \in partial
                      THEN [@[p] EXCEPT !.captured = priced[p].gross] ELSE @[p]],
                  !.chains = [p \in DOMAIN @ |-> IF p \in partial
                      THEN ChainOf(@[p], priced[p].gross, priced[p].fee, priced[p].tax,
                                   priced[p].net) ELSE @[p]],
                  !.lines = [l \in DOMAIN @ |-> IF @[l].type = "PAYMENT" /\ @[l].payment \in partial
                      THEN Repriced(@[l], priced[@[l].payment]) ELSE @[l]]]
            noted(partial, priced) ==
                {Note("partial_captures", "case", p, "PARTIAL_CAPTURE", TRUE,
                      authorized(p) - priced[p].gross) : p \in partial}
<1>1. rows \in RowTables /\ Wired(rows)
  BY DEF GeneratorInv
<1>2. \E picked \in Picks({p \in DOMAIN rows.chains : rows.chains[p].refund = 0}, 0) :
      \E part \in [picked -> CapturedParts] :
        Injected("partial_captures",
                 Resummed(captured(less(picked, part), pricing(picked, part))),
                 noted(less(picked, part), pricing(picked, part)))
  BY DEF PartialCaptures
<1>3. PICK picked \in Picks({p \in DOMAIN rows.chains : rows.chains[p].refund = 0}, 0) :
      \E part \in [picked -> CapturedParts] :
        Injected("partial_captures",
                 Resummed(captured(less(picked, part), pricing(picked, part))),
                 noted(less(picked, part), pricing(picked, part)))
  BY <1>2
<1>4. PICK part \in [picked -> CapturedParts] :
        Injected("partial_captures",
                 Resummed(captured(less(picked, part), pricing(picked, part))),
                 noted(less(picked, part), pricing(picked, part)))
  BY <1>3
<1>. DEFINE priced == pricing(picked, part)
            partial == less(picked, part)
            payments == [p \in DOMAIN rows.payments |-> IF p \in partial
                THEN [rows.payments[p] EXCEPT !.captured = priced[p].gross] ELSE rows.payments[p]]
            chains == [p \in DOMAIN rows.chains |-> IF p \in partial
                THEN ChainOf(rows.chains[p], priced[p].gross, priced[p].fee, priced[p].tax,
                             priced[p].net) ELSE rows.chains[p]]
            lines == [l \in DOMAIN rows.lines |->
                IF rows.lines[l].type = "PAYMENT" /\ rows.lines[l].payment \in partial
                THEN Repriced(rows.lines[l], priced[rows.lines[l].payment]) ELSE rows.lines[l]]
            r == [rows EXCEPT !.payments = payments, !.chains = chains, !.lines = lines]
            new == noted(partial, priced)
<1>5. rows' = Resummed(r) /\ notes' = notes \union new
  BY <1>4 DEF Injected
<1>6. /\ DOMAIN rows = {"ledger", "payments", "refunds", "lines", "batches", "bank", "chains"}
      /\ DOMAIN rows.chains = DOMAIN rows.payments
      /\ \A p \in DOMAIN rows.payments : rows.payments[p] \in PaymentRow
      /\ \A p \in DOMAIN rows.chains : rows.chains[p] \in ChainRow
  BY <1>1, TablesHoldRows DEF Wired
<1>7. ASSUME NEW p \in picked
      PROVE  /\ p \in DOMAIN rows.payments /\ rows.chains[p].refund = 0
             /\ priced[p] \in Prices
             /\ priced[p] = Priced(priced[p].gross, rows.payments[p].method, rows.chains[p].profile)
  <2>1. p \in DOMAIN rows.chains /\ p \in DOMAIN rows.payments /\ rows.chains[p].refund = 0
    BY <1>6, PickedAreRows
  <2>2. /\ authorized(p) \in Int /\ rows.payments[p].method \in Methods
        /\ rows.chains[p].profile \in Profiles
    BY <1>6, <2>1 DEF PaymentRow, ChainRow
  <2>3. part[p] \in Int
    BY SamplesAreWhole
  <2>. DEFINE whole == authorized(p) * part[p]
              amount == whole \div 100
  <2>4. whole \in Int
    <3>. HIDE DEF authorized
    <3>. QED  BY <2>2, <2>3
  <2>5. amount \in Int
    <3>. HIDE DEF whole
    <3>. QED  BY <2>4, ScaledIsWhole
  <2>6. priced[p] = Priced(amount, rows.payments[p].method, rows.chains[p].profile)
    OBVIOUS
  <2>. HIDE DEF amount, priced
  <2>7. priced[p] \in Prices /\ priced[p].gross = amount
    BY <2>2, <2>5, <2>6, PricedInPaise
  <2>. QED  BY <2>1, <2>6, <2>7
<1>8. \A p \in partial : p \in picked /\ priced[p].gross \in 1 .. rows.payments[p].authorized - 1
  OBVIOUS
<1>. HIDE DEF priced, partial, payments, chains, lines
<1>9. /\ r.payments = payments /\ r.chains = chains /\ r.lines = lines /\ r.refunds = rows.refunds
      /\ r.ledger = rows.ledger /\ r.batches = rows.batches /\ r.bank = rows.bank
      /\ DOMAIN r = {"ledger", "payments", "refunds", "lines", "batches", "bank", "chains"}
  BY <1>6
<1>. HIDE DEF r
<1>10. /\ rows'.ledger = rows.ledger /\ rows'.payments = payments /\ rows'.refunds = rows.refunds
       /\ rows'.lines = lines /\ rows'.chains = chains /\ Retotalled(r, rows')
  BY <1>5, <1>9, ResummedFields
<1>11. Retotalled(rows, rows')
  BY <1>9, <1>10 DEF Retotalled
<1>12. Captured(rows, rows', partial, priced)
  <2>1. partial \in SUBSET DOMAIN rows.payments
    BY <1>7, <1>8
  <2>. QED  BY <1>7, <1>8, <1>10, <1>11, <2>1 DEF Captured, payments, chains, lines
<1>. QED  BY <1>5, <1>12

(* duplicate_ledger_rows: the ledger rows of some payments come once more, *)
(* and other payments are made again: n and n + d of them before and after. *)
LineFor(r, p) ==
    CHOOSE l \in DOMAIN r.lines : r.lines[l].type = "PAYMENT" /\ r.lines[l].payment = p

Doubled(r, s, n, c, copies, d, repeats) ==
    /\ n \in Nat /\ DOMAIN r.payments = 1 .. n
    /\ c \in Nat /\ copies \in [1 .. c -> 1 .. n]
    /\ d \in Nat /\ repeats \in [1 .. d -> 1 .. n]
    /\ \A i, j \in 1 .. c : copies[i] = copies[j] => i = j
    /\ \A i, j \in 1 .. d : repeats[i] = repeats[j] => i = j
    /\ \A i \in 1 .. c, j \in 1 .. d : copies[i] # repeats[j]
    /\ s.refunds = r.refunds
    /\ DOMAIN s.ledger = 1 .. n + c + d
    /\ \A i \in 1 .. n : s.ledger[i] = r.ledger[i]
    /\ \A i \in 1 .. c : s.ledger[n + i] = r.ledger[copies[i]]
    /\ \A i \in 1 .. d : s.ledger[n + c + i] =
          [r.ledger[repeats[i]] EXCEPT !.order = n + i, !.invoice = n + i]
    /\ \A i \in 1 .. n + c + d :
          i \in 1 .. n \/ (\E j \in 1 .. c : i = n + j) \/ (\E j \in 1 .. d : i = n + c + j)
    /\ Extended(s.payments, r.payments, d, [i \in 1 .. d |->
          [r.payments[repeats[i]] EXCEPT !.order = n + i,
                                         !.authorized = r.payments[repeats[i]].captured]])
    /\ Extended(s.lines, r.lines, d, [i \in 1 .. d |->
          [r.lines[LineFor(r, repeats[i])] EXCEPT !.payment = n + i]])
    /\ Extended(s.chains, r.chains, d, [i \in 1 .. d |->
          [r.chains[repeats[i]] EXCEPT !.refund = 0]])
    /\ Retotalled(r, s)

DoublingNotes(r, n, c, copies, d) ==
    {Note("duplicate_ledger_rows", "ledger_row", copies[i], "DUPLICATE_CONFIRMED",
          TRUE, r.ledger[copies[i]].gross) : i \in 1 .. c}
    \union {Note("duplicate_ledger_rows", "case", n + i, "DUPLICATE_CANDIDATE", TRUE, 0) :
                i \in 1 .. d}

LEMMA DuplicateLedgerRowsDone ==
  ASSUME GeneratorInv, DuplicateLedgerRows
  PROVE  \E n, c, copies, d, repeats :
            /\ Doubled(rows, rows', n, c, copies, d, repeats)
            /\ notes' = notes \union DoublingNotes(rows, n, c, copies, d)
<1>. DEFINE old == Len(rows.payments)
            repeat(p) == rows.payments[p]
            addedLedger(copies, repeats) ==
                rows.ledger \o [i \in DOMAIN copies |-> rows.ledger[copies[i]]]
                  \o [i \in DOMAIN repeats |-> [rows.ledger[repeats[i]] EXCEPT
                          !.order = old + i, !.invoice = old + i]]
            addedPayments(repeats) ==
                rows.payments \o [i \in DOMAIN repeats |-> [repeat(repeats[i]) EXCEPT
                          !.order = old + i, !.authorized = repeat(repeats[i]).captured]]
            addedLines(repeats) ==
                rows.lines \o [i \in DOMAIN repeats |-> [rows.lines[LineOf(repeats[i])] EXCEPT
                          !.payment = old + i]]
            addedChains(repeats) ==
                rows.chains \o [i \in DOMAIN repeats |->
                          [rows.chains[repeats[i]] EXCEPT !.refund = 0]]
            repeated(copies, repeats) ==
                [rows EXCEPT !.ledger = addedLedger(copies, repeats),
                             !.payments = addedPayments(repeats),
                             !.lines = addedLines(repeats), !.chains = addedChains(repeats)]
            noted(copied, repeats) ==
                {Note("duplicate_ledger_rows", "ledger_row", p, "DUPLICATE_CONFIRMED", TRUE,
                      rows.ledger[p].gross) : p \in copied}
                \union {Note("duplicate_ledger_rows", "case", old + i, "DUPLICATE_CANDIDATE",
                             TRUE, 0) : i \in DOMAIN repeats}
<1>1. /\ stage = "duplicate_ledger_rows" /\ rows \in RowTables /\ Wired(rows) /\ Plain(rows)
  BY DEF GeneratorInv, DuplicateLedgerRows, Orderly, Single, Settling, Punctual
<1>2. \E picked \in Picks(DOMAIN rows.chains, 0) : \E copied \in SUBSET picked :
        Injected("duplicate_ledger_rows",
                 Resummed(repeated(Ascending(copied), Ascending(picked \ copied))),
                 noted(copied, Ascending(picked \ copied)))
  BY DEF DuplicateLedgerRows
<1>3. PICK picked \in Picks(DOMAIN rows.chains, 0) : \E copied \in SUBSET picked :
        Injected("duplicate_ledger_rows",
                 Resummed(repeated(Ascending(copied), Ascending(picked \ copied))),
                 noted(copied, Ascending(picked \ copied)))
  BY <1>2
<1>4. PICK copied \in SUBSET picked :
        Injected("duplicate_ledger_rows",
                 Resummed(repeated(Ascending(copied), Ascending(picked \ copied))),
                 noted(copied, Ascending(picked \ copied)))
  BY <1>3
<1>. DEFINE n == Len(rows.chains)
            copies == Ascending(copied)
            repeats == Ascending(picked \ copied)
            c == Len(copies)
            d == Len(repeats)
            middle == [i \in DOMAIN copies |-> rows.ledger[copies[i]]]
            last == [i \in DOMAIN repeats |-> [rows.ledger[repeats[i]] EXCEPT
                          !.order = old + i, !.invoice = old + i]]
            ledger == addedLedger(copies, repeats)
            morePayments == [i \in DOMAIN repeats |-> [repeat(repeats[i]) EXCEPT
                          !.order = old + i, !.authorized = repeat(repeats[i]).captured]]
            payments == addedPayments(repeats)
            moreLines == [i \in DOMAIN repeats |-> [rows.lines[LineOf(repeats[i])] EXCEPT
                          !.payment = old + i]]
            lines == addedLines(repeats)
            moreChains == [i \in DOMAIN repeats |-> [rows.chains[repeats[i]] EXCEPT !.refund = 0]]
            chains == addedChains(repeats)
            r == repeated(copies, repeats)
            new == noted(copied, repeats)
<1>5. /\ DOMAIN rows = {"ledger", "payments", "refunds", "lines", "batches", "bank", "chains"}
      /\ n \in Nat /\ old = n /\ Len(rows.ledger) = n
      /\ DOMAIN rows.chains = 1 .. n /\ DOMAIN rows.payments = 1 .. n /\ DOMAIN rows.ledger = 1 .. n
      /\ DOMAIN rows.lines = 1 .. Len(rows.lines) /\ Len(rows.lines) \in Nat
      /\ \A i \in 1 .. n : rows.ledger[i] \in LedgerEntry /\ rows.ledger[i].order = i
      /\ \A p \in 1 .. n : rows.payments[p] \in PaymentRow
      /\ \A p \in 1 .. n : rows.chains[p] \in ChainRow
      /\ \A l \in DOMAIN rows.lines : rows.lines[l] \in LineRow
  BY <1>1, TablesHoldRows DEF Wired, Plain
<1>6. /\ rows.ledger \in Seq(LedgerEntry) /\ rows.payments \in Seq(PaymentRow)
      /\ rows.lines \in Seq(LineRow) /\ rows.chains \in Seq(ChainRow)
  BY <1>1 DEF RowTables
<1>7. copied \in SUBSET (1 .. n) /\ (picked \ copied) \in SUBSET (1 .. n)
  BY <1>5, PickedAreRows
<1>8. ASSUME NEW S \in SUBSET (1 .. n)
      PROVE  Lists(Ascending(S), S)
  <2>1. IsFiniteSet(1 .. n) /\ S \in SUBSET Int
    BY <1>5, FS_Interval
  <2>2. IsFiniteSet(S)
    BY <2>1, FS_Subset
  <2>. QED  BY <2>1, <2>2, AscendingLists
<1>9. Lists(copies, copied) /\ Lists(repeats, picked \ copied)
  BY <1>7, <1>8
<1>25. rows' = Resummed(r) /\ notes' = notes \union new
  BY <1>4 DEF Injected
<1>. HIDE DEF n, old, copies, repeats
<1>10. /\ c \in Nat /\ d \in Nat /\ DOMAIN copies = 1 .. c /\ DOMAIN repeats = 1 .. d
       /\ copies \in [1 .. c -> 1 .. n] /\ repeats \in [1 .. d -> 1 .. n]
       /\ \A i, j \in 1 .. c : copies[i] = copies[j] => i = j
       /\ \A i, j \in 1 .. d : repeats[i] = repeats[j] => i = j
       /\ \A i \in 1 .. d : repeats[i] \in 1 .. n
       /\ \A i \in 1 .. c, j \in 1 .. d : copies[i] # repeats[j]
       /\ copied = {copies[i] : i \in 1 .. c}
  <2>1. copies \in Seq(1 .. n) /\ repeats \in Seq(1 .. n)
    BY <1>7, <1>9, SeqMonotonic DEF Lists
  <2>2. /\ c \in Nat /\ copies \in [1 .. c -> 1 .. n]
        /\ d \in Nat /\ repeats \in [1 .. d -> 1 .. n]
    BY <2>1, LenProperties
  <2>3. \A i \in 1 .. c : copies[i] \in copied
    BY <1>9, <2>2 DEF Lists
  <2>4. \A i \in 1 .. d : repeats[i] \in picked \ copied
    BY <1>9, <2>2 DEF Lists
  <2>5. copied = {copies[i] : i \in 1 .. c}
    BY <1>9, <2>2 DEF Lists
  <2>. QED  BY <1>9, <2>2, <2>3, <2>4, <2>5 DEF Lists
<1>. HIDE DEF c, d
<1>11. /\ ledger \in Seq(LedgerEntry) /\ DOMAIN ledger = 1 .. n + c + d
       /\ \A i \in 1 .. n : ledger[i] = rows.ledger[i]
       /\ \A i \in 1 .. c : ledger[n + i] = rows.ledger[copies[i]]
       /\ \A i \in 1 .. d : ledger[n + c + i] =
             [rows.ledger[repeats[i]] EXCEPT !.order = n + i, !.invoice = n + i]
       /\ \A i \in 1 .. n + c + d :
             i \in 1 .. n \/ (\E j \in 1 .. c : i = n + j) \/ (\E j \in 1 .. d : i = n + c + j)
  <2>1. middle \in [1 .. c -> LedgerEntry]
    BY <1>5, <1>10
  <2>2. ASSUME NEW i \in 1 .. d
        PROVE  /\ last[i] \in LedgerEntry
               /\ last[i] = [rows.ledger[repeats[i]] EXCEPT !.order = n + i, !.invoice = n + i]
    <3>1. rows.ledger[repeats[i]] \in LedgerEntry /\ n + i \in Nat \ {0}
      BY <1>5, <1>10
    <3>2. last[i] = [rows.ledger[repeats[i]] EXCEPT !.order = n + i, !.invoice = n + i]
      BY <1>5, <1>10
    <3>. HIDE DEF last
    <3>. QED  BY <3>1, <3>2 DEF LedgerEntry
  <2>3. last \in [1 .. d -> LedgerEntry]
    BY <1>10, <2>2
  <2>4. ledger = (rows.ledger \o middle) \o last
    OBVIOUS
  <2>5. \A i \in 1 .. c : middle[i] = rows.ledger[copies[i]]
    BY <1>10
  <2>. HIDE DEF middle, last, ledger
  <2>. DEFINE front == rows.ledger \o middle
  <2>6. /\ front \in Seq(LedgerEntry) /\ Len(front) = n + c
        /\ \A i \in 1 .. n : front[i] = rows.ledger[i]
        /\ \A i \in 1 .. c : front[n + i] = middle[i]
        /\ \A i \in 1 .. n + c : i \in 1 .. n \/ \E j \in 1 .. c : i = n + j
    <3>1. front \in Seq(LedgerEntry) /\ Extended(front, rows.ledger, c, middle)
      BY <1>6, <1>10, <2>1, Lengthened
    <3>. HIDE DEF front
    <3>. QED  BY <1>5, <3>1 DEF Extended
  <2>. HIDE DEF front
  <2>7. /\ ledger \in Seq(LedgerEntry) /\ DOMAIN ledger = 1 .. (n + c) + d
        /\ \A i \in 1 .. n + c : ledger[i] = front[i]
        /\ \A i \in 1 .. d : ledger[(n + c) + i] = last[i]
        /\ \A i \in 1 .. (n + c) + d : i \in 1 .. n + c \/ \E j \in 1 .. d : i = (n + c) + j
    <3>1. ledger \in Seq(LedgerEntry) /\ Extended(ledger, front, d, last)
      <4>1. front \in Seq(LedgerEntry) /\ ledger = front \o last
        BY <2>4, <2>6 DEF front
      <4>. QED  BY <1>10, <2>3, <4>1, Lengthened
    <3>. QED  BY <2>6, <3>1 DEF Extended
  <2>8. \A i \in 1 .. n : i \in 1 .. n + c
    BY <1>5, <1>10
  <2>9. \A i \in 1 .. c : n + i \in 1 .. n + c
    BY <1>5, <1>10
  <2>. QED  BY <2>2, <2>5, <2>6, <2>7, <2>8, <2>9
<1>12. Extended(payments, rows.payments, d, [i \in 1 .. d |->
          [rows.payments[repeats[i]] EXCEPT !.order = n + i,
                                            !.authorized = rows.payments[repeats[i]].captured]])
  <2>1. ASSUME NEW i \in 1 .. d
        PROVE  morePayments[i] \in PaymentRow
    <3>1. /\ rows.payments[repeats[i]] \in PaymentRow /\ n + i \in Nat \ {0}
      BY <1>5, <1>10
    <3>2. rows.payments[repeats[i]].captured \in Int
      BY <3>1 DEF PaymentRow
    <3>3. morePayments[i] = [rows.payments[repeats[i]] EXCEPT !.order = n + i,
                                !.authorized = rows.payments[repeats[i]].captured]
      BY <1>5, <1>10
    <3>. HIDE DEF morePayments
    <3>. QED  BY <3>1, <3>2, <3>3 DEF PaymentRow
  <2>2. morePayments \in [1 .. d -> PaymentRow]
    BY <1>10, <2>1
  <2>3. payments = rows.payments \o morePayments
    BY <1>5 DEF old
  <2>4. morePayments = [i \in 1 .. d |->
          [rows.payments[repeats[i]] EXCEPT !.order = n + i,
                                            !.authorized = rows.payments[repeats[i]].captured]]
    BY <1>5, <1>10
  <2>. HIDE DEF morePayments, payments
  <2>5. Extended(payments, rows.payments, d, morePayments)
    BY <1>6, <1>10, <2>2, <2>3, Lengthened
  <2>. QED  BY <2>4, <2>5
<1>13. Extended(chains, rows.chains, d, [i \in 1 .. d |->
          [rows.chains[repeats[i]] EXCEPT !.refund = 0]])
  <2>1. ASSUME NEW i \in 1 .. d
        PROVE  moreChains[i] \in ChainRow
    <3>1. rows.chains[repeats[i]] \in ChainRow
      BY <1>5, <1>10
    <3>2. moreChains[i] = [rows.chains[repeats[i]] EXCEPT !.refund = 0]
      BY <1>10
    <3>. HIDE DEF moreChains
    <3>. QED  BY <3>1, <3>2 DEF ChainRow
  <2>2. moreChains \in [1 .. d -> ChainRow]
    BY <1>10, <2>1
  <2>3. chains = rows.chains \o moreChains
    OBVIOUS
  <2>5. moreChains = [i \in 1 .. d |-> [rows.chains[repeats[i]] EXCEPT !.refund = 0]]
    BY <1>10
  <2>. HIDE DEF moreChains, chains
  <2>4. Extended(chains, rows.chains, d, moreChains)
    BY <1>6, <1>10, <2>2, <2>3, Lengthened
  <2>. QED  BY <2>4, <2>5
<1>14. Extended(lines, rows.lines, d, [i \in 1 .. d |->
          [rows.lines[LineFor(rows, repeats[i])] EXCEPT !.payment = n + i]])
  <2>1. ASSUME NEW i \in 1 .. d
        PROVE  moreLines[i] \in LineRow
    <3>. DEFINE l == LineOf(repeats[i])
    <3>1. l \in DOMAIN rows.lines
      <4>1. repeats[i] \in DOMAIN rows.payments
        BY <1>5, <1>10
      <4>. QED  BY <1>1, <4>1, LineIsFound
    <3>. HIDE DEF l
    <3>2. moreLines[i] = [rows.lines[l] EXCEPT !.payment = n + i]
      BY <1>5, <1>10 DEF l
    <3>3. rows.lines[l] \in LineRow /\ n + i \in Nat \ {0}
      BY <1>5, <1>10, <3>1
    <3>. HIDE DEF moreLines
    <3>. QED  BY <3>2, <3>3 DEF LineRow
  <2>2. moreLines \in [1 .. d -> LineRow]
    BY <1>10, <2>1
  <2>3. lines = rows.lines \o moreLines
    OBVIOUS
  <2>4. \A p : LineOf(p) = LineFor(rows, p)
    BY DEF LineOf, LineFor, PaymentLineIds
  <2>5. moreLines = [i \in 1 .. d |->
          [rows.lines[LineFor(rows, repeats[i])] EXCEPT !.payment = n + i]]
    BY <1>5, <1>10, <2>4
  <2>. HIDE DEF moreLines, lines
  <2>6. Extended(lines, rows.lines, d, moreLines)
    BY <1>6, <1>10, <2>2, <2>3, Lengthened
  <2>. QED  BY <2>5, <2>6
<1>. HIDE DEF ledger, payments, lines, chains
<1>16. /\ r.payments = payments /\ r.chains = chains /\ r.lines = lines /\ r.refunds = rows.refunds
       /\ r.ledger = ledger /\ r.batches = rows.batches /\ r.bank = rows.bank
       /\ DOMAIN r = {"ledger", "payments", "refunds", "lines", "batches", "bank", "chains"}
  BY <1>5 DEF ledger, payments, lines, chains
<1>. HIDE DEF r
<1>17. /\ rows'.ledger = ledger /\ rows'.payments = payments /\ rows'.refunds = rows.refunds
       /\ rows'.lines = lines /\ rows'.chains = chains /\ Retotalled(r, rows')
  BY <1>16, <1>25, ResummedFields
<1>18. Retotalled(rows, rows')
  BY <1>16, <1>17 DEF Retotalled
<1>19. Doubled(rows, rows', n, c, copies, d, repeats)
  <2>1. n \in Nat /\ DOMAIN rows.payments = 1 .. n
    BY <1>5
  <2>2. /\ c \in Nat /\ copies \in [1 .. c -> 1 .. n]
        /\ d \in Nat /\ repeats \in [1 .. d -> 1 .. n]
        /\ \A i, j \in 1 .. c : copies[i] = copies[j] => i = j
        /\ \A i, j \in 1 .. d : repeats[i] = repeats[j] => i = j
        /\ \A i \in 1 .. c, j \in 1 .. d : copies[i] # repeats[j]
    BY <1>10
  <2>3. /\ rows'.refunds = rows.refunds
        /\ DOMAIN rows'.ledger = 1 .. n + c + d
        /\ \A i \in 1 .. n : rows'.ledger[i] = rows.ledger[i]
        /\ \A i \in 1 .. c : rows'.ledger[n + i] = rows.ledger[copies[i]]
        /\ \A i \in 1 .. d : rows'.ledger[n + c + i] =
              [rows.ledger[repeats[i]] EXCEPT !.order = n + i, !.invoice = n + i]
        /\ \A i \in 1 .. n + c + d :
              i \in 1 .. n \/ (\E j \in 1 .. c : i = n + j) \/ (\E j \in 1 .. d : i = n + c + j)
    BY <1>11, <1>17
  <2>. HIDE DEF Extended
  <2>4. Extended(rows'.payments, rows.payments, d, [i \in 1 .. d |->
          [rows.payments[repeats[i]] EXCEPT !.order = n + i,
                                     !.authorized = rows.payments[repeats[i]].captured]])
    BY <1>12, <1>17
  <2>5. Extended(rows'.lines, rows.lines, d, [i \in 1 .. d |->
          [rows.lines[LineFor(rows, repeats[i])] EXCEPT !.payment = n + i]])
    BY <1>14, <1>17
  <2>6. Extended(rows'.chains, rows.chains, d, [i \in 1 .. d |->
          [rows.chains[repeats[i]] EXCEPT !.refund = 0]])
    BY <1>13, <1>17
  <2>. QED  BY <1>18, <2>1, <2>2, <2>3, <2>4, <2>5, <2>6, Zenon DEF Doubled
<1>20. new = DoublingNotes(rows, n, c, copies, d)
  <2>1. {Note("duplicate_ledger_rows", "ledger_row", p, "DUPLICATE_CONFIRMED", TRUE,
              rows.ledger[p].gross) : p \in copied}
          = {Note("duplicate_ledger_rows", "ledger_row", copies[i], "DUPLICATE_CONFIRMED",
                  TRUE, rows.ledger[copies[i]].gross) : i \in 1 .. c}
    <3>. DEFINE F(p) == Note("duplicate_ledger_rows", "ledger_row", p, "DUPLICATE_CONFIRMED",
                             TRUE, rows.ledger[p].gross)
    <3>1. \A p \in copied : \E i \in 1 .. c : p = copies[i]
      BY <1>10
    <3>2. \A i \in 1 .. c : copies[i] \in copied
      BY <1>10
    <3>. HIDE DEF F
    <3>3. {F(p) : p \in copied} = {F(copies[i]) : i \in 1 .. c}
      BY <3>1, <3>2
    <3>. QED  BY <3>3 DEF F
  <2>2. {Note("duplicate_ledger_rows", "case", old + i, "DUPLICATE_CANDIDATE",
              TRUE, 0) : i \in DOMAIN repeats}
          = {Note("duplicate_ledger_rows", "case", n + i, "DUPLICATE_CANDIDATE",
                  TRUE, 0) : i \in 1 .. d}
    BY <1>5, <1>10
  <2>. QED  BY <2>1, <2>2 DEF DoublingNotes
<1>. HIDE DEF new
<1>. QED  BY <1>19, <1>20, <1>25

(* A later batch of the profile a line belongs to.                         *)
ProfileAt(r, l) == r.chains[r.lines[l].payment].profile

LaterHome(r, l, o) ==
    /\ o \in DOMAIN r.batches /\ r.batches[r.lines[l].batch].settled < r.batches[o].settled
    /\ \E k \in DOMAIN r.lines : r.lines[k].batch = o /\ ProfileAt(r, k) = ProfileAt(r, l)

MovedTo(r, line, o) == [line EXCEPT !.batch = o, !.settled = r.batches[o].settled]

LEMMA LaterIsHome ==
  ASSUME NEW l \in DOMAIN rows.lines, NEW n,
         NEW o \in LaterBatches(rows.lines[l].batch, ProfileOfLine(l), n)
  PROVE  LaterHome(rows, l, o)
<1>1. /\ o \in DOMAIN rows.batches /\ Owners(o) = {ProfileOfLine(l)}
      /\ rows.batches[rows.lines[l].batch].settled < rows.batches[o].settled
  BY DEF LaterBatches
<1>2. PICK k \in DOMAIN rows.lines :
        /\ rows.lines[k].batch = o
        /\ rows.chains[rows.lines[k].payment].profile = ProfileOfLine(l)
  <2>1. ProfileOfLine(l) \in Owners(o)
    BY <1>1
  <2>. QED  BY <2>1 DEF Owners
<1>. QED  BY <1>1, <1>2 DEF LaterHome, ProfileAt, ProfileOfLine

(* delayed_settlement: some payments' lines settle in a later batch.       *)
Delayed(r, s, late, to) ==
    /\ late \in SUBSET PaymentLinesOf(r.lines)
    /\ \A l \in late : LaterHome(r, l, to[l])
    /\ s.ledger = r.ledger /\ s.payments = r.payments /\ s.refunds = r.refunds
    /\ s.chains = r.chains
    /\ s.lines = [l \in DOMAIN r.lines |-> IF l \in late
            THEN MovedTo(r, r.lines[l], to[l]) ELSE r.lines[l]]
    /\ Retotalled(r, s)

DelayNotes(r, late) ==
    {Note("delayed_settlement", "case", r.lines[l].payment, "T_PLUS_N_TIMING", TRUE, 0) :
        l \in late}

LEMMA DelayedSettlementDone ==
  ASSUME GeneratorInv, DelayedSettlement
  PROVE  \E late, to :
            Delayed(rows, rows', late, to) /\ notes' = notes \union DelayNotes(rows, late)
<1>. DEFINE target(picked, lag) == [l \in picked |->
                LaterBatches(rows.lines[l].batch, ProfileOfLine(l), lag[l])]
            later(picked, lag) == {l \in picked : target(picked, lag)[l] # {}}
            delayed(picked, lag) == [l \in DOMAIN rows.lines |-> IF l \in later(picked, lag)
                THEN Moved(rows.lines[l], CHOOSE b \in target(picked, lag)[l] : TRUE)
                ELSE rows.lines[l]]
            noted(picked, lag) ==
                {Note("delayed_settlement", "case", rows.lines[l].payment, "T_PLUS_N_TIMING",
                      TRUE, 0) : l \in later(picked, lag)}
<1>1. rows \in RowTables
  BY DEF GeneratorInv
<1>2. \E picked \in Picks(PaymentLineIds, 0) : \E lag \in [picked -> 1 .. 2] :
        Injected("delayed_settlement", Resummed([rows EXCEPT !.lines = delayed(picked, lag)]),
                 noted(picked, lag))
  BY DEF DelayedSettlement
<1>3. PICK picked \in Picks(PaymentLineIds, 0) : \E lag \in [picked -> 1 .. 2] :
        Injected("delayed_settlement", Resummed([rows EXCEPT !.lines = delayed(picked, lag)]),
                 noted(picked, lag))
  BY <1>2
<1>4. PICK lag \in [picked -> 1 .. 2] :
        Injected("delayed_settlement", Resummed([rows EXCEPT !.lines = delayed(picked, lag)]),
                 noted(picked, lag))
  BY <1>3
<1>. DEFINE late == later(picked, lag)
            to == [l \in late |-> CHOOSE b \in target(picked, lag)[l] : TRUE]
            lines == delayed(picked, lag)
            r == [rows EXCEPT !.lines = lines]
<1>5. DOMAIN rows = {"ledger", "payments", "refunds", "lines", "batches", "bank", "chains"}
  BY <1>1, TablesHoldRows
<1>6. ASSUME NEW l \in late
      PROVE  l \in PaymentLinesOf(rows.lines) /\ LaterHome(rows, l, to[l])
  <2>1. l \in picked /\ l \in PaymentLineIds
    BY PickedAreRows
  <2>2. l \in PaymentLinesOf(rows.lines) /\ l \in DOMAIN rows.lines
    BY <2>1 DEF PaymentLineIds, PaymentLinesOf
  <2>3. to[l] \in LaterBatches(rows.lines[l].batch, ProfileOfLine(l), lag[l])
    BY <2>1
  <2>. HIDE DEF to
  <2>. QED  BY <2>2, <2>3, LaterIsHome
<1>7. lines = [l \in DOMAIN rows.lines |-> IF l \in late
                 THEN MovedTo(rows, rows.lines[l], to[l]) ELSE rows.lines[l]]
  BY DEF Moved, MovedTo
<1>8. noted(picked, lag) = DelayNotes(rows, late)
  BY DEF DelayNotes
<1>9. rows' = Resummed(r) /\ notes' = notes \union DelayNotes(rows, late)
  BY <1>4, <1>8 DEF Injected
<1>. HIDE DEF late, to, lines
<1>10. /\ r.payments = rows.payments /\ r.chains = rows.chains /\ r.lines = lines
       /\ r.refunds = rows.refunds
       /\ r.ledger = rows.ledger /\ r.batches = rows.batches /\ r.bank = rows.bank
       /\ DOMAIN r = {"ledger", "payments", "refunds", "lines", "batches", "bank", "chains"}
  BY <1>5
<1>. HIDE DEF r
<1>11. /\ rows'.ledger = rows.ledger /\ rows'.payments = rows.payments
       /\ rows'.refunds = rows.refunds /\ rows'.lines = lines /\ rows'.chains = rows.chains
       /\ Retotalled(r, rows')
  BY <1>9, <1>10, ResummedFields
<1>12. Retotalled(rows, rows')
  BY <1>10, <1>11 DEF Retotalled
<1>13. late \in SUBSET PaymentLinesOf(rows.lines)
  BY <1>6
<1>14. Delayed(rows, rows', late, to)
  BY <1>6, <1>7, <1>11, <1>12, <1>13 DEF Delayed
<1>. QED  BY <1>9, <1>14

(* split_settlement: the lines of some payments are parted, the second     *)
(* part in a later batch.                                                  *)
Split(r, s, split, first, second, to, d, added) ==
    /\ split \in SUBSET PaymentLinesOf(r.lines)
    /\ d \in Nat /\ added \in [1 .. d -> split]
    /\ \A i, j \in 1 .. d : added[i] = added[j] => i = j
    /\ \A l \in split : \E i \in 1 .. d : added[i] = l
    /\ \A l \in split :
          LET priced(gross) == Priced(gross, r.payments[r.lines[l].payment].method, ProfileAt(r, l))
          IN  /\ LaterHome(r, l, to[l])
              /\ first[l] \in Prices /\ first[l] = priced(first[l].gross) /\ first[l].net > 0
              /\ second[l] \in Prices /\ second[l] = priced(second[l].gross) /\ second[l].net > 0
              /\ first[l].gross \in 0 .. r.lines[l].gross
              /\ second[l].gross = r.lines[l].gross - first[l].gross
    /\ s.ledger = r.ledger /\ s.payments = r.payments /\ s.refunds = r.refunds
    /\ Extended(s.lines,
          [l \in DOMAIN r.lines |-> IF l \in split
              THEN Repriced(r.lines[l], first[l]) ELSE r.lines[l]], d,
          [i \in 1 .. d |->
              MovedTo(r, Repriced(r.lines[added[i]], second[added[i]]), to[added[i]])])
    /\ DOMAIN s.chains = DOMAIN r.chains
    /\ \A l \in split :
          LET p == r.lines[l].payment
          IN  s.chains[p] = ChainOf(r.chains[p], r.chains[p].captured,
                  first[l].fee + second[l].fee, first[l].tax + second[l].tax,
                  first[l].net + second[l].net)
    /\ \A p \in DOMAIN r.chains :
          s.chains[p] = r.chains[p] \/ \E l \in split : r.lines[l].payment = p
    /\ Retotalled(r, s)

SplitNotes(r, split) ==
    {Note("split_settlement", "case", r.lines[l].payment, "SPLIT_SETTLEMENT", TRUE, 0) :
        l \in split}

LEMMA SplitSettlementDone ==
  ASSUME GeneratorInv, SplitSettlement
  PROVE  \E split, first, second, to, d, added :
            /\ Split(rows, rows', split, first, second, to, d, added)
            /\ notes' = notes \union SplitNotes(rows, split)
<1>. DEFINE following(picked) == [l \in picked |->
                LaterBatches(rows.lines[l].batch, ProfileOfLine(l), 1)]
            priced(l, gross) ==
                Priced(gross, rows.payments[rows.lines[l].payment].method, ProfileOfLine(l))
            firsts(picked, part) ==
                [l \in picked |-> priced(l, (rows.lines[l].gross * part[l]) \div 100)]
            seconds(picked, part) ==
                [l \in picked |-> priced(l, rows.lines[l].gross - firsts(picked, part)[l].gross)]
            parted(picked, part) ==
                {l \in picked : following(picked)[l] # {} /\ firsts(picked, part)[l].net > 0
                                  /\ seconds(picked, part)[l].net > 0}
            lineOf(split) == [p \in {rows.lines[l].payment : l \in split} |-> LineOf(p)]
            relined(split, first, second, next) ==
                [l \in DOMAIN rows.lines |-> IF l \in split
                    THEN Repriced(rows.lines[l], first[l]) ELSE rows.lines[l]]
                  \o [i \in DOMAIN Ascending(split) |->
                        Moved(Repriced(rows.lines[Ascending(split)[i]], second[Ascending(split)[i]]),
                              CHOOSE b \in next[Ascending(split)[i]] : TRUE)]
            rechained(split, first, second) ==
                [p \in DOMAIN rows.chains |-> IF p \in DOMAIN lineOf(split)
                  THEN LET a == first[lineOf(split)[p]]
                           b == second[lineOf(split)[p]]
                       IN  ChainOf(rows.chains[p], rows.chains[p].captured, a.fee + b.fee,
                                   a.tax + b.tax, a.net + b.net)
                  ELSE rows.chains[p]]
            noted(split) == {Note("split_settlement", "case", rows.lines[l].payment,
                                  "SPLIT_SETTLEMENT", TRUE, 0) : l \in split}
            big == {l \in PaymentLineIds : rows.lines[l].gross >= SplitFloor}
            Done(split, first, second, next) ==
                Injected("split_settlement",
                    Resummed([rows EXCEPT !.lines = relined(split, first, second, next),
                                          !.chains = rechained(split, first, second)]),
                    noted(split))
<1>1. /\ stage = "split_settlement" /\ rows \in RowTables /\ Wired(rows) /\ SingleLines(rows)
  BY DEF GeneratorInv, SplitSettlement, Single, Settling, Punctual
<1>2. \E picked \in Picks(big, 0) : \E part \in [picked -> SplitParts] :
        Done(parted(picked, part), firsts(picked, part), seconds(picked, part), following(picked))
  BY DEF SplitSettlement
<1>. HIDE DEF Done
<1>3. PICK picked \in Picks(big, 0) : \E part \in [picked -> SplitParts] :
        Done(parted(picked, part), firsts(picked, part), seconds(picked, part), following(picked))
  BY <1>2
<1>4. PICK part \in [picked -> SplitParts] :
        Done(parted(picked, part), firsts(picked, part), seconds(picked, part), following(picked))
  BY <1>3
<1>. DEFINE next == following(picked)
            first == firsts(picked, part)
            second == seconds(picked, part)
            split == parted(picked, part)
            added == Ascending(split)
            n == Len(rows.lines)
            d == Len(added)
            to == [l \in split |-> CHOOSE b \in next[l] : TRUE]
            repriced == [l \in DOMAIN rows.lines |-> IF l \in split
                            THEN Repriced(rows.lines[l], first[l]) ELSE rows.lines[l]]
            more == [i \in DOMAIN added |->
                        Moved(Repriced(rows.lines[added[i]], second[added[i]]), to[added[i]])]
            lines == relined(split, first, second, next)
            chains == rechained(split, first, second)
            r == [rows EXCEPT !.lines = lines, !.chains = chains]
            new == noted(split)
<1>5. /\ n \in Nat /\ DOMAIN rows.lines = 1 .. n
      /\ \A l \in 1 .. n : rows.lines[l] \in LineRow
      /\ \A p \in DOMAIN rows.payments : rows.payments[p] \in PaymentRow
      /\ \A p \in DOMAIN rows.chains : rows.chains[p] \in ChainRow
      /\ DOMAIN rows.chains = DOMAIN rows.payments
      /\ rows.lines \in Seq(LineRow)
      /\ \A l \in 1 .. n :
            /\ rows.lines[l].payment \in DOMAIN rows.payments
            /\ rows.lines[l].batch \in DOMAIN rows.batches /\ rows.lines[l].gross \in Int
      /\ DOMAIN rows = {"ledger", "payments", "refunds", "lines", "batches", "bank", "chains"}
  <2>1. /\ n \in Nat /\ DOMAIN rows.lines = 1 .. n
        /\ \A l \in 1 .. n : rows.lines[l] \in LineRow
        /\ \A p \in DOMAIN rows.payments : rows.payments[p] \in PaymentRow
        /\ \A p \in DOMAIN rows.chains : rows.chains[p] \in ChainRow
        /\ DOMAIN rows.chains = DOMAIN rows.payments
        /\ DOMAIN rows = {"ledger", "payments", "refunds", "lines", "batches", "bank", "chains"}
    BY <1>1, TablesHoldRows DEF Wired
  <2>2. rows.lines \in Seq(LineRow)
    BY <1>1 DEF RowTables
  <2>. HIDE DEF n
  <2>. QED  BY <1>1, <2>1, <2>2 DEF Wired, LineRow
<1>6. \A l \in picked :
          l \in 1 .. n /\ rows.lines[l].type = "PAYMENT" /\ rows.lines[l].gross \in Nat
  <2>1. picked \in SUBSET big
    BY PickedAreRows
  <2>2. \A l \in 1 .. n : rows.lines[l].gross >= SplitFloor => rows.lines[l].gross \in Nat
    BY <1>5 DEF SplitFloor
  <2>. QED  BY <1>5, <2>1, <2>2 DEF PaymentLineIds
<1>. HIDE DEF n
<1>7. ASSUME NEW l \in picked, NEW gross \in Int
      PROVE  priced(l, gross) \in Prices /\ priced(l, gross).gross = gross
  <2>1. l \in 1 .. n
    BY <1>6
  <2>2. /\ rows.payments[rows.lines[l].payment].method \in Methods
        /\ rows.chains[rows.lines[l].payment].profile \in Profiles
    BY <1>5, <2>1 DEF PaymentRow, ChainRow
  <2>. QED  BY <2>2, PricedInPaise DEF ProfileOfLine
<1>8. ASSUME NEW l \in picked
      PROVE  /\ first[l] \in Prices /\ second[l] \in Prices
             /\ first[l] = priced(l, first[l].gross) /\ second[l] = priced(l, second[l].gross)
             /\ first[l].gross \in 0 .. rows.lines[l].gross
             /\ second[l].gross = rows.lines[l].gross - first[l].gross
  <2>. DEFINE whole == rows.lines[l].gross * part[l]
              amount == whole \div 100
              rest == rows.lines[l].gross - first[l].gross
  <2>1. rows.lines[l].gross \in Int /\ part[l] \in Int
    <3>1. part[l] \in Int
      BY SamplesAreWhole
    <3>. QED  BY <1>5, <1>6, <3>1
  <2>2. whole \in Int
    BY <2>1
  <2>3. amount \in Int
    <3>. HIDE DEF whole
    <3>. QED  BY <2>2, ScaledIsWhole
  <2>9. amount \in 0 .. rows.lines[l].gross
    <3>1. SplitParts \subseteq 0 .. 100
      BY SamplesAssumption
    <3>2. part[l] \in 0 .. 100
      BY <3>1
    <3>3. rows.lines[l].gross \in Nat
      BY <1>6
    <3>. QED  BY <3>2, <3>3, PartIsWithin
  <2>4. first[l] = priced(l, amount) /\ second[l] = priced(l, rest)
    OBVIOUS
  <2>. HIDE DEF amount, first, second, priced
  <2>5. first[l] \in Prices /\ first[l].gross = amount
    BY <1>7, <2>3, <2>4
  <2>6. first[l].gross \in Int
    BY <2>5 DEF Prices
  <2>7. rest \in Int
    BY <2>1, <2>6
  <2>8. second[l] \in Prices /\ second[l].gross = rest
    <3>. HIDE DEF rest
    <3>. QED  BY <1>7, <2>4, <2>7
  <2>. QED  BY <2>4, <2>5, <2>8, <2>9
<1>9. \A l \in split : /\ l \in picked /\ l \in 1 .. n /\ next[l] # {}
                       /\ first[l].net > 0 /\ second[l].net > 0
  BY <1>6
<1>10. ASSUME NEW l \in split
       PROVE  LaterHome(rows, l, to[l])
  <2>1. l \in picked /\ l \in DOMAIN rows.lines /\ next[l] # {}
    BY <1>5, <1>9
  <2>2. next[l] = LaterBatches(rows.lines[l].batch, ProfileOfLine(l), 1)
    BY <2>1
  <2>3. to[l] = CHOOSE b \in next[l] : TRUE
    OBVIOUS
  <2>. HIDE DEF next, to
  <2>4. to[l] \in LaterBatches(rows.lines[l].batch, ProfileOfLine(l), 1)
    BY <2>1, <2>2, <2>3
  <2>. QED  BY <2>1, <2>4, LaterIsHome
<1>21. more = [i \in DOMAIN added |->
          Moved(Repriced(rows.lines[added[i]], second[added[i]]), CHOOSE b \in next[added[i]] : TRUE)]
  <2>. HIDE DEF split, first, second, next
  <2>1. split \in SUBSET (1 .. n) /\ IsFiniteSet(1 .. n) /\ split \in SUBSET Int
    BY <1>5, <1>9, FS_Interval
  <2>2. Lists(added, split)
    BY <2>1, FS_Subset, AscendingLists DEF added
  <2>3. \A i \in DOMAIN added : added[i] \in split
    <3>. HIDE DEF added, split
    <3>1. added \in Seq(split)
      BY <2>2 DEF Lists
    <3>. QED  BY <3>1, ElementOfSeq, LenProperties
  <2>4. \A l \in split : to[l] = CHOOSE b \in next[l] : TRUE
    BY DEF to
  <2>. HIDE DEF added, split, to, next, second
  <2>. QED  BY <2>3, <2>4
<1>22. lines = repriced \o more
  BY <1>21 DEF added
<1>23. chains = [p \in DOMAIN rows.chains |-> IF p \in {rows.lines[l].payment : l \in split}
                  THEN ChainOf(rows.chains[p], rows.chains[p].captured,
                           first[LineOf(p)].fee + second[LineOf(p)].fee,
                           first[LineOf(p)].tax + second[LineOf(p)].tax,
                           first[LineOf(p)].net + second[LineOf(p)].net)
                  ELSE rows.chains[p]]
  <2>. DEFINE pays == {rows.lines[l].payment : l \in split}
  <2>1. DOMAIN lineOf(split) = pays /\ \A p \in pays : lineOf(split)[p] = LineOf(p)
    OBVIOUS
  <2>2. chains = [p \in DOMAIN rows.chains |-> IF p \in DOMAIN lineOf(split)
                  THEN ChainOf(rows.chains[p], rows.chains[p].captured,
                           first[lineOf(split)[p]].fee + second[lineOf(split)[p]].fee,
                           first[lineOf(split)[p]].tax + second[lineOf(split)[p]].tax,
                           first[lineOf(split)[p]].net + second[lineOf(split)[p]].net)
                  ELSE rows.chains[p]]
    <3>. HIDE DEF first, second, split, lineOf
    <3>. QED  OBVIOUS
  <2>. HIDE DEF first, second, split, lineOf, pays, chains
  <2>3. chains = [p \in DOMAIN rows.chains |-> IF p \in pays
                  THEN ChainOf(rows.chains[p], rows.chains[p].captured,
                           first[LineOf(p)].fee + second[LineOf(p)].fee,
                           first[LineOf(p)].tax + second[LineOf(p)].tax,
                           first[LineOf(p)].net + second[LineOf(p)].net)
                  ELSE rows.chains[p]]
    BY <2>1, <2>2
  <2>. QED  BY <2>3 DEF pays
<1>24. rows' = Resummed(r) /\ notes' = notes \union new
  BY <1>4 DEF Injected, Done
<1>25. new = SplitNotes(rows, split)
  BY DEF SplitNotes
<1>. HIDE DEF next, first, second, split, to, added, new
<1>11. /\ d \in Nat /\ DOMAIN added = 1 .. d /\ added \in [1 .. d -> split]
       /\ \A i, j \in 1 .. d : added[i] = added[j] => i = j
       /\ \A l \in split : \E i \in 1 .. d : added[i] = l
  <2>1. split \in SUBSET (1 .. n) /\ IsFiniteSet(1 .. n) /\ split \in SUBSET Int
    BY <1>5, <1>9, FS_Interval
  <2>2. Lists(added, split)
    BY <2>1, FS_Subset, AscendingLists DEF added
  <2>3. added \in Seq(split)
    BY <2>2 DEF Lists
  <2>4. d \in Nat /\ DOMAIN added = 1 .. d /\ added \in [1 .. d -> split]
    BY <2>3, LenProperties
  <2>. QED  BY <2>2, <2>4 DEF Lists
<1>. HIDE DEF d
<1>12. ASSUME NEW l \in 1 .. n
       PROVE  repriced[l] \in LineRow
  <2>1. repriced[l] = IF l \in split THEN Repriced(rows.lines[l], first[l]) ELSE rows.lines[l]
    BY <1>5
  <2>. HIDE DEF repriced
  <2>2. CASE l \in split
    BY <1>5, <1>8, <1>9, <2>1, <2>2, RepricedIsLine
  <2>3. CASE l \notin split
    BY <1>5, <2>1, <2>3
  <2>. QED  BY <2>2, <2>3
<1>13. ASSUME NEW i \in 1 .. d
       PROVE  more[i] \in LineRow
  <2>. DEFINE l == added[i]
              line == Repriced(rows.lines[l], second[l])
  <2>1. l \in split /\ more[i] = Moved(line, to[l])
    BY <1>11
  <2>. HIDE DEF more, l
  <2>2. line \in LineRow
    BY <1>5, <1>8, <1>9, <2>1, RepricedIsLine
  <2>. HIDE DEF line
  <2>3. to[l] \in DOMAIN rows.batches
    BY <1>10, <2>1 DEF LaterHome
  <2>. QED  BY <1>1, <2>1, <2>2, <2>3, MovedIsLine
<1>15. Extended(lines, repriced, d, more)
  <2>1. repriced \in [1 .. n -> LineRow] /\ more \in [1 .. d -> LineRow]
    BY <1>5, <1>11, <1>12, <1>13
  <2>. HIDE DEF repriced, more, lines
  <2>2. repriced \in Seq(LineRow)
    BY <1>5, <2>1, SeqOf
  <2>. QED  BY <1>11, <1>22, <2>1, <2>2, Lengthened
<1>16. more = [i \in 1 .. d |->
          MovedTo(rows, Repriced(rows.lines[added[i]], second[added[i]]), to[added[i]])]
  BY <1>11 DEF Moved, MovedTo
<1>. HIDE DEF lines, more, chains
<1>17. ASSUME NEW l \in split
       PROVE  LET p == rows.lines[l].payment
              IN  chains[p] = ChainOf(rows.chains[p], rows.chains[p].captured,
                      first[l].fee + second[l].fee, first[l].tax + second[l].tax,
                      first[l].net + second[l].net)
  <2>. DEFINE p == rows.lines[l].payment
  <2>1. l \in 1 .. n /\ rows.lines[l].type = "PAYMENT" /\ p \in DOMAIN rows.payments
    BY <1>5, <1>6, <1>9
  <2>2. /\ LineOf(p) \in 1 .. n /\ rows.lines[LineOf(p)].payment = p
        /\ rows.lines[LineOf(p)].type = "PAYMENT"
    BY <1>1, <1>5, <2>1, LineIsFound
  <2>3. LineOf(p) = l
    BY <1>1, <1>5, <2>1, <2>2 DEF SingleLines
  <2>4. p \in {rows.lines[k].payment : k \in split}
    OBVIOUS
  <2>. HIDE DEF p
  <2>5. chains[p] = ChainOf(rows.chains[p], rows.chains[p].captured,
                           first[LineOf(p)].fee + second[LineOf(p)].fee,
                           first[LineOf(p)].tax + second[LineOf(p)].tax,
                           first[LineOf(p)].net + second[LineOf(p)].net)
    BY <1>5, <1>23, <2>1, <2>4
  <2>. QED  BY <2>3, <2>5 DEF p
<1>18. /\ DOMAIN chains = DOMAIN rows.chains
       /\ \A p \in DOMAIN rows.chains :
             chains[p] = rows.chains[p] \/ \E l \in split : rows.lines[l].payment = p
  <2>1. DOMAIN chains = DOMAIN rows.chains
    BY <1>23
  <2>2. ASSUME NEW p \in DOMAIN rows.chains, ~ \E l \in split : rows.lines[l].payment = p
        PROVE  chains[p] = rows.chains[p]
    <3>1. p \notin {rows.lines[l].payment : l \in split}
      BY <2>2
    <3>. QED  BY <1>23, <3>1
  <2>. QED  BY <2>1, <2>2
<1>19. /\ r.payments = rows.payments /\ r.chains = chains /\ r.lines = lines
       /\ r.refunds = rows.refunds
       /\ r.ledger = rows.ledger /\ r.batches = rows.batches /\ r.bank = rows.bank
       /\ DOMAIN r = {"ledger", "payments", "refunds", "lines", "batches", "bank", "chains"}
  BY <1>5
<1>. HIDE DEF r
<1>20. /\ rows'.ledger = rows.ledger /\ rows'.payments = rows.payments
       /\ rows'.refunds = rows.refunds /\ rows'.lines = lines /\ rows'.chains = chains
       /\ Retotalled(r, rows')
  BY <1>19, <1>24, ResummedFields
<1>26. Retotalled(rows, rows')
  BY <1>19, <1>20 DEF Retotalled
<1>27. split \in SUBSET PaymentLinesOf(rows.lines)
  BY <1>5, <1>6, <1>9 DEF PaymentLinesOf
<1>28. Split(rows, rows', split, first, second, to, d, added)
  <2>. HIDE DEF repriced
  <2>1. ASSUME NEW l \in split
        PROVE  LET price(gross) ==
                       Priced(gross, rows.payments[rows.lines[l].payment].method, ProfileAt(rows, l))
               IN  /\ LaterHome(rows, l, to[l])
                   /\ first[l] \in Prices /\ first[l] = price(first[l].gross) /\ first[l].net > 0
                   /\ second[l] \in Prices /\ second[l] = price(second[l].gross)
                   /\ second[l].net > 0
                   /\ first[l].gross \in 0 .. rows.lines[l].gross
                   /\ second[l].gross = rows.lines[l].gross - first[l].gross
    BY <1>8, <1>9, <1>10 DEF ProfileAt, ProfileOfLine
  <2>2. Extended(rows'.lines,
          [l \in DOMAIN rows.lines |-> IF l \in split
              THEN Repriced(rows.lines[l], first[l]) ELSE rows.lines[l]], d,
          [i \in 1 .. d |-> MovedTo(rows, Repriced(rows.lines[added[i]], second[added[i]]),
                                    to[added[i]])])
    BY <1>15, <1>16, <1>20 DEF repriced
  <2>3. \A l \in split :
          LET p == rows.lines[l].payment
          IN  rows'.chains[p] = ChainOf(rows.chains[p], rows.chains[p].captured,
                  first[l].fee + second[l].fee, first[l].tax + second[l].tax,
                  first[l].net + second[l].net)
    BY <1>17, <1>20
  <2>4. /\ DOMAIN rows'.chains = DOMAIN rows.chains
        /\ \A p \in DOMAIN rows.chains :
             rows'.chains[p] = rows.chains[p] \/ \E l \in split : rows.lines[l].payment = p
    BY <1>18, <1>20
  <2>5. rows'.ledger = rows.ledger /\ rows'.payments = rows.payments /\ rows'.refunds = rows.refunds
    BY <1>20
  <2>. QED  BY <1>11, <1>26, <1>27, <2>1, <2>2, <2>3, <2>4, <2>5, Zenon DEF Split
<1>. QED  BY <1>24, <1>25, <1>28

(* The last injectors change credits only.                                 *)
SameBooks(r, s) ==
    /\ s.ledger = r.ledger /\ s.payments = r.payments /\ s.refunds = r.refunds
    /\ s.lines = r.lines /\ s.batches = r.batches /\ s.chains = r.chains

LEMMA OnlyCreditsChange ==
  ASSUME NEW r \in RowTables, NEW bank, NEW s, s = [r EXCEPT !.bank = bank]
  PROVE  SameBooks(r, s) /\ s.bank = bank
<1>1. DOMAIN r = {"ledger", "payments", "refunds", "lines", "batches", "bank", "chains"}
  BY TablesHoldRows
<1>. QED  BY <1>1 DEF SameBooks

(* truncate_utr, drop_utr and garbled_narration: the narrations of some    *)
(* credits of batches carry less of the batch's own UTR, and links have    *)
(* notes of it.                                                            *)
Retokening(r, token) ==
    \A c \in DOMAIN token :
        /\ c \in DOMAIN r.bank /\ c \in DOMAIN r.batches
        /\ \/ token[c] = NoToken \/ token[c].of = r.batches[c].utr
           \/ r.bank[c].token # NoToken /\ token[c].of = r.bank[c].token.of

Retokened(r, s, token) ==
    /\ SameBooks(r, s) /\ Retokening(r, token)
    /\ s.bank = [c \in DOMAIN r.bank |-> IF c \in DOMAIN token
            THEN [r.bank[c] EXCEPT !.token = token[c]] ELSE r.bank[c]]

TokenNoise == {"truncate_utr", "drop_utr", "garbled_narration"}

LEMMA RetokenedRows ==
  ASSUME rows \in RowTables, NEW token, Retokening(rows, token)
  PROVE  Retokened(rows, WithTokens(token), token)
<1>1. /\ SameBooks(rows, WithTokens(token))
      /\ WithTokens(token).bank = [c \in DOMAIN rows.bank |-> IF c \in DOMAIN token
            THEN [rows.bank[c] EXCEPT !.token = token[c]] ELSE rows.bank[c]]
  BY OnlyCreditsChange DEF WithTokens
<1>. QED  BY <1>1 DEF Retokened

LEMMA TokensDone ==
  ASSUME GeneratorInv, TruncateUtr \/ DropUtr \/ GarbledNarration
  PROVE  \E token, new :
            /\ Retokened(rows, rows', token) /\ notes' = notes \union new
            /\ \A a \in new : a.kind = "batch_link" /\ a.noise \in TokenNoise
<1>1. rows \in RowTables /\ Wired(rows)
  BY DEF GeneratorInv
<1>2. ASSUME NEW c \in IntactCredits
      PROVE  /\ c \in DOMAIN rows.bank /\ c \in DOMAIN rows.batches
             /\ rows.bank[c].token # NoToken
             /\ rows.bank[c].token \in [kind : {"PREFIX", "GARBLED"}, of : UtrsUsed, kept : Int]
  <2>1. CarriesUtr(rows.bank[c].token, rows.batches[c].utr)
    BY DEF IntactCredits
  <2>2. rows.bank[c].token # NoToken
    BY <2>1 DEF CarriesUtr, NoToken
  <2>. QED  BY <1>1, <2>2, IntactIsCarried
<1>3. ASSUME NEW noise \in TokenNoise, NEW token, NEW new,
             Injected(noise, WithTokens(token), new),
             \A c \in DOMAIN token : c \in IntactCredits
                /\ (\/ token[c] = NoToken \/ token[c].of = rows.batches[c].utr
                    \/ rows.bank[c].token # NoToken /\ token[c].of = rows.bank[c].token.of),
             \A a \in new : a.kind = "batch_link" /\ a.noise = noise
      PROVE  \E t, n : /\ Retokened(rows, rows', t) /\ notes' = notes \union n
                       /\ \A a \in n : a.kind = "batch_link" /\ a.noise \in TokenNoise
  <2>0. Retokening(rows, token)
    BY <1>2, <1>3 DEF Retokening
  <2>1. Retokened(rows, WithTokens(token), token)
    BY <1>1, <2>0, RetokenedRows
  <2>2. rows' = WithTokens(token) /\ notes' = notes \union new
    BY <1>3 DEF Injected
  <2>. QED  BY <1>3, <2>1, <2>2
<1>4. CASE TruncateUtr
  <2>. DEFINE cut(picked, keep) == [c \in picked |-> [rows.bank[c].token EXCEPT !.kept = keep[c]]]
              sharing(c, picked, keep) == {b \in DOMAIN rows.batches :
                Shared(cut(picked, keep)[c], rows.batches[b].utr) = keep[c]}
              noted(picked, keep) ==
                {Note("truncate_utr", "batch_link", c, "UTR_TRUNCATED_MAPPING",
                      Cardinality(sharing(c, picked, keep)) = 1, 0) : c \in picked}
  <2>1. \E picked \in Picks(IntactCredits, 0) : \E keep \in [picked -> KeepLengths] :
          Injected("truncate_utr", WithTokens(cut(picked, keep)), noted(picked, keep))
    BY <1>4 DEF TruncateUtr
  <2>2. PICK picked \in Picks(IntactCredits, 0) : \E keep \in [picked -> KeepLengths] :
          Injected("truncate_utr", WithTokens(cut(picked, keep)), noted(picked, keep))
    BY <2>1
  <2>3. PICK keep \in [picked -> KeepLengths] :
          Injected("truncate_utr", WithTokens(cut(picked, keep)), noted(picked, keep))
    BY <2>2
  <2>4. \A c \in picked : c \in IntactCredits
    BY PickedAreRows
  <2>5. \A c \in DOMAIN cut(picked, keep) : c \in IntactCredits
                /\ rows.bank[c].token # NoToken /\ cut(picked, keep)[c].of = rows.bank[c].token.of
    <3>1. ASSUME NEW c \in picked
          PROVE  [rows.bank[c].token EXCEPT !.kept = keep[c]].of = rows.bank[c].token.of
      <4>1. /\ rows.bank[c].token \in [kind : {"PREFIX", "GARBLED"}, of : UtrsUsed, kept : Int]
        BY <1>2, <2>4
      <4>. QED  BY <4>1
    <3>. QED  BY <1>2, <2>4, <3>1
  <2>6. \A a \in noted(picked, keep) : a.kind = "batch_link" /\ a.noise = "truncate_utr"
    <3>. HIDE DEF sharing
    <3>. QED  BY DEF Note
  <2>. HIDE DEF cut, noted
  <2>. QED  BY <1>3, <2>3, <2>5, <2>6 DEF TokenNoise
<1>5. CASE DropUtr
  <2>. DEFINE equal(c) == {b \in DOMAIN rows.batches : rows.batches[b].net = rows.bank[c].amount}
              none(picked) == [c \in picked |-> NoToken]
              noted(picked) ==
                {Note("drop_utr", "batch_link", c, "UTR_MISSING_MAPPING",
                      Cardinality(equal(c)) = 1, 0) : c \in picked}
  <2>1. \E picked \in Picks(IntactCredits, 0) :
          Injected("drop_utr", WithTokens(none(picked)), noted(picked))
    BY <1>5 DEF DropUtr
  <2>2. PICK picked \in Picks(IntactCredits, 0) :
          Injected("drop_utr", WithTokens(none(picked)), noted(picked))
    BY <2>1
  <2>4. \A c \in picked : c \in IntactCredits
    BY PickedAreRows
  <2>5. \A c \in DOMAIN none(picked) : c \in IntactCredits /\ none(picked)[c] = NoToken
    BY <2>4
  <2>6. \A a \in noted(picked) : a.kind = "batch_link" /\ a.noise = "drop_utr"
    <3>. HIDE DEF equal
    <3>. QED  BY DEF Note
  <2>. HIDE DEF none, noted
  <2>. QED  BY <1>3, <2>2, <2>5, <2>6 DEF TokenNoise
<1>6. CASE GarbledNarration
  <2>. DEFINE mixed(picked, at) == [c \in picked |->
                [kind |-> "GARBLED", of |-> rows.batches[c].utr, kept |-> at[c]]]
              noted(picked) ==
                {Note("garbled_narration", "batch_link", c, "UTR_TRUNCATED_MAPPING", TRUE, 0) :
                  c \in picked}
  <2>1. \E picked \in Picks(IntactCredits, 0) : \E at \in [picked -> GarblePositions] :
          Injected("garbled_narration", WithTokens(mixed(picked, at)), noted(picked))
    BY <1>6 DEF GarbledNarration
  <2>2. PICK picked \in Picks(IntactCredits, 0) : \E at \in [picked -> GarblePositions] :
          Injected("garbled_narration", WithTokens(mixed(picked, at)), noted(picked))
    BY <2>1
  <2>3. PICK at \in [picked -> GarblePositions] :
          Injected("garbled_narration", WithTokens(mixed(picked, at)), noted(picked))
    BY <2>2
  <2>4. \A c \in picked : c \in IntactCredits
    BY PickedAreRows
  <2>5. \A c \in DOMAIN mixed(picked, at) : c \in IntactCredits
                /\ mixed(picked, at)[c].of = rows.batches[c].utr
    BY <2>4
  <2>6. \A a \in noted(picked) : a.kind = "batch_link" /\ a.noise = "garbled_narration"
    BY DEF Note
  <2>. HIDE DEF mixed, noted
  <2>. QED  BY <1>3, <2>3, <2>5, <2>6 DEF TokenNoise
<1>. QED  BY <1>4, <1>5, <1>6

(* unexplainable: credits of no batch are added, and some of batches are   *)
(* withheld.                                                               *)
Withheld(r, s, orphans, withheld) ==
    /\ SameBooks(r, s)
    /\ \E k \in Nat : orphans = Len(r.batches) + 1 .. Len(r.batches) + k
    /\ withheld \in SUBSET DOMAIN r.bank
    /\ withheld \intersect orphans = {} /\ DOMAIN s.bank = (DOMAIN r.bank \union orphans) \ withheld
    /\ \A c \in DOMAIN r.bank \ withheld : s.bank[c] = r.bank[c]
    /\ \A c \in orphans \ DOMAIN r.bank : s.bank[c].token = NoToken

WithheldNotes(r, s, orphans, withheld) ==
    {Note("unexplainable", "bank_row", c, "UNEXPLAINED", FALSE, s.bank[c].amount) : c \in orphans}
    \union {Note("unexplainable", "batch_link", c, "MISSING_VS_LATE_CREDIT", FALSE,
                 r.bank[c].amount) : c \in withheld}

LEMMA UnexplainableDone ==
  ASSUME GeneratorInv, Unexplainable
  PROVE  \E orphans, withheld :
            /\ Withheld(rows, rows', orphans, withheld)
            /\ notes' = notes \union WithheldNotes(rows, rows', orphans, withheld)
<1>. DEFINE amount(picked, part) == [b \in picked |->
                (2 * rows.batches[b].net + part[b]) \div (2 * part[b])]
            behind(picked, part) ==
                Ascending({b \in picked : amount(picked, part)[b] > 0})
            last == Len(rows.batches)
            orphans(picked, part) == last + 1 .. last + Len(behind(picked, part))
            bank(picked, part) ==
                [c \in DOMAIN rows.bank \union orphans(picked, part) |->
                    IF c \in DOMAIN rows.bank THEN rows.bank[c]
                    ELSE [direction |-> "CREDIT",
                          amount |-> amount(picked, part)[behind(picked, part)[c - last]],
                          valueDate |-> rows.batches[behind(picked, part)[c - last]].settled,
                          token |-> NoToken]]
            left(picked, part, withheld) ==
                [c \in DOMAIN bank(picked, part) \ (withheld \ orphans(picked, part)) |->
                    bank(picked, part)[c]]
            noted(picked, part, withheld) ==
                {Note("unexplainable", "bank_row", c, "UNEXPLAINED", FALSE,
                      bank(picked, part)[c].amount) : c \in orphans(picked, part)}
                \union {Note("unexplainable", "batch_link", c, "MISSING_VS_LATE_CREDIT",
                             FALSE, bank(picked, part)[c].amount)
                          : c \in withheld \ orphans(picked, part)}
            Done(picked, part, withheld) ==
                /\ Cardinality(picked) + Cardinality(withheld) =< call.maxNoise - Spent
                /\ Injected("unexplainable",
                     [rows EXCEPT !.bank = left(picked, part, withheld)],
                     noted(picked, part, withheld))
<1>1. rows \in RowTables
  BY DEF GeneratorInv
<1>2. \E picked \in Picks(DOMAIN rows.batches, MinUnexplainable) :
      \E part \in [picked -> OrphanParts] :
      \E withheld \in Picks(DOMAIN bank(picked, part), MinUnexplainable) :
         Done(picked, part, withheld)
  BY DEF Unexplainable
<1>3. PICK picked \in Picks(DOMAIN rows.batches, MinUnexplainable) :
      \E part \in [picked -> OrphanParts] :
      \E withheld \in Picks(DOMAIN bank(picked, part), MinUnexplainable) :
         Done(picked, part, withheld)
  BY <1>2
<1>4. PICK part \in [picked -> OrphanParts] :
      \E withheld \in Picks(DOMAIN bank(picked, part), MinUnexplainable) :
         Done(picked, part, withheld)
  BY <1>3
<1>5. PICK withheld \in Picks(DOMAIN bank(picked, part), MinUnexplainable) :
         Done(picked, part, withheld)
  BY <1>4
<1>. DEFINE lent == behind(picked, part)
            added == orphans(picked, part)
            full == bank(picked, part)
            rest == left(picked, part, withheld)
            new == noted(picked, part, withheld)
            gone == withheld \ added
<1>6. withheld \in SUBSET DOMAIN full
  BY PickedAreRows
<1>7. added = Len(rows.batches) + 1 .. Len(rows.batches) + Len(lent)
  OBVIOUS
<1>8. Len(lent) \in Nat
  <2>. DEFINE paid == {b \in picked : amount(picked, part)[b] > 0}
  <2>1. picked \in SUBSET DOMAIN rows.batches
    BY PickedAreRows
  <2>2. DOMAIN rows.batches = 1 .. Len(rows.batches) /\ Len(rows.batches) \in Nat
    BY <1>1, TablesHoldRows
  <2>3. lent = Ascending(paid) /\ paid \in SUBSET picked
    OBVIOUS
  <2>. HIDE DEF paid, lent
  <2>. HIDE DEF last, amount, behind, orphans, added, full, rest, new, gone
  <2>4. IsFiniteSet(1 .. last) /\ paid \in SUBSET (1 .. last) /\ paid \in SUBSET Int
    <3>1. last \in Nat /\ paid \in SUBSET (1 .. last)
      BY <2>1, <2>2, <2>3 DEF last
    <3>. QED  BY <3>1, FS_Interval
  <2>5. lent \in Seq(paid)
    BY <2>3, <2>4, FS_Subset, AscendingLists DEF Lists
  <2>. QED  BY <2>5, LenProperties
<1>9. /\ DOMAIN full = DOMAIN rows.bank \union added
      /\ \A c \in DOMAIN rows.bank : full[c] = rows.bank[c]
      /\ \A c \in added \ DOMAIN rows.bank : full[c].token = NoToken
  <2>. HIDE DEF amount, behind, lent, orphans, added
  <2>1. full = [c \in DOMAIN rows.bank \union added |->
                    IF c \in DOMAIN rows.bank THEN rows.bank[c]
                    ELSE [direction |-> "CREDIT",
                          amount |-> amount(picked, part)[behind(picked, part)[c - last]],
                          valueDate |-> rows.batches[behind(picked, part)[c - last]].settled,
                          token |-> NoToken]]
    BY DEF added
  <2>. HIDE DEF full
  <2>. QED  BY <2>1
<1>10. rest = [c \in DOMAIN full \ gone |-> full[c]]
  OBVIOUS
<1>11. new = {Note("unexplainable", "bank_row", c, "UNEXPLAINED", FALSE, full[c].amount)
                 : c \in added}
             \union {Note("unexplainable", "batch_link", c, "MISSING_VS_LATE_CREDIT",
                          FALSE, full[c].amount) : c \in gone}
  OBVIOUS
<1>12. rows' = [rows EXCEPT !.bank = rest] /\ notes' = notes \union new
  BY <1>5 DEF Injected
<1>. HIDE DEF lent, added, full, rest, new
<1>13. gone \in SUBSET DOMAIN rows.bank /\ gone \intersect added = {}
  BY <1>6, <1>9
<1>. HIDE DEF gone
<1>14. SameBooks(rows, rows') /\ rows'.bank = rest
  BY <1>1, <1>12, OnlyCreditsChange
<1>15. /\ DOMAIN rest = (DOMAIN rows.bank \union added) \ gone
       /\ \A c \in DOMAIN rows.bank \ gone : rest[c] = rows.bank[c]
       /\ \A c \in added \ DOMAIN rows.bank : rest[c].token = NoToken
       /\ \A c \in added : rest[c] = full[c]
  BY <1>9, <1>10, <1>13
<1>16. Withheld(rows, rows', added, gone)
  <2>1. \E k \in Nat : added = Len(rows.batches) + 1 .. Len(rows.batches) + k
    BY <1>7, <1>8
  <2>. QED  BY <1>13, <1>14, <1>15, <2>1 DEF Withheld
<1>17. new = WithheldNotes(rows, rows', added, gone)
  <2>1. \A c \in added : full[c].amount = rows'.bank[c].amount
    BY <1>14, <1>15
  <2>2. \A c \in gone : full[c].amount = rows.bank[c].amount
    BY <1>9, <1>13
  <2>3. {Note("unexplainable", "bank_row", c, "UNEXPLAINED", FALSE, full[c].amount) : c \in added}
          = {Note("unexplainable", "bank_row", c, "UNEXPLAINED", FALSE, rows'.bank[c].amount)
                 : c \in added}
    BY <2>1
  <2>4. {Note("unexplainable", "batch_link", c, "MISSING_VS_LATE_CREDIT", FALSE, full[c].amount)
                 : c \in gone}
          = {Note("unexplainable", "batch_link", c, "MISSING_VS_LATE_CREDIT", FALSE,
                  rows.bank[c].amount) : c \in gone}
    BY <2>2
  <2>. QED  BY <1>11, <2>3, <2>4 DEF WithheldNotes
<1>. QED  BY <1>12, <1>16, <1>17

(* rounding_residual: some batches' credits are off by less than a rupee.  *)
Rounded(r, s, off, delta) ==
    /\ SameBooks(r, s)
    /\ off \in SUBSET (DOMAIN r.bank \intersect DOMAIN r.batches)
    /\ \A c \in off : delta[c] \in -99 .. 99
    /\ s.bank = [c \in DOMAIN r.bank |-> IF c \in off
            THEN [r.bank[c] EXCEPT !.amount = @ + delta[c]] ELSE r.bank[c]]

RoundingNotes(off, delta) ==
    {Note("rounding_residual", "batch_link", c, "ROUNDING_DIFFERENCE", TRUE, delta[c]) : c \in off}

LEMMA RoundingResidualDone ==
  ASSUME GeneratorInv, RoundingResidual
  PROVE  \E off, delta :
            Rounded(rows, rows', off, delta) /\ notes' = notes \union RoundingNotes(off, delta)
<1>. DEFINE within(picked, delta) == {c \in picked : rows.bank[c].amount + delta[c] > 0}
            shifted(off, delta) == [c \in DOMAIN rows.bank |-> IF c \in off
                THEN [rows.bank[c] EXCEPT !.amount = @ + delta[c]]
                ELSE rows.bank[c]]
            noted(off, delta) ==
                {Note("rounding_residual", "batch_link", c, "ROUNDING_DIFFERENCE", TRUE,
                      delta[c]) : c \in off}
            banked == DOMAIN rows.bank \intersect DOMAIN rows.batches
<1>1. rows \in RowTables
  BY DEF GeneratorInv
<1>2. \E picked \in Picks(banked, MinRounding) : \E delta \in [picked -> Residuals] :
        Injected("rounding_residual",
                 [rows EXCEPT !.bank = shifted(within(picked, delta), delta)],
                 noted(within(picked, delta), delta))
  BY DEF RoundingResidual
<1>3. PICK picked \in Picks(banked, MinRounding) : \E delta \in [picked -> Residuals] :
        Injected("rounding_residual",
                 [rows EXCEPT !.bank = shifted(within(picked, delta), delta)],
                 noted(within(picked, delta), delta))
  BY <1>2
<1>4. PICK delta \in [picked -> Residuals] :
        Injected("rounding_residual",
                 [rows EXCEPT !.bank = shifted(within(picked, delta), delta)],
                 noted(within(picked, delta), delta))
  BY <1>3
<1>. DEFINE off == within(picked, delta)
<1>5. off \in SUBSET banked
  BY PickedAreRows
<1>6. \A c \in off : delta[c] \in -99 .. 99
  <2>1. Residuals \subseteq -99 .. 99
    BY SamplesAssumption
  <2>2. \A c \in picked : delta[c] \in -99 .. 99
    BY <2>1
  <2>. QED  BY <2>2
<1>. HIDE DEF off
<1>7. rows' = [rows EXCEPT !.bank = shifted(off, delta)] /\ notes' = notes \union noted(off, delta)
  BY <1>4 DEF Injected, off
<1>8. SameBooks(rows, rows') /\ rows'.bank = shifted(off, delta)
  BY <1>1, <1>7, OnlyCreditsChange
<1>9. Rounded(rows, rows', off, delta)
  BY <1>5, <1>6, <1>8 DEF Rounded
<1>. QED  BY <1>7, <1>9 DEF RoundingNotes

-----------------------------------------------------------------------------
(* Who is who: a payment is that of its order, each order has a ledger row *)
(* of the day of its payment, of a customer of the profile the payment was *)
(* planned for; and a batch's credit names no other batch.                 *)
OwnToken(token, utr) == token = NoToken \/ token.of = utr

Marked(r) ==
    /\ \A p \in DOMAIN r.payments : r.payments[p].order = p
    /\ \A i \in DOMAIN r.ledger :
          LET p == r.ledger[i].order
          IN  /\ p \in DOMAIN r.payments /\ r.ledger[i].date = r.payments[p].capturedAt
              /\ CustomerProfile[r.ledger[i].customer] = r.chains[p].profile
    /\ \A p \in DOMAIN r.payments : \E i \in DOMAIN r.ledger : r.ledger[i].order = p
    /\ \A c \in DOMAIN r.bank :
          c \in DOMAIN r.batches => OwnToken(r.bank[c].token, r.batches[c].utr)

LEMMA MarkedStays ==
  ASSUME NEW r, NEW s, Marked(r), s.ledger = r.ledger, DOMAIN s.payments = DOMAIN r.payments,
         \A p \in DOMAIN r.payments :
            /\ s.payments[p].order = r.payments[p].order
            /\ s.payments[p].capturedAt = r.payments[p].capturedAt
            /\ s.chains[p].profile = r.chains[p].profile,
         \A c \in DOMAIN s.bank :
            c \in DOMAIN s.batches => OwnToken(s.bank[c].token, s.batches[c].utr)
  PROVE  Marked(s)
BY DEF Marked

LEMMA RetotalledTokens ==
  ASSUME NEW r \in RowTables, NEW s, Retotalled(r, s), Marked(r)
  PROVE  /\ DOMAIN s.batches = DOMAIN r.batches /\ DOMAIN s.bank = DOMAIN r.bank
         /\ \A b \in DOMAIN r.batches : s.batches[b].utr = r.batches[b].utr
                                          /\ s.batches[b].settled = r.batches[b].settled
         /\ \A c \in DOMAIN r.bank : s.bank[c].token = r.bank[c].token
                                       /\ s.bank[c].valueDate = r.bank[c].valueDate
         /\ \A c \in DOMAIN s.bank :
               c \in DOMAIN s.batches => OwnToken(s.bank[c].token, s.batches[c].utr)
<1>1. /\ \A b \in DOMAIN r.batches : r.batches[b] \in BatchRow
      /\ \A c \in DOMAIN r.bank : r.bank[c] \in BankRow
  BY TablesHoldRows
<1>2. DOMAIN s.batches = DOMAIN r.batches /\ DOMAIN s.bank = DOMAIN r.bank
  BY DEF Retotalled
<1>3. ASSUME NEW b \in DOMAIN r.batches
      PROVE  s.batches[b].utr = r.batches[b].utr /\ s.batches[b].settled = r.batches[b].settled
  <2>1. s.batches[b] = [r.batches[b] EXCEPT !.net = SumOf(s.lines, OfBatch(s.lines, b), "net")]
    BY DEF Retotalled
  <2>. QED  BY <1>1, <2>1 DEF BatchRow
<1>4. ASSUME NEW c \in DOMAIN r.bank
      PROVE  s.bank[c].token = r.bank[c].token /\ s.bank[c].valueDate = r.bank[c].valueDate
  <2>1. \/ s.bank[c] = r.bank[c]
        \/ s.bank[c] = [r.bank[c] EXCEPT !.amount = SumOf(s.lines, OfBatch(s.lines, c), "net")]
    BY DEF Retotalled
  <2>. QED  BY <1>1, <2>1 DEF BankRow
<1>5. ASSUME NEW c \in DOMAIN s.bank, c \in DOMAIN s.batches
      PROVE  OwnToken(s.bank[c].token, s.batches[c].utr)
  <2>1. OwnToken(r.bank[c].token, r.batches[c].utr)
    BY <1>2, <1>5 DEF Marked
  <2>. QED  BY <1>2, <1>3, <1>4, <1>5, <2>1
<1>. QED  BY <1>2, <1>3, <1>4, <1>5

LEMMA AssembledIsMarked ==
  ASSUME NEW chains \in Seq(PlannedChain),
         \A i \in DOMAIN chains : CustomerProfile[chains[i].customer] = chains[i].profile
  PROVE  Marked(Assemble(chains))
<1>. DEFINE n == Len(chains)
            keys == BatchKeys(chains)
            a == Assemble(chains)
<1>1. n \in Nat /\ DOMAIN chains = 1 .. n
  BY LenProperties
<1>2. /\ DOMAIN a.payments = 1 .. n /\ DOMAIN a.ledger = 1 .. n
      /\ \A i \in 1 .. n :
            /\ a.payments[i].order = i /\ a.payments[i].capturedAt = chains[i].date
            /\ a.ledger[i].order = i /\ a.ledger[i].date = chains[i].date
            /\ a.ledger[i].customer = chains[i].customer
            /\ a.chains[i].profile = chains[i].profile
  BY <1>1 DEF Assemble
<1>3. /\ DOMAIN a.bank = DOMAIN keys
      /\ \A b \in DOMAIN keys : /\ a.bank[b].token.of = UtrOf[b] /\ a.batches[b].utr = UtrOf[b]
  BY DEF Assemble
<1>. HIDE DEF a, n
<1>4. \A c \in DOMAIN a.bank :
          c \in DOMAIN a.batches => OwnToken(a.bank[c].token, a.batches[c].utr)
  BY <1>3 DEF OwnToken
<1>5. \A i \in 1 .. n : CustomerProfile[a.ledger[i].customer] = a.chains[i].profile
  BY <1>1, <1>2
<1>6. Marked(a)
  BY <1>2, <1>4, <1>5 DEF Marked
<1>. QED  BY <1>6 DEF a

LEMMA CapturedIsMarked ==
  ASSUME NEW r \in RowTables, Wired(r), Marked(r), NEW s, NEW partial, NEW priced,
         Captured(r, s, partial, priced)
  PROVE  Marked(s)
<1>1. \A c \in DOMAIN s.bank :
        c \in DOMAIN s.batches => OwnToken(s.bank[c].token, s.batches[c].utr)
  BY RetotalledTokens DEF Captured
<1>2. /\ DOMAIN r.chains = DOMAIN r.payments
      /\ \A p \in DOMAIN r.payments : r.payments[p] \in PaymentRow
      /\ \A p \in DOMAIN r.chains : r.chains[p] \in ChainRow
  BY TablesHoldRows DEF Wired
<1>3. DOMAIN s.payments = DOMAIN r.payments /\ s.ledger = r.ledger
  BY DEF Captured
<1>4. ASSUME NEW p \in DOMAIN r.payments
      PROVE  /\ s.payments[p].order = r.payments[p].order
             /\ s.payments[p].capturedAt = r.payments[p].capturedAt
             /\ s.chains[p].profile = r.chains[p].profile
  <2>1. /\ s.payments[p] = r.payments[p]
             \/ s.payments[p] = [r.payments[p] EXCEPT !.captured = priced[p].gross]
        /\ s.chains[p] = r.chains[p]
             \/ s.chains[p] = ChainOf(r.chains[p], priced[p].gross, priced[p].fee, priced[p].tax,
                                      priced[p].net)
    BY <1>2 DEF Captured
  <2>2. r.payments[p] \in PaymentRow /\ r.chains[p] \in ChainRow
    BY <1>2
  <2>. QED  BY <2>1, <2>2 DEF PaymentRow, ChainRow, ChainOf
<1>. QED  BY <1>1, <1>3, <1>4, MarkedStays

LEMMA DoubledIsMarked ==
  ASSUME NEW r \in RowTables, Wired(r), Plain(r), Marked(r), NEW s,
         NEW n, NEW c, NEW copies, NEW d, NEW repeats, Doubled(r, s, n, c, copies, d, repeats)
  PROVE  Marked(s)
<1>1. \A b \in DOMAIN s.bank :
        b \in DOMAIN s.batches => OwnToken(s.bank[b].token, s.batches[b].utr)
  BY RetotalledTokens DEF Doubled
<1>2. /\ Len(r.payments) = n /\ Len(r.chains) = n /\ DOMAIN r.ledger = 1 .. n
      /\ n \in Nat /\ c \in Nat /\ d \in Nat
      /\ DOMAIN r.payments = 1 .. n /\ DOMAIN r.chains = 1 .. n
      /\ \A i \in 1 .. n : r.ledger[i] \in LedgerEntry /\ r.ledger[i].order = i
      /\ \A p \in 1 .. n : r.payments[p] \in PaymentRow /\ r.chains[p] \in ChainRow
  <2>1. n \in Nat /\ c \in Nat /\ d \in Nat /\ DOMAIN r.payments = 1 .. n
    BY DEF Doubled
  <2>2. /\ DOMAIN r.payments = 1 .. Len(r.payments) /\ Len(r.payments) \in Nat
        /\ DOMAIN r.chains = 1 .. Len(r.chains) /\ DOMAIN r.ledger = 1 .. Len(r.ledger)
        /\ \A p \in DOMAIN r.payments : r.payments[p] \in PaymentRow
        /\ \A p \in DOMAIN r.chains : r.chains[p] \in ChainRow
        /\ \A i \in DOMAIN r.ledger : r.ledger[i] \in LedgerEntry
    BY TablesHoldRows
  <2>3. Len(r.chains) = Len(r.payments) /\ Len(r.ledger) = Len(r.chains)
    BY DEF Wired, Plain
  <2>4. Len(r.payments) = n
    BY <2>1, <2>2
  <2>5. \A i \in DOMAIN r.ledger : r.ledger[i].order = i
    BY DEF Plain
  <2>. QED  BY <2>1, <2>2, <2>3, <2>4, <2>5
<1>3. \A i \in 1 .. n :
        /\ r.payments[i].order = i /\ r.ledger[i].date = r.payments[i].capturedAt
        /\ CustomerProfile[r.ledger[i].customer] = r.chains[i].profile
  BY <1>2 DEF Marked
<1>4. (\A i \in 1 .. c : copies[i] \in 1 .. n) /\ (\A i \in 1 .. d : repeats[i] \in 1 .. n)
  BY DEF Doubled
<1>5. /\ DOMAIN s.payments = 1 .. n + d
      /\ \A i \in 1 .. n : s.payments[i] = r.payments[i] /\ s.chains[i] = r.chains[i]
      /\ \A i \in 1 .. d :
            /\ s.payments[n + i] = [r.payments[repeats[i]] EXCEPT !.order = n + i,
                                         !.authorized = r.payments[repeats[i]].captured]
            /\ s.chains[n + i] = [r.chains[repeats[i]] EXCEPT !.refund = 0]
      /\ \A i \in 1 .. n + d : i \in 1 .. n \/ \E j \in 1 .. d : i = n + j
  <2>. DEFINE paid == [i \in 1 .. d |-> [r.payments[repeats[i]] EXCEPT !.order = n + i,
                                         !.authorized = r.payments[repeats[i]].captured]]
              due == [i \in 1 .. d |-> [r.chains[repeats[i]] EXCEPT !.refund = 0]]
  <2>1. Extended(s.payments, r.payments, d, paid) /\ Extended(s.chains, r.chains, d, due)
    BY DEF Doubled
  <2>2. \A i \in 1 .. d :
          /\ paid[i] = [r.payments[repeats[i]] EXCEPT !.order = n + i,
                                         !.authorized = r.payments[repeats[i]].captured]
          /\ due[i] = [r.chains[repeats[i]] EXCEPT !.refund = 0]
    OBVIOUS
  <2>. HIDE DEF paid, due
  <2>3. /\ DOMAIN s.payments = 1 .. n + d
        /\ \A i \in 1 .. n : s.payments[i] = r.payments[i]
        /\ \A i \in 1 .. d : s.payments[n + i] = paid[i]
        /\ \A i \in 1 .. n + d : i \in 1 .. n \/ \E j \in 1 .. d : i = n + j
    BY <1>2, <2>1 DEF Extended
  <2>4. /\ \A i \in 1 .. n : s.chains[i] = r.chains[i]
        /\ \A i \in 1 .. d : s.chains[n + i] = due[i]
    BY <1>2, <2>1 DEF Extended
  <2>. QED  BY <2>2, <2>3, <2>4
<1>6. /\ DOMAIN s.ledger = 1 .. n + c + d
      /\ \A i \in 1 .. n : s.ledger[i] = r.ledger[i]
      /\ \A i \in 1 .. c : s.ledger[n + i] = r.ledger[copies[i]]
      /\ \A i \in 1 .. d : s.ledger[n + c + i] =
            [r.ledger[repeats[i]] EXCEPT !.order = n + i, !.invoice = n + i]
      /\ \A i \in 1 .. n + c + d :
            i \in 1 .. n \/ (\E j \in 1 .. c : i = n + j) \/ (\E j \in 1 .. d : i = n + c + j)
  BY DEF Doubled
<1>7. ASSUME NEW i \in 1 .. d
      PROVE  /\ s.payments[n + i].order = n + i
             /\ s.payments[n + i].capturedAt = r.payments[repeats[i]].capturedAt
             /\ s.chains[n + i].profile = r.chains[repeats[i]].profile
             /\ s.ledger[n + c + i].order = n + i
             /\ s.ledger[n + c + i].date = r.ledger[repeats[i]].date
             /\ s.ledger[n + c + i].customer = r.ledger[repeats[i]].customer
  <2>1. repeats[i] \in 1 .. n
    BY <1>4
  <2>2. /\ r.payments[repeats[i]] \in PaymentRow /\ r.chains[repeats[i]] \in ChainRow
        /\ r.ledger[repeats[i]] \in LedgerEntry
    BY <1>2, <2>1
  <2>3. /\ s.payments[n + i].order = n + i
        /\ s.payments[n + i].capturedAt = r.payments[repeats[i]].capturedAt
    BY <1>5, <2>2 DEF PaymentRow
  <2>4. s.chains[n + i].profile = r.chains[repeats[i]].profile
    BY <1>5, <2>2 DEF ChainRow
  <2>5. /\ s.ledger[n + c + i].order = n + i
        /\ s.ledger[n + c + i].date = r.ledger[repeats[i]].date
        /\ s.ledger[n + c + i].customer = r.ledger[repeats[i]].customer
    BY <1>6, <2>2 DEF LedgerEntry
  <2>. QED  BY <2>3, <2>4, <2>5
<1>8. /\ \A i \in 1 .. n : i \in 1 .. n + d /\ i \in 1 .. n + c + d
      /\ \A i \in 1 .. d : n + i \in 1 .. n + d /\ n + c + i \in 1 .. n + c + d
  BY <1>2
<1>9. ASSUME NEW p \in 1 .. n + d
      PROVE  /\ s.payments[p].order = p
             /\ \E i \in DOMAIN s.ledger : s.ledger[i].order = p
  <2>1. CASE p \in 1 .. n
    <3>1. s.payments[p].order = p
      BY <1>3, <1>5, <2>1
    <3>2. p \in DOMAIN s.ledger /\ s.ledger[p].order = p
      BY <1>2, <1>6, <1>8, <2>1
    <3>. QED  BY <3>1, <3>2
  <2>2. ASSUME NEW i \in 1 .. d, p = n + i
        PROVE  /\ s.payments[p].order = p
               /\ \E k \in DOMAIN s.ledger : s.ledger[k].order = p
    BY <1>6, <1>7, <1>8, <2>2
  <2>. QED  BY <1>5, <2>1, <2>2
<1>. DEFINE Known(e) == LET p == e.order
                        IN  /\ p \in 1 .. n + d /\ e.date = s.payments[p].capturedAt
                            /\ CustomerProfile[e.customer] = s.chains[p].profile
<1>10. ASSUME NEW i \in 1 .. n
       PROVE  Known(r.ledger[i])
  BY <1>2, <1>3, <1>5, <1>8
<1>11. ASSUME NEW i \in 1 .. d
       PROVE  Known(s.ledger[n + c + i])
  <2>1. repeats[i] \in 1 .. n
    BY <1>4
  <2>2. /\ r.ledger[repeats[i]].date = r.payments[repeats[i]].capturedAt
        /\ CustomerProfile[r.ledger[repeats[i]].customer] = r.chains[repeats[i]].profile
    BY <1>3, <2>1
  <2>. QED  BY <1>7, <1>8, <2>2
<1>12. ASSUME NEW i \in DOMAIN s.ledger
       PROVE  Known(s.ledger[i])
  <2>. HIDE DEF Known
  <2>1. CASE i \in 1 .. n
    BY <1>6, <1>10, <2>1
  <2>2. ASSUME NEW j \in 1 .. c, i = n + j
        PROVE  Known(s.ledger[i])
    BY <1>4, <1>6, <1>10, <2>2
  <2>3. ASSUME NEW j \in 1 .. d, i = n + c + j
        PROVE  Known(s.ledger[i])
    BY <1>11, <2>3
  <2>. QED  BY <1>6, <2>1, <2>2, <2>3
<1>. QED  BY <1>1, <1>5, <1>9, <1>12 DEF Marked

LEMMA MarkedStepKeeps ==
  ASSUME GeneratorInv, Marked(rows), GeneratorNext
  PROVE  Marked(rows')
<1>1. rows \in RowTables /\ Wired(rows)
  BY DEF GeneratorInv
<1>2. CASE BuildClean
  <2>. DEFINE chains == [i \in 1 .. Len(Plan) |-> CleanChain(i)]
  <2>1. call \in Calls
    BY <1>2 DEF GeneratorInv, BuildClean
  <2>2. chains \in Seq(PlannedChain)
    BY <2>1, PlannedIsRefundable
  <2>3. ASSUME NEW i \in DOMAIN chains
        PROVE  CustomerProfile[chains[i].customer] = chains[i].profile
    BY <2>1, ChainsArePlanned
  <2>4. rows' = Assemble(chains)
    BY <1>2 DEF BuildClean
  <2>. HIDE DEF chains
  <2>. QED  BY <2>2, <2>3, <2>4, AssembledIsMarked
<1>3. CASE UNCHANGED rows
  BY <1>3
<1>4. CASE PartialCaptures
  BY <1>1, <1>4, PartialCapturesDone, CapturedIsMarked
<1>5. CASE DuplicateLedgerRows
  <2>1. Plain(rows)
    BY <1>5 DEF GeneratorInv, DuplicateLedgerRows, Orderly
  <2>. QED  BY <1>1, <1>5, <2>1, DuplicateLedgerRowsDone, DoubledIsMarked
<1>6. CASE DelayedSettlement
  <2>1. PICK late, to : Delayed(rows, rows', late, to)
    BY <1>6, DelayedSettlementDone
  <2>2. \A c \in DOMAIN rows'.bank :
          c \in DOMAIN rows'.batches => OwnToken(rows'.bank[c].token, rows'.batches[c].utr)
    BY <1>1, <2>1, RetotalledTokens DEF Delayed
  <2>3. /\ rows'.ledger = rows.ledger /\ rows'.payments = rows.payments
        /\ rows'.chains = rows.chains
    BY <2>1 DEF Delayed
  <2>. QED  BY <2>2, <2>3, MarkedStays
<1>7. CASE SplitSettlement
  <2>1. PICK split, first, second, to, d, added :
          Split(rows, rows', split, first, second, to, d, added)
    BY <1>7, SplitSettlementDone
  <2>2. \A c \in DOMAIN rows'.bank :
          c \in DOMAIN rows'.batches => OwnToken(rows'.bank[c].token, rows'.batches[c].utr)
    BY <1>1, <2>1, RetotalledTokens DEF Split
  <2>3. rows'.ledger = rows.ledger /\ rows'.payments = rows.payments
    BY <2>1 DEF Split
  <2>4. ASSUME NEW p \in DOMAIN rows.payments
        PROVE  rows'.chains[p].profile = rows.chains[p].profile
    <3>1. p \in DOMAIN rows.chains /\ rows.chains[p] \in ChainRow
      BY <1>1, TablesHoldRows DEF Wired
    <3>2. ASSUME NEW l \in split, rows.lines[l].payment = p
          PROVE  rows'.chains[p].profile = rows.chains[p].profile
      <4>1. rows'.chains[p] = ChainOf(rows.chains[p], rows.chains[p].captured,
                  first[l].fee + second[l].fee, first[l].tax + second[l].tax,
                  first[l].net + second[l].net)
        BY <2>1, <3>2 DEF Split
      <4>. QED  BY <3>1, <4>1 DEF ChainRow, ChainOf
    <3>3. rows'.chains[p] = rows.chains[p] \/ \E l \in split : rows.lines[l].payment = p
      BY <2>1, <3>1 DEF Split
    <3>. QED  BY <3>2, <3>3
  <2>. QED  BY <2>2, <2>3, <2>4, MarkedStays
<1>8. CASE TruncateUtr \/ DropUtr \/ GarbledNarration
  <2>1. PICK token, new : Retokened(rows, rows', token)
    BY <1>8, TokensDone
  <2>2. SameBooks(rows, rows')
    BY <2>1 DEF Retokened
  <2>3. ASSUME NEW c \in DOMAIN rows'.bank, c \in DOMAIN rows'.batches
        PROVE  OwnToken(rows'.bank[c].token, rows'.batches[c].utr)
    <3>1. c \in DOMAIN rows.bank /\ rows'.batches = rows.batches
      BY <2>1, <2>2, <2>3 DEF Retokened, SameBooks
    <3>2. OwnToken(rows.bank[c].token, rows.batches[c].utr) /\ rows.bank[c] \in BankRow
      BY <1>1, <2>3, <3>1, TablesHoldRows DEF Marked
    <3>3. CASE c \in DOMAIN token
      <4>1. rows'.bank[c] = [rows.bank[c] EXCEPT !.token = token[c]]
        BY <2>1, <3>1, <3>3 DEF Retokened
      <4>2. rows'.bank[c].token = token[c]
        BY <3>2, <4>1 DEF BankRow
      <4>3. \/ token[c] = NoToken \/ token[c].of = rows.batches[c].utr
            \/ rows.bank[c].token # NoToken /\ token[c].of = rows.bank[c].token.of
        BY <2>1, <3>3 DEF Retokened, Retokening
      <4>. QED  BY <3>1, <3>2, <4>2, <4>3 DEF OwnToken
    <3>4. CASE c \notin DOMAIN token
      <4>1. rows'.bank[c] = rows.bank[c]
        BY <2>1, <3>1, <3>4 DEF Retokened
      <4>. QED  BY <3>1, <3>2, <4>1
    <3>. QED  BY <3>3, <3>4
  <2>. QED  BY <2>2, <2>3, MarkedStays DEF SameBooks
<1>9. CASE Unexplainable
  <2>1. PICK orphans, withheld : Withheld(rows, rows', orphans, withheld)
    BY <1>9, UnexplainableDone
  <2>2. SameBooks(rows, rows')
    BY <2>1 DEF Withheld
  <2>3. ASSUME NEW c \in DOMAIN rows'.bank, c \in DOMAIN rows'.batches
        PROVE  OwnToken(rows'.bank[c].token, rows'.batches[c].utr)
    <3>1. c \in DOMAIN rows.batches /\ rows'.batches = rows.batches
      BY <2>2, <2>3 DEF SameBooks
    <3>2. CASE c \in DOMAIN rows.bank
      <4>1. rows'.bank[c] = rows.bank[c]
        BY <2>1, <2>3, <3>2 DEF Withheld
      <4>. QED  BY <3>1, <3>2, <4>1 DEF Marked
    <3>3. CASE c \notin DOMAIN rows.bank
      <4>1. rows'.bank[c].token = NoToken
        BY <2>1, <2>3, <3>3 DEF Withheld
      <4>. QED  BY <4>1 DEF OwnToken
    <3>. QED  BY <3>2, <3>3
  <2>. QED  BY <2>2, <2>3, MarkedStays DEF SameBooks
<1>10. CASE RoundingResidual
  <2>1. PICK off, delta : Rounded(rows, rows', off, delta)
    BY <1>10, RoundingResidualDone
  <2>2. SameBooks(rows, rows')
    BY <2>1 DEF Rounded
  <2>3. ASSUME NEW c \in DOMAIN rows'.bank, c \in DOMAIN rows'.batches
        PROVE  OwnToken(rows'.bank[c].token, rows'.batches[c].utr)
    <3>1. c \in DOMAIN rows.bank /\ rows'.batches = rows.batches /\ rows.bank[c] \in BankRow
      BY <1>1, <2>1, <2>2, <2>3, TablesHoldRows DEF Rounded, SameBooks
    <3>2. \/ rows'.bank[c] = rows.bank[c]
          \/ rows'.bank[c] = [rows.bank[c] EXCEPT !.amount = @ + delta[c]]
      BY <2>1, <3>1 DEF Rounded
    <3>3. rows'.bank[c].token = rows.bank[c].token
      BY <3>1, <3>2 DEF BankRow
    <3>. QED  BY <2>3, <3>1, <3>3 DEF Marked
  <2>. QED  BY <2>2, <2>3, MarkedStays DEF SameBooks
<1>11. CASE VerifyClean \/ CheckAndWrite \/ MixedAmountFormats \/ OutOfOrderArrival \/ SkipWithheld
  BY <1>3, <1>11 DEF VerifyClean, CheckAndWrite, MixedAmountFormats, OutOfOrderArrival,
                     SkipWithheld
<1>. QED  BY <1>2, <1>4, <1>5, <1>6, <1>7, <1>8, <1>9, <1>10, <1>11 DEF GeneratorNext, ApplyNoise

-----------------------------------------------------------------------------
(* What the notes say of the rows.  Rows that injectors of cases wrote     *)
(* about, by what they wrote.                                              *)
Among(n, noise, category) ==
    {a.target : a \in {x \in n : x.noise = noise /\ x.category = category}}

Copies(n) == Among(n, "duplicate_ledger_rows", "DUPLICATE_CANDIDATE")
RowsCopied(n) == Among(n, "duplicate_ledger_rows", "DUPLICATE_CONFIRMED")
Deferred(n) ==
    Among(n, "delayed_settlement", "T_PLUS_N_TIMING")
      \union Among(n, "split_settlement", "SPLIT_SETTLEMENT")

(* Every note is of an injector that writes such notes.                    *)
CaseNotes ==
    {<<"partial_captures", "PARTIAL_CAPTURE">>,
     <<"duplicate_ledger_rows", "DUPLICATE_CANDIDATE">>,
     <<"delayed_settlement", "T_PLUS_N_TIMING">>,
     <<"split_settlement", "SPLIT_SETTLEMENT">>}

Known(a) ==
    \/ a.kind = "case" /\ <<a.noise, a.category>> \in CaseNotes
    \/ /\ a.kind = "ledger_row" /\ a.noise = "duplicate_ledger_rows"
       /\ a.category = "DUPLICATE_CONFIRMED"
    \/ /\ a.kind \in {"batch_link", "bank_row"}
       /\ a.noise \in TokenNoise \union {"unexplainable", "rounding_residual"}

(* A payment settles what was captured of it, on a line or two.            *)
SettlesOn(r, p, k, l) ==
    /\ k \in DOMAIN r.lines /\ l \in DOMAIN r.lines /\ PaymentLines(r, p) = {k, l}
    /\ r.lines[k].gross \in Nat /\ r.lines[l].gross \in Nat
    /\ r.payments[p].captured = IF k = l THEN r.lines[k].gross
                                ELSE r.lines[k].gross + r.lines[l].gross

Whole(r) ==
    \A p \in DOMAIN r.payments :
        /\ r.payments[p].captured =< r.payments[p].authorized
        /\ \E k, l \in DOMAIN r.lines : SettlesOn(r, p, k, l)

(* No payment settles before it is due, and those that settle later than   *)
(* that, on a working day, are noted.                                      *)
DueOn(r, p) == NextWorkingDay(r.payments[p].capturedAt)

Timely(r, n) ==
    /\ \A b \in DOMAIN r.batches : IsWorkingDay(r.batches[b].settled)
    /\ \A p \in DOMAIN r.payments :
          /\ \A l \in PaymentLines(r, p) : DueOn(r, p) =< r.lines[l].settled
          /\ p \in Deferred(n)
               <=> \E l \in PaymentLines(r, p) : r.lines[l].settled # DueOn(r, p)

(* A payment made again is not refunded and is like another, neither of    *)
(* them in the ledger twice.                                               *)
Like(r, p, q) ==
    \E i, j \in DOMAIN r.ledger :
        /\ r.ledger[i].order = p /\ r.ledger[j].order = q
        /\ r.ledger[i].customer = r.ledger[j].customer
        /\ r.ledger[i].gross = r.ledger[j].gross

CopiesMatch(r, n) ==
    \A p \in Copies(n) :
        /\ p \in DOMAIN r.payments \ RowsCopied(n)
        /\ \A l \in DOMAIN r.lines : r.lines[l].payment = p => r.lines[l].type = "PAYMENT"
        /\ \E q \in DOMAIN r.payments \ RowsCopied(n) : q # p /\ Like(r, p, q)

Told(r, n) == Whole(r) /\ Timely(r, n) /\ CopiesMatch(r, n) /\ \A a \in n : Known(a)

(* So far only partial captures have been noted.                           *)
FirstNotes(n) == \A a \in n : a.noise = "partial_captures"

NotesInv == Told(rows, notes) /\ (stage \in Orderly => FirstNotes(notes))

LEMMA FirstNotesTellLittle ==
  ASSUME NEW n, FirstNotes(n)
  PROVE  Copies(n) = {} /\ RowsCopied(n) = {} /\ Deferred(n) = {}
BY DEF FirstNotes, Copies, RowsCopied, Deferred, Among

LEMMA AmongGrows ==
  ASSUME NEW n, NEW new, NEW noise, NEW category
  PROVE  Among(n \union new, noise, category)
           = Among(n, noise, category) \union Among(new, noise, category)
BY DEF Among

-----------------------------------------------------------------------------
(* A profile has a batch on each day one of its payments settles.          *)
LEMMA OwnBatchIsFound ==
  ASSUME NEW P \in SUBSET Int, NEW keys \in Seq(P \X Int), NEW c \in DOMAIN keys,
         \A a, b \in DOMAIN keys : a < b => Before(keys[a], keys[b])
  PROVE  BatchOf(keys, keys[c][1], keys[c][2]) = c
<1>. DEFINE k == keys[c][1]
            day == keys[c][2]
            Fit(b) == /\ keys[b][1] = k /\ keys[b][2] >= day
                      /\ \A o \in 1 .. b - 1 : keys[o][1] # k \/ keys[o][2] < day
<1>1. DOMAIN keys = 1 .. Len(keys) /\ Len(keys) \in Nat
  BY LenProperties
<1>2. ASSUME NEW b \in DOMAIN keys
      PROVE  keys[b] \in P \X Int /\ keys[b][1] \in Int /\ keys[b][2] \in Int
  <2>1. keys[b] \in P \X Int
    BY <1>1, ElementOfSeq
  <2>. QED  BY <2>1
<1>3. ASSUME NEW a \in DOMAIN keys, NEW b \in DOMAIN keys, a < b, keys[a][1] = keys[b][1]
      PROVE  keys[a][2] < keys[b][2]
  <2>1. PICK i \in DOMAIN keys[a] :
          keys[a][i] < keys[b][i] /\ \A j \in 1 .. i - 1 : keys[a][j] = keys[b][j]
    BY <1>3 DEF Before
  <2>2. DOMAIN keys[a] = {1, 2}
    <3>1. keys[a] \in P \X Int
      BY <1>2
    <3>. QED  BY <3>1
  <2>3. i # 1
    BY <1>2, <1>3, <2>1
  <2>. QED  BY <2>1, <2>2, <2>3
<1>4. Fit(c)
  <2>1. ASSUME NEW o \in 1 .. c - 1
        PROVE  keys[o][1] # k \/ keys[o][2] < day
    <3>1. o \in DOMAIN keys /\ o < c
      BY <1>1
    <3>. QED  BY <1>3, <3>1
  <2>2. day >= day
    BY <1>2
  <2>. QED  BY <2>1, <2>2
<1>5. ASSUME NEW b \in DOMAIN keys, Fit(b)
      PROVE  b = c
  <2>1. CASE b < c
    <3>1. keys[b][2] < day
      BY <1>3, <1>5, <2>1
    <3>. QED  BY <1>2, <1>5, <3>1
  <2>2. CASE c < b
    <3>1. c \in 1 .. b - 1
      BY <1>1, <2>2
    <3>2. keys[c][1] # k \/ keys[c][2] < day
      BY <1>5, <3>1
    <3>. QED  BY <1>2, <3>2
  <2>. QED  BY <1>1, <2>1, <2>2
<1>6. BatchOf(keys, k, day) = CHOOSE b \in DOMAIN keys : Fit(b)
  BY DEF BatchOf
<1>7. BatchOf(keys, k, day) \in DOMAIN keys /\ Fit(BatchOf(keys, k, day))
  <2>. HIDE DEF Fit
  <2>. QED  BY <1>4, <1>6
<1>. HIDE DEF Fit
<1>. QED  BY <1>5, <1>7

Clean(chains) ==
    \A i \in DOMAIN chains :
        chains[i].settles = NextWorkingDay(chains[i].date) /\ chains[i].priced.gross \in Nat

LEMMA AssembledIsTold ==
  ASSUME NEW chains \in Seq(PlannedChain), Refundable(chains), Prompt(chains), Clean(chains),
         NEW n, FirstNotes(n), \A a \in n : Known(a)
  PROVE  Told(Assemble(chains), n)
<1>. DEFINE m == Len(chains)
            keys == BatchKeys(chains)
            a == Assemble(chains)
<1>1. m \in Nat /\ DOMAIN chains = 1 .. m
  BY LenProperties
<1>2. /\ DOMAIN a.payments = 1 .. m /\ a.lines = AssembledLines(chains)
      /\ \A i \in 1 .. m :
            /\ a.payments[i].captured = chains[i].priced.gross
            /\ a.payments[i].authorized = chains[i].priced.gross
            /\ a.payments[i].capturedAt = chains[i].date
      /\ DOMAIN a.batches = DOMAIN keys
      /\ \A b \in DOMAIN keys : a.batches[b].settled = keys[b][2]
  BY <1>1 DEF Assemble
<1>3. /\ keys \in Seq((DOMAIN ProfileOrder) \X Int)
      /\ \A i \in DOMAIN chains : \E b \in DOMAIN keys : keys[b] = <<chains[i].k, chains[i].settles>>
      /\ \A b \in DOMAIN keys : \E i \in DOMAIN chains : keys[b] = <<chains[i].k, chains[i].settles>>
      /\ \A c, b \in DOMAIN keys : c < b => Before(keys[c], keys[b])
  BY KeysAreListed
<1>. HIDE DEF a, m, keys
<1>4. ASSUME NEW i \in 1 .. m
      PROVE  /\ chains[i].priced.gross \in Nat /\ chains[i].date \in Int
             /\ chains[i].settles = NextWorkingDay(chains[i].date)
             /\ chains[i].settles \in Int /\ IsWorkingDay(chains[i].settles)
  <2>1. chains[i] \in PlannedChain
    BY <1>1, ElementOfSeq
  <2>2. chains[i].date \in Int
    BY <2>1 DEF PlannedChain
  <2>3. /\ chains[i].priced.gross \in Nat
        /\ chains[i].settles = NextWorkingDay(chains[i].date)
    BY <1>1 DEF Clean
  <2>4. ValidCalendar
    BY ConfigAssumption DEF ValidConfig
  <2>5. /\ NextWorkingDay(chains[i].date)
             \in chains[i].date .. chains[i].date + MaxCalendarSteps - 1
        /\ IsWorkingDay(NextWorkingDay(chains[i].date))
    BY <2>2, <2>4, CalendarWalkTerminates
  <2>6. NextWorkingDay(chains[i].date) \in Int
    BY <2>2, <2>5
  <2>. QED  BY <2>2, <2>3, <2>5, <2>6
<1>5. ASSUME NEW i \in 1 .. m
      PROVE  /\ i \in DOMAIN a.lines /\ a.lines[i].type = "PAYMENT" /\ a.lines[i].payment = i
             /\ a.lines[i].gross = chains[i].priced.gross
             /\ a.lines[i].settled = chains[i].settles
  <2>1. PICK b \in DOMAIN keys : keys[b] = <<chains[i].k, chains[i].settles>>
    BY <1>1, <1>3
  <2>2. keys[b][1] = chains[i].k /\ keys[b][2] = chains[i].settles
    BY <2>1
  <2>3. DOMAIN ProfileOrder \in SUBSET Int
    BY ProfilesAssumption
  <2>4. BatchOf(keys, chains[i].k, chains[i].settles) = b
    BY <1>3, <2>2, <2>3, OwnBatchIsFound
  <2>5. i \in DOMAIN a.lines /\ a.lines[i] = PaymentPart(chains, i)
    BY <1>1, <1>2, LinesAreParts
  <2>. QED  BY <2>2, <2>4, <2>5 DEF PaymentPart, keys
<1>6. ASSUME NEW i \in 1 .. m
      PROVE  PaymentLines(a, i) = {i}
  <2>1. \A l \in DOMAIN a.lines : a.lines[l].type = "PAYMENT" => a.lines[l].payment = l
    BY <1>2, LinesAreParts
  <2>. QED  BY <1>5, <2>1 DEF PaymentLines, SettlementLines
<1>7. Whole(a)
  <2>1. ASSUME NEW i \in 1 .. m
        PROVE  a.payments[i].captured =< a.payments[i].authorized /\ SettlesOn(a, i, i, i)
    BY <1>2, <1>4, <1>5, <1>6 DEF SettlesOn
  <2>2. ASSUME NEW p \in DOMAIN a.payments
        PROVE  /\ a.payments[p].captured =< a.payments[p].authorized
               /\ \E k, l \in DOMAIN a.lines : SettlesOn(a, p, k, l)
    <3>1. p \in 1 .. m /\ p \in DOMAIN a.lines
      BY <1>2, <1>5
    <3>. QED  BY <2>1, <3>1, Zenon
  <2>. QED  BY <2>2, Zenon DEF Whole
<1>8. Copies(n) = {} /\ Deferred(n) = {}
  BY FirstNotesTellLittle
<1>9. Timely(a, n)
  <2>1. ASSUME NEW b \in DOMAIN a.batches
        PROVE  IsWorkingDay(a.batches[b].settled)
    <3>1. PICK i \in DOMAIN chains : keys[b] = <<chains[i].k, chains[i].settles>>
      BY <1>2, <1>3, <2>1
    <3>2. a.batches[b].settled = chains[i].settles
      BY <1>2, <2>1, <3>1
    <3>. QED  BY <1>1, <1>4, <3>2
  <2>2. ASSUME NEW i \in 1 .. m, NEW l \in PaymentLines(a, i)
        PROVE  a.lines[l].settled = DueOn(a, i) /\ a.lines[l].settled \in Int
    BY <1>2, <1>4, <1>5, <1>6 DEF DueOn
  <2>3. \A i \in 1 .. m : \A l \in PaymentLines(a, i) : DueOn(a, i) =< a.lines[l].settled
    BY <2>2
  <2>. QED  BY <1>2, <1>8, <2>1, <2>2, <2>3 DEF Timely
<1>10. CopiesMatch(a, n)
  BY <1>8 DEF CopiesMatch
<1>. QED  BY <1>7, <1>9, <1>10 DEF Told, a

(* Notes of other injectors leave these rows as they are.                  *)
Silent(new) ==
    \A a \in new :
        a.noise \notin {"duplicate_ledger_rows", "delayed_settlement", "split_settlement"}

LEMMA SilentNotes ==
  ASSUME NEW n, NEW new, Silent(new)
  PROVE  /\ Copies(n \union new) = Copies(n) /\ RowsCopied(n \union new) = RowsCopied(n)
         /\ Deferred(n \union new) = Deferred(n)
<1>1. \A noise, category :
        noise \in {"duplicate_ledger_rows", "delayed_settlement", "split_settlement"}
          => Among(n \union new, noise, category) = Among(n, noise, category)
  BY DEF Silent, Among
<1>. QED  BY <1>1 DEF Copies, RowsCopied, Deferred

(* Lines that keep their types and payments are the same payments' lines.  *)
SameOwners(r, s) ==
    /\ DOMAIN s.lines = DOMAIN r.lines
    /\ \A l \in DOMAIN r.lines :
          s.lines[l].type = r.lines[l].type /\ s.lines[l].payment = r.lines[l].payment

LEMMA SameOwnersSameLines ==
  ASSUME NEW r, NEW s, SameOwners(r, s), NEW p
  PROVE  PaymentLines(s, p) = PaymentLines(r, p)
BY DEF SameOwners, PaymentLines, SettlementLines

LEMMA SameBooksAreTold ==
  ASSUME NEW r, NEW s, SameBooks(r, s), NEW n, Told(r, n),
         NEW new, Silent(new), \A a \in new : Known(a)
  PROVE  Told(s, n \union new)
<1>1. \A p : PaymentLines(s, p) = PaymentLines(r, p)
  BY DEF SameBooks, PaymentLines, SettlementLines
<1>2. /\ Copies(n \union new) = Copies(n) /\ RowsCopied(n \union new) = RowsCopied(n)
      /\ Deferred(n \union new) = Deferred(n)
  BY SilentNotes
<1>3. Whole(s)
  <2>1. \A p, k, l : SettlesOn(r, p, k, l) => SettlesOn(s, p, k, l)
    BY <1>1 DEF SettlesOn, SameBooks
  <2>. QED  BY <2>1 DEF Whole, SameBooks, Told
<1>4. Timely(s, n \union new)
  <2>1. \A p : DueOn(s, p) = DueOn(r, p)
    BY DEF DueOn, SameBooks
  <2>. QED  BY <1>1, <1>2, <2>1 DEF Timely, SameBooks, Told
<1>5. CopiesMatch(s, n \union new)
  <2>1. \A p, q : Like(s, p, q) <=> Like(r, p, q)
    BY DEF Like, SameBooks
  <2>. QED  BY <1>2, <2>1 DEF CopiesMatch, SameBooks, Told
<1>6. \A a \in n \union new : Known(a)
  BY DEF Told
<1>. QED  BY <1>3, <1>4, <1>5, <1>6 DEF Told

-----------------------------------------------------------------------------
(* partial_captures: the one line of a payment is priced with it.          *)
LEMMA CapturedIsTold ==
  ASSUME NEW r \in RowTables, Wired(r), SingleLines(r), NEW n, Told(r, n), FirstNotes(n),
         NEW s, NEW partial, NEW priced, Captured(r, s, partial, priced),
         NEW new, FirstNotes(new), \A a \in new : Known(a)
  PROVE  Told(s, n \union new) /\ FirstNotes(n \union new)
<1>1. FirstNotes(n \union new)
  BY DEF FirstNotes
<1>2. /\ Copies(n \union new) = {} /\ Deferred(n) = {} /\ Deferred(n \union new) = {}
  BY <1>1, FirstNotesTellLittle
<1>3. /\ \A l \in DOMAIN r.lines : r.lines[l] \in LineRow
      /\ \A p \in DOMAIN r.payments : r.payments[p] \in PaymentRow
  BY TablesHoldRows
<1>4. /\ DOMAIN s.lines = DOMAIN r.lines /\ DOMAIN s.payments = DOMAIN r.payments
      /\ \A p \in DOMAIN r.payments :
            s.payments[p] = IF p \in partial
                            THEN [r.payments[p] EXCEPT !.captured = priced[p].gross]
                            ELSE r.payments[p]
      /\ \A l \in DOMAIN r.lines :
            s.lines[l] = IF r.lines[l].type = "PAYMENT" /\ r.lines[l].payment \in partial
                         THEN Repriced(r.lines[l], priced[r.lines[l].payment]) ELSE r.lines[l]
  BY DEF Captured
<1>5. ASSUME NEW l \in DOMAIN r.lines
      PROVE  /\ s.lines[l].type = r.lines[l].type /\ s.lines[l].payment = r.lines[l].payment
             /\ s.lines[l].settled = r.lines[l].settled
             /\ s.lines[l].gross = IF r.lines[l].type = "PAYMENT" /\ r.lines[l].payment \in partial
                                   THEN priced[r.lines[l].payment].gross ELSE r.lines[l].gross
  BY <1>3, <1>4 DEF LineRow, Repriced
<1>6. ASSUME NEW p \in DOMAIN r.payments
      PROVE  /\ s.payments[p].authorized = r.payments[p].authorized
             /\ s.payments[p].capturedAt = r.payments[p].capturedAt
             /\ s.payments[p].captured = IF p \in partial THEN priced[p].gross
                                         ELSE r.payments[p].captured
             /\ r.payments[p].authorized \in Int
  BY <1>3, <1>4 DEF PaymentRow
<1>7. \A p : PaymentLines(s, p) = PaymentLines(r, p)
  BY <1>4, <1>5, SameOwnersSameLines DEF SameOwners
<1>8. Whole(s)
  <2>1. ASSUME NEW p \in DOMAIN r.payments
        PROVE  /\ s.payments[p].captured =< s.payments[p].authorized
               /\ \E k \in DOMAIN s.lines, l \in DOMAIN s.lines : SettlesOn(s, p, k, l)
    <3>1. PICK k \in DOMAIN r.lines, l \in DOMAIN r.lines : SettlesOn(r, p, k, l)
      BY DEF Told, Whole
    <3>2. k \in PaymentLines(r, p) /\ l \in PaymentLines(r, p) /\ PaymentLines(r, p) = {k, l}
      BY <3>1 DEF SettlesOn
    <3>3. /\ r.lines[k].type = "PAYMENT" /\ r.lines[k].payment = p
          /\ r.lines[l].type = "PAYMENT" /\ r.lines[l].payment = p
      BY <3>2 DEF PaymentLines, SettlementLines
    <3>4. k = l
      BY <3>3 DEF SingleLines
    <3>5. r.lines[k].gross \in Nat /\ r.payments[p].captured = r.lines[k].gross
          /\ r.payments[p].captured =< r.payments[p].authorized
      BY <3>1, <3>4 DEF SettlesOn, Told, Whole
    <3>6. p \in partial => priced[p].gross \in 1 .. r.payments[p].authorized - 1
      BY DEF Captured
    <3>7. s.lines[k].gross = IF p \in partial THEN priced[p].gross ELSE r.lines[k].gross
      BY <1>5, <3>3
    <3>8. /\ s.lines[k].gross \in Nat /\ s.payments[p].captured = s.lines[k].gross
          /\ s.payments[p].captured =< s.payments[p].authorized
      BY <1>6, <3>5, <3>6, <3>7
    <3>9. SettlesOn(s, p, k, k)
      BY <1>4, <1>7, <3>2, <3>4, <3>8 DEF SettlesOn
    <3>. QED  BY <1>4, <3>8, <3>9
  <2>. QED  BY <1>4, <2>1 DEF Whole
<1>9. Timely(s, n \union new)
  <2>1. ASSUME NEW b \in DOMAIN s.batches
        PROVE  IsWorkingDay(s.batches[b].settled)
    <3>1. b \in DOMAIN r.batches
      BY DEF Captured, Retotalled
    <3>2. r.batches[b] \in BatchRow
      BY <3>1, TablesHoldRows
    <3>3. s.batches[b] = [r.batches[b] EXCEPT !.net = SumOf(s.lines, OfBatch(s.lines, b), "net")]
      BY <3>1 DEF Captured, Retotalled
    <3>4. s.batches[b].settled = r.batches[b].settled
      BY <3>2, <3>3 DEF BatchRow
    <3>. QED  BY <3>1, <3>4 DEF Told, Timely
  <2>2. \A p \in DOMAIN r.payments : DueOn(s, p) = DueOn(r, p)
    BY <1>6 DEF DueOn
  <2>3. \A p : \A l \in PaymentLines(r, p) : s.lines[l].settled = r.lines[l].settled
    BY <1>5 DEF PaymentLines, SettlementLines
  <2>4. ASSUME NEW p \in DOMAIN r.payments
        PROVE  \A l \in PaymentLines(s, p) :
                  DueOn(s, p) =< s.lines[l].settled /\ s.lines[l].settled = DueOn(s, p)
    <3>1. \A l \in PaymentLines(r, p) :
            DueOn(r, p) =< r.lines[l].settled /\ r.lines[l].settled = DueOn(r, p)
      BY <1>2 DEF Told, Timely
    <3>. QED  BY <1>7, <2>2, <2>3, <3>1
  <2>. QED  BY <1>2, <1>4, <2>1, <2>4 DEF Timely
<1>10. CopiesMatch(s, n \union new)
  BY <1>2 DEF CopiesMatch
<1>11. \A a \in n \union new : Known(a)
  BY DEF Told
<1>. QED  BY <1>1, <1>8, <1>9, <1>10, <1>11 DEF Told

LEMMA RetotalledDays ==
  ASSUME NEW r \in RowTables, NEW s, Retotalled(r, s)
  PROVE  /\ DOMAIN s.batches = DOMAIN r.batches
         /\ \A b \in DOMAIN r.batches : s.batches[b].settled = r.batches[b].settled
<1>1. DOMAIN s.batches = DOMAIN r.batches
  BY DEF Retotalled
<1>2. ASSUME NEW b \in DOMAIN r.batches
      PROVE  s.batches[b].settled = r.batches[b].settled
  <2>1. r.batches[b] \in BatchRow
    BY TablesHoldRows
  <2>2. s.batches[b] = [r.batches[b] EXCEPT !.net = SumOf(s.lines, OfBatch(s.lines, b), "net")]
    BY DEF Retotalled
  <2>. QED  BY <2>1, <2>2 DEF BatchRow
<1>. QED  BY <1>1, <1>2

(* The day an order is due is a day.                                       *)
LEMMA DueIsADay ==
  ASSUME NEW r \in RowTables, NEW p \in DOMAIN r.payments
  PROVE  DueOn(r, p) \in Int
<1>1. r.payments[p].capturedAt \in Int
  BY TablesHoldRows DEF PaymentRow
<1>2. ValidCalendar
  BY ConfigAssumption DEF ValidConfig
<1>3. NextWorkingDay(r.payments[p].capturedAt)
        \in r.payments[p].capturedAt .. r.payments[p].capturedAt + MaxCalendarSteps - 1
  BY <1>1, <1>2, CalendarWalkTerminates
<1>. QED  BY <1>1, <1>3 DEF DueOn

(* duplicate_ledger_rows: what is bought again settles like the first time. *)
LEMMA DoubledIsTold ==
  ASSUME NEW r \in RowTables, Wired(r), Plain(r), SingleLines(r), NEW m, Told(r, m), FirstNotes(m),
         NEW s, NEW n, NEW c, NEW copies, NEW d, NEW repeats,
         Doubled(r, s, n, c, copies, d, repeats)
  PROVE  Told(s, m \union DoublingNotes(r, n, c, copies, d))
<1>. DEFINE new == DoublingNotes(r, n, c, copies, d)
<1>1. /\ n \in Nat /\ c \in Nat /\ d \in Nat /\ DOMAIN r.payments = 1 .. n
      /\ \A i \in 1 .. c : copies[i] \in 1 .. n
      /\ \A i \in 1 .. d : repeats[i] \in 1 .. n
      /\ \A i \in 1 .. c, j \in 1 .. d : copies[i] # repeats[j]
      /\ \A p \in 1 .. n : r.payments[p] \in PaymentRow
      /\ Len(r.payments) = n
  <2>1. /\ n \in Nat /\ c \in Nat /\ d \in Nat /\ DOMAIN r.payments = 1 .. n
        /\ \A i \in 1 .. c, j \in 1 .. d : copies[i] # repeats[j]
        /\ \A i \in 1 .. c : copies[i] \in 1 .. n
        /\ \A i \in 1 .. d : repeats[i] \in 1 .. n
    BY DEF Doubled
  <2>2. /\ DOMAIN r.payments = 1 .. Len(r.payments) /\ Len(r.payments) \in Nat
        /\ \A p \in DOMAIN r.payments : r.payments[p] \in PaymentRow
    BY TablesHoldRows
  <2>. QED  BY <2>1, <2>2
<1>2. /\ DOMAIN s.payments = 1 .. n + d
      /\ \A i \in 1 .. n : s.payments[i] = r.payments[i]
      /\ \A i \in 1 .. d : s.payments[n + i] =
            [r.payments[repeats[i]] EXCEPT !.order = n + i,
                                           !.authorized = r.payments[repeats[i]].captured]
      /\ \A i \in 1 .. n + d : i \in 1 .. n \/ \E j \in 1 .. d : i = n + j
  <2>. DEFINE paid == [i \in 1 .. d |-> [r.payments[repeats[i]] EXCEPT !.order = n + i,
                                         !.authorized = r.payments[repeats[i]].captured]]
  <2>1. Extended(s.payments, r.payments, d, paid)
    BY DEF Doubled
  <2>2. \A i \in 1 .. d :
          paid[i] = [r.payments[repeats[i]] EXCEPT !.order = n + i,
                                         !.authorized = r.payments[repeats[i]].captured]
    OBVIOUS
  <2>. HIDE DEF paid
  <2>. QED  BY <1>1, <2>1, <2>2 DEF Extended
<1>. DEFINE m0 == Len(r.lines)
<1>3. m0 \in Nat /\ DOMAIN r.lines = 1 .. m0 /\ \A l \in 1 .. m0 : r.lines[l] \in LineRow
  BY TablesHoldRows
<1>4. /\ DOMAIN s.lines = 1 .. m0 + d
      /\ \A l \in 1 .. m0 : s.lines[l] = r.lines[l]
      /\ \A i \in 1 .. d :
            s.lines[m0 + i] = [r.lines[LineFor(r, repeats[i])] EXCEPT !.payment = n + i]
      /\ \A l \in 1 .. m0 + d : l \in 1 .. m0 \/ \E j \in 1 .. d : l = m0 + j
  <2>. DEFINE lined == [i \in 1 .. d |->
                          [r.lines[LineFor(r, repeats[i])] EXCEPT !.payment = n + i]]
  <2>1. Extended(s.lines, r.lines, d, lined)
    BY DEF Doubled
  <2>2. \A i \in 1 .. d : lined[i] = [r.lines[LineFor(r, repeats[i])] EXCEPT !.payment = n + i]
    OBVIOUS
  <2>. HIDE DEF lined
  <2>. QED  BY <1>3, <2>1, <2>2 DEF Extended
<1>. HIDE DEF m0
<1>5. ASSUME NEW p \in 1 .. n
      PROVE  /\ LineFor(r, p) \in 1 .. m0 /\ r.lines[LineFor(r, p)].type = "PAYMENT"
             /\ r.lines[LineFor(r, p)].payment = p
             /\ LineFor(r, p) \in PaymentLines(r, p)
  <2>1. \E l \in 1 .. m0 : r.lines[l].type = "PAYMENT" /\ r.lines[l].payment = p
    BY <1>1, <1>3 DEF Wired
  <2>2. /\ LineFor(r, p) \in 1 .. m0 /\ r.lines[LineFor(r, p)].type = "PAYMENT"
        /\ r.lines[LineFor(r, p)].payment = p
    BY <1>3, <2>1 DEF LineFor
  <2>. QED  BY <1>3, <2>2 DEF PaymentLines, SettlementLines
<1>6. ASSUME NEW i \in 1 .. d
      PROVE  /\ s.lines[m0 + i].type = "PAYMENT" /\ s.lines[m0 + i].payment = n + i
             /\ s.lines[m0 + i].gross = r.lines[LineFor(r, repeats[i])].gross
             /\ s.lines[m0 + i].settled = r.lines[LineFor(r, repeats[i])].settled
             /\ s.payments[n + i].captured = r.payments[repeats[i]].captured
             /\ s.payments[n + i].authorized = r.payments[repeats[i]].captured
             /\ s.payments[n + i].capturedAt = r.payments[repeats[i]].capturedAt
  <2>1. repeats[i] \in 1 .. n
    BY <1>1
  <2>2. /\ r.payments[repeats[i]] \in PaymentRow
        /\ r.lines[LineFor(r, repeats[i])] \in LineRow
        /\ r.lines[LineFor(r, repeats[i])].type = "PAYMENT"
    BY <1>1, <1>3, <1>5, <2>1
  <2>3. /\ s.lines[m0 + i].type = "PAYMENT" /\ s.lines[m0 + i].payment = n + i
        /\ s.lines[m0 + i].gross = r.lines[LineFor(r, repeats[i])].gross
        /\ s.lines[m0 + i].settled = r.lines[LineFor(r, repeats[i])].settled
    BY <1>4, <2>2 DEF LineRow
  <2>4. /\ s.payments[n + i].captured = r.payments[repeats[i]].captured
        /\ s.payments[n + i].authorized = r.payments[repeats[i]].captured
        /\ s.payments[n + i].capturedAt = r.payments[repeats[i]].capturedAt
    BY <1>2, <2>2 DEF PaymentRow
  <2>. QED  BY <2>3, <2>4
<1>7. \A l \in 1 .. m0 : r.lines[l].payment \in 1 .. n
  BY <1>1, <1>3 DEF Wired
<1>8. ASSUME NEW p \in 1 .. n
      PROVE  PaymentLines(s, p) = PaymentLines(r, p)
  <2>1. \A j \in 1 .. d : s.lines[m0 + j].payment # p
    BY <1>1, <1>6
  <2>2. \A l \in 1 .. m0 : l \in 1 .. m0 + d
    BY <1>1, <1>3
  <2>. QED  BY <1>3, <1>4, <2>1, <2>2 DEF PaymentLines, SettlementLines
<1>9. ASSUME NEW i \in 1 .. d
      PROVE  PaymentLines(s, n + i) = {m0 + i}
  <2>1. \A l \in 1 .. m0 : s.lines[l].payment # n + i
    BY <1>1, <1>4, <1>7
  <2>2. \A j \in 1 .. d : s.lines[m0 + j].payment = n + i => j = i
    BY <1>1, <1>6
  <2>3. m0 + i \in 1 .. m0 + d
    BY <1>1, <1>3
  <2>. QED  BY <1>4, <1>6, <2>1, <2>2, <2>3 DEF PaymentLines, SettlementLines
<1>10. m0 \in Nat /\ \A i \in 1 .. d : m0 + i \in 1 .. m0 + d
  BY <1>1, <1>3
<1>11. \A i \in 1 .. m0 : i \in 1 .. m0 + d
  BY <1>1, <1>3
<1>12. ASSUME NEW p \in 1 .. n
       PROVE  /\ PaymentLines(r, p) = {LineFor(r, p)}
              /\ r.lines[LineFor(r, p)].gross \in Nat
              /\ r.payments[p].captured = r.lines[LineFor(r, p)].gross
              /\ r.payments[p].captured =< r.payments[p].authorized
  <2>1. PICK k \in DOMAIN r.lines, l \in DOMAIN r.lines : SettlesOn(r, p, k, l)
    BY <1>1 DEF Told, Whole
  <2>2. PaymentLines(r, p) = {k, l}
    BY <2>1 DEF SettlesOn
  <2>3. /\ r.lines[k].type = "PAYMENT" /\ r.lines[k].payment = p
        /\ r.lines[l].type = "PAYMENT" /\ r.lines[l].payment = p
    BY <2>2 DEF PaymentLines, SettlementLines
  <2>4. k = LineFor(r, p) /\ l = LineFor(r, p)
    BY <1>3, <1>5, <2>3 DEF SingleLines
  <2>. QED  BY <1>1, <2>1, <2>2, <2>4 DEF SettlesOn, Told, Whole
<1>13. Whole(s)
  <2>1. ASSUME NEW p \in 1 .. n
        PROVE  /\ s.payments[p].captured =< s.payments[p].authorized
               /\ LineFor(r, p) \in DOMAIN s.lines
               /\ SettlesOn(s, p, LineFor(r, p), LineFor(r, p))
    <3>1. s.payments[p] = r.payments[p] /\ s.lines[LineFor(r, p)] = r.lines[LineFor(r, p)]
      BY <1>2, <1>4, <1>5
    <3>2. LineFor(r, p) \in DOMAIN s.lines
      BY <1>4, <1>5, <1>11
    <3>. QED  BY <1>8, <1>12, <3>1, <3>2 DEF SettlesOn
  <2>2. ASSUME NEW i \in 1 .. d
        PROVE  /\ s.payments[n + i].captured =< s.payments[n + i].authorized
               /\ m0 + i \in DOMAIN s.lines
               /\ SettlesOn(s, n + i, m0 + i, m0 + i)
    <3>1. repeats[i] \in 1 .. n
      BY <1>1
    <3>2. /\ r.lines[LineFor(r, repeats[i])].gross \in Nat
          /\ r.payments[repeats[i]].captured = r.lines[LineFor(r, repeats[i])].gross
      BY <1>12, <3>1
    <3>3. m0 + i \in DOMAIN s.lines
      BY <1>4, <1>10
    <3>. QED  BY <1>6, <1>9, <3>2, <3>3 DEF SettlesOn
  <2>. DEFINE Fine(p) == /\ s.payments[p].captured =< s.payments[p].authorized
                         /\ \E k \in DOMAIN s.lines, l \in DOMAIN s.lines : SettlesOn(s, p, k, l)
  <2>3. \A p \in 1 .. n : Fine(p)
    BY <2>1
  <2>4. \A i \in 1 .. d : Fine(n + i)
    BY <2>2
  <2>. HIDE DEF Fine
  <2>5. \A p \in 1 .. n + d : Fine(p)
    BY <1>2, <2>3, <2>4
  <2>. QED  BY <1>2, <2>5 DEF Whole, Fine
<1>14. /\ \A a \in m : a.noise = "partial_captures"
       /\ \A a \in new : \/ \E i \in 1 .. c :
                             /\ a.noise = "duplicate_ledger_rows" /\ a.kind = "ledger_row"
                             /\ a.category = "DUPLICATE_CONFIRMED" /\ a.target = copies[i]
                        \/ \E i \in 1 .. d :
                             /\ a.noise = "duplicate_ledger_rows" /\ a.kind = "case"
                             /\ a.category = "DUPLICATE_CANDIDATE" /\ a.target = n + i
  BY DEF FirstNotes, DoublingNotes, Note
<1>15. /\ Deferred(m) = {} /\ Deferred(m \union new) = {}
       /\ \A p \in Copies(m \union new) : \E i \in 1 .. d : p = n + i
       /\ \A p \in RowsCopied(m \union new) : \E i \in 1 .. c : p = copies[i]
  <2>. HIDE DEF new
  <2>1. Deferred(m) = {} /\ Deferred(m \union new) = {}
    BY <1>14 DEF Deferred, Among
  <2>2. \A p \in Copies(m \union new) : \E i \in 1 .. d : p = n + i
    BY <1>14 DEF Copies, Among
  <2>3. \A p \in RowsCopied(m \union new) : \E i \in 1 .. c : p = copies[i]
    BY <1>14 DEF RowsCopied, Among
  <2>. QED  BY <2>1, <2>2, <2>3
<1>16. \A a \in m \union new : Known(a)
  <2>. HIDE DEF new
  <2>. QED  BY <1>14 DEF Told, Known, CaseNotes
<1>. HIDE DEF new
<1>17. ASSUME NEW p \in 1 .. n
       PROVE  r.lines[LineFor(r, p)].settled = DueOn(r, p) /\ DueOn(r, p) \in Int
  <2>1. r.lines[LineFor(r, p)].settled = DueOn(r, p)
    BY <1>1, <1>12, <1>15 DEF Told, Timely
  <2>. QED  BY <1>1, <2>1, DueIsADay
<1>18. Timely(s, m \union new)
  <2>1. ASSUME NEW b \in DOMAIN s.batches
        PROVE  IsWorkingDay(s.batches[b].settled)
    <3>1. Retotalled(r, s)
      BY DEF Doubled
    <3>2. b \in DOMAIN r.batches /\ s.batches[b].settled = r.batches[b].settled
      BY <3>1, RetotalledDays
    <3>. QED  BY <3>2 DEF Told, Timely
  <2>2. ASSUME NEW p \in 1 .. n, NEW l \in PaymentLines(s, p)
        PROVE  s.lines[l].settled = DueOn(s, p) /\ DueOn(s, p) \in Int
    <3>1. l = LineFor(r, p) /\ s.lines[l] = r.lines[l]
      BY <1>4, <1>5, <1>8, <1>12
    <3>2. DueOn(s, p) = DueOn(r, p)
      BY <1>2 DEF DueOn
    <3>. QED  BY <1>17, <3>1, <3>2
  <2>3. ASSUME NEW i \in 1 .. d, NEW l \in PaymentLines(s, n + i)
        PROVE  s.lines[l].settled = DueOn(s, n + i) /\ DueOn(s, n + i) \in Int
    <3>1. l = m0 + i /\ repeats[i] \in 1 .. n
      BY <1>1, <1>9
    <3>2. DueOn(s, n + i) = DueOn(r, repeats[i])
      BY <1>6 DEF DueOn
    <3>. QED  BY <1>6, <1>17, <3>1, <3>2
  <2>4. ASSUME NEW p \in DOMAIN s.payments, NEW l \in PaymentLines(s, p)
        PROVE  s.lines[l].settled = DueOn(s, p) /\ DueOn(s, p) =< s.lines[l].settled
    <3>1. CASE p \in 1 .. n
      <4>1. s.lines[l].settled = DueOn(s, p) /\ DueOn(s, p) \in Int
        BY <2>2, <2>4, <3>1
      <4>. QED  BY <4>1
    <3>2. ASSUME NEW i \in 1 .. d, p = n + i
          PROVE  s.lines[l].settled = DueOn(s, p) /\ DueOn(s, p) =< s.lines[l].settled
      <4>1. l \in PaymentLines(s, n + i)
        BY <2>4, <3>2
      <4>2. s.lines[l].settled = DueOn(s, p) /\ DueOn(s, p) \in Int
        BY <2>3, <3>2, <4>1
      <4>. QED  BY <4>2
    <3>. QED  BY <1>2, <3>1, <3>2
  <2>. QED  BY <1>15, <2>1, <2>4 DEF Timely
<1>19. CopiesMatch(s, m \union new)
  <2>1. ASSUME NEW i \in 1 .. d
        PROVE  /\ n + i \in DOMAIN s.payments \ RowsCopied(m \union new)
               /\ \A l \in DOMAIN s.lines :
                      s.lines[l].payment = n + i => s.lines[l].type = "PAYMENT"
               /\ \E q \in DOMAIN s.payments \ RowsCopied(m \union new) :
                      q # n + i /\ Like(s, n + i, q)
    <3>1. /\ n + i \in 1 .. n + d /\ repeats[i] \in 1 .. n + d /\ repeats[i] # n + i
          /\ repeats[i] \in 1 .. n
      BY <1>1
    <3>2. /\ n + i \notin RowsCopied(m \union new)
          /\ repeats[i] \notin RowsCopied(m \union new)
      <4>1. ASSUME NEW j \in 1 .. c
            PROVE  copies[j] # n + i /\ copies[j] # repeats[i]
        BY <1>1
      <4>. QED  BY <1>15, <4>1
    <3>3. ASSUME NEW l \in DOMAIN s.lines, s.lines[l].payment = n + i
          PROVE  s.lines[l].type = "PAYMENT"
      <4>1. l \notin 1 .. m0
        BY <1>1, <1>4, <1>7, <3>3
      <4>2. PICK j \in 1 .. d : l = m0 + j
        BY <1>4, <4>1
      <4>. QED  BY <1>6, <4>2
    <3>4. Like(s, n + i, repeats[i])
      <4>1. /\ DOMAIN s.ledger = 1 .. n + c + d
            /\ s.ledger[repeats[i]] = r.ledger[repeats[i]]
            /\ s.ledger[n + c + i] =
                  [r.ledger[repeats[i]] EXCEPT !.order = n + i, !.invoice = n + i]
        BY <3>1 DEF Doubled
      <4>2. r.ledger[repeats[i]] \in LedgerEntry /\ r.ledger[repeats[i]].order = repeats[i]
        <5>1. Len(r.ledger) = n
          BY <1>1 DEF Plain, Wired
        <5>2. repeats[i] \in DOMAIN r.ledger
          BY <3>1, <5>1, TablesHoldRows
        <5>. QED  BY <5>2, TablesHoldRows DEF Plain
      <4>3. /\ s.ledger[n + c + i].order = n + i
            /\ s.ledger[n + c + i].customer = r.ledger[repeats[i]].customer
            /\ s.ledger[n + c + i].gross = r.ledger[repeats[i]].gross
        BY <4>1, <4>2 DEF LedgerEntry
      <4>4. n + c + i \in 1 .. n + c + d /\ repeats[i] \in 1 .. n + c + d
        BY <1>1
      <4>. QED  BY <4>1, <4>2, <4>3, <4>4 DEF Like
    <3>. QED  BY <1>2, <3>1, <3>2, <3>3, <3>4
  <2>2. ASSUME NEW p \in Copies(m \union new)
        PROVE  /\ p \in DOMAIN s.payments \ RowsCopied(m \union new)
               /\ \A l \in DOMAIN s.lines :
                      s.lines[l].payment = p => s.lines[l].type = "PAYMENT"
               /\ \E q \in DOMAIN s.payments \ RowsCopied(m \union new) :
                      q # p /\ Like(s, p, q)
    <3>1. PICK i \in 1 .. d : p = n + i
      BY <1>15
    <3>. QED  BY <2>1, <3>1
  <2>. QED  BY <2>2 DEF CopiesMatch
<1>20. Told(s, m \union new)
  BY <1>13, <1>16, <1>18, <1>19 DEF Told
<1>. QED  BY <1>20 DEF new

(* Lines of payments, and refunds, keep their types and payments.          *)
LEMMA CopiesStay ==
  ASSUME NEW r, NEW s, NEW n, NEW new, CopiesMatch(r, n),
         Copies(n \union new) = Copies(n), RowsCopied(n \union new) = RowsCopied(n),
         DOMAIN s.payments = DOMAIN r.payments, s.ledger = r.ledger,
         \A l \in DOMAIN s.lines :
            \/ s.lines[l].type = "PAYMENT"
            \/ /\ l \in DOMAIN r.lines /\ s.lines[l].type = r.lines[l].type
               /\ s.lines[l].payment = r.lines[l].payment
  PROVE  CopiesMatch(s, n \union new)
<1>1. \A p, q : Like(s, p, q) <=> Like(r, p, q)
  BY DEF Like
<1>2. ASSUME NEW p \in Copies(n), NEW l \in DOMAIN s.lines, s.lines[l].payment = p
      PROVE  s.lines[l].type = "PAYMENT"
  BY <1>2 DEF CopiesMatch
<1>. QED  BY <1>1, <1>2 DEF CopiesMatch

(* delayed_settlement: a line that is moved is later than it was.          *)
LEMMA DelayedIsTold ==
  ASSUME NEW r \in RowTables, Wired(r), NEW n, Told(r, n),
         NEW s, NEW late, NEW to, Delayed(r, s, late, to)
  PROVE  Told(s, n \union DelayNotes(r, late))
<1>. DEFINE new == DelayNotes(r, late)
<1>1. /\ \A a \in new : /\ a.noise = "delayed_settlement" /\ a.kind = "case"
                        /\ a.category = "T_PLUS_N_TIMING"
                        /\ \E l \in late : a.target = r.lines[l].payment
      /\ \A l \in late : \E a \in new : /\ a.noise = "delayed_settlement"
                                        /\ a.category = "T_PLUS_N_TIMING"
                                        /\ a.target = r.lines[l].payment
  <2>1. ASSUME NEW l \in late
        PROVE  \E a \in new : /\ a.noise = "delayed_settlement" /\ a.category = "T_PLUS_N_TIMING"
                              /\ a.target = r.lines[l].payment
    <3>. DEFINE a == Note("delayed_settlement", "case", r.lines[l].payment,
                          "T_PLUS_N_TIMING", TRUE, 0)
    <3>1. a \in new
      BY DEF DelayNotes
    <3>2. /\ a.noise = "delayed_settlement" /\ a.category = "T_PLUS_N_TIMING"
          /\ a.target = r.lines[l].payment
      BY DEF Note
    <3>. QED  BY <3>1, <3>2
  <2>2. ASSUME NEW a \in new
        PROVE  /\ a.noise = "delayed_settlement" /\ a.kind = "case" /\ a.category = "T_PLUS_N_TIMING"
               /\ \E l \in late : a.target = r.lines[l].payment
    BY DEF DelayNotes, Note
  <2>. QED  BY <2>1, <2>2
<1>. HIDE DEF new
<1>2. /\ Copies(n \union new) = Copies(n) /\ RowsCopied(n \union new) = RowsCopied(n)
      /\ \A p : p \in Deferred(n \union new)
                  <=> p \in Deferred(n) \/ \E l \in late : r.lines[l].payment = p
  <2>1. Copies(n \union new) = Copies(n) /\ RowsCopied(n \union new) = RowsCopied(n)
    BY <1>1 DEF Copies, RowsCopied, Among
  <2>2. \A p : p \in Deferred(n \union new)
                  <=> p \in Deferred(n) \/ \E l \in late : r.lines[l].payment = p
    BY <1>1 DEF Deferred, Among
  <2>. QED  BY <2>1, <2>2
<1>3. \A a \in n \union new : Known(a)
  <2>1. ASSUME NEW a \in new
        PROVE  Known(a)
    <3>1. <<a.noise, a.category>> = <<"delayed_settlement", "T_PLUS_N_TIMING">>
      BY <1>1
    <3>. QED  BY <1>1, <3>1 DEF Known, CaseNotes
  <2>. QED  BY <2>1 DEF Told
<1>4. /\ s.ledger = r.ledger /\ s.payments = r.payments
      /\ DOMAIN s.lines = DOMAIN r.lines
      /\ \A l \in DOMAIN r.lines : s.lines[l] =
            IF l \in late THEN MovedTo(r, r.lines[l], to[l]) ELSE r.lines[l]
      /\ Retotalled(r, s)
  BY DEF Delayed
<1>5. /\ \A l \in DOMAIN r.lines : r.lines[l] \in LineRow
      /\ \A b \in DOMAIN r.batches : r.batches[b] \in BatchRow
  BY TablesHoldRows
<1>6. ASSUME NEW l \in DOMAIN r.lines
      PROVE  /\ s.lines[l].type = r.lines[l].type /\ s.lines[l].payment = r.lines[l].payment
             /\ s.lines[l].gross = r.lines[l].gross
             /\ s.lines[l].settled \in Int /\ r.lines[l].settled \in Int
             /\ l \in late => r.lines[l].settled < s.lines[l].settled
             /\ l \notin late => s.lines[l].settled = r.lines[l].settled
  <2>1. r.lines[l] \in LineRow
    BY <1>5
  <2>2. CASE l \in late
    <3>1. /\ to[l] \in DOMAIN r.batches
          /\ r.batches[r.lines[l].batch].settled < r.batches[to[l]].settled
      BY <2>2 DEF Delayed, LaterHome
    <3>2. r.lines[l].settled = r.batches[r.lines[l].batch].settled
      BY DEF Wired
    <3>3. r.batches[to[l]].settled \in Int
      BY <1>5, <3>1 DEF BatchRow
    <3>4. s.lines[l] = [r.lines[l] EXCEPT !.batch = to[l], !.settled = r.batches[to[l]].settled]
      BY <1>4, <2>2 DEF MovedTo
    <3>5. /\ s.lines[l].type = r.lines[l].type /\ s.lines[l].payment = r.lines[l].payment
          /\ s.lines[l].gross = r.lines[l].gross /\ s.lines[l].settled = r.batches[to[l]].settled
          /\ r.lines[l].settled \in Int
      BY <2>1, <3>4 DEF LineRow
    <3>. QED  BY <2>2, <3>1, <3>2, <3>3, <3>5
  <2>3. CASE l \notin late
    BY <1>4, <2>1, <2>3 DEF LineRow
  <2>. QED  BY <2>2, <2>3
<1>7. \A p : PaymentLines(s, p) = PaymentLines(r, p)
  BY <1>4, <1>6, SameOwnersSameLines DEF SameOwners
<1>8. Whole(s)
  <2>1. \A p, k, l : SettlesOn(r, p, k, l) => SettlesOn(s, p, k, l)
    BY <1>4, <1>6, <1>7 DEF SettlesOn
  <2>. QED  BY <1>4, <2>1 DEF Whole, Told
<1>9. Timely(s, n \union new)
  <2>1. ASSUME NEW b \in DOMAIN s.batches
        PROVE  IsWorkingDay(s.batches[b].settled)
    <3>1. b \in DOMAIN r.batches /\ s.batches[b].settled = r.batches[b].settled
      BY <1>4, RetotalledDays
    <3>. QED  BY <3>1 DEF Told, Timely
  <2>2. ASSUME NEW p \in DOMAIN r.payments
        PROVE  DueOn(s, p) = DueOn(r, p) /\ DueOn(r, p) \in Int
    BY <1>4, DueIsADay DEF DueOn
  <2>3. ASSUME NEW p \in DOMAIN r.payments, NEW l \in PaymentLines(r, p)
        PROVE  /\ l \in DOMAIN r.lines /\ DueOn(r, p) =< r.lines[l].settled
               /\ r.lines[l].type = "PAYMENT" /\ r.lines[l].payment = p
    BY DEF Told, Timely, PaymentLines, SettlementLines
  <2>4. ASSUME NEW p \in DOMAIN r.payments, NEW l \in PaymentLines(s, p)
        PROVE  DueOn(s, p) =< s.lines[l].settled
    BY <1>6, <1>7, <2>2, <2>3, <2>4
  <2>5. ASSUME NEW p \in DOMAIN r.payments
        PROVE  p \in Deferred(n \union new)
                 <=> \E l \in PaymentLines(s, p) : s.lines[l].settled # DueOn(s, p)
    <3>1. ASSUME NEW k \in late, r.lines[k].payment = p
          PROVE  k \in PaymentLines(s, p) /\ s.lines[k].settled # DueOn(s, p)
      <4>1. k \in DOMAIN r.lines /\ r.lines[k].type = "PAYMENT"
        BY DEF Delayed, PaymentLinesOf
      <4>2. k \in PaymentLines(r, p)
        BY <3>1, <4>1 DEF PaymentLines, SettlementLines
      <4>. QED  BY <1>6, <1>7, <2>2, <2>3, <3>1, <4>1, <4>2
    <3>2. ASSUME ~ \E k \in late : r.lines[k].payment = p
          PROVE  \A l \in PaymentLines(r, p) : s.lines[l].settled = r.lines[l].settled
      BY <1>6, <2>3, <3>2
    <3>3. p \in Deferred(n) <=> \E l \in PaymentLines(r, p) : r.lines[l].settled # DueOn(r, p)
      BY DEF Told, Timely
    <3>. QED  BY <1>2, <1>7, <2>2, <3>1, <3>2, <3>3
  <2>. QED  BY <1>4, <2>1, <2>4, <2>5 DEF Timely
<1>10. CopiesMatch(s, n \union new)
  BY <1>2, <1>4, <1>6, CopiesStay DEF Told
<1>11. Told(s, n \union new)
  BY <1>3, <1>8, <1>9, <1>10 DEF Told
<1>. QED  BY <1>11 DEF new

(* split_settlement: what was one line is two, the second of them later.   *)
LEMMA SplitIsTold ==
  ASSUME NEW r \in RowTables, Wired(r), SingleLines(r), NEW n, Told(r, n),
         NEW s, NEW split, NEW first, NEW second, NEW to, NEW d, NEW added,
         Split(r, s, split, first, second, to, d, added)
  PROVE  Told(s, n \union SplitNotes(r, split))
<1>. DEFINE new == SplitNotes(r, split)
            m == Len(r.lines)
<1>1. /\ \A a \in new : /\ a.noise = "split_settlement" /\ a.kind = "case"
                        /\ a.category = "SPLIT_SETTLEMENT"
                        /\ \E l \in split : a.target = r.lines[l].payment
      /\ \A l \in split : \E a \in new : /\ a.noise = "split_settlement"
                                         /\ a.category = "SPLIT_SETTLEMENT"
                                         /\ a.target = r.lines[l].payment
  <2>1. ASSUME NEW l \in split
        PROVE  \E a \in new : /\ a.noise = "split_settlement" /\ a.category = "SPLIT_SETTLEMENT"
                              /\ a.target = r.lines[l].payment
    <3>. DEFINE a == Note("split_settlement", "case", r.lines[l].payment,
                          "SPLIT_SETTLEMENT", TRUE, 0)
    <3>1. a \in new
      BY DEF SplitNotes
    <3>2. /\ a.noise = "split_settlement" /\ a.category = "SPLIT_SETTLEMENT"
          /\ a.target = r.lines[l].payment
      BY DEF Note
    <3>. QED  BY <3>1, <3>2
  <2>2. ASSUME NEW a \in new
        PROVE  /\ a.noise = "split_settlement" /\ a.kind = "case" /\ a.category = "SPLIT_SETTLEMENT"
               /\ \E l \in split : a.target = r.lines[l].payment
    BY DEF SplitNotes, Note
  <2>. QED  BY <2>1, <2>2
<1>. HIDE DEF new
<1>2. /\ Copies(n \union new) = Copies(n) /\ RowsCopied(n \union new) = RowsCopied(n)
      /\ \A p : p \in Deferred(n \union new)
                  <=> p \in Deferred(n) \/ \E l \in split : r.lines[l].payment = p
  <2>1. Copies(n \union new) = Copies(n) /\ RowsCopied(n \union new) = RowsCopied(n)
    BY <1>1 DEF Copies, RowsCopied, Among
  <2>2. \A p : p \in Deferred(n \union new)
                  <=> p \in Deferred(n) \/ \E l \in split : r.lines[l].payment = p
    BY <1>1 DEF Deferred, Among
  <2>. QED  BY <2>1, <2>2
<1>3. \A a \in n \union new : Known(a)
  <2>1. ASSUME NEW a \in new
        PROVE  Known(a)
    <3>1. <<a.noise, a.category>> = <<"split_settlement", "SPLIT_SETTLEMENT">>
      BY <1>1
    <3>. QED  BY <1>1, <3>1 DEF Known, CaseNotes
  <2>. QED  BY <2>1 DEF Told
<1>4. m \in Nat /\ DOMAIN r.lines = 1 .. m /\ \A l \in 1 .. m : r.lines[l] \in LineRow
  BY TablesHoldRows
<1>. HIDE DEF m
<1>5. /\ DOMAIN s.lines = 1 .. m + d
      /\ \A l \in 1 .. m : s.lines[l] =
            IF l \in split THEN Repriced(r.lines[l], first[l]) ELSE r.lines[l]
      /\ \A i \in 1 .. d : s.lines[m + i] =
            MovedTo(r, Repriced(r.lines[added[i]], second[added[i]]), to[added[i]])
      /\ \A l \in 1 .. m + d : l \in 1 .. m \/ \E j \in 1 .. d : l = m + j
  <2>. DEFINE kept == [l \in DOMAIN r.lines |-> IF l \in split
                          THEN Repriced(r.lines[l], first[l]) ELSE r.lines[l]]
              more == [i \in 1 .. d |->
                          MovedTo(r, Repriced(r.lines[added[i]], second[added[i]]), to[added[i]])]
  <2>1. Extended(s.lines, kept, d, more)
    BY DEF Split
  <2>2. Len(kept) = m
    BY <1>4
  <2>3. /\ \A l \in 1 .. m : kept[l] =
              IF l \in split THEN Repriced(r.lines[l], first[l]) ELSE r.lines[l]
        /\ \A i \in 1 .. d : more[i] =
              MovedTo(r, Repriced(r.lines[added[i]], second[added[i]]), to[added[i]])
    BY <1>4
  <2>. HIDE DEF kept, more
  <2>. QED  BY <2>1, <2>2, <2>3 DEF Extended
<1>6. /\ d \in Nat /\ \A i \in 1 .. d : added[i] \in split
      /\ \A i, j \in 1 .. d : added[i] = added[j] => i = j
      /\ \A l \in split : \E i \in 1 .. d : added[i] = l
      /\ \A l \in split : l \in 1 .. m /\ r.lines[l].type = "PAYMENT"
      /\ s.ledger = r.ledger /\ s.payments = r.payments /\ Retotalled(r, s)
  BY <1>4 DEF Split, PaymentLinesOf
<1>7. ASSUME NEW l \in split
      PROVE  /\ first[l].gross \in Nat /\ second[l].gross \in Nat
             /\ first[l].gross + second[l].gross = r.lines[l].gross
             /\ to[l] \in DOMAIN r.batches /\ r.batches[to[l]].settled \in Int
             /\ r.lines[l].settled < r.batches[to[l]].settled /\ r.lines[l].settled \in Int
  <2>1. /\ first[l].gross \in 0 .. r.lines[l].gross
        /\ second[l].gross = r.lines[l].gross - first[l].gross
        /\ to[l] \in DOMAIN r.batches
        /\ r.batches[r.lines[l].batch].settled < r.batches[to[l]].settled
    BY DEF Split, LaterHome
  <2>2. r.lines[l].gross \in Int /\ r.lines[l].settled \in Int
    BY <1>4, <1>6 DEF LineRow
  <2>3. r.lines[l].settled = r.batches[r.lines[l].batch].settled
    BY <1>4, <1>6 DEF Wired
  <2>4. r.batches[to[l]].settled \in Int
    BY <2>1, TablesHoldRows DEF BatchRow
  <2>. QED  BY <2>1, <2>2, <2>3, <2>4
<1>8. ASSUME NEW l \in 1 .. m
      PROVE  /\ s.lines[l].type = r.lines[l].type /\ s.lines[l].payment = r.lines[l].payment
             /\ s.lines[l].settled = r.lines[l].settled
             /\ s.lines[l].gross = IF l \in split THEN first[l].gross ELSE r.lines[l].gross
  BY <1>4, <1>5 DEF LineRow, Repriced
<1>9. ASSUME NEW i \in 1 .. d
      PROVE  /\ s.lines[m + i].type = "PAYMENT"
             /\ s.lines[m + i].payment = r.lines[added[i]].payment
             /\ s.lines[m + i].settled = r.batches[to[added[i]]].settled
             /\ s.lines[m + i].gross = second[added[i]].gross
  <2>1. added[i] \in 1 .. m /\ r.lines[added[i]] \in LineRow
        /\ r.lines[added[i]].type = "PAYMENT"
    BY <1>4, <1>6
  <2>. QED  BY <1>5, <2>1 DEF LineRow, Repriced, MovedTo
<1>10. m \in Nat /\ (\A l \in 1 .. m : l \in 1 .. m + d) /\ (\A i \in 1 .. d : m + i \in 1 .. m + d)
       /\ \A i \in 1 .. d : m + i \notin 1 .. m
  BY <1>4, <1>6
<1>11. /\ \A p : \A l \in PaymentLines(r, p) :
             l \in 1 .. m /\ r.lines[l].type = "PAYMENT" /\ r.lines[l].payment = p
       /\ \A l \in 1 .. m :
             r.lines[l].type = "PAYMENT" => l \in PaymentLines(r, r.lines[l].payment)
       /\ \A p : \A k, l \in PaymentLines(r, p) : k = l
  <2>1. /\ \A p : \A l \in PaymentLines(r, p) :
             l \in 1 .. m /\ r.lines[l].type = "PAYMENT" /\ r.lines[l].payment = p
        /\ \A l \in 1 .. m :
             r.lines[l].type = "PAYMENT" => l \in PaymentLines(r, r.lines[l].payment)
    BY <1>4 DEF PaymentLines, SettlementLines
  <2>. QED  BY <1>4, <2>1 DEF SingleLines
<1>12. ASSUME NEW p
       PROVE  /\ PaymentLines(r, p) \subseteq PaymentLines(s, p)
              /\ \A i \in 1 .. d :
                    r.lines[added[i]].payment = p => m + i \in PaymentLines(s, p)
              /\ \A l \in PaymentLines(s, p) :
                    \/ l \in PaymentLines(r, p)
                    \/ \E i \in 1 .. d : l = m + i /\ r.lines[added[i]].payment = p
  <2>1. ASSUME NEW l \in PaymentLines(r, p)
        PROVE  l \in PaymentLines(s, p)
    <3>1. l \in 1 .. m /\ r.lines[l].type = "PAYMENT" /\ r.lines[l].payment = p
      BY <1>11
    <3>2. l \in DOMAIN s.lines
      BY <1>5, <1>10, <3>1
    <3>. QED  BY <1>8, <3>1, <3>2 DEF PaymentLines, SettlementLines
  <2>2. ASSUME NEW i \in 1 .. d, r.lines[added[i]].payment = p
        PROVE  m + i \in PaymentLines(s, p)
    <3>1. m + i \in DOMAIN s.lines
      BY <1>5, <1>10
    <3>. QED  BY <1>9, <2>2, <3>1 DEF PaymentLines, SettlementLines
  <2>3. ASSUME NEW l \in PaymentLines(s, p)
        PROVE  \/ l \in PaymentLines(r, p)
               \/ \E i \in 1 .. d : l = m + i /\ r.lines[added[i]].payment = p
    <3>1. l \in 1 .. m + d /\ s.lines[l].type = "PAYMENT" /\ s.lines[l].payment = p
      BY <1>5 DEF PaymentLines, SettlementLines
    <3>2. CASE l \in 1 .. m
      BY <1>4, <1>8, <3>1, <3>2 DEF PaymentLines, SettlementLines
    <3>3. ASSUME NEW i \in 1 .. d, l = m + i
          PROVE  r.lines[added[i]].payment = p
      BY <1>9, <3>1, <3>3
    <3>. QED  BY <1>5, <3>1, <3>2, <3>3
  <2>. QED  BY <2>1, <2>2, <2>3
<1>13. ASSUME NEW p \in DOMAIN r.payments
       PROVE  \E k \in DOMAIN s.lines, l \in DOMAIN s.lines : SettlesOn(s, p, k, l)
  <2>1. PICK k \in DOMAIN r.lines, o \in DOMAIN r.lines : SettlesOn(r, p, k, o)
    BY DEF Told, Whole
  <2>2. PaymentLines(r, p) = {k, o}
    BY <2>1 DEF SettlesOn
  <2>3. k = o /\ PaymentLines(r, p) = {k} /\ k \in 1 .. m
        /\ r.lines[k].type = "PAYMENT" /\ r.lines[k].payment = p
    BY <1>11, <2>2
  <2>4. r.lines[k].gross \in Nat /\ r.payments[p].captured = r.lines[k].gross
    BY <2>1, <2>3 DEF SettlesOn
  <2>5. CASE k \in split
    <3>1. PICK i \in 1 .. d : added[i] = k
      BY <1>6, <2>5
    <3>2. ASSUME NEW j \in 1 .. d, r.lines[added[j]].payment = p
          PROVE  j = i
      <4>1. added[j] \in split /\ added[j] \in 1 .. m /\ r.lines[added[j]].type = "PAYMENT"
        BY <1>6
      <4>2. added[j] = k
        BY <1>4, <2>3, <3>2, <4>1 DEF SingleLines
      <4>. QED  BY <1>6, <3>1, <4>2
    <3>3. PaymentLines(s, p) = {k, m + i}
      BY <1>12, <2>3, <3>1, <3>2
    <3>4. k # m + i /\ k \in DOMAIN s.lines /\ m + i \in DOMAIN s.lines
      BY <1>5, <1>10, <2>3
    <3>5. s.lines[k].gross = first[k].gross /\ s.lines[m + i].gross = second[k].gross
      BY <1>8, <1>9, <2>3, <2>5, <3>1
    <3>6. SettlesOn(s, p, k, m + i)
      BY <1>6, <1>7, <2>4, <2>5, <3>3, <3>4, <3>5 DEF SettlesOn
    <3>. QED  BY <3>4, <3>6
  <2>6. CASE k \notin split
    <3>1. ASSUME NEW j \in 1 .. d
          PROVE  r.lines[added[j]].payment # p
      <4>1. added[j] \in split /\ added[j] \in 1 .. m /\ r.lines[added[j]].type = "PAYMENT"
        BY <1>6
      <4>2. added[j] # k
        BY <2>6, <4>1
      <4>. QED  BY <1>4, <2>3, <4>1, <4>2 DEF SingleLines
    <3>2. PaymentLines(s, p) = {k}
      BY <1>12, <2>3, <3>1
    <3>3. k \in DOMAIN s.lines /\ s.lines[k].gross = r.lines[k].gross
      BY <1>5, <1>8, <1>10, <2>3, <2>6
    <3>4. SettlesOn(s, p, k, k)
      BY <1>6, <2>4, <3>2, <3>3 DEF SettlesOn
    <3>. QED  BY <3>3, <3>4
  <2>. QED  BY <2>5, <2>6
<1>14. Whole(s)
  BY <1>6, <1>13 DEF Told, Whole
<1>15. Timely(s, n \union new)
  <2>1. ASSUME NEW b \in DOMAIN s.batches
        PROVE  IsWorkingDay(s.batches[b].settled)
    <3>1. b \in DOMAIN r.batches /\ s.batches[b].settled = r.batches[b].settled
      BY <1>6, RetotalledDays
    <3>. QED  BY <3>1 DEF Told, Timely
  <2>2. ASSUME NEW p \in DOMAIN r.payments
        PROVE  DueOn(s, p) = DueOn(r, p) /\ DueOn(r, p) \in Int
    BY <1>6, DueIsADay DEF DueOn
  <2>3. ASSUME NEW p \in DOMAIN r.payments, NEW l \in PaymentLines(r, p)
        PROVE  DueOn(r, p) =< r.lines[l].settled /\ s.lines[l].settled = r.lines[l].settled
    BY <1>8, <1>11 DEF Told, Timely
  <2>4. ASSUME NEW p \in DOMAIN r.payments, NEW i \in 1 .. d, r.lines[added[i]].payment = p
        PROVE  DueOn(r, p) < s.lines[m + i].settled
    <3>1. added[i] \in split /\ added[i] \in PaymentLines(r, p)
      BY <1>6, <1>11, <2>4
    <3>2. r.lines[added[i]].settled < s.lines[m + i].settled
      BY <1>7, <1>9, <3>1
    <3>3. /\ r.lines[added[i]].settled \in Int /\ DueOn(r, p) =< r.lines[added[i]].settled
          /\ s.lines[m + i].settled \in Int
      BY <1>7, <1>9, <2>3, <3>1
    <3>. QED  BY <2>2, <3>2, <3>3
  <2>5. ASSUME NEW p \in DOMAIN r.payments, NEW l \in PaymentLines(s, p)
        PROVE  DueOn(s, p) =< s.lines[l].settled
    <3>1. CASE l \in PaymentLines(r, p)
      BY <2>2, <2>3, <3>1
    <3>2. ASSUME NEW i \in 1 .. d, l = m + i, r.lines[added[i]].payment = p
          PROVE  DueOn(s, p) =< s.lines[l].settled
      <4>1. DueOn(r, p) < s.lines[l].settled
        BY <2>4, <3>2
      <4>2. s.lines[l].settled \in Int
        BY <1>6, <1>7, <1>9, <3>2
      <4>. QED  BY <2>2, <4>1, <4>2
    <3>. QED  BY <1>12, <2>5, <3>1, <3>2
  <2>6. ASSUME NEW p \in DOMAIN r.payments
        PROVE  p \in Deferred(n \union new)
                 <=> \E l \in PaymentLines(s, p) : s.lines[l].settled # DueOn(s, p)
    <3>1. ASSUME NEW k \in split, r.lines[k].payment = p
          PROVE  \E l \in PaymentLines(s, p) : s.lines[l].settled # DueOn(s, p)
      <4>1. PICK i \in 1 .. d : added[i] = k
        BY <1>6
      <4>2. m + i \in PaymentLines(s, p) /\ DueOn(r, p) < s.lines[m + i].settled
        BY <1>12, <2>4, <3>1, <4>1
      <4>3. s.lines[m + i].settled # DueOn(s, p)
        BY <2>2, <4>2
      <4>. QED  BY <4>2, <4>3
    <3>2. ASSUME ~ \E k \in split : r.lines[k].payment = p
          PROVE  PaymentLines(s, p) = PaymentLines(r, p)
      <4>1. \A i \in 1 .. d : r.lines[added[i]].payment # p
        BY <1>6, <3>2
      <4>2. \A l \in PaymentLines(s, p) : l \in PaymentLines(r, p)
        BY <1>12, <4>1
      <4>3. PaymentLines(r, p) \subseteq PaymentLines(s, p)
        BY <1>12
      <4>. QED  BY <4>2, <4>3
    <3>3. p \in Deferred(n) <=> \E l \in PaymentLines(r, p) : r.lines[l].settled # DueOn(r, p)
      BY DEF Told, Timely
    <3>4. \A l \in PaymentLines(r, p) : l \in PaymentLines(s, p)
      BY <1>12
    <3>5. CASE \E k \in split : r.lines[k].payment = p
      BY <1>2, <3>1, <3>5
    <3>6. CASE ~ \E k \in split : r.lines[k].payment = p
      BY <1>2, <2>2, <2>3, <3>2, <3>3, <3>6
    <3>. QED  BY <3>5, <3>6
  <2>. QED  BY <1>6, <2>1, <2>5, <2>6 DEF Timely
<1>16. CopiesMatch(s, n \union new)
  <2>1. \A l \in DOMAIN s.lines :
            \/ s.lines[l].type = "PAYMENT"
            \/ /\ l \in DOMAIN r.lines /\ s.lines[l].type = r.lines[l].type
               /\ s.lines[l].payment = r.lines[l].payment
    BY <1>4, <1>5, <1>8, <1>9
  <2>. QED  BY <1>2, <1>6, <2>1, CopiesStay DEF Told
<1>17. Told(s, n \union new)
  BY <1>3, <1>14, <1>15, <1>16 DEF Told
<1>. QED  BY <1>17 DEF new

(* The order is left with the second injector.                             *)
LEMMA OrderIsLeft ==
  /\ DuplicateLedgerRows \/ DelayedSettlement \/ SplitSettlement \/ TruncateUtr \/ DropUtr
       \/ GarbledNarration \/ MixedAmountFormats \/ OutOfOrderArrival \/ Unexplainable
       \/ RoundingResidual \/ SkipWithheld \/ CheckAndWrite
     => stage' \notin Orderly
<1>. DEFINE After == {Following("duplicate_ledger_rows"), Following("delayed_settlement"),
                      Following("split_settlement"), Following("truncate_utr"),
                      Following("drop_utr"), Following("garbled_narration"),
                      Following("mixed_amount_formats"), Following("out_of_order_arrival"),
                      Following("unexplainable"), Following("rounding_residual")}
<1>1. After \intersect Orderly = {}
  BY FollowingIs DEF Orderly
<1>2. \A name \in {"duplicate_ledger_rows", "delayed_settlement", "split_settlement",
                   "truncate_utr", "drop_utr", "garbled_narration", "mixed_amount_formats",
                   "out_of_order_arrival", "unexplainable", "rounding_residual"} :
        stage' = Following(name) => stage' \in After
  OBVIOUS
<1>3. /\ DuplicateLedgerRows => stage' = Following("duplicate_ledger_rows")
      /\ DelayedSettlement => stage' = Following("delayed_settlement")
      /\ TruncateUtr => stage' = Following("truncate_utr")
      /\ DropUtr => stage' = Following("drop_utr")
      /\ GarbledNarration => stage' = Following("garbled_narration")
  BY Zenon DEF DuplicateLedgerRows, DelayedSettlement, TruncateUtr, DropUtr, GarbledNarration,
               Injected
<1>4. /\ MixedAmountFormats => stage' = Following("mixed_amount_formats")
      /\ OutOfOrderArrival => stage' = Following("out_of_order_arrival")
      /\ RoundingResidual => stage' = Following("rounding_residual")
  BY Zenon DEF MixedAmountFormats, OutOfOrderArrival, RoundingResidual, Injected
<1>5. SplitSettlement => stage' = Following("split_settlement")
  BY ZenonT(90) DEF SplitSettlement, Injected
<1>6. Unexplainable => stage' = Following("unexplainable")
  BY ZenonT(90) DEF Unexplainable, Injected
<1>7. SkipWithheld => \/ stage' = Following("split_settlement")
                      \/ stage' = Following("garbled_narration")
  BY Zenon DEF SkipWithheld
<1>8. CheckAndWrite => stage' \notin Orderly
  BY DEF CheckAndWrite, Orderly
<1>. HIDE DEF After
<1>. QED  BY <1>1, <1>2, <1>3, <1>4, <1>5, <1>6, <1>7, <1>8

LEMMA PlannedIsClean ==
  ASSUME call \in Calls
  PROVE  Clean([i \in 1 .. Len(Plan) |-> CleanChain(i)])
BY ChainsArePlanned DEF Clean

(* Every step of the generator keeps the notes true.                       *)
LEMMA NotesStepKeeps ==
  ASSUME GeneratorInv, NotesInv, GeneratorNext
  PROVE  NotesInv'
<1>1. /\ rows \in RowTables /\ Wired(rows) /\ Told(rows, notes)
      /\ stage \in Orderly => FirstNotes(notes) /\ Plain(rows) /\ SingleLines(rows)
      /\ stage = "split_settlement" => SingleLines(rows)
  BY DEF GeneratorInv, NotesInv, Single
<1>2. CASE BuildClean
  <2>. DEFINE chains == [i \in 1 .. Len(Plan) |-> CleanChain(i)]
  <2>1. call \in Calls /\ stage \in Orderly
    BY <1>2 DEF GeneratorInv, BuildClean, Orderly
  <2>2. chains \in Seq(PlannedChain) /\ Refundable(chains) /\ Prompt(chains)
    BY <2>1, PlannedIsRefundable
  <2>3. Clean(chains)
    BY <2>1, PlannedIsClean
  <2>4. rows' = Assemble(chains) /\ notes' = notes
    BY <1>2 DEF BuildClean
  <2>5. FirstNotes(notes) /\ \A a \in notes : Known(a)
    BY <1>1, <2>1 DEF Told
  <2>. HIDE DEF chains
  <2>6. Told(rows', notes')
    BY <2>2, <2>3, <2>4, <2>5, AssembledIsTold
  <2>. QED  BY <2>4, <2>5, <2>6 DEF NotesInv
<1>3. CASE VerifyClean
  <2>1. stage \in Orderly /\ rows' = rows /\ notes' = notes
    BY <1>3 DEF VerifyClean, Orderly
  <2>. QED  BY <1>1, <2>1 DEF NotesInv
<1>4. CASE PartialCaptures
  <2>1. stage \in Orderly
    BY <1>4 DEF PartialCaptures, Orderly
  <2>2. PICK partial, priced :
          /\ Captured(rows, rows', partial, priced)
          /\ notes' = notes \union
                {Note("partial_captures", "case", p, "PARTIAL_CAPTURE", TRUE,
                      rows.payments[p].authorized - priced[p].gross) : p \in partial}
    BY <1>4, PartialCapturesDone
  <2>. DEFINE new == {Note("partial_captures", "case", p, "PARTIAL_CAPTURE", TRUE,
                           rows.payments[p].authorized - priced[p].gross) : p \in partial}
  <2>3. \A a \in new : /\ a.noise = "partial_captures" /\ a.kind = "case"
                       /\ a.category = "PARTIAL_CAPTURE"
    BY DEF Note
  <2>4. notes' = notes \union new
    BY <2>2
  <2>. HIDE DEF new
  <2>5. FirstNotes(new)
    BY <2>3 DEF FirstNotes
  <2>6. ASSUME NEW a \in new
        PROVE  Known(a)
    <3>1. <<a.noise, a.category>> = <<"partial_captures", "PARTIAL_CAPTURE">>
      BY <2>3
    <3>. QED  BY <2>3, <3>1 DEF Known, CaseNotes
  <2>7. Told(rows', notes') /\ FirstNotes(notes')
    <3>1. rows \in RowTables /\ Wired(rows) /\ SingleLines(rows) /\ Told(rows, notes)
          /\ FirstNotes(notes) /\ Captured(rows, rows', partial, priced)
      BY <1>1, <2>1, <2>2
    <3>. QED  BY <2>4, <2>5, <2>6, <3>1, CapturedIsTold
  <2>. QED  BY <2>7 DEF NotesInv
<1>5. CASE DuplicateLedgerRows
  <2>1. stage \in Orderly
    BY <1>5 DEF DuplicateLedgerRows, Orderly
  <2>2. PICK n, c, copies, d, repeats :
          /\ Doubled(rows, rows', n, c, copies, d, repeats)
          /\ notes' = notes \union DoublingNotes(rows, n, c, copies, d)
    BY <1>5, DuplicateLedgerRowsDone
  <2>3. Told(rows', notes')
    BY <1>1, <2>1, <2>2, DoubledIsTold
  <2>. QED  BY <1>5, <2>3, OrderIsLeft DEF NotesInv
<1>6. CASE DelayedSettlement
  <2>1. PICK late, to :
          Delayed(rows, rows', late, to) /\ notes' = notes \union DelayNotes(rows, late)
    BY <1>6, DelayedSettlementDone
  <2>2. Told(rows', notes')
    BY <1>1, <2>1, DelayedIsTold
  <2>. QED  BY <1>6, <2>2, OrderIsLeft DEF NotesInv
<1>7. CASE SplitSettlement
  <2>1. PICK split, first, second, to, d, added :
          /\ Split(rows, rows', split, first, second, to, d, added)
          /\ notes' = notes \union SplitNotes(rows, split)
    BY <1>7, SplitSettlementDone
  <2>2. SingleLines(rows)
    BY <1>1, <1>7 DEF SplitSettlement
  <2>3. Told(rows', notes')
    BY <1>1, <2>1, <2>2, SplitIsTold
  <2>. QED  BY <1>7, <2>3, OrderIsLeft DEF NotesInv
<1>8. ASSUME NEW new, SameBooks(rows, rows'), notes' = notes \union new,
             \A a \in new : /\ a.kind \in {"batch_link", "bank_row"}
                            /\ a.noise \in TokenNoise \union {"unexplainable", "rounding_residual"}
      PROVE  Told(rows', notes')
  <2>1. Silent(new)
    BY <1>8 DEF Silent, TokenNoise
  <2>2. \A a \in new : Known(a)
    BY <1>8 DEF Known
  <2>. QED  BY <1>1, <1>8, <2>1, <2>2, SameBooksAreTold
<1>9. CASE TruncateUtr \/ DropUtr \/ GarbledNarration
  <2>1. PICK token, new :
          /\ Retokened(rows, rows', token) /\ notes' = notes \union new
          /\ \A a \in new : a.kind = "batch_link" /\ a.noise \in TokenNoise
    BY <1>9, TokensDone
  <2>2. Told(rows', notes')
    BY <1>8, <2>1 DEF Retokened
  <2>. QED  BY <1>9, <2>2, OrderIsLeft DEF NotesInv
<1>10. CASE Unexplainable
  <2>1. PICK orphans, withheld :
          /\ Withheld(rows, rows', orphans, withheld)
          /\ notes' = notes \union WithheldNotes(rows, rows', orphans, withheld)
    BY <1>10, UnexplainableDone
  <2>2. \A a \in WithheldNotes(rows, rows', orphans, withheld) :
          a.kind \in {"batch_link", "bank_row"} /\ a.noise = "unexplainable"
    BY DEF WithheldNotes, Note
  <2>3. Told(rows', notes')
    BY <1>8, <2>1, <2>2 DEF Withheld
  <2>. QED  BY <1>10, <2>3, OrderIsLeft DEF NotesInv
<1>11. CASE RoundingResidual
  <2>1. PICK off, delta :
          Rounded(rows, rows', off, delta) /\ notes' = notes \union RoundingNotes(off, delta)
    BY <1>11, RoundingResidualDone
  <2>2. \A a \in RoundingNotes(off, delta) :
          a.kind \in {"batch_link", "bank_row"} /\ a.noise = "rounding_residual"
    BY DEF RoundingNotes, Note
  <2>3. Told(rows', notes')
    BY <1>8, <2>1, <2>2 DEF Rounded
  <2>. QED  BY <1>11, <2>3, OrderIsLeft DEF NotesInv
<1>12. CASE CheckAndWrite \/ MixedAmountFormats \/ OutOfOrderArrival \/ SkipWithheld
  <2>1. rows' = rows /\ notes' = notes
    BY <1>12 DEF CheckAndWrite, MixedAmountFormats, OutOfOrderArrival, SkipWithheld
  <2>. QED  BY <1>1, <1>12, <2>1, OrderIsLeft DEF NotesInv
<1>. QED  BY <1>2, <1>3, <1>4, <1>5, <1>6, <1>7, <1>9, <1>10, <1>11, <1>12
          DEF GeneratorNext, ApplyNoise

LEMMA NothingIsTold ==
  Told(NoData, {}) /\ FirstNotes({})
<1>1. DOMAIN NoData.payments = {} /\ DOMAIN NoData.batches = {}
  BY DEF NoData
<1>2. Whole(NoData) /\ Timely(NoData, {})
  BY <1>1 DEF Whole, Timely
<1>3. Copies({}) = {}
  BY DEF Copies, Among
<1>4. CopiesMatch(NoData, {})
  BY <1>3 DEF CopiesMatch
<1>. QED  BY <1>2, <1>4 DEF Told, FirstNotes

-----------------------------------------------------------------------------
(* Once there are credits no batch stands behind, they carry no UTR.       *)
Withholding == {"rounding_residual", "TRUTH", "WRITTEN"}

NamelessInv ==
    stage \in Withholding =>
        \A c \in DOMAIN rows.bank \ DOMAIN rows.batches : rows.bank[c].token = NoToken

LEMMA NamelessStepKeeps ==
  ASSUME GeneratorInv, NamelessInv, GeneratorNext
  PROVE  NamelessInv'
<1>1. CASE BuildClean \/ VerifyClean \/ SkipWithheld
  <2>1. stage' \notin Withholding
    BY <1>1, FollowingIs, NamesInOrder
       DEF BuildClean, VerifyClean, SkipWithheld, Withholding
  <2>. QED  BY <2>1 DEF NamelessInv
<1>2. CASE \/ PartialCaptures \/ DuplicateLedgerRows \/ DelayedSettlement \/ SplitSettlement
           \/ TruncateUtr \/ DropUtr \/ GarbledNarration \/ MixedAmountFormats
           \/ OutOfOrderArrival
  <2>1. \/ stage' = Following("partial_captures") \/ stage' = Following("duplicate_ledger_rows")
        \/ stage' = Following("delayed_settlement") \/ stage' = Following("split_settlement")
        \/ stage' = Following("truncate_utr") \/ stage' = Following("drop_utr")
        \/ stage' = Following("garbled_narration") \/ stage' = Following("mixed_amount_formats")
        \/ stage' = Following("out_of_order_arrival")
    <3>1. PartialCaptures => stage' = Following("partial_captures")
      BY Zenon DEF PartialCaptures, Injected
    <3>2. DuplicateLedgerRows => stage' = Following("duplicate_ledger_rows")
      BY Zenon DEF DuplicateLedgerRows, Injected
    <3>3. DelayedSettlement => stage' = Following("delayed_settlement")
      BY Zenon DEF DelayedSettlement, Injected
    <3>4. SplitSettlement => stage' = Following("split_settlement")
      BY ZenonT(90) DEF SplitSettlement, Injected
    <3>5. TruncateUtr => stage' = Following("truncate_utr")
      BY Zenon DEF TruncateUtr, Injected
    <3>6. DropUtr => stage' = Following("drop_utr")
      BY Zenon DEF DropUtr, Injected
    <3>7. GarbledNarration => stage' = Following("garbled_narration")
      BY Zenon DEF GarbledNarration, Injected
    <3>8. MixedAmountFormats => stage' = Following("mixed_amount_formats")
      BY Zenon DEF MixedAmountFormats
    <3>9. OutOfOrderArrival => stage' = Following("out_of_order_arrival")
      BY Zenon DEF OutOfOrderArrival
    <3>. QED  BY <1>2, <3>1, <3>2, <3>3, <3>4, <3>5, <3>6, <3>7, <3>8, <3>9
  <2>2. stage' \notin Withholding
    BY <2>1, FollowingIs DEF Withholding
  <2>. QED  BY <2>2 DEF NamelessInv
<1>3. CASE Unexplainable
  <2>1. PICK orphans, withheld : Withheld(rows, rows', orphans, withheld)
    BY <1>3, UnexplainableDone
  <2>2. DOMAIN rows.bank = DOMAIN rows.batches
    BY <1>3 DEF Unexplainable, GeneratorInv, Settling, PaidOut
  <2>3. ASSUME NEW c \in DOMAIN rows'.bank \ DOMAIN rows'.batches
        PROVE  rows'.bank[c].token = NoToken
    BY <2>1, <2>2 DEF Withheld, SameBooks
  <2>. QED  BY <2>3 DEF NamelessInv
<1>4. CASE RoundingResidual
  <2>1. PICK off, delta : Rounded(rows, rows', off, delta)
    BY <1>4, RoundingResidualDone
  <2>2. /\ stage \in Withholding
        /\ rows'.batches = rows.batches /\ DOMAIN rows'.bank = DOMAIN rows.bank
        /\ \A c \in DOMAIN rows.bank \ DOMAIN rows.batches : rows'.bank[c] = rows.bank[c]
    BY <1>4, <2>1 DEF RoundingResidual, Withholding, Rounded, SameBooks
  <2>. QED  BY <2>2 DEF NamelessInv
<1>5. CASE CheckAndWrite
  BY <1>5 DEF CheckAndWrite, NamelessInv, Withholding
<1>. QED  BY <1>1, <1>2, <1>3, <1>4, <1>5 DEF GeneratorNext, ApplyNoise

=============================================================================
