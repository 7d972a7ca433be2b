---------------------------- MODULE LedgerLemmas ----------------------------
(***************************************************************************)
(* Lemmas that the proofs share: the ids of stores, naturals, quotients,   *)
(* sums of functions on 1..n and over finite sets, decimals, and what each *)
(* operation of TrustLedger does to an entry.                              *)
(***************************************************************************)
EXTENDS TrustLedger, Sums, Stores, FiniteSetTheorems, TLAPS

-----------------------------------------------------------------------------
(* Naturals, products and quotients.                                       *)

LEMMA LeastNatural ==
  ASSUME NEW T, T \subseteq Nat, T # {}
  PROVE  \E x \in T : \A y \in T : x <= y
<1> DEFINE R == {p \in Nat \X Nat : p[1] < p[2]}
<1>1. OpToRel(<, Nat) = R
  BY DEF OpToRel
<1>2. IsWellFoundedOn(R, Nat)
  BY <1>1, NatLessThanWellFounded, Zenon
<1>3. \E x \in T : \A y \in T : ~(<<y, x>> \in R)
  <2> HIDE DEF R
  <2>1. QED
    BY <1>2, WFMin
<1>4. ASSUME NEW x \in T, NEW y \in T, <<y, x>> \notin R
      PROVE  x <= y
  <2>1. ~(<<y, x>>[1] < <<y, x>>[2])
    BY <1>4, Zenon
  <2>2. x \in Nat /\ y \in Nat /\ ~(y < x)
    BY <2>1
  <2>3. QED
    BY <2>2
<1>5. QED
  BY <1>3, <1>4

\* Ids that a sequence bounds have a largest one.
LEMMA LargestExists ==
  ASSUME NEW S, S \subseteq Nat, S # {}, NEW n \in Nat, \A x \in S : x <= n
  PROVE  Largest(S) \in S /\ \A y \in S : y <= Largest(S)
<1> DEFINE T == {n - x : x \in S}
<1>1. T \subseteq Nat /\ T # {}
  <2>1. \A x \in S : n - x \in Nat
    OBVIOUS
  <2>2. T \subseteq Nat
    BY <2>1
  <2>3. PICK x : x \in S
    OBVIOUS
  <2>4. n - x \in T
    BY <2>3
  <2> QED BY <2>2, <2>4
<1>2. PICK d \in T : \A e \in T : d <= e
  BY <1>1, LeastNatural
<1>3. PICK x \in S : d = n - x
  BY <1>2
<1>4. ASSUME NEW y \in S
      PROVE  y <= x
  <2>1. n - y \in T
    OBVIOUS
  <2>2. n - x <= n - y
    BY <1>2, <1>3, <2>1
  <2>3. x \in Nat /\ y \in Nat
    OBVIOUS
  <2> QED BY <2>2, <2>3
<1> QED BY <1>3, <1>4 DEF Largest

\* The last id of a map whose ids are 1..n is n.
LEMMA LastIdOfInterval ==
  ASSUME NEW n \in Nat, NEW S, NEW m \in [1 .. n -> S]
  PROVE  LastId(m) = n
<1>1. CASE n = 0
  BY <1>1 DEF LastId, EmptyMap
<1>2. CASE n # 0
  <2>1. DOMAIN m = 1 .. n /\ n \in 1 .. n
    BY <1>2
  <2>2. m # EmptyMap
    BY <2>1 DEF EmptyMap
  <2>3. Largest(1 .. n) = n
    BY <2>1 DEF Largest
  <2> QED BY <2>1, <2>2, <2>3 DEF LastId
<1> QED BY <1>1, <1>2

LEMMA Division ==
  ASSUME NEW a \in Nat, NEW b \in Nat \ {0}
  PROVE  /\ a \div b \in Nat
         /\ a % b \in 0 .. b - 1
         /\ (a \div b) * b <= a
         /\ a = (a \div b) * b + (a % b)
  OBVIOUS

LEMMA Products ==
  ASSUME NEW a \in Nat, NEW b \in Nat
  PROVE  a * b \in Nat
  OBVIOUS

LEMMA PositiveProducts ==
  ASSUME NEW a \in Nat \ {0}, NEW b \in Nat \ {0}
  PROVE  a * b \in Nat \ {0}
  OBVIOUS

\* A quotient is at least q when the dividend holds q divisors.
LEMMA QuotientBound ==
  ASSUME NEW a \in Nat, NEW b \in Nat \ {0}, NEW q \in Nat, q * b <= a
  PROVE  a \div b >= q
<1> DEFINE r == a \div b
<1>1. r \in Nat /\ a < (r + 1) * b
  BY Division
<1>2. SUFFICES ASSUME r < q PROVE FALSE
  BY <1>1
<1> HIDE DEF r
<1>3. (r + 1) * b <= q * b
  BY <1>1, <1>2
<1>4. QED
  BY <1>1, <1>3

\* A quotient is at most q when the dividend holds no more than q divisors.
LEMMA QuotientAtMost ==
  ASSUME NEW a \in Nat, NEW b \in Nat \ {0}, NEW q \in Nat, a <= q * b
  PROVE  a \div b <= q
<1> DEFINE r == a \div b
<1>1. r \in Nat /\ r * b <= a
  BY Division
<1>2. SUFFICES ASSUME r > q PROVE FALSE
  BY <1>1
<1>3. PICK d \in Nat : r = q + 1 + d
  <2>1. r - q - 1 \in Nat /\ r = q + 1 + (r - q - 1)
    BY <1>1, <1>2
  <2>2. QED
    BY <2>1
<1>4. r * b = q * b + b + d * b
  BY <1>3
<1>5. d * b \in Nat /\ q * b \in Nat
  BY Products
<1>6. QED
  BY <1>1, <1>4, <1>5

\* Rounding down keeps the order.
LEMMA QuotientMonotone ==
  ASSUME NEW a \in Nat, NEW c \in Nat, NEW b \in Nat \ {0}, a <= c
  PROVE  /\ a \div b \in Nat /\ c \div b \in Nat
         /\ a \div b <= c \div b
<1> DEFINE q == a \div b
<1>1. q \in Nat /\ q * b <= a /\ c \div b \in Nat
  BY Division
<1>2. q * b <= c
  BY <1>1, Products
<1> HIDE DEF q
<1>3. c \div b >= q
  BY <1>1, <1>2, QuotientBound
<1>4. QED
  BY <1>1, <1>3 DEF q

LEMMA Distribution ==
  ASSUME NEW a \in Int, NEW b \in Int, NEW c \in Int
  PROVE  (a + b) * c = a * c + b * c
  OBVIOUS

LEMMA BoundsAdd ==
  ASSUME NEW a \in Int, NEW b \in Int, NEW c \in Int, NEW d \in Int,
         NEW P \in Int, NEW k \in Int, a * P <= b * k, c * P <= d * k
  PROVE  (a + c) * P <= (b + d) * k
<1> DEFINE aP == a * P
           bk == b * k
           cP == c * P
           dk == d * k
<1>1. aP \in Int /\ bk \in Int
  OBVIOUS
<1>2. cP \in Int /\ dk \in Int
  OBVIOUS
<1>3. (a + c) * P = aP + cP
  BY Distribution
<1>4. (b + d) * k = bk + dk
  BY Distribution
<1> HIDE DEF aP, bk, cP, dk
<1>5. aP + cP <= bk + dk
  <2>1. aP <= bk /\ cP <= dk
    BY DEF aP, bk, cP, dk
  <2> QED BY <1>1, <1>2, <2>1
<1> QED BY <1>3, <1>4, <1>5

-----------------------------------------------------------------------------
(* Sums.                                                                   *)

IsPartialSum(s, f, n) ==
  s = [i \in 0 .. n |-> IF i = 0 THEN 0 ELSE s[i - 1] + f[i]]

LEMMA PartialSumExists ==
  ASSUME NEW n \in Nat, NEW f
  PROVE  \E s : IsPartialSum(s, f, n)
<1> DEFINE T == {m \in Nat : ~\E s : IsPartialSum(s, f, m)}
<1>1. SUFFICES ASSUME T # {} PROVE FALSE
  OBVIOUS
<1>2. PICK m \in T : \A y \in T : m <= y
  BY <1>1, LeastNatural
<1>3. CASE m = 0
  <2>1. IsPartialSum([i \in 0 .. 0 |-> 0], f, 0)
    BY DEF IsPartialSum
  <2>2. QED
    BY <2>1, <1>3
<1>4. CASE m # 0
  <2>1. m - 1 \in Nat /\ m - 1 \notin T
    BY <1>2, <1>4
  <2>2. PICK s : IsPartialSum(s, f, m - 1)
    BY <2>1
  <2> DEFINE r == [i \in 0 .. m |-> IF i = m THEN s[m - 1] + f[m] ELSE s[i]]
  <2>3. IsPartialSum(r, f, m)
    <3>1. \A i \in 0 .. m - 1 : s[i] = IF i = 0 THEN 0 ELSE s[i - 1] + f[i]
      BY <2>2 DEF IsPartialSum
    <3>2. \A i \in 0 .. m : r[i] = IF i = 0 THEN 0 ELSE r[i - 1] + f[i]
      BY <3>1, <1>4
    <3>3. QED
      BY <3>2 DEF IsPartialSum
  <2>4. QED
    BY <2>3
<1>5. QED
  BY <1>3, <1>4

LEMMA PartialSumsDef ==
  ASSUME NEW n \in Nat, NEW f
  PROVE  IsPartialSum(PartialSums(f, n), f, n)
<1>1. PartialSums(f, n) = CHOOSE s : IsPartialSum(s, f, n)
  BY Zenon DEF PartialSums, IsPartialSum
<1>2. QED
  BY <1>1, PartialSumExists, Zenon

\* Induction on an index, for a set of indices.
LEMMA IndexInduction ==
  ASSUME NEW n \in Nat, NEW S, 0 \in S,
         \A i \in 1 .. n : i - 1 \in S => i \in S
  PROVE  \A i \in 0 .. n : i \in S
<1> DEFINE T == {i \in 0 .. n : i \notin S}
<1>1. SUFFICES ASSUME T # {} PROVE FALSE
  OBVIOUS
<1>2. PICK m \in T : \A y \in T : m <= y
  <2>1. T \subseteq Nat
    OBVIOUS
  <2> HIDE DEF T
  <2>2. QED
    BY <1>1, <2>1, LeastNatural
<1>3. m \in 1 .. n /\ m - 1 \in 0 .. n /\ m - 1 \notin T
  BY <1>2
<1>4. QED
  BY <1>2, <1>3

LEMMA PartialSumStep ==
  ASSUME NEW n \in Nat, NEW f
  PROVE  /\ PartialSums(f, n)[0] = 0
         /\ \A i \in 1 .. n :
              PartialSums(f, n)[i] = PartialSums(f, n)[i - 1] + f[i]
  BY PartialSumsDef DEF IsPartialSum

LEMMA PartialSumType ==
  ASSUME NEW n \in Nat, NEW f \in [1 .. n -> Int]
  PROVE  \A i \in 0 .. n : PartialSums(f, n)[i] \in Int
<1> DEFINE S == {i \in 0 .. n : PartialSums(f, n)[i] \in Int}
<1>1. 0 \in S
  BY PartialSumStep
<1>2. ASSUME NEW i \in 1 .. n, i - 1 \in S
      PROVE  i \in S
  BY <1>2, PartialSumStep
<1>3. \A i \in 0 .. n : i \in S
  <2> HIDE DEF S
  <2>1. QED
    BY <1>1, <1>2, IndexInduction
<1>4. QED
  BY <1>3

LEMMA SumType ==
  ASSUME NEW n \in Nat, NEW f \in [1 .. n -> Int]
  PROVE  Sum(f, n) \in Int
  BY PartialSumType DEF Sum

\* The sum of naturals is a natural at least as large as each of them.
LEMMA SumBound ==
  ASSUME NEW n \in Nat, NEW f \in [1 .. n -> Nat], NEW c \in 1 .. n
  PROVE  Sum(f, n) >= f[c] /\ Sum(f, n) \in Nat
<1> DEFINE s == PartialSums(f, n)
<1> DEFINE S == {i \in 0 .. n : s[i] >= 0 /\ (i >= c => s[i] >= f[c])}
<1>1. \A i \in 0 .. n : s[i] \in Int
  BY PartialSumType
<1>2. s[0] = 0 /\ \A i \in 1 .. n : s[i] = s[i - 1] + f[i]
  BY PartialSumStep
<1> HIDE DEF s
<1>3. 0 \in S
  BY <1>2
<1>4. ASSUME NEW i \in 1 .. n, i - 1 \in S
      PROVE  i \in S
  <2>1. s[i] = s[i - 1] + f[i] /\ s[i - 1] \in Int /\ s[i - 1] >= 0
    BY <1>1, <1>2, <1>4
  <2>2. CASE i - 1 >= c
    BY <2>1, <2>2, <1>4
  <2>3. CASE i = c
    BY <2>1, <2>3
  <2>4. CASE i < c
    BY <2>1, <2>4
  <2>5. QED
    BY <2>2, <2>3, <2>4
<1>5. \A i \in 0 .. n : i \in S
  <2> HIDE DEF S
  <2>1. QED
    BY <1>3, <1>4, IndexInduction
<1>6. QED
  BY <1>1, <1>5 DEF Sum, s

LEMMA SumNatural ==
  ASSUME NEW n \in Nat, NEW f \in [1 .. n -> Nat]
  PROVE  Sum(f, n) \in Nat
<1>1. CASE n = 0
  BY <1>1, PartialSumStep DEF Sum
<1>2. CASE n # 0
  <2>1. 1 \in 1 .. n
    BY <1>2
  <2>2. QED
    BY <2>1, SumBound
<1>3. QED
  BY <1>1, <1>2

LEMMA SumUpdate ==
  ASSUME NEW n \in Nat, NEW f \in [1 .. n -> Int], NEW c \in 1 .. n, NEW v \in Int
  PROVE  Sum([f EXCEPT ![c] = v], n) = Sum(f, n) - f[c] + v
<1> DEFINE g == [f EXCEPT ![c] = v]
<1> DEFINE s == PartialSums(f, n)
<1> DEFINE t == PartialSums(g, n)
<1> DEFINE S == {i \in 0 .. n : t[i] = IF i < c THEN s[i] ELSE s[i] - f[c] + v}
<1>1. \A i \in 0 .. n : s[i] \in Int
  BY PartialSumType
<1>2. s[0] = 0 /\ \A i \in 1 .. n : s[i] = s[i - 1] + f[i]
  BY PartialSumStep
<1>3. t[0] = 0 /\ \A i \in 1 .. n : t[i] = t[i - 1] + g[i]
  BY PartialSumStep
<1> HIDE DEF s, t
<1>4. 0 \in S
  BY <1>2, <1>3
<1>5. ASSUME NEW i \in 1 .. n, i - 1 \in S
      PROVE  i \in S
  <2>1. s[i] = s[i - 1] + f[i] /\ t[i] = t[i - 1] + g[i] /\ s[i - 1] \in Int
    <3> HIDE DEF g
    <3>1. i - 1 \in 0 .. n
      OBVIOUS
    <3>2. QED
      BY <1>1, <1>2, <1>3, <3>1
  <2>2. t[i - 1] = IF i - 1 < c THEN s[i - 1] ELSE s[i - 1] - f[c] + v
    BY <1>5
  <2>3. g[i] = (IF i = c THEN v ELSE f[i]) /\ f[i] \in Int /\ f[c] \in Int
    OBVIOUS
  <2> HIDE DEF g
  <2>4. CASE i < c
    <3>1. t[i] = s[i]
      BY <2>1, <2>2, <2>3, <2>4
    <3> QED BY <2>4, <3>1
  <2>5. CASE i = c
    <3>1. t[i - 1] = s[i - 1] /\ g[i] = v /\ f[i] = f[c]
      BY <2>2, <2>3, <2>5
    <3>2. t[i] = s[i] - f[c] + v
      BY <2>1, <2>3, <3>1
    <3> QED BY <2>5, <3>2
  <2>6. CASE i > c
    <3>1. t[i - 1] = s[i - 1] - f[c] + v /\ g[i] = f[i]
      BY <2>2, <2>3, <2>6
    <3>2. t[i] = s[i] - f[c] + v
      BY <2>1, <2>3, <3>1
    <3> QED BY <2>6, <3>2
  <2>7. QED
    BY <2>4, <2>5, <2>6
<1>6. \A i \in 0 .. n : i \in S
  <2> HIDE DEF S
  <2>1. QED
    BY <1>4, <1>5, IndexInduction
<1>7. t[n] = s[n] - f[c] + v
  BY <1>6
<1>8. QED
  BY <1>7 DEF Sum, s, t

LEMMA SumZero ==
  ASSUME NEW n \in Nat
  PROVE  Sum([i \in 1 .. n |-> 0], n) = 0
<1> DEFINE f == [i \in 1 .. n |-> 0]
<1> DEFINE s == PartialSums(f, n)
<1> DEFINE S == {i \in 0 .. n : s[i] = 0}
<1>1. s[0] = 0 /\ \A i \in 1 .. n : s[i] = s[i - 1] + f[i]
  BY PartialSumStep
<1> HIDE DEF s
<1>2. 0 \in S
  BY <1>1
<1>3. ASSUME NEW i \in 1 .. n, i - 1 \in S
      PROVE  i \in S
  BY <1>1, <1>3
<1>4. \A i \in 0 .. n : i \in S
  <2> HIDE DEF S
  <2>1. QED
    BY <1>2, <1>3, IndexInduction
<1>5. QED
  BY <1>4 DEF Sum, s

\* The sum of sums is the sum of both.
AddsCells(f, g, h, n) ==
  /\ n \in Nat
  /\ f \in [1 .. n -> Int] /\ g \in [1 .. n -> Int] /\ h \in [1 .. n -> Int]
  /\ \A i \in 1 .. n : h[i] = f[i] + g[i]

LEMMA SumPlus ==
  ASSUME NEW n, NEW f, NEW g, NEW h, AddsCells(f, g, h, n)
  PROVE  Sum(h, n) = Sum(f, n) + Sum(g, n)
<1>1. /\ n \in Nat
      /\ f \in [1 .. n -> Int] /\ g \in [1 .. n -> Int] /\ h \in [1 .. n -> Int]
      /\ \A i \in 1 .. n : h[i] = f[i] + g[i]
  BY DEF AddsCells
<1> DEFINE s == PartialSums(f, n)
<1> DEFINE t == PartialSums(g, n)
<1> DEFINE u == PartialSums(h, n)
<1> DEFINE S == {i \in 0 .. n : u[i] = s[i] + t[i]}
<1>2. \A i \in 0 .. n : s[i] \in Int /\ t[i] \in Int /\ u[i] \in Int
  BY <1>1, PartialSumType
<1>3. /\ s[0] = 0 /\ t[0] = 0 /\ u[0] = 0
      /\ \A i \in 1 .. n :
           s[i] = s[i - 1] + f[i] /\ t[i] = t[i - 1] + g[i] /\ u[i] = u[i - 1] + h[i]
  BY <1>1, PartialSumStep
<1>4. \A i \in 1 .. n : f[i] \in Int /\ g[i] \in Int
  BY <1>1
<1> HIDE DEF s, t, u
<1>5. 0 \in S
  BY <1>1, <1>3
<1>6. ASSUME NEW i \in 1 .. n, i - 1 \in S
      PROVE  i \in S
  <2>1. u[i - 1] = s[i - 1] + t[i - 1] /\ i - 1 \in 0 .. n /\ i \in 0 .. n
    BY <1>1, <1>6
  <2>2. s[i - 1] \in Int /\ t[i - 1] \in Int /\ f[i] \in Int /\ g[i] \in Int
    BY <1>2, <1>4, <2>1
  <2>3. /\ s[i] = s[i - 1] + f[i] /\ t[i] = t[i - 1] + g[i]
        /\ u[i] = u[i - 1] + h[i] /\ h[i] = f[i] + g[i]
    BY <1>1, <1>3
  <2>4. u[i] = s[i] + t[i]
    BY <2>1, <2>2, <2>3
  <2>5. QED
    BY <2>1, <2>4
<1>7. \A i \in 0 .. n : i \in S
  <2> HIDE DEF S
  <2>1. QED
    BY <1>1, <1>5, <1>6, IndexInduction
<1>8. QED
  BY <1>1, <1>7 DEF Sum, s, t, u

\* A common factor can be taken out of a sum.
LEMMA SumScaled ==
  ASSUME NEW n \in Nat, NEW f \in [1 .. n -> Nat], NEW k \in Nat
  PROVE  Sum([i \in 1 .. n |-> f[i] * k], n) = Sum(f, n) * k
<1> DEFINE g == [i \in 1 .. n |-> f[i] * k]
<1> DEFINE s == PartialSums(f, n)
<1> DEFINE t == PartialSums(g, n)
<1> DEFINE S == {i \in 0 .. n : t[i] = s[i] * k}
<1>1. \A i \in 0 .. n : s[i] \in Int
  BY PartialSumType
<1>2. /\ s[0] = 0 /\ t[0] = 0
      /\ \A i \in 1 .. n : s[i] = s[i - 1] + f[i] /\ t[i] = t[i - 1] + g[i]
  BY PartialSumStep
<1>3. \A i \in 1 .. n : g[i] = f[i] * k /\ f[i] \in Int
  OBVIOUS
<1> HIDE DEF s, t, g
<1>4. 0 \in S
  BY <1>2
<1>5. ASSUME NEW i \in 1 .. n, i - 1 \in S
      PROVE  i \in S
  <2>1. t[i - 1] = s[i - 1] * k /\ i - 1 \in 0 .. n /\ i \in 0 .. n
    BY <1>5
  <2>2. t[i] = s[i - 1] * k + f[i] * k
    BY <1>2, <1>3, <2>1
  <2>3. s[i] * k = s[i - 1] * k + f[i] * k
    BY <1>1, <1>2, <1>3, <2>1
  <2>4. QED
    BY <2>1, <2>2, <2>3
<1>6. \A i \in 0 .. n : i \in S
  <2> HIDE DEF S
  <2>1. QED
    BY <1>4, <1>5, IndexInduction
<1>7. QED
  BY <1>6 DEF Sum, s, t, g

\* Rounding each term down loses: P times the sum of the quotients is at most the sum.
LEMMA SumOfQuotients ==
  ASSUME NEW n \in Nat, NEW f \in [1 .. n -> Nat], NEW k \in Nat, NEW P \in Nat \ {0}
  PROVE  /\ [i \in 1 .. n |-> (f[i] * k) \div P] \in [1 .. n -> Nat]
         /\ Sum([i \in 1 .. n |-> (f[i] * k) \div P], n) * P <= Sum(f, n) * k
<1> DEFINE g == [i \in 1 .. n |-> (f[i] * k) \div P]
<1> DEFINE s == PartialSums(f, n)
<1> DEFINE t == PartialSums(g, n)
<1> DEFINE S == {i \in 0 .. n : t[i] * P <= s[i] * k}
<1>1. \A i \in 1 .. n : g[i] \in Nat /\ f[i] \in Nat /\ g[i] * P <= f[i] * k
  <2>1. SUFFICES ASSUME NEW i \in 1 .. n
                 PROVE  g[i] \in Nat /\ f[i] \in Nat /\ g[i] * P <= f[i] * k
    OBVIOUS
  <2>2. f[i] \in Nat /\ f[i] * k \in Nat
    BY Products
  <2>3. QED
    BY <2>2, Division
<1>2. g \in [1 .. n -> Nat]
  BY <1>1
<1>3. \A i \in 0 .. n : s[i] \in Int /\ t[i] \in Int
  <2>1. f \in [1 .. n -> Int] /\ g \in [1 .. n -> Int]
    BY <1>2
  <2> HIDE DEF g
  <2>2. QED
    BY <2>1, PartialSumType
<1>4. /\ s[0] = 0 /\ t[0] = 0
      /\ \A i \in 1 .. n : s[i] = s[i - 1] + f[i] /\ t[i] = t[i - 1] + g[i]
  BY PartialSumStep
<1> HIDE DEF s, t, g
<1>5. 0 \in S
  BY <1>4
<1>6. ASSUME NEW i \in 1 .. n, i - 1 \in S
      PROVE  i \in S
  <2>1. t[i - 1] * P <= s[i - 1] * k /\ i - 1 \in 0 .. n /\ i \in 0 .. n
    BY <1>6
  <2>2. /\ t[i - 1] \in Int /\ s[i - 1] \in Int
        /\ g[i] \in Int /\ f[i] \in Int /\ g[i] * P <= f[i] * k
        /\ P \in Int /\ k \in Int
    BY <1>1, <1>3, <2>1
  <2>3. t[i] = t[i - 1] + g[i] /\ s[i] = s[i - 1] + f[i]
    BY <1>4
  <2>4. (t[i - 1] + g[i]) * P <= (s[i - 1] + f[i]) * k
    BY <2>1, <2>2, BoundsAdd, Zenon
  <2>5. t[i] * P <= s[i] * k
    BY <2>3, <2>4
  <2>6. QED
    BY <2>1, <2>5
<1>7. \A i \in 0 .. n : i \in S
  <2> HIDE DEF S
  <2>1. QED
    BY <1>5, <1>6, IndexInduction
<1>8. QED
  BY <1>2, <1>7 DEF Sum, s, t, g

\* One cell of a sum moves.
MovesCell(f, g, c, n) ==
  /\ n \in Nat /\ c \in 1 .. n
  /\ f \in [1 .. n -> Int] /\ g \in [1 .. n -> Int]
  /\ \A i \in (1 .. n) \ {c} : g[i] = f[i]

LEMMA SumMoves ==
  ASSUME NEW n, NEW f, NEW g, NEW c, MovesCell(f, g, c, n)
  PROVE  /\ Sum(g, n) = Sum(f, n) + g[c] - f[c]
         /\ Sum(f, n) \in Int
<1>1. /\ n \in Nat /\ c \in 1 .. n
      /\ f \in [1 .. n -> Int] /\ g \in [1 .. n -> Int]
      /\ \A i \in (1 .. n) \ {c} : g[i] = f[i]
  BY DEF MovesCell
<1> DEFINE v == g[c]
<1>2. v \in Int /\ f[c] \in Int /\ Sum(f, n) \in Int
  BY <1>1, SumType
<1>3. g = [f EXCEPT ![c] = v]
  BY <1>1
<1> HIDE DEF v
<1>4. Sum([f EXCEPT ![c] = v], n) = Sum(f, n) - f[c] + v
  BY <1>1, <1>2, SumUpdate
<1>5. Sum(g, n) = Sum(f, n) + v - f[c]
  BY <1>2, <1>3, <1>4
<1> QED BY <1>2, <1>5 DEF v

-----------------------------------------------------------------------------
(* Sums over a finite set, along a list of its members.                    *)

\* Each member of S is at one index of the list.
Lists(list, k, S) ==
  /\ list \in [1 .. k -> S]
  /\ \A x \in S : \E i \in 1 .. k :
       /\ list[i] = x
       /\ \A j \in 1 .. k : list[j] = x => j = i

LEMMA ListingLists ==
  ASSUME NEW S, IsFiniteSet(S)
  PROVE  Cardinality(S) \in Nat /\ Lists(Listing(S), Cardinality(S), S)
<1> DEFINE k == Cardinality(S)
           list == Listing(S)
<1>1. k \in Nat /\ Bijection(1 .. k, S) # {}
  BY FS_CardinalityType DEF ExistsBijection
<1>2. list \in Bijection(1 .. k, S)
  BY <1>1, Zenon DEF Listing
<1> HIDE DEF k, list
<1>3. /\ list \in [1 .. k -> S]
      /\ \A x \in S : \E i \in 1 .. k : list[i] = x
      /\ \A i, j \in 1 .. k : list[i] = list[j] => i = j
  BY <1>2 DEF Bijection, Injection, Surjection, IsInjective
<1>4. Lists(list, k, S)
  BY <1>3 DEF Lists
<1> QED BY <1>1, <1>4 DEF k, list

LEMMA AlongType ==
  ASSUME NEW S, NEW k \in Nat, NEW list, Lists(list, k, S), NEW f \in [S -> Int]
  PROVE  SumAlong(f, list, k) \in Int
<1>1. [i \in 1 .. k |-> f[list[i]]] \in [1 .. k -> Int]
  BY DEF Lists
<1> QED BY <1>1, SumType DEF SumAlong

LEMMA AlongPlus ==
  ASSUME NEW S, NEW k \in Nat, NEW list, Lists(list, k, S),
         NEW f \in [S -> Int], NEW g \in [S -> Int], NEW h \in [S -> Int],
         \A x \in S : h[x] = f[x] + g[x]
  PROVE  SumAlong(h, list, k) = SumAlong(f, list, k) + SumAlong(g, list, k)
<1> DEFINE a == [i \in 1 .. k |-> f[list[i]]]
           b == [i \in 1 .. k |-> g[list[i]]]
           c == [i \in 1 .. k |-> h[list[i]]]
<1>1. AddsCells(a, b, c, k)
  BY DEF Lists, AddsCells
<1> HIDE DEF a, b, c
<1>2. Sum(c, k) = Sum(a, k) + Sum(b, k)
  BY <1>1, SumPlus
<1> QED BY <1>2 DEF SumAlong, a, b, c

\* One member's part moves by d.
GainsAt(f, g, S, x, d) ==
  /\ f \in [S -> Int] /\ g \in [S -> Int] /\ x \in S /\ d \in Int
  /\ \A y \in S : g[y] = f[y] + (IF y = x THEN d ELSE 0)

LEMMA AlongMoves ==
  ASSUME NEW S, NEW k \in Nat, NEW list, Lists(list, k, S),
         NEW f, NEW g, NEW x, NEW d, GainsAt(f, g, S, x, d)
  PROVE  SumAlong(g, list, k) = SumAlong(f, list, k) + d
<1>1. /\ f \in [S -> Int] /\ g \in [S -> Int] /\ x \in S /\ d \in Int
      /\ \A y \in S : g[y] = f[y] + (IF y = x THEN d ELSE 0)
  BY DEF GainsAt
<1> DEFINE a == [i \in 1 .. k |-> f[list[i]]]
           b == [i \in 1 .. k |-> g[list[i]]]
<1>2. PICK i \in 1 .. k : list[i] = x /\ \A j \in 1 .. k : list[j] = x => j = i
  BY <1>1 DEF Lists
<1>3. a \in [1 .. k -> Int] /\ b \in [1 .. k -> Int]
  BY <1>1 DEF Lists
<1>4. \A j \in (1 .. k) \ {i} : b[j] = a[j]
  <2> SUFFICES ASSUME NEW j \in (1 .. k) \ {i} PROVE b[j] = a[j]
    OBVIOUS
  <2>1. list[j] \in S /\ list[j] # x
    BY <1>2 DEF Lists
  <2>2. g[list[j]] = f[list[j]] + 0 /\ f[list[j]] \in Int
    BY <1>1, <2>1
  <2> QED BY <2>2
<1>5. b[i] = a[i] + d /\ a[i] \in Int
  BY <1>2, <1>1 DEF Lists
<1> HIDE DEF a, b
<1>6. Sum(b, k) = Sum(a, k) + b[i] - a[i] /\ Sum(a, k) \in Int
  <2>1. MovesCell(a, b, i, k)
    BY <1>3, <1>4 DEF MovesCell
  <2> QED BY <2>1, SumMoves
<1>7. Sum(b, k) = Sum(a, k) + d
  BY <1>5, <1>6, <1>1
<1> QED BY <1>7 DEF SumAlong, a, b

\* The parts of m that each member of S owns add up to all of m.
PartsOwnedBy(x, owner, m, n) == [q \in 1 .. n |-> IF owner[q] = x THEN m[q] ELSE 0]

SumsOwned(S, owner, m, n) == [x \in S |-> Sum(PartsOwnedBy(x, owner, m, n), n)]

LEMMA AlongExchange ==
  ASSUME NEW S, NEW k \in Nat, NEW list, Lists(list, k, S),
         NEW n \in Nat, NEW m \in [1 .. n -> Int], NEW owner,
         \A q \in 1 .. n : owner[q] \in S \/ m[q] = 0
  PROVE  SumAlong(SumsOwned(S, owner, m, n), list, k) = Sum(m, n)
<1> DEFINE part(x) == PartialSums(PartsOwnedBy(x, owner, m, n), n)
           upto(j) == [x \in S |-> part(x)[j]]
           s == PartialSums(m, n)
           T == {j \in 0 .. n : SumAlong(upto(j), list, k) = s[j]}
<1>1. /\ s[0] = 0 /\ \A j \in 1 .. n : s[j] = s[j - 1] + m[j]
      /\ \A j \in 0 .. n : s[j] \in Int
  BY PartialSumStep, PartialSumType
<1>2. ASSUME NEW x \in S
      PROVE  /\ part(x)[0] = 0
             /\ \A j \in 1 .. n :
                  part(x)[j] = part(x)[j - 1] + (IF owner[j] = x THEN m[j] ELSE 0)
             /\ \A j \in 0 .. n : part(x)[j] \in Int
  <2> DEFINE r == PartsOwnedBy(x, owner, m, n)
  <2>1. r \in [1 .. n -> Int]
    BY DEF PartsOwnedBy
  <2>2. \A j \in 1 .. n : r[j] = IF owner[j] = x THEN m[j] ELSE 0
    BY DEF PartsOwnedBy
  <2> HIDE DEF r
  <2>3. /\ PartialSums(r, n)[0] = 0
        /\ \A j \in 1 .. n : PartialSums(r, n)[j] = PartialSums(r, n)[j - 1] + r[j]
        /\ \A j \in 0 .. n : PartialSums(r, n)[j] \in Int
    BY <2>1, PartialSumStep, PartialSumType
  <2> QED BY <2>2, <2>3 DEF r
<1> HIDE DEF part, s
<1>3. \A j \in 0 .. n : upto(j) \in [S -> Int]
  BY <1>2
<1>4. 0 \in T
  <2> DEFINE zeros == [i \in 1 .. k |-> 0]
  <2>1. [i \in 1 .. k |-> upto(0)[list[i]]] = zeros
    BY <1>2 DEF Lists
  <2>2. Sum(zeros, k) = 0
    BY SumZero
  <2>3. SumAlong(upto(0), list, k) = 0
    BY <2>1, <2>2 DEF SumAlong
  <2> QED BY <1>1, <2>3
<1>5. ASSUME NEW j \in 1 .. n, j - 1 \in T
      PROVE  j \in T
  <2>1. j - 1 \in 0 .. n /\ j \in 0 .. n /\ m[j] \in Int
    BY <1>5
  <2> DEFINE e == upto(j - 1)
             g == upto(j)
  <2>2. e \in [S -> Int] /\ g \in [S -> Int]
    BY <1>3, <2>1
  <2>3. \A x \in S : g[x] = e[x] + (IF x = owner[j] THEN m[j] ELSE 0)
    BY <1>2
  <2>4. SumAlong(e, list, k) = s[j - 1] /\ s[j] = s[j - 1] + m[j] /\ s[j - 1] \in Int
    BY <1>1, <1>5, <2>1
  <2> HIDE DEF e, g
  <2>5. SumAlong(g, list, k) = SumAlong(e, list, k) + m[j]
    <3>1. CASE owner[j] \in S
      <4>1. GainsAt(e, g, S, owner[j], m[j])
        BY <2>1, <2>2, <2>3, <3>1 DEF GainsAt
      <4> QED BY <4>1, AlongMoves
    <3>2. CASE owner[j] \notin S
      <4>1. m[j] = 0
        BY <3>2
      <4>2. \A x \in S : g[x] = e[x]
        BY <2>2, <2>3, <3>2
      <4>3. g = e
        <5>1. e = [x \in S |-> e[x]] /\ g = [x \in S |-> g[x]]
          BY <2>2
        <5>2. [x \in S |-> e[x]] = [x \in S |-> g[x]]
          BY <4>2, Zenon
        <5> QED BY <5>1, <5>2
      <4>4. SumAlong(e, list, k) \in Int
        BY <2>2, AlongType
      <4> QED BY <4>1, <4>3, <4>4
    <3> QED BY <3>1, <3>2
  <2>6. SumAlong(g, list, k) = s[j]
    BY <2>4, <2>5
  <2> QED BY <2>1, <2>6 DEF g
<1>6. \A j \in 0 .. n : j \in T
  <2> HIDE DEF T
  <2> QED BY <1>4, <1>5, IndexInduction
<1>7. SumAlong(upto(n), list, k) = s[n]
  BY <1>6
<1> QED BY <1>7 DEF SumsOwned, Sum, s, part

-----------------------------------------------------------------------------
(* Decimals.                                                               *)

LEMMA RoundingType ==
  ASSUME NEW n \in Nat
  PROVE  RoundHalfEven(n) \in Nat /\ RoundHalfEven(n) >= n \div PREC
  BY PrecisionAssumption, Division DEF RoundHalfEven

LEMMA RoundingAtMost ==
  ASSUME NEW n \in Nat, NEW m \in Nat, n <= m * PREC
  PROVE  RoundHalfEven(n) <= m
<1> DEFINE q == n \div PREC
           r == n % PREC
<1>1. PREC \in Nat \ {0}
  BY PrecisionAssumption
<1>2. /\ q \in Nat /\ q <= m
      /\ r \in 0 .. PREC - 1 /\ n = q * PREC + r
  BY <1>1, Division, QuotientAtMost
<1>3. q = m => r = 0
  <2> HIDE DEF q, r
  <2>1. q * PREC \in Nat
    BY <1>1, <1>2, Products
  <2>2. QED
    BY <1>1, <1>2, <2>1
<1>4. RoundHalfEven(n)
        = IF 2 * r < PREC \/ (2 * r = PREC /\ q % 2 = 0) THEN q ELSE q + 1
  BY DEF RoundHalfEven
<1> HIDE DEF q, r
<1>5. QED
  BY <1>1, <1>2, <1>3, <1>4

LEMMA QuotientType ==
  ASSUME NEW a \in Nat, NEW b \in Nat \ {0}
  PROVE  DecQuo(a, b) \in Nat
<1>1. a * PREC * PREC \in Nat
  BY PrecisionAssumption, Products
<1>2. (a * PREC * PREC) \div b \in Nat
  BY <1>1, Division
<1>3. QED
  BY <1>2, RoundingType DEF DecQuo

LEMMA ProductType ==
  ASSUME NEW a \in Nat, NEW b \in Nat
  PROVE  DecMul(a, b) \in Nat
  BY Products, RoundingType DEF DecMul

LEMMA AmountToShareType ==
  ASSUME NEW amount \in Nat, NEW v \in Nat \ {0}
  PROVE  AmountToShare(amount, v) \in Nat
  BY PrecisionAssumption, Products, QuotientType DEF AmountToShare

\* A ratio of at least one is at least one as a decimal, whatever the rounding.
LEMMA RatioAtLeastOne ==
  ASSUME NEW a \in Nat, NEW b \in Nat \ {0}, b <= a
  PROVE  DecQuo(a, b) \in Nat /\ DecQuo(a, b) >= PREC
<1> DEFINE n == a * PREC * PREC
<1> DEFINE q == n \div b
<1>1. PREC * PREC \in Nat /\ n \in Nat /\ n = (PREC * PREC) * a
  BY PrecisionAssumption, Products
<1>2. (PREC * PREC) * b <= (PREC * PREC) * a
  BY <1>1
<1>3. q >= PREC * PREC /\ q \in Nat
  <2> HIDE DEF n
  <2>1. QED
    BY <1>1, <1>2, QuotientBound, Division
<1>4. q \div PREC >= PREC
  <2> HIDE DEF q
  <2>1. QED
    BY <1>3, QuotientBound, PrecisionAssumption
<1>5. DecQuo(a, b) = RoundHalfEven(q)
  BY DEF DecQuo
<1>6. QED
  <2> HIDE DEF q
  <2>1. RoundHalfEven(q) \in Nat /\ RoundHalfEven(q) >= q \div PREC
    BY <1>3, RoundingType
  <2>2. q \div PREC \in Nat
    BY <1>3, Division, PrecisionAssumption
  <2>3. QED
    BY <1>4, <1>5, <2>1, <2>2, PrecisionAssumption

\* A decimal multiplied by one of at least one does not shrink.
LEMMA GrowingProduct ==
  ASSUME NEW v \in Nat, NEW m \in Nat, PREC <= m
  PROVE  DecMul(v, m) \in Nat /\ DecMul(v, m) >= v
<1>1. v * m \in Nat /\ v * PREC <= v * m
  BY PrecisionAssumption, Products
<1>2. (v * m) \div PREC >= v /\ (v * m) \div PREC \in Nat
  BY <1>1, QuotientBound, Division, PrecisionAssumption
<1>3. RoundHalfEven(v * m) \in Nat /\ RoundHalfEven(v * m) >= (v * m) \div PREC
  BY <1>1, RoundingType
<1>4. QED
  BY <1>2, <1>3 DEF DecMul

-----------------------------------------------------------------------------
(* Entries: what each operation of TrustLedger does to the two amounts the *)
(* ledger equation adds up, and that it yields an entry.                   *)

LEMMA NoEntryType == NoEntry \in TrustDepositEntries
  BY DEF NoEntry, TrustDepositEntries

LEMMA IncreaseEntry ==
  ASSUME NEW e \in TrustDepositEntries, NEW augend \in Nat, NEW v \in Nat \ {0}
  PROVE  /\ Missing(e, augend) \in Nat
         /\ Increased(e, augend, v) \in TrustDepositEntries
         /\ Increased(e, augend, v).deposit = e.deposit + Missing(e, augend)
         /\ Increased(e, augend, v).slashed = e.slashed
         /\ Increased(e, augend, v).claimable = e.claimable - (augend - Missing(e, augend))
<1> DEFINE deposit == e.deposit + Missing(e, augend)
           share == e.share + AmountToShare(Missing(e, augend), v)
           claimable == e.claimable - Smaller(augend, e.claimable)
           f == [e EXCEPT !.deposit = deposit, !.share = share, !.claimable = claimable]
<1>1. /\ Missing(e, augend) \in Nat
      /\ deposit \in Nat /\ share \in Int /\ claimable \in Nat
      /\ claimable = e.claimable - (augend - Missing(e, augend))
  <2>1. /\ Missing(e, augend) \in Nat /\ claimable \in Nat /\ deposit \in Nat /\ e.share \in Int
        /\ claimable = e.claimable - (augend - Missing(e, augend))
    BY DEF Missing, Smaller, TrustDepositEntries
  <2>2. AmountToShare(Missing(e, augend), v) \in Nat
    BY <2>1, AmountToShareType
  <2> QED BY <2>1, <2>2
<1>2. Increased(e, augend, v) = f
  BY DEF Increased
<1> HIDE DEF deposit, share, claimable
<1>3. /\ f \in TrustDepositEntries
      /\ f.deposit = deposit /\ f.slashed = e.slashed /\ f.claimable = claimable
  BY <1>1 DEF TrustDepositEntries
<1> QED BY <1>1, <1>2, <1>3 DEF deposit, share, claimable

LEMMA DecreaseEntry ==
  ASSUME NEW e \in TrustDepositEntries, NEW amount \in Nat
  PROVE  /\ Decreased(e, amount) \in TrustDepositEntries
         /\ Decreased(e, amount).deposit = e.deposit
         /\ Decreased(e, amount).slashed = e.slashed
         /\ Decreased(e, amount).claimable = e.claimable + amount
  BY DEF Decreased, TrustDepositEntries

LEMMA OnBehalfEntry ==
  ASSUME NEW e \in TrustDepositEntries, NEW amount \in Nat, NEW v \in Nat \ {0}
  PROVE  /\ IncreasedOnBehalf(e, amount, v) \in TrustDepositEntries
         /\ IncreasedOnBehalf(e, amount, v).deposit = e.deposit + amount
         /\ IncreasedOnBehalf(e, amount, v).slashed = e.slashed
         /\ IncreasedOnBehalf(e, amount, v).claimable = e.claimable
<1> DEFINE deposit == e.deposit + amount
           share == e.share + AmountToShare(amount, v)
           f == [e EXCEPT !.deposit = deposit, !.share = share]
<1>1. deposit \in Nat /\ share \in Int
  BY AmountToShareType DEF TrustDepositEntries
<1>2. IncreasedOnBehalf(e, amount, v) = f
  BY DEF IncreasedOnBehalf
<1> HIDE DEF deposit, share
<1>3. /\ f \in TrustDepositEntries
      /\ f.deposit = deposit /\ f.slashed = e.slashed /\ f.claimable = e.claimable
  BY <1>1 DEF TrustDepositEntries
<1> QED BY <1>1, <1>2, <1>3 DEF deposit, share

LEMMA BurnEntry ==
  ASSUME NEW e \in TrustDepositEntries, NEW amount \in Nat, NEW v \in Nat \ {0},
         CanBurn(e, amount)
  PROVE  /\ Burned(e, amount, v) \in TrustDepositEntries
         /\ Burned(e, amount, v).deposit = e.deposit - amount
         /\ Burned(e, amount, v).slashed = e.slashed
         /\ Burned(e, amount, v).claimable = e.claimable
<1> DEFINE deposit == e.deposit - amount
           left == e.share - AmountToShare(amount, v)
           share == IF left < 0 THEN 0 ELSE left
           f == [e EXCEPT !.deposit = deposit, !.share = share]
<1>1. deposit \in Nat /\ share \in Int
  BY AmountToShareType DEF CanBurn, TrustDepositEntries
<1>2. Burned(e, amount, v) = f
  BY DEF Burned
<1> HIDE DEF deposit, left, share
<1>3. /\ f \in TrustDepositEntries
      /\ f.deposit = deposit /\ f.slashed = e.slashed /\ f.claimable = e.claimable
  BY <1>1 DEF TrustDepositEntries
<1> QED BY <1>1, <1>2, <1>3 DEF deposit, left, share

LEMMA ReclaimEntry ==
  ASSUME NEW e \in TrustDepositEntries, NEW v \in Nat \ {0}
  PROVE  /\ Reclaimed(e, v) \in TrustDepositEntries
         /\ Reclaimed(e, v).deposit = e.deposit
         /\ Reclaimed(e, v).slashed = e.slashed
         /\ Reclaimed(e, v).claimable = 0
<1>1. \A s \in Int :
        LET x == [e EXCEPT !.claimable = 0, !.share = s]
        IN  /\ x \in TrustDepositEntries /\ x.deposit = e.deposit
            /\ x.slashed = e.slashed /\ x.claimable = 0
  BY DEF TrustDepositEntries
<1>2. e.share - AmountToShare(e.claimable, v) \in Int
  BY AmountToShareType DEF TrustDepositEntries
<1>3. QED
  BY <1>1, <1>2, Zenon DEF Reclaimed

LEMMA SlashEntry ==
  ASSUME NEW e \in TrustDepositEntries, NEW amount \in Nat, NEW v \in Nat \ {0},
         CanSlash(e, amount)
  PROVE  /\ Slashed(e, amount, v) \in TrustDepositEntries
         /\ Slashed(e, amount, v).deposit = e.deposit - amount
         /\ Slashed(e, amount, v).slashed = e.slashed + amount
         /\ Slashed(e, amount, v).claimable = e.claimable
<1> DEFINE deposit == e.deposit - amount
           share == e.share - AmountToShare(amount, v)
           slashed == e.slashed + amount
           f == [e EXCEPT !.deposit = deposit, !.share = share, !.slashed = slashed]
<1>1. deposit \in Nat /\ share \in Int /\ slashed \in Nat
  BY AmountToShareType DEF CanSlash, TrustDepositEntries
<1>2. Slashed(e, amount, v) = f
  BY DEF Slashed
<1> HIDE DEF deposit, share, slashed
<1>3. /\ f \in TrustDepositEntries
      /\ f.deposit = deposit /\ f.slashed = slashed /\ f.claimable = e.claimable
  BY <1>1 DEF TrustDepositEntries
<1> QED BY <1>1, <1>2, <1>3 DEF deposit, share, slashed

LEMMA RepayEntry ==
  ASSUME NEW e \in TrustDepositEntries, NEW v \in Nat \ {0}
  PROVE  /\ Repaid(e, v) \in TrustDepositEntries
         /\ Repaid(e, v).deposit = e.deposit + e.slashed
         /\ Repaid(e, v).slashed = 0
         /\ Repaid(e, v).claimable = e.claimable
<1> DEFINE deposit == e.deposit + e.slashed
           share == e.share + AmountToShare(e.slashed, v)
           repaid == e.repaid + e.slashed
           f == [e EXCEPT !.deposit = deposit, !.share = share, !.slashed = 0, !.repaid = repaid]
<1>1. deposit \in Nat /\ share \in Int /\ repaid \in Nat
  BY AmountToShareType DEF TrustDepositEntries
<1>2. Repaid(e, v) = f
  BY DEF Repaid
<1> HIDE DEF deposit, share, repaid
<1>3. /\ f \in TrustDepositEntries
      /\ f.deposit = deposit /\ f.slashed = 0 /\ f.claimable = e.claimable
  BY <1>1 DEF TrustDepositEntries
<1> QED BY <1>1, <1>2, <1>3 DEF deposit, share, repaid

LEMMA ExportEntry ==
  ASSUME NEW e \in TrustDepositEntries
  PROVE  /\ Exported(e) \in TrustDepositEntries
         /\ Exported(e).deposit = e.deposit
         /\ Exported(e).slashed = 0
         /\ Exported(e).claimable = e.claimable
  BY DEF Exported, TrustDepositEntries
=============================================================================
