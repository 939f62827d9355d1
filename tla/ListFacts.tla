----------------------------- MODULE ListFacts -----------------------------
(***************************************************************************)
(* What the proofs of several components need about numbers and lists.     *)
(* Induction over the natural numbers is stated about a set of numbers,    *)
(* where the library's theorems are about an operator, which the provers   *)
(* cannot instantiate; minimal elements come from WellFoundedInduction.    *)
(* Sorting is that of Sorting.                                             *)
(***************************************************************************)
EXTENDS Sorting, SequencesExt, FiniteSetTheorems, SequenceTheorems, WellFoundedInduction, TLAPS

\* A set of numbers that is not empty has a least element.
LEMMA NatLeast ==
  ASSUME NEW T, T \subseteq Nat, T # {}
  PROVE  \E x \in T : \A y \in T : x <= y
  <1> DEFINE R == {ss \in Nat \X Nat : ss[1] < ss[2]}
  <1>1. IsWellFoundedOn(R, Nat)
    BY NatLessThanWellFounded DEF OpToRel
  <1>2. PICK x \in T : \A y \in T : ~(<<y, x>> \in R)
    <2> HIDE DEF R
    <2> QED BY <1>1, WFMin
  <1>3. ASSUME NEW y \in T PROVE x <= y
    <2>1. x \in Nat /\ y \in Nat /\ <<y, x>> \in Nat \X Nat
      OBVIOUS
    <2>2. <<y, x>>[1] = y /\ <<y, x>>[2] = x
      OBVIOUS
    <2>3. ~(y < x)
      BY <1>2, <2>1, <2>2
    <2> QED BY <2>1, <2>3
  <1> QED BY <1>3

\* What holds of 0, and of n + 1 when it holds of n, holds of every number.
LEMMA NatInduct ==
  ASSUME NEW T, 0 \in T, \A n \in Nat : n \in T => n + 1 \in T
  PROVE  Nat \subseteq T
  <1> SUFFICES ASSUME ~(Nat \subseteq T) PROVE FALSE
    OBVIOUS
  <1>1. PICK x \in Nat \ T : \A y \in Nat \ T : x <= y
    BY NatLeast
  <1>2. x # 0 /\ x - 1 \in Nat /\ x - 1 \in T
    BY <1>1
  <1> QED BY <1>1, <1>2

\* Partial sums exist: the recursion of a function that adds up a is sound.
LEMMA SumExists ==
  ASSUME NEW a
  PROVE  \E F : F = [n \in Nat |-> IF n = 0 THEN 0 ELSE F[n - 1] + a[n]]
  <1> DEFINE D(g, k) == IF k = 0 THEN 0 ELSE g[k - 1] + a[k]
             Upto(n, g) == g = [k \in 0..n |-> D(g, k)]
             T == {n \in Nat : \E g : Upto(n, g)}
  <1>1. 0 \in T
    <2>1. Upto(0, [k \in 0..0 |-> 0])
      OBVIOUS
    <2> QED BY <2>1
  <1>2. ASSUME NEW n \in Nat, n \in T PROVE n + 1 \in T
    <2>1. PICK g : Upto(n, g)
      BY <1>2
    <2> DEFINE h == [k \in 0..(n + 1) |-> IF k = n + 1 THEN D(g, n + 1) ELSE g[k]]
    <2>2. \A k \in 0..(n + 1) : h[k] = D(h, k)
      <3> TAKE k \in 0..(n + 1)
      <3>1. CASE k = n + 1
        BY <3>1
      <3>2. CASE k # n + 1
        <4>1. k \in 0..n /\ h[k] = g[k] /\ g[k] = D(g, k)
          BY <2>1, <3>2
        <4>2. k # 0 => h[k - 1] = g[k - 1]
          BY <3>2
        <4> QED BY <4>1, <4>2
      <3> QED BY <3>1, <3>2
    <2>3. Upto(n + 1, h)
      <3> HIDE DEF D
      <3>1. h = [k \in 0..(n + 1) |-> h[k]]
        OBVIOUS
      <3> QED BY <2>2, <3>1
    <2>4. \E x : Upto(n + 1, x)
      <3> HIDE DEF Upto, h
      <3> QED BY <2>3
    <2> HIDE DEF Upto
    <2> QED BY <2>4
  <1>3. Nat \subseteq T
    <2> HIDE DEF T
    <2> QED BY <1>1, <1>2, NatInduct
  <1> DEFINE u(n) == CHOOSE g : Upto(n, g)
  <1>4. \A n \in Nat : Upto(n, u(n))
    BY <1>3
  <1>5. ASSUME NEW n \in Nat, NEW g, NEW h, Upto(n, g), Upto(n + 1, h)
        PROVE  \A k \in 0..n : g[k] = h[k]
    <2> DEFINE S == {k \in Nat : k \in 0..n => g[k] = h[k]}
    <2>1. (\A k \in 0..n : g[k] = D(g, k)) /\ (\A k \in 0..(n + 1) : h[k] = D(h, k))
      BY <1>5
    <2>2. 0 \in S
      BY <2>1
    <2>3. \A k \in Nat : k \in S => k + 1 \in S
      BY <2>1
    <2>4. Nat \subseteq S
      <3> HIDE DEF S
      <3> QED BY <2>2, <2>3, NatInduct
    <2>5. ASSUME NEW k \in 0..n PROVE g[k] = h[k]
      <3>1. k \in Nat /\ k \in S
        BY <2>4
      <3> QED BY <3>1
    <2> QED BY <2>5
  <1> DEFINE F == [n \in Nat |-> u(n)[n]]
  <1>6. ASSUME NEW n \in Nat PROVE F[n] = D(F, n)
    <2>1. F[n] = u(n)[n]
      OBVIOUS
    <2>2. Upto(n, u(n)) /\ n \in 0..n
      BY <1>4
    <2>3. u(n)[n] = D(u(n), n)
      <3> HIDE DEF u, D
      <3> QED BY <2>2
    <2>4. CASE n = 0
      BY <2>1, <2>3, <2>4
    <2>5. CASE n # 0
      <3>1. n - 1 \in Nat /\ n - 1 + 1 = n /\ n - 1 \in 0..(n - 1)
        BY <2>5
      <3>2. Upto(n - 1, u(n - 1)) /\ Upto(n, u(n))
        BY <3>1, <1>4
      <3>3. u(n - 1)[n - 1] = u(n)[n - 1]
        <4> HIDE DEF u, Upto
        <4> QED BY <3>1, <3>2, <1>5
      <3>4. F[n - 1] = u(n - 1)[n - 1]
        BY <3>1
      <3> HIDE DEF u, F
      <3> QED BY <2>1, <2>3, <2>5, <3>3, <3>4
    <2> QED BY <2>4, <2>5
  <1>7. F = [n \in Nat |-> D(F, n)]
    <2>1. F = [n \in Nat |-> F[n]]
      OBVIOUS
    <2> HIDE DEF F, D
    <2> QED BY <1>6, <2>1
  <1> HIDE DEF F
  <1> QED BY <1>7

\* A function on the first numbers is a sequence.
LEMMA FunctionIsSeq ==
  ASSUME NEW T, NEW n \in Nat, NEW f \in [1..n -> T]
  PROVE  f \in Seq(T) /\ Len(f) = n /\ DOMAIN f = 1..n
  OBVIOUS

----------------------------------------------------------------------------
(* Sorting. *)

StrictOrder(S, R) ==
  /\ \A x \in S : <<x, x>> \notin R
  /\ \A x, y, z \in S : <<x, y>> \in R /\ <<y, z>> \in R => <<x, z>> \in R
  /\ \A x, y \in S : x # y => <<x, y>> \in R \/ <<y, x>> \in R

\* Every element is in the sorted sequence, once, and those before it there
\* are those before it in the order.
LEMMA SortedByRank ==
  ASSUME NEW S, IsFiniteSet(S), NEW R, StrictOrder(S, R)
  PROVE  LET n == Cardinality(S)
             s == SortedBy(S, R)
         IN  /\ n \in Nat /\ s \in [1..n -> S]
             /\ \A x \in S : \E k \in 1..n : s[k] = x
             /\ \A j, k \in 1..n : j < k => s[j] # s[k] /\ <<s[j], s[k]>> \in R
  <1> DEFINE n == Cardinality(S)
             B(x) == {y \in S : <<y, x>> \in R}
             r == [x \in S |-> Cardinality(B(x))]
             s == SortedBy(S, R)
  <1>1. n \in Nat
    BY FS_CardinalityType
  <1>2. ASSUME NEW x \in S PROVE IsFiniteSet(B(x)) /\ r[x] \in 0..(n - 1)
    <2>1. B(x) \in SUBSET S /\ x \notin B(x)
      BY DEF StrictOrder
    <2>2. IsFiniteSet(B(x)) /\ Cardinality(B(x)) <= n /\ Cardinality(B(x)) # n
      <3> HIDE DEF B
      <3> QED BY <2>1, FS_Subset
    <2>3. Cardinality(B(x)) \in Nat /\ r[x] = Cardinality(B(x))
      BY <2>2, FS_CardinalityType
    <2> HIDE DEF r, B
    <2> QED BY <1>1, <2>2, <2>3
  <1>r. \A x \in S : r[x] \in 0..(n - 1) /\ r[x] \in Int
    <2> HIDE DEF r, B
    <2> QED BY <1>1, <1>2
  <1>3. ASSUME NEW x \in S, NEW y \in S, <<x, y>> \in R PROVE r[x] < r[y]
    <2>1. B(x) \in SUBSET B(y) /\ x \in B(y) /\ x \notin B(x)
      BY <1>3 DEF StrictOrder
    <2>2. IsFiniteSet(B(y)) /\ r[x] = Cardinality(B(x)) /\ r[y] = Cardinality(B(y))
      BY <1>2
    <2>3. Cardinality(B(x)) <= Cardinality(B(y)) /\ Cardinality(B(x)) # Cardinality(B(y))
      <3> HIDE DEF B
      <3> QED BY <2>1, <2>2, FS_Subset
    <2>4. r[x] \in Int /\ r[y] \in Int
      BY ONLY <1>r
    <2> HIDE DEF r, B
    <2> QED BY <2>2, <2>3, <2>4
  <1>4. \A x, y \in S : r[x] = r[y] => x = y
    <2> SUFFICES ASSUME NEW x \in S, NEW y \in S, x # y PROVE r[x] # r[y]
      OBVIOUS
    <2>1. r[x] < r[y] \/ r[y] < r[x]
      BY <1>3 DEF StrictOrder
    <2>2. r[x] \in Int /\ r[y] \in Int
      BY ONLY <1>r
    <2> HIDE DEF r
    <2> QED BY <2>1, <2>2
  <1>5. \A k \in 0..(n - 1) : \E x \in S : r[x] = k
    <2>1. r \in [S -> 0..(n - 1)]
      BY <1>2
    <2>2. r \in Injection(S, 0..(n - 1))
      <3> HIDE DEF r
      <3> QED BY <1>4, <2>1 DEF Injection, IsInjective
    <2>3. IsFiniteSet(0..(n - 1)) /\ Cardinality(0..(n - 1)) = n
      <3>1. 0 \in Int /\ n - 1 \in Int
        BY <1>1
      <3>2. Cardinality(0..(n - 1)) = IF 0 > n - 1 THEN 0 ELSE n - 1 - 0 + 1
        BY <3>1, FS_Interval
      <3> HIDE DEF n
      <3> QED BY <1>1, <3>1, <3>2, FS_Interval
    <2>4. r \in Surjection(S, 0..(n - 1))
      <3> HIDE DEF r
      <3> QED BY <2>2, <2>3, FS_Injection
    <2> HIDE DEF r
    <2> QED BY <2>4 DEF Surjection
  <1>6. ASSUME NEW k \in 1..n PROVE s[k] \in S /\ r[s[k]] = k - 1
    <2>1. s[k] = CHOOSE x \in S : Cardinality(B(x)) = k - 1
      BY DEF SortedBy
    <2>2. \E x \in S : Cardinality(B(x)) = k - 1
      <3>1. k - 1 \in 0..(n - 1)
        BY <1>1
      <3>2. PICK x \in S : r[x] = k - 1
        BY <1>5, <3>1
      <3> QED BY <3>2
    <2>3. s[k] \in S /\ Cardinality(B(s[k])) = k - 1
      <3> HIDE DEF B, s
      <3> QED BY <2>1, <2>2
    <2> HIDE DEF s
    <2> QED BY <2>3
  <1>7. s \in [1..n -> S]
    <2> DEFINE E(k) == CHOOSE x \in S : Cardinality(B(x)) = k - 1
    <2>0. s = [k \in 1..n |-> E(k)]
      BY DEF SortedBy
    <2>1. s = [k \in 1..n |-> s[k]]
      <3> HIDE DEF E, s, n
      <3> QED BY <2>0
    <2> HIDE DEF s, n
    <2> QED BY <1>6, <2>1
  <1>8. ASSUME NEW x \in S PROVE \E k \in 1..n : s[k] = x
    <2> HIDE DEF r, n, s, B
    <2>0. PICK v \in 0..(n - 1) : v = r[x]
      BY <1>r
    <2> DEFINE k == v + 1
    <2>1. k \in 1..n /\ k - 1 = r[x]
      BY <1>1, <2>0
    <2> HIDE DEF k
    <2>2. s[k] \in S /\ r[s[k]] = r[x]
      BY <1>6, <2>1
    <2> QED BY <1>4, <2>1, <2>2
  <1>9. ASSUME NEW j \in 1..n, NEW k \in 1..n, j < k
        PROVE  s[j] # s[k] /\ <<s[j], s[k]>> \in R
    <2> HIDE DEF r, n, s
    <2>1. r[s[j]] < r[s[k]] /\ s[j] \in S /\ s[k] \in S /\ ~(r[s[k]] < r[s[j]])
      BY <1>1, <1>6, <1>9
    <2>2. s[j] # s[k]
      BY <1>1, <1>6, <1>9
    <2> QED BY <1>3, <2>1, <2>2 DEF StrictOrder
  <1> HIDE DEF n, s
  <1>10. /\ n \in Nat /\ s \in [1..n -> S]
         /\ \A x \in S : \E k \in 1..n : s[k] = x
         /\ \A j, k \in 1..n : j < k => s[j] # s[k] /\ <<s[j], s[k]>> \in R
    BY <1>1, <1>7, <1>8, <1>9
  <1> QED BY <1>10 DEF n, s

\* A finite set of numbers, sorted.
LEMMA AscendingSorts ==
  ASSUME NEW S, S \subseteq Int, IsFiniteSet(S)
  PROVE  LET n == Cardinality(S)
             s == Ascending(S)
         IN  /\ n \in Nat /\ s \in [1..n -> S]
             /\ \A x \in S : \E k \in 1..n : s[k] = x
             /\ \A j, k \in 1..n : j < k => s[j] < s[k]
  <1> DEFINE R == {p \in S \X S : p[1] < p[2]}
             n == Cardinality(S)
             s == SortedBy(S, R)
  <1>1. \A x, y \in S : <<x, y>> \in R <=> x < y
    OBVIOUS
  <1>2. StrictOrder(S, R)
    <2> HIDE DEF R
    <2> QED BY <1>1 DEF StrictOrder
  <1>3. Ascending(S) = s
    BY DEF Ascending
  <1> HIDE DEF R
  <1>4. /\ n \in Nat /\ s \in [1..n -> S]
        /\ \A x \in S : \E k \in 1..n : s[k] = x
        /\ \A j, k \in 1..n : j < k => s[j] # s[k] /\ <<s[j], s[k]>> \in R
    BY <1>2, SortedByRank
  <1>5. \A j, k \in 1..n : j < k => s[j] < s[k]
    <2> HIDE DEF s, n
    <2> QED BY <1>1, <1>4
  <1> HIDE DEF s, n
  <1>6. /\ n \in Nat /\ s \in [1..n -> S]
        /\ \A x \in S : \E k \in 1..n : s[k] = x
        /\ \A j, k \in 1..n : j < k => s[j] < s[k]
    BY <1>4, <1>5
  <1> QED BY <1>3, <1>6 DEF n

\* A list of all of S in ascending order is the sorted S.
LEMMA AscendingIsOne ==
  ASSUME NEW S, S \subseteq Int, NEW n \in Nat, NEW e \in [1..n -> S],
         \A x \in S : \E k \in 1..n : e[k] = x,
         \A j, k \in 1..n : j < k => e[j] < e[k]
  PROVE  IsFiniteSet(S) /\ Cardinality(S) = n /\ Ascending(S) = e
  <1>1. e \in Injection(1..n, S) /\ e \in Surjection(1..n, S)
    <2>1. ASSUME NEW j \in 1..n, NEW k \in 1..n, j # k PROVE e[j] # e[k]
      <3>1. e[j] \in S /\ e[k] \in S
        OBVIOUS
      <3>2. e[j] \in Int /\ e[k] \in Int
        BY <3>1
      <3>3. j < k \/ k < j
        BY <2>1
      <3>4. e[j] < e[k] \/ e[k] < e[j]
        BY <3>3
      <3> QED BY <3>2, <3>4
    <2> QED BY <2>1 DEF Injection, IsInjective, Surjection
  <1>2. IsFiniteSet(1..n) /\ Cardinality(1..n) = n
    <2>1. Cardinality(1..n) = IF 1 > n THEN 0 ELSE n - 1 + 1
      BY FS_Interval
    <2> QED BY <2>1, FS_Interval
  <1>3. IsFiniteSet(S) /\ Cardinality(S) = n
    BY <1>1, <1>2, FS_Surjection
  <1> DEFINE a == Ascending(S)
  <1>4. /\ a \in [1..n -> S]
        /\ \A x \in S : \E k \in 1..n : a[k] = x
        /\ \A j, k \in 1..n : j < k => a[j] < a[k]
    BY <1>3, AscendingSorts
  <1> HIDE DEF a
  <1>5. \A k \in 1..n : a[k] = e[k]
    <2> DEFINE T == {k \in 1..n : a[k] # e[k]}
    <2> SUFFICES ASSUME T # {} PROVE FALSE
      OBVIOUS
    <2>1. PICK k \in T : \A j \in T : k <= j
      <3>1. T \subseteq Nat
        OBVIOUS
      <3> HIDE DEF T
      <3> QED BY <3>1, NatLeast
    <2>2. k \in 1..n /\ a[k] # e[k] /\ a[k] \in S /\ e[k] \in S /\ a[k] \in Int /\ e[k] \in Int
      BY <1>4
    <2>3. \A j \in 1..n : j < k => a[j] = e[j]
      BY <2>1
    <2> HIDE DEF T
    <2>4. CASE a[k] < e[k]
      <3>1. PICK j \in 1..n : e[j] = a[k]
        BY <2>2
      <3>2. ~(k < j) /\ j # k
        BY <2>2, <2>4, <3>1
      <3>3. j < k
        BY <2>2, <3>2
      <3>4. a[j] = e[j] /\ a[j] < a[k]
        BY <1>4, <2>2, <2>3, <3>3
      <3> QED BY <2>2, <3>1, <3>4
    <2>5. CASE e[k] < a[k]
      <3>1. PICK j \in 1..n : a[j] = e[k]
        BY <1>4, <2>2
      <3>2. ~(k < j) /\ j # k
        BY <1>4, <2>2, <2>5, <3>1
      <3>3. j < k
        BY <2>2, <3>2
      <3>4. a[j] = e[j] /\ e[j] < e[k]
        BY <2>2, <2>3, <3>3
      <3> QED BY <2>2, <3>1, <3>4
    <2> QED BY <2>2, <2>4, <2>5
  <1>6. a = e
    BY <1>4, <1>5
  <1> QED BY <1>3, <1>6 DEF a

\* What is picked from a sequence stands in it, in the same order.
LEMMA PickKeeps ==
  ASSUME NEW T, NEW s \in Seq(T), NEW I, I \subseteq DOMAIN s
  PROVE  LET n == Cardinality(I)
             order == Ascending(I)
         IN  /\ n \in Nat /\ order \in [1..n -> I]
             /\ \A i \in I : \E k \in 1..n : order[k] = i
             /\ \A j, k \in 1..n : j < k => order[j] < order[k]
             /\ Pick(s, I) \in Seq(T) /\ Len(Pick(s, I)) = n /\ DOMAIN Pick(s, I) = 1..n
             /\ \A k \in 1..n : Pick(s, I)[k] = s[order[k]]
  <1> DEFINE n == Cardinality(I)
             order == Ascending(I)
             p == [k \in 1..n |-> s[order[k]]]
  <1>1. IsFiniteSet(I) /\ I \subseteq Int
    <2>1. IsFiniteSet(1..Len(s)) /\ DOMAIN s = 1..Len(s) /\ Len(s) \in Nat
      BY FS_Interval
    <2> QED BY <2>1, FS_Subset
  <1>2. /\ n \in Nat /\ order \in [1..n -> I]
        /\ \A i \in I : \E k \in 1..n : order[k] = i
        /\ \A j, k \in 1..n : j < k => order[j] < order[k]
    BY <1>1, AscendingSorts
  <1>3. Pick(s, I) = p
    <2>1. DOMAIN order = 1..n
      <3> HIDE DEF order, n
      <3> QED BY <1>2
    <2> HIDE DEF n
    <2> QED BY <2>1 DEF Pick
  <1>4. p \in [1..n -> T]
    <2> HIDE DEF order, n
    <2> QED BY <1>2
  <1>5. p \in Seq(T) /\ Len(p) = n /\ DOMAIN p = 1..n
    <2> HIDE DEF p, n
    <2> QED BY <1>2, <1>4, FunctionIsSeq
  <1>6. \A k \in 1..n : p[k] = s[order[k]]
    <2> HIDE DEF order, n
    <2> QED OBVIOUS
  <1> HIDE DEF p, n, order
  <1>7. /\ Pick(s, I) \in Seq(T) /\ Len(Pick(s, I)) = n /\ DOMAIN Pick(s, I) = 1..n
        /\ \A k \in 1..n : Pick(s, I)[k] = s[order[k]]
    BY <1>3, <1>5, <1>6
  <1> QED BY <1>2, <1>7 DEF n, order

\* Concatenation, place by place.
LEMMA Appended ==
  ASSUME NEW T, NEW s \in Seq(T), NEW t \in Seq(T)
  PROVE  /\ s \o t \in Seq(T) /\ Len(s \o t) = Len(s) + Len(t)
         /\ Len(s) \in Nat /\ Len(t) \in Nat
         /\ DOMAIN s = 1..Len(s) /\ DOMAIN t = 1..Len(t)
         /\ DOMAIN (s \o t) = 1..(Len(s) + Len(t))
         /\ \A k \in 1..Len(s) : (s \o t)[k] = s[k]
         /\ \A k \in 1..Len(t) : (s \o t)[Len(s) + k] = t[k]
  OBVIOUS

\* The places of s whose elements are in W.
Among(s, W) == {k \in DOMAIN s : s[k] \in W}

\* Two lists, filtered one after the other, are their concatenation, filtered.
LEMMA PickAppend ==
  ASSUME NEW T, NEW s \in Seq(T), NEW t \in Seq(T), NEW W
  PROVE  Pick(s \o t, Among(s \o t, W)) = Pick(s, Among(s, W)) \o Pick(t, Among(t, W))
  <1> DEFINE st == s \o t
             I == Among(s, W)
             J == Among(t, W)
             K == Among(st, W)
             m == Cardinality(I)
             n == Cardinality(J)
             a == Ascending(I)
             b == Ascending(J)
             e == [k \in 1..(m + n) |-> IF k <= m THEN a[k] ELSE Len(s) + b[k - m]]
  <1>1. /\ st \in Seq(T) /\ Len(st) = Len(s) + Len(t)
        /\ Len(s) \in Nat /\ Len(t) \in Nat
        /\ DOMAIN s = 1..Len(s) /\ DOMAIN t = 1..Len(t) /\ DOMAIN st = 1..(Len(s) + Len(t))
        /\ \A k \in 1..Len(s) : st[k] = s[k]
        /\ \A k \in 1..Len(t) : st[Len(s) + k] = t[k]
    OBVIOUS
  <1>2. I \subseteq DOMAIN s /\ J \subseteq DOMAIN t /\ K \subseteq DOMAIN st
    BY DEF Among
  <1> HIDE DEF st
  <1>3. /\ m \in Nat /\ a \in [1..m -> I]
        /\ \A i \in I : \E k \in 1..m : a[k] = i
        /\ \A j, k \in 1..m : j < k => a[j] < a[k]
        /\ Pick(s, I) \in Seq(T) /\ Len(Pick(s, I)) = m
        /\ \A k \in 1..m : Pick(s, I)[k] = s[a[k]]
    <2> HIDE DEF I
    <2> QED BY <1>2, PickKeeps
  <1>4. /\ n \in Nat /\ b \in [1..n -> J]
        /\ \A i \in J : \E k \in 1..n : b[k] = i
        /\ \A j, k \in 1..n : j < k => b[j] < b[k]
        /\ Pick(t, J) \in Seq(T) /\ Len(Pick(t, J)) = n
        /\ \A k \in 1..n : Pick(t, J)[k] = t[b[k]]
    <2> HIDE DEF J
    <2> QED BY <1>2, PickKeeps
  <1>5. /\ \A i : i \in I <=> i \in 1..Len(s) /\ s[i] \in W
        /\ \A i : i \in J <=> i \in 1..Len(t) /\ t[i] \in W
        /\ \A i : i \in K <=> i \in 1..(Len(s) + Len(t)) /\ st[i] \in W
    BY <1>1 DEF Among
  <1> HIDE DEF I, J, K, m, n, a, b
  <1>6. ASSUME NEW k \in 1..m PROVE e[k] = a[k] /\ a[k] \in 1..Len(s) /\ a[k] \in K
    <2>1. a[k] \in I /\ k \in 1..(m + n) /\ k <= m
      BY <1>3, <1>4
    <2> QED BY <1>1, <1>5, <2>1
  <1>7. ASSUME NEW k \in 1..n
        PROVE  /\ e[m + k] = Len(s) + b[k] /\ b[k] \in 1..Len(t) /\ Len(s) + b[k] \in K
    <2> DEFINE i == m + k
    <2>1. b[k] \in J /\ i \in 1..(m + n) /\ ~(i <= m) /\ i - m = k
      BY <1>3, <1>4
    <2>2. e[i] = Len(s) + b[k]
      <3> HIDE DEF i
      <3> QED BY <2>1
    <2>3. b[k] \in 1..Len(t) /\ t[b[k]] \in W
      BY <1>5, <2>1
    <2>4. st[Len(s) + b[k]] = t[b[k]] /\ Len(s) + b[k] \in 1..(Len(s) + Len(t))
      BY <1>1, <2>3
    <2> QED BY <1>5, <2>2, <2>3, <2>4
  <1>8. \A k \in 1..(m + n) : k \in 1..m \/ \E j \in 1..n : k = m + j
    <2> SUFFICES ASSUME NEW k \in 1..(m + n), k \notin 1..m PROVE \E j \in 1..n : k = m + j
      OBVIOUS
    <2>1. k - m \in 1..n /\ k = m + (k - m)
      BY <1>3, <1>4
    <2> QED BY <2>1
  <1>9. e \in [1..(m + n) -> K]
    <2>1. \A k \in 1..(m + n) : e[k] \in K
      <3> HIDE DEF e
      <3> QED BY <1>6, <1>7, <1>8
    <2>2. e = [k \in 1..(m + n) |-> e[k]]
      OBVIOUS
    <2> HIDE DEF e
    <2> QED BY <2>1, <2>2
  <1> HIDE DEF e
  <1>10. \A i \in K : \E k \in 1..(m + n) : e[k] = i
    <2> TAKE i \in K
    <2>1. i \in 1..(Len(s) + Len(t)) /\ st[i] \in W
      BY <1>5
    <2>2. CASE i <= Len(s)
      <3>1. i \in I
        BY <1>1, <1>5, <2>1, <2>2
      <3>2. PICK k \in 1..m : a[k] = i
        BY <1>3, <3>1
      <3>3. k \in 1..(m + n)
        BY <1>3, <1>4
      <3> QED BY <1>6, <3>2, <3>3
    <2>3. CASE ~(i <= Len(s))
      <3> DEFINE j == i - Len(s)
      <3>1. j \in 1..Len(t) /\ i = Len(s) + j
        BY <1>1, <2>1, <2>3
      <3> HIDE DEF j
      <3>2. j \in J
        BY <1>1, <1>5, <2>1, <3>1
      <3>3. PICK k \in 1..n : b[k] = j
        BY <1>4, <3>2
      <3>4. m + k \in 1..(m + n)
        BY <1>3, <1>4
      <3> QED BY <1>7, <3>1, <3>3, <3>4
    <2> QED BY <2>2, <2>3
  <1>11. \A j, k \in 1..(m + n) : j < k => e[j] < e[k]
    <2> SUFFICES ASSUME NEW j \in 1..(m + n), NEW k \in 1..(m + n), j < k PROVE e[j] < e[k]
      OBVIOUS
    <2>1. CASE k \in 1..m
      <3>1. j \in 1..m
        BY <1>3, <2>1
      <3> QED BY <1>3, <1>6, <2>1, <3>1
    <2>2. CASE j \in 1..m /\ k \notin 1..m
      <3>1. PICK i \in 1..n : k = m + i
        BY <1>8, <2>2
      <3>2. e[j] \in 1..Len(s) /\ e[k] = Len(s) + b[i] /\ b[i] \in 1..Len(t)
        BY <1>6, <1>7, <2>2, <3>1
      <3> QED BY <1>1, <3>2
    <2>3. CASE j \notin 1..m
      <3>1. PICK i \in 1..n : j = m + i
        BY <1>8, <2>3
      <3>2. k \notin 1..m
        BY <1>3, <1>4, <2>3
      <3>3. PICK l \in 1..n : k = m + l
        BY <1>8, <3>2
      <3>4. i < l
        BY <1>3, <3>1, <3>3
      <3>5. b[i] < b[l] /\ b[i] \in 1..Len(t) /\ b[l] \in 1..Len(t)
        BY <1>4, <1>7, <3>4
      <3>6. e[j] = Len(s) + b[i] /\ e[k] = Len(s) + b[l]
        BY <1>7, <3>1, <3>3
      <3> QED BY <1>1, <3>5, <3>6
    <2> QED BY <2>1, <2>2, <2>3
  <1>12. Cardinality(K) = m + n /\ Ascending(K) = e
    <2>1. K \subseteq Int /\ m + n \in Nat
      BY <1>3, <1>4, <1>5
    <2> QED BY <1>9, <1>10, <1>11, <2>1, AscendingIsOne
  <1> DEFINE p == Pick(st, K)
             q == Pick(s, I) \o Pick(t, J)
  <1>13. p \in Seq(T) /\ Len(p) = m + n /\ \A k \in 1..(m + n) : p[k] = st[e[k]]
    BY <1>1, <1>2, <1>12, PickKeeps
  <1>14. /\ q \in Seq(T) /\ Len(q) = m + n
         /\ \A k \in 1..m : q[k] = Pick(s, I)[k]
         /\ \A k \in 1..n : q[m + k] = Pick(t, J)[k]
    <2>1. PICK x \in Seq(T) : x = Pick(s, I) /\ Len(x) = m
      BY <1>3
    <2>2. PICK y \in Seq(T) : y = Pick(t, J) /\ Len(y) = n
      BY <1>4
    <2>3. /\ x \o y \in Seq(T) /\ Len(x \o y) = Len(x) + Len(y)
          /\ \A k \in 1..Len(x) : (x \o y)[k] = x[k]
          /\ \A k \in 1..Len(y) : (x \o y)[Len(x) + k] = y[k]
      BY ONLY Appended
    <2> QED BY <2>1, <2>2, <2>3
  <1> HIDE DEF p, q
  <1>15. \A k \in 1..(m + n) : p[k] = q[k]
    <2> TAKE k \in 1..(m + n)
    <2>1. CASE k \in 1..m
      <3>1. p[k] = st[a[k]] /\ a[k] \in 1..Len(s)
        BY <1>6, <1>13, <2>1
      <3>2. q[k] = s[a[k]]
        BY <1>3, <1>14, <2>1
      <3> QED BY <1>1, <3>1, <3>2
    <2>2. CASE k \notin 1..m
      <3>1. PICK j \in 1..n : k = m + j
        BY <1>8, <2>2
      <3>2. p[k] = st[Len(s) + b[j]] /\ b[j] \in 1..Len(t)
        BY <1>7, <1>13, <3>1
      <3>3. q[k] = t[b[j]]
        BY <1>4, <1>14, <3>1
      <3> QED BY <1>1, <3>2, <3>3
    <2> QED BY <2>1, <2>2
  <1>16. p = q
    BY <1>13, <1>14, <1>15
  <1> QED BY <1>16 DEF p, q, st, I, J, K

\* What a filtered list holds.
LEMMA PickHolds ==
  ASSUME NEW T, NEW s \in Seq(T), NEW W
  PROVE  Range(Pick(s, Among(s, W))) = {x \in Range(s) : x \in W}
  <1> DEFINE I == Among(s, W)
             n == Cardinality(I)
             order == Ascending(I)
             p == Pick(s, I)
  <1>1. I \subseteq DOMAIN s /\ \A i \in DOMAIN s : i \in I <=> s[i] \in W
    BY DEF Among
  <1> HIDE DEF I
  <1>2. /\ order \in [1..n -> I]
        /\ \A i \in I : \E k \in 1..n : order[k] = i
        /\ DOMAIN p = 1..n /\ \A k \in 1..n : p[k] = s[order[k]]
    BY <1>1, PickKeeps
  <1> HIDE DEF n, order, p
  <1>3. ASSUME NEW x \in Range(p) PROVE x \in Range(s) /\ x \in W
    BY <1>1, <1>2 DEF Range
  <1>4. ASSUME NEW x \in Range(s), x \in W PROVE x \in Range(p)
    <2>1. PICK i \in DOMAIN s : x = s[i]
      BY DEF Range
    <2>2. PICK k \in 1..n : order[k] = i
      BY <1>1, <1>2, <1>4, <2>1
    <2> QED BY <1>2, <2>1, <2>2 DEF Range
  <1>5. Range(p) = {x \in Range(s) : x \in W}
    BY <1>3, <1>4
  <1> QED BY <1>5 DEF p, I

----------------------------------------------------------------------------
(* Lists of lists, one after the other. *)

\* What FlattenSeq computes with: the first lists, joined.
Joins(g, T, s, n) ==
  /\ g \in [1..n -> Seq(T)]
  /\ g = [i \in 1..n |-> IF i = 1 THEN s[i] ELSE g[i - 1] \o s[i]]

\* Its recursion is sound, and gives lists.
LEMMA JoinsExist ==
  ASSUME NEW T, NEW s \in Seq(Seq(T)), NEW l \in 0..Len(s)
  PROVE  \E g : Joins(g, T, s, l)
  <1> DEFINE D(g, i) == IF i = 1 THEN s[i] ELSE g[i - 1] \o s[i]
             Upto(n, g) == g \in [1..n -> Seq(T)] /\ g = [i \in 1..n |-> D(g, i)]
             N == {n \in Nat : n <= Len(s) => \E g : Upto(n, g)}
  <1>1. 0 \in N
    <2>1. Upto(0, [i \in 1..0 |-> <<>>])
      OBVIOUS
    <2> QED BY <2>1
  <1>2. ASSUME NEW n \in Nat, n \in N PROVE n + 1 \in N
    <2> SUFFICES ASSUME n + 1 <= Len(s) PROVE \E g : Upto(n + 1, g)
      <3> HIDE DEF Upto
      <3> QED OBVIOUS
    <2>0. Len(s) \in Nat /\ n <= Len(s)
      OBVIOUS
    <2>1. PICK g : Upto(n, g)
      <3> HIDE DEF Upto
      <3> QED BY <1>2, <2>0
    <2>2. s[n + 1] \in Seq(T)
      OBVIOUS
    <2> DEFINE h == [i \in 1..(n + 1) |-> IF i = n + 1 THEN D(g, n + 1) ELSE g[i]]
    <2>3. D(g, n + 1) \in Seq(T)
      <3>1. CASE n = 0
        BY <2>2, <3>1
      <3>2. CASE n # 0
        <4>1. g[n] \in Seq(T)
          BY <2>1, <3>2
        <4>2. n + 1 # 1 /\ n + 1 - 1 = n
          BY <3>2
        <4> QED BY <2>2, <4>1, <4>2
      <3> QED BY <3>1, <3>2
    <2>4. \A i \in 1..(n + 1) : h[i] \in Seq(T) /\ h[i] = D(h, i)
      <3> TAKE i \in 1..(n + 1)
      <3>1. CASE i = n + 1
        <4>1. i # 1 => h[i - 1] = g[i - 1]
          BY <3>1
        <4> QED BY <2>3, <3>1, <4>1
      <3>2. CASE i # n + 1
        <4>0. i \in 1..n /\ h[i] = g[i]
          BY <3>2
        <4>1. g[i] \in Seq(T) /\ g[i] = D(g, i)
          BY <2>1, <4>0
        <4>2. i # 1 => h[i - 1] = g[i - 1]
          BY <3>2
        <4> QED BY <4>0, <4>1, <4>2
      <3> QED BY <3>1, <3>2
    <2>5. Upto(n + 1, h)
      <3> HIDE DEF D
      <3>1. h = [i \in 1..(n + 1) |-> h[i]]
        OBVIOUS
      <3> QED BY <2>4, <3>1
    <2> HIDE DEF Upto, h
    <2> QED BY <2>5
  <1>3. Nat \subseteq N
    <2> HIDE DEF N
    <2> QED BY <1>1, <1>2, NatInduct
  <1>4. \E g : Upto(l, g)
    <2>1. l \in Nat /\ l <= Len(s)
      OBVIOUS
    <2>2. l \in N
      BY <1>3, <2>1
    <2> HIDE DEF Upto
    <2> QED BY <2>1, <2>2
  <1>5. ASSUME NEW g PROVE Upto(l, g) <=> Joins(g, T, s, l)
    BY DEF Joins
  <1> HIDE DEF Upto
  <1> QED BY <1>4, <1>5

LEMMA Beginning ==
  ASSUME NEW T, NEW s \in Seq(T), NEW n \in 0..Len(s)
  PROVE  /\ SubSeq(s, 1, n) \in Seq(T) /\ Len(SubSeq(s, 1, n)) = n
         /\ n \in Nat /\ Len(s) \in Nat
         /\ \A i \in 1..n : SubSeq(s, 1, n)[i] = s[i] /\ s[i] \in T
         /\ n = 0 => SubSeq(s, 1, n) = <<>>
         /\ n = Len(s) => SubSeq(s, 1, n) = s
  OBVIOUS

\* The function FlattenSeq computes with is the only one with that recursion.
LEMMA FlattenJoins ==
  ASSUME NEW T, NEW s \in Seq(Seq(T)), NEW n \in 1..Len(s), NEW g, Joins(g, T, s, n)
  PROVE  FlattenSeq(SubSeq(s, 1, n)) = g[n]
  <1> DEFINE t == SubSeq(s, 1, n)
             c == CHOOSE f : f = [i \in 1..Len(t) |-> IF i = 1 THEN t[i] ELSE f[i - 1] \o t[i]]
  <1>1. /\ Len(t) = n /\ n \in Nat
        /\ \A i \in 1..n : t[i] = s[i]
    BY Beginning
  <1>2. FlattenSeq(t) = c[n]
    <2>1. Len(t) # 0
      BY <1>1
    <2> HIDE DEF t
    <2> QED BY <1>1, <2>1 DEF FlattenSeq
  <1> HIDE DEF t
  <1>3. c = [i \in 1..n |-> IF i = 1 THEN t[i] ELSE c[i - 1] \o t[i]]
    <2>1. g = [i \in 1..Len(t) |-> IF i = 1 THEN t[i] ELSE g[i - 1] \o t[i]]
      BY <1>1 DEF Joins
    <2> QED BY <1>1, <2>1
  <1> HIDE DEF c
  <1>4. \A i \in 1..n : (i = 1 => c[i] = s[i]) /\ (i # 1 => c[i] = c[i - 1] \o s[i])
    BY <1>1, <1>3
  <1> DEFINE N == {i \in Nat : i \in 1..n => c[i] = g[i]}
  <1>5. 0 \in N
    OBVIOUS
  <1>6. ASSUME NEW i \in Nat, i \in N PROVE i + 1 \in N
    <2> SUFFICES ASSUME i + 1 \in 1..n PROVE c[i + 1] = g[i + 1]
      OBVIOUS
    <2> DEFINE k == i + 1
    <2>1. k \in 1..n /\ k - 1 = i
      OBVIOUS
    <2>2. k # 1 => c[k - 1] = g[k - 1]
      BY <1>1, <1>6, <2>1
    <2> HIDE DEF k, N
    <2>3. (k = 1 => g[k] = s[k]) /\ (k # 1 => g[k] = g[k - 1] \o s[k])
      <3>1. \A j \in 1..n : (j = 1 => g[j] = s[j]) /\ (j # 1 => g[j] = g[j - 1] \o s[j])
        BY DEF Joins
      <3> QED BY <2>1, <3>1
    <2>4. c[k] = g[k]
      <3>1. (k = 1 => c[k] = s[k]) /\ (k # 1 => c[k] = c[k - 1] \o s[k])
        BY <1>4, <2>1
      <3> QED BY <2>2, <2>3, <3>1
    <2> QED BY <2>4 DEF k
  <1>7. n \in N
    <2> HIDE DEF N
    <2>1. Nat \subseteq N
      BY <1>5, <1>6, NatInduct
    <2> QED BY <1>1, <2>1
  <1>8. c[n] = g[n]
    BY <1>1, <1>7
  <1> QED BY <1>2, <1>8 DEF t

LEMMA FlattenNone == FlattenSeq(<<>>) = <<>>
  BY DEF FlattenSeq

\* The first lists, flattened, grow by one list at a time.
LEMMA FlattenStep ==
  ASSUME NEW T, NEW s \in Seq(Seq(T)), NEW n \in 0..Len(s)
  PROVE  /\ FlattenSeq(SubSeq(s, 1, n)) \in Seq(T)
         /\ n = 0 => FlattenSeq(SubSeq(s, 1, n)) = <<>>
         /\ n # 0 => FlattenSeq(SubSeq(s, 1, n)) = FlattenSeq(SubSeq(s, 1, n - 1)) \o s[n]
  <1>0. <<>> \in Seq(T)
    OBVIOUS
  <1>1. CASE n = 0
    <2>1. FlattenSeq(SubSeq(s, 1, n)) = <<>>
      BY <1>1, Beginning, FlattenNone
    <2> QED BY <1>0, <1>1, <2>1
  <1>2. CASE n # 0
    <2>0. n \in 1..Len(s) /\ Len(s) \in Nat /\ n \in Nat /\ s[n] \in Seq(T)
      BY <1>2
    <2>1. PICK g : Joins(g, T, s, n)
      BY JoinsExist
    <2>2. FlattenSeq(SubSeq(s, 1, n)) = g[n]
      BY <2>0, <2>1, FlattenJoins
    <2>3. g[n] \in Seq(T) /\ (n = 1 => g[n] = s[n]) /\ (n # 1 => g[n] = g[n - 1] \o s[n])
      <3>1. n \in 1..n
        BY <2>0
      <3> QED BY <2>0, <2>1, <3>1 DEF Joins
    <2>4. CASE n = 1
      <3>1. FlattenSeq(SubSeq(s, 1, n - 1)) = <<>>
        <4>1. n - 1 \in 0..Len(s) /\ n - 1 = 0
          BY <2>0, <2>4
        <4> QED BY <4>1, Beginning, FlattenNone
      <3>2. <<>> \o s[n] = s[n]
        BY <2>0
      <3> QED BY <1>2, <2>2, <2>3, <2>4, <3>1, <3>2
    <2>5. CASE n # 1
      <3> DEFINE m == n - 1
                 h == [i \in 1..m |-> g[i]]
      <3>1. m \in 1..Len(s) /\ m \in 1..m
        BY <2>0, <2>5
      <3>2. Joins(h, T, s, m)
        <4>1. \A i \in 1..m : i \in 1..n /\ (i # 1 => i - 1 \in 1..m)
          BY <2>0
        <4>2. \A i \in 1..m : h[i] = g[i] /\ (i # 1 => h[i - 1] = g[i - 1])
          BY <4>1
        <4>3. \A i \in 1..m :
                /\ h[i] \in Seq(T)
                /\ h[i] = IF i = 1 THEN s[i] ELSE h[i - 1] \o s[i]
          <5>1. \A i \in 1..n :
                  /\ g[i] \in Seq(T)
                  /\ i = 1 => g[i] = s[i]
                  /\ i # 1 => g[i] = g[i - 1] \o s[i]
            BY <2>0, <2>1 DEF Joins
          <5> HIDE DEF h, m
          <5> QED BY <4>1, <4>2, <5>1
        <4>4. h = [i \in 1..m |-> h[i]]
          OBVIOUS
        <4> HIDE DEF h, m
        <4> QED BY <4>3, <4>4 DEF Joins
      <3>3. h[m] = g[m]
        BY <3>1
      <3> HIDE DEF h
      <3>4. FlattenSeq(SubSeq(s, 1, m)) = h[m]
        <4> HIDE DEF m
        <4> QED BY <3>1, <3>2, FlattenJoins
      <3> QED BY <1>2, <2>2, <2>3, <2>5, <3>3, <3>4
    <2> QED BY <2>4, <2>5
  <1> QED BY <1>1, <1>2

LEMMA FlattenAll ==
  ASSUME NEW T, NEW s \in Seq(Seq(T))
  PROVE  FlattenSeq(s) = FlattenSeq(SubSeq(s, 1, Len(s))) /\ FlattenSeq(s) \in Seq(T)
  <1>1. Len(s) \in 0..Len(s)
    OBVIOUS
  <1>2. SubSeq(s, 1, Len(s)) = s
    BY <1>1, Beginning
  <1> QED BY <1>1, <1>2, FlattenStep

\* Flattening two lists of lists.
LEMMA FlattenAppend ==
  ASSUME NEW T, NEW s \in Seq(Seq(T)), NEW t \in Seq(Seq(T))
  PROVE  FlattenSeq(s \o t) = FlattenSeq(s) \o FlattenSeq(t)
  <1> DEFINE st == s \o t
             U(n) == FlattenSeq(SubSeq(st, 1, n))
             V(n) == FlattenSeq(SubSeq(t, 1, n))
             l == Len(s)
             F == FlattenSeq(s)
  <1>1. /\ st \in Seq(Seq(T)) /\ Len(st) = l + Len(t)
        /\ l \in Nat /\ Len(t) \in Nat
        /\ \A k \in 1..l : st[k] = s[k]
        /\ \A k \in 1..Len(t) : st[l + k] = t[k] /\ t[k] \in Seq(T)
    BY Appended
  <1>2. F \in Seq(T) /\ F = FlattenSeq(SubSeq(s, 1, l))
    BY FlattenAll
  <1> HIDE DEF st
  <1>3. SubSeq(st, 1, l) = SubSeq(s, 1, l)
    BY <1>1
  <1> DEFINE N == {n \in Nat : n <= Len(t) => U(l + n) = F \o V(n)}
  <1>4. 0 \in N
    <2>1. V(0) = <<>>
      <3>1. 0 \in 0..Len(t) /\ SubSeq(t, 1, 0) = <<>>
        BY <1>1
      <3> QED BY <3>1, FlattenNone
    <2>2. U(l + 0) = F
      <3>1. l + 0 = l
        BY <1>1
      <3> QED BY <1>2, <1>3, <3>1
    <2> HIDE DEF U, V, F
    <2>3. F \o <<>> = F
      BY <1>2
    <2> QED BY <2>1, <2>2, <2>3
  <1>5. ASSUME NEW n \in Nat, n \in N PROVE n + 1 \in N
    <2> SUFFICES ASSUME n + 1 <= Len(t) PROVE U(l + (n + 1)) = F \o V(n + 1)
      OBVIOUS
    <2> DEFINE m == n + 1
               k == l + m
    <2>1. /\ m \in 1..Len(t) /\ m \in 0..Len(t) /\ m # 0 /\ m - 1 = n /\ n \in 0..Len(t)
          /\ k \in 0..Len(st) /\ k # 0 /\ k - 1 = l + n
      BY <1>1
    <2>2. st[k] = t[m] /\ t[m] \in Seq(T)
      BY <1>1, <2>1
    <2>3. U(l + n) = F \o V(n)
      BY <1>1, <1>5, <2>1, SMTT(20)
    <2> HIDE DEF N, m, k, F
    <2>4. U(k) = U(l + n) \o st[k]
      BY <1>1, <2>1, FlattenStep
    <2>5. V(m) = V(n) \o t[m] /\ V(n) \in Seq(T)
      BY <2>1, FlattenStep
    <2>6. (F \o V(n)) \o t[m] = F \o (V(n) \o t[m])
      <3>1. \A a, b, c \in Seq(T) : (a \o b) \o c = a \o (b \o c)
        BY ONLY ConcatAssociative, SMTT(20)
      <3> HIDE DEF V
      <3> QED BY <1>2, <2>2, <2>5, <3>1
    <2>7. U(k) = F \o V(m)
      <3> HIDE DEF U, V
      <3> QED BY <2>2, <2>3, <2>4, <2>5, <2>6
    <2> QED BY <2>7 DEF m, k
  <1>6. U(l + Len(t)) = F \o V(Len(t))
    <2> HIDE DEF N
    <2>1. Nat \subseteq N
      BY <1>4, <1>5, NatInduct
    <2>2. Len(t) \in N
      BY <1>1, <2>1
    <2> QED BY <1>1, <2>2 DEF N
  <1>7. FlattenSeq(st) = U(l + Len(t))
    BY <1>1, FlattenAll
  <1>8. FlattenSeq(t) = V(Len(t))
    BY FlattenAll
  <1> QED BY <1>6, <1>7, <1>8 DEF st

\* What a flattened list of lists holds.
LEMMA FlattenHolds ==
  ASSUME NEW T, NEW s \in Seq(Seq(T))
  PROVE  Range(FlattenSeq(s)) = UNION {Range(s[n]) : n \in 1..Len(s)}
  <1> DEFINE U(n) == FlattenSeq(SubSeq(s, 1, n))
             N == {n \in Nat : n <= Len(s) => Range(U(n)) = UNION {Range(s[i]) : i \in 1..n}}
  <1>1. 0 \in N
    <2>1. U(0) = <<>>
      <3>1. SubSeq(s, 1, 0) = <<>>
        OBVIOUS
      <3> QED BY <3>1, FlattenNone
    <2> QED BY <2>1 DEF Range
  <1>2. ASSUME NEW n \in Nat, n \in N PROVE n + 1 \in N
    <2> SUFFICES ASSUME n + 1 <= Len(s)
                 PROVE  Range(U(n + 1)) = UNION {Range(s[i]) : i \in 1..(n + 1)}
      OBVIOUS
    <2> DEFINE m == n + 1
    <2>1. m \in 0..Len(s) /\ m # 0 /\ m - 1 = n /\ n \in 0..Len(s) /\ s[m] \in Seq(T)
      OBVIOUS
    <2>2. U(m) = U(n) \o s[m] /\ U(n) \in Seq(T)
      BY <2>1, FlattenStep
    <2>3. Range(U(n)) = UNION {Range(s[i]) : i \in 1..n}
      BY <1>2, <2>1
    <2>4. Range(U(m)) = Range(U(n)) \cup Range(s[m])
      <3> HIDE DEF U, m, N
      <3> QED BY <2>1, <2>2, RangeConcatenation
    <2>5. 1..m = (1..n) \cup {m}
      OBVIOUS
    <2>6. UNION {Range(s[i]) : i \in 1..m} = (UNION {Range(s[i]) : i \in 1..n}) \cup Range(s[m])
      <3> HIDE DEF m
      <3> QED BY <2>5
    <2> HIDE DEF U, m
    <2>7. Range(U(m)) = UNION {Range(s[i]) : i \in 1..m}
      BY <2>3, <2>4, <2>6
    <2> QED BY <2>7 DEF m
  <1>3. Len(s) \in N
    <2> HIDE DEF N
    <2>1. Nat \subseteq N
      BY <1>1, <1>2, NatInduct
    <2> QED BY <2>1
  <1> QED BY <1>3, FlattenAll

\* A list that has the elements of two others is their concatenation.
LEMMA ConcatIs ==
  ASSUME NEW T, NEW s \in Seq(T), NEW a \in Seq(T), NEW b \in Seq(T),
         Len(s) = Len(a) + Len(b),
         \A i \in 1..Len(a) : s[i] = a[i],
         \A i \in 1..Len(b) : s[Len(a) + i] = b[i]
  PROVE  s = a \o b
  <1> DEFINE t == a \o b
  <1>1. /\ t \in Seq(T) /\ Len(t) = Len(a) + Len(b)
        /\ Len(a) \in Nat /\ Len(b) \in Nat
        /\ \A i \in 1..Len(a) : t[i] = a[i]
        /\ \A i \in 1..Len(b) : t[Len(a) + i] = b[i]
    BY Appended
  <1> HIDE DEF t
  <1>2. ASSUME NEW i \in 1..Len(s) PROVE s[i] = t[i]
    <2>1. CASE i <= Len(a)
      BY <1>1, <2>1
    <2>2. CASE i > Len(a)
      <3>1. i - Len(a) \in 1..Len(b) /\ Len(a) + (i - Len(a)) = i
        BY <1>1, <2>2
      <3> QED BY <1>1, <3>1
    <2> QED BY <1>1, <2>1, <2>2
  <1>3. s = t
    BY <1>1, <1>2, SeqEqual
  <1> QED BY <1>3 DEF t

\* A list is what comes up to a place and what comes after it.
LEMMA SplitAt ==
  ASSUME NEW T, NEW s \in Seq(T), NEW n \in 0..Len(s)
  PROVE  s = SubSeq(s, 1, n) \o SubSeq(s, n + 1, Len(s))
  <1> DEFINE a == SubSeq(s, 1, n)
             b == SubSeq(s, n + 1, Len(s))
  <1>1. /\ a \in Seq(T) /\ Len(a) = n /\ \A i \in 1..n : a[i] = s[i]
        /\ n \in Nat /\ Len(s) \in Nat
    BY Beginning
  <1>2. b \in Seq(T) /\ Len(b) = Len(s) - n /\ \A i \in 1..(Len(s) - n) : b[i] = s[n + i]
    OBVIOUS
  <1> HIDE DEF a, b
  <1>3. Len(s) = Len(a) + Len(b)
    BY <1>1, <1>2
  <1>4. \A i \in 1..Len(a) : s[i] = a[i]
    BY <1>1
  <1>5. \A i \in 1..Len(b) : s[Len(a) + i] = b[i]
    BY <1>1, <1>2
  <1>6. s = a \o b
    BY <1>1, <1>2, <1>3, <1>4, <1>5, ConcatIs
  <1> QED BY <1>6 DEF a, b

\* A list of the lists that are flattened stands in one piece in what they make,
\* and what stands outside is of the others.
LEMMA FlattenPart ==
  ASSUME NEW T, NEW s \in Seq(Seq(T)), NEW n \in 1..Len(s)
  PROVE  /\ Len(s[n]) \in Nat
         /\ \E before \in Nat :
              /\ before + Len(s[n]) <= Len(FlattenSeq(s))
              /\ \A i \in 1..Len(s[n]) : FlattenSeq(s)[before + i] = s[n][i]
              /\ \A p \in DOMAIN FlattenSeq(s) :
                   p \in (before + 1)..(before + Len(s[n])) \/
                     \E m \in 1..Len(s) : m # n /\ FlattenSeq(s)[p] \in Range(s[m])
  <1> DEFINE a == SubSeq(s, 1, n - 1)
             b == SubSeq(s, 1, n)
             c == SubSeq(s, n + 1, Len(s))
             A == FlattenSeq(a)
             B == FlattenSeq(b)
             C == FlattenSeq(c)
             F == FlattenSeq(s)
             e == s[n]
             l == Len(A)
             k == Len(e)
  <1>1. /\ n \in 0..Len(s) /\ n - 1 \in 0..Len(s) /\ n # 0 /\ Len(s) \in Nat /\ n \in Nat
        /\ e \in Seq(T) /\ k \in Nat /\ DOMAIN e = 1..k
    OBVIOUS
  <1>2. /\ a \in Seq(Seq(T)) /\ Len(a) = n - 1 /\ \A m \in 1..(n - 1) : a[m] = s[m]
        /\ b \in Seq(Seq(T)) /\ Len(b) = n /\ \A m \in 1..n : b[m] = s[m]
    BY <1>1, Beginning
  <1>3. /\ c \in Seq(Seq(T)) /\ Len(c) = Len(s) - n /\ \A m \in 1..(Len(s) - n) : c[m] = s[n + m]
    OBVIOUS
  <1>4. s = b \o c
    BY <1>1, SplitAt
  <1>5. B = A \o e /\ A \in Seq(T)
    BY <1>1, FlattenStep
  <1>6. C \in Seq(T) /\ B \in Seq(T) /\ F \in Seq(T)
    BY <1>2, <1>3, FlattenAll
  <1>7. F = B \o C
    <2>1. FlattenSeq(b \o c) = FlattenSeq(b) \o FlattenSeq(c)
      BY <1>2, <1>3, FlattenAppend
    <2> HIDE DEF b, c
    <2> QED BY <1>4, <2>1, Zenon
  <1>8. Range(A) = UNION {Range(a[m]) : m \in 1..Len(a)} /\ Range(C) = UNION {Range(c[m]) : m \in 1..Len(c)}
    BY <1>2, <1>3, FlattenHolds
  <1> HIDE DEF a, b, c, A, B, C, F, e
  <1>9. /\ l \in Nat /\ Len(B) = l + k
        /\ \A i \in 1..l : B[i] = A[i] /\ A[i] \in Range(A)
        /\ \A i \in 1..k : B[l + i] = e[i]
    <2> HIDE DEF k, l
    <2>1. l \in Nat /\ DOMAIN A = 1..l
      BY <1>5 DEF l
    <2>2. /\ Len(A \o e) = l + k
          /\ \A i \in 1..l : (A \o e)[i] = A[i]
          /\ \A i \in 1..k : (A \o e)[l + i] = e[i]
      BY <1>1, <1>5, Appended DEF l, k
    <2>3. \A i \in 1..l : A[i] \in Range(A)
      BY <2>1 DEF Range
    <2> HIDE DEF Range
    <2> QED BY <1>5, <2>1, <2>2, <2>3, Zenon
  <1> HIDE DEF k, l
  <1>10. /\ Len(F) \in Nat /\ l + k <= Len(F) /\ DOMAIN F = 1..Len(F)
         /\ \A i \in 1..(l + k) : F[i] = B[i]
         /\ \A i \in 1..Len(F) : i > l + k => F[i] \in Range(C)
    <2>1. /\ Len(C) \in Nat /\ DOMAIN C = 1..Len(C) /\ Len(F) \in Nat /\ DOMAIN F = 1..Len(F)
      BY <1>6
    <2>2. /\ Len(B \o C) = Len(B) + Len(C)
          /\ \A i \in 1..Len(B) : (B \o C)[i] = B[i]
          /\ \A i \in 1..Len(C) : (B \o C)[Len(B) + i] = C[i]
      BY <1>6, Appended
    <2>3. /\ Len(F) = l + k + Len(C)
          /\ \A i \in 1..(l + k) : F[i] = B[i]
          /\ \A i \in 1..Len(C) : F[l + k + i] = C[i]
      BY <1>7, <1>9, <2>2, Zenon
    <2>4. ASSUME NEW i \in 1..Len(F), i > l + k PROVE F[i] \in Range(C)
      <3>1. i - (l + k) \in 1..Len(C) /\ l + k + (i - (l + k)) = i
        <4>1. /\ i \in Nat /\ l \in Nat /\ k \in Nat /\ Len(C) \in Nat
              /\ i > l + k /\ i <= l + k + Len(C)
          BY <1>1, <1>9, <2>1, <2>3, <2>4
        <4> DEFINE h == Len(C)
        <4> HIDE DEF h
        <4> QED BY ONLY <4>1 DEF h
      <3>2. F[i] = C[i - (l + k)]
        BY <2>3, <3>1
      <3>3. C[i - (l + k)] \in Range(C)
        <4> DEFINE d == i - (l + k)
        <4>1. d \in DOMAIN C
          BY <2>1, <3>1
        <4> HIDE DEF d
        <4>2. C[d] \in Range(C)
          BY <4>1 DEF Range
        <4> QED BY <4>2 DEF d
      <3> QED BY <3>2, <3>3
    <2> QED BY <1>1, <1>9, <2>1, <2>3, <2>4
  <1>11. \A i \in 1..k : F[l + i] = e[i]
    BY <1>1, <1>9, <1>10
  <1>12. ASSUME NEW p \in DOMAIN F, p \notin (l + 1)..(l + k)
         PROVE  \E m \in 1..Len(s) : m # n /\ F[p] \in Range(s[m])
    <2>1. CASE p <= l
      <3>1. p \in 1..l /\ F[p] = A[p] /\ F[p] \in Range(A)
        BY <1>1, <1>9, <1>10, <2>1
      <3>2. PICK m \in 1..Len(a) : F[p] \in Range(a[m])
        BY <1>8, <3>1
      <3>3. m \in 1..(n - 1) /\ m \in 1..Len(s) /\ m # n
        BY <1>1, <1>2
      <3> QED BY <1>2, <3>2, <3>3
    <2>2. CASE p > l
      <3>1. p > l + k /\ p \in 1..Len(F)
        BY <1>1, <1>9, <1>10, <1>12, <2>2
      <3>2. PICK m \in 1..Len(c) : F[p] \in Range(c[m])
        BY <1>8, <1>10, <3>1
      <3>3. n + m \in 1..Len(s) /\ n + m # n /\ m \in 1..(Len(s) - n)
        BY <1>1, <1>3, SMTT(20)
      <3> QED BY <1>3, <3>2, <3>3
    <2> QED BY <1>9, <1>10, <2>1, <2>2
  <1> QED BY <1>1, <1>9, <1>10, <1>11, <1>12 DEF F, e, k
=============================================================================
