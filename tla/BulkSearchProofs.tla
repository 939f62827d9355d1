-------------------------- MODULE BulkSearchProofs --------------------------
(***************************************************************************)
(* Theorems of BulkSearch and AthenaCompile: what a search of the table    *)
(* answers, for every table, list of crawls and query.                     *)
(***************************************************************************)
EXTENDS AthenaCompile, ListFacts

----------------------------------------------------------------------------
(* Keys.  The range of a prefix and of an exact key hold what they should:   *)
(* first of sequences of bytes, then of what the bytes say of a URL.         *)

LEMMA PrefixAt ==
  ASSUME NEW s \in Seq(Nat), NEW t \in Seq(Nat)
  PROVE  IsPrefix(s, t) <=> Len(s) <= Len(t) /\ \A i \in 1..Len(s) : s[i] = t[i]
  <1>1. ASSUME Len(s) <= Len(t)
        PROVE  (SubSeq(s, 1, Len(s)) = SubSeq(t, 1, Len(s))) <=> \A i \in 1..Len(s) : s[i] = t[i]
    <2>1. Len(s) \in 0..Len(s) /\ Len(s) \in 0..Len(t)
      BY <1>1
    <2>2. SubSeq(s, 1, Len(s)) = s
      BY <2>1, Beginning
    <2>3. /\ SubSeq(t, 1, Len(s)) \in Seq(Nat) /\ Len(SubSeq(t, 1, Len(s))) = Len(s)
          /\ \A i \in 1..Len(s) : SubSeq(t, 1, Len(s))[i] = t[i]
      BY <2>1, Beginning
    <2> DEFINE u == SubSeq(t, 1, Len(s))
    <2> HIDE DEF u
    <2>4. ASSUME \A i \in 1..Len(s) : s[i] = t[i] PROVE u = s
      BY <2>3, <2>4, SeqEqual DEF u
    <2>5. ASSUME u = s PROVE \A i \in 1..Len(s) : s[i] = t[i]
      BY <2>3, <2>5 DEF u
    <2> QED BY <2>2, <2>4, <2>5 DEF u
  <1> QED BY <1>1 DEF IsPrefix

\* What is said of the order of strings, element by element.
LEMMA LessAt ==
  ASSUME NEW s \in Seq(Nat), NEW t \in Seq(Nat)
  PROVE  Less(s, t) <=>
           \/ Len(s) < Len(t) /\ \A i \in 1..Len(s) : s[i] = t[i]
           \/ \E i \in 1..Len(s) :
                i <= Len(t) /\ s[i] < t[i] /\ \A j \in 1..(i - 1) : s[j] = t[j]
  <1>1. IsStrictPrefix(s, t) <=> Len(s) < Len(t) /\ \A i \in 1..Len(s) : s[i] = t[i]
    BY PrefixAt DEF IsStrictPrefix
  <1>2. \A i : i \in (DOMAIN s) \cap (DOMAIN t) <=> i \in 1..Len(s) /\ i <= Len(t)
    OBVIOUS
  <1> QED BY <1>1, <1>2 DEF Less

\* Between a key and the key with its last byte one higher are the keys it begins.
LEMMA PrefixRange ==
  ASSUME NEW key \in Seq(Nat), NEW lo \in Seq(Nat), lo # <<>>
  PROVE  ~Less(key, lo) /\ Less(key, PrefixEnd(lo)) <=> IsPrefix(lo, key)
  <1> DEFINE n == Len(lo)
             hi == PrefixEnd(lo)
  <1>1. /\ n \in Nat \ {0} /\ Len(key) \in Nat
        /\ \A i \in 1..n : lo[i] \in Nat
        /\ \A i \in 1..Len(key) : key[i] \in Nat
    OBVIOUS
  <1>2. /\ hi \in Seq(Nat) /\ Len(hi) = n
        /\ hi[n] = lo[n] + 1 /\ \A i \in 1..(n - 1) : hi[i] = lo[i]
    BY <1>1 DEF PrefixEnd
  <1> HIDE DEF hi, n
  <1>3. ASSUME IsPrefix(lo, key) PROVE ~Less(key, lo) /\ Less(key, hi)
    <2>1. n <= Len(key) /\ \A i \in 1..n : lo[i] = key[i]
      BY <1>3, PrefixAt DEF n
    <2>2. ~Less(key, lo)
      BY <1>1, <2>1, LessAt DEF n
    <2>3. n \in 1..Len(key) /\ key[n] < hi[n] /\ \A j \in 1..(n - 1) : key[j] = hi[j]
      BY <1>1, <1>2, <2>1
    <2>4. \E i \in 1..Len(key) :
            i <= Len(hi) /\ key[i] < hi[i] /\ \A j \in 1..(i - 1) : key[j] = hi[j]
      <3>1. n <= Len(hi)
        BY <1>1, <1>2
      <3> HIDE DEF hi
      <3> QED BY <2>3, <3>1
    <2>5. Less(key, hi)
      BY <1>2, <2>4, LessAt
    <2> QED BY <2>2, <2>5
  <1>4. ASSUME ~Less(key, lo), Less(key, hi) PROVE IsPrefix(lo, key)
    <2>1. ~(Len(key) < n /\ \A i \in 1..Len(key) : key[i] = lo[i])
      BY <1>4, LessAt DEF n
    <2>2. ~\E i \in 1..Len(key) :
             i <= n /\ key[i] < lo[i] /\ \A j \in 1..(i - 1) : key[j] = lo[j]
      BY <1>4, LessAt DEF n
    <2>3. ~(Len(key) < n /\ \A i \in 1..Len(key) : key[i] = hi[i])
      BY <1>1, <1>2, <2>1
    <2>4. PICK i \in 1..Len(key) :
            i <= n /\ key[i] < hi[i] /\ \A j \in 1..(i - 1) : key[j] = hi[j]
      BY <1>2, <1>4, <2>3, LessAt
    <2>5. \A j \in 1..(i - 1) : key[j] = lo[j]
      BY <1>1, <1>2, <2>4
    <2>6. i \in Nat /\ i <= n /\ ~(key[i] < lo[i]) /\ key[i] \in Nat /\ i \in 1..n
      BY <1>1, <2>2, <2>4, <2>5
    <2>7. i = n
      <3> SUFFICES ASSUME i # n PROVE FALSE
        OBVIOUS
      <3>1. i \in 1..(n - 1)
        BY <1>1, <2>6
      <3>2. hi[i] = lo[i]
        BY <1>2, <3>1
      <3> QED BY <2>4, <2>6, <3>2
    <2>8. key[n] = lo[n]
      <3>1. key[n] < lo[n] + 1 /\ ~(key[n] < lo[n]) /\ key[n] \in Nat /\ lo[n] \in Nat
        BY <1>1, <1>2, <2>4, <2>6, <2>7
      <3> QED BY <3>1
    <2>9. n <= Len(key) /\ \A j \in 1..n : lo[j] = key[j]
      <3>1. \A j \in 1..n : j = n \/ j \in 1..(i - 1)
        BY <1>1, <2>7
      <3>2. n <= Len(key)
        BY <1>1, <2>7
      <3> QED BY <2>5, <2>8, <3>1, <3>2
    <2> QED BY <2>9, PrefixAt DEF n
  <1> QED BY <1>3, <1>4 DEF hi

\* Between a key and the key followed by a NUL there is the key alone.
LEMMA ExactRange ==
  ASSUME NEW key \in Seq(Nat), NEW lo \in Seq(Nat)
  PROVE  ~Less(key, lo) /\ Less(key, ExactEnd(lo)) <=> key = lo
  <1> DEFINE n == Len(lo)
             hi == ExactEnd(lo)
  <1>1. /\ n \in Nat /\ Len(key) \in Nat
        /\ \A i \in 1..n : lo[i] \in Nat
        /\ \A i \in 1..Len(key) : key[i] \in Nat
    OBVIOUS
  <1>2. /\ hi \in Seq(Nat) /\ Len(hi) = n + 1
        /\ hi[n + 1] = 0 /\ \A i \in 1..n : hi[i] = lo[i]
    BY <1>1 DEF ExactEnd
  <1> HIDE DEF hi, n
  <1>3. ASSUME key = lo PROVE ~Less(key, lo) /\ Less(key, hi)
    <2>1. ~Less(key, lo)
      BY <1>1, <1>3, LessAt DEF n
    <2>2. Len(key) < Len(hi) /\ \A i \in 1..Len(key) : key[i] = hi[i]
      BY <1>1, <1>2, <1>3 DEF n
    <2>3. Less(key, hi)
      BY <1>2, <2>2, LessAt
    <2> QED BY <2>1, <2>3
  <1>4. ASSUME ~Less(key, lo), Less(key, hi) PROVE key = lo
    <2>1. ~(Len(key) < n /\ \A i \in 1..Len(key) : key[i] = lo[i])
      BY <1>4, LessAt DEF n
    <2>2. ~\E i \in 1..Len(key) :
             i <= n /\ key[i] < lo[i] /\ \A j \in 1..(i - 1) : key[j] = lo[j]
      BY <1>4, LessAt DEF n
    <2>3. ~\E i \in 1..Len(key) :
             i <= n + 1 /\ key[i] < hi[i] /\ \A j \in 1..(i - 1) : key[j] = hi[j]
      <3> SUFFICES ASSUME NEW i \in 1..Len(key), i <= n + 1, key[i] < hi[i],
                          \A j \in 1..(i - 1) : key[j] = hi[j]
                   PROVE  FALSE
        OBVIOUS
      <3>1. i # n + 1
        BY <1>1, <1>2
      <3>2. i <= n /\ hi[i] = lo[i] /\ \A j \in 1..(i - 1) : key[j] = lo[j]
        BY <1>1, <1>2, <3>1
      <3> QED BY <2>2, <3>2
    <2>4. Len(key) <= n /\ \A i \in 1..Len(key) : key[i] = hi[i]
      <3>1. \/ Len(key) < Len(hi) /\ \A i \in 1..Len(key) : key[i] = hi[i]
            \/ \E i \in 1..Len(key) :
                 i <= Len(hi) /\ key[i] < hi[i] /\ \A j \in 1..(i - 1) : key[j] = hi[j]
        BY <1>2, <1>4, LessAt
      <3>2. Len(hi) = n + 1
        BY <1>2
      <3>3. Len(key) < Len(hi) /\ \A i \in 1..Len(key) : key[i] = hi[i]
        BY <2>3, <3>1, <3>2
      <3> QED BY <1>1, <3>2, <3>3
    <2>5. \A i \in 1..Len(key) : key[i] = lo[i]
      BY <1>1, <1>2, <2>4
    <2>6. Len(key) = n
      BY <1>1, <2>1, <2>4, <2>5
    <2> QED BY <2>5, <2>6, SMTT(20) DEF n
  <1> QED BY <1>3, <1>4 DEF hi

\* A path in lower case is one of the same length.
LEMMA LoweredType ==
  ASSUME NEW p \in Seq(Nat)
  PROVE  Lowered(p) \in Seq(Nat) /\ Len(Lowered(p)) = Len(p)
  <1>1. Len(p) \in Nat /\ DOMAIN p = 1..Len(p) /\ \A i \in 1..Len(p) : p[i] \in Nat
    OBVIOUS
  <1>2. \A i \in 1..Len(p) : Lower(p[i]) \in Nat
    BY <1>1 DEF Lower
  <1>3. Lowered(p) \in [1..Len(p) -> Nat]
    BY <1>1, <1>2 DEF Lowered
  <1> QED BY <1>1, <1>3, FunctionIsSeq

\* A key, byte by byte.
LEMMA SurtShape ==
  ASSUME NEW u, IsUrl(u)
  PROVE  LET m == Len(u.host)
             n == Len(Lowered(u.path))
         IN  /\ m \in Nat \ {0} /\ n \in Nat \ {0}
             /\ Surt(u) \in Seq(Nat) /\ Len(Surt(u)) = 2 * m + n
             /\ \A i \in 1..m : Surt(u)[2 * i - 1] = u.host[i]
             /\ \A i \in 1..(m - 1) : Surt(u)[2 * i] = Comma
             /\ Surt(u)[2 * m] = Close
             /\ \A i \in 1..n : Surt(u)[2 * m + i] = Lowered(u.path)[i]
  <1> DEFINE m == Len(u.host)
             n == Len(Lowered(u.path))
             E(i) == IF i = 2 * m THEN Close ELSE IF i % 2 = 1 THEN u.host[(i + 1) \div 2] ELSE Comma
             h == [i \in 1..(2 * m) |-> E(i)]
  <1>1. /\ u.host \in Seq(Nat) /\ Lowered(u.path) \in Seq(Nat) /\ u.path # <<>>
        /\ m \in Nat \ {0} /\ n \in Nat \ {0} /\ 2 * m \in Nat
        /\ \A i \in 1..m : u.host[i] \in Nat
    <2>1. u.host \in Seq(Nat) \ {<<>>} /\ u.path \in Seq(Nat) \ {<<>>}
      BY DEF IsUrl
    <2>2. Lowered(u.path) \in Seq(Nat) /\ n = Len(u.path)
      BY <2>1, LoweredType
    <2> QED BY <2>1, <2>2
  <1>2. Surt(u) = h \o Lowered(u.path)
    BY <1>1 DEF Surt
  <1> HIDE DEF m, n
  <1>3. ASSUME NEW i \in 1..m
        PROVE  2 * i - 1 \in 1..(2 * m) /\ E(2 * i - 1) = u.host[i]
    <2>1. (2 * i - 1) % 2 = 1 /\ (2 * i - 1 + 1) \div 2 = i /\ 2 * i - 1 # 2 * m
      BY <1>1
    <2> QED BY <1>1, <2>1
  <1>4. ASSUME NEW i \in 1..(m - 1)
        PROVE  2 * i \in 1..(2 * m) /\ E(2 * i) = Comma
    <2>1. (2 * i) % 2 = 0 /\ 2 * i # 2 * m
      BY <1>1
    <2> QED BY <1>1, <2>1
  <1>5. 2 * m \in 1..(2 * m) /\ E(2 * m) = Close
    BY <1>1
  <1>6. ASSUME NEW i \in 1..(2 * m) PROVE E(i) \in Nat
    <2>1. CASE i # 2 * m /\ i % 2 = 1
      <3>1. (i + 1) \div 2 \in 1..m
        BY <1>1, <2>1
      <3>2. u.host[(i + 1) \div 2] \in Nat
        BY <1>1, <3>1
      <3> QED BY <2>1, <3>2
    <2>2. CASE i = 2 * m \/ i % 2 # 1
      BY <2>2 DEF Close, Comma
    <2> QED BY <2>1, <2>2
  <1>7. h \in [1..(2 * m) -> Nat] /\ \A i \in 1..(2 * m) : h[i] = E(i)
    <2> HIDE DEF E
    <2> QED BY <1>6
  <1>8. h \in Seq(Nat) /\ Len(h) = 2 * m
    <2> HIDE DEF h
    <2> QED BY <1>1, <1>7, FunctionIsSeq
  <1> HIDE DEF h, E
  <1>9. /\ Surt(u) \in Seq(Nat) /\ Len(Surt(u)) = 2 * m + n
        /\ \A i \in 1..(2 * m) : Surt(u)[i] = h[i]
        /\ \A i \in 1..n : Surt(u)[2 * m + i] = Lowered(u.path)[i]
    <2>1. /\ h \o Lowered(u.path) \in Seq(Nat) /\ Len(h \o Lowered(u.path)) = Len(h) + Len(Lowered(u.path))
          /\ \A i \in 1..Len(h) : (h \o Lowered(u.path))[i] = h[i]
          /\ \A i \in 1..Len(Lowered(u.path)) : (h \o Lowered(u.path))[Len(h) + i] = Lowered(u.path)[i]
      <3> DEFINE t == Lowered(u.path)
      <3>1. h \in Seq(Nat) /\ t \in Seq(Nat)
        BY <1>1, <1>8
      <3> HIDE DEF t
      <3>2. /\ h \o t \in Seq(Nat) /\ Len(h \o t) = Len(h) + Len(t)
            /\ \A i \in 1..Len(h) : (h \o t)[i] = h[i]
            /\ \A i \in 1..Len(t) : (h \o t)[Len(h) + i] = t[i]
        BY <3>1, Appended
      <3> QED BY <3>2 DEF t
    <2> QED BY <1>2, <1>8, <2>1 DEF n
  <1>10. /\ \A i \in 1..m : Surt(u)[2 * i - 1] = u.host[i]
         /\ \A i \in 1..(m - 1) : Surt(u)[2 * i] = Comma
         /\ Surt(u)[2 * m] = Close
    BY <1>3, <1>4, <1>5, <1>7, <1>9
  <1> QED BY <1>1, <1>9, <1>10 DEF m, n

\* The parenthesis ends the labels: keys that agree up to it are of one host.
LEMMA KeyTellsHost ==
  ASSUME NEW q, IsUrl(q), NEW r, IsUrl(r),
         2 * Len(q.host) <= Len(Surt(r)),
         \A k \in 1..(2 * Len(q.host)) : Surt(q)[k] = Surt(r)[k]
  PROVE  q.host = r.host
  <1> DEFINE m == Len(q.host)
             n == Len(r.host)
  <1>1. /\ q.host \in Seq(Nat) /\ r.host \in Seq(Nat)
        /\ m \in Nat \ {0} /\ n \in Nat \ {0}
    BY DEF IsUrl
  <1>2. /\ \A i \in 1..m : Surt(q)[2 * i - 1] = q.host[i]
        /\ \A i \in 1..(m - 1) : Surt(q)[2 * i] = Comma
        /\ Surt(q)[2 * m] = Close
    BY SurtShape
  <1>3. /\ \A i \in 1..n : Surt(r)[2 * i - 1] = r.host[i]
        /\ \A i \in 1..(n - 1) : Surt(r)[2 * i] = Comma
        /\ Surt(r)[2 * n] = Close
    BY SurtShape
  <1>4. \A k \in 1..(2 * m) : Surt(q)[k] = Surt(r)[k]
    OBVIOUS
  <1> HIDE DEF m, n
  <1>5. ~(m < n)
    <2> SUFFICES ASSUME m < n PROVE FALSE
      OBVIOUS
    <2>1. m \in 1..(n - 1) /\ 2 * m \in 1..(2 * m)
      BY <1>1
    <2>2. Surt(r)[2 * m] = Comma /\ Surt(r)[2 * m] = Close
      BY <1>2, <1>3, <1>4, <2>1
    <2> QED BY <2>2 DEF Comma, Close
  <1>6. ~(n < m)
    <2> SUFFICES ASSUME n < m PROVE FALSE
      OBVIOUS
    <2>1. n \in 1..(m - 1) /\ 2 * n \in 1..(2 * m)
      BY <1>1
    <2>2. Surt(q)[2 * n] = Comma /\ Surt(q)[2 * n] = Close
      BY <1>2, <1>3, <1>4, <2>1
    <2> QED BY <2>2 DEF Comma, Close
  <1>7. m = n
    BY <1>1, <1>5, <1>6
  <1>8. \A i \in 1..m : q.host[i] = r.host[i]
    <2> TAKE i \in 1..m
    <2>1. 2 * i - 1 \in 1..(2 * m)
      BY <1>1
    <2> QED BY <1>2, <1>3, <1>4, <1>7, <2>1
  <1> QED BY <1>1, <1>7, <1>8, SeqEqual DEF m, n

\* Keys of one host agree up to the path.
LEMMA HostTellsKey ==
  ASSUME NEW q, IsUrl(q), NEW r, IsUrl(r), q.host = r.host
  PROVE  \A k \in 1..(2 * Len(q.host)) : Surt(q)[k] = Surt(r)[k]
  <1> DEFINE m == Len(q.host)
  <1>1. /\ m \in Nat
        /\ \A i \in 1..m : Surt(q)[2 * i - 1] = Surt(r)[2 * i - 1]
        /\ \A i \in 1..(m - 1) : Surt(q)[2 * i] = Surt(r)[2 * i]
        /\ Surt(q)[2 * m] = Surt(r)[2 * m]
    <2>1. /\ m \in Nat
          /\ \A i \in 1..m : Surt(q)[2 * i - 1] = q.host[i]
          /\ \A i \in 1..(m - 1) : Surt(q)[2 * i] = Comma
          /\ Surt(q)[2 * m] = Close
      BY SurtShape
    <2>2. /\ \A i \in 1..Len(r.host) : Surt(r)[2 * i - 1] = r.host[i]
          /\ \A i \in 1..(Len(r.host) - 1) : Surt(r)[2 * i] = Comma
          /\ Surt(r)[2 * Len(r.host)] = Close
      BY SurtShape
    <2>3. Len(r.host) = m
      OBVIOUS
    <2> HIDE DEF m
    <2> QED BY <2>1, <2>2, <2>3
  <1> HIDE DEF m
  <1>2. \A k \in 1..(2 * m) : Surt(q)[k] = Surt(r)[k]
    <2> TAKE k \in 1..(2 * m)
    <2>1. PICK i \in 1..m : k = 2 * i - 1 \/ k = 2 * i
      <3>1. (k + 1) \div 2 \in 1..m /\ (k = 2 * ((k + 1) \div 2) - 1 \/ k = 2 * ((k + 1) \div 2))
        BY <1>1
      <3> QED BY <3>1
    <2>2. k = 2 * m \/ k = 2 * i - 1 \/ (i \in 1..(m - 1) /\ k = 2 * i)
      BY <1>1, <2>1
    <2> QED BY <1>1, <2>1, <2>2
  <1> QED BY <1>2 DEF m

\* A key begins another as the query's prefix means it: the same host, and a
\* path that begins the other, in whatever case.
LEMMA PrefixMeans ==
  ASSUME NEW q, IsUrl(q), NEW r, IsUrl(r)
  PROVE  IsPrefix(Surt(q), Surt(r)) <=> q.host = r.host /\ IsPrefix(Lowered(q.path), Lowered(r.path))
  <1> DEFINE a == Surt(q)
             b == Surt(r)
             m == Len(q.host)
             n == Len(Lowered(q.path))
  <1>1. /\ m \in Nat /\ n \in Nat /\ Len(Lowered(r.path)) \in Nat
        /\ a \in Seq(Nat) /\ b \in Seq(Nat) /\ Lowered(q.path) \in Seq(Nat) /\ Lowered(r.path) \in Seq(Nat)
        /\ Len(a) = 2 * m + n /\ Len(b) = 2 * Len(r.host) + Len(Lowered(r.path))
        /\ \A i \in 1..n : a[2 * m + i] = Lowered(q.path)[i]
        /\ \A i \in 1..Len(Lowered(r.path)) : b[2 * Len(r.host) + i] = Lowered(r.path)[i]
    <2>1. q.path \in Seq(Nat) /\ r.path \in Seq(Nat)
      BY DEF IsUrl
    <2>2. Lowered(q.path) \in Seq(Nat) /\ Lowered(r.path) \in Seq(Nat)
      BY <2>1, LoweredType
    <2> QED BY <2>2, SurtShape
  <1>2. IsPrefix(a, b) <=> Len(a) <= Len(b) /\ \A i \in 1..Len(a) : a[i] = b[i]
    BY <1>1, PrefixAt
  <1>3. IsPrefix(Lowered(q.path), Lowered(r.path)) <=> n <= Len(Lowered(r.path)) /\ \A i \in 1..n : Lowered(q.path)[i] = Lowered(r.path)[i]
    BY <1>1, PrefixAt
  <1>4. ASSUME IsPrefix(a, b) PROVE q.host = r.host
    <2>1. 2 * m <= Len(b) /\ \A k \in 1..(2 * m) : a[k] = b[k]
      <3>1. m \in Nat /\ n \in Nat /\ Len(a) = 2 * m + n
        BY <1>1
      <3>2. Len(a) <= Len(b) /\ \A i \in 1..Len(a) : a[i] = b[i]
        BY <1>2, <1>4
      <3>3. Len(b) \in Nat
        <4>1. b \in Seq(Nat)
          BY <1>1
        <4> HIDE DEF b
        <4> QED BY <4>1
      <3> HIDE DEF a, b, m, n
      <3> QED BY <3>1, <3>2, <3>3
    <2> QED BY <2>1, KeyTellsHost
  <1>5. ASSUME q.host = r.host PROVE \A k \in 1..(2 * m) : a[k] = b[k]
    BY <1>5, HostTellsKey
  <1> HIDE DEF a, b, n
  <1>6. ASSUME q.host = r.host, IsPrefix(Lowered(q.path), Lowered(r.path)) PROVE IsPrefix(a, b)
    <2>1. Len(r.host) = m
      BY <1>6
    <2> HIDE DEF m
    <2>2. Len(a) <= Len(b)
      BY <1>1, <1>3, <1>6, <2>1
    <2>3. \A i \in 1..n : a[2 * m + i] = b[2 * m + i]
      <3> TAKE i \in 1..n
      <3>1. i \in 1..Len(Lowered(r.path)) /\ Lowered(q.path)[i] = Lowered(r.path)[i]
        BY <1>1, <1>3, <1>6
      <3>2. a[2 * m + i] = Lowered(q.path)[i]
        BY <1>1
      <3>3. b[2 * m + i] = Lowered(r.path)[i]
        BY <1>1, <2>1, <3>1
      <3> QED BY <3>1, <3>2, <3>3
    <2>4. ASSUME NEW k \in 1..Len(a) PROVE a[k] = b[k]
      <3>1. CASE k <= 2 * m
        <4>1. k \in 1..(2 * m)
          BY <1>1, <3>1
        <4> QED BY <1>5, <1>6, <4>1
      <3>2. CASE k > 2 * m
        <4> DEFINE i == k - 2 * m
        <4>1. i \in 1..n /\ 2 * m + i = k
          BY <1>1, <3>2
        <4> HIDE DEF i
        <4>2. a[2 * m + i] = b[2 * m + i]
          BY <2>3, <4>1
        <4> QED BY <4>1, <4>2
      <3>3. k \in Int /\ 2 * m \in Int
        BY <1>1
      <3> QED BY <3>1, <3>2, <3>3
    <2> QED BY <1>2, <2>2, <2>4
  <1>7. ASSUME IsPrefix(a, b) PROVE IsPrefix(Lowered(q.path), Lowered(r.path))
    <2>1. Len(r.host) = m
      BY <1>4, <1>7
    <2> HIDE DEF m
    <2>2. n <= Len(Lowered(r.path))
      BY <1>1, <1>2, <1>7, <2>1
    <2>3. ASSUME NEW i \in 1..n PROVE Lowered(q.path)[i] = Lowered(r.path)[i]
      <3>1. 2 * m + i \in 1..Len(a) /\ i \in 1..Len(Lowered(r.path))
        BY <1>1, <2>2
      <3> QED BY <1>1, <1>2, <1>7, <2>1, <3>1
    <2> QED BY <1>3, <2>2, <2>3
  <1> QED BY <1>4, <1>6, <1>7 DEF a, b

LEMMA KeyMeans ==
  ASSUME NEW q, IsUrl(q), NEW r, IsUrl(r)
  PROVE  Surt(q) = Surt(r) <=> q.host = r.host /\ Lowered(q.path) = Lowered(r.path)
  <1>1. /\ Surt(q) \in Seq(Nat) /\ Surt(r) \in Seq(Nat)
        /\ Lowered(q.path) \in Seq(Nat) /\ Lowered(r.path) \in Seq(Nat)
    <2>1. q.path \in Seq(Nat) /\ r.path \in Seq(Nat)
      BY DEF IsUrl
    <2> QED BY <2>1, LoweredType, SurtShape
  <1>2. ASSUME NEW s \in Seq(Nat), NEW t \in Seq(Nat)
        PROVE  s = t <=> IsPrefix(s, t) /\ IsPrefix(t, s)
    <2>1. ASSUME s = t PROVE IsPrefix(s, t) /\ IsPrefix(t, s)
      BY <2>1, PrefixAt
    <2>2. ASSUME IsPrefix(s, t), IsPrefix(t, s) PROVE s = t
      <3>1. Len(s) <= Len(t) /\ Len(t) <= Len(s) /\ \A i \in 1..Len(s) : s[i] = t[i]
        BY <2>2, PrefixAt
      <3>2. Len(s) = Len(t)
        BY <3>1
      <3> QED BY <3>1, <3>2, SeqEqual
    <2> QED BY <2>1, <2>2
  <1>3. Surt(q) = Surt(r) <=> IsPrefix(Surt(q), Surt(r)) /\ IsPrefix(Surt(r), Surt(q))
    BY <1>1, <1>2
  <1>4. Lowered(q.path) = Lowered(r.path) <=> IsPrefix(Lowered(q.path), Lowered(r.path)) /\ IsPrefix(Lowered(r.path), Lowered(q.path))
    BY <1>1, <1>2
  <1>5. /\ IsPrefix(Surt(q), Surt(r)) <=> q.host = r.host /\ IsPrefix(Lowered(q.path), Lowered(r.path))
        /\ IsPrefix(Surt(r), Surt(q)) <=> r.host = q.host /\ IsPrefix(Lowered(r.path), Lowered(q.path))
    BY PrefixMeans
  <1> QED BY <1>3, <1>4, <1>5

----------------------------------------------------------------------------
(* What a row is looked at for. *)

\* A key is never empty.
LEMMA KeyIsThere ==
  ASSUME NEW u, IsUrl(u)
  PROVE  Surt(u) \in Seq(Nat) /\ Surt(u) # <<>>
  <1> DEFINE m == Len(u.host)
             n == Len(Lowered(u.path))
  <1>1. m \in Nat \ {0} /\ n \in Nat /\ Surt(u) \in Seq(Nat) /\ Len(Surt(u)) = 2 * m + n
    BY SurtShape
  <1> HIDE DEF m, n
  <1>2. Len(Surt(u)) # 0
    BY <1>1
  <1> QED BY <1>1, <1>2

\* What the range of keys covers: of a domain the host alone, without its
\* subdomains; for a host there is no range.
InTable(q, row) ==
  CASE q.match = "domain" -> row.host = q.host /\ PathBegins(q.path, row.path)
    [] q.match = "host" -> TRUE
    [] OTHER -> InScope(q, row)

\* The range of keys is the scope the table takes a query to have.
LEMMA RangeIsScope ==
  ASSUME NEW q, IsUrl(q), q.match \in MatchTypes, NEW row, IsUrl(row)
  PROVE  (SurtRange(q).bounded => /\ ~Less(Surt(row), SurtRange(q).lo)
                                  /\ Less(Surt(row), SurtRange(q).hi))
           <=> InTable(q, row)
  <1>1. Surt(q) \in Seq(Nat) /\ Surt(q) # <<>> /\ Surt(row) \in Seq(Nat)
    BY KeyIsThere
  <1>2. ~Less(Surt(row), Surt(q)) /\ Less(Surt(row), PrefixEnd(Surt(q)))
          <=> q.host = row.host /\ PathBegins(q.path, row.path)
    <2>1. IsPrefix(Surt(q), Surt(row)) <=> q.host = row.host /\ PathBegins(q.path, row.path)
      BY PrefixMeans DEF PathBegins
    <2> QED BY <1>1, <2>1, PrefixRange
  <1>3. ~Less(Surt(row), Surt(q)) /\ Less(Surt(row), ExactEnd(Surt(q)))
          <=> q.host = row.host /\ SamePath(q.path, row.path)
    <2>1. Surt(row) = Surt(q) <=> q.host = row.host /\ SamePath(q.path, row.path)
      BY KeyMeans DEF SamePath
    <2> QED BY <1>1, <2>1, ExactRange
  <1>4. CASE q.match = "host"
    BY <1>4 DEF SurtRange, AnyKey, InTable
  <1>5. CASE q.match = "exact"
    BY <1>3, <1>5 DEF SurtRange, Between, InTable, InScope
  <1>6. CASE q.match = "prefix"
    BY <1>2, <1>6 DEF SurtRange, Between, InTable, InScope
  <1>7. CASE q.match = "domain"
    BY <1>2, <1>7 DEF SurtRange, Between, InTable
  <1> QED BY <1>4, <1>5, <1>6, <1>7 DEF MatchTypes

\* The filters of a kind are found, and nothing else is.
LEMMA FiltersFound ==
  ASSUME NEW q, IsQuery(q), NEW kind
  PROVE  LET found == FiltersOf(q, kind)
         IN  /\ Len(found) \in Nat /\ DOMAIN found = 1..Len(found) /\ found \in Seq(Range(q.filters))
             /\ \A n \in 1..Len(found) :
                  \E k \in DOMAIN q.filters : q.filters[k].kind = kind /\ found[n] = q.filters[k]
             /\ \A k \in DOMAIN q.filters : q.filters[k].kind = kind =>
                  \E n \in 1..Len(found) : found[n] = q.filters[k]
  <1> DEFINE fs == q.filters
             I == {k \in DOMAIN fs : fs[k].kind = kind}
             found == Pick(fs, I)
             n == Cardinality(I)
             order == Ascending(I)
  <1>1. fs \in Seq(Range(fs)) /\ I \subseteq DOMAIN fs
    BY DEF IsQuery
  <1>2. /\ n \in Nat /\ order \in [1..n -> I]
        /\ \A i \in I : \E k \in 1..n : order[k] = i
        /\ found \in Seq(Range(fs)) /\ Len(found) = n /\ DOMAIN found = 1..n
        /\ \A k \in 1..n : found[k] = fs[order[k]]
    <2> HIDE DEF fs, I
    <2> QED BY <1>1, PickKeeps
  <1>3. FiltersOf(q, kind) = found
    BY DEF FiltersOf
  <1> HIDE DEF found, n, order
  <1>4. \A j \in 1..n : order[j] \in DOMAIN fs /\ fs[order[j]].kind = kind
    BY <1>2
  <1>5. \A k \in DOMAIN fs : fs[k].kind = kind => \E j \in 1..n : order[j] = k
    BY <1>2
  <1> HIDE DEF fs, I
  <1>6. /\ Len(found) \in Nat /\ DOMAIN found = 1..Len(found) /\ found \in Seq(Range(fs))
        /\ \A j \in 1..Len(found) : \E k \in DOMAIN fs : fs[k].kind = kind /\ found[j] = fs[k]
        /\ \A k \in DOMAIN fs : fs[k].kind = kind => \E j \in 1..Len(found) : found[j] = fs[k]
    BY <1>2, <1>4, <1>5
  <1> QED BY <1>3, <1>6 DEF fs

\* What the table makes of a status filter.
LEMMA StatusMeans ==
  ASSUME NEW f, IsFilter(f), f.kind = "status", NEW row, row.status \in 0..999
  PROVE  StatusHolds(f, row.status) <=> FilterHolds(f, row)
  <1>1. CASE f.op = "class"
    <2> DEFINE x == row.status
               InClass(s) == x \in (100 * s)..(100 * s + 99)
    <2>1. \A s \in f.values : s \in 1..9
      BY <1>1 DEF IsFilter, Classes
    <2>2. StatusHolds(f, x) <=> \E s \in f.values : x \div 100 = s
      BY <1>1 DEF StatusHolds
    <2>3. FilterHolds(f, row) <=> \E s \in f.values : InClass(s)
      BY <1>1 DEF FilterHolds
    <2>4. x \in Nat
      OBVIOUS
    <2> HIDE DEF x
    <2>5. \A s \in 1..9 : x \div 100 = s <=> InClass(s)
      BY <2>4
    <2> HIDE DEF InClass
    <2>6. (\E s \in f.values : x \div 100 = s) <=> \E s \in f.values : InClass(s)
      BY <2>1, <2>5
    <2> QED BY <2>2, <2>3, <2>6 DEF x
  <1>2. CASE f.op # "class"
    BY <1>2 DEF StatusHolds, FilterHolds
  <1> QED BY <1>1, <1>2

LEMMA MimeMeans ==
  ASSUME NEW f, f.kind = "mime", NEW row
  PROVE  MimeHolds(f, row) <=> FilterHolds(f, row)
  BY DEF MimeHolds, FilterHolds

\* The filter of a kind, where no kind has two.
LEMMA TheFilter ==
  ASSUME NEW q, IsQuery(q), Plain(q), NEW kind
  PROVE  LET found == FiltersOf(q, kind)
         IN  IF found = <<>> THEN \A k \in DOMAIN q.filters : q.filters[k].kind # kind
             ELSE /\ Last(found).kind = kind /\ Last(found) \in Range(q.filters)
                  /\ \A k \in DOMAIN q.filters :
                       q.filters[k].kind = kind => q.filters[k] = Last(found)
  <1> DEFINE found == FiltersOf(q, kind)
             fs == q.filters
  <1>1. /\ Len(found) \in Nat /\ DOMAIN found = 1..Len(found) /\ found \in Seq(Range(fs))
        /\ \A n \in 1..Len(found) : \E k \in DOMAIN fs : fs[k].kind = kind /\ found[n] = fs[k]
        /\ \A k \in DOMAIN fs : fs[k].kind = kind => \E n \in 1..Len(found) : found[n] = fs[k]
    BY FiltersFound
  <1>2. \A j, k \in DOMAIN fs : j # k => fs[j].kind # fs[k].kind
    BY DEF Plain
  <1> HIDE DEF found, fs
  <1>3. CASE found = <<>>
    BY <1>1, <1>3 DEF found, fs
  <1>4. CASE found # <<>>
    <2>1. Len(found) \in 1..Len(found)
      BY <1>1, <1>4
    <2>2. Last(found) = found[Len(found)]
      BY DEF Last
    <2>3. PICK k \in DOMAIN fs : fs[k].kind = kind /\ Last(found) = fs[k]
      BY <1>1, <2>1, <2>2
    <2>4. Last(found).kind = kind /\ Last(found) \in Range(fs)
      BY <2>3 DEF Range
    <2>5. \A j \in DOMAIN fs : fs[j].kind = kind => fs[j] = Last(found)
      BY <1>2, <2>3
    <2> QED BY <1>4, <2>4, <2>5 DEF found, fs
  <1> QED BY <1>3, <1>4

\* The rows that pass are those in the table's scope that the filters let through.
LEMMA PassesMeans ==
  ASSUME NEW q \in Queries, Plain(q), NEW row \in Rows
  PROVE  Passes(q, row) <=> InTable(q, row) /\ FiltersHold(q, row)
  <1> DEFINE status == FiltersOf(q, "status")
             mime == FiltersOf(q, "mime")
  <1>1. IsQuery(q) /\ IsUrl(q) /\ IsUrl(row) /\ row.status \in 0..999
    BY QueryAssumption, TableAssumption
  <1>2. (SurtRange(q).bounded => /\ ~Less(Surt(row), SurtRange(q).lo)
                                 /\ Less(Surt(row), SurtRange(q).hi))
          <=> InTable(q, row)
    BY <1>1, RangeIsScope DEF IsQuery
  <1>3. (status # <<>> => StatusHolds(Last(status), row.status))
          <=> \A k \in DOMAIN q.filters : q.filters[k].kind = "status" => FilterHolds(q.filters[k], row)
    <2>1. CASE status = <<>>
      BY <1>1, <2>1, TheFilter
    <2>2. CASE status # <<>>
      <3>1. /\ Last(status).kind = "status" /\ Last(status) \in Range(q.filters)
            /\ \A k \in DOMAIN q.filters : q.filters[k].kind = "status" => q.filters[k] = Last(status)
        BY <1>1, <2>2, TheFilter
      <3>2. IsFilter(Last(status))
        BY <1>1, <3>1 DEF IsQuery
      <3>3. StatusHolds(Last(status), row.status) <=> FilterHolds(Last(status), row)
        BY <1>1, <3>1, <3>2, StatusMeans
      <3>4. \E k \in DOMAIN q.filters : q.filters[k] = Last(status)
        BY <3>1 DEF Range
      <3> HIDE DEF status
      <3> QED BY <2>2, <3>1, <3>3, <3>4
    <2> QED BY <2>1, <2>2
  <1>4. (mime # <<>> => MimeHolds(Last(mime), row))
          <=> \A k \in DOMAIN q.filters : q.filters[k].kind = "mime" => FilterHolds(q.filters[k], row)
    <2>1. CASE mime = <<>>
      BY <1>1, <2>1, TheFilter
    <2>2. CASE mime # <<>>
      <3>1. /\ Last(mime).kind = "mime" /\ Last(mime) \in Range(q.filters)
            /\ \A k \in DOMAIN q.filters : q.filters[k].kind = "mime" => q.filters[k] = Last(mime)
        BY <1>1, <2>2, TheFilter
      <3>2. MimeHolds(Last(mime), row) <=> FilterHolds(Last(mime), row)
        BY <3>1, MimeMeans
      <3>3. \E k \in DOMAIN q.filters : q.filters[k] = Last(mime)
        BY <3>1 DEF Range
      <3> HIDE DEF mime
      <3> QED BY <2>2, <3>1, <3>2, <3>3
    <2> QED BY <2>1, <2>2
  <1>5. FiltersHold(q, row) <=>
          /\ \A k \in DOMAIN q.filters : q.filters[k].kind = "status" => FilterHolds(q.filters[k], row)
          /\ \A k \in DOMAIN q.filters : q.filters[k].kind = "mime" => FilterHolds(q.filters[k], row)
    BY DEF FiltersHold, Plain
  <1>6. Passes(q, row) <=>
          /\ SurtRange(q).bounded => /\ ~Less(Surt(row), SurtRange(q).lo)
                                     /\ Less(Surt(row), SurtRange(q).hi)
          /\ status # <<>> => StatusHolds(Last(status), row.status)
          /\ mime # <<>> => MimeHolds(Last(mime), row)
    BY DEF Passes
  <1> HIDE DEF status, mime
  <1> QED BY <1>2, <1>3, <1>4, <1>5, <1>6

----------------------------------------------------------------------------
(* The crawls of a selector. *)

NewestDown(cs) == \A j, k \in DOMAIN cs : j < k => cs[j].ends > cs[k].ends

\* Crawls picked from the list are those at the places, in its order.
LEMMA PickedCrawls ==
  ASSUME NEW I, I \subseteq DOMAIN Registered
  PROVE  LET cs == Pick(Registered, I)
         IN  /\ cs \in Seq(Range(Registered)) /\ NewestDown(cs)
             /\ Range(cs) = {Registered[i] : i \in I}
  <1> DEFINE cs == Pick(Registered, I)
             n == Cardinality(I)
             order == Ascending(I)
  <1>1. /\ n \in Nat /\ order \in [1..n -> I]
        /\ \A i \in I : \E k \in 1..n : order[k] = i
        /\ \A j, k \in 1..n : j < k => order[j] < order[k]
        /\ cs \in Seq(Range(Registered)) /\ DOMAIN cs = 1..n
        /\ \A k \in 1..n : cs[k] = Registered[order[k]]
    BY RegisteredAssumption, PickKeeps
  <1> HIDE DEF cs, n, order
  <1>2. \A j, k \in 1..n : j < k => cs[j].ends > cs[k].ends
    <2> TAKE j, k \in 1..n
    <2> HAVE j < k
    <2>1. order[j] \in DOMAIN Registered /\ order[k] \in DOMAIN Registered /\ order[j] < order[k]
      BY <1>1
    <2> QED BY <1>1, <2>1, NewestFirst
  <1>3. Range(cs) = {Registered[i] : i \in I}
    <2>1. \A k \in 1..n : order[k] \in I
      BY <1>1
    <2> QED BY <1>1, <2>1 DEF Range
  <1> QED BY <1>1, <1>2, <1>3 DEF cs, NewestDown

\* The list is newest first, so the crawls that end later stand before.
LEMMA NewerStandBefore ==
  ASSUME NEW i \in DOMAIN Registered
  PROVE  i \in Nat \ {0} /\ Newer(Registered[i]) = 1..(i - 1) /\ Cardinality(Newer(Registered[i])) = i - 1
  <1>1. DOMAIN Registered = 1..Len(Registered) /\ Len(Registered) \in Nat
    BY RegisteredAssumption
  <1>2. \A j \in DOMAIN Registered : Registered[j].ends \in Nat
    BY RegisteredAssumption DEF IsCrawl, Range
  <1>3. \A j \in DOMAIN Registered : Registered[j].ends > Registered[i].ends <=> j < i
    <2> TAKE j \in DOMAIN Registered
    <2>1. j < i => Registered[j].ends > Registered[i].ends
      BY NewestFirst
    <2>2. i < j => Registered[i].ends > Registered[j].ends
      BY NewestFirst
    <2>3. i \in Nat /\ j \in Nat /\ Registered[j].ends \in Nat /\ Registered[i].ends \in Nat
      BY <1>1, <1>2
    <2>4. CASE j = i
      BY <2>3, <2>4
    <2> QED BY <2>1, <2>2, <2>3, <2>4
  <1>4. Newer(Registered[i]) = 1..(i - 1)
    BY <1>1, <1>3 DEF Newer
  <1>5. Cardinality(1..(i - 1)) = i - 1
    <2>1. i \in Nat \ {0} /\ 1 \in Int /\ i - 1 \in Int
      BY <1>1
    <2>2. Cardinality(1..(i - 1)) = IF 1 > i - 1 THEN 0 ELSE (i - 1) - 1 + 1
      BY <2>1, FS_Interval
    <2> QED BY <2>1, <2>2
  <1> QED BY <1>1, <1>4, <1>5

LEMMA FirstCrawls ==
  ASSUME NEW n \in Nat
  PROVE  /\ FirstOf(n) \in Seq(Range(Registered)) /\ NewestDown(FirstOf(n))
         /\ Range(FirstOf(n)) = {Registered[i] : i \in {k \in DOMAIN Registered : k <= n}}
  <1> DEFINE l == Len(Registered)
             m == IF n < l THEN n ELSE l
  <1>1. /\ Registered \in Seq(Range(Registered)) /\ l \in Nat /\ DOMAIN Registered = 1..l
        /\ m \in 0..l
    BY RegisteredAssumption
  <1>2. FirstOf(n) = SubSeq(Registered, 1, m)
    BY DEF FirstOf
  <1>3. /\ FirstOf(n) \in Seq(Range(Registered)) /\ Len(FirstOf(n)) = m
        /\ \A i \in 1..m : FirstOf(n)[i] = Registered[i]
    BY <1>1, <1>2, Beginning
  <1>4. DOMAIN FirstOf(n) = 1..m /\ 1..m = {k \in DOMAIN Registered : k <= n}
    BY <1>1, <1>3
  <1>5. \A j, k \in 1..m : j < k => FirstOf(n)[j].ends > FirstOf(n)[k].ends
    BY <1>1, <1>3, <1>4, NewestFirst
  <1> HIDE DEF m, l
  <1>6. Range(FirstOf(n)) = {Registered[i] : i \in 1..m}
    BY <1>3, <1>4 DEF Range
  <1> QED BY <1>3, <1>4, <1>5, <1>6 DEF NewestDown

\* A selector is resolved to crawls of the list, in its order, and to those it
\* names; by since to those that cover it.
LEMMA Resolved ==
  ASSUME NEW sel, IsSelector(sel)
  PROVE  LET cs == Resolve(sel)
             Chosen(c) == IF sel.kind = "since" THEN CoversSince(c, sel.since) ELSE Named(sel, c)
         IN  /\ cs \in Seq(Range(Registered)) /\ NewestDown(cs)
             /\ \A c \in Range(Registered) : c \in Range(cs) <=> Chosen(c)
  <1> DEFINE cs == Resolve(sel)
             Chosen(c) == IF sel.kind = "since" THEN CoversSince(c, sel.since) ELSE Named(sel, c)
             Places == {i \in DOMAIN Registered : Chosen(Registered[i])}
             Good == /\ cs \in Seq(Range(Registered)) /\ NewestDown(cs)
                     /\ Range(cs) = {Registered[i] : i \in Places}
  <1>1. ASSUME sel.kind = "all" PROVE Good
    <2>1. cs = Registered /\ Places = DOMAIN Registered
      BY <1>1 DEF Resolve, Named
    <2>2. NewestDown(Registered)
      BY NewestFirst DEF NewestDown
    <2>3. Range(Registered) = {Registered[i] : i \in DOMAIN Registered}
      BY DEF Range
    <2> HIDE DEF cs, Places
    <2> QED BY <2>1, <2>2, <2>3, RegisteredAssumption
  <1>2. ASSUME sel.kind \in {"latest", "latest-n"} PROVE Good
    <2> DEFINE n == IF sel.kind = "latest" THEN 1 ELSE sel.n
    <2>1. n \in Nat /\ cs = FirstOf(n)
      BY <1>2 DEF Resolve, IsSelector
    <2>2. \A i \in DOMAIN Registered : i \in Places <=> i <= n
      <3> TAKE i \in DOMAIN Registered
      <3>1. /\ i \in Nat \ {0} /\ Newer(Registered[i]) = 1..(i - 1)
            /\ Cardinality(Newer(Registered[i])) = i - 1
        BY NewerStandBefore
      <3>2. CASE sel.kind = "latest"
        <4>1. Chosen(Registered[i]) <=> 1..(i - 1) = {}
          BY <3>1, <3>2 DEF Named
        <4>2. 1..(i - 1) = {} <=> i <= 1
          <5>1. i > 1 => 1 \in 1..(i - 1)
            BY <3>1
          <5>2. i <= 1 => 1..(i - 1) = {}
            BY <3>1
          <5> QED BY <3>1, <5>1, <5>2
        <4> QED BY <3>2, <4>1, <4>2
      <3>3. CASE sel.kind = "latest-n"
        <4>1. Chosen(Registered[i]) <=> i - 1 < n
          BY <3>1, <3>3 DEF Named
        <4> QED BY <2>1, <3>1, <4>1
      <3> QED BY <1>2, <3>2, <3>3
    <2>3. Places = {k \in DOMAIN Registered : k <= n}
      BY <2>2
    <2> HIDE DEF cs, Places, n
    <2> QED BY <2>1, <2>3, FirstCrawls
  <1>3. ASSUME sel.kind \in {"ids", "years", "since"} PROVE Good
    <2>1. cs = Pick(Registered, Places)
      <3>1. CASE sel.kind = "ids"
        <4>1. cs = Pick(Registered, {i \in DOMAIN Registered : Registered[i].id \in sel.ids})
          BY <3>1 DEF Resolve, Those
        <4>2. Places = {i \in DOMAIN Registered : Registered[i].id \in sel.ids}
          BY <3>1 DEF Named
        <4> QED BY <4>1, <4>2
      <3>2. CASE sel.kind = "years"
        <4>1. cs = Pick(Registered, {i \in DOMAIN Registered : Within(Registered[i].year, sel.from, sel.to)})
          BY <3>2 DEF Resolve, Those
        <4>2. \A i \in DOMAIN Registered :
                Within(Registered[i].year, sel.from, sel.to) <=> Registered[i].year \in sel.from..sel.to
          <5> TAKE i \in DOMAIN Registered
          <5>1. Registered[i].year \in Nat \cup {None}
            BY RegisteredAssumption DEF IsCrawl, Range
          <5>2. sel.from \in Nat /\ sel.to \in Nat
            BY <3>2 DEF IsSelector
          <5> QED BY <5>1, <5>2 DEF Within, None
        <4>3. Places = {i \in DOMAIN Registered : Registered[i].year \in sel.from..sel.to}
          BY <3>2 DEF Named
        <4>4. Places = {i \in DOMAIN Registered : Within(Registered[i].year, sel.from, sel.to)}
          BY <4>2, <4>3
        <4> QED BY <4>1, <4>4
      <3>3. CASE sel.kind = "since"
        <4>1. cs = Pick(Registered, {i \in DOMAIN Registered : CoversSince(Registered[i], sel.since)})
          BY <3>3 DEF Resolve, Those
        <4>2. Places = {i \in DOMAIN Registered : CoversSince(Registered[i], sel.since)}
          BY <3>3
        <4> QED BY <4>1, <4>2
      <3> QED BY <1>3, <3>1, <3>2, <3>3
    <2>2. Places \subseteq DOMAIN Registered
      OBVIOUS
    <2> HIDE DEF cs, Places
    <2> QED BY <2>1, <2>2, PickedCrawls
  <1>4. Good
    BY <1>1, <1>2, <1>3 DEF IsSelector, SelectorKinds
  <1>5. \A c \in Range(Registered) : c \in Range(cs) <=> Chosen(c)
    <2> TAKE c \in Range(Registered)
    <2>1. \A i \in DOMAIN Registered : i \in Places <=> Chosen(Registered[i])
      OBVIOUS
    <2>2. Range(cs) = {Registered[i] : i \in Places} /\ Places \subseteq DOMAIN Registered
      BY <1>4
    <2>3. PICK i \in DOMAIN Registered : c = Registered[i]
      BY DEF Range
    <2> HIDE DEF cs, Places, Chosen
    <2> QED BY <2>1, <2>2, <2>3
  <1> QED BY <1>4, <1>5

LEMMA YearsGrow ==
  ASSUME NEW a \in Nat, NEW b \in Nat, a <= b
  PROVE  YearOf(a) \in Nat /\ YearOf(b) \in Nat /\ YearOf(a) <= YearOf(b)
  <1> DEFINE l == YearLength
             x == a \div l
             y == b \div l
  <1>0. l \in Nat \ {0}
    BY YearAssumption
  <1>1. x \in Nat /\ a >= l * x /\ a < l * x + l
    BY <1>0
  <1>2. y \in Nat /\ b >= l * y /\ b < l * y + l
    BY <1>0
  <1> HIDE DEF x, y, l
  <1>3. ~(y < x)
    <2> SUFFICES ASSUME y < x PROVE FALSE
      OBVIOUS
    <2>1. l * (y + 1) <= l * x
      BY <1>0, <1>1, <1>2
    <2>2. l * (y + 1) = l * y + l /\ l * x \in Nat /\ l * y \in Nat
      BY <1>0, <1>1, <1>2
    <2> QED BY <1>0, <1>1, <1>2, <2>1, <2>2
  <1> QED BY <1>1, <1>2, <1>3 DEF x, y, l, YearOf

\* What the year in the id is worth, where there is no end of coverage.
LEMMA SinceMeans ==
  ASSUME NEW sel, IsSelector(sel), sel.kind = "since", NEW c \in Range(Registered)
  PROVE  /\ Named(sel, c) /\ ~CoversSince(c, sel.since) => c.to = None /\ YearOf(c.ends) > c.year
         /\ CoversSince(c, sel.since) => \/ Named(sel, c)
                                         \/ c.to = None /\ c.year = YearOf(sel.since)
  <1>1. sel.since \in Nat /\ IsCrawl(c) /\ (Named(sel, c) <=> c.ends >= sel.since)
    BY RegisteredAssumption DEF IsSelector, Named
  <1>2. c.ends \in Nat /\ c.year \in Nat \cup {None} /\ c.year <= YearOf(c.ends)
    BY <1>1 DEF IsCrawl
  <1>3. CASE c.to # None
    BY <1>1, <1>3 DEF IsCrawl, CoversSince
  <1>4. CASE c.to = None
    <2>1. CoversSince(c, sel.since) <=> c.year # None /\ c.year >= YearOf(sel.since)
      BY <1>4 DEF CoversSince
    <2>2. YearOf(c.ends) \in Nat /\ YearOf(sel.since) \in Nat
      BY <1>1, <1>2, YearsGrow
    <2>3. CASE c.ends >= sel.since
      <3>1. YearOf(sel.since) <= YearOf(c.ends)
        BY <1>1, <1>2, <2>3, YearsGrow
      <3> QED BY <1>1, <1>2, <1>4, <2>1, <2>2, <2>3, <3>1 DEF None
    <2>4. CASE ~(c.ends >= sel.since)
      <3>1. YearOf(c.ends) <= YearOf(sel.since)
        BY <1>1, <1>2, <2>4, YearsGrow
      <3> QED BY <1>1, <1>2, <1>4, <2>1, <2>2, <2>4, <3>1 DEF None
    <2> QED BY <2>3, <2>4
  <1> QED BY <1>3, <1>4

----------------------------------------------------------------------------
(* Reading a table.  The rows of files F in front of a batch: those of the   *)
(* files before, and of the batches before in its own file.                  *)

ReadUpTo(F, f, b) == FlattenSeq(FlattenSeq(SubSeq(F, 1, f - 1)) \o SubSeq(F[f], 1, b - 1))

LEMMA FlattenOne ==
  ASSUME NEW T, NEW e \in Seq(T)
  PROVE  FlattenSeq(<<e>>) = e
  <1> DEFINE s == <<e>>
  <1>1. s \in Seq(Seq(T)) /\ Len(s) = 1 /\ s[1] = e
    OBVIOUS
  <1> HIDE DEF s
  <1>2. FlattenSeq(s) = FlattenSeq(SubSeq(s, 1, 1))
    BY <1>1, FlattenAll
  <1>3. FlattenSeq(SubSeq(s, 1, 1)) = FlattenSeq(SubSeq(s, 1, 1 - 1)) \o s[1]
    <2> DEFINE n == 1
    <2>1. n \in 0..Len(s) /\ n # 0
      BY <1>1
    <2> HIDE DEF n
    <2>2. FlattenSeq(SubSeq(s, 1, n)) = FlattenSeq(SubSeq(s, 1, n - 1)) \o s[n]
      BY <1>1, <2>1, FlattenStep
    <2> QED BY <2>2 DEF n
  <1>4. FlattenSeq(SubSeq(s, 1, 1 - 1)) = <<>>
    <2>1. SubSeq(s, 1, 1 - 1) = <<>>
      BY SubSeqEmpty
    <2> QED BY <2>1, FlattenNone
  <1>5. <<>> \o e = e
    OBVIOUS
  <1> QED BY <1>1, <1>2, <1>3, <1>4, <1>5 DEF s

LEMMA ReadingStarts ==
  ASSUME NEW F
  PROVE  ReadUpTo(F, 1, 1) = <<>>
  <1>1. SubSeq(F, 1, 1 - 1) = <<>> /\ SubSeq(F[1], 1, 1 - 1) = <<>>
    BY SubSeqEmpty
  <1>2. FlattenSeq(<<>>) = <<>> /\ <<>> \o <<>> = <<>>
    BY FlattenNone
  <1> QED BY <1>1, <1>2 DEF ReadUpTo

\* What is added at the end of a list of lists is added at the end of the whole.
\* The provers take an equation with a concatenation apart unless it has a name.
Joined(s, t) == s \o t

LEMMA FlattenBehind ==
  ASSUME NEW T, NEW x \in Seq(Seq(T)), NEW y \in Seq(Seq(T)), NEW w \in Seq(Seq(T)),
         NEW e \in Seq(T), FlattenSeq(w) = Joined(FlattenSeq(y), e)
  PROVE  /\ FlattenSeq(Joined(x, y)) \in Seq(T)
         /\ FlattenSeq(Joined(x, w)) = Joined(FlattenSeq(Joined(x, y)), e)
  <1> DEFINE fx == FlattenSeq(x)
             fy == FlattenSeq(y)
  <1>1. fx \in Seq(T) /\ fy \in Seq(T)
    BY FlattenAll
  <1>2. FlattenSeq(x \o y) = fx \o fy /\ FlattenSeq(x \o w) = fx \o (fy \o e)
    BY FlattenAppend DEF Joined
  <1> HIDE DEF fx, fy
  <1>3. fx \o fy \in Seq(T) /\ (fx \o fy) \o e = fx \o (fy \o e)
    <2>1. \A u, v, t \in Seq(T) : (u \o v) \o t = u \o (v \o t)
      BY ONLY ConcatAssociative, SMTT(20)
    <2>2. fx \o fy \in Seq(T)
      BY <1>1
    <2> QED BY <1>1, <2>1, <2>2
  <1> QED BY <1>2, <1>3, Zenon DEF Joined

LEMMA BatchRead ==
  ASSUME NEW T, NEW F \in Seq(Seq(Seq(T))), NEW f \in 1..Len(F), NEW b \in 1..Len(F[f])
  PROVE  /\ ReadUpTo(F, f, b) \in Seq(T) /\ F[f][b] \in Seq(T)
         /\ ReadUpTo(F, f, b + 1) = Joined(ReadUpTo(F, f, b), F[f][b])
  <1> DEFINE x == FlattenSeq(SubSeq(F, 1, f - 1))
             G == F[f]
  <1>1. f - 1 \in 0..Len(F) /\ G \in Seq(Seq(T)) /\ b \in 1..Len(G) /\ G[b] \in Seq(T)
    OBVIOUS
  <1>2. x \in Seq(Seq(T))
    BY <1>1, FlattenStep
  <1>3. /\ ReadUpTo(F, f, b) = FlattenSeq(x \o SubSeq(G, 1, b - 1))
        /\ ReadUpTo(F, f, b + 1) = FlattenSeq(x \o SubSeq(G, 1, b))
    <2>1. b + 1 - 1 = b
      OBVIOUS
    <2>2. ReadUpTo(F, f, b + 1) = FlattenSeq(x \o SubSeq(G, 1, b + 1 - 1))
      BY DEF ReadUpTo
    <2> QED BY <2>1, <2>2 DEF ReadUpTo
  <1> DEFINE y == SubSeq(G, 1, b - 1)
             w == SubSeq(G, 1, b)
             e == G[b]
  <1>4. y \in Seq(Seq(T)) /\ w \in Seq(Seq(T)) /\ e \in Seq(T)
        /\ FlattenSeq(w) = Joined(FlattenSeq(y), e)
    <2>1. b - 1 \in 0..Len(G) /\ b \in 0..Len(G) /\ b # 0
      BY <1>1
    <2> HIDE DEF G
    <2> QED BY <1>1, <2>1, Beginning, FlattenStep DEF Joined
  <1> HIDE DEF x, y, w, e
  <1>5. /\ FlattenSeq(Joined(x, y)) \in Seq(T)
        /\ FlattenSeq(Joined(x, w)) = Joined(FlattenSeq(Joined(x, y)), e)
    BY <1>2, <1>4, FlattenBehind
  <1>6. ReadUpTo(F, f, b) = FlattenSeq(Joined(x, y)) /\ ReadUpTo(F, f, b + 1) = FlattenSeq(Joined(x, w))
    BY <1>3 DEF Joined, y, w
  <1>7. e = F[f][b]
    BY Zenon DEF e, G
  <1> QED BY <1>1, <1>5, <1>6, <1>7, Zenon

LEMMA FileRead ==
  ASSUME NEW T, NEW F \in Seq(Seq(Seq(T))), NEW f \in 1..Len(F)
  PROVE  ReadUpTo(F, f + 1, 1) = ReadUpTo(F, f, Len(F[f]) + 1)
  <1> DEFINE x == FlattenSeq(SubSeq(F, 1, f - 1))
             G == F[f]
  <1>1. f \in 0..Len(F) /\ f # 0 /\ f - 1 \in 0..Len(F) /\ f + 1 - 1 = f /\ G \in Seq(Seq(T))
    OBVIOUS
  <1>2. FlattenSeq(SubSeq(F, 1, f)) = x \o G /\ FlattenSeq(SubSeq(F, 1, f)) \in Seq(Seq(T))
    BY <1>1, FlattenStep
  <1> HIDE DEF x, G
  <1>3. SubSeq(F[f + 1], 1, 1 - 1) = <<>>
    BY SubSeqEmpty
  <1>4. (x \o G) \o <<>> = x \o G
    BY <1>2
  <1>5. SubSeq(G, 1, Len(G) + 1 - 1) = G
    BY <1>1
  <1>6. ReadUpTo(F, f + 1, 1) = FlattenSeq(x \o G)
    <2>1. ReadUpTo(F, f + 1, 1)
            = FlattenSeq(FlattenSeq(SubSeq(F, 1, f + 1 - 1)) \o SubSeq(F[f + 1], 1, 1 - 1))
      BY DEF ReadUpTo
    <2>2. SubSeq(F, 1, f + 1 - 1) = SubSeq(F, 1, f)
      BY <1>1
    <2> QED BY <1>2, <1>3, <1>4, <2>1, <2>2
  <1>7. ReadUpTo(F, f, Len(G) + 1) = FlattenSeq(x \o G)
    <2>1. ReadUpTo(F, f, Len(G) + 1) = FlattenSeq(x \o SubSeq(G, 1, Len(G) + 1 - 1))
      BY DEF ReadUpTo, x, G
    <2> QED BY <1>5, <2>1
  <1> QED BY <1>6, <1>7 DEF G

LEMMA AllRead ==
  ASSUME NEW T, NEW F \in Seq(Seq(Seq(T)))
  PROVE  /\ ReadUpTo(F, Len(F) + 1, 1) = FlattenSeq(FlattenSeq(F))
         /\ FlattenSeq(FlattenSeq(F)) \in Seq(T)
  <1>1. Len(F) + 1 - 1 = Len(F)
    OBVIOUS
  <1>2. FlattenSeq(SubSeq(F, 1, Len(F))) = FlattenSeq(F) /\ FlattenSeq(F) \in Seq(Seq(T))
    BY FlattenAll
  <1>3. SubSeq(F[Len(F) + 1], 1, 1 - 1) = <<>>
    BY SubSeqEmpty
  <1>4. FlattenSeq(F) \o <<>> = FlattenSeq(F)
    BY <1>2
  <1>5. FlattenSeq(FlattenSeq(F)) \in Seq(T)
    BY <1>2, FlattenAll
  <1>6. ReadUpTo(F, Len(F) + 1, 1)
          = FlattenSeq(FlattenSeq(SubSeq(F, 1, Len(F) + 1 - 1)) \o SubSeq(F[Len(F) + 1], 1, 1 - 1))
    BY DEF ReadUpTo
  <1> QED BY <1>1, <1>2, <1>3, <1>4, <1>5, <1>6

----------------------------------------------------------------------------
(* What is handed out for rows: those in a set W, in their order, under the  *)
(* id of their crawl.                                                        *)

Tagged(id, rows) == [k \in DOMAIN rows |-> [crawl |-> id, row |-> rows[k]]]

Chosen(W, id, rows) == Tagged(id, Pick(rows, Among(rows, W)))

TaggedRows == [crawl : DOMAIN Files, row : Rows]

LEMMA TaggedAppend ==
  ASSUME NEW id, NEW T, NEW s \in Seq(T), NEW t \in Seq(T)
  PROVE  Tagged(id, s \o t) = Tagged(id, s) \o Tagged(id, t)
  <1> DEFINE E(x) == [crawl |-> id, row |-> x]
             U == {E(x) : x \in T}
             l == Len(s)
             m == Len(t)
             a == Tagged(id, s)
             b == Tagged(id, t)
             c == Tagged(id, s \o t)
  <1>1. /\ l \in Nat /\ m \in Nat /\ s \o t \in Seq(T)
        /\ DOMAIN s = 1..l /\ DOMAIN t = 1..m /\ DOMAIN (s \o t) = 1..(l + m) /\ l + m \in Nat
        /\ \A k \in 1..l : (s \o t)[k] = s[k]
        /\ \A k \in 1..m : (s \o t)[l + k] = t[k]
    BY Appended
  <1>2. /\ a = [k \in 1..l |-> E(s[k])] /\ b = [k \in 1..m |-> E(t[k])]
        /\ c = [k \in 1..(l + m) |-> E((s \o t)[k])]
    BY <1>1 DEF Tagged
  <1>3. /\ \A k \in 1..l : E(s[k]) \in U
        /\ \A k \in 1..m : E(t[k]) \in U
        /\ \A k \in 1..(l + m) : E((s \o t)[k]) \in U
    <2>1. \A x \in T : E(x) \in U
      OBVIOUS
    <2>2. /\ \A k \in 1..l : s[k] \in T
          /\ \A k \in 1..m : t[k] \in T
          /\ \A k \in 1..(l + m) : (s \o t)[k] \in T
      BY <1>1
    <2> HIDE DEF E, U
    <2> QED BY <2>1, <2>2
  <1> HIDE DEF E, U, a, b, c
  <1>4. a \in [1..l -> U] /\ b \in [1..m -> U] /\ c \in [1..(l + m) -> U]
    BY <1>2, <1>3
  <1>5. /\ a \in Seq(U) /\ Len(a) = l /\ b \in Seq(U) /\ Len(b) = m
        /\ c \in Seq(U) /\ Len(c) = l + m
    BY <1>1, <1>4, FunctionIsSeq
  <1>6. /\ a \o b \in Seq(U) /\ Len(a \o b) = l + m
        /\ \A k \in 1..l : (a \o b)[k] = a[k]
        /\ \A k \in 1..m : (a \o b)[l + k] = b[k]
    <2>1. a \in Seq(U) /\ b \in Seq(U)
      BY <1>5
    <2>2. /\ a \o b \in Seq(U) /\ Len(a \o b) = Len(a) + Len(b)
          /\ \A k \in 1..Len(a) : (a \o b)[k] = a[k]
          /\ \A k \in 1..Len(b) : (a \o b)[Len(a) + k] = b[k]
      BY <2>1, Appended
    <2> QED BY <1>5, <2>2
  <1> HIDE DEF l, m
  <1>7. ASSUME NEW k \in 1..(l + m) PROVE c[k] = (a \o b)[k]
    <2>1. CASE k <= l
      <3>1. k \in 1..l
        BY <1>1, <2>1
      <3> QED BY <1>1, <1>2, <1>6, <3>1
    <2>2. CASE k > l
      <3> DEFINE j == k - l
      <3>1. j \in 1..m /\ l + j = k
        BY <1>1, <2>2
      <3> HIDE DEF j
      <3>2. c[l + j] = E((s \o t)[l + j]) /\ (a \o b)[l + j] = b[j] /\ b[j] = E(t[j])
        BY <1>2, <1>6, <3>1
      <3>3. c[l + j] = (a \o b)[l + j]
        BY <1>1, <3>1, <3>2
      <3> QED BY <3>1, <3>3
    <2>3. k <= l \/ k > l
      <3>1. k \in Int /\ l \in Int
        BY <1>1
      <3> QED BY <3>1
    <2> QED BY <2>1, <2>2, <2>3
  <1>8. c = a \o b
    <2>1. \A k \in 1..Len(c) : c[k] = (a \o b)[k]
      BY <1>5, <1>7
    <2> QED BY <1>5, <1>6, <2>1, SeqEqual
  <1> QED BY <1>8 DEF a, b, c

LEMMA ChosenAppend ==
  ASSUME NEW W, NEW id, NEW T, NEW s \in Seq(T), NEW t \in Seq(T)
  PROVE  Chosen(W, id, Joined(s, t)) = Joined(Chosen(W, id, s), Chosen(W, id, t))
  <1> DEFINE a == Pick(s, Among(s, W))
             b == Pick(t, Among(t, W))
  <1>1. a \in Seq(T) /\ b \in Seq(T)
    BY PickKeeps DEF Among
  <1>2. Pick(s \o t, Among(s \o t, W)) = a \o b
    BY PickAppend
  <1> HIDE DEF a, b
  <1>3. Tagged(id, a \o b) = Tagged(id, a) \o Tagged(id, b)
    BY <1>1, TaggedAppend
  <1> QED BY <1>2, <1>3, Zenon DEF Chosen, Joined, a, b

LEMMA ChosenRows ==
  ASSUME NEW W, NEW id \in DOMAIN Files, NEW rows \in Seq(Rows)
  PROVE  /\ Chosen(W, id, rows) \in Seq(TaggedRows)
         /\ \A k \in DOMAIN Chosen(W, id, rows) : Chosen(W, id, rows)[k].row \in W
         /\ Range(Chosen(W, id, rows)) =
              {[crawl |-> id, row |-> row] : row \in {r \in Range(rows) : r \in W}}
  <1> DEFINE p == Pick(rows, Among(rows, W))
             n == Len(p)
             c == Chosen(W, id, rows)
  <1>1. p \in Seq(Rows) /\ n \in Nat /\ DOMAIN p = 1..n
    BY PickKeeps DEF Among
  <1>2. Range(p) = {x \in Range(rows) : x \in W}
    BY PickHolds
  <1>4. c = [k \in 1..n |-> [crawl |-> id, row |-> p[k]]]
    BY <1>1 DEF Chosen, Tagged
  <1> HIDE DEF p, n, c
  <1>5. \A k \in 1..n : p[k] \in Rows /\ p[k] \in Range(p)
    BY <1>1 DEF Range
  <1>6. c \in [1..n -> TaggedRows]
    BY <1>4, <1>5 DEF TaggedRows
  <1>7. c \in Seq(TaggedRows) /\ DOMAIN c = 1..n
    BY <1>1, <1>6, FunctionIsSeq
  <1>8. \A k \in 1..n : c[k].row = p[k] /\ c[k] = [crawl |-> id, row |-> p[k]]
    BY <1>4
  <1>9. \A k \in 1..n : c[k].row \in W
    BY <1>2, <1>5, <1>8
  <1>10. Range(c) = {[crawl |-> id, row |-> row] : row \in {r \in Range(rows) : r \in W}}
    <2>1. Range(c) = {[crawl |-> id, row |-> p[k]] : k \in 1..n}
      BY <1>7, <1>8 DEF Range
    <2>2. Range(p) = {p[k] : k \in 1..n}
      BY <1>1 DEF Range
    <2> QED BY <1>2, <2>1, <2>2
  <1> QED BY <1>7, <1>9, <1>10 DEF c

LEMMA NothingChosen ==
  ASSUME NEW W, NEW id
  PROVE  Chosen(W, id, <<>>) = <<>>
  <1> DEFINE rows == <<>>
             p == Pick(rows, Among(rows, W))
  <1>1. rows \in Seq({}) /\ Among(rows, W) \subseteq DOMAIN rows /\ Among(rows, W) = {}
    BY DEF Among
  <1>2. DOMAIN p = 1..Cardinality(Among(rows, W))
    <2> HIDE DEF rows
    <2> QED BY <1>1, PickKeeps
  <1>3. Cardinality({}) = 0 /\ 1..0 = {}
    BY FS_EmptySet
  <1>4. DOMAIN p = {}
    BY <1>1, <1>2, <1>3
  <1> HIDE DEF p
  <1>5. Tagged(id, p) = <<>>
    BY <1>4 DEF Tagged
  <1> QED BY <1>5 DEF Chosen, p

LEMMA FilesAreRows ==
  ASSUME NEW id \in DOMAIN Files
  PROVE  Files[id] \in Seq(Seq(Seq(Rows)))
  <1> DEFINE A == RowsOf(id)
  <1>1. A \subseteq Rows
    BY DEF Rows
  <1>2. Files[id] \in Seq(Seq(Seq(A)))
    BY TableAssumption
  <1> HIDE DEF A
  <1>3. \A S, U : S \subseteq U => Seq(S) \subseteq Seq(U)
    BY SeqMonotonic
  <1>4. Seq(A) \subseteq Seq(Rows)
    BY <1>1, <1>3, Zenon
  <1>5. Seq(Seq(A)) \subseteq Seq(Seq(Rows))
    BY <1>3, <1>4, Zenon
  <1>6. Seq(Seq(Seq(A))) \subseteq Seq(Seq(Seq(Rows)))
    BY <1>3, <1>5, Zenon
  <1> QED BY <1>2, <1>6, Zenon

\* All rows of a crawl, and what the crawls cs have in W.
Whole(id) == FlattenSeq(FlattenSeq(Files[id]))

AnswersOf(W, cs) == [c \in DOMAIN cs |-> Chosen(W, cs[c].id, Whole(cs[c].id))]

DoneTo(W, cs, n) == FlattenSeq(SubSeq(AnswersOf(W, cs), 1, n))

LEMMA AnswersType ==
  ASSUME NEW W, NEW cs \in Seq(Range(Registered))
  PROVE  /\ AnswersOf(W, cs) \in Seq(Seq(TaggedRows)) /\ Len(AnswersOf(W, cs)) = Len(cs)
         /\ Len(cs) \in Nat /\ DOMAIN cs = 1..Len(cs)
         /\ \A c \in 1..Len(cs) :
              /\ cs[c].id \in DOMAIN Files /\ Whole(cs[c].id) \in Seq(Rows)
              /\ AnswersOf(W, cs)[c] = Chosen(W, cs[c].id, Whole(cs[c].id))
              /\ AnswersOf(W, cs)[c] \in Seq(TaggedRows)
  <1> DEFINE a == AnswersOf(W, cs)
             E(c) == Chosen(W, cs[c].id, Whole(cs[c].id))
  <1>1. Len(cs) \in Nat /\ DOMAIN cs = 1..Len(cs)
    OBVIOUS
  <1>2. ASSUME NEW c \in 1..Len(cs)
        PROVE  cs[c].id \in DOMAIN Files /\ Whole(cs[c].id) \in Seq(Rows) /\ E(c) \in Seq(TaggedRows)
    <2>1. cs[c].id \in DOMAIN Files
      <3>1. cs[c] \in Range(Registered)
        OBVIOUS
      <3> QED BY <3>1, TableAssumption
    <2>2. Whole(cs[c].id) \in Seq(Rows)
      BY <2>1, FilesAreRows, AllRead DEF Whole
    <2> QED BY <2>1, <2>2, ChosenRows
  <1>3. a = [c \in 1..Len(cs) |-> E(c)]
    BY <1>1 DEF AnswersOf
  <1> HIDE DEF a, E
  <1>4. a \in [1..Len(cs) -> Seq(TaggedRows)]
    BY <1>2, <1>3
  <1>5. a \in Seq(Seq(TaggedRows)) /\ Len(a) = Len(cs)
    BY <1>1, <1>4, FunctionIsSeq
  <1>6. \A c \in 1..Len(cs) : a[c] = E(c)
    BY <1>3
  <1> QED BY <1>1, <1>2, <1>5, <1>6 DEF a, E

LEMMA DoneType ==
  ASSUME NEW W, NEW cs \in Seq(Range(Registered)), NEW n \in 0..Len(cs)
  PROVE  /\ DoneTo(W, cs, n) \in Seq(TaggedRows)
         /\ n = 0 => DoneTo(W, cs, n) = <<>>
         /\ n # 0 => DoneTo(W, cs, n)
                        = Joined(DoneTo(W, cs, n - 1), Chosen(W, cs[n].id, Whole(cs[n].id)))
         /\ n = Len(cs) => DoneTo(W, cs, n) = FlattenSeq(AnswersOf(W, cs))
  <1> DEFINE a == AnswersOf(W, cs)
  <1>1. /\ a \in Seq(Seq(TaggedRows)) /\ Len(a) = Len(cs) /\ Len(cs) \in Nat
        /\ \A c \in 1..Len(cs) : a[c] = Chosen(W, cs[c].id, Whole(cs[c].id))
    BY AnswersType
  <1>2. n \in 0..Len(a) /\ (n # 0 => n \in 1..Len(cs))
    BY <1>1
  <1>3. DoneTo(W, cs, n) = FlattenSeq(SubSeq(a, 1, n)) /\ DoneTo(W, cs, n - 1) = FlattenSeq(SubSeq(a, 1, n - 1))
    BY DEF DoneTo
  <1> HIDE DEF a
  <1>4. FlattenSeq(SubSeq(a, 1, n)) \in Seq(TaggedRows) /\ (n = 0 => FlattenSeq(SubSeq(a, 1, n)) = <<>>)
    BY <1>1, <1>2, FlattenStep
  <1>5. n # 0 => FlattenSeq(SubSeq(a, 1, n)) = Joined(FlattenSeq(SubSeq(a, 1, n - 1)), a[n])
    BY <1>1, <1>2, FlattenStep DEF Joined
  <1>6. n = Len(cs) => FlattenSeq(SubSeq(a, 1, n)) = FlattenSeq(a)
    BY <1>1, FlattenAll
  <1> QED BY <1>1, <1>2, <1>3, <1>4, <1>5, <1>6 DEF a

----------------------------------------------------------------------------
(* The search.  The invariant: the buffer holds what passes of the crawls    *)
(* before the present one, and of the rows read in that.                     *)

Passing(q) == {row \in Rows : Passes(q, row)}

\* Of the crawl at hand.
InHand == IF crawl \in DOMAIN crawls
          THEN Chosen(Passing(query), crawls[crawl].id, ReadUpTo(FilesOf(crawl), file, batch))
          ELSE <<>>

BTypeOK ==
  /\ query \in Queries
  /\ crawls \in Seq(Range(Registered))
  /\ phase \in {"resolving", "reading", "done", "failed"}
  /\ out \in Seq(TaggedRows)
  /\ file \in Nat \ {0} /\ batch \in Nat \ {0}

OnlyPassing == \A k \in DOMAIN out : out[k].row \in Passing(query)

AtStart == phase = "resolving" => crawls = <<>> /\ crawl = 1 /\ file = 1 /\ batch = 1 /\ out = <<>>

Spanned == phase \in {"reading", "done"} => crawls = Resolve(query.crawls)

\* The loops stop one place behind the last.
InPlace ==
  /\ crawl \in 1..(Len(crawls) + 1)
  /\ crawl \in DOMAIN crawls => file \in 1..(Len(FilesOf(crawl)) + 1)
  /\ crawl \in DOMAIN crawls =>
       IF file \in DOMAIN FilesOf(crawl) THEN batch \in 1..(Len(FilesOf(crawl)[file]) + 1)
       ELSE batch = 1
  /\ phase = "done" => crawl > Len(crawls)

Progress == phase # "failed" => out = Joined(DoneTo(Passing(query), crawls, crawl - 1), InHand)

BInv == BTypeOK /\ OnlyPassing /\ AtStart /\ Spanned /\ InPlace /\ Progress

LEMMA NothingJoined == Joined(<<>>, <<>>) = <<>>
  BY DEF Joined

\* With the first crawl to come nothing is done and nothing is in hand.
LEMMA ProgressAtStart ==
  ASSUME NEW W, NEW cs \in Seq(Range(Registered))
  PROVE  Joined(DoneTo(W, cs, 1 - 1),
                IF 1 \in DOMAIN cs THEN Chosen(W, cs[1].id, ReadUpTo(Files[cs[1].id], 1, 1)) ELSE <<>>)
           = <<>>
  <1>1. DoneTo(W, cs, 1 - 1) = <<>>
    <2> DEFINE n == 1 - 1
    <2>1. n \in 0..Len(cs) /\ n = 0
      OBVIOUS
    <2> HIDE DEF n
    <2>2. DoneTo(W, cs, n) = <<>>
      BY <2>1, DoneType
    <2> QED BY <2>2 DEF n
  <1>2. Chosen(W, cs[1].id, ReadUpTo(Files[cs[1].id], 1, 1)) = <<>>
    BY ReadingStarts, NothingChosen
  <1> QED BY <1>1, <1>2, NothingJoined

LEMMA BInitInv == BulkInit => BInv
  <1> SUFFICES ASSUME BulkInit PROVE BInv
    OBVIOUS
  <1> USE DEF BulkInit
  <1>1. BTypeOK
    BY DEF BTypeOK
  <1>2. OnlyPassing /\ AtStart /\ Spanned
    BY DEF OnlyPassing, AtStart, Spanned
  <1>3. InPlace
    BY DEF InPlace
  <1>4. Progress
    <2>1. Joined(DoneTo(Passing(query), crawls, 1 - 1),
                 IF 1 \in DOMAIN crawls
                 THEN Chosen(Passing(query), crawls[1].id, ReadUpTo(Files[crawls[1].id], 1, 1))
                 ELSE <<>>) = <<>>
      BY <1>1, ProgressAtStart DEF BTypeOK
    <2> QED BY <2>1 DEF Progress, InHand, FilesOf
  <1> QED BY <1>1, <1>2, <1>3, <1>4 DEF BInv

LEMMA ResolveInv ==
  ASSUME BInv, ResolveCrawls
  PROVE  BInv'
  <1> USE DEF BInv, ResolveCrawls
  <1>1. IsSelector(query.crawls)
    BY QueryAssumption DEF BTypeOK, IsQuery
  <1>2. crawls' \in Seq(Range(Registered))
    BY <1>1, Resolved
  <1>3. crawl' = 1 /\ file' = 1 /\ batch' = 1 /\ out' = <<>> /\ query' = query /\ phase' = "reading"
    BY DEF AtStart
  <1>4. BTypeOK'
    BY <1>2 DEF BTypeOK
  <1>5. (OnlyPassing /\ AtStart /\ Spanned)'
    BY <1>3 DEF OnlyPassing, AtStart, Spanned
  <1>6. InPlace'
    <2>1. Len(crawls') \in Nat
      BY <1>2
    <2>2. 1 \in DOMAIN crawls' => Len(Files[crawls'[1].id]) \in Nat
                                  /\ (1 \in DOMAIN Files[crawls'[1].id] => Len(Files[crawls'[1].id][1]) \in Nat)
      <3> SUFFICES ASSUME 1 \in DOMAIN crawls'
                   PROVE  LET F == Files[crawls'[1].id]
                          IN  Len(F) \in Nat /\ (1 \in DOMAIN F => Len(F[1]) \in Nat)
        OBVIOUS
      <3>1. crawls'[1].id \in DOMAIN Files
        BY <1>2, AnswersType
      <3>2. Files[crawls'[1].id] \in Seq(Seq(Seq(Rows)))
        BY <3>1, FilesAreRows
      <3> QED BY <3>2
    <2> QED BY <1>3, <2>1, <2>2 DEF InPlace, FilesOf
  <1>7. Progress'
    <2>1. Joined(DoneTo(Passing(query), crawls', 1 - 1),
                 IF 1 \in DOMAIN crawls'
                 THEN Chosen(Passing(query), crawls'[1].id, ReadUpTo(Files[crawls'[1].id], 1, 1))
                 ELSE <<>>) = <<>>
      BY <1>2, ProgressAtStart
    <2> QED BY <1>3, <2>1 DEF Progress, InHand, FilesOf, Passing
  <1> QED BY <1>4, <1>5, <1>6, <1>7

\* What the crawl at hand is: its files are of rows, and what is read of them.
LEMMA AtHand ==
  ASSUME BInv, crawl \in DOMAIN crawls
  PROVE  LET F == FilesOf(crawl)
             id == crawls[crawl].id
         IN  /\ id \in DOMAIN Files /\ F = Files[id] /\ F \in Seq(Seq(Seq(Rows)))
             /\ crawl \in 1..Len(crawls) /\ Len(crawls) \in Nat /\ DOMAIN crawls = 1..Len(crawls)
             /\ Len(F) \in Nat /\ DOMAIN F = 1..Len(F)
             /\ \A f \in 1..Len(F) : Len(F[f]) \in Nat /\ DOMAIN F[f] = 1..Len(F[f])
             /\ InHand = Chosen(Passing(query), id, ReadUpTo(F, file, batch))
  <1>1. /\ crawls \in Seq(Range(Registered)) /\ DOMAIN crawls = 1..Len(crawls) /\ Len(crawls) \in Nat
        /\ crawl \in 1..Len(crawls)
    BY DEF BInv, BTypeOK
  <1>2. crawls[crawl].id \in DOMAIN Files
    BY <1>1, AnswersType
  <1>3. FilesOf(crawl) \in Seq(Seq(Seq(Rows))) /\ FilesOf(crawl) = Files[crawls[crawl].id]
    BY <1>2, FilesAreRows DEF FilesOf
  <1>4. /\ Len(FilesOf(crawl)) \in Nat /\ DOMAIN FilesOf(crawl) = 1..Len(FilesOf(crawl))
        /\ \A f \in 1..Len(FilesOf(crawl)) :
             Len(FilesOf(crawl)[f]) \in Nat /\ DOMAIN FilesOf(crawl)[f] = 1..Len(FilesOf(crawl)[f])
    BY <1>3
  <1> QED BY <1>1, <1>2, <1>3, <1>4 DEF InHand

\* A batch is collected: its rows that pass are in hand.
LEMMA CollectInv ==
  ASSUME BInv, CollectBatch
  PROVE  BInv'
  <1> DEFINE F == FilesOf(crawl)
             id == crawls[crawl].id
             W == Passing(query)
             all == F[file][batch]
             new == Chosen(W, id, all)
             done == DoneTo(W, crawls, crawl - 1)
  <1>1. /\ phase = "reading" /\ crawl \in DOMAIN crawls /\ file \in DOMAIN F /\ batch \in DOMAIN F[file]
        /\ batch' = batch + 1
        /\ query' = query /\ crawls' = crawls /\ crawl' = crawl /\ file' = file /\ phase' = phase
    BY DEF CollectBatch, AtBatch
  <1>2. /\ id \in DOMAIN Files /\ F = Files[id] /\ F \in Seq(Seq(Seq(Rows)))
        /\ crawl \in 1..Len(crawls) /\ Len(crawls) \in Nat
        /\ Len(F) \in Nat /\ DOMAIN F = 1..Len(F)
        /\ \A f \in 1..Len(F) : Len(F[f]) \in Nat /\ DOMAIN F[f] = 1..Len(F[f])
        /\ InHand = Chosen(W, id, ReadUpTo(F, file, batch))
    BY <1>1, AtHand
  <1>3. file \in 1..Len(F) /\ batch \in 1..Len(F[file])
    BY <1>1, <1>2
  <1>4. FilesOf(crawl)' = F
    BY <1>1 DEF FilesOf
  <1> HIDE DEF F
  <1>5. /\ ReadUpTo(F, file, batch) \in Seq(Rows) /\ all \in Seq(Rows)
        /\ ReadUpTo(F, file, batch + 1) = Joined(ReadUpTo(F, file, batch), all)
    BY <1>2, <1>3, BatchRead
  <1>6. out' = Joined(out, new)
    <2>1. {k \in DOMAIN all : Passes(query, all[k])} = Among(all, W)
      BY <1>5 DEF Among, Passing
    <2>2. out' = out \o Tagged(id, Pick(all, {k \in DOMAIN all : Passes(query, all[k])}))
      BY DEF CollectBatch, Tagged, F
    <2> QED BY <2>1, <2>2 DEF Joined, Chosen
  <1>7. new \in Seq(TaggedRows) /\ \A k \in DOMAIN new : new[k].row \in W
    BY <1>2, <1>5, ChosenRows
  <1>8. InHand' = Joined(InHand, new) /\ InHand \in Seq(TaggedRows)
    <2>1. InHand' = Chosen(W, id, ReadUpTo(F, file, batch + 1))
      BY <1>1, <1>4 DEF InHand, Passing
    <2>2. InHand \in Seq(TaggedRows)
      BY <1>2, <1>5, ChosenRows
    <2> HIDE DEF all, W, id
    <2>3. Chosen(W, id, Joined(ReadUpTo(F, file, batch), all))
            = Joined(Chosen(W, id, ReadUpTo(F, file, batch)), Chosen(W, id, all))
      BY <1>5, ChosenAppend
    <2> QED BY <1>2, <1>5, <2>1, <2>2, <2>3
  <1>9. done \in Seq(TaggedRows)
    <2>1. crawl - 1 \in 0..Len(crawls)
      BY <1>2
    <2> QED BY <2>1, DoneType DEF BInv, BTypeOK
  <1>10. out \in Seq(TaggedRows)
    BY DEF BInv, BTypeOK
  <1> HIDE DEF new, done, all, W, id
  <1>11. BTypeOK'
    <2>1. out \o new \in Seq(TaggedRows)
      BY <1>7, <1>10
    <2> QED BY <1>1, <1>6, <2>1 DEF BInv, BTypeOK, Joined
  <1>12. OnlyPassing'
    <2>1. \A k \in DOMAIN out : out[k].row \in W
      BY DEF BInv, OnlyPassing, W
    <2>2. \A k \in DOMAIN (out \o new) : (out \o new)[k].row \in W
      <3>1. /\ DOMAIN out = 1..Len(out) /\ DOMAIN new = 1..Len(new) /\ Len(out) \in Nat /\ Len(new) \in Nat
            /\ DOMAIN (out \o new) = 1..(Len(out) + Len(new))
            /\ \A k \in 1..Len(out) : (out \o new)[k] = out[k]
            /\ \A k \in 1..Len(new) : (out \o new)[Len(out) + k] = new[k]
        BY <1>7, <1>10, Appended
      <3> TAKE k \in DOMAIN (out \o new)
      <3>2. CASE k \in 1..Len(out)
        BY <2>1, <3>1, <3>2
      <3>3. CASE k \notin 1..Len(out)
        <4> DEFINE j == k - Len(out)
        <4>1. j \in 1..Len(new) /\ Len(out) + j = k
          BY <3>1, <3>3
        <4> HIDE DEF j
        <4>2. (out \o new)[Len(out) + j].row \in W
          BY <1>7, <3>1, <4>1
        <4> QED BY <4>1, <4>2
      <3> QED BY <3>2, <3>3
    <2> QED BY <1>1, <1>6, <2>2 DEF OnlyPassing, Joined, Passing, W
  <1>13. (AtStart /\ Spanned)'
    BY <1>1 DEF BInv, AtStart, Spanned
  <1>14. InPlace'
    <2>1. batch + 1 \in 1..(Len(F[file]) + 1) /\ file \in DOMAIN F
      BY <1>2, <1>3
    <2>2. file \in 1..(Len(F) + 1) /\ crawl \in 1..(Len(crawls) + 1)
      BY <1>2, <1>3
    <2> QED BY <1>1, <1>4, <2>1, <2>2 DEF InPlace, F
  <1>15. Progress'
    <2>1. out = Joined(done, InHand)
      BY <1>1 DEF BInv, Progress, done, W
    <2>2. Joined(Joined(done, InHand), new) = Joined(done, Joined(InHand, new))
      <3>1. \A u, v, t \in Seq(TaggedRows) : (u \o v) \o t = u \o (v \o t)
        BY ONLY ConcatAssociative
      <3> QED BY <1>7, <1>8, <1>9, <3>1, Zenon DEF Joined
    <2>3. out' = Joined(done, InHand')
      BY <1>6, <1>8, <2>1, <2>2
    <2>4. DoneTo(Passing(query), crawls, crawl - 1)' = done
      BY <1>1 DEF done, W, DoneTo, AnswersOf, Passing
    <2> QED BY <2>3, <2>4 DEF Progress
  <1> QED BY <1>11, <1>12, <1>13, <1>14, <1>15 DEF BInv

\* A file at its end: the next one has nothing read yet.
LEMMA NextFileInv ==
  ASSUME BInv, NextFile
  PROVE  BInv'
  <1> DEFINE F == FilesOf(crawl)
             id == crawls[crawl].id
             W == Passing(query)
  <1>1. /\ phase = "reading" /\ crawl \in DOMAIN crawls /\ file \in DOMAIN F /\ batch > Len(F[file])
        /\ file' = file + 1 /\ batch' = 1
        /\ query' = query /\ crawls' = crawls /\ crawl' = crawl /\ out' = out /\ phase' = phase
    BY DEF NextFile
  <1>2. /\ id \in DOMAIN Files /\ F = Files[id] /\ F \in Seq(Seq(Seq(Rows)))
        /\ crawl \in 1..Len(crawls) /\ Len(crawls) \in Nat
        /\ Len(F) \in Nat /\ DOMAIN F = 1..Len(F)
        /\ \A f \in 1..Len(F) : Len(F[f]) \in Nat /\ DOMAIN F[f] = 1..Len(F[f])
        /\ InHand = Chosen(W, id, ReadUpTo(F, file, batch))
    BY <1>1, AtHand
  <1>3. FilesOf(crawl)' = F
    BY <1>1 DEF FilesOf
  <1>4. file \in 1..Len(F) /\ batch = Len(F[file]) + 1
    <2>1. batch \in 1..(Len(F[file]) + 1) /\ Len(F[file]) \in Nat /\ file \in 1..Len(F)
      BY <1>1, <1>2 DEF BInv, InPlace
    <2> QED BY <1>1, <2>1
  <1> HIDE DEF F
  <1>5. ReadUpTo(F, file + 1, 1) = ReadUpTo(F, file, batch)
    BY <1>2, <1>4, FileRead
  <1>6. InHand' = InHand
    BY <1>1, <1>2, <1>3, <1>5 DEF InHand, Passing
  <1>7. BTypeOK' /\ OnlyPassing' /\ AtStart' /\ Spanned'
    BY <1>1 DEF BInv, BTypeOK, OnlyPassing, AtStart, Spanned, Passing
  <1>8. InPlace'
    <2>1. file + 1 \in 1..(Len(F) + 1) /\ crawl \in 1..(Len(crawls) + 1)
      BY <1>2, <1>4
    <2>2. file + 1 \in DOMAIN F => 1 \in 1..(Len(F[file + 1]) + 1)
      BY <1>2
    <2> QED BY <1>1, <1>3, <2>1, <2>2 DEF InPlace
  <1>9. Progress'
    <2>1. DoneTo(Passing(query), crawls, crawl - 1)' = DoneTo(Passing(query), crawls, crawl - 1)
      BY <1>1 DEF DoneTo, AnswersOf, Passing
    <2> QED BY <1>1, <1>6, <2>1 DEF BInv, Progress
  <1> QED BY <1>7, <1>8, <1>9 DEF BInv

\* A crawl at its end: what was in hand is all that passes of it.
LEMMA NextCrawlInv ==
  ASSUME BInv, NextCrawl
  PROVE  BInv'
  <1> DEFINE F == FilesOf(crawl)
             id == crawls[crawl].id
             W == Passing(query)
             next == crawl + 1
  <1>1. /\ phase = "reading" /\ crawl \in DOMAIN crawls /\ file > Len(F)
        /\ crawl' = next /\ file' = 1 /\ batch' = 1
        /\ query' = query /\ crawls' = crawls /\ out' = out /\ phase' = phase
    BY DEF NextCrawl
  <1>2. /\ id \in DOMAIN Files /\ F = Files[id] /\ F \in Seq(Seq(Seq(Rows)))
        /\ crawl \in 1..Len(crawls) /\ Len(crawls) \in Nat /\ DOMAIN crawls = 1..Len(crawls)
        /\ Len(F) \in Nat /\ DOMAIN F = 1..Len(F)
        /\ \A f \in 1..Len(F) : Len(F[f]) \in Nat /\ DOMAIN F[f] = 1..Len(F[f])
        /\ InHand = Chosen(W, id, ReadUpTo(F, file, batch))
    BY <1>1, AtHand
  <1>3. file = Len(F) + 1 /\ batch = 1
    <2>1. file \in 1..(Len(F) + 1) /\ (file \notin DOMAIN F => batch = 1)
      BY <1>1, <1>2 DEF BInv, InPlace
    <2> QED BY <1>1, <1>2, <2>1
  <1>4. InHand = Chosen(W, id, Whole(id))
    <2>1. ReadUpTo(F, Len(F) + 1, 1) = FlattenSeq(FlattenSeq(F))
      BY <1>2, AllRead
    <2>2. FlattenSeq(FlattenSeq(F)) = Whole(id)
      BY <1>2 DEF Whole
    <2> HIDE DEF F, W, id
    <2> QED BY <1>2, <1>3, <2>1, <2>2
  <1>5. DoneTo(W, crawls, crawl) = Joined(DoneTo(W, crawls, crawl - 1), InHand)
        /\ DoneTo(W, crawls, crawl) \in Seq(TaggedRows)
    <2>1. crawl \in 0..Len(crawls) /\ crawl # 0 /\ crawls \in Seq(Range(Registered))
      BY <1>2 DEF BInv, BTypeOK
    <2> HIDE DEF W
    <2>2. /\ DoneTo(W, crawls, crawl) = Joined(DoneTo(W, crawls, crawl - 1), Chosen(W, id, Whole(id)))
          /\ DoneTo(W, crawls, crawl) \in Seq(TaggedRows)
      BY <2>1, DoneType
    <2> QED BY <1>4, <2>2
  <1>6. InHand' = <<>>
    <2>1. \A x, i : Chosen(x, i, <<>>) = <<>>
      BY NothingChosen
    <2>2. \A x : ReadUpTo(x, 1, 1) = <<>>
      BY ReadingStarts
    <2> QED BY <1>1, <2>1, <2>2 DEF InHand
  <1>7. BTypeOK' /\ OnlyPassing' /\ AtStart' /\ Spanned'
    BY <1>1 DEF BInv, BTypeOK, OnlyPassing, AtStart, Spanned, Passing
  <1>8. InPlace'
    <2>1. next \in 1..(Len(crawls) + 1)
      BY <1>2
    <2>2. ASSUME next \in DOMAIN crawls
          PROVE  LET G == Files[crawls[next].id]
                 IN  Len(G) \in Nat /\ (1 \in DOMAIN G => Len(G[1]) \in Nat)
      <3>1. crawls \in Seq(Range(Registered)) /\ next \in 1..Len(crawls)
        BY <1>2, <2>2 DEF BInv, BTypeOK
      <3>2. crawls[next].id \in DOMAIN Files
        BY <3>1, AnswersType
      <3>3. Files[crawls[next].id] \in Seq(Seq(Seq(Rows)))
        BY <3>2, FilesAreRows
      <3> QED BY <3>3
    <2> HIDE DEF next
    <2> QED BY <1>1, <2>1, <2>2 DEF InPlace, FilesOf
  <1>9. Progress'
    <2>1. out = DoneTo(W, crawls, crawl)
      BY <1>1, <1>5 DEF BInv, Progress
    <2>2. DoneTo(Passing(query), crawls, crawl - 1)' = DoneTo(W, crawls, next - 1)
      BY <1>1 DEF DoneTo, AnswersOf, Passing
    <2>3. next - 1 = crawl
      BY <1>2
    <2>4. Joined(DoneTo(W, crawls, crawl), <<>>) = DoneTo(W, crawls, crawl)
      <3> DEFINE d == DoneTo(W, crawls, crawl)
      <3> HIDE DEF d
      <3>1. d \in Seq(TaggedRows)
        BY <1>5 DEF d
      <3>2. d \o <<>> = d
        BY <3>1
      <3> QED BY <3>2, Zenon DEF Joined, d
    <2> HIDE DEF W, next
    <2> QED BY <1>1, <1>6, <2>1, <2>2, <2>3, <2>4 DEF Progress
  <1> QED BY <1>7, <1>8, <1>9 DEF BInv

\* The steps that read nothing.
LEMMA OtherInv ==
  ASSUME BInv, ResolveFails \/ BackendFails \/ HandOver \/ UNCHANGED vars
  PROVE  BInv'
  <1>1. CASE ResolveFails
    BY <1>1 DEF ResolveFails, BInv, BTypeOK, OnlyPassing, AtStart, Spanned, InPlace, Progress, FilesOf, Passing
  <1>2. CASE BackendFails
    BY <1>2 DEF BackendFails, BInv, BTypeOK, OnlyPassing, AtStart, Spanned, InPlace, Progress, FilesOf, Passing
  <1>3. CASE HandOver
    <2>1. BTypeOK' /\ OnlyPassing' /\ AtStart' /\ Spanned'
      BY <1>3 DEF HandOver, BInv, BTypeOK, OnlyPassing, AtStart, Spanned, Passing
    <2>2. InPlace'
      BY <1>3 DEF HandOver, BInv, InPlace, FilesOf
    <2>3. Progress'
      BY <1>3 DEF HandOver, BInv, Progress, InHand, FilesOf, DoneTo, AnswersOf, Passing
    <2> QED BY <2>1, <2>2, <2>3 DEF BInv
  <1>4. CASE UNCHANGED vars
    BY <1>4 DEF vars, BInv, BTypeOK, OnlyPassing, AtStart, Spanned, InPlace, Progress, InHand, FilesOf,
                DoneTo, AnswersOf, Passing
  <1> QED BY <1>1, <1>2, <1>3, <1>4

LEMMA BNextInv == BInv /\ [BulkNext]_vars => BInv'
  BY ResolveInv, CollectInv, NextFileInv, NextCrawlInv, OtherInv DEF BulkNext, BulkOver

\* What the loops of a bulk search (client.rs, table/read.rs) have put into the buffer
\* is what the crawls, files and batches behind them answer.
THEOREM BulkInvariant == BulkSpec => []BInv
  BY BInitInv, BNextInv, PTL DEF BulkSpec

----------------------------------------------------------------------------
(* The properties. *)

\* What the table takes to be the scope of a query lies in it, but for a host.
LEMMA InTableInScope ==
  ASSUME NEW q \in Queries, q.match # "host", NEW row \in Rows, InTable(q, row)
  PROVE  InScope(q, row)
  <1>1. CASE q.match = "domain"
    <2>1. row.host = q.host /\ q.host \in Seq(Nat)
      BY <1>1, QueryAssumption DEF InTable, IsUrl
    <2>2. IsPrefix(q.host, q.host)
      BY <2>1, PrefixAt
    <2> QED BY <1>1, <2>1, <2>2 DEF InScope
  <1>2. CASE q.match # "domain"
    BY <1>2 DEF InTable
  <1> QED BY <1>1, <1>2

\* No row is handed out that the query excludes: at every moment what is in the
\* buffer has passed, and what passes is in the scope and through the filters.
THEOREM RowsHandedOutAreWanted == BulkSpec => []OnlyWanted
  <1>1. BInv => OnlyWanted
    <2> SUFFICES ASSUME BInv, query.match # "host", Plain(query), NEW k \in DOMAIN out
                 PROVE  Wanted(query, out[k].row)
      BY DEF OnlyWanted
    <2>1. out[k].row \in Rows /\ Passes(query, out[k].row) /\ query \in Queries
      BY DEF BInv, BTypeOK, OnlyPassing, Passing
    <2>2. InTable(query, out[k].row) /\ FiltersHold(query, out[k].row)
      BY <2>1, PassesMeans
    <2> QED BY <2>1, <2>2, InTableInScope DEF Wanted
  <1> QED BY <1>1, BulkInvariant, PTL

\* A query spans the crawls its selector describes, the newest first, except for
\* what the year in the id must stand for where no end of coverage is listed.
THEOREM SelectorsAreKept == BulkSpec => []SelectorKept
  <1>1. BInv => SelectorKept
    <2> SUFFICES ASSUME BInv, phase \in {"reading", "done"} PROVE SelectorKept
      BY DEF SelectorKept
    <2> DEFINE sel == query.crawls
    <2>1. crawls = Resolve(sel) /\ IsSelector(sel)
      BY QueryAssumption DEF BInv, BTypeOK, Spanned, IsQuery
    <2>2. /\ crawls \in Seq(Range(Registered)) /\ NewestDown(crawls)
          /\ \A c \in Range(Registered) :
               c \in Range(crawls) <=> IF sel.kind = "since" THEN CoversSince(c, sel.since) ELSE Named(sel, c)
      BY <2>1, Resolved
    <2>3. Range(crawls) \subseteq Range(Registered)
      BY <2>2 DEF Range
    <2> HIDE DEF sel
    <2>4. \A c \in Range(Registered) \ Range(crawls) :
            Named(sel, c) => (sel.kind = "since" /\ c.to = None) /\ YearOf(c.ends) > c.year
      BY <2>1, <2>2, SinceMeans
    <2>5. \A c \in Range(crawls) :
            Named(sel, c) \/ ((sel.kind = "since" /\ c.to = None) /\ c.year = YearOf(sel.since))
      BY <2>1, <2>2, <2>3, SinceMeans
    <2> QED BY <2>2, <2>4, <2>5 DEF SelectorKept, NewestDown, sel
  <1> QED BY <1>1, BulkInvariant, PTL

\* At the end all crawls are read.
LEMMA AllHandedOut ==
  ASSUME BInv, phase = "done"
  PROVE  out = FlattenSeq(AnswersOf(Passing(query), crawls))
  <1> DEFINE W == Passing(query)
             n == Len(crawls)
             d == DoneTo(W, crawls, n)
  <1>1. /\ crawls \in Seq(Range(Registered)) /\ n \in Nat /\ DOMAIN crawls = 1..n /\ crawl = n + 1
        /\ out = Joined(DoneTo(W, crawls, crawl - 1), InHand)
    BY DEF BInv, BTypeOK, InPlace, Progress
  <1>2. n \in 0..Len(crawls) /\ n = Len(crawls) /\ crawl - 1 = n
    BY <1>1
  <1>3. InHand = <<>>
    BY <1>1 DEF InHand
  <1> HIDE DEF n, W
  <1>4. d = FlattenSeq(AnswersOf(W, crawls)) /\ d \in Seq(TaggedRows)
    BY <1>1, <1>2, DoneType
  <1>5. out = Joined(d, <<>>)
    BY <1>1, <1>2, <1>3
  <1> HIDE DEF d
  <1>6. d \o <<>> = d
    BY <1>4
  <1> QED BY <1>4, <1>5, <1>6, Zenon DEF Joined, W

\* An exact or prefix search that comes to its end has answered with every row of
\* its crawls whose URL, up to the case of letters, is the pattern's or begins with
\* it, and that passes the filters: once, in their order, and nothing else.
THEOREM BulkAnswersExactly == BulkSpec => []BulkAnswers
  <1>1. BInv => BulkAnswers
    <2> SUFFICES ASSUME BInv, phase = "done", ByKey(query), Plain(query)
                 PROVE  out = Answer(LAMBDA r : InScope(query, r) /\ FiltersHold(query, r))
      BY DEF BulkAnswers
    <2> DEFINE W == Passing(query)
               E(c) == LET all == FlattenSeq(FlattenSeq(FilesOf(c)))
                           rows == Pick(all, {k \in DOMAIN all :
                                     InScope(query, all[k]) /\ FiltersHold(query, all[k])})
                       IN  [k \in DOMAIN rows |-> [crawl |-> crawls[c].id, row |-> rows[k]]]
    <2>1. /\ query \in Queries /\ crawls \in Seq(Range(Registered))
      BY DEF BInv, BTypeOK
    <2>2. \A row \in Rows : row \in W <=> InScope(query, row) /\ FiltersHold(query, row)
      <3>1. \A row : InTable(query, row) <=> InScope(query, row)
        BY DEF ByKey, InTable
      <3> QED BY <2>1, <3>1, PassesMeans DEF Passing
    <2>3. ASSUME NEW c \in DOMAIN crawls PROVE E(c) = AnswersOf(W, crawls)[c]
      <3> DEFINE all == Whole(crawls[c].id)
      <3>1. all \in Seq(Rows)
        BY <2>1, AnswersType
      <3>2. all = FlattenSeq(FlattenSeq(FilesOf(c)))
        BY DEF Whole, FilesOf
      <3>3. {k \in DOMAIN all : InScope(query, all[k]) /\ FiltersHold(query, all[k])} = Among(all, W)
        <4> HIDE DEF W, all
        <4>1. \A k \in DOMAIN all : all[k] \in Rows
          BY <3>1
        <4> QED BY <2>2, <4>1 DEF Among
      <3>4. AnswersOf(W, crawls)[c] = Chosen(W, crawls[c].id, all)
        BY DEF AnswersOf
      <3> HIDE DEF all, W
      <3> QED BY <3>2, <3>3, <3>4 DEF Chosen, Tagged
    <2>4. AnswersOf(W, crawls) = [c \in DOMAIN crawls |-> E(c)]
      <3>1. AnswersOf(W, crawls) = [c \in DOMAIN crawls |-> AnswersOf(W, crawls)[c]]
        BY DEF AnswersOf
      <3> HIDE DEF E
      <3> QED BY <2>3, <3>1
    <2>5. FlattenSeq([c \in DOMAIN crawls |-> E(c)])
            = Answer(LAMBDA r : InScope(query, r) /\ FiltersHold(query, r))
      BY DEF Answer
    <2>6. out = FlattenSeq(AnswersOf(W, crawls))
      BY AllHandedOut
    <2> HIDE DEF W, E
    <2> QED BY <2>4, <2>5, <2>6
  <1> QED BY <1>1, BulkInvariant, PTL

\* The rows handed out, as a set.
LEMMA AnswersHold ==
  ASSUME NEW W, NEW cs \in Seq(Range(Registered))
  PROVE  Range(FlattenSeq(AnswersOf(W, cs))) =
           UNION {{[crawl |-> cs[c].id, row |-> row] : row \in {r \in Range(Whole(cs[c].id)) : r \in W}}
                    : c \in 1..Len(cs)}
  <1> DEFINE a == AnswersOf(W, cs)
             S(c) == {[crawl |-> cs[c].id, row |-> row] : row \in {r \in Range(Whole(cs[c].id)) : r \in W}}
  <1>1. a \in Seq(Seq(TaggedRows)) /\ Len(a) = Len(cs)
    BY AnswersType
  <1>2. ASSUME NEW c \in 1..Len(cs) PROVE Range(a[c]) = S(c)
    <2>1. cs[c].id \in DOMAIN Files /\ Whole(cs[c].id) \in Seq(Rows)
          /\ a[c] = Chosen(W, cs[c].id, Whole(cs[c].id))
      BY AnswersType
    <2> QED BY <2>1, ChosenRows
  <1> HIDE DEF a, S
  <1>3. Range(FlattenSeq(a)) = UNION {Range(a[c]) : c \in 1..Len(cs)}
    BY <1>1, FlattenHolds
  <1>4. Range(FlattenSeq(a)) = UNION {S(c) : c \in 1..Len(cs)}
    BY <1>2, <1>3
  <1> QED BY <1>4 DEF a, S

\* What the index makes of a filter of the status, if it names one.
LEMMA CdxStatusMeans ==
  ASSUME NEW f, IsFilter(f), f.kind = "status", f.values # {}, NEW row, row.status \in 0..999
  PROVE  FilterParamHolds(CdxFilter(f), row) <=> FilterHolds(f, row)
  <1> DEFINE x == row.status
             p == CdxFilter(f)
             Fits(w) == \A i \in 1..3 : w[i] \in {AnyDigit, Digits(x)[i]}
  <1>0. x \in 0..999 /\ x \div 100 \in 0..9 /\ (x \div 10) % 10 \in 0..9 /\ x % 10 \in 0..9
    BY SMTT(20)
  <1>1. Digits(x)[1] = x \div 100 /\ Digits(x)[2] = (x \div 10) % 10 /\ Digits(x)[3] = x % 10
    BY DEF Digits
  <1>2. p.field = "status" => (FilterParamHolds(p, row) <=> p.words = {} \/ \E w \in p.words : Fits(w))
    BY DEF FilterParamHolds
  <1>3. \A w : Fits(w) <=> /\ w[1] \in {AnyDigit, x \div 100}
                           /\ w[2] \in {AnyDigit, (x \div 10) % 10}
                           /\ w[3] \in {AnyDigit, x % 10}
    BY <1>1
  <1> HIDE DEF Fits, x, p
  <1>4. CASE f.op = "class"
    <2>1. p.field = "status" /\ p.words = {<<c, AnyDigit, AnyDigit>> : c \in f.values}
      BY <1>4 DEF CdxFilter, Alternatives, p
    <2>2. \A c \in f.values : c \in 1..9
      BY <1>4 DEF IsFilter, Classes
    <2>3. \A c \in f.values : Fits(<<c, AnyDigit, AnyDigit>>) <=> x \div 100 = c
      BY <1>0, <1>3, <2>2 DEF AnyDigit
    <2>4. FilterParamHolds(p, row) <=> \E c \in f.values : x \div 100 = c
      <3> DEFINE Word(c) == <<c, AnyDigit, AnyDigit>>
      <3>1. p.words = {Word(c) : c \in f.values} /\ \A c \in f.values : Fits(Word(c)) <=> x \div 100 = c
        BY <2>1, <2>3
      <3> HIDE DEF Word
      <3>2. p.words # {}
        BY <3>1
      <3>3. FilterParamHolds(p, row) <=> \E w \in p.words : Fits(w)
        BY <1>2, <2>1, <3>2, Zenon
      <3>4. ASSUME NEW w \in p.words, Fits(w) PROVE \E c \in f.values : x \div 100 = c
        <4>1. PICK c \in f.values : w = Word(c)
          BY <3>1
        <4>2. x \div 100 = c
          BY <3>1, <3>4, <4>1
        <4> QED BY <4>2
      <3>5. ASSUME NEW c \in f.values, x \div 100 = c PROVE \E w \in p.words : Fits(w)
        <4>1. Word(c) \in p.words /\ Fits(Word(c))
          BY <3>1, <3>5
        <4> QED BY <4>1
      <3> QED BY <3>3, <3>4, <3>5
    <2>5. StatusHolds(f, row.status) <=> x \div 100 \in f.values
      BY <1>4 DEF StatusHolds, x
    <2>6. StatusHolds(f, row.status) <=> FilterHolds(f, row)
      BY StatusMeans
    <2> QED BY <2>4, <2>5, <2>6 DEF p
  <1>5. CASE f.op # "class"
    <2>1. p.field = "status" /\ p.words = {Digits(s) : s \in f.values}
      BY <1>5 DEF CdxFilter, Alternatives, p
    <2>2. \A s \in f.values : s \in 100..999
      BY <1>5 DEF IsFilter, Statuses
    <2>3. ASSUME NEW s \in f.values PROVE Fits(Digits(s)) <=> x = s
      <3>1. Digits(s)[1] = s \div 100 /\ Digits(s)[2] = (s \div 10) % 10 /\ Digits(s)[3] = s % 10
        BY DEF Digits
      <3>2. /\ s \in 0..999 /\ s \div 100 \in 0..9 /\ (s \div 10) % 10 \in 0..9 /\ s % 10 \in 0..9
        BY <2>2, SMTT(20)
      <3>3. Fits(Digits(s)) <=> /\ s \div 100 \in {AnyDigit, x \div 100}
                               /\ (s \div 10) % 10 \in {AnyDigit, (x \div 10) % 10}
                               /\ s % 10 \in {AnyDigit, x % 10}
        BY <1>3, <3>1
      <3>4. Fits(Digits(s)) <=> s \div 100 = x \div 100 /\ (s \div 10) % 10 = (x \div 10) % 10 /\ s % 10 = x % 10
        BY <3>2, <3>3 DEF AnyDigit
      <3>5. ASSUME Fits(Digits(s)) PROVE x = s
        <4>1. s \div 100 = x \div 100 /\ (s \div 10) % 10 = (x \div 10) % 10 /\ s % 10 = x % 10
          BY <3>4, <3>5
        <4>2. x \in 0..999 /\ s \in 0..999
          BY <1>0, <3>2
        <4> QED BY ONLY <4>1, <4>2
      <3>6. ASSUME x = s PROVE Fits(Digits(s))
        BY <3>4, <3>6
      <3> QED BY <3>5, <3>6
    <2>4. FilterParamHolds(p, row) <=> \E s \in f.values : x = s
      BY <1>2, <2>1, <2>3
    <2>5. FilterHolds(f, row) <=> x \in f.values
      BY <1>5 DEF FilterHolds, x
    <2> QED BY <2>4, <2>5 DEF p
  <1> QED BY <1>4, <1>5

\* What the index makes of the filters of a plain query.
LEMMA CdxFiltersMean ==
  ASSUME NEW q \in Queries, Plain(q), NEW row \in Rows
  PROVE  /\ CdxFiltersHold(q.filters, row) => FiltersHold(q, row)
         /\ FiltersOf(q, "mime") = <<>> => (CdxFiltersHold(q.filters, row) <=> FiltersHold(q, row))
  <1>1. IsQuery(q) /\ row.status \in 0..999
    BY QueryAssumption, TableAssumption
  <1>2. ASSUME NEW k \in DOMAIN q.filters
        PROVE  LET f == q.filters[k]
               IN  /\ f.kind = "status" => (FilterParamHolds(CdxFilter(f), row) <=> FilterHolds(f, row))
                   /\ f.kind = "mime" => (FilterParamHolds(CdxFilter(f), row) => FilterHolds(f, row))
                   /\ f.kind \in {"status", "mime"}
    <2> DEFINE f == q.filters[k]
    <2>1. IsFilter(f) /\ f.values # {} /\ f.kind \in {"status", "mime"}
      BY <1>1 DEF IsQuery, Plain, Range
    <2> HIDE DEF f
    <2>2. f.kind = "status" => (FilterParamHolds(CdxFilter(f), row) <=> FilterHolds(f, row))
      BY <1>1, <2>1, CdxStatusMeans
    <2>3. f.kind = "mime" => (FilterParamHolds(CdxFilter(f), row) => FilterHolds(f, row))
      BY DEF CdxFilter, Alternatives, FilterParamHolds, FilterHolds
    <2> QED BY <2>1, <2>2, <2>3 DEF f
  <1>3. CdxFiltersHold(q.filters, row) => FiltersHold(q, row)
    BY <1>2 DEF CdxFiltersHold, FiltersHold
  <1>4. ASSUME FiltersOf(q, "mime") = <<>>
        PROVE  FiltersHold(q, row) => CdxFiltersHold(q.filters, row)
    <2>1. \A k \in DOMAIN q.filters : q.filters[k].kind # "mime"
      BY <1>1, <1>4, TheFilter
    <2> QED BY <1>2, <2>1 DEF CdxFiltersHold, FiltersHold
  <1> QED BY <1>3, <1>4

\* What the index answers to an exact or prefix query the table answers too, and
\* without a media type nothing else.
THEOREM TableAnswersTheIndex == BulkSpec => []BackendsAgree
  <1>1. BInv => BackendsAgree
    <2> SUFFICES ASSUME BInv, phase = "done", ByKey(query), Plain(query) PROVE BackendsAgree
      BY DEF BackendsAgree
    <2> DEFINE V == {r \in Rows : InScope(query, r) /\ CdxFiltersHold(query.filters, r)}
               W == Passing(query)
               cdx == Answer(LAMBDA r : InScope(query, r) /\ CdxFiltersHold(query.filters, r))
               E(c) == LET all == FlattenSeq(FlattenSeq(FilesOf(c)))
                           rows == Pick(all, {k \in DOMAIN all :
                                     InScope(query, all[k]) /\ CdxFiltersHold(query.filters, all[k])})
                       IN  [k \in DOMAIN rows |-> [crawl |-> crawls[c].id, row |-> rows[k]]]
    <2>1. query \in Queries /\ crawls \in Seq(Range(Registered))
      BY DEF BInv, BTypeOK
    <2>2. \A row \in Rows : InTable(query, row) <=> InScope(query, row)
      BY DEF ByKey, InTable
    <2>3. V \subseteq W /\ (FiltersOf(query, "mime") = <<>> => V = W)
      <3>1. \A row \in Rows : row \in W <=> InScope(query, row) /\ FiltersHold(query, row)
        BY <2>1, <2>2, PassesMeans DEF Passing
      <3>2. W \subseteq Rows
        BY DEF Passing
      <3> HIDE DEF W
      <3>3. V \subseteq W
        BY <2>1, <3>1, CdxFiltersMean
      <3>4. ASSUME FiltersOf(query, "mime") = <<>> PROVE W \subseteq V
        BY <2>1, <3>1, <3>2, <3>4, CdxFiltersMean
      <3> HIDE DEF V
      <3> QED BY <3>3, <3>4
    <2>4. ASSUME NEW c \in DOMAIN crawls PROVE E(c) = AnswersOf(V, crawls)[c]
      <3> DEFINE all == Whole(crawls[c].id)
      <3>1. all \in Seq(Rows)
        BY <2>1, AnswersType
      <3>2. all = FlattenSeq(FlattenSeq(FilesOf(c)))
        BY DEF Whole, FilesOf
      <3>3. {k \in DOMAIN all : InScope(query, all[k]) /\ CdxFiltersHold(query.filters, all[k])} = Among(all, V)
        <4> HIDE DEF all
        <4>1. \A k \in DOMAIN all : all[k] \in Rows
          BY <3>1
        <4> QED BY <4>1 DEF Among
      <3>4. AnswersOf(V, crawls)[c] = Chosen(V, crawls[c].id, all)
        BY DEF AnswersOf
      <3> HIDE DEF all, V
      <3> QED BY <3>2, <3>3, <3>4 DEF Chosen, Tagged
    <2>5. AnswersOf(V, crawls) = [c \in DOMAIN crawls |-> E(c)]
      <3>1. AnswersOf(V, crawls) = [c \in DOMAIN crawls |-> AnswersOf(V, crawls)[c]]
        BY DEF AnswersOf
      <3> HIDE DEF E
      <3> QED BY <2>4, <3>1
    <2>6. cdx = FlattenSeq([c \in DOMAIN crawls |-> E(c)])
      BY DEF Answer
    <2> HIDE DEF V, W, E, cdx
    <2>7. cdx = FlattenSeq(AnswersOf(V, crawls)) /\ out = FlattenSeq(AnswersOf(W, crawls))
      BY <2>5, <2>6, AllHandedOut DEF W
    <2>8. Range(cdx) \subseteq Range(out)
      BY <2>1, <2>3, <2>7, AnswersHold
    <2>9. FiltersOf(query, "mime") = <<>> => Range(out) = Range(cdx)
      BY <2>3, <2>7
    <2> QED BY <2>8, <2>9 DEF BackendsAgree, cdx
  <1> QED BY <1>1, BulkInvariant, PTL

----------------------------------------------------------------------------
(* Athena. *)

\* What the conditions on the columns make of a query's scope.
LEMMA SqlScopeMeans ==
  ASSUME NEW q \in Queries, NEW row \in Rows
  PROVE  /\ SqlScope(q, row) => InScope(q, row)
         /\ InScope(q, row) /\ Written(q, row) => SqlScope(q, row)
  <1>1. IsUrl(q) /\ IsUrl(row) /\ q.match \in MatchTypes
    BY QueryAssumption, TableAssumption DEF IsQuery
  <1>2. CASE q.match = "prefix"
    <2>1. /\ Surt(q) \in Seq(Nat) /\ Surt(row) \in Seq(Nat) /\ Surt(q) # <<>>
      BY <1>1, KeyIsThere
    <2>2. ~Less(Surt(row), Surt(q)) /\ Less(Surt(row), PrefixEnd(Surt(q))) <=> IsPrefix(Surt(q), Surt(row))
      BY <2>1, PrefixRange
    <2>3. SqlScope(q, row) <=> q.host = row.host /\ PathBegins(q.path, row.path)
      BY <1>1, <1>2, <2>2, PrefixMeans DEF SqlScope, PathBegins
    <2> QED BY <1>2, <2>3 DEF InScope
  <1>3. CASE q.match = "host"
    BY <1>3 DEF SqlScope, InScope, Written
  <1>4. CASE q.match = "domain"
    BY <1>4 DEF SqlScope, InScope, Written
  <1>5. CASE q.match = "exact"
    BY <1>5 DEF SqlScope, InScope, Written, SamePath
  <1> QED BY <1>1, <1>2, <1>3, <1>4, <1>5 DEF MatchTypes

\* What they make of a filter: the type is the detected one alone.
LEMMA SqlFilterMeans ==
  ASSUME NEW f, IsFilter(f), NEW row, row.status \in 0..999
  PROVE  /\ SqlFilterHolds(f, row) => FilterHolds(f, row)
         /\ FilterHolds(f, row) /\ ~SqlFilterHolds(f, row) => f.kind = "mime" /\ row.detected \notin f.values
  <1>1. CASE f.kind = "status" /\ f.op = "class"
    <2>1. \A c \in f.values : c \in Int
      BY <1>1 DEF IsFilter, Classes
    <2>2. ASSUME NEW c \in f.values
          PROVE  row.status >= 100 * c /\ row.status < 100 * c + 100 <=> row.status \in 100 * c..100 * c + 99
      BY <2>1, SMTT(20)
    <2>3. SqlFilterHolds(f, row) <=> \E c \in f.values : row.status >= 100 * c /\ row.status < 100 * c + 100
      BY <1>1 DEF SqlFilterHolds
    <2>4. FilterHolds(f, row) <=> \E c \in f.values : row.status \in 100 * c..100 * c + 99
      BY <1>1 DEF FilterHolds
    <2> QED BY <2>2, <2>3, <2>4
  <1>2. CASE f.kind = "status" /\ f.op # "class"
    BY <1>2 DEF SqlFilterHolds, FilterHolds
  <1>3. CASE f.kind = "mime"
    BY <1>3 DEF SqlFilterHolds, FilterHolds
  <1>4. CASE f.kind = "language"
    BY <1>4 DEF SqlFilterHolds, FilterHolds
  <1>5. CASE f.kind = "tld"
    BY <1>5 DEF SqlFilterHolds, FilterHolds
  <1> QED BY <1>1, <1>2, <1>3, <1>4, <1>5 DEF IsFilter, FilterKinds

\* What Athena answers is wanted, and of what is wanted it misses no row but for
\* how its URL is written or for its detected type.
THEOREM SqlAnswersTheQuery == BulkSpec => []SqlAgrees
  <1>1. BInv => SqlAgrees
    <2> SUFFICES ASSUME BInv, crawls # <<>>, NEW id \in DOMAIN Files, NEW r \in RowsOf(id)
                 PROVE  LET wanted == id \in {crawls[c].id : c \in DOMAIN crawls} /\ Wanted(query, r)
                            types == FiltersOf(query, "mime")
                        IN  /\ Answers(id, r) => wanted
                            /\ wanted /\ Written(query, r) /\ ~Answers(id, r) =>
                                 \E k \in DOMAIN types : r.detected \notin types[k].values
      BY DEF SqlAgrees
    <2> DEFINE named == id \in {crawls[c].id : c \in DOMAIN crawls}
               types == FiltersOf(query, "mime")
    <2>1. query \in Queries /\ r \in Rows
      BY DEF BInv, BTypeOK, Rows
    <2>2. IsQuery(query) /\ r.status \in 0..999
      BY <2>1, QueryAssumption, TableAssumption
    <2>3. \A k \in DOMAIN query.filters : IsFilter(query.filters[k])
      BY <2>2 DEF IsQuery, Range
    <2>4. Answers(id, r) <=> /\ named /\ SqlScope(query, r)
                             /\ \A k \in DOMAIN query.filters : SqlFilterHolds(query.filters[k], r)
      BY DEF Answers, SqlCrawls, SqlHolds
    <2>5. Wanted(query, r) <=> /\ InScope(query, r)
                               /\ \A k \in DOMAIN query.filters : FilterHolds(query.filters[k], r)
      BY DEF Wanted, FiltersHold
    <2> HIDE DEF named, types
    <2>6. Answers(id, r) => named /\ Wanted(query, r)
      BY <2>1, <2>2, <2>3, <2>4, <2>5, SqlScopeMeans, SqlFilterMeans
    <2>7. ASSUME named, Wanted(query, r), Written(query, r), ~Answers(id, r)
          PROVE  \E k \in DOMAIN types : r.detected \notin types[k].values
      <3>1. SqlScope(query, r)
        BY <2>1, <2>5, <2>7, SqlScopeMeans
      <3>2. PICK j \in DOMAIN query.filters : ~SqlFilterHolds(query.filters[j], r)
        BY <2>4, <2>7, <3>1
      <3>3. query.filters[j].kind = "mime" /\ r.detected \notin query.filters[j].values
        BY <2>2, <2>3, <2>5, <2>7, <3>2, SqlFilterMeans
      <3>4. PICK k \in DOMAIN types : types[k] = query.filters[j]
        <4>1. /\ DOMAIN types = 1..Len(types)
              /\ \A k \in DOMAIN query.filters : query.filters[k].kind = "mime" =>
                   \E n \in 1..Len(types) : types[n] = query.filters[k]
          BY <2>2, FiltersFound DEF types
        <4> QED BY <3>3, <4>1
      <3>5. r.detected \notin types[k].values
        BY <3>3, <3>4
      <3> QED BY <3>5
    <2> QED BY <2>6, <2>7 DEF named, types
  <1> QED BY <1>1, BulkInvariant, PTL
=============================================================================
