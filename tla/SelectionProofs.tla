--------------------------- MODULE SelectionProofs ---------------------------
(***************************************************************************)
(* Theorems of Selection: the choosers choose the extreme, samples keep    *)
(* what their policy names, and what a template binds is how the URL       *)
(* reads, for every stream of captures.                                    *)
(***************************************************************************)
EXTENDS Selection, ListFacts

Caps == Captures \cup Listed

\* What a chooser prefers.
AsGood(a, b) == IF job.op = "oldest" THEN a.time <= b.time ELSE a.time >= b.time

STypeOK ==
  /\ job \in Jobs
  /\ index \in Seq(Caps)
  /\ \A i \in 1..(Len(index) - 1) : InIndexOrder(index[i], index[i + 1])
  /\ taken \in 0..Len(index)
  /\ phase \in {"open", "done", "failed", "panicked"}

\* The capture kept is as good as every one before it.
ChosenSoFar ==
  IF job.op \in Choosers
    THEN /\ taken = 0 => chosen = <<>>
         /\ taken # 0 => \E i \in 1..taken :
              /\ chosen = <<index[i]>>
              /\ \A j \in 1..taken : AsGood(index[i], index[j])
    ELSE chosen = <<>>

\* What is handed over, and when.
HandedOver ==
  /\ phase # "done" => result = <<>>
  /\ phase = "panicked" => SamplePanics(index, job)
  /\ phase = "done" =>
       CASE job.op \in Choosers -> taken = Len(index) /\ result = chosen
         [] job.op \in Samplers -> result = Sample(index, job) /\ ~SamplePanics(index, job)
         [] OTHER -> TRUE

SelInv == STypeOK /\ ChosenSoFar /\ HandedOver

\* What a job may be.
LEMMA JobIs ==
  ASSUME NEW j \in Jobs
  PROVE  /\ j.op \in {"text", "newest", "oldest", "all", "unique-digest", "first-last",
                      "first-last-digest", "adaptive", "fetch", "template"}
         /\ j.op = "adaptive" => j.max \in Nat
  BY JobsAssumption DEF Choosers, Samplers

\* The invariant holds at first, and every step keeps it.
LEMMA SelInitInv == SelectionInit => SelInv
  <1> SUFFICES ASSUME SelectionInit PROVE SelInv
    OBVIOUS
  <1>1. ASSUME NEW captures \in SUBSET Caps, NEW most, index \in Indexes(captures, most)
        PROVE  /\ index \in Seq(Caps)
               /\ \A i \in 1..(Len(index) - 1) : InIndexOrder(index[i], index[i + 1])
    <2>1. PICK n \in 0..most : index \in [1..n -> captures]
      BY <1>1 DEF Indexes
    <2>2. index \in Seq(Caps)
      BY <2>1
    <2> QED BY <1>1, <2>2 DEF Indexes
  <1>2. /\ index \in Seq(Caps)
        /\ \A i \in 1..(Len(index) - 1) : InIndexOrder(index[i], index[i + 1])
    BY <1>1 DEF SelectionInit, Caps
  <1>3. STypeOK
    BY <1>2 DEF SelectionInit, STypeOK
  <1>4. ChosenSoFar /\ HandedOver
    BY DEF SelectionInit, ChosenSoFar, HandedOver
  <1> QED BY <1>3, <1>4 DEF SelInv

\* A capture more: it replaces the one kept only when it is better.
LEMMA TakeInv ==
  ASSUME SelInv, Take
  PROVE  SelInv'
  <1> DEFINE c == index[taken']
  <1>1. /\ job' = job /\ index' = index /\ taken' = taken + 1 /\ phase = "open"
        /\ taken' \in 1..Len(index) /\ taken \in Nat
        /\ chosen' = IF Better(c) THEN <<c>> ELSE chosen
        /\ job.op = "fetch" => phase' = "done" /\ result' = <<c>>
        /\ job.op # "fetch" => phase' = phase /\ result' = result
    BY DEF SelInv, STypeOK, Take
  <1>2. STypeOK'
    BY <1>1 DEF SelInv, STypeOK
  <1>3. \A i \in 1..Len(index) : index[i].time \in Int
    BY CaptureAssumption DEF SelInv, STypeOK, Caps
  <1>4. ChosenSoFar'
    <2>1. CASE job.op \in Choosers
      <3>1. ChosenSoFar <=> /\ taken = 0 => chosen = <<>>
                            /\ taken # 0 => \E i \in 1..taken :
                                 /\ chosen = <<index[i]>>
                                 /\ \A j \in 1..taken : AsGood(index[i], index[j])
        BY <2>1 DEF ChosenSoFar
      <3>2. SUFFICES \E i \in 1..taken' :
                       /\ chosen' = <<index[i]>>
                       /\ \A j \in 1..taken' : AsGood(index[i], index[j])
        BY <1>1, <2>1 DEF ChosenSoFar, AsGood
      <3>3. CASE taken = 0
        <4>1. chosen = <<>> /\ Better(c)
          BY <2>1, <3>1, <3>3 DEF SelInv, Better
        <4>2. taken' = 1 /\ chosen' = <<index[1]>>
          BY <1>1, <3>3, <4>1
        <4>3. AsGood(index[1], index[1])
          BY <1>1, <1>3, <4>2 DEF AsGood
        <4> QED BY <4>2, <4>3
      <3>4. CASE taken # 0
        <4>1. PICK i \in 1..taken : /\ chosen = <<index[i]>>
                                    /\ \A j \in 1..taken : AsGood(index[i], index[j])
          BY <3>1, <3>4 DEF SelInv
        <4>2. /\ index[i].time \in Int /\ c.time \in Int
              /\ \A j \in 1..taken : index[j].time \in Int
          BY <1>1, <1>3
        <4>3. chosen # <<>> /\ chosen[1] = index[i]
          BY <4>1
        <4>4. \A j \in 1..taken' : j \in 1..taken \/ j = taken'
          BY <1>1
        <4>5. CASE Better(c)
          <5>1. \A j \in 1..taken : AsGood(c, index[j])
            BY <4>1, <4>2, <4>3, <4>5 DEF Better, AsGood
          <5>2. AsGood(c, c)
            BY <4>2 DEF AsGood
          <5>3. chosen' = <<index[taken']>> /\ taken' \in 1..taken'
            BY <1>1, <4>5
          <5> QED BY <4>4, <5>1, <5>2, <5>3
        <4>6. CASE ~Better(c)
          <5>1. AsGood(index[i], c)
            BY <2>1, <4>2, <4>3, <4>6 DEF Better, AsGood, Choosers
          <5>2. chosen' = <<index[i]>> /\ i \in 1..taken'
            BY <1>1, <4>1, <4>6
          <5> QED BY <4>1, <4>4, <5>1, <5>2
        <4> QED BY <4>5, <4>6
      <3> QED BY <3>3, <3>4
    <2>2. CASE job.op \notin Choosers
      BY <1>1, <2>2 DEF SelInv, ChosenSoFar, Better
    <2> QED BY <2>1, <2>2
  <1>5. HandedOver'
    <2>1. CASE job.op = "fetch"
      BY <1>1, <2>1 DEF HandedOver, Choosers, Samplers
    <2>2. CASE job.op # "fetch"
      BY <1>1, <2>2 DEF SelInv, HandedOver
    <2> QED BY <2>1, <2>2
  <1> QED BY <1>2, <1>4, <1>5 DEF SelInv

\* At the end the sample, or the capture kept, is handed over.
LEMMA EndInv ==
  ASSUME SelInv, End
  PROVE  SelInv'
  <1>1. /\ job' = job /\ index' = index /\ taken' = taken /\ chosen' = chosen
        /\ phase = "open" /\ taken = Len(index) /\ result = <<>>
    BY DEF SelInv, HandedOver, End
  <1>2. STypeOK' /\ ChosenSoFar'
    BY <1>1 DEF SelInv, STypeOK, ChosenSoFar, AsGood, End
  <1>3. HandedOver'
    <2>1. CASE SamplePanics(index, job)
      BY <1>1, <2>1 DEF End, HandedOver
    <2>2. CASE ~SamplePanics(index, job)
      <3>1. /\ phase' = "done"
            /\ result' = CASE job.op \in Samplers -> Sample(index, job)
                           [] job.op = "template" -> Matching(index, job)
                           [] OTHER -> chosen
        BY <2>2 DEF End
      <3> QED BY <1>1, <2>2, <3>1 DEF HandedOver, Choosers, Samplers
    <2> QED BY <2>1, <2>2
  <1> QED BY <1>2, <1>3 DEF SelInv

\* Breaking off hands over nothing.
LEMMA SelNextInv == SelInv /\ [SelectionNext]_vars => SelInv'
  <1> SUFFICES ASSUME SelInv, [SelectionNext]_vars PROVE SelInv'
    OBVIOUS
  <1>1. CASE Break
    BY <1>1 DEF SelInv, STypeOK, ChosenSoFar, AsGood, HandedOver, Break
  <1>2. CASE UNCHANGED vars
    BY <1>2 DEF SelInv, STypeOK, ChosenSoFar, AsGood, HandedOver, vars
  <1> QED BY TakeInv, EndInv, <1>1, <1>2 DEF SelectionNext, Over

\* While a stream is read, the capture kept is as good as every one before it, and
\* what is handed over at the end is that capture, or the sample of the whole index
\* (client.rs, main.rs, manifest.rs).
THEOREM SelectionInvariant == SelectionSpec => []SelInv
  BY SelInitInv, SelNextInv, PTL DEF SelectionSpec

----------------------------------------------------------------------------
(* The choosers. *)

\* Whatever the order of the stream, no capture is newer (older) than the one that
\* text_in and --newest (--oldest) choose (client.rs, main.rs).
THEOREM ExtremeIsChosen == SelectionSpec => []ExtremeChosen
  <1>1. SelInv => ExtremeChosen
    <2> SUFFICES ASSUME SelInv, phase = "done", job.op \in Choosers PROVE ExtremeChosen
      BY DEF ExtremeChosen
    <2>1. index \in Seq(Caps) /\ Len(index) \in Nat /\ taken \in 0..Len(index)
      BY DEF SelInv, STypeOK
    <2>2. taken = Len(index) /\ result = chosen
      BY DEF SelInv, HandedOver, Choosers, Samplers
    <2>3. CASE index = <<>>
      BY <2>2, <2>3 DEF SelInv, ChosenSoFar, ExtremeChosen
    <2>4. CASE index # <<>>
      <3>1. taken # 0
        BY <2>1, <2>2, <2>4
      <3>2. PICK i \in 1..taken : /\ chosen = <<index[i]>>
                                  /\ \A j \in 1..taken : AsGood(index[i], index[j])
        BY <3>1 DEF SelInv, ChosenSoFar
      <3>3. result # <<>> /\ result[1] = index[i] /\ DOMAIN index = 1..taken
        BY <2>1, <2>2, <3>2
      <3> QED BY <2>4, <3>2, <3>3 DEF ExtremeChosen, AsGood, Choosers
    <2> QED BY <2>3, <2>4
  <1> QED BY <1>1, SelectionInvariant, PTL

----------------------------------------------------------------------------
(* What is picked, reduced and grouped. *)

\* What is picked, with the places it is picked from.
LEMMA Picked ==
  ASSUME NEW T, NEW s \in Seq(T), NEW I, I \subseteq 1..Len(s)
  PROVE  LET p == Pick(s, I)
         IN  /\ p \in Seq(T) /\ Len(p) \in Nat /\ Len(p) = Cardinality(I) /\ DOMAIN p = 1..Len(p)
             /\ \E e \in [1..Len(p) -> I] :
                  /\ \A k \in 1..Len(p) : p[k] = s[e[k]]
                  /\ \A i \in I : \E k \in 1..Len(p) : e[k] = i
                  /\ \A j, k \in 1..Len(p) : j < k => e[j] < e[k]
  <1> DEFINE p == Pick(s, I)
             n == Cardinality(I)
             order == Ascending(I)
  <1>1. /\ n \in Nat /\ order \in [1..n -> I]
        /\ \A i \in I : \E k \in 1..n : order[k] = i
        /\ \A j, k \in 1..n : j < k => order[j] < order[k]
        /\ p \in Seq(T) /\ Len(p) = n /\ DOMAIN p = 1..n
        /\ \A k \in 1..n : p[k] = s[order[k]]
    <2>1. I \subseteq DOMAIN s
      OBVIOUS
    <2> QED BY <2>1, PickKeeps
  <1> HIDE DEF p, n, order
  <1>2. \E e \in [1..Len(p) -> I] :
          /\ \A k \in 1..Len(p) : p[k] = s[e[k]]
          /\ \A i \in I : \E k \in 1..Len(p) : e[k] = i
          /\ \A j, k \in 1..Len(p) : j < k => e[j] < e[k]
    BY <1>1
  <1> QED BY <1>1, <1>2 DEF p, n

\* Edges that are picked stay edges.
LEMMA PickedEdges ==
  ASSUME NEW T, NEW s \in Seq(T), NEW I, I \subseteq 1..Len(s), 1 \in I, Len(s) \in I
  PROVE  LET p == Pick(s, I)
         IN  Len(p) \in Nat \ {0} /\ p[1] = s[1] /\ p[Len(p)] = s[Len(s)]
  <1> DEFINE p == Pick(s, I)
             n == Len(p)
             l == Len(s)
  <1>1. /\ n \in Nat /\ l \in Nat
        /\ \E e \in [1..n -> I] :
             /\ \A k \in 1..n : p[k] = s[e[k]]
             /\ \A i \in I : \E k \in 1..n : e[k] = i
             /\ \A j, k \in 1..n : j < k => e[j] < e[k]
    <2>1. l \in Nat
      OBVIOUS
    <2> QED BY <2>1, Picked
  <1> HIDE DEF p, n
  <1>2. PICK e \in [1..n -> I] :
          /\ \A k \in 1..n : p[k] = s[e[k]]
          /\ \A i \in I : \E k \in 1..n : e[k] = i
          /\ \A j, k \in 1..n : j < k => e[j] < e[k]
    BY <1>1
  <1>3. \A k \in 1..n : e[k] \in 1..l
    BY <1>2
  <1>4. PICK a \in 1..n : e[a] = 1
    BY <1>2
  <1>5. PICK b \in 1..n : e[b] = l
    BY <1>2
  <1> HIDE DEF l
  <1>6. n # 0 /\ 1 \in 1..n /\ n \in 1..n
    BY <1>1, <1>4
  <1>7. a = 1
    BY <1>1, <1>2, <1>3, <1>4, <1>6
  <1>8. b = n
    BY <1>1, <1>2, <1>3, <1>5, <1>6
  <1> QED BY <1>1, <1>2, <1>4, <1>5, <1>6, <1>7, <1>8 DEF p, n, l

\* A product divided: places spaced evenly lie between the edges, and reach them.
LEMMA Spaced ==
  ASSUME NEW m \in Nat \ {0}, NEW l \in Nat, NEW i \in 0..m
  PROVE  /\ (i * l) \div m \in 0..l
         /\ i = 0 => (i * l) \div m = 0
         /\ i = m => (i * l) \div m = l
  <1> DEFINE x == i * l
             q == x \div m
  <1>1. i \in Nat /\ x \in Nat /\ x <= m * l
    <2>1. i \in Nat /\ m - i \in Nat
      OBVIOUS
    <2>2. i * l \in Nat /\ (m - i) * l \in Nat
      BY <2>1
    <2>3. m * l = i * l + (m - i) * l
      BY <2>1
    <2> QED BY <2>1, <2>2, <2>3
  <1>2. i = 0 => x = 0
    OBVIOUS
  <1>3. i = m => x = m * l
    OBVIOUS
  <1> HIDE DEF x
  <1>4. q \in Nat /\ m * q <= x /\ x < m * q + m
    BY <1>1
  <1> HIDE DEF q
  <1>5. ~(l < q)
    <2> SUFFICES ASSUME l < q PROVE FALSE
      OBVIOUS
    <2>1. m * (l + 1) <= m * q
      BY <1>4
    <2>2. m * (l + 1) = m * l + m /\ m * l \in Nat /\ m * q \in Nat
      BY <1>4
    <2> QED BY <1>1, <1>4, <2>1, <2>2
  <1>6. x = m * l => ~(q < l)
    <2> SUFFICES ASSUME x = m * l, q < l PROVE FALSE
      OBVIOUS
    <2>1. m * (q + 1) <= m * l
      BY <1>4
    <2>2. m * (q + 1) = m * q + m /\ m * l \in Nat /\ m * q \in Nat
      BY <1>4
    <2> QED BY <1>4, <2>1, <2>2
  <1>7. x = 0 => q = 0
    <2> SUFFICES ASSUME x = 0, q # 0 PROVE FALSE
      OBVIOUS
    <2>1. m * 1 <= m * q
      BY <1>4
    <2> QED BY <1>4, <2>1
  <1>8. q \in 0..l
    BY <1>4, <1>5
  <1> QED BY <1>2, <1>3, <1>4, <1>5, <1>6, <1>7, <1>8 DEF q, x

\* cap_len, where it thins out.
LEMMA CapLenKeeps ==
  ASSUME NEW T, NEW g \in Seq(T), NEW max \in Nat, ~CapLenPanics(g, max)
  PROVE  LET r == CapLen(g, max)
         IN  /\ r \in Seq(T)
             /\ max # 0 => Len(r) <= max
             /\ g # <<>> => r # <<>> /\ r[1] = g[1] /\ r[Len(r)] = g[Len(g)]
  <1> DEFINE l == Len(g) - 1
             m == max - 1
             At(i) == 1 + (i * l) \div m
             I == {At(i) : i \in 0..m}
  <1>0. Len(g) \in Nat /\ (g # <<>> => Len(g) # 0)
    OBVIOUS
  <1>1. CASE max = 0 \/ Len(g) <= max
    BY <1>0, <1>1 DEF CapLen
  <1>2. CASE ~(max = 0 \/ Len(g) <= max)
    <2>1. CapLen(g, max) = Pick(g, I)
      BY <1>2 DEF CapLen
    <2>2. m \in Nat \ {0} /\ l \in Nat /\ Len(g) = l + 1 /\ m + 1 = max
      BY <1>0, <1>2 DEF CapLenPanics
    <2> HIDE DEF l, m
    <2>3. ASSUME NEW i \in 0..m PROVE At(i) \in 1..Len(g) /\ (i = 0 => At(i) = 1) /\ (i = m => At(i) = Len(g))
      <3>1. (i * l) \div m \in 0..l /\ (i = 0 => (i * l) \div m = 0) /\ (i = m => (i * l) \div m = l)
        BY <2>2, Spaced
      <3> DEFINE q == (i * l) \div m
      <3>2. q \in 0..l /\ (i = 0 => q = 0) /\ (i = m => q = l) /\ At(i) = 1 + q
        BY <3>1
      <3> HIDE DEF q, At
      <3> QED BY <2>2, <3>2
    <2> HIDE DEF At
    <2>4. 0 \in 0..m /\ m \in 0..m
      BY <2>2
    <2>5. I \subseteq 1..Len(g) /\ 1 \in I /\ Len(g) \in I
      <3>1. At(0) \in I /\ At(m) \in I
        BY <2>4
      <3>2. At(0) = 1 /\ At(m) = Len(g)
        BY <2>3, <2>4
      <3> QED BY <2>3, <3>1, <3>2
    <2>6. IsFiniteSet(I) /\ Cardinality(I) <= max
      <3> DEFINE f == [i \in 0..m |-> At(i)]
      <3>1. f \in Surjection(0..m, I)
        BY DEF Surjection
      <3>2. IsFiniteSet(0..m) /\ Cardinality(0..m) = m + 1
        <4>1. 0 \in Int /\ m \in Int /\ ~(0 > m) /\ m - 0 + 1 = m + 1
          BY <2>2
        <4>2. IsFiniteSet(0..m) /\ Cardinality(0..m) = IF 0 > m THEN 0 ELSE m - 0 + 1
          BY <4>1, FS_Interval
        <4> QED BY <4>1, <4>2
      <3> HIDE DEF f, I
      <3> QED BY <2>2, <3>1, <3>2, FS_Surjection
    <2> HIDE DEF I
    <2>7. Pick(g, I) \in Seq(T) /\ Len(Pick(g, I)) = Cardinality(I)
      BY <2>5, Picked
    <2>8. /\ Len(Pick(g, I)) \in Nat \ {0} /\ Pick(g, I)[1] = g[1]
          /\ Pick(g, I)[Len(Pick(g, I))] = g[Len(g)]
      BY <2>5, PickedEdges
    <2>9. Pick(g, I) # <<>>
      BY <2>8
    <2> QED BY <2>1, <2>6, <2>7, <2>8, <2>9
  <1> QED BY <1>1, <1>2

\* The captures of a URL in the order of time.
InTime(g) == \A j, k \in 1..Len(g) : j < k => g[j].time <= g[k].time

\* unique-digest: every content once, in its earliest capture.
LEMMA UniqueDigestMeans ==
  ASSUME NEW g \in Seq(Caps), InTime(g), NEW i \in 1..Len(g)
  PROVE  LET r == UniqueDigest(g)
         IN  \E k \in 1..Len(r) : /\ r[k].digest = g[i].digest
                                  /\ r[k].time <= g[i].time
                                  /\ \A m \in 1..Len(r) : m # k => r[m].digest # r[k].digest
  <1> DEFINE I == {n \in DOMAIN g : \A j \in 1..(n - 1) : g[j].digest # g[n].digest}
             r == Pick(g, I)
             Same == {j \in 1..Len(g) : g[j].digest = g[i].digest}
  <1>1. /\ I \subseteq 1..Len(g) /\ Len(g) \in Nat
        /\ \A n \in I : \A j \in 1..(n - 1) : g[j].digest # g[n].digest
    OBVIOUS
  <1>2. PICK n \in Same : \A j \in Same : n <= j
    <2>1. Same \subseteq Nat /\ i \in Same
      OBVIOUS
    <2> HIDE DEF Same
    <2> QED BY <2>1, NatLeast
  <1>3. n \in I
    <2>1. n \in 1..Len(g) /\ \A j \in 1..(n - 1) : j \in 1..Len(g) /\ j \notin Same
      BY <1>2
    <2> QED BY <1>2, <2>1
  <1>4. n \in 1..Len(g) /\ g[n].digest = g[i].digest /\ n <= i
    BY <1>2
  <1>5. g[n].time <= g[i].time
    <2>1. g[i].time \in Int
      BY CaptureAssumption DEF Caps
    <2>2. CASE n = i
      BY <2>1, <2>2
    <2>3. CASE n < i
      BY <1>4, <2>3 DEF InTime
    <2> QED BY <1>4, <2>2, <2>3
  <1>6. UniqueDigest(g) = r
    BY DEF UniqueDigest
  <1> HIDE DEF I, Same
  <1>7. Len(r) \in Nat /\ \E e \in [1..Len(r) -> I] :
          /\ \A k \in 1..Len(r) : r[k] = g[e[k]]
          /\ \A a \in I : \E k \in 1..Len(r) : e[k] = a
          /\ \A j, k \in 1..Len(r) : j < k => e[j] < e[k]
    BY <1>1, Picked
  <1> HIDE DEF r
  <1>8. PICK e \in [1..Len(r) -> I] :
          /\ \A k \in 1..Len(r) : r[k] = g[e[k]]
          /\ \A a \in I : \E k \in 1..Len(r) : e[k] = a
          /\ \A j, k \in 1..Len(r) : j < k => e[j] < e[k]
    BY <1>7
  <1>9. PICK k \in 1..Len(r) : e[k] = n
    BY <1>3, <1>8
  <1>10. ASSUME NEW a \in 1..Len(r), NEW b \in 1..Len(r), a < b
         PROVE  r[a].digest # r[b].digest
    <2>1. e[a] \in I /\ e[b] \in I /\ e[a] < e[b] /\ e[a] \in Nat \ {0} /\ e[b] \in Nat
      <3>1. e[a] \in I /\ e[b] \in I
        BY <1>8
      <3>2. e[a] < e[b]
        BY <1>8, <1>10
      <3>3. e[a] \in 1..Len(g) /\ e[b] \in 1..Len(g)
        BY <1>1, <3>1
      <3> DEFINE x == e[a]
                 y == e[b]
      <3>4. x \in 1..Len(g) /\ y \in 1..Len(g)
        BY <3>3
      <3> HIDE DEF x, y
      <3>5. x \in Nat \ {0} /\ y \in Nat
        BY <1>1, <3>4
      <3> QED BY <3>1, <3>2, <3>5 DEF x, y
    <2>2. e[a] \in 1..(e[b] - 1)
      BY <2>1
    <2>3. g[e[a]].digest # g[e[b]].digest
      BY <1>1, <2>1, <2>2
    <2> QED BY <1>8, <2>3
  <1>11. ASSUME NEW m \in 1..Len(r), m # k PROVE r[m].digest # r[k].digest
    <2>1. m < k \/ k < m
      BY <1>7, <1>11
    <2> QED BY <1>10, <2>1
  <1>12. r[k] = g[n]
    BY <1>8, <1>9
  <1> QED BY <1>4, <1>5, <1>6, <1>11, <1>12

\* first-last-digest: the capture kept last up to the time of a capture has its
\* content, if no other has that time.
LEMMA ChangesMean ==
  ASSUME NEW g \in Seq(Caps), InTime(g), NEW i \in 1..Len(g),
         \A m \in 1..Len(g) : m # i => g[m].time # g[i].time
  PROVE  LET r == Changes(g)
         IN  \E k \in 1..Len(r) :
               /\ r[k].digest = g[i].digest
               /\ r[k].time <= g[i].time
               /\ \A m \in 1..Len(r) : r[m].time <= g[i].time => r[m].time <= r[k].time
  <1> DEFINE I == {n \in DOMAIN g : n = 1 \/ n = Len(g) \/ g[n].digest # g[n - 1].digest}
             r == Pick(g, I)
             Back == {i - n : n \in {m \in I : m <= i}}
  <1>0. \A m \in 1..Len(g) : g[m].time \in Int
    BY CaptureAssumption DEF Caps
  <1>1. I \subseteq 1..Len(g) /\ Len(g) \in Nat /\ 1 \in I
    OBVIOUS
  <1>2. PICK p \in I : p <= i /\ \A m \in I : m <= i => m <= p
    <2>1. Back \subseteq Nat /\ i - 1 \in Back
      BY <1>1
    <2>2. PICK d \in Back : \A x \in Back : d <= x
      <3> HIDE DEF Back
      <3> QED BY <2>1, NatLeast
    <2>3. PICK p \in I : p <= i /\ d = i - p
      BY <2>2
    <2>4. ASSUME NEW m \in I, m <= i PROVE m <= p
      <3>1. i - m \in Back
        BY <2>4
      <3>2. i - p <= i - m /\ m \in Int /\ p \in Int
        BY <1>1, <2>2, <2>3, <3>1
      <3> QED BY <3>2
    <2> QED BY <2>3, <2>4
  <1>3. p \in 1..Len(g)
    BY <1>1
  <1>4. g[i].digest = g[p].digest
    <2> DEFINE N == {n \in Nat : p + n <= i => g[p + n].digest = g[p].digest}
    <2>1. 0 \in N
      BY <1>3
    <2>2. ASSUME NEW n \in Nat, n \in N PROVE n + 1 \in N
      <3> SUFFICES ASSUME p + (n + 1) <= i PROVE g[p + (n + 1)].digest = g[p].digest
        OBVIOUS
      <3> DEFINE b == p + (n + 1)
      <3>1. b \in 1..Len(g) /\ b - 1 = p + n /\ b > p /\ b <= i /\ p + n <= i
        BY <1>3
      <3>2. b \notin I
        BY <1>2, <1>3, <3>1
      <3>3. g[b].digest = g[b - 1].digest
        BY <3>1, <3>2
      <3> QED BY <2>2, <3>1, <3>3
    <2> HIDE DEF N
    <2>3. i - p \in N
      <3>1. i - p \in Nat
        BY <1>2, <1>3
      <3> QED BY <2>1, <2>2, <3>1, NatInduct
    <2>4. p + (i - p) = i
      BY <1>3
    <2> QED BY <2>3, <2>4 DEF N
  <1>5. Changes(g) = r
    BY DEF Changes
  <1> HIDE DEF I, Back
  <1>6. Len(r) \in Nat /\ \E e \in [1..Len(r) -> I] :
          /\ \A k \in 1..Len(r) : r[k] = g[e[k]]
          /\ \A a \in I : \E k \in 1..Len(r) : e[k] = a
          /\ \A j, k \in 1..Len(r) : j < k => e[j] < e[k]
    BY <1>1, Picked
  <1> HIDE DEF r
  <1>7. PICK e \in [1..Len(r) -> I] :
          /\ \A k \in 1..Len(r) : r[k] = g[e[k]]
          /\ \A a \in I : \E k \in 1..Len(r) : e[k] = a
    BY <1>6
  <1>8. PICK k \in 1..Len(r) : e[k] = p
    BY <1>7
  <1>9. \A a, b \in 1..Len(g) : a <= b => g[a].time <= g[b].time
    BY <1>0 DEF InTime
  <1>10. ASSUME NEW m \in 1..Len(r), r[m].time <= g[i].time PROVE r[m].time <= r[k].time
    <2> DEFINE q == e[m]
    <2>1. q \in I /\ q \in 1..Len(g) /\ r[m] = g[q] /\ r[k] = g[p]
      BY <1>1, <1>7, <1>8
    <2> HIDE DEF q
    <2>2. q <= i
      <3> SUFFICES ASSUME i < q PROVE FALSE
        BY <2>1
      <3>1. g[i].time <= g[q].time /\ g[q].time # g[i].time
        BY <2>1 DEF InTime
      <3> QED BY <1>0, <1>10, <2>1, <3>1
    <2>3. q <= p
      BY <1>2, <2>1, <2>2
    <2> QED BY <1>3, <1>9, <2>1, <2>3
  <1>11. r[k] = g[p] /\ g[p].time <= g[i].time
    BY <1>2, <1>3, <1>7, <1>8, <1>9
  <1> QED BY <1>4, <1>5, <1>10, <1>11

\* What first_last_digest_changes keeps, of any captures.
LEMMA ChangesKeep ==
  ASSUME NEW T, NEW g \in Seq(T)
  PROVE  LET r == Changes(g)
         IN  /\ r \in Seq(T) /\ Len(r) \in Nat /\ Len(r) <= Len(g)
             /\ g # <<>> => r # <<>> /\ r[1] = g[1] /\ r[Len(r)] = g[Len(g)]
  <1> DEFINE I == {n \in DOMAIN g : n = 1 \/ n = Len(g) \/ g[n].digest # g[n - 1].digest}
             r == Pick(g, I)
  <1>1. I \subseteq 1..Len(g) /\ Len(g) \in Nat /\ (g # <<>> => 1 \in I /\ Len(g) \in I)
    OBVIOUS
  <1>2. Changes(g) = r
    BY DEF Changes
  <1> HIDE DEF I
  <1>3. r \in Seq(T) /\ Len(r) \in Nat /\ Len(r) = Cardinality(I)
    BY <1>1, Picked
  <1>4. Cardinality(I) <= Len(g)
    <2> DEFINE l == Len(g)
    <2>1. IsFiniteSet(1..l) /\ Cardinality(1..l) = l
      <3>1. 1 \in Int /\ l \in Int /\ l \in Nat
        BY <1>1
      <3> HIDE DEF l
      <3>2. IsFiniteSet(1..l) /\ Cardinality(1..l) = IF 1 > l THEN 0 ELSE l - 1 + 1
        BY <3>1, FS_Interval
      <3> QED BY <3>1, <3>2
    <2> QED BY <1>1, <2>1, FS_Subset
  <1>5. ASSUME g # <<>> PROVE r # <<>> /\ r[1] = g[1] /\ r[Len(r)] = g[Len(g)]
    <2>1. Len(r) \in Nat \ {0} /\ r[1] = g[1] /\ r[Len(r)] = g[Len(g)]
      BY <1>1, <1>5, PickedEdges
    <2> QED BY <2>1
  <1> HIDE DEF r
  <1> QED BY <1>2, <1>3, <1>4, <1>5

----------------------------------------------------------------------------
(* Samples. *)

Of(u) == {c \in Caps : c.url = u}

\* A group holds the captures of its URL, each once, in the order of time.
LEMMA GroupIs ==
  ASSUME NEW s \in Seq(Caps), NEW u
  PROVE  LET g == Group(s, u)
         IN  /\ g \in Seq(Of(u)) /\ Len(g) \in Nat /\ InTime(g)
             /\ \E e \in [1..Len(g) -> DOMAIN s] :
                  /\ \A k \in 1..Len(g) : g[k] = s[e[k]]
                  /\ \A i \in DOMAIN s : s[i].url = u => \E k \in 1..Len(g) : e[k] = i
                  /\ \A j, k \in 1..Len(g) : j < k => e[j] # e[k]
  <1> DEFINE D == {i \in DOMAIN s : s[i].url = u}
             R == {p \in (DOMAIN s) \X DOMAIN s :
                     \/ s[p[1]].time < s[p[2]].time
                     \/ s[p[1]].time = s[p[2]].time /\ p[1] < p[2]}
             n == Cardinality(D)
             e == SortedBy(D, R)
             g == [k \in 1..n |-> s[e[k]]]
  <1>1. /\ Len(s) \in Nat /\ DOMAIN s = 1..Len(s)
        /\ \A i \in DOMAIN s : s[i] \in Caps /\ s[i].time \in Int
    BY CaptureAssumption DEF Caps
  <1>2. IsFiniteSet(D)
    <2>1. IsFiniteSet(1..Len(s)) /\ D \in SUBSET (1..Len(s))
      BY <1>1, FS_Interval
    <2> QED BY <2>1, FS_Subset
  <1>3. \A x, y \in DOMAIN s : <<x, y>> \in R <=> \/ s[x].time < s[y].time
                                                  \/ s[x].time = s[y].time /\ x < y
    OBVIOUS
  <1>4. \A x \in D : x \in DOMAIN s /\ s[x].url = u
    OBVIOUS
  <1>5. StrictOrder(D, R)
    <2> HIDE DEF R, D
    <2> QED BY <1>1, <1>3, <1>4 DEF StrictOrder
  <1> HIDE DEF R
  <1>6. /\ n \in Nat /\ e \in [1..n -> D]
        /\ \A x \in D : \E k \in 1..n : e[k] = x
        /\ \A j, k \in 1..n : j < k => e[j] # e[k] /\ <<e[j], e[k]>> \in R
    BY <1>2, <1>5, SortedByRank
  <1>7. Group(s, u) = g
    <2>1. DOMAIN e = 1..n
      <3> HIDE DEF e, n
      <3> QED BY <1>6
    <2> HIDE DEF n
    <2> QED BY <2>1 DEF Group, R
  <1>8. \A i \in DOMAIN s : s[i].url = u => i \in D
    OBVIOUS
  <1> HIDE DEF e, n, D
  <1>9. /\ \A k \in 1..n : e[k] \in DOMAIN s /\ s[e[k]].url = u /\ s[e[k]] \in Of(u)
        /\ g \in [1..n -> Of(u)] /\ \A k \in 1..n : g[k] = s[e[k]]
    BY <1>1, <1>4, <1>6 DEF Of
  <1>10. g \in Seq(Of(u)) /\ Len(g) = n
    <2> HIDE DEF g
    <2> QED BY <1>6, <1>9, FunctionIsSeq
  <1> HIDE DEF g
  <1>11. ASSUME NEW j \in 1..n, NEW k \in 1..n, j < k PROVE g[j].time <= g[k].time
    <2>1. <<e[j], e[k]>> \in R /\ e[j] \in DOMAIN s /\ e[k] \in DOMAIN s
      BY <1>6, <1>9, <1>11
    <2>2. s[e[j]].time \in Int /\ s[e[k]].time \in Int
      BY <1>1, <2>1
    <2>3. s[e[j]].time <= s[e[k]].time
      BY <1>3, <2>1, <2>2
    <2> QED BY <1>9, <2>3
  <1>12. InTime(g)
    BY <1>10, <1>11 DEF InTime
  <1>13. e \in [1..n -> DOMAIN s]
    BY <1>6, <1>9
  <1>14. /\ \A k \in 1..n : g[k] = s[e[k]]
         /\ \A i \in DOMAIN s : s[i].url = u => \E k \in 1..n : e[k] = i
         /\ \A j, k \in 1..n : j < k => e[j] # e[k]
    BY <1>6, <1>8, <1>9
  <1>15. \E f \in [1..n -> DOMAIN s] :
           /\ \A k \in 1..n : g[k] = s[f[k]]
           /\ \A i \in DOMAIN s : s[i].url = u => \E k \in 1..n : f[k] = i
           /\ \A j, k \in 1..n : j < k => f[j] # f[k]
    BY <1>13, <1>14
  <1>16. /\ g \in Seq(Of(u)) /\ Len(g) \in Nat /\ InTime(g)
         /\ \E f \in [1..Len(g) -> DOMAIN s] :
              /\ \A k \in 1..Len(g) : g[k] = s[f[k]]
              /\ \A i \in DOMAIN s : s[i].url = u => \E k \in 1..Len(g) : f[k] = i
              /\ \A j, k \in 1..Len(g) : j < k => f[j] # f[k]
    <2>1. Len(g) = n
      BY <1>10
    <2>2. \E f \in [1..Len(g) -> DOMAIN s] :
            /\ \A k \in 1..Len(g) : g[k] = s[f[k]]
            /\ \A i \in DOMAIN s : s[i].url = u => \E k \in 1..Len(g) : f[k] = i
            /\ \A j, k \in 1..Len(g) : j < k => f[j] # f[k]
      <3>1. PICK f \in [1..n -> DOMAIN s] :
              /\ \A k \in 1..n : g[k] = s[f[k]]
              /\ \A i \in DOMAIN s : s[i].url = u => \E k \in 1..n : f[k] = i
              /\ \A j, k \in 1..n : j < k => f[j] # f[k]
        BY <1>15
      <3>2. f \in [1..Len(g) -> DOMAIN s]
        BY <2>1
      <3>3. /\ \A k \in 1..Len(g) : g[k] = s[f[k]]
            /\ \A i \in DOMAIN s : s[i].url = u => \E k \in 1..Len(g) : f[k] = i
            /\ \A j, k \in 1..Len(g) : j < k => f[j] # f[k]
        BY <2>1, <3>1
      <3> QED BY <3>2, <3>3
    <2> QED BY <1>6, <1>10, <1>12, <2>1, <2>2, Zenon
  <1> QED BY <1>7, <1>16

\* What a policy keeps of a group is of the group.
LEMMA ReduceKeeps ==
  ASSUME NEW T, NEW g \in Seq(T), NEW j \in Jobs, j.op \in Samplers,
         j.op = "adaptive" => ~CapLenPanics(Changes(g), j.max)
  PROVE  Reduce(g, j) \in Seq(T)
  <1>1. CASE j.op = "all"
    BY <1>1 DEF Reduce
  <1>2. CASE j.op = "unique-digest"
    <2> DEFINE I == {i \in DOMAIN g : \A k \in 1..(i - 1) : g[k].digest # g[i].digest}
    <2>1. Reduce(g, j) = Pick(g, I)
      BY <1>2 DEF Reduce, UniqueDigest
    <2>2. I \subseteq 1..Len(g)
      OBVIOUS
    <2> HIDE DEF I
    <2>3. Pick(g, I) \in Seq(T)
      BY <2>2, Picked
    <2> QED BY <2>1, <2>3
  <1>3. CASE j.op = "first-last"
    <2>1. Reduce(g, j) = IF Len(g) <= 2 THEN g ELSE <<g[1], g[Len(g)]>>
      BY <1>3 DEF Reduce, FirstLast
    <2>2. ~(Len(g) <= 2) => g[1] \in T /\ g[Len(g)] \in T
      OBVIOUS
    <2> QED BY <2>1, <2>2
  <1>4. CASE j.op = "first-last-digest"
    <2>1. Reduce(g, j) = Changes(g)
      BY <1>4 DEF Reduce
    <2> QED BY <2>1, ChangesKeep
  <1>5. CASE j.op = "adaptive"
    <2>1. Reduce(g, j) = CapLen(Changes(g), j.max)
      BY <1>5 DEF Reduce
    <2>2. Changes(g) \in Seq(T) /\ j.max \in Nat
      BY <1>5, ChangesKeep, JobIs
    <2> QED BY <1>5, <2>1, <2>2, CapLenKeeps
  <1> QED BY <1>1, <1>2, <1>3, <1>4, <1>5 DEF Samplers

\* The URLs of a stream are finitely many numbers.
LEMMA UrlsAre ==
  ASSUME NEW s \in Seq(Caps)
  PROVE  IsFiniteSet(Urls(s)) /\ Urls(s) \subseteq Nat
  <1> DEFINE f == [i \in 1..Len(s) |-> s[i].url]
  <1>1. f \in Surjection(1..Len(s), Urls(s))
    BY DEF Surjection, Urls
  <1>2. IsFiniteSet(1..Len(s))
    <2>1. Len(s) \in Int
      OBVIOUS
    <2> QED BY <2>1, FS_Interval
  <1>3. Urls(s) \subseteq Nat
    BY CaptureAssumption DEF Urls, Caps
  <1> HIDE DEF f
  <1> QED BY <1>1, <1>2, <1>3, FS_Surjection

\* In a sample, what is kept of a URL stands in one piece and is what the policy
\* makes of its group.
LEMMA SamplePart ==
  ASSUME NEW s \in Seq(Caps), NEW j \in Jobs, j.op \in Samplers, ~SamplePanics(s, j),
         NEW u \in Urls(s)
  PROVE  /\ Reduce(Group(s, u), j) \in Seq(Of(u)) /\ Len(Reduce(Group(s, u), j)) \in Nat
         /\ \E before \in Nat :
              /\ {k \in DOMAIN Sample(s, j) : Sample(s, j)[k].url = u}
                   = (before + 1)..(before + Len(Reduce(Group(s, u), j)))
              /\ \A i \in 1..Len(Reduce(Group(s, u), j)) :
                   Sample(s, j)[before + i] = Reduce(Group(s, u), j)[i]
  <1> DEFINE urls == Ascending(Urls(s))
             n == Cardinality(Urls(s))
             P(v) == Reduce(Group(s, v), j)
             parts == [k \in 1..n |-> P(urls[k])]
             out == FlattenSeq(parts)
  <1>1. IsFiniteSet(Urls(s)) /\ Urls(s) \subseteq Int
    BY UrlsAre
  <1>2. /\ n \in Nat /\ urls \in [1..n -> Urls(s)]
        /\ \A v \in Urls(s) : \E k \in 1..n : urls[k] = v
        /\ \A a, b \in 1..n : a < b => urls[a] < urls[b]
    BY <1>1, AscendingSorts
  <1>3. Sample(s, j) = out
    <2>1. DOMAIN urls = 1..n
      <3> HIDE DEF urls, n
      <3> QED BY <1>2
    <2> HIDE DEF n
    <2> QED BY <2>1 DEF Sample
  <1>4. ASSUME NEW v \in Urls(s) PROVE P(v) \in Seq(Of(v)) /\ P(v) \in Seq(Caps) /\ Len(P(v)) \in Nat
    <2>1. Group(s, v) \in Seq(Of(v))
      BY GroupIs
    <2>2. j.op = "adaptive" => ~CapLenPanics(Changes(Group(s, v)), j.max)
      BY DEF SamplePanics
    <2> HIDE DEF P
    <2>3. P(v) \in Seq(Of(v))
      BY <2>1, <2>2, ReduceKeeps DEF P
    <2>4. Of(v) \subseteq Caps
      BY DEF Of
    <2> QED BY <2>3, <2>4
  <1> HIDE DEF urls, n, P
  <1>5. \A k \in 1..n : urls[k] \in Urls(s) /\ P(urls[k]) \in Seq(Of(urls[k])) /\ P(urls[k]) \in Seq(Caps)
    BY <1>2, <1>4
  <1>6. parts \in Seq(Seq(Caps)) /\ Len(parts) = n /\ \A k \in 1..n : parts[k] = P(urls[k])
    <2>1. parts \in [1..n -> Seq(Caps)]
      BY <1>5
    <2>2. \A k \in 1..n : parts[k] = P(urls[k])
      OBVIOUS
    <2> HIDE DEF parts
    <2> QED BY <1>2, <2>1, <2>2, FunctionIsSeq
  <1> HIDE DEF parts
  <1>7. PICK m \in 1..n : urls[m] = u
    BY <1>2
  <1>8. m \in 1..Len(parts) /\ parts[m] = P(u)
    BY <1>6, <1>7
  <1>9. PICK before \in Nat :
          /\ before + Len(parts[m]) <= Len(out)
          /\ \A i \in 1..Len(parts[m]) : out[before + i] = parts[m][i]
          /\ \A p \in DOMAIN out :
               p \in (before + 1)..(before + Len(parts[m])) \/
                 \E k \in 1..Len(parts) : k # m /\ out[p] \in Range(parts[k])
    BY <1>6, <1>8, FlattenPart
  <1>10. out \in Seq(Caps) /\ Len(out) \in Nat /\ DOMAIN out = 1..Len(out)
    BY <1>6, FlattenAll
  <1> HIDE DEF out
  <1> DEFINE r == P(u)
             l == Len(r)
  <1>11. l \in Nat /\ r \in Seq(Of(u)) /\ \A i \in 1..l : r[i].url = u
    <2>1. r \in Seq(Of(u)) /\ l \in Nat
      BY <1>4
    <2> HIDE DEF r
    <2>2. \A i \in 1..l : r[i] \in Of(u)
      BY <2>1
    <2> QED BY <2>1, <2>2 DEF Of
  <1>12. ASSUME NEW k \in 1..n, k # m, NEW c \in Range(parts[k]) PROVE c.url # u
    <2>1. urls[k] # u
      <3>1. k < m \/ m < k
        BY <1>2, <1>12
      <3>2. urls[k] \in Int /\ u \in Int
        BY <1>1, <1>5
      <3>3. urls[k] < urls[m] \/ urls[m] < urls[k]
        BY <1>2, <3>1
      <3> QED BY <1>7, <3>2, <3>3
    <2>2. parts[k] \in Seq(Of(urls[k]))
      BY <1>5, <1>6
    <2>3. c \in Of(urls[k])
      BY <2>2 DEF Range
    <2> QED BY <2>1, <2>3 DEF Of
  <1>13. ASSUME NEW p \in DOMAIN out
         PROVE  out[p].url = u <=> p \in (before + 1)..(before + l)
    <2>1. ASSUME p \in (before + 1)..(before + l) PROVE out[p].url = u
      <3> HIDE DEF l, r
      <3>1. p - before \in 1..l /\ before + (p - before) = p
        BY <1>11, <2>1
      <3>2. out[p] = r[p - before]
        BY <1>8, <1>9, <3>1 DEF r, l
      <3> QED BY <1>11, <3>1, <3>2
    <2>2. ASSUME p \notin (before + 1)..(before + l) PROVE out[p].url # u
      <3>1. PICK k \in 1..Len(parts) : k # m /\ out[p] \in Range(parts[k])
        BY <1>8, <1>9, <2>2
      <3>2. k \in 1..n
        BY <1>6
      <3> QED BY <1>12, <3>1, <3>2
    <2> QED BY <2>1, <2>2
  <1>14. {p \in DOMAIN out : out[p].url = u} = (before + 1)..(before + l)
    <2>1. (before + 1)..(before + l) \subseteq DOMAIN out
      <3>1. before + l <= Len(out)
        BY <1>8, <1>9
      <3> HIDE DEF l
      <3> QED BY <1>10, <1>11, <3>1
    <2> QED BY <1>13, <2>1
  <1>15. \A i \in 1..l : out[before + i] = r[i]
    BY <1>8, <1>9
  <1> HIDE DEF r, l
  <1>16. r \in Seq(Of(u)) /\ l \in Nat /\ \E b \in Nat :
           {p \in DOMAIN out : out[p].url = u} = (b + 1)..(b + l) /\ \A i \in 1..l : out[b + i] = r[i]
    BY <1>11, <1>14, <1>15
  <1> QED BY <1>3, <1>16 DEF r, l, P

\* A capture of a stream stands in the group of its URL once.
LEMMA InGroup ==
  ASSUME NEW s \in Seq(Caps), NEW i \in DOMAIN s
  PROVE  LET g == Group(s, s[i].url)
         IN  /\ g \in Seq(Caps) /\ Len(g) \in Nat /\ InTime(g)
             /\ \E n \in 1..Len(g) :
                  /\ g[n] = s[i]
                  /\ \A m \in 1..Len(g) : m # n =>
                       \E j \in DOMAIN s \ {i} : g[m] = s[j] /\ g[m].url = s[i].url
  <1> DEFINE u == s[i].url
             g == Group(s, u)
  <1> HIDE DEF u
  <1>1. /\ g \in Seq(Of(u)) /\ Len(g) \in Nat /\ InTime(g)
        /\ \E e \in [1..Len(g) -> DOMAIN s] :
             /\ \A k \in 1..Len(g) : g[k] = s[e[k]]
             /\ \A j \in DOMAIN s : s[j].url = u => \E k \in 1..Len(g) : e[k] = j
             /\ \A j, k \in 1..Len(g) : j < k => e[j] # e[k]
    BY GroupIs
  <1> HIDE DEF g
  <1>2. g \in Seq(Caps)
    BY <1>1 DEF Of
  <1>3. PICK e \in [1..Len(g) -> DOMAIN s] :
          /\ \A k \in 1..Len(g) : g[k] = s[e[k]]
          /\ \A j \in DOMAIN s : s[j].url = u => \E k \in 1..Len(g) : e[k] = j
          /\ \A j, k \in 1..Len(g) : j < k => e[j] # e[k]
    BY <1>1
  <1>4. PICK n \in 1..Len(g) : e[n] = i
    BY <1>3 DEF u
  <1>5. ASSUME NEW m \in 1..Len(g), m # n
        PROVE  \E j \in DOMAIN s \ {i} : g[m] = s[j] /\ g[m].url = u
    <2>1. m < n \/ n < m
      BY <1>1, <1>5
    <2>2. e[m] # i /\ e[m] \in DOMAIN s /\ g[m] = s[e[m]]
      BY <1>3, <1>4, <2>1
    <2>3. g[m] \in Of(u)
      BY <1>1
    <2>4. g[m].url = u
      BY <2>3 DEF Of
    <2> QED BY <2>2, <2>4
  <1>6. g[n] = s[i]
    BY <1>3, <1>4
  <1>7. \E k \in 1..Len(g) :
          /\ g[k] = s[i]
          /\ \A m \in 1..Len(g) : m # k => \E j \in DOMAIN s \ {i} : g[m] = s[j] /\ g[m].url = u
    BY <1>5, <1>6
  <1> QED BY <1>1, <1>2, <1>7 DEF g, u

\* What a manifest that is made keeps of a URL.
LEMMA KeptIs ==
  ASSUME SelInv, phase = "done", job.op \in Samplers, NEW u \in Urls(index)
  PROVE  LET r == Reduce(Group(index, u), job)
         IN  /\ r \in Seq(Caps) /\ Len(r) \in Nat
             /\ \E before \in Nat :
                  /\ Kept(u) = (before + 1)..(before + Len(r))
                  /\ \A k \in 1..Len(r) :
                       before + k \in Kept(u) /\ result[before + k] = r[k]
                  /\ \A x \in Kept(u) :
                       x \in Nat /\ x - before \in 1..Len(r) /\ result[x] = r[x - before]
  <1> DEFINE r == Reduce(Group(index, u), job)
             l == Len(r)
  <1>1. /\ index \in Seq(Caps) /\ job \in Jobs
        /\ result = Sample(index, job) /\ ~SamplePanics(index, job)
    BY DEF SelInv, STypeOK, HandedOver, Samplers, Choosers
  <1>2. /\ r \in Seq(Of(u)) /\ l \in Nat
        /\ \E before \in Nat :
             /\ {k \in DOMAIN Sample(index, job) : Sample(index, job)[k].url = u}
                  = (before + 1)..(before + l)
             /\ \A k \in 1..l : Sample(index, job)[before + k] = r[k]
    BY <1>1, SamplePart
  <1> HIDE DEF r, l
  <1>3. r \in Seq(Caps)
    BY <1>2 DEF Of
  <1>4. PICK before \in Nat : /\ Kept(u) = (before + 1)..(before + l)
                              /\ \A k \in 1..l : result[before + k] = r[k]
    BY <1>1, <1>2 DEF Kept
  <1>5. \A k \in 1..l : before + k \in Kept(u)
    BY <1>2, <1>4
  <1>6. ASSUME NEW x \in Kept(u) PROVE x \in Nat /\ x - before \in 1..l /\ result[x] = r[x - before]
    <2>1. x \in Nat /\ x - before \in 1..l /\ before + (x - before) = x
      BY <1>2, <1>4
    <2> QED BY <1>4, <2>1
  <1>7. \E b \in Nat :
          /\ Kept(u) = (b + 1)..(b + l)
          /\ \A k \in 1..l : b + k \in Kept(u) /\ result[b + k] = r[k]
          /\ \A x \in Kept(u) : x \in Nat /\ x - b \in 1..l /\ result[x] = r[x - b]
    BY <1>4, <1>5, <1>6
  <1> QED BY <1>2, <1>3, <1>7 DEF r, l

\* unique-digest keeps every content a URL had once, in its earliest capture
\* (manifest.rs), for every stream and whatever contents the URLs share.
THEOREM ContentsAreKept == SelectionSpec => []EveryContentOnce
  <1>1. SelInv => EveryContentOnce
    <2> SUFFICES ASSUME SelInv, phase = "done", job.op = "unique-digest", NEW i \in DOMAIN index
                 PROVE  \E k \in Kept(index[i].url) :
                          /\ result[k].digest = index[i].digest
                          /\ result[k].time <= index[i].time
                          /\ \A m \in Kept(index[i].url) \ {k} : result[m].digest # result[k].digest
      BY DEF EveryContentOnce, Sampled
    <2> DEFINE u == index[i].url
               g == Group(index, u)
               r == Reduce(g, job)
    <2>1. index \in Seq(Caps) /\ u \in Urls(index) /\ job.op \in Samplers
      BY DEF SelInv, STypeOK, Urls, Samplers
    <2>2. /\ g \in Seq(Caps) /\ InTime(g)
          /\ \E n \in 1..Len(g) : g[n] = index[i]
      BY <2>1, InGroup
    <2>3. /\ Len(r) \in Nat
          /\ \E before \in Nat :
               /\ \A k \in 1..Len(r) : before + k \in Kept(u) /\ result[before + k] = r[k]
               /\ \A x \in Kept(u) : x \in Nat /\ x - before \in 1..Len(r) /\ result[x] = r[x - before]
      BY <2>1, KeptIs
    <2>4. r = UniqueDigest(g)
      BY DEF Reduce
    <2> HIDE DEF r, g
    <2>5. PICK n \in 1..Len(g) : g[n] = index[i]
      BY <2>2
    <2>6. \E k \in 1..Len(UniqueDigest(g)) :
            /\ UniqueDigest(g)[k].digest = g[n].digest
            /\ UniqueDigest(g)[k].time <= g[n].time
            /\ \A m \in 1..Len(UniqueDigest(g)) :
                 m # k => UniqueDigest(g)[m].digest # UniqueDigest(g)[k].digest
      <3> HIDE DEF u
      <3> QED BY <2>2, UniqueDigestMeans
    <2>7. PICK k \in 1..Len(r) : /\ r[k].digest = g[n].digest
                                 /\ r[k].time <= g[n].time
                                 /\ \A m \in 1..Len(r) : m # k => r[m].digest # r[k].digest
      BY <2>4, <2>6
    <2>8. PICK before \in Nat :
            /\ \A x \in 1..Len(r) : before + x \in Kept(u) /\ result[before + x] = r[x]
            /\ \A x \in Kept(u) : x \in Nat /\ x - before \in 1..Len(r) /\ result[x] = r[x - before]
      BY <2>3
    <2> DEFINE w == before + k
    <2>9. w \in Kept(u) /\ result[w] = r[k]
      BY <2>8
    <2>10. ASSUME NEW m \in Kept(u), m # w PROVE result[m].digest # result[w].digest
      <3>1. m \in Nat /\ m - before \in 1..Len(r) /\ result[m] = r[m - before]
        BY <2>8
      <3>2. m - before # k
        BY <2>10, <3>1
      <3> HIDE DEF w
      <3> QED BY <2>7, <2>9, <3>1, <3>2
    <2> HIDE DEF w
    <2> QED BY <2>5, <2>7, <2>9, <2>10 DEF u
  <1> QED BY <1>1, SelectionInvariant, PTL

\* first-last-digest loses no content: the capture kept last up to the time of a
\* capture shows the content the URL had then (manifest.rs).
THEOREM HistoryIsKept == SelectionSpec => []HistoryKept
  <1>1. SelInv => HistoryKept
    <2> SUFFICES ASSUME SelInv, phase = "done", job.op = "first-last-digest",
                        NEW i \in DOMAIN index, Alone(i)
                 PROVE  \E k \in Kept(index[i].url) :
                          /\ result[k].time <= index[i].time
                          /\ result[k].digest = index[i].digest
                          /\ \A m \in Kept(index[i].url) :
                               result[m].time <= index[i].time => result[m].time <= result[k].time
      BY DEF HistoryKept, Sampled
    <2> DEFINE u == index[i].url
               g == Group(index, u)
               r == Reduce(g, job)
    <2>1. index \in Seq(Caps) /\ u \in Urls(index) /\ job.op \in Samplers
      BY DEF SelInv, STypeOK, Urls, Samplers
    <2>2. /\ g \in Seq(Caps) /\ InTime(g)
          /\ \E n \in 1..Len(g) :
               /\ g[n] = index[i]
               /\ \A m \in 1..Len(g) : m # n =>
                    \E j \in DOMAIN index \ {i} : g[m] = index[j] /\ g[m].url = index[i].url
      BY <2>1, InGroup
    <2>3. \E before \in Nat :
            /\ \A k \in 1..Len(r) : before + k \in Kept(u) /\ result[before + k] = r[k]
            /\ \A x \in Kept(u) : x - before \in 1..Len(r) /\ result[x] = r[x - before]
      BY <2>1, KeptIs
    <2>4. r = Changes(g)
      BY DEF Reduce
    <2> HIDE DEF r, g
    <2>5. PICK n \in 1..Len(g) :
            /\ g[n] = index[i]
            /\ \A m \in 1..Len(g) : m # n =>
                 \E j \in DOMAIN index \ {i} : g[m] = index[j] /\ g[m].url = index[i].url
      BY <2>2
    <2>6. \A m \in 1..Len(g) : m # n => g[m].time # g[n].time
      BY <2>5 DEF Alone
    <2> DEFINE c == Changes(g)
    <2>6a. \E k \in 1..Len(c) :
            /\ c[k].digest = g[n].digest
            /\ c[k].time <= g[n].time
            /\ \A m \in 1..Len(c) : c[m].time <= g[n].time => c[m].time <= c[k].time
      BY <2>2, <2>6, ChangesMean
    <2> HIDE DEF c
    <2>7. PICK k \in 1..Len(r) :
            /\ r[k].digest = g[n].digest
            /\ r[k].time <= g[n].time
            /\ \A m \in 1..Len(r) : r[m].time <= g[n].time => r[m].time <= r[k].time
      BY <2>4, <2>6a DEF c
    <2>8. PICK before \in Nat :
            /\ \A x \in 1..Len(r) : before + x \in Kept(u) /\ result[before + x] = r[x]
            /\ \A x \in Kept(u) : x - before \in 1..Len(r) /\ result[x] = r[x - before]
      BY <2>3
    <2> DEFINE w == before + k
    <2>9. w \in Kept(u) /\ result[w] = r[k]
      BY <2>8
    <2>10. \A m \in Kept(u) : result[m].time <= index[i].time => result[m].time <= result[w].time
      BY <2>5, <2>7, <2>8, <2>9
    <2> HIDE DEF w
    <2> QED BY <2>5, <2>7, <2>9, <2>10 DEF u
  <1> QED BY <1>1, SelectionInvariant, PTL

\* The policies that thin out keep the edges of a group.
LEMMA EdgesKept ==
  ASSUME NEW g \in Seq(Caps), g # <<>>, NEW j \in Jobs,
         j.op \in {"first-last", "first-last-digest", "adaptive"},
         j.op = "adaptive" => ~CapLenPanics(Changes(g), j.max)
  PROVE  LET r == Reduce(g, j)
         IN  Len(r) \in Nat \ {0} /\ r[1] = g[1] /\ r[Len(r)] = g[Len(g)]
  <1> DEFINE c == Changes(g)
             r == Reduce(g, j)
  <1>1. CASE j.op = "first-last"
    <2>1. r = IF Len(g) <= 2 THEN g ELSE <<g[1], g[Len(g)]>>
      BY <1>1 DEF Reduce, FirstLast
    <2> HIDE DEF r
    <2>2. ASSUME Len(g) <= 2
          PROVE  Len(r) \in Nat \ {0} /\ r[1] = g[1] /\ r[Len(r)] = g[Len(g)]
      BY <2>1, <2>2
    <2>3. ASSUME ~(Len(g) <= 2)
          PROVE  Len(r) \in Nat \ {0} /\ r[1] = g[1] /\ r[Len(r)] = g[Len(g)]
      BY <2>1, <2>3
    <2> QED BY <2>2, <2>3 DEF r
  <1>2. CASE j.op # "first-last"
    <2>1. c \in Seq(Caps) /\ c # <<>> /\ c[1] = g[1] /\ c[Len(c)] = g[Len(g)]
      BY ChangesKeep
    <2>2. CASE j.op = "first-last-digest"
      <3>1. r = c
        BY <2>2 DEF Reduce
      <3> HIDE DEF r, c
      <3>2. Len(r) \in Nat \ {0} /\ r[1] = g[1] /\ r[Len(r)] = g[Len(g)]
        BY <2>1, <3>1
      <3> QED BY <3>2 DEF r
    <2>3. CASE j.op = "adaptive"
      <3> DEFINE d == CapLen(c, j.max)
      <3>1. r = d
        BY <2>3 DEF Reduce
      <3>2. j.max \in Nat /\ ~CapLenPanics(c, j.max)
        BY <2>3, JobIs
      <3> HIDE DEF r, c
      <3>3. d \in Seq(Caps) /\ d # <<>> /\ d[1] = c[1] /\ d[Len(d)] = c[Len(c)]
        BY <2>1, <3>2, CapLenKeeps
      <3> HIDE DEF d
      <3>4. Len(r) \in Nat \ {0} /\ r[1] = g[1] /\ r[Len(r)] = g[Len(g)]
        BY <2>1, <3>1, <3>3
      <3> QED BY <3>4 DEF r
    <2> QED BY <1>2, <2>2, <2>3
  <1> QED BY <1>1, <1>2

\* A sample that thins out keeps the time span of each URL (manifest.rs): its
\* earliest capture and its latest.
THEOREM SpanIsKept == SelectionSpec => []SpanKept
  <1>1. SelInv => SpanKept
    <2> SUFFICES ASSUME SelInv, phase = "done",
                        job.op \in {"first-last", "first-last-digest", "adaptive"},
                        NEW i \in DOMAIN index
                 PROVE  /\ \E k \in Kept(index[i].url) : result[k].time <= index[i].time
                        /\ \E k \in Kept(index[i].url) : result[k].time >= index[i].time
      BY DEF SpanKept
    <2> DEFINE u == index[i].url
               g == Group(index, u)
               r == Reduce(g, job)
    <2>1. /\ index \in Seq(Caps) /\ u \in Urls(index) /\ job \in Jobs /\ job.op \in Samplers
          /\ job.op = "adaptive" => ~CapLenPanics(Changes(g), job.max)
      BY DEF SelInv, STypeOK, HandedOver, Urls, Samplers, Choosers, SamplePanics
    <2>2. /\ g \in Seq(Caps) /\ Len(g) \in Nat /\ InTime(g)
          /\ \E n \in 1..Len(g) : g[n] = index[i]
      BY <2>1, InGroup
    <2>3. \E before \in Nat :
            \A k \in 1..Len(r) : before + k \in Kept(u) /\ result[before + k] = r[k]
      BY <2>1, KeptIs
    <2> HIDE DEF g
    <2>4. PICK n \in 1..Len(g) : g[n] = index[i]
      BY <2>2
    <2>5. g # <<>>
      BY <2>2, <2>4
    <2>6. Len(r) \in Nat \ {0} /\ r[1] = g[1] /\ r[Len(r)] = g[Len(g)]
      BY <2>1, <2>2, <2>5, EdgesKept
    <2> HIDE DEF r
    <2>7. g[1].time <= g[n].time /\ g[n].time <= g[Len(g)].time
      <3>1. /\ 1 \in 1..Len(g) /\ Len(g) \in 1..Len(g)
            /\ 1 = n \/ 1 < n
            /\ n = Len(g) \/ n < Len(g)
        BY <2>2, <2>4
      <3>2. \A x \in 1..Len(g) : g[x].time \in Int
        BY <2>2, CaptureAssumption DEF Caps
      <3>3. \A x \in 1..Len(g) : g[x].time <= g[x].time
        BY <3>2
      <3> QED BY <2>2, <3>1, <3>3 DEF InTime
    <2>8. PICK before \in Nat :
            \A k \in 1..Len(r) : before + k \in Kept(u) /\ result[before + k] = r[k]
      BY <2>3
    <2> DEFINE l == Len(r)
    <2>9. 1 \in 1..l /\ l \in 1..l
      BY <2>6
    <2>10. /\ before + 1 \in Kept(u) /\ result[before + 1] = g[1]
           /\ before + l \in Kept(u) /\ result[before + l] = g[Len(g)]
      BY <2>6, <2>8, <2>9
    <2>11. /\ result[before + 1].time <= index[i].time
           /\ index[i].time <= result[before + l].time
      BY <2>4, <2>7, <2>10
    <2>12. index[i].time \in Int /\ result[before + l].time \in Int
      BY <2>1, <2>2, <2>4, <2>10, CaptureAssumption DEF Caps
    <2>13. result[before + l].time >= index[i].time
      BY <2>11, <2>12
    <2> HIDE DEF l
    <2> QED BY <2>10, <2>11, <2>13 DEF u
  <1> QED BY <1>1, SelectionInvariant, PTL

\* adaptive keeps at most max captures of a URL, and the only manifests that are
\* not made are those of a limit of 1 for a URL with several captures (manifest.rs).
THEOREM BoundPerUrl == SelectionSpec => []PerUrlBound
  <1>1. SelInv => PerUrlBound
    <2> SUFFICES ASSUME SelInv, job.op = "adaptive" PROVE PerUrlBound
      BY DEF PerUrlBound
    <2>1. /\ index \in Seq(Caps) /\ job \in Jobs /\ job.op \in Samplers
          /\ job.op \notin Choosers /\ job.max \in Nat
      BY JobIs DEF SelInv, STypeOK, Samplers, Choosers
    <2>2. ASSUME NEW u \in Urls(index), job.max # 0 PROVE Cardinality(Kept(u)) <= job.max
      <3>1. CASE phase # "done"
        <4>1. Kept(u) = {}
          BY <3>1 DEF SelInv, HandedOver, Kept
        <4> QED BY <2>1, <4>1, FS_EmptySet
      <3>2. CASE phase = "done"
        <4> DEFINE c == Changes(Group(index, u))
                   r == Reduce(Group(index, u), job)
                   l == Len(r)
        <4>1. r = CapLen(c, job.max)
          BY DEF Reduce
        <4>2. Group(index, u) \in Seq(Of(u))
          BY <2>1, GroupIs
        <4>3. c \in Seq(Of(u))
          BY <4>2, ChangesKeep
        <4>4. ~CapLenPanics(c, job.max)
          BY <2>1, <2>2, <3>2 DEF SelInv, HandedOver, SamplePanics
        <4>5. l \in Nat /\ \E before \in Nat : Kept(u) = (before + 1)..(before + l)
          BY <2>1, <3>2, KeptIs
        <4> HIDE DEF c
        <4>6. Len(CapLen(c, job.max)) <= job.max
          BY <2>1, <2>2, <4>3, <4>4, CapLenKeeps
        <4> HIDE DEF r
        <4>7. l <= job.max
          BY <4>1, <4>6
        <4> HIDE DEF l
        <4>8. PICK before \in Nat : Kept(u) = (before + 1)..(before + l)
          BY <4>5
        <4> DEFINE a == before + 1
                   b == before + l
        <4>9. a \in Int /\ b \in Int /\ (a > b => l = 0) /\ b - a + 1 = l
          BY <4>5
        <4> HIDE DEF a, b
        <4>10. Cardinality(a..b) = IF a > b THEN 0 ELSE b - a + 1
          BY <4>9, FS_Interval
        <4>11. Cardinality(a..b) = l
          BY <4>9, <4>10
        <4>12. Kept(u) = a..b
          BY <4>8 DEF a, b
        <4> QED BY <4>7, <4>11, <4>12
      <3> QED BY <3>1, <3>2
    <2>3. ASSUME phase = "panicked"
          PROVE  job.max = 1 /\ \E u \in Urls(index) : Len(Group(index, u)) > 1
      <3>1. PICK u \in Urls(index) : CapLenPanics(Changes(Group(index, u)), job.max)
        BY <2>3 DEF SelInv, HandedOver, SamplePanics
      <3> DEFINE g == Group(index, u)
      <3>2. g \in Seq(Of(u)) /\ Len(g) \in Nat
        BY <2>1, GroupIs
      <3> HIDE DEF g
      <3>3. Len(Changes(g)) \in Nat /\ Len(Changes(g)) <= Len(g)
        BY <3>2, ChangesKeep
      <3>4. job.max = 1 /\ Len(Changes(g)) > 1
        BY <3>1 DEF g, CapLenPanics
      <3>5. Len(g) > 1
        BY <3>2, <3>3, <3>4
      <3> QED BY <3>4, <3>5 DEF g
    <2> QED BY <2>2, <2>3 DEF PerUrlBound
  <1> QED BY <1>1, SelectionInvariant, PTL

----------------------------------------------------------------------------
(* Templates. *)

\* t stands in s behind the first o characters.
Stands(t, s, o) == o + Len(t) <= Len(s) /\ \A x \in 1..Len(t) : s[o + x] = t[x]

\* What is left of a text, its beginning, and what it begins with.
LEMMA Rest ==
  ASSUME NEW T, NEW s \in Seq(T), NEW o \in 0..Len(s)
  PROVE  LET r == SubSeq(s, o + 1, Len(s))
         IN  /\ r \in Seq(T) /\ Len(r) = Len(s) - o
             /\ \A x \in 1..(Len(s) - o) : r[x] = s[o + x]
  OBVIOUS

\* A text is a prefix where it stands behind nothing.
LEMMA StartsWith ==
  ASSUME NEW T, NEW s \in Seq(T), NEW t \in Seq(T)
  PROVE  IsPrefix(t, s) <=> Stands(t, s, 0)
  <1> DEFINE l == Len(t)
             a == SubSeq(t, 1, l)
             b == SubSeq(s, 1, l)
  <1>1. l \in Nat /\ Len(s) \in Nat /\ a \in Seq(T) /\ Len(a) = l /\ \A x \in 1..l : a[x] = t[x]
    OBVIOUS
  <1>2. ASSUME l <= Len(s) PROVE b \in Seq(T) /\ Len(b) = l /\ \A x \in 1..l : b[x] = s[x] /\ s[0 + x] = s[x]
    BY <1>1, <1>2
  <1>3. IsPrefix(t, s) <=> l <= Len(s) /\ a = b
    BY DEF IsPrefix
  <1>4. Stands(t, s, 0) <=> l <= Len(s) /\ \A x \in 1..l : s[0 + x] = t[x]
    BY <1>1 DEF Stands
  <1> HIDE DEF a, b, l
  <1>5. ASSUME l <= Len(s), \A x \in 1..l : s[0 + x] = t[x] PROVE a = b
    <2>1. \A x \in 1..l : a[x] = b[x]
      BY <1>1, <1>2, <1>5
    <2> QED BY <1>1, <1>2, <1>5, <2>1, SeqEqual
  <1>6. ASSUME l <= Len(s), a = b PROVE \A x \in 1..l : s[0 + x] = t[x]
    BY <1>1, <1>2, <1>6
  <1> QED BY <1>3, <1>4, <1>5, <1>6

\* Where a text begins in another.
LEMMA OffsetsAre ==
  ASSUME NEW T, NEW s \in Seq(T), NEW t \in Seq(T), NEW o
  PROVE  o \in Offsets(t, s) <=> o \in Nat /\ Stands(t, s, o)
  <1>0. Len(s) \in Nat /\ Len(t) \in Nat
    OBVIOUS
  <1>1. o \in 0..(Len(s) - Len(t)) <=> o \in Nat /\ o + Len(t) <= Len(s)
    BY <1>0
  <1>2. ASSUME o \in Nat, o + Len(t) <= Len(s)
        PROVE  IsPrefix(t, SubSeq(s, o + 1, Len(s))) <=> Stands(t, s, o)
    <2> DEFINE r == SubSeq(s, o + 1, Len(s))
    <2>1. o \in 0..Len(s)
      BY <1>0, <1>2
    <2>2. r \in Seq(T) /\ Len(r) = Len(s) - o /\ \A x \in 1..(Len(s) - o) : r[x] = s[o + x]
      BY <2>1, Rest
    <2> HIDE DEF r
    <2>3. IsPrefix(t, r) <=> Stands(t, r, 0)
      BY <2>2, StartsWith
    <2>4. Stands(t, r, 0) <=> \A x \in 1..Len(t) : r[x] = t[x]
      <3>1. 0 + Len(t) <= Len(r) /\ \A x \in 1..Len(t) : 0 + x = x
        BY <1>0, <1>2, <2>2
      <3> QED BY <3>1 DEF Stands
    <2>5. \A x \in 1..Len(t) : r[x] = s[o + x]
      BY <1>0, <1>2, <2>2
    <2>6. Stands(t, s, o) <=> \A x \in 1..Len(t) : s[o + x] = t[x]
      BY <1>2 DEF Stands
    <2> QED BY <2>3, <2>4, <2>5, <2>6 DEF r
  <1>3. Stands(t, s, o) => o + Len(t) <= Len(s)
    BY DEF Stands
  <1> QED BY <1>1, <1>2, <1>3 DEF Offsets

\* What a template puts in a place.
Piece(parts, vals, i) == IF i \in Literals(parts) THEN parts[i].text ELSE vals[parts[i].name]

\* Where the pieces stand: behind each other, from the beginning.
Follow(parts, vals, s, pos) ==
  /\ pos \in [0..Len(parts) -> Nat] /\ pos[0] = 0
  /\ \A k \in 1..Len(parts) :
       /\ pos[k] = pos[k - 1] + Len(Piece(parts, vals, k))
       /\ Stands(Piece(parts, vals, k), s, pos[k - 1])

\* The pieces of a rendering stand in it, one behind the other, up to its end.
LEMMA RenderFollows ==
  ASSUME NEW parts, Parsed(parts), NEW vals,
         \A i \in Variables(parts) : vals[parts[i].name] \in Seq(Chars)
  PROVE  /\ Render(parts, vals) \in Seq(Chars)
         /\ \E pos : /\ Follow(parts, vals, Render(parts, vals), pos)
                     /\ pos[Len(parts)] = Len(Render(parts, vals))
  <1> DEFINE n == Len(parts)
             P(i) == Piece(parts, vals, i)
             R == [i \in DOMAIN parts |-> P(i)]
             U(k) == FlattenSeq(SubSeq(R, 1, k))
             F == FlattenSeq(R)
             pos == [k \in 0..n |-> Len(U(k))]
  <1>1. n \in Nat /\ DOMAIN parts = 1..n
    BY DEF Parsed
  <1>2. ASSUME NEW i \in 1..n PROVE P(i) \in Seq(Chars)
    <2>1. CASE i \in Literals(parts)
      <3>1. parts[i] \in Part /\ parts[i].kind = "lit"
        BY <1>1, <2>1 DEF Parsed, Literals
      <3>2. parts[i].text \in Seq(Chars)
        BY <3>1 DEF Part
      <3> QED BY <2>1, <3>2 DEF Piece
    <2>2. CASE i \notin Literals(parts)
      BY <1>1, <2>2 DEF Piece, Variables
    <2> QED BY <2>1, <2>2
  <1>3. Render(parts, vals) = F
    BY DEF Render, Piece
  <1> HIDE DEF P
  <1>4. R \in [1..n -> Seq(Chars)] /\ \A k \in 1..n : R[k] = P(k)
    BY <1>1, <1>2
  <1> HIDE DEF R, n
  <1>5. R \in Seq(Seq(Chars)) /\ Len(R) = n
    BY <1>1, <1>4, FunctionIsSeq
  <1>6. F \in Seq(Chars) /\ F = U(n)
    <2>1. FlattenSeq(R) = FlattenSeq(SubSeq(R, 1, Len(R))) /\ FlattenSeq(R) \in Seq(Chars)
      BY <1>5, FlattenAll
    <2> QED BY <1>5, <2>1
  <1>7. ASSUME NEW k \in 0..n
        PROVE  /\ U(k) \in Seq(Chars)
               /\ k = 0 => U(k) = <<>>
               /\ k # 0 => U(k) = U(k - 1) \o R[k]
    BY <1>5, FlattenStep
  <1> HIDE DEF U, F
  <1>8. /\ \A k \in 0..n : U(k) \in Seq(Chars) /\ Len(U(k)) \in Nat
        /\ Len(U(0)) = 0
    <2>1. ASSUME NEW k \in 0..n PROVE U(k) \in Seq(Chars)
      BY <1>7
    <2>2. \A a \in Seq(Chars) : Len(a) \in Nat
      OBVIOUS
    <2>3. U(0) = <<>>
      <3>1. 0 \in 0..n
        BY <1>1
      <3> QED BY <1>7, <3>1
    <2>4. Len(U(0)) = 0
      BY <2>3
    <2> QED BY <2>1, <2>2, <2>4
  <1>9. ASSUME NEW k \in 1..n
        PROVE  /\ Len(U(k)) = Len(U(k - 1)) + Len(P(k))
               /\ Len(U(k - 1)) \in Nat /\ Len(P(k)) \in Nat
               /\ \A x \in 1..Len(U(k - 1)) : U(k)[x] = U(k - 1)[x]
               /\ \A x \in 1..Len(P(k)) : U(k)[Len(U(k - 1)) + x] = P(k)[x]
    <2>1. k \in 0..n /\ k - 1 \in 0..n /\ k # 0
      BY <1>1
    <2> DEFINE a == U(k - 1)
               b == P(k)
    <2>2. U(k) = a \o b
      BY <1>4, <1>7, <2>1
    <2>3. a \in Seq(Chars) /\ b \in Seq(Chars)
      BY <1>2, <1>8, <2>1
    <2> HIDE DEF a, b
    <2>4. /\ Len(a \o b) = Len(a) + Len(b) /\ Len(a) \in Nat /\ Len(b) \in Nat
          /\ \A x \in 1..Len(a) : (a \o b)[x] = a[x]
          /\ \A x \in 1..Len(b) : (a \o b)[Len(a) + x] = b[x]
      BY <2>3, Appended
    <2>5. /\ Len(U(k)) = Len(a) + Len(b) /\ Len(a) \in Nat /\ Len(b) \in Nat
          /\ \A x \in 1..Len(a) : U(k)[x] = a[x]
          /\ \A x \in 1..Len(b) : U(k)[Len(a) + x] = b[x]
      BY <2>2, <2>4, Zenon
    <2> QED BY <2>5 DEF a, b
  \* What is rendered first is not changed by what follows.
  <1> DEFINE N == {d \in Nat : d <= n => /\ Len(U(n - d)) <= Len(F)
                                         /\ \A x \in 1..Len(U(n - d)) : F[x] = U(n - d)[x]}
  <1>10. 0 \in N
    <2>1. n - 0 = n /\ n \in 0..n
      BY <1>1
    <2>2. Len(U(n)) <= Len(F) /\ \A x \in 1..Len(U(n)) : F[x] = U(n)[x]
      BY <1>6, <1>8, <2>1
    <2> QED BY <2>1, <2>2
  <1>11. ASSUME NEW d \in Nat, d \in N PROVE d + 1 \in N
    <2> SUFFICES ASSUME d + 1 <= n
                 PROVE  /\ Len(U(n - (d + 1))) <= Len(F)
                        /\ \A x \in 1..Len(U(n - (d + 1))) : F[x] = U(n - (d + 1))[x]
      OBVIOUS
    <2> DEFINE k == n - d
    <2>1. k \in 1..n /\ k - 1 = n - (d + 1) /\ d <= n
      BY <1>1
    <2>2. Len(U(k)) <= Len(F) /\ \A x \in 1..Len(U(k)) : F[x] = U(k)[x]
      BY <1>11, <2>1
    <2> HIDE DEF k, N
    <2>3. /\ Len(U(k)) = Len(U(k - 1)) + Len(P(k))
          /\ Len(U(k - 1)) \in Nat /\ Len(P(k)) \in Nat /\ Len(F) \in Nat
          /\ \A x \in 1..Len(U(k - 1)) : U(k)[x] = U(k - 1)[x]
      BY <1>6, <1>9, <2>1
    <2>4. Len(U(k - 1)) <= Len(F) /\ \A x \in 1..Len(U(k - 1)) : F[x] = U(k - 1)[x]
      BY <2>2, <2>3
    <2> QED BY <2>1, <2>4
  <1>12. \A k \in 0..n : Len(U(k)) <= Len(F) /\ \A x \in 1..Len(U(k)) : F[x] = U(k)[x]
    <2> TAKE k \in 0..n
    <2>1. Nat \subseteq N
      <3> HIDE DEF N
      <3> QED BY <1>10, <1>11, NatInduct
    <2>2. n - k \in Nat /\ n - k <= n /\ n - (n - k) = k
      BY <1>1
    <2> QED BY <2>1, <2>2
  <1> HIDE DEF N
  <1>13. ASSUME NEW k \in 1..n PROVE Stands(P(k), F, Len(U(k - 1)))
    <2>1. /\ Len(U(k)) = Len(U(k - 1)) + Len(P(k))
          /\ Len(U(k - 1)) \in Nat /\ Len(P(k)) \in Nat
          /\ \A x \in 1..Len(P(k)) : U(k)[Len(U(k - 1)) + x] = P(k)[x]
      BY <1>9
    <2>2. k \in 0..n
      BY <1>1
    <2>3. Len(U(k)) <= Len(F) /\ \A x \in 1..Len(U(k)) : F[x] = U(k)[x]
      BY <1>12, <2>2
    <2>4. \A x \in 1..Len(P(k)) : Len(U(k - 1)) + x \in 1..Len(U(k))
      BY <2>1
    <2> QED BY <2>1, <2>3, <2>4 DEF Stands
  <1>14. /\ pos \in [0..n -> Nat] /\ pos[0] = 0 /\ pos[n] = Len(F)
         /\ \A k \in 1..n : pos[k] = Len(U(k)) /\ pos[k - 1] = Len(U(k - 1))
    <2>1. 0 \in 0..n /\ n \in 0..n /\ \A k \in 1..n : k \in 0..n /\ k - 1 \in 0..n
      BY <1>1
    <2> QED BY <1>6, <1>8, <2>1
  <1> HIDE DEF pos
  <1>15. Follow(parts, vals, F, pos)
    BY <1>9, <1>13, <1>14 DEF Follow, n, P
  <1>16. F \in Seq(Chars) /\ \E p : Follow(parts, vals, F, p) /\ p[n] = Len(F)
    BY <1>6, <1>14, <1>15
  <1> QED BY <1>3, <1>16 DEF n

\* The recursion of bind is sound.
LEMMA BindSteps ==
  ASSUME NEW parts, Len(parts) \in Nat, NEW url
  PROVE  \E m : /\ m[0] = Started /\ Bind(parts, url) = m[Len(parts)]
                /\ \A i \in 1..Len(parts) : m[i] = BindPart(parts, url, m[i - 1], i)
  <1> DEFINE l == Len(parts)
             D(g, i) == IF i = 0 THEN Started ELSE BindPart(parts, url, g[i - 1], i)
             Upto(n, g) == g = [i \in 0..n |-> D(g, i)]
             N == {n \in Nat : \E g : Upto(n, g)}
  <1>1. 0 \in N
    <2>1. Upto(0, [i \in 0..0 |-> Started])
      OBVIOUS
    <2> QED BY <2>1
  <1>2. ASSUME NEW n \in Nat, n \in N PROVE n + 1 \in N
    <2>1. PICK g : Upto(n, g)
      BY <1>2
    <2> DEFINE h == [i \in 0..(n + 1) |-> IF i = n + 1 THEN D(g, n + 1) ELSE g[i]]
    <2>2. \A i \in 0..(n + 1) : h[i] = D(h, i)
      <3> TAKE i \in 0..(n + 1)
      <3>1. CASE i = n + 1
        <4>1. i # 0 /\ h[i - 1] = g[i - 1]
          BY <3>1
        <4> QED BY <3>1, <4>1
      <3>2. CASE i # n + 1
        <4>1. i \in 0..n /\ h[i] = g[i] /\ (i # 0 => h[i - 1] = g[i - 1])
          BY <3>2
        <4>2. g[i] = D(g, i)
          BY <2>1, <4>1
        <4> QED BY <4>1, <4>2
      <3> QED BY <3>1, <3>2
    <2>3. Upto(n + 1, h)
      <3> HIDE DEF D
      <3>1. h = [i \in 0..(n + 1) |-> h[i]]
        OBVIOUS
      <3> QED BY <2>2, <3>1
    <2>4. \E x : Upto(n + 1, x)
      <3> HIDE DEF Upto, h
      <3> QED BY <2>3
    <2> HIDE DEF Upto
    <2> QED BY <2>4
  <1>3. \E g : Upto(l, g)
    <2>1. Nat \subseteq N
      <3> HIDE DEF N
      <3> QED BY <1>1, <1>2, NatInduct
    <2> HIDE DEF Upto
    <2> QED BY <2>1
  <1> DEFINE m == CHOOSE g : Upto(l, g)
  <1>4. Bind(parts, url) = m[l]
    BY DEF Bind
  <1>5. m = [i \in 0..l |-> D(m, i)]
    BY <1>3
  <1> HIDE DEF m
  <1>6. m[0] = Started /\ \A i \in 1..l : m[i] = BindPart(parts, url, m[i - 1], i)
    <2> HIDE DEF l
    <2>1. 0 \in 0..l /\ \A i \in 1..l : i \in 0..l /\ i # 0
      BY DEF l
    <2>2. \A i \in 0..l : m[i] = D(m, i)
      <3> HIDE DEF D
      <3> QED BY <1>5
    <2> QED BY <2>1, <2>2
  <1> QED BY <1>4, <1>6

\* Where a variable that begins behind p characters may end.
Ends(parts, url, i, p) ==
  IF i + 1 \in Literals(parts) THEN {o \in Nat : Stands(parts[i + 1].text, url, p + o)}
                               ELSE {Len(url) - p}

\* Parts are literals with a text and variables with a name.
LEMMA PartsAre ==
  ASSUME NEW parts, Parsed(parts)
  PROVE  /\ Len(parts) \in Nat /\ DOMAIN parts = 1..Len(parts)
         /\ Literals(parts) \subseteq 1..Len(parts)
         /\ \A i \in 1..Len(parts) : i \in Variables(parts) <=> i \notin Literals(parts)
         /\ Variables(parts) \subseteq 1..Len(parts)
         /\ \A i \in Literals(parts) : /\ parts[i].text \in Seq(Chars) /\ parts[i].text # <<>>
                                       /\ i + 1 \notin Literals(parts)
  <1>1. parts \in Seq(Part)
    BY DEF Parsed
  <1>2. Len(parts) \in Nat /\ DOMAIN parts = 1..Len(parts) /\ \A i \in 1..Len(parts) : parts[i] \in Part
    BY <1>1
  <1>3. \A i \in Literals(parts) : i \in 1..Len(parts) /\ parts[i].kind = "lit"
    BY <1>2 DEF Literals
  <1>4. \A i \in Literals(parts) : parts[i].text \in Seq(Chars) /\ parts[i].text # <<>>
    BY <1>2, <1>3 DEF Part
  <1> QED BY <1>2, <1>3, <1>4 DEF Parsed, Variables

\* What binding a part comes to.
LEMMA BindPartIs ==
  ASSUME NEW parts, Parsed(parts), NEW url \in Seq(Chars), NEW i \in 1..Len(parts),
         NEW p \in 0..Len(url), NEW v
  PROVE  LET b == BindPart(parts, url, Matched(p, v), i)
         IN  /\ i \in Literals(parts) =>
                  b = IF Stands(parts[i].text, url, p) THEN Matched(p + Len(parts[i].text), v) ELSE Failed
             /\ i \in Variables(parts) /\ Ends(parts, url, i, p) = {} => b = Failed
             /\ i \in Variables(parts) /\ Ends(parts, url, i, p) # {} =>
                  \E e \in Ends(parts, url, i, p), t \in Seq(Chars) :
                    /\ \A o \in Ends(parts, url, i, p) : e <= o
                    /\ e \in Nat /\ Len(t) = e /\ Stands(t, url, p)
                    /\ b = IF e = 0 THEN Failed ELSE Matched(p + e, Inserted(v, parts[i].name, t))
  <1> DEFINE rest == SubSeq(url, p + 1, Len(url))
             m == Matched(p, v)
             b == BindPart(parts, url, m, i)
             E == Ends(parts, url, i, p)
             ends == VarEnd(parts, i, rest)
  <1>1. /\ rest \in Seq(Chars) /\ Len(rest) = Len(url) - p
        /\ \A x \in 1..(Len(url) - p) : rest[x] = url[p + x]
        /\ Len(url) \in Nat /\ p \in Nat
    <2>1. Len(url) \in Nat
      OBVIOUS
    <2> QED BY <2>1, Rest, SMTT(20)
  <1>2. m.ok /\ m.pos = p /\ m.vars = v
    BY DEF Matched
  <1>3. b = IF i \in Literals(parts) THEN MatchLit(m, parts[i].text, rest)
            ELSE IF ends = {} THEN Failed
            ELSE MatchVar(m, parts[i].name, rest, CHOOSE n \in ends : \A k \in ends : n <= k)
    BY <1>2 DEF BindPart
  <1> HIDE DEF rest
  <1>4. ASSUME NEW t \in Seq(Chars), NEW o \in Nat
        PROVE  Stands(t, rest, o) <=> Stands(t, url, p + o)
    <2>1. Len(t) \in Nat
      OBVIOUS
    <2>2. o + Len(t) <= Len(rest) <=> p + o + Len(t) <= Len(url)
      BY <1>1, <2>1
    <2>3. ASSUME o + Len(t) <= Len(rest) PROVE \A x \in 1..Len(t) : rest[o + x] = url[p + o + x]
      <3> TAKE x \in 1..Len(t)
      <3>1. o + x \in 1..(Len(url) - p) /\ p + (o + x) = p + o + x
        BY <1>1, <2>1, <2>3
      <3> QED BY <1>1, <3>1
    <2> QED BY <2>2, <2>3 DEF Stands
  <1>5. ASSUME i \in Literals(parts)
        PROVE  b = IF Stands(parts[i].text, url, p) THEN Matched(p + Len(parts[i].text), v) ELSE Failed
    <2> DEFINE t == parts[i].text
    <2>1. t \in Seq(Chars)
      BY <1>5, PartsAre
    <2> HIDE DEF t
    <2>2. IsPrefix(t, rest) <=> Stands(t, url, p)
      <3>1. p + 0 = p /\ 0 \in Nat
        BY <1>1
      <3> QED BY <1>1, <1>4, <2>1, <3>1, StartsWith
    <2>3. b = IF IsPrefix(t, rest) THEN Matched(p + Len(t), v) ELSE Failed
      BY <1>2, <1>3, <1>5 DEF MatchLit, t
    <2> QED BY <2>2, <2>3 DEF t
  <1>6. ASSUME i \in Variables(parts) PROVE ends = E
    <2>1. CASE i + 1 \in Literals(parts)
      <3> DEFINE t == parts[i + 1].text
      <3>1. t \in Seq(Chars)
        BY <2>1, PartsAre
      <3> HIDE DEF t
      <3>2. \A o : o \in Offsets(t, rest) <=> o \in Nat /\ Stands(t, url, p + o)
        BY <1>1, <1>4, <3>1, OffsetsAre
      <3>3. ends = Offsets(t, rest) /\ E = {o \in Nat : Stands(t, url, p + o)}
        BY <2>1 DEF VarEnd, Ends, t
      <3> HIDE DEF ends, E
      <3> QED BY <3>2, <3>3
    <2>2. CASE i + 1 \notin Literals(parts)
      BY <1>1, <2>2 DEF VarEnd, Ends
    <2> QED BY <2>1, <2>2
  <1>7. \A o \in E : o \in Nat /\ p + o <= Len(url)
    <2>1. CASE i + 1 \in Literals(parts)
      <3>1. Len(parts[i + 1].text) \in Nat
        BY <2>1, PartsAre
      <3>2. \A o \in E : o \in Nat /\ p + o + Len(parts[i + 1].text) <= Len(url)
        BY <2>1 DEF Ends, Stands
      <3> QED BY <1>1, <3>1, <3>2
    <2>2. CASE i + 1 \notin Literals(parts)
      BY <1>1, <2>2 DEF Ends
    <2> QED BY <2>1, <2>2
  <1> HIDE DEF E, ends, m, b
  <1>8. i \in Variables(parts) => i \notin Literals(parts)
    BY PartsAre
  <1>9. ASSUME i \in Variables(parts), E = {} PROVE b = Failed
    BY <1>3, <1>6, <1>8, <1>9
  <1>10. ASSUME i \in Variables(parts), E # {}
         PROVE  \E e \in E, t \in Seq(Chars) :
                  /\ \A o \in E : e <= o
                  /\ e \in Nat /\ Len(t) = e /\ Stands(t, url, p)
                  /\ b = IF e = 0 THEN Failed ELSE Matched(p + e, Inserted(v, parts[i].name, t))
    <2> DEFINE e == CHOOSE n \in E : \A k \in E : n <= k
               t == SubSeq(rest, 1, e)
    <2>1. e \in E /\ \A k \in E : e <= k
      <3>1. \E n \in E : \A k \in E : n <= k
        <4>1. E \subseteq Nat
          BY <1>7
        <4> QED BY <1>10, <4>1, NatLeast
      <3> QED BY <3>1
    <2>2. b = MatchVar(m, parts[i].name, rest, e)
      BY <1>3, <1>6, <1>8, <1>10
    <2> HIDE DEF e
    <2>3. e \in 0..Len(rest) /\ e \in Nat
      BY <1>1, <1>7, <2>1
    <2>4. t \in Seq(Chars) /\ Len(t) = e /\ \A x \in 1..e : t[x] = rest[x]
      BY <1>1, <2>3, Beginning
    <2>5. b = IF e = 0 THEN Failed ELSE Matched(p + e, Inserted(v, parts[i].name, t))
      BY <1>2, <2>2 DEF MatchVar
    <2> HIDE DEF t
    <2>7. Stands(t, url, p)
      <3>1. p + e <= Len(url)
        BY <1>7, <2>1
      <3>2. \A x \in 1..e : t[x] = url[p + x]
        <4> TAKE x \in 1..e
        <4>1. x \in 1..(Len(url) - p)
          BY <1>1, <2>3
        <4> QED BY <1>1, <2>4, <4>1
      <3> QED BY <2>4, <3>1, <3>2 DEF Stands
    <2> QED BY <2>1, <2>3, <2>4, <2>5, <2>7
  <1> QED BY <1>5, <1>9, <1>10 DEF b, E, m

\* The names of the first variables.
NamesTo(parts, k) == {parts[j].name : j \in {i \in Variables(parts) : i <= k}}

\* The names of the parts before a place grow by those of its variable.
LEMMA NamesGrow ==
  ASSUME NEW parts, Parsed(parts), NEW k \in 1..Len(parts)
  PROVE  /\ k \in Literals(parts) => NamesTo(parts, k) = NamesTo(parts, k - 1)
         /\ k \in Variables(parts) => NamesTo(parts, k) = NamesTo(parts, k - 1) \cup {parts[k].name}
         /\ NamesTo(parts, 0) = {} /\ NamesTo(parts, Len(parts)) = Names(parts)
  <1>1. /\ Len(parts) \in Nat /\ Variables(parts) \subseteq 1..Len(parts)
        /\ k \in Literals(parts) => k \notin Variables(parts)
    BY PartsAre
  <1> DEFINE A(n) == {i \in Variables(parts) : i <= n}
  <1>2. /\ k \notin Variables(parts) => A(k) = A(k - 1)
        /\ k \in Variables(parts) => A(k) = A(k - 1) \cup {k}
        /\ A(0) = {} /\ A(Len(parts)) = Variables(parts)
    BY <1>1
  <1>3. \A n : NamesTo(parts, n) = {parts[j].name : j \in A(n)}
    BY DEF NamesTo
  <1> HIDE DEF A
  <1>4. k \in Literals(parts) => NamesTo(parts, k) = NamesTo(parts, k - 1)
    BY <1>1, <1>2, <1>3
  <1>5. k \in Variables(parts) => NamesTo(parts, k) = NamesTo(parts, k - 1) \cup {parts[k].name}
    BY <1>2, <1>3
  <1>6. NamesTo(parts, 0) = {}
    BY <1>2, <1>3
  <1>7. NamesTo(parts, Len(parts)) = Names(parts)
    BY <1>2, <1>3 DEF Names
  <1> QED BY <1>4, <1>5, <1>6, <1>7

\* Of two texts of one length that stand in one place each is the other.
LEMMA StandAlike ==
  ASSUME NEW T, NEW s \in Seq(T), NEW a \in Seq(T), NEW b \in Seq(T), NEW o,
         Len(a) = Len(b), Stands(a, s, o), Stands(b, s, o)
  PROVE  a = b
  <1>1. \A x \in 1..Len(a) : a[x] = b[x]
    BY DEF Stands
  <1> QED BY <1>1, SeqEqual

\* A separator that first begins behind a value begins there in the whole text, too.
LEMMA SeparatorFirst ==
  ASSUME NEW T, NEW url \in Seq(T), NEW val \in Seq(T), NEW lit \in Seq(T), NEW p \in Nat,
         Stands(val, url, p), Stands(lit, url, p + Len(val)),
         Offsets(lit, val \o lit) = {Len(val)}, NEW o \in Nat, Stands(lit, url, p + o)
  PROVE  Len(val) <= o
  <1> SUFFICES ASSUME ~(Len(val) <= o) PROVE FALSE
    OBVIOUS
  <1> DEFINE both == val \o lit
             l == Len(val)
             d == Len(lit)
  <1>1. /\ both \in Seq(T) /\ Len(both) = l + d /\ l \in Nat /\ d \in Nat
        /\ \A x \in 1..l : both[x] = val[x]
        /\ \A x \in 1..d : both[l + x] = lit[x]
    BY Appended
  <1> HIDE DEF both
  <1>2. /\ \A x \in 1..l : url[p + x] = val[x]
        /\ \A x \in 1..d : url[p + l + x] = lit[x]
        /\ \A x \in 1..d : url[p + o + x] = lit[x]
    BY DEF Stands
  <1> HIDE DEF l, d
  <1>3. ASSUME NEW y \in 1..(l + d) PROVE both[y] = url[p + y]
    <2>1. CASE y <= l
      BY <1>1, <1>2, <2>1
    <2>2. CASE y > l
      <3>1. y - l \in 1..d /\ l + (y - l) = y /\ p + l + (y - l) = p + y
        BY <1>1, <2>2
      <3>2. both[l + (y - l)] = lit[y - l] /\ url[p + l + (y - l)] = lit[y - l]
        BY <1>1, <1>2, <3>1
      <3> QED BY <3>1, <3>2
    <2> QED BY <1>1, <2>1, <2>2
  <1>4. o < l
    BY <1>1 DEF l
  <1>5. \A x \in 1..d : both[o + x] = lit[x]
    <2> TAKE x \in 1..d
    <2>1. o + x \in 1..(l + d) /\ p + (o + x) = p + o + x
      BY <1>1, <1>4
    <2>2. both[o + x] = url[p + (o + x)]
      BY <1>3, <2>1
    <2> QED BY <1>2, <2>1, <2>2
  <1>6. Stands(lit, both, o)
    BY <1>1, <1>4, <1>5 DEF Stands, d
  <1>7. o \in Offsets(lit, both)
    BY <1>1, <1>6, OffsetsAre
  <1> QED BY <1>1, <1>4, <1>7 DEF both, l

\* The values whose rendering is the URL are those that are bound.
LEMMA ReadingIsBound ==
  ASSUME NEW parts, Parsed(parts), Readable(parts), NEW url \in Seq(Chars),
         NEW vals \in Readings(parts, url)
  PROVE  Bind(parts, url).ok /\ Bind(parts, url).vars = vals
  <1> DEFINE n == Len(parts)
             P(k) == Piece(parts, vals, k)
             f(k) == [x \in NamesTo(parts, k) |-> vals[x]]
  <1>1. /\ n \in Nat /\ Len(url) \in Nat
        /\ \A k \in 1..n : k \in Variables(parts) <=> k \notin Literals(parts)
        /\ Variables(parts) \subseteq 1..n /\ Literals(parts) \subseteq 1..n
        /\ \A k \in Literals(parts) : parts[k].text \in Seq(Chars)
    BY PartsAre
  <1>2. /\ vals \in [Names(parts) -> Pieces(url)] /\ Render(parts, vals) = url
        /\ \A k \in Variables(parts) : k + 1 \in Literals(parts) =>
             Offsets(parts[k + 1].text, vals[parts[k].name] \o parts[k + 1].text)
               = {Len(vals[parts[k].name])}
    BY DEF Readings
  <1>3. ASSUME NEW k \in Variables(parts)
        PROVE  vals[parts[k].name] \in Seq(Chars) /\ Len(vals[parts[k].name]) \in Nat \ {0}
    <2>1. vals[parts[k].name] \in Pieces(url)
      BY <1>2 DEF Names
    <2>2. PICK a \in 1..Len(url), b \in 1..Len(url) : a <= b /\ vals[parts[k].name] = SubSeq(url, a, b)
      BY <2>1 DEF Pieces
    <2>3. SubSeq(url, a, b) \in Seq(Chars) /\ Len(SubSeq(url, a, b)) \in Nat \ {0}
      BY <2>2
    <2> QED BY <2>2, <2>3
  <1>4. PICK q : Follow(parts, vals, url, q) /\ q[n] = Len(url)
    BY <1>2, <1>3, RenderFollows
  <1>5. PICK m : /\ m[0] = Started /\ Bind(parts, url) = m[n]
                 /\ \A i \in 1..n : m[i] = BindPart(parts, url, m[i - 1], i)
    BY <1>1, BindSteps
  <1>6. /\ q \in [0..n -> Nat] /\ q[0] = 0
        /\ \A k \in 1..n : q[k] = q[k - 1] + Len(P(k)) /\ Stands(P(k), url, q[k - 1])
    BY <1>4 DEF Follow
  <1> DEFINE H == {k \in Nat : k <= n => m[k] = Matched(q[k], f(k))}
  <1>7. 0 \in H
    <2>1. NamesTo(parts, 0) = {}
      BY <1>1 DEF NamesTo
    <2>2. f(0) = <<>>
      BY <2>1
    <2> HIDE DEF f
    <2> QED BY <1>5, <1>6, <2>2 DEF Started
  <1>8. ASSUME NEW i \in Nat, i \in H PROVE i + 1 \in H
    <2> SUFFICES ASSUME i + 1 <= n PROVE m[i + 1] = Matched(q[i + 1], f(i + 1))
      OBVIOUS
    <2> DEFINE k == i + 1
               p == q[i]
    <2>1. k \in 1..n /\ k - 1 = i /\ i <= n /\ i \in 0..n /\ k \in 0..n
      BY <1>1
    <2>2. m[i] = Matched(p, f(i))
      BY <1>8, <2>1
    <2> HIDE DEF H, k, f
    <2>3. m[k] = BindPart(parts, url, Matched(p, f(i)), k)
      BY <1>5, <2>1, <2>2
    <2>4. p \in Nat /\ q[k] = p + Len(P(k)) /\ Stands(P(k), url, p)
      BY <1>6, <2>1
    <2> HIDE DEF p
    <2>5. CASE k \in Literals(parts)
      <3>1. P(k) = parts[k].text /\ Len(P(k)) \in Nat
        BY <1>1, <2>5 DEF Piece
      <3>2. p \in 0..Len(url)
        BY <1>1, <2>4, <3>1 DEF Stands
      <3>3. m[k] = Matched(p + Len(P(k)), f(i))
        BY <2>1, <2>3, <2>4, <2>5, <3>1, <3>2, BindPartIs
      <3>4. f(k) = f(i)
        BY <2>1, <2>5, NamesGrow DEF f
      <3> QED BY <2>4, <3>3, <3>4 DEF k
    <2>6. CASE k \notin Literals(parts)
      <3> DEFINE name == parts[k].name
                 val == vals[name]
                 l == Len(val)
                 E == Ends(parts, url, k, p)
      <3>1. k \in Variables(parts) /\ P(k) = val /\ val \in Seq(Chars) /\ l \in Nat \ {0}
        BY <1>1, <1>3, <2>1, <2>6 DEF Piece
      <3>2. p \in 0..Len(url) /\ Stands(val, url, p)
        BY <1>1, <2>4, <3>1 DEF Stands
      <3>3. l \in E /\ \A o \in E : l <= o
        <4>1. CASE k + 1 \in Literals(parts)
          <5> DEFINE lit == parts[k + 1].text
          <5>1. lit \in Seq(Chars) /\ k + 1 \in 1..n /\ (k + 1) - 1 = k /\ P(k + 1) = lit
            BY <1>1, <2>1, <4>1 DEF Piece
          <5>2. Stands(lit, url, p + l)
            BY <1>6, <2>4, <3>1, <5>1
          <5>3. Offsets(lit, val \o lit) = {l}
            BY <1>2, <3>1, <4>1
          <5>4. E = {o \in Nat : Stands(lit, url, p + o)}
            BY <4>1 DEF Ends
          <5> HIDE DEF lit, E, val
          <5>5. \A o \in E : l <= o
            BY <2>4, <3>1, <3>2, <5>1, <5>2, <5>3, <5>4, SeparatorFirst
          <5> QED BY <3>1, <5>2, <5>4, <5>5
        <4>2. CASE k + 1 \notin Literals(parts)
          <5>1. k + 1 \notin Variables(parts)
            BY <3>1 DEF Readable
          <5>2. k = n
            BY <1>1, <2>1, <4>2, <5>1
          <5>3. Len(url) = p + l
            BY <1>4, <2>4, <3>1, <5>2
          <5>4. E = {Len(url) - p}
            BY <4>2 DEF Ends
          <5> HIDE DEF E, l
          <5>5. Len(url) - p = l
            BY <2>4, <3>1, <5>3
          <5> QED BY <3>1, <5>4, <5>5
        <4> QED BY <4>1, <4>2
      <3> HIDE DEF E
      <3>4. PICK e \in E, t \in Seq(Chars) :
              /\ \A o \in E : e <= o
              /\ e \in Nat /\ Len(t) = e /\ Stands(t, url, p)
              /\ m[k] = IF e = 0 THEN Failed ELSE Matched(p + e, Inserted(f(i), name, t))
        <4>1. E # {}
          BY <3>3
        <4>2. \E e \in E, t \in Seq(Chars) :
                /\ \A o \in E : e <= o
                /\ e \in Nat /\ Len(t) = e /\ Stands(t, url, p)
                /\ BindPart(parts, url, Matched(p, f(i)), k)
                     = IF e = 0 THEN Failed ELSE Matched(p + e, Inserted(f(i), name, t))
          BY <2>1, <3>1, <3>2, <4>1, BindPartIs DEF E
        <4> HIDE DEF name
        <4> QED BY <2>3, <4>2
      <3>5. e = l
        <4>1. e <= l /\ l <= e
          BY <3>3, <3>4
        <4> QED BY <3>1, <3>4, <4>1
      <3>6. t = val
        BY <3>1, <3>2, <3>4, <3>5, StandAlike
      <3>7. m[k] = Matched(p + l, Inserted(f(i), name, val))
        BY <3>1, <3>4, <3>5, <3>6
      <3>8. Inserted(f(i), name, val) = f(k)
        <4>1. NamesTo(parts, k) = NamesTo(parts, i) \cup {name}
          BY <2>1, <3>1, NamesGrow
        <4>2. f(i) = [x \in NamesTo(parts, i) |-> vals[x]] /\ f(k) = [x \in NamesTo(parts, k) |-> vals[x]]
          BY DEF f
        <4>3. Inserted(f(i), name, val) = [x \in NamesTo(parts, i) \cup {name} |-> vals[x]]
          <5> DEFINE S == NamesTo(parts, i)
                     g == f(i)
          <5>1. g = [x \in S |-> vals[x]]
            BY <4>2
          <5> HIDE DEF g, S, name
          <5>2. Inserted(g, name, vals[name]) = [x \in S \cup {name} |-> vals[x]]
            BY <5>1 DEF Inserted
          <5> QED BY <5>2 DEF g, S
        <4> QED BY <4>1, <4>2, <4>3
      <3>9. q[k] = p + l
        BY <2>4, <3>1
      <3> QED BY <3>7, <3>8, <3>9 DEF k
    <2> QED BY <2>5, <2>6
  <1>9. m[n] = Matched(q[n], f(n))
    <2>1. Nat \subseteq H
      <3> HIDE DEF H
      <3> QED BY <1>7, <1>8, NatInduct
    <2> QED BY <1>1, <2>1
  <1>10. f(n) = vals
    <2>1. NamesTo(parts, n) = Names(parts)
      <3>1. {i \in Variables(parts) : i <= n} = Variables(parts)
        BY <1>1
      <3> QED BY <3>1 DEF NamesTo, Names
    <2> QED BY <1>2, <2>1
  <1> HIDE DEF f
  <1> QED BY <1>5, <1>9, <1>10 DEF Matched

\* Pieces that stand behind each other in two texts make them alike as far as they reach.
LEMMA FollowAlike ==
  ASSUME NEW parts, Len(parts) \in Nat, NEW vals, NEW s, NEW t, NEW a, NEW b,
         \A k \in 1..Len(parts) : Len(Piece(parts, vals, k)) \in Nat,
         Follow(parts, vals, s, a), Follow(parts, vals, t, b)
  PROVE  a[Len(parts)] = b[Len(parts)] /\ \A x \in 1..a[Len(parts)] : s[x] = t[x]
  <1> DEFINE n == Len(parts)
             l(k) == Len(Piece(parts, vals, k))
             N == {k \in Nat : k <= n => a[k] = b[k] /\ \A x \in 1..a[k] : s[x] = t[x]}
  <1>1. /\ a \in [0..n -> Nat] /\ b \in [0..n -> Nat] /\ a[0] = 0 /\ b[0] = 0
        /\ \A k \in 1..n :
             /\ l(k) \in Nat /\ a[k] = a[k - 1] + l(k) /\ b[k] = b[k - 1] + l(k)
             /\ \A x \in 1..l(k) : s[a[k - 1] + x] = t[b[k - 1] + x]
    BY DEF Follow, Stands
  <1> HIDE DEF l, n
  <1>2. 0 \in N
    BY <1>1
  <1>3. ASSUME NEW i \in Nat, i \in N PROVE i + 1 \in N
    <2> SUFFICES ASSUME i + 1 <= n
                 PROVE  a[i + 1] = b[i + 1] /\ \A x \in 1..a[i + 1] : s[x] = t[x]
      OBVIOUS
    <2> DEFINE k == i + 1
    <2>1. k \in 1..n /\ k - 1 = i /\ i \in 0..n /\ i <= n
      BY DEF n
    <2>2. a[i] = b[i] /\ a[i] \in Nat /\ \A x \in 1..a[i] : s[x] = t[x]
      BY <1>1, <1>3, <2>1
    <2> HIDE DEF k, N
    <2>3. /\ l(k) \in Nat /\ a[k] = a[i] + l(k) /\ b[k] = b[i] + l(k)
          /\ \A x \in 1..l(k) : s[a[i] + x] = t[b[i] + x]
      BY <1>1, <2>1
    <2>4. ASSUME NEW x \in 1..a[k] PROVE s[x] = t[x]
      <3>1. CASE x <= a[i]
        BY <2>2, <3>1
      <3>2. CASE x > a[i]
        <4>1. x - a[i] \in 1..l(k) /\ a[i] + (x - a[i]) = x
          BY <2>2, <2>3, <3>2
        <4> QED BY <2>2, <2>3, <4>1
      <3> QED BY <2>2, <2>3, <3>1, <3>2
    <2>5. a[k] = b[k]
      BY <2>2, <2>3
    <2> QED BY <2>4, <2>5 DEF k
  <1>4. n \in N
    <2>1. Nat \subseteq N
      <3> HIDE DEF N
      <3> QED BY <1>2, <1>3, NatInduct
    <2> QED BY <2>1 DEF n
  <1>5. n <= n
    BY DEF n
  <1> QED BY <1>4, <1>5 DEF n

\* In a readable template a name marks one place.
LEMMA NamesApartIn ==
  ASSUME NEW parts, Parsed(parts), Readable(parts),
         NEW i \in Variables(parts), NEW j \in Variables(parts), i # j
  PROVE  parts[i].name # parts[j].name
  <1> DEFINE V == Variables(parts)
             f == [k \in V |-> parts[k].name]
  <1>1. f \in Surjection(V, Names(parts))
    BY DEF Surjection, Names
  <1>2. IsFiniteSet(V)
    <2>1. V \subseteq 1..Len(parts) /\ Len(parts) \in Nat
      BY PartsAre
    <2>2. IsFiniteSet(1..Len(parts))
      BY <2>1, FS_Interval
    <2> QED BY <2>1, <2>2, FS_Subset
  <1>3. Cardinality(Names(parts)) = Cardinality(V)
    BY DEF Readable
  <1> HIDE DEF f
  <1>4. f \in Injection(V, Names(parts))
    BY <1>1, <1>2, <1>3, FS_Surjection DEF Injection, Surjection
  <1>5. f[i] # f[j]
    BY <1>4 DEF Injection, IsInjective
  <1> QED BY <1>5 DEF f

\* What is bound, put back, gives the URL, up to what may follow a literal at the end.
LEMMA BoundRenders ==
  ASSUME NEW parts, Parsed(parts), Readable(parts), NEW url \in Seq(Chars), Bind(parts, url).ok
  PROVE  /\ IsPrefix(Render(parts, Bind(parts, url).vars), url)
         /\ Len(parts) \in Variables(parts) => Render(parts, Bind(parts, url).vars) = url
  <1> DEFINE n == Len(parts)
  <1>1. /\ n \in Nat /\ Len(url) \in Nat
        /\ \A k \in 1..n : k \in Variables(parts) <=> k \notin Literals(parts)
        /\ Variables(parts) \subseteq 1..n /\ Literals(parts) \subseteq 1..n
        /\ \A k \in Literals(parts) : parts[k].text \in Seq(Chars)
    BY PartsAre
  <1>2. PICK m : /\ m[0] = Started /\ Bind(parts, url) = m[n]
                 /\ \A i \in 1..n : m[i] = BindPart(parts, url, m[i - 1], i)
    BY <1>1, BindSteps
  <1> DEFINE Pos(i) == m[i].pos
             Vals(i) == m[i].vars
             Placed(i, k) == /\ Pos(k) = Pos(k - 1) + Len(Piece(parts, Vals(i), k))
                             /\ Stands(Piece(parts, Vals(i), k), url, Pos(k - 1))
             J(i) == /\ m[i] = Matched(Pos(i), Vals(i))
                     /\ Pos(i) \in 0..Len(url)
                     /\ i \in Variables(parts) /\ i + 1 \notin Literals(parts) => Pos(i) = Len(url)
                     /\ Vals(i) \in [NamesTo(parts, i) -> Seq(Chars)]
                     /\ \A k \in 1..i : Pos(k) \in Nat /\ Placed(i, k)
             N == {i \in Nat : i <= n /\ m[i].ok => J(i)}
  <1>3. 0 \in N
    <2>1. NamesTo(parts, 0) = {}
      BY <1>1 DEF NamesTo
    <2>2. Pos(0) = 0 /\ Vals(0) = <<>> /\ m[0] = Matched(0, <<>>) /\ 0 \notin Variables(parts)
      BY <1>1, <1>2 DEF Started, Matched
    <2>3. <<>> \in [{} -> Seq(Chars)]
      OBVIOUS
    <2>4. \A k \in 1..0 : Pos(k) \in Nat /\ Placed(0, k)
      <3>1. 1..0 = {}
        OBVIOUS
      <3> QED BY <3>1
    <2>5. m[0] = Matched(Pos(0), Vals(0)) /\ Pos(0) \in 0..Len(url)
      <3> HIDE DEF Pos, Vals
      <3> QED BY <1>1, <2>2
    <2>6. Vals(0) \in [NamesTo(parts, 0) -> Seq(Chars)]
      <3> HIDE DEF Vals
      <3> QED BY <2>1, <2>2, <2>3
    <2> HIDE DEF Pos, Vals, Placed
    <2>7. J(0)
      BY <2>2, <2>4, <2>5, <2>6
    <2> HIDE DEF J
    <2> QED BY <2>7
  <1>4. ASSUME NEW i \in Nat, i \in N PROVE i + 1 \in N
    <2> DEFINE k == i + 1
    <2> SUFFICES ASSUME k <= n, m[k].ok PROVE J(k)
      <3> HIDE DEF J
      <3> QED OBVIOUS
    <2>1. k \in 1..n /\ k - 1 = i /\ i <= n /\ k \in Nat /\ \A j \in 1..k : j \in 1..i \/ j = k
      BY <1>1
    <2> DEFINE p == Pos(i)
               v == Vals(i)
    <2> HIDE DEF k
    <2>2. m[k] = BindPart(parts, url, m[i], k)
      BY <1>2, <2>1
    <2>3. m[i].ok
      BY <2>2 DEF BindPart
    <2>4. J(i)
      <3> HIDE DEF J
      <3> QED BY <1>4, <2>1, <2>3
    <2>5. p \in 0..Len(url) /\ v \in [NamesTo(parts, i) -> Seq(Chars)]
      BY <2>4
    <2>6. m[k] = BindPart(parts, url, Matched(p, v), k)
      BY <2>2, <2>4
    <2>7. \A j \in 1..i : /\ Pos(j) \in Nat /\ Pos(j) = Pos(j - 1) + Len(Piece(parts, v, j))
                          /\ Stands(Piece(parts, v, j), url, Pos(j - 1))
      BY <2>4
    <2>8. ~Failed.ok
      BY DEF Failed
    <2> HIDE DEF p, v, J
    <2>9. ASSUME NEW w, NEW t \in Seq(Chars), m[k] = Matched(p + Len(t), w), Stands(t, url, p),
                 w \in [NamesTo(parts, k) -> Seq(Chars)],
                 Piece(parts, w, k) = t, \A j \in 1..i : Piece(parts, w, j) = Piece(parts, v, j),
                 k \in Variables(parts) /\ k + 1 \notin Literals(parts) => p + Len(t) = Len(url)
          PROVE  J(k)
      <3>1. Pos(k) = p + Len(t) /\ Vals(k) = w /\ Len(t) \in Nat /\ Pos(k - 1) = p
        BY <2>1, <2>9 DEF Matched, p
      <3>2. p + Len(t) \in 0..Len(url) /\ p \in Nat
        BY <1>1, <2>5, <2>9, <3>1 DEF Stands
      <3> HIDE DEF Pos, Vals
      <3>3. ASSUME NEW j \in 1..k PROVE Pos(j) \in Nat /\ Placed(k, j)
        <4>1. CASE j = k
          BY <2>9, <3>1, <3>2, <4>1
        <4>2. CASE j \in 1..i
          <5>1. Piece(parts, Vals(k), j) = Piece(parts, v, j)
            BY <2>9, <3>1, <4>2
          <5> QED BY <2>7, <4>2, <5>1
        <4> QED BY <2>1, <4>1, <4>2
      <3> HIDE DEF Placed
      <3>4. m[k] = Matched(Pos(k), Vals(k)) /\ Pos(k) \in 0..Len(url)
        BY <2>9, <3>1, <3>2
      <3>5. Vals(k) \in [NamesTo(parts, k) -> Seq(Chars)]
        BY <2>9, <3>1
      <3>6. k \in Variables(parts) /\ k + 1 \notin Literals(parts) => Pos(k) = Len(url)
        BY <2>9, <3>1
      <3> QED BY <3>3, <3>4, <3>5, <3>6 DEF J
    <2>10. CASE k \in Literals(parts)
      <3> DEFINE t == parts[k].text
      <3>1. t \in Seq(Chars) /\ Piece(parts, v, k) = t /\ k \notin Variables(parts)
        BY <1>1, <2>1, <2>10 DEF Piece
      <3>2. BindPart(parts, url, Matched(p, v), k)
              = IF Stands(t, url, p) THEN Matched(p + Len(t), v) ELSE Failed
        BY <2>1, <2>5, <2>10, BindPartIs
      <3>3. Stands(t, url, p) /\ m[k] = Matched(p + Len(t), v)
        <4> HIDE DEF t
        <4> QED BY <2>6, <2>8, <3>2
      <3>4. v \in [NamesTo(parts, k) -> Seq(Chars)]
        BY <2>1, <2>5, <2>10, NamesGrow
      <3> HIDE DEF t
      <3> QED BY <2>9, <3>1, <3>3, <3>4
    <2>11. CASE k \in Variables(parts)
      <3> DEFINE name == parts[k].name
                 E == Ends(parts, url, k, p)
      <3>1. E # {}
        <4>1. E = {} => BindPart(parts, url, Matched(p, v), k) = Failed
          BY <2>1, <2>5, <2>11, BindPartIs
        <4> HIDE DEF E
        <4> QED BY <2>6, <2>8, <4>1
      <3>2. \E e \in E, t \in Seq(Chars) :
              /\ \A o \in E : e <= o
              /\ e \in Nat /\ Len(t) = e /\ Stands(t, url, p)
              /\ BindPart(parts, url, Matched(p, v), k)
                   = IF e = 0 THEN Failed ELSE Matched(p + e, Inserted(v, parts[k].name, t))
        <4>1. E # {} => \E e \in E, t \in Seq(Chars) :
              /\ \A o \in E : e <= o
              /\ e \in Nat /\ Len(t) = e /\ Stands(t, url, p)
              /\ BindPart(parts, url, Matched(p, v), k)
                   = IF e = 0 THEN Failed ELSE Matched(p + e, Inserted(v, parts[k].name, t))
          BY <2>1, <2>5, <2>11, BindPartIs
        <4> HIDE DEF E
        <4> QED BY <3>1, <4>1
      <3>3. k + 1 \notin Literals(parts) => E = {Len(url) - p}
        BY DEF Ends
      <3> HIDE DEF E
      <3>4. PICK e \in E, t \in Seq(Chars) :
              /\ \A o \in E : e <= o
              /\ e \in Nat /\ Len(t) = e /\ Stands(t, url, p)
              /\ BindPart(parts, url, Matched(p, v), k)
                   = IF e = 0 THEN Failed ELSE Matched(p + e, Inserted(v, parts[k].name, t))
        BY <3>2
      <3> DEFINE w == Inserted(v, name, t)
      <3>5. m[k] = Matched(p + Len(t), w)
        <4> HIDE DEF w
        <4> QED BY <2>6, <2>8, <3>4 DEF w
      <3>6. NamesTo(parts, k) = NamesTo(parts, i) \cup {name}
        BY <2>1, <2>11, NamesGrow
      <3>7. /\ w \in [NamesTo(parts, k) -> Seq(Chars)] /\ w[name] = t
            /\ \A x \in NamesTo(parts, i) : x # name => w[x] = v[x]
        <4> HIDE DEF name
        <4> QED BY <2>5, <3>6 DEF Inserted
      <3> HIDE DEF w
      <3>8. k \notin Literals(parts) /\ Piece(parts, w, k) = t
        BY <1>1, <2>1, <2>11, <3>7 DEF Piece
      <3>9. ASSUME NEW j \in 1..i PROVE Piece(parts, w, j) = Piece(parts, v, j)
        <4>1. CASE j \in Literals(parts)
          BY <4>1 DEF Piece
        <4>2. CASE j \notin Literals(parts)
          <5>1. j \in Variables(parts) /\ j <= i /\ j # k
            BY <1>1, <2>1, <4>2
          <5>2. parts[j].name # name
            BY <2>11, <5>1, NamesApartIn
          <5>3. parts[j].name \in NamesTo(parts, i)
            BY <5>1 DEF NamesTo
          <5> QED BY <3>7, <4>2, <5>2, <5>3 DEF Piece
        <4> QED BY <4>1, <4>2
      <3>10. k + 1 \notin Literals(parts) => p + Len(t) = Len(url)
        BY <1>1, <2>5, <3>3, <3>4
      <3> QED BY <2>9, <3>4, <3>5, <3>7, <3>8, <3>9, <3>10
    <2> QED BY <1>1, <2>1, <2>10, <2>11
  <1>5. J(n)
    <2>1. Nat \subseteq N
      <3> HIDE DEF N
      <3> QED BY <1>3, <1>4, NatInduct
    <2> HIDE DEF J
    <2> QED BY <1>1, <1>2, <2>1
  <1> DEFINE vals == Bind(parts, url).vars
             r == Render(parts, vals)
             at == [k \in 0..n |-> Pos(k)]
  <1>6. /\ vals = Vals(n) /\ Pos(n) \in 0..Len(url) /\ Pos(0) = 0
        /\ vals \in [NamesTo(parts, n) -> Seq(Chars)]
        /\ \A k \in 1..n : Pos(k) \in Nat /\ Placed(n, k)
        /\ n \in Variables(parts) => Pos(n) = Len(url)
    <2>1. n + 1 \notin Literals(parts)
      BY <1>1
    <2>2. Pos(0) = 0
      BY <1>2 DEF Started, Matched
    <2> HIDE DEF Pos, Placed
    <2> QED BY <1>2, <1>5, <2>1, <2>2
  <1> HIDE DEF N, J
  <1>7. Follow(parts, vals, url, at)
    <2> HIDE DEF Pos, vals, Vals
    <2>1. \A k \in 0..n : Pos(k) \in Nat
      BY <1>6
    <2>2. \A k \in 1..n : at[k] = Pos(k) /\ at[k - 1] = Pos(k - 1)
      BY <1>1
    <2>3. at \in [0..n -> Nat] /\ at[0] = 0
      BY <1>1, <1>6, <2>1
    <2> HIDE DEF at
    <2> QED BY <1>6, <2>2, <2>3 DEF Follow
  <1>8. /\ at[n] = Pos(n) /\ Pos(n) \in Nat
    <2> HIDE DEF Pos
    <2> QED BY <1>1, <1>6
  <1> HIDE DEF vals, at, Pos, Vals, Placed
  <1>9. NamesTo(parts, n) = Names(parts)
    <2>1. {i \in Variables(parts) : i <= n} = Variables(parts)
      BY <1>1
    <2> QED BY <2>1 DEF NamesTo, Names
  <1>10. \A i \in Variables(parts) : vals[parts[i].name] \in Seq(Chars)
    BY <1>6, <1>9 DEF Names
  <1>11. r \in Seq(Chars) /\ \E q : Follow(parts, vals, r, q) /\ q[n] = Len(r)
    BY <1>10, RenderFollows
  <1> HIDE DEF r
  <1>12. PICK q : Follow(parts, vals, r, q) /\ q[n] = Len(r)
    BY <1>11
  <1>13. \A k \in 1..n : Len(Piece(parts, vals, k)) \in Nat
    <2> TAKE k \in 1..n
    <2>1. Piece(parts, vals, k) \in Seq(Chars)
      BY <1>1, <1>10 DEF Piece
    <2> QED BY <2>1
  <1>14. q[n] = at[n] /\ \A x \in 1..q[n] : r[x] = url[x]
    <2> HIDE DEF n
    <2> QED BY <1>1, <1>7, <1>12, <1>13, FollowAlike DEF n
  <1>15. Len(r) <= Len(url) /\ \A x \in 1..Len(r) : url[0 + x] = r[x]
    BY <1>6, <1>8, <1>12, <1>14
  <1>16. IsPrefix(r, url)
    <2>1. Stands(r, url, 0)
      BY <1>11, <1>15 DEF Stands
    <2> QED BY <1>11, <2>1, StartsWith
  <1>17. ASSUME n \in Variables(parts) PROVE r = url
    <2>1. Len(r) = Len(url)
      BY <1>6, <1>8, <1>12, <1>14, <1>17
    <2> QED BY <1>11, <1>12, <1>14, <2>1, SeqEqual
  <1> QED BY <1>16, <1>17 DEF r, vals

\* How a template's job stands: what matches is handed over as it was bound.
BoundInv ==
  job.op = "template" =>
    /\ job \in Jobs /\ index \in Seq(Listed)
    /\ phase = "done" => /\ result = Matching(index, job)
                         /\ bound = [k \in DOMAIN result |-> Binding(job, result[k]).vars]

\* It holds at first, and every step keeps it.
LEMMA BoundInitInv == SelectionInit => BoundInv
  <1> SUFFICES ASSUME SelectionInit, job.op = "template" PROVE BoundInv
    BY DEF BoundInv
  <1>1. index \in Seq(Listed)
    <2>1. PICK n \in 0..MaxListed : index \in [1..n -> Listed]
      BY DEF SelectionInit, Indexes
    <2> QED BY <2>1
  <1> QED BY <1>1 DEF SelectionInit, BoundInv

\* Only the end of a stream hands over.
LEMMA BoundNextInv == BoundInv /\ [SelectionNext]_vars => BoundInv'
  <1> SUFFICES ASSUME BoundInv, [SelectionNext]_vars PROVE BoundInv'
    OBVIOUS
  <1>1. CASE Take
    <2>1. job' = job /\ index' = index /\ phase = "open" /\ (job.op # "fetch" => phase' = phase)
      BY <1>1 DEF Take
    <2> QED BY <2>1 DEF BoundInv
  <1>2. CASE Break
    BY <1>2 DEF Break, BoundInv
  <1>3. CASE End
    <2>1. job' = job /\ index' = index
      BY <1>3 DEF End
    <2>2. ASSUME job.op = "template", phase' = "done"
          PROVE  /\ result' = Matching(index, job)
                 /\ bound' = [k \in DOMAIN result' |-> Binding(job, result'[k]).vars]
      BY <1>3, <2>2 DEF End, Samplers
    <2> QED BY <2>1, <2>2 DEF BoundInv
  <1>4. CASE UNCHANGED vars
    BY <1>4 DEF BoundInv, vars
  <1> QED BY <1>1, <1>2, <1>3, <1>4 DEF SelectionNext, Over

\* A template is what parse makes, and its job binds texts.
LEMMA BoundTexts ==
  ASSUME BoundInv, Templated
  PROVE  /\ Parsed(job.parts) /\ Readable(job.parts)
         /\ \A c \in Listed : Stripped(Texts[c.url]) \in Seq(Chars)
  <1>1. Parsed(job.parts) /\ Readable(job.parts)
    BY JobsAssumption DEF BoundInv, Templated
  <1>2. ASSUME NEW c \in Listed PROVE Stripped(Texts[c.url]) \in Seq(Chars)
    <2>1. Texts[c.url] \in Seq(Chars)
      BY ListedAssumption
    <2>2. Texts[c.url] # <<>> => Tail(Texts[c.url]) \in Seq(Chars)
      BY <2>1
    <2> QED BY <2>1, <2>2 DEF Stripped
  <1> QED BY <1>1, <1>2

\* "Enumerate a template's literal prefix and bind each matching URL" (client.rs,
\* template.rs): whatever the parts of the template, the URLs and their stream,
\* a capture whose URL reads as the template is handed over with the values of
\* that reading, and the values handed over turn the template back into the URL.
THEOREM BindingsAreFaithful == SelectionSpec => []BindingsAreReadings
  <1>1. ASSUME BoundInv PROVE BindingsAreReadings
    <2> SUFFICES ASSUME Templated PROVE BindingsAreReadings
      BY DEF BindingsAreReadings
    <2> DEFINE parts == job.parts
               Url(c) == Stripped(Texts[c.url])
               I == {i \in DOMAIN index : Binding(job, index[i]).ok}
               h == Matching(index, job)
    <2>1. /\ Parsed(parts) /\ Readable(parts)
          /\ \A c \in Listed : Url(c) \in Seq(Chars)
          /\ \A c \in Listed : Binding(job, c) = Bind(parts, Url(c))
      BY <1>1, BoundTexts DEF Binding
    <2>2. /\ index \in Seq(Listed) /\ result = h
          /\ bound = [k \in DOMAIN result |-> Binding(job, result[k]).vars]
      BY <1>1 DEF BoundInv, Templated
    <2>3. /\ h \in Seq(Listed) /\ Len(h) \in Nat /\ DOMAIN h = 1..Len(h)
          /\ \E e \in [1..Len(h) -> I] :
               /\ \A k \in 1..Len(h) : h[k] = index[e[k]]
               /\ \A i \in I : \E k \in 1..Len(h) : e[k] = i
               /\ \A j, k \in 1..Len(h) : j < k => e[j] < e[k]
      <3>1. I \subseteq 1..Len(index) /\ h = Pick(index, I)
        BY <2>2 DEF Matching
      <3> DEFINE p == Pick(index, I)
      <3>2. /\ p \in Seq(Listed) /\ Len(p) \in Nat /\ DOMAIN p = 1..Len(p)
            /\ \E e \in [1..Len(p) -> I] :
                 /\ \A k \in 1..Len(p) : p[k] = index[e[k]]
                 /\ \A i \in I : \E k \in 1..Len(p) : e[k] = i
                 /\ \A j, k \in 1..Len(p) : j < k => e[j] < e[k]
        <4> HIDE DEF I
        <4> QED BY <2>2, <3>1, Picked
      <3>3. h = p
        BY <3>1
      <3> HIDE DEF I, h, p
      <3> QED BY <3>2, <3>3
    <2> HIDE DEF h
    <2>4. PICK e \in [1..Len(h) -> I] :
               /\ \A k \in 1..Len(h) : h[k] = index[e[k]]
               /\ \A i \in I : \E k \in 1..Len(h) : e[k] = i
      BY <2>3
    <2>5. \A i \in DOMAIN index : index[i] \in Listed
      BY <2>2
    <2>6. \A k \in DOMAIN result :
            /\ result[k] \in Listed /\ Binding(job, result[k]).ok
            /\ bound[k] = Bind(parts, Url(result[k])).vars
      BY <2>1, <2>2, <2>3, <2>4, <2>5
    <2> HIDE DEF parts, Url
    <2>7. ASSUME NEW i \in DOMAIN index, NEW vals \in Readings(parts, Url(index[i]))
          PROVE  \E k \in DOMAIN result : result[k] = index[i] /\ bound[k] = vals
      <3>1. Bind(parts, Url(index[i])).ok /\ Bind(parts, Url(index[i])).vars = vals
        BY <2>1, <2>5, <2>7, ReadingIsBound
      <3>2. i \in I
        BY <2>1, <2>5, <3>1
      <3>3. PICK k \in 1..Len(h) : e[k] = i
        BY <2>4, <3>2
      <3>4. k \in DOMAIN result /\ result[k] = index[i]
        BY <2>2, <2>3, <2>4, <3>3
      <3> QED BY <2>6, <3>1, <3>4
    <2>8. ASSUME NEW k \in DOMAIN result
          PROVE  /\ IsPrefix(Render(parts, bound[k]), Url(result[k]))
                 /\ Len(parts) \in Variables(parts) =>
                      Render(parts, bound[k]) = Url(result[k])
      <3>1. Url(result[k]) \in Seq(Chars) /\ Bind(parts, Url(result[k])).ok
        BY <2>1, <2>6
      <3> QED BY <2>1, <2>6, <3>1, BoundRenders
    <2> HIDE DEF I
    <2> QED BY <2>7, <2>8 DEF BindingsAreReadings, parts, Url
  <1>2. BoundInv => BindingsAreReadings
    BY <1>1
  <1> QED BY BoundInitInv, BoundNextInv, <1>2, PTL DEF SelectionSpec
=============================================================================
