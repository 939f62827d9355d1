--------------------------- MODULE FsCacheProofs ---------------------------
(***************************************************************************)
(* Between processes that put one body at a time, each under its own       *)
(* temporary name, no get of FsCache is torn: for any number of processes  *)
(* and of tasks in them, bodies of any length, and kills and cancellations *)
(* anywhere, with what a dropped call leaves on the blocking threads still *)
(* to come.  Two puts of one process at once, one of them such a leftover  *)
(* perhaps, are what SpecApart leaves out (see findings).                  *)
(***************************************************************************)
EXTENDS FsCache, FiniteSetTheorems, TLAPS

FTypeOK ==
  /\ data \in Inodes \cup {NoFile}
  /\ tmp \in [Pids -> Inodes \cup {NoFile}]
  /\ blocks \in [Inodes -> Seq(Values)]
  /\ pc \in [Workers -> Stages]
  /\ ino \in [Workers -> Inodes \cup {NoFile}]
  /\ arg \in [Workers -> [v : Values, ttl : Ttls \cup {0}]]
  /\ mark = [w \in Workers |-> mark[w]]
  /\ outcome \in [Workers -> [hit : BOOLEAN, bytes : Seq(Values)]]

\* No two names have one inode.
NamesApart ==
  /\ \A p \in Pids : tmp[p] # NoFile => tmp[p] # data
  /\ \A p, q \in Pids : p # q /\ tmp[p] # NoFile => tmp[p] # tmp[q]

\* A put has the first blocks of its body in the temporary file, then all.
Writing ==
  \A w \in Workers :
    /\ pc[w] = "write" =>
         /\ ino[w] # NoFile /\ ino[w] = tmp[PidOf[w]]
         /\ mark[w] \in 1..BlocksOf[arg[w].v]
         /\ blocks[ino[w]] = [j \in 1..(mark[w] - 1) |-> arg[w].v]
    /\ pc[w] = "rename" =>
         tmp[PidOf[w]] # NoFile /\ blocks[tmp[PidOf[w]]] = Body(arg[w].v)

\* A file that can be or is being read is whole, and nobody writes to it.
Readable(i) == i \in Inodes /\ blocks[i] \in Contents /\ \A p \in Pids : tmp[p] # i

Reading ==
  /\ data # NoFile => Readable(data)
  /\ \A w \in Workers : pc[w] = "read" => Readable(ino[w])

\* Who is between two files has none open.
NoneOpen ==
  \A w \in Workers : pc[w] \in {"idle", "checkttl", "rename", "rmdata", "rmmeta"} => ino[w] = NoFile

FInv == FTypeOK /\ NamesApart /\ Writing /\ Reading /\ NoneOpen /\ NoTornRead

----------------------------------------------------------------------------
LEMMA NoFileIsNoInode == NoFile \notin Inodes
  BY DEF NoFile, Inodes

\* There is one inode more than names and open files need.
LEMMA InodesCount ==
  /\ Cardinality(Pids) \in Nat /\ Cardinality(Workers) \in Nat
  /\ IsFiniteSet(Inodes \cup {NoFile})
  /\ Cardinality(Inodes \cup {NoFile}) = 2 + Cardinality(Pids) + Cardinality(Workers)
  <1>1. Cardinality(Pids) \in Nat /\ Cardinality(Workers) \in Nat
    BY WorkersAssumption, FS_CardinalityType
  <1> DEFINE n == 1 + Cardinality(Pids) + Cardinality(Workers)
  <1>2. Inodes \cup {NoFile} = 0..n
    BY <1>1 DEF Inodes, NoFile
  <1>3. IsFiniteSet(0..n) /\ Cardinality(0..n) = n + 1
    <2>1. n \in Nat /\ 0 \in Int /\ n \in Int
      BY <1>1
    <2> HIDE DEF n
    <2>2. IsFiniteSet(0..n) /\ Cardinality(0..n) = IF 0 > n THEN 0 ELSE n - 0 + 1
      BY <2>1, FS_Interval
    <2> QED BY <2>1, <2>2
  <1>4. n + 1 = 2 + Cardinality(Pids) + Cardinality(Workers)
    BY <1>1
  <1> HIDE DEF n
  <1> QED BY <1>1, <1>2, <1>3, <1>4

\* A union has no more elements than its parts together.
LEMMA UnionCount ==
  ASSUME NEW S, IsFiniteSet(S), NEW T, IsFiniteSet(T)
  PROVE  /\ IsFiniteSet(S \cup T)
         /\ Cardinality(S \cup T) \in Nat
         /\ Cardinality(S \cup T) <= Cardinality(S) + Cardinality(T)
  <1>1. IsFiniteSet(S \cup T) /\ IsFiniteSet(S \cap T)
    BY FS_Union, FS_Intersection
  <1>2. /\ Cardinality(S) \in Nat /\ Cardinality(T) \in Nat
        /\ Cardinality(S \cap T) \in Nat /\ Cardinality(S \cup T) \in Nat
    BY <1>1, FS_CardinalityType
  <1>3. Cardinality(S \cup T) = Cardinality(S) + Cardinality(T) - Cardinality(S \cap T)
    BY FS_Union
  <1> QED BY <1>1, <1>2, <1>3

\* An image has no more elements than the domain.
LEMMA ImageCount ==
  ASSUME NEW S, IsFiniteSet(S), NEW f, f = [x \in S |-> f[x]]
  PROVE  /\ IsFiniteSet({f[x] : x \in S})
         /\ Cardinality({f[x] : x \in S}) \in Nat
         /\ Cardinality({f[x] : x \in S}) <= Cardinality(S)
  <1>1. f \in Surjection(S, {f[x] : x \in S})
    BY DEF Surjection
  <1> QED BY <1>1, FS_Surjection, FS_CardinalityType

\* While a worker has no file open there is an inode to be had.
LEMMA FreshIsFree ==
  ASSUME tmp \in [Pids -> Inodes \cup {NoFile}], ino \in [Workers -> Inodes \cup {NoFile}],
         NEW w \in Workers, ino[w] = NoFile
  PROVE  Fresh \in FreeInodes
  <1> DEFINE T == {tmp[p] : p \in Pids}
             I == {ino[u] : u \in Workers}
             used == ({data} \cup T) \cup I
  <1>1. /\ IsFiniteSet(T) /\ Cardinality(T) \in Nat /\ Cardinality(T) <= Cardinality(Pids)
        /\ IsFiniteSet(I) /\ Cardinality(I) \in Nat /\ Cardinality(I) <= Cardinality(Workers)
    <2>1. tmp = [p \in Pids |-> tmp[p]] /\ ino = [u \in Workers |-> ino[u]]
      OBVIOUS
    <2>2. IsFiniteSet(T) /\ Cardinality(T) \in Nat /\ Cardinality(T) <= Cardinality(Pids)
      BY <2>1, WorkersAssumption, ImageCount
    <2>3. IsFiniteSet(I) /\ Cardinality(I) \in Nat /\ Cardinality(I) <= Cardinality(Workers)
      BY <2>1, WorkersAssumption, ImageCount
    <2> QED BY <2>2, <2>3
  <1>2. IsFiniteSet({data}) /\ Cardinality({data}) = 1
    BY FS_Singleton
  <1> HIDE DEF T, I
  <1>3. /\ IsFiniteSet({data} \cup T)
        /\ Cardinality({data} \cup T) \in Nat /\ Cardinality({data} \cup T) <= 1 + Cardinality(T)
    BY <1>1, <1>2, UnionCount
  <1>4. /\ IsFiniteSet(used) /\ Cardinality(used) \in Nat
        /\ Cardinality(used) <= 1 + Cardinality(Pids) + Cardinality(Workers)
    <2>1. /\ IsFiniteSet(used) /\ Cardinality(used) \in Nat
          /\ Cardinality(used) <= Cardinality({data} \cup T) + Cardinality(I)
      BY <1>1, <1>3, UnionCount
    <2> QED BY <1>1, <1>3, <2>1, InodesCount
  <1>5. NoFile \in used
    BY DEF I
  <1>6. ~(Inodes \subseteq used)
    <2> SUFFICES ASSUME Inodes \cup {NoFile} \subseteq used PROVE FALSE
      BY <1>5
    <2>1. Cardinality(Inodes \cup {NoFile}) <= Cardinality(used)
      BY <1>4, FS_Subset
    <2> QED BY <1>4, <2>1, InodesCount
  <1>7. FreeInodes = Inodes \ used
    BY DEF FreeInodes, T, I
  <1> QED BY <1>6, <1>7 DEF Fresh

----------------------------------------------------------------------------
\* The body of a value is a whole one, of one block at least.
LEMMA BodyIsContents ==
  ASSUME NEW v \in Values
  PROVE  /\ Body(v) \in Contents /\ Body(v) \in Seq(Values)
         /\ BlocksOf[v] \in Nat \ {0} /\ Body(v) # <<>>
  BY BodyAssumption DEF Body, Contents

\* What a worker may be left with.
LocalsOK ==
  /\ pc \in [Workers -> Stages]
  /\ ino \in [Workers -> Inodes \cup {NoFile}]
  /\ arg \in [Workers -> [v : Values, ttl : Ttls \cup {0}]]
  /\ mark = [w \in Workers |-> mark[w]]

LEMMA ReturnTypes ==
  ASSUME FTypeOK, NEW w \in Workers, Return(w)
  PROVE  LocalsOK'
  <1>1. NoArg \in [v : Values, ttl : Ttls \cup {0}]
    BY BodyAssumption DEF NoArg
  <1>2. "idle" \in Stages
    BY DEF Stages
  <1> QED BY <1>1, <1>2 DEF FTypeOK, Return, LocalsOK

LEMMA GoOnTypes ==
  ASSUME FTypeOK, NEW w \in Workers, NEW stage \in Stages, GoOn(w, stage)
  PROVE  LocalsOK'
  <1>1. CASE dropped[w]
    BY <1>1, ReturnTypes DEF GoOn
  <1>2. CASE ~dropped[w]
    BY <1>2 DEF GoOn, Goto, FTypeOK, LocalsOK
  <1> QED BY <1>1, <1>2

LEMMA MissTypes ==
  ASSUME FTypeOK, NEW w \in Workers, outcome' = [outcome EXCEPT ![w] = Miss]
  PROVE  outcome' \in [Workers -> [hit : BOOLEAN, bytes : Seq(Values)]]
  <1>1. Miss \in [hit : BOOLEAN, bytes : Seq(Values)]
    BY DEF Miss
  <1> QED BY <1>1 DEF FTypeOK

\* At the start there is no file, and nobody has a call.
LEMMA FInitInv == Init => FInv
  <1> SUFFICES ASSUME Init PROVE FInv
    OBVIOUS
  <1> USE DEF Init
  <1>1. FTypeOK
    BY BodyAssumption DEF FTypeOK, Stages, NoArg, Miss
  <1>2. NamesApart /\ Writing /\ Reading /\ NoneOpen /\ NoTornRead
    BY WorkersAssumption DEF NamesApart, Writing, Reading, NoneOpen, NoTornRead, Miss
  <1> QED BY <1>1, <1>2 DEF FInv

\* Steps that write nothing and give nothing a name: a file that is open for
\* reading is one that was, or the entry, and so is what is returned.
LEMMA QuietInv ==
  ASSUME FInv, FTypeOK', UNCHANGED <<tmp, blocks>>,
         data' \in {data, NoFile},
         \A w \in Workers :
           /\ pc'[w] \in {"write", "rename"} =>
                UNCHANGED <<pc[w], ino[w], mark[w], arg[w]>>
           /\ pc'[w] = "read" => (ino'[w] = ino[w] /\ pc[w] = "read") \/ (ino'[w] = data /\ data # NoFile)
           /\ pc'[w] \in {"idle", "checkttl", "rmdata", "rmmeta"} => ino'[w] = NoFile
           /\ \/ outcome'[w] = outcome[w] \/ outcome'[w] = Miss
              \/ pc[w] = "read" /\ outcome'[w] = [hit |-> TRUE, bytes |-> blocks[ino[w]]]
  PROVE  FInv'
  <1> USE DEF FInv
  <1>1. NamesApart'
    BY NoFileIsNoInode DEF NamesApart, FTypeOK
  <1>2. \A i : Readable(i)' <=> Readable(i)
    BY DEF Readable, FTypeOK
  <1>3. Writing'
    BY WorkersAssumption DEF Writing, FTypeOK
  <1>4. Reading'
    BY <1>2 DEF Reading, FTypeOK
  <1>5. NoneOpen'
    BY DEF NoneOpen, FTypeOK
  <1>6. ASSUME NEW w \in Workers, outcome'[w].hit PROVE outcome'[w].bytes \in Contents'
    <2>1. CASE outcome'[w] = outcome[w]
      BY <1>6, <2>1 DEF NoTornRead, Contents
    <2>2. CASE outcome'[w] = Miss
      BY <1>6, <2>2 DEF Miss
    <2>3. CASE pc[w] = "read" /\ outcome'[w] = [hit |-> TRUE, bytes |-> blocks[ino[w]]]
      BY <2>3 DEF Reading, Readable, Contents
    <2> QED BY <2>1, <2>2, <2>3
  <1>7. NoTornRead'
    BY <1>6 DEF NoTornRead
  <1> QED BY <1>1, <1>3, <1>4, <1>5, <1>7

\* get, call by call.
LEMMA ReadStepInv ==
  ASSUME FInv, NEW w \in Workers, GetOpen(w) \/ GetRead(w) \/ GetCheckTtl(w)
  PROVE  FInv'
  <1> USE DEF FInv
  <1>1. UNCHANGED <<tmp, blocks, data>>
    BY DEF GetOpen, GetRead, GetCheckTtl, files
  <1>2. CASE GetOpen(w)
    <2>1. FTypeOK'
      <3>1. outcome' \in [Workers -> [hit : BOOLEAN, bytes : Seq(Values)]]
        BY <1>2, MissTypes DEF GetOpen
      <3>2. LocalsOK'
        BY <1>2 DEF GetOpen, FTypeOK, Stages, locals, Goto, LocalsOK
      <3> QED BY <1>2, <3>1, <3>2 DEF GetOpen, FTypeOK, files, LocalsOK
    <2>2. ASSUME NEW v \in Workers
          PROVE  /\ pc'[v] \in {"write", "rename"} =>
                      UNCHANGED <<pc[v], ino[v], mark[v], arg[v]>>
                 /\ pc'[v] = "read" =>
                      (ino'[v] = ino[v] /\ pc[v] = "read") \/ (ino'[v] = data /\ data # NoFile)
                 /\ pc'[v] \in {"idle", "checkttl", "rmdata", "rmmeta"} => ino'[v] = NoFile
                 /\ outcome'[v] = outcome[v] \/ outcome'[v] = Miss
      <3>1. CASE v = w
        BY <1>2, <3>1 DEF GetOpen, FTypeOK, locals, Goto, NoneOpen
      <3>2. CASE v # w
        BY <1>2, <3>2 DEF GetOpen, FTypeOK, locals, Goto, NoneOpen
      <3> QED BY <3>1, <3>2
    <2> QED BY <1>1, <2>1, <2>2, QuietInv
  <1>3. CASE GetRead(w)
    <2>1. blocks[ino[w]] \in Seq(Values)
      BY <1>3 DEF GetRead, Reading, Readable, FTypeOK
    <2>2. FTypeOK'
      BY <1>3, <2>1 DEF GetRead, FTypeOK, Stages, files, Goto
    <2> QED BY <1>1, <1>3, <2>2, QuietInv DEF GetRead, FTypeOK, Goto, NoneOpen
  <1>4. CASE GetCheckTtl(w)
    <2>1. FTypeOK'
      <3>1. outcome' \in [Workers -> [hit : BOOLEAN, bytes : Seq(Values)]]
        BY <1>4, MissTypes DEF GetCheckTtl, FTypeOK
      <3>2. LocalsOK'
        <4>1. CASE Return(w)
          BY <4>1, ReturnTypes
        <4>2. CASE Goto(w, "rmdata") /\ UNCHANGED <<ino, arg, mark>>
          BY <4>2 DEF Goto, FTypeOK, Stages, LocalsOK
        <4> QED BY <1>4, <4>1, <4>2 DEF GetCheckTtl
      <3> QED BY <1>4, <3>1, <3>2 DEF GetCheckTtl, FTypeOK, files, LocalsOK
    <2> QED BY <1>1, <1>4, <2>1, QuietInv DEF GetCheckTtl, Return, FTypeOK, Goto, NoneOpen
  <1> QED BY <1>2, <1>3, <1>4

\* The sidecar is apart from the bodies.
LEMMA MetaStepInv ==
  ASSUME FInv, NEW w \in Workers, PutMetaOpen(w) \/ PutMetaWrite(w)
  PROVE  FInv'
  <1> USE DEF FInv
  <1>1. UNCHANGED <<tmp, blocks, data>>
    BY DEF PutMetaOpen, PutMetaWrite
  <1>2. CASE PutMetaOpen(w)
    <2>1. FTypeOK'
      BY <1>2 DEF PutMetaOpen, FTypeOK, Stages, Goto
    <2> QED BY <1>1, <1>2, <2>1, QuietInv DEF PutMetaOpen, FTypeOK, Goto, NoneOpen
  <1>3. CASE PutMetaWrite(w)
    <2>1. FTypeOK'
      BY <1>3, BodyAssumption DEF PutMetaWrite, Return, FTypeOK, Stages, NoArg
    <2> QED BY <1>1, <1>3, <2>1, QuietInv DEF PutMetaWrite, Return, FTypeOK, NoneOpen
  <1> QED BY <1>2, <1>3

\* A removal takes a name away and leaves the file to who has it open.
LEMMA GcStepInv ==
  ASSUME FInv, NEW w \in Workers, GcRead(w) \/ RemoveData(w) \/ RemoveMeta(w)
  PROVE  FInv'
  <1> USE DEF FInv
  <1>1. UNCHANGED <<tmp, blocks>> /\ data' \in {data, NoFile}
    BY DEF GcRead, RemoveData, RemoveMeta, files
  <1>2. CASE GcRead(w)
    <2>1. FTypeOK'
      BY <1>2 DEF GcRead, FTypeOK, Stages, Miss, files, Goto
    <2> QED BY <1>1, <1>2, <2>1, QuietInv DEF GcRead, FTypeOK, Goto, NoneOpen
  <1>3. CASE RemoveData(w)
    <2>1. LocalsOK'
      BY <1>3, GoOnTypes DEF RemoveData, Stages
    <2>2. FTypeOK'
      BY <1>3, <2>1 DEF RemoveData, FTypeOK, LocalsOK
    <2> QED BY <1>1, <1>3, <2>2, QuietInv DEF RemoveData, GoOn, Return, FTypeOK, Goto, NoneOpen
  <1>4. CASE RemoveMeta(w)
    <2>1. FTypeOK'
      BY <1>4 DEF RemoveMeta, FTypeOK, Stages, Goto
    <2> QED BY <1>1, <1>4, <2>1, QuietInv DEF RemoveMeta, FTypeOK, Goto, NoneOpen
  <1> QED BY <1>2, <1>3, <1>4

\* A dropped future and a dead process leave the files as they are.
LEMMA StopInv ==
  ASSUME FInv, (\E w \in Workers : Cancel(w)) \/ (\E p \in Pids : Crash(p))
  PROVE  FInv'
  <1> USE DEF FInv
  <1>1. UNCHANGED <<tmp, blocks, data>>
    BY DEF Cancel, Crash, files
  <1>2. CASE \E w \in Workers : Cancel(w)
    <2>1. FTypeOK'
      <3> PICK w \in Workers : Cancel(w)
        BY <1>2
      <3>1. outcome' \in [Workers -> [hit : BOOLEAN, bytes : Seq(Values)]] /\ LocalsOK'
        BY MissTypes, ReturnTypes DEF Cancel, FTypeOK, LocalsOK
      <3> QED BY <3>1 DEF Cancel, FTypeOK, files, LocalsOK
    <2>2. PICK c \in Workers : Cancel(c)
      BY <1>2
    <2>3. ASSUME NEW w \in Workers
          PROVE  /\ pc'[w] \in {"write", "rename"} =>
                      UNCHANGED <<pc[w], ino[w], mark[w], arg[w]>>
                 /\ pc'[w] = "read" => ino'[w] = ino[w] /\ pc[w] = "read"
                 /\ pc'[w] \in {"idle", "checkttl", "rmdata", "rmmeta"} => ino'[w] = NoFile
                 /\ outcome'[w] = outcome[w] \/ outcome'[w] = Miss
      <3>1. CASE w = c
        BY <2>2, <3>1 DEF Cancel, Return, FTypeOK, NoneOpen
      <3>2. CASE w # c
        BY <2>2, <3>2 DEF Cancel, Return, FTypeOK, NoneOpen
      <3> QED BY <3>1, <3>2
    <2> QED BY <1>1, <2>1, <2>3, QuietInv
  <1>3. CASE \E p \in Pids : Crash(p)
    <2>1. FTypeOK'
      BY <1>3, BodyAssumption DEF Crash, FTypeOK, Stages, Miss, NoArg, files
    <2> QED BY <1>1, <1>3, <2>1, QuietInv DEF Crash, FTypeOK, NoneOpen
  <1> QED BY <1>2, <1>3

\* Time is no part of the invariant.
LEMMA TickInv ==
  ASSUME FInv, UNCHANGED <<files, locals, outcome>>
  PROVE  FInv'
  BY DEF FInv, files, locals, FTypeOK, NamesApart, Writing, Reading, Readable, NoneOpen,
         NoTornRead, Contents, Body

----------------------------------------------------------------------------
(* put, where no other put has the temporary name of its process. *)

\* A step that writes to the inode of one process's temporary file leaves the
\* files that can be read, and the other processes' temporary files, alone.
LEMMA WriteIsApart ==
  ASSUME FInv, NEW w \in Workers, NEW i \in Inodes, NEW s,
         \A u \in Workers : u # w /\ WithTmp(u) => PidOf[u] # PidOf[w],
         i = tmp'[PidOf[w]], i # data,
         \A q \in Pids : q # PidOf[w] => tmp'[q] = tmp[q] /\ tmp[q] # i,
         \A u \in Workers : pc[u] = "read" => ino[u] # i,
         blocks' = [blocks EXCEPT ![i] = s], data' = data
  PROVE  /\ NamesApart'
         /\ data # NoFile => Readable(data)'
         /\ \A u \in Workers : pc[u] = "read" => blocks'[ino[u]] = blocks[ino[u]]
         /\ \A u \in Workers : u # w /\ WithTmp(u) =>
              /\ tmp'[PidOf[u]] = tmp[PidOf[u]]
              /\ tmp[PidOf[u]] # NoFile => blocks'[tmp[PidOf[u]]] = blocks[tmp[PidOf[u]]]
  <1> USE DEF FInv, FTypeOK
  <1>1. NamesApart'
    BY NoFileIsNoInode DEF NamesApart
  <1>2. data # NoFile => Readable(data)'
    BY DEF Reading, Readable, Contents, Body
  <1>3. \A u \in Workers : pc[u] = "read" => blocks'[ino[u]] = blocks[ino[u]]
    BY DEF Reading, Readable
  <1>4. ASSUME NEW u \in Workers, u # w, WithTmp(u)
        PROVE  /\ tmp'[PidOf[u]] = tmp[PidOf[u]]
               /\ tmp[PidOf[u]] # NoFile => blocks'[tmp[PidOf[u]]] = blocks[tmp[PidOf[u]]]
    BY <1>4, WorkersAssumption
  <1> QED BY <1>1, <1>2, <1>3, <1>4

\* The temporary file is opened: a new inode, or the truncated one of a dead put.
LEMMA PutOpenInv ==
  ASSUME FInv, PutsApart', NEW w \in Workers, NEW v \in Values, NEW ttl \in Ttls, PutOpen(w, v, ttl)
  PROVE  FInv'
  <1> DEFINE p == PidOf[w]
             i == IF tmp[p] = NoFile THEN Fresh ELSE tmp[p]
  <1> USE DEF FInv
  <1>1. /\ pc[w] = "idle" /\ tmp' = [tmp EXCEPT ![p] = i] /\ blocks' = [blocks EXCEPT ![i] = <<>>]
        /\ ino' = [ino EXCEPT ![w] = i] /\ arg' = [arg EXCEPT ![w] = [v |-> v, ttl |-> ttl]]
        /\ mark' = [mark EXCEPT ![w] = 1] /\ outcome' = [outcome EXCEPT ![w] = Miss]
        /\ pc' = [pc EXCEPT ![w] = "write"] /\ data' = data
    BY DEF PutOpen, TmpOf, Goto
  <1>2. p \in Pids
    BY WorkersAssumption
  <1>3. tmp[p] = NoFile => Fresh \in FreeInodes
    BY <1>1, FreshIsFree DEF NoneOpen, FTypeOK
  <1>4. /\ i \in Inodes /\ i # data
        /\ \A q \in Pids : q # p => tmp[q] # i
        /\ \A u \in Workers : pc[u] = "read" => ino[u] # i
    <2>1. CASE tmp[p] = NoFile
      BY <1>3, <2>1 DEF FreeInodes
    <2>2. CASE tmp[p] # NoFile
      BY <1>2, <2>2 DEF FTypeOK, NamesApart, Reading, Readable
    <2> QED BY <2>1, <2>2
  <1> HIDE DEF p, i
  <1>5. tmp'[p] = i /\ \A q \in Pids : q # p => tmp'[q] = tmp[q] /\ tmp[q] # i
    BY <1>1, <1>2, <1>4 DEF FTypeOK
  <1>6. /\ NamesApart'
        /\ data # NoFile => Readable(data)'
        /\ \A u \in Workers : pc[u] = "read" => blocks'[ino[u]] = blocks[ino[u]]
        /\ \A u \in Workers : u # w /\ WithTmp(u) =>
              /\ tmp'[PidOf[u]] = tmp[PidOf[u]]
              /\ tmp[PidOf[u]] # NoFile => blocks'[tmp[PidOf[u]]] = blocks[tmp[PidOf[u]]]
    <2>1. ASSUME NEW u \in Workers, u # w, WithTmp(u) PROVE PidOf[u] # PidOf[w]
      BY <1>1, <2>1 DEF PutsApart, WithTmp, FTypeOK
    <2> QED BY <1>1, <1>4, <1>5, <2>1, WriteIsApart DEF p
  <1>7. FTypeOK'
    <2>1. outcome' \in [Workers -> [hit : BOOLEAN, bytes : Seq(Values)]]
      BY <1>1, MissTypes
    <2>2. LocalsOK'
      BY <1>1, <1>4 DEF FTypeOK, LocalsOK, Stages
    <2> QED BY <1>1, <1>2, <1>4, <2>1, <2>2 DEF FTypeOK, LocalsOK
  <1>8. Writing'
    <2>1. BlocksOf[v] \in Nat \ {0} /\ <<>> = [j \in 1..(1 - 1) |-> v]
      BY BodyIsContents
    <2>2. ASSUME NEW u \in Workers, u = w
          PROVE  /\ pc'[u] = "write" /\ ino'[u] # NoFile /\ ino'[u] = tmp'[PidOf[u]]
                 /\ mark'[u] = 1 /\ arg'[u].v = v /\ blocks'[ino'[u]] = <<>>
      BY <1>1, <1>4, <1>5, <2>2, NoFileIsNoInode DEF FTypeOK, p
    <2>3. ASSUME NEW u \in Workers, u # w
          PROVE  UNCHANGED <<pc[u], ino[u], mark[u], arg[u]>>
      BY <1>1, <2>3 DEF FTypeOK
    <2> QED BY <1>6, <2>1, <2>2, <2>3 DEF Writing, Body, WithTmp
  <1>9. Reading'
    BY <1>1, <1>4, <1>5, <1>6 DEF Reading, Readable, FTypeOK, Contents, Body
  <1>10. NoneOpen'
    BY <1>1 DEF NoneOpen, FTypeOK
  <1>11. NoTornRead'
    BY <1>1 DEF NoTornRead, Miss, FTypeOK, Contents, Body
  <1> QED BY <1>6, <1>7, <1>8, <1>9, <1>10, <1>11

\* A block written behind the last one makes the prefix one block longer.
LEMMA WriteAtEnd ==
  ASSUME NEW v, NEW m \in Nat \ {0}
  PROVE  WriteAt([j \in 1..(m - 1) |-> v], m, v) = [j \in 1..m |-> v]
  <1> DEFINE s == [j \in 1..(m - 1) |-> v]
  <1>1. Len(s) = m - 1 /\ \A j \in 1..(m - 1) : s[j] = v
    OBVIOUS
  <1> HIDE DEF s
  <1>2. WriteAt(s, m, v) = [j \in 1..m |-> IF j = m THEN v ELSE IF j <= Len(s) THEN s[j] ELSE "zero"]
    BY <1>1 DEF WriteAt
  <1>3. \A j \in 1..m : (IF j = m THEN v ELSE IF j <= Len(s) THEN s[j] ELSE "zero") = v
    BY <1>1
  <1>4. WriteAt(s, m, v) = [j \in 1..m |-> v]
    BY <1>2, <1>3
  <1> QED BY <1>4 DEF s

\* A block is written: one more of the body, or the last.
LEMMA PutWriteInv ==
  ASSUME FInv, PutsApart, NEW w \in Workers, PutWrite(w)
  PROVE  FInv'
  <1> DEFINE p == PidOf[w]
             i == ino[w]
             m == mark[w]
             v == arg[w].v
             s == [j \in 1..m |-> v]
  <1> USE DEF FInv
  <1>1. /\ pc[w] = "write" /\ i # NoFile /\ i = tmp[p] /\ m \in 1..BlocksOf[v] /\ v \in Values
        /\ blocks[i] = [j \in 1..(m - 1) |-> v]
    BY DEF PutWrite, Writing, FTypeOK
  <1>2. BlocksOf[v] \in Nat \ {0} /\ m \in Nat \ {0} /\ p \in Pids
    BY <1>1, BodyIsContents, WorkersAssumption
  <1>3. s \in Seq(Values)
    BY <1>1, <1>2
  <1>4. blocks' = [blocks EXCEPT ![i] = s]
    <2>1. blocks' = [blocks EXCEPT ![i] = WriteAt(blocks[i], m, v)]
      BY DEF PutWrite
    <2>2. WriteAt(blocks[i], m, v) = s
      BY <1>1, <1>2, WriteAtEnd
    <2> QED BY <2>1, <2>2
  <1>5. /\ \/ /\ m < BlocksOf[v] /\ mark' = [mark EXCEPT ![w] = m + 1] /\ UNCHANGED <<pc, ino>>
              /\ arg' = arg
           \/ /\ m = BlocksOf[v] /\ mark' = [mark EXCEPT ![w] = 0]
              /\ ino' = [ino EXCEPT ![w] = NoFile]
              /\ \/ pc' = [pc EXCEPT ![w] = "rename"] /\ arg' = arg
                 \/ pc' = [pc EXCEPT ![w] = "idle"] /\ arg' = [arg EXCEPT ![w] = NoArg]
        /\ UNCHANGED <<data, tmp, outcome>>
    BY <1>1, <1>2 DEF PutWrite, GoOn, Return, Goto, FTypeOK
  <1> HIDE DEF p, i, m, v, s
  <1>6. /\ i \in Inodes /\ i # data
        /\ \A q \in Pids : q # p => tmp'[q] = tmp[q] /\ tmp[q] # i
        /\ \A u \in Workers : pc[u] = "read" => ino[u] # i
    BY <1>1, <1>2, <1>5 DEF FTypeOK, NamesApart, Reading, Readable
  <1>a. i = tmp'[PidOf[w]] /\ data' = data
    BY <1>1, <1>5 DEF p
  <1>7. /\ NamesApart'
        /\ data # NoFile => Readable(data)'
        /\ \A u \in Workers : pc[u] = "read" => blocks'[ino[u]] = blocks[ino[u]]
        /\ \A u \in Workers : u # w /\ WithTmp(u) =>
              /\ tmp'[PidOf[u]] = tmp[PidOf[u]]
              /\ tmp[PidOf[u]] # NoFile => blocks'[tmp[PidOf[u]]] = blocks[tmp[PidOf[u]]]
    <2>1. ASSUME NEW u \in Workers, u # w, WithTmp(u) PROVE PidOf[u] # PidOf[w]
      BY <1>1, <2>1 DEF PutsApart, WithTmp
    <2>2. \A u \in Workers : u # w /\ WithTmp(u) => PidOf[u] # PidOf[w]
      BY <2>1
    <2>3. \A q \in Pids : q # PidOf[w] => tmp'[q] = tmp[q] /\ tmp[q] # i
      BY <1>6 DEF p
    <2> QED BY <1>4, <1>6, <1>a, <2>2, <2>3, WriteIsApart
  <1>8. FTypeOK'
    <2>1. LocalsOK'
      <3>1. NoArg \in [v : Values, ttl : Ttls \cup {0}]
        BY BodyAssumption DEF NoArg
      <3>2. m + 1 \in Int /\ "rename" \in Stages /\ "idle" \in Stages
        BY <1>2 DEF Stages
      <3>3. pc' \in [Workers -> Stages]
        BY <1>5, <3>2 DEF FTypeOK
      <3>5. arg' \in [Workers -> [v : Values, ttl : Ttls \cup {0}]]
        BY <1>5, <3>1 DEF FTypeOK
      <3>4. ino' \in [Workers -> Inodes \cup {NoFile}] /\ mark' = [u \in Workers |-> mark'[u]]
        BY <1>5 DEF FTypeOK
      <3> QED BY <3>3, <3>4, <3>5 DEF LocalsOK
    <2> QED BY <1>3, <1>4, <1>5, <2>1 DEF FTypeOK, LocalsOK
  <1>9. Writing'
    <2>0. ASSUME NEW u \in Workers, u # w
          PROVE  UNCHANGED <<pc[u], ino[u], mark[u], arg[u], tmp[PidOf[u]]>>
      BY <1>5, <2>0 DEF FTypeOK
    <2>1. ASSUME NEW u \in Workers, u # w, WithTmp(u)'
          PROVE  /\ UNCHANGED <<pc[u], ino[u], mark[u], arg[u], tmp[PidOf[u]]>>
                 /\ tmp[PidOf[u]] # NoFile => blocks'[tmp[PidOf[u]]] = blocks[tmp[PidOf[u]]]
      BY <1>7, <2>0, <2>1 DEF WithTmp
    <2>2. CASE m < BlocksOf[v]
      <3>1. /\ pc'[w] = "write" /\ ino'[w] = i /\ tmp'[PidOf[w]] = i /\ arg'[w].v = v
            /\ mark'[w] = m + 1 /\ blocks'[i] = s /\ s = [j \in 1..((m + 1) - 1) |-> v]
            /\ m + 1 \in 1..BlocksOf[v]
        BY <1>1, <1>2, <1>4, <1>5, <1>6, <1>a, <2>2 DEF FTypeOK, i, v, m, s
      <3>2. ASSUME NEW u \in Workers, u = w
            PROVE  /\ pc'[u] = "write" /\ ino'[u] # NoFile /\ ino'[u] = tmp'[PidOf[u]]
                   /\ mark'[u] \in 1..BlocksOf[arg'[u].v]
                   /\ blocks'[ino'[u]] = [j \in 1..(mark'[u] - 1) |-> arg'[u].v]
        BY <1>1, <3>1, <3>2
      <3>3. ASSUME NEW u \in Workers, u # w, pc'[u] = "write"
            PROVE  /\ ino'[u] # NoFile /\ ino'[u] = tmp'[PidOf[u]]
                   /\ mark'[u] \in 1..BlocksOf[arg'[u].v]
                   /\ blocks'[ino'[u]] = [j \in 1..(mark'[u] - 1) |-> arg'[u].v]
        BY <2>1, <3>3 DEF Writing, WithTmp
      <3>4. ASSUME NEW u \in Workers, pc'[u] = "rename"
            PROVE  tmp'[PidOf[u]] # NoFile /\ blocks'[tmp'[PidOf[u]]] = Body(arg'[u].v)
        <4>1. u # w
          BY <3>1, <3>4
        <4>2. pc[u] = "rename" /\ arg'[u] = arg[u] /\ tmp'[PidOf[u]] = tmp[PidOf[u]]
          BY <2>1, <3>4, <4>1 DEF WithTmp
        <4>3. tmp[PidOf[u]] # NoFile /\ blocks[tmp[PidOf[u]]] = Body(arg[u].v)
          BY <4>2 DEF Writing
        <4> QED BY <2>1, <3>4, <4>1, <4>2, <4>3 DEF WithTmp
      <3> QED BY <3>2, <3>3, <3>4 DEF Writing, Body
    <2>3. CASE m = BlocksOf[v]
      <3>1. /\ pc'[w] \in {"rename", "idle"} /\ tmp'[PidOf[w]] = i
            /\ pc'[w] = "rename" => arg'[w].v = v
            /\ blocks'[i] = s /\ s = Body(v)
        BY <1>1, <1>2, <1>4, <1>5, <1>6, <1>a, <2>3 DEF FTypeOK, v, m, s, Body
      <3>2. ASSUME NEW u \in Workers, u = w
            PROVE  /\ pc'[u] # "write"
                   /\ pc'[u] = "rename" => /\ tmp'[PidOf[u]] # NoFile
                                           /\ blocks'[tmp'[PidOf[u]]] = Body(arg'[u].v)
        BY <1>1, <3>1, <3>2
      <3>3. ASSUME NEW u \in Workers, u # w, WithTmp(u)'
            PROVE  /\ UNCHANGED <<pc[u], ino[u], mark[u], arg[u], tmp[PidOf[u]]>>
                   /\ tmp[PidOf[u]] # NoFile => blocks'[tmp[PidOf[u]]] = blocks[tmp[PidOf[u]]]
        BY <2>1, <3>3
      <3> QED BY <3>2, <3>3 DEF Writing, Body, WithTmp
    <2> QED BY <1>5, <2>2, <2>3
  <1>10. Reading'
    <2>1. ASSUME NEW u \in Workers, pc'[u] = "read"
          PROVE  ino'[u] = ino[u] /\ Readable(ino[u])
      BY <1>1, <1>5, <2>1 DEF FTypeOK, Reading
    <2>2. ASSUME NEW u \in Workers, pc[u] = "read", Readable(ino[u])
          PROVE  Readable(ino[u])'
      <3>1. ino'[u] = ino[u]
        BY <1>1, <1>5, <2>2 DEF FTypeOK
      <3> QED BY <1>5, <1>7, <2>2, <3>1 DEF Readable, Contents, Body
    <2>3. \A u \in Workers : pc'[u] = "read" => pc[u] = "read"
      BY <1>5 DEF FTypeOK
    <2> QED BY <1>5, <1>7, <2>1, <2>2, <2>3 DEF Reading
  <1>11. NoneOpen'
    BY <1>5 DEF NoneOpen, FTypeOK
  <1>12. NoTornRead'
    BY <1>5 DEF NoTornRead, Contents, Body
  <1> QED BY <1>7, <1>8, <1>9, <1>10, <1>11, <1>12

\* The rename makes a whole file the entry, and takes its temporary name away.
LEMMA PutRenameInv ==
  ASSUME FInv, PutsApart, NEW w \in Workers, PutRename(w)
  PROVE  FInv'
  <1> DEFINE p == PidOf[w]
  <1> USE DEF FInv
  <1>1. /\ pc[w] = "rename" /\ tmp[p] # NoFile /\ blocks[tmp[p]] \in Contents
        /\ p \in Pids /\ tmp[p] \in Inodes
    <2>1. pc[w] = "rename" /\ p \in Pids
      BY WorkersAssumption DEF PutRename
    <2>2. tmp[p] # NoFile /\ blocks[tmp[p]] = Body(arg[w].v)
      BY <2>1 DEF Writing
    <2>3. arg[w].v \in Values /\ tmp[p] \in Inodes
      BY <2>1, <2>2 DEF FTypeOK
    <2> QED BY <2>1, <2>2, <2>3 DEF Contents
  <1>2. /\ data' = tmp[p] /\ tmp' = [tmp EXCEPT ![p] = NoFile]
        /\ \/ /\ ino' = [ino EXCEPT ![w] = tmp[p]] /\ pc' = [pc EXCEPT ![w] = "metaopen"]
              /\ UNCHANGED <<arg, mark>>
           \/ Return(w)
        /\ UNCHANGED <<blocks, outcome>>
    BY <1>1 DEF PutRename, TmpOf, Goto
  <1>b. /\ pc'[w] \in {"metaopen", "idle"} /\ (pc'[w] = "idle" => ino'[w] = NoFile)
        /\ \A u \in Workers : u # w => UNCHANGED <<pc[u], ino[u], mark[u], arg[u]>>
    BY <1>2 DEF Return, FTypeOK
  <1>3. \A q \in Pids : q # p => PidOf[w] # q /\ tmp'[q] = tmp[q] /\ (tmp[q] # NoFile => tmp[q] # tmp[p])
    BY <1>1, <1>2 DEF NamesApart, FTypeOK
  <1>4. tmp'[p] = NoFile
    BY <1>1, <1>2 DEF FTypeOK
  <1> HIDE DEF p
  <1>5. FTypeOK'
    <2>1. LocalsOK'
      BY <1>1, <1>2, ReturnTypes DEF FTypeOK, LocalsOK, Stages
    <2> QED BY <1>1, <1>2, <2>1 DEF FTypeOK, LocalsOK
  <1>6. NamesApart'
    BY <1>1, <1>2, <1>3, <1>4 DEF NamesApart
  <1>7. Writing'
    <2>1. ASSUME NEW u \in Workers, u # w, WithTmp(u)
          PROVE  tmp'[PidOf[u]] = tmp[PidOf[u]]
      <3>1. PidOf[u] # p
        BY <1>1, <2>1 DEF PutsApart, WithTmp, p
      <3> QED BY <1>3, <3>1, WorkersAssumption
    <2> QED BY <1>2, <1>b, <2>1 DEF Writing, Body, WithTmp
  <1>8. \A j : Readable(j) => Readable(j)'
    BY <1>1, <1>2, <1>3, <1>4, NoFileIsNoInode DEF Readable, Contents, Body
  <1>9. Readable(data)'
    BY <1>1, <1>2, <1>3, <1>4, NoFileIsNoInode DEF Readable, Contents, Body
  <1>10. Reading'
    BY <1>2, <1>b, <1>8, <1>9 DEF Reading, FTypeOK
  <1>11. NoneOpen'
    BY <1>b DEF NoneOpen, FTypeOK
  <1>12. NoTornRead'
    BY <1>2 DEF NoTornRead, Contents, Body
  <1> QED BY <1>5, <1>6, <1>7, <1>10, <1>11, <1>12

\* Each step of a worker, a process or the clock preserves the invariant.
LEMMA FNextInv == PutsApart /\ PutsApart' /\ FInv /\ [Next]_vars => FInv'
  <1> SUFFICES ASSUME PutsApart, PutsApart', FInv, [Next]_vars PROVE FInv'
    OBVIOUS
  <1>1. CASE \E w \in Workers : Get(w)
    BY <1>1, ReadStepInv DEF Get
  <1>2. CASE \E w \in Workers : Put(w)
    BY <1>2, PutOpenInv, PutWriteInv, PutRenameInv, MetaStepInv DEF Put
  <1>3. CASE \E w \in Workers : Gc(w)
    BY <1>3, GcStepInv DEF Gc
  <1>4. CASE (\E w \in Workers : Cancel(w)) \/ (\E p \in Pids : Crash(p))
    BY <1>4, StopInv
  <1>5. CASE Tick \/ UNCHANGED vars
    BY <1>5, TickInv DEF Tick, vars
  <1> QED BY <1>1, <1>2, <1>3, <1>4, <1>5 DEF Next

\* The invariant of the cache directory: the entry, and every file that is read, is whole.
THEOREM FsCacheInvariant == SpecApart => [](FInv /\ PutsApart)
  <1>1. Init => PutsApart
    BY DEF Init, PutsApart, WithTmp
  <1>2. FInv /\ PutsApart /\ [Next /\ PutsApart']_vars => (FInv /\ PutsApart)'
    <2>1. CASE Next /\ PutsApart'
      BY <2>1, FNextInv
    <2>2. CASE UNCHANGED vars
      <3>1. PutsApart => PutsApart'
        BY <2>2 DEF PutsApart, WithTmp, vars, locals
      <3> QED BY <2>2, <3>1, FNextInv
    <2> QED BY <2>1, <2>2
  <1> QED BY FInitInv, <1>1, <1>2, PTL DEF SpecApart

\* Where no process has two puts of the entry under way, leftovers of dropped
\* ones counted, a get returns the whole body of one put, whatever is dropped,
\* killed or left behind.
THEOREM ReadsAreWhole == SpecApart => []NoTornRead
  <1>1. FInv => NoTornRead
    BY DEF FInv
  <1> QED BY FsCacheInvariant, <1>1, PTL

----------------------------------------------------------------------------
(* The refinement: what each step is to AtomicCache. *)

AnswerFn == [u \in Workers |-> Answer(u)]

\* A step that leaves the entry's bytes alone, and of the answers those outside
\* S, and makes misses of those in S.
LEMMA ForgetIsAtomic ==
  ASSUME NEW S \in SUBSET Workers, StoredBytes' = StoredBytes,
         \A u \in Workers : Answer(u)' = IF u \in S THEN <<>> ELSE Answer(u)
  PROVE  Atomic!ANext
  <1>1. AnswerFn' = [u \in Workers |-> IF u \in S THEN <<>> ELSE AnswerFn[u]]
    BY DEF AnswerFn
  <1>2. Atomic!AForget(S)
    BY <1>1 DEF Atomic!AForget, AnswerFn
  <1> QED BY <1>2 DEF Atomic!ANext

\* One worker forgets what its get had found.
LEMMA OneForgets ==
  ASSUME NEW w \in Workers, StoredBytes' = StoredBytes, Answer(w)' = <<>>,
         \A u \in Workers : u # w => Answer(u)' = Answer(u)
  PROVE  Atomic!ANext
  <1>1. \A u \in Workers : Answer(u)' = IF u \in {w} THEN <<>> ELSE Answer(u)
    OBVIOUS
  <1>2. {w} \in SUBSET Workers
    OBVIOUS
  <1> QED BY <1>1, <1>2, ForgetIsAtomic

\* No answer changes: the step stutters.
LEMMA NoneForgets ==
  ASSUME StoredBytes' = StoredBytes, \A u \in Workers : Answer(u)' = Answer(u)
  PROVE  Atomic!ANext
  <1>1. {} \in SUBSET Workers /\ \A u \in Workers : Answer(u)' = IF u \in {} THEN <<>> ELSE Answer(u)
    OBVIOUS
  <1> QED BY <1>1, ForgetIsAtomic

\* The answer of a worker stays while its place, its file and its result do.
LEMMA AnswerStays ==
  ASSUME FInv, FInv', NEW u \in Workers, outcome'[u] = outcome[u],
         \/ pc'[u] = pc[u] /\ ino'[u] = ino[u]
         \/ pc[u] # "read" /\ pc'[u] # "read",
         pc[u] = "read" => blocks'[ino[u]] = blocks[ino[u]]
  PROVE  Answer(u)' = Answer(u)
  BY DEF Answer

\* So does the entry while its inode and that inode's blocks do.
LEMMA StoredStays ==
  ASSUME data' = data, data # NoFile => blocks'[data] = blocks[data]
  PROVE  StoredBytes' = StoredBytes
  BY DEF StoredBytes

\* The open of a get takes the entry, its other steps keep or drop it.
LEMMA GetIsAtomic ==
  ASSUME FInv, FInv', NEW w \in Workers, GetOpen(w) \/ GetRead(w) \/ GetCheckTtl(w)
  PROVE  Atomic!ANext
  <1> USE DEF FInv
  <1>1. UNCHANGED <<data, blocks>>
    BY DEF GetOpen, GetRead, GetCheckTtl, files
  <1>2. StoredBytes' = StoredBytes
    BY <1>1, StoredStays
  <1>3. ASSUME NEW u \in Workers, u # w
        PROVE  Answer(u)' = Answer(u)
    <2>1. pc'[u] = pc[u] /\ ino'[u] = ino[u] /\ outcome'[u] = outcome[u]
      BY <1>3 DEF GetOpen, GetRead, GetCheckTtl, Return, Goto, locals, FTypeOK
    <2> QED BY <1>1, <2>1, AnswerStays
  <1>4. CASE GetOpen(w) /\ data = NoFile
    <2>1. Answer(w)' = <<>>
      BY <1>4 DEF GetOpen, locals, FTypeOK, Answer, Miss
    <2> QED BY <1>2, <1>3, <2>1, OneForgets
  <1>5. CASE GetOpen(w) /\ data # NoFile
    <2>1. Answer(w)' = StoredBytes
      <3>1. pc'[w] = "read" /\ ino'[w] = data
        BY <1>5 DEF GetOpen, Goto, FTypeOK
      <3>2. Answer(w)' = blocks'[ino'[w]]
        BY <3>1 DEF Answer
      <3>3. blocks' = blocks
        BY <1>1
      <3>4. StoredBytes = blocks[data]
        BY <1>5 DEF StoredBytes
      <3> QED BY <3>1, <3>2, <3>3, <3>4
    <2>2. AnswerFn' = [AnswerFn EXCEPT ![w] = StoredBytes]
      BY <1>3, <2>1 DEF AnswerFn
    <2>3. Atomic!AGet(w)
      BY <1>2, <2>2 DEF Atomic!AGet, AnswerFn
    <2> QED BY <2>3 DEF Atomic!ANext
  <1>6. CASE GetRead(w)
    <2>1. Answer(w)' = Answer(w)
      <3>1. /\ pc[w] = "read" /\ pc'[w] = "checkttl"
            /\ outcome'[w] = [hit |-> TRUE, bytes |-> blocks[ino[w]]]
        BY <1>6 DEF GetRead, Goto, FTypeOK
      <3>2. Answer(w) = blocks[ino[w]]
        BY <3>1 DEF Answer
      <3>3. Answer(w)' = outcome'[w].bytes
        BY <3>1 DEF Answer
      <3> QED BY <3>1, <3>2, <3>3
    <2> QED BY <1>2, <1>3, <2>1, NoneForgets
  <1>7. CASE GetCheckTtl(w)
    <2>1. CASE Expired(meta)
      <3>1. Answer(w)' = <<>>
        BY <1>7, <2>1 DEF GetCheckTtl, Goto, FTypeOK, Answer, Miss
      <3> QED BY <1>2, <1>3, <3>1, OneForgets
    <2>2. CASE ~Expired(meta)
      <3>1. Answer(w)' = Answer(w)
        <4>1. pc[w] = "checkttl" /\ pc'[w] = "idle" /\ outcome' = outcome
          BY <1>7, <2>2 DEF GetCheckTtl, Return, FTypeOK
        <4> QED BY <4>1 DEF Answer
      <3> QED BY <1>2, <1>3, <3>1, NoneForgets
    <2> QED BY <2>1, <2>2
  <1> QED BY <1>4, <1>5, <1>6, <1>7

\* An open and a write of a put touch no file that is read or will be.
LEMMA PutWritesApart ==
  ASSUME FInv, NEW w \in Workers,
         PutWrite(w) \/ \E v \in Values, ttl \in Ttls : PutOpen(w, v, ttl)
  PROVE  /\ data' = data /\ (data # NoFile => blocks'[data] = blocks[data])
         /\ \A u \in Workers : pc[u] = "read" => blocks'[ino[u]] = blocks[ino[u]]
  <1> DEFINE p == PidOf[w]
  <1> USE DEF FInv
  <1>1. p \in Pids
    BY WorkersAssumption
  <1>2. ASSUME NEW i \in Inodes, NEW s, blocks' = [blocks EXCEPT ![i] = s], i # data,
               \A u \in Workers : pc[u] = "read" => ino[u] # i
        PROVE  /\ data # NoFile => blocks'[data] = blocks[data]
               /\ \A u \in Workers : pc[u] = "read" => blocks'[ino[u]] = blocks[ino[u]]
    BY <1>2 DEF FTypeOK, Reading, Readable
  <1>3. tmp[p] # NoFile => /\ tmp[p] \in Inodes /\ tmp[p] # data
                           /\ \A u \in Workers : pc[u] = "read" => ino[u] # tmp[p]
    BY <1>1 DEF FTypeOK, NamesApart, Reading, Readable
  <1>4. CASE PutWrite(w)
    <2>1. ino[w] = tmp[p] /\ ino[w] # NoFile
      BY <1>4 DEF PutWrite, Writing
    <2> QED BY <1>2, <1>3, <1>4, <2>1 DEF PutWrite
  <1>5. ASSUME NEW v \in Values, NEW ttl \in Ttls, PutOpen(w, v, ttl)
        PROVE  /\ data' = data /\ (data # NoFile => blocks'[data] = blocks[data])
               /\ \A u \in Workers : pc[u] = "read" => blocks'[ino[u]] = blocks[ino[u]]
    <2> DEFINE i == IF tmp[p] = NoFile THEN Fresh ELSE tmp[p]
    <2>1. blocks' = [blocks EXCEPT ![i] = <<>>] /\ data' = data /\ pc[w] = "idle"
      BY <1>5 DEF PutOpen, TmpOf
    <2>2. Fresh \in FreeInodes
      BY <2>1, FreshIsFree DEF NoneOpen, FTypeOK
    <2>3. /\ i \in Inodes /\ i # data
          /\ \A u \in Workers : pc[u] = "read" => ino[u] # i
      BY <1>3, <2>2 DEF FreeInodes
    <2> HIDE DEF i
    <2> QED BY <1>2, <2>1, <2>3
  <1> QED BY <1>4, <1>5

\* The rename of a put stores its body, its other steps store nothing.
LEMMA PutIsAtomic ==
  ASSUME FInv, FInv', NEW w \in Workers, Put(w)
  PROVE  Atomic!ANext
  <1> USE DEF FInv
  <1>1. CASE \E v \in Values, ttl \in Ttls : PutOpen(w, v, ttl)
    <2>1. StoredBytes' = StoredBytes
      BY <1>1, PutWritesApart, StoredStays
    <2>2. Answer(w)' = <<>>
      BY <1>1 DEF PutOpen, Goto, FTypeOK, Answer, Miss
    <2>3. ASSUME NEW u \in Workers, u # w PROVE Answer(u)' = Answer(u)
      <3>1. pc'[u] = pc[u] /\ ino'[u] = ino[u] /\ outcome'[u] = outcome[u]
        BY <1>1, <2>3 DEF PutOpen, Goto, FTypeOK
      <3> QED BY <1>1, <3>1, PutWritesApart, AnswerStays
    <2> QED BY <2>1, <2>2, <2>3, OneForgets
  <1>2. CASE PutWrite(w)
    <2>1. StoredBytes' = StoredBytes
      BY <1>2, PutWritesApart, StoredStays
    <2>2. ASSUME NEW u \in Workers PROVE Answer(u)' = Answer(u)
      <3>1. /\ outcome'[u] = outcome[u]
            /\ \/ pc'[u] = pc[u] /\ ino'[u] = ino[u]
               \/ pc[u] # "read" /\ pc'[u] # "read"
        BY <1>2 DEF PutWrite, GoOn, Return, Goto, FTypeOK
      <3> QED BY <1>2, <3>1, PutWritesApart, AnswerStays
    <2> QED BY <2>1, <2>2, NoneForgets
  <1>3. CASE PutRename(w)
    <2>1. /\ tmp[PidOf[w]] # NoFile /\ blocks[tmp[PidOf[w]]] = Body(arg[w].v)
          /\ arg[w].v \in Values
      BY <1>3 DEF PutRename, Writing, FTypeOK
    <2>2. data' = tmp[PidOf[w]] /\ blocks' = blocks
      BY <1>3, <2>1 DEF PutRename, TmpOf
    <2>3. StoredBytes' = Body(arg[w].v)
      BY <2>1, <2>2 DEF StoredBytes
    <2>4. ASSUME NEW u \in Workers PROVE Answer(u)' = Answer(u)
      <3>1. /\ outcome'[u] = outcome[u]
            /\ \/ pc'[u] = pc[u] /\ ino'[u] = ino[u]
               \/ pc[u] # "read" /\ pc'[u] # "read"
        BY <1>3, <2>1 DEF PutRename, TmpOf, Goto, Return, FTypeOK
      <3> QED BY <2>2, <3>1, AnswerStays
    <2>5. Atomic!APut(Body(arg[w].v))
      BY <2>3, <2>4 DEF Atomic!APut
    <2> QED BY <2>1, <2>5 DEF Atomic!ANext, Contents
  <1>4. CASE PutMetaOpen(w) \/ PutMetaWrite(w)
    <2>1. UNCHANGED <<data, blocks>>
      BY <1>4 DEF PutMetaOpen, PutMetaWrite
    <2>2. ASSUME NEW u \in Workers PROVE Answer(u)' = Answer(u)
      <3>1. /\ outcome'[u] = outcome[u]
            /\ \/ pc'[u] = pc[u] /\ ino'[u] = ino[u]
               \/ pc[u] # "read" /\ pc'[u] # "read"
        BY <1>4 DEF PutMetaOpen, PutMetaWrite, Return, Goto, FTypeOK
      <3> QED BY <2>1, <3>1, AnswerStays
    <2> QED BY <2>1, <2>2, StoredStays, NoneForgets
  <1> QED BY <1>1, <1>2, <1>3, <1>4 DEF Put

\* The removal of the data file drops the entry.
LEMMA GcIsAtomic ==
  ASSUME FInv, FInv', NEW w \in Workers, Gc(w)
  PROVE  Atomic!ANext
  <1> USE DEF FInv
  <1>1. CASE GcRead(w)
    <2>1. Answer(w)' = <<>> /\ UNCHANGED <<data, blocks>>
      BY <1>1 DEF GcRead, Goto, FTypeOK, Answer, Miss, files
    <2>2. ASSUME NEW u \in Workers, u # w PROVE Answer(u)' = Answer(u)
      <3>1. pc'[u] = pc[u] /\ ino'[u] = ino[u] /\ outcome'[u] = outcome[u]
        BY <1>1, <2>2 DEF GcRead, Goto, FTypeOK
      <3> QED BY <2>1, <3>1, AnswerStays
    <2> QED BY <2>1, <2>2, StoredStays, OneForgets
  <1>2. CASE RemoveData(w) \/ RemoveMeta(w)
    <2>1. ASSUME NEW u \in Workers PROVE Answer(u)' = Answer(u)
      <3>1. /\ outcome'[u] = outcome[u] /\ blocks' = blocks
            /\ \/ pc'[u] = pc[u] /\ ino'[u] = ino[u]
               \/ pc[u] # "read" /\ pc'[u] # "read"
        BY <1>2 DEF RemoveData, RemoveMeta, GoOn, Return, Goto, FTypeOK
      <3> QED BY <3>1, AnswerStays
    <2>2. CASE RemoveData(w)
      <3>1. Atomic!ADrop
        BY <2>1, <2>2 DEF RemoveData, StoredBytes, Atomic!ADrop
      <3> QED BY <3>1 DEF Atomic!ANext
    <2>3. CASE RemoveMeta(w)
      BY <2>1, <2>3, StoredStays, NoneForgets DEF RemoveMeta
    <2> QED BY <1>2, <2>2, <2>3
  <1> QED BY <1>1, <1>2 DEF Gc

\* A dropped call and a dead process forget what they had found.
LEMMA StopIsAtomic ==
  ASSUME FInv, FInv', (\E w \in Workers : Cancel(w)) \/ (\E p \in Pids : Crash(p))
  PROVE  Atomic!ANext
  <1> USE DEF FInv
  <1>1. UNCHANGED <<data, blocks>>
    BY DEF Cancel, Crash, files
  <1>2. ASSUME NEW w \in Workers, Cancel(w) PROVE Atomic!ANext
    <2>1. Answer(w)' = <<>>
      BY <1>2 DEF Cancel, Return, FTypeOK, Answer, Miss, Stages
    <2>2. ASSUME NEW u \in Workers, u # w PROVE Answer(u)' = Answer(u)
      <3>1. pc'[u] = pc[u] /\ ino'[u] = ino[u] /\ outcome'[u] = outcome[u]
        BY <1>2, <2>2 DEF Cancel, Return, FTypeOK
      <3> QED BY <1>1, <3>1, AnswerStays
    <2> QED BY <1>1, <2>1, <2>2, StoredStays, OneForgets
  <1>3. ASSUME NEW p \in Pids, Crash(p) PROVE Atomic!ANext
    <2> DEFINE S == {u \in Workers : PidOf[u] = p}
    <2>1. ASSUME NEW u \in S PROVE Answer(u)' = <<>>
      BY <1>3 DEF Crash, Answer, Miss
    <2>2. ASSUME NEW u \in Workers \ S PROVE Answer(u)' = Answer(u)
      <3>1. pc'[u] = pc[u] /\ ino'[u] = ino[u] /\ outcome'[u] = outcome[u]
        BY <1>3 DEF Crash
      <3> QED BY <1>1, <3>1, AnswerStays
    <2>3. S \in SUBSET Workers
      OBVIOUS
    <2> HIDE DEF S
    <2> QED BY <1>1, <2>1, <2>2, <2>3, StoredStays, ForgetIsAtomic
  <1> QED BY <1>2, <1>3

LEMMA InitIsAtomic == Init => Atomic!AInit
  BY DEF Init, Atomic!AInit, StoredBytes, Answer, Miss

\* Every step is one of AtomicCache, or a stutter.
LEMMA StepIsAtomic ==
  ASSUME FInv, FInv', [Next]_vars
  PROVE  [Atomic!ANext]_(Atomic!avars)
  <1>1. CASE \E w \in Workers : Get(w) \/ Put(w) \/ Gc(w)
    BY <1>1, GetIsAtomic, PutIsAtomic, GcIsAtomic DEF Get
  <1>2. CASE (\E w \in Workers : Cancel(w)) \/ (\E p \in Pids : Crash(p))
    BY <1>2, StopIsAtomic
  <1>3. CASE Tick \/ UNCHANGED vars
    <2>1. UNCHANGED <<data, blocks, pc, ino, outcome>>
      BY <1>3 DEF Tick, vars, files, locals
    <2> QED BY <2>1 DEF Atomic!avars, StoredBytes, Answer
  <1> QED BY <1>1, <1>2, <1>3 DEF Next

\* To processes that put the entry one at a time the directory is an atomic
\* cache: a put takes effect in its rename, a get in its open, and what is killed
\* or dropped leaves a whole entry or none (fs.rs, "temp file + rename").
THEOREM DirectoryIsAtomic == SpecApart => ImplementsAtomicCache
  <1>1. FInv /\ FInv' /\ [Next /\ PutsApart']_vars => [Atomic!ANext]_(Atomic!avars)
    BY StepIsAtomic
  <1> QED BY FsCacheInvariant, InitIsAtomic, <1>1, PTL DEF SpecApart, ImplementsAtomicCache, Atomic!ASpec

----------------------------------------------------------------------------
(* The types, of however many tasks in a process. *)

\* The stamps of an open sidecar, and what the stages leave open.
TInv ==
  /\ TypeOK /\ NoneOpen
  /\ arg \in [Workers -> [v : Values, ttl : Ttls \cup {0}]]
  /\ mark = [w \in Workers |-> mark[w]]
  /\ \A w \in Workers : pc[w] = "metawrite" => mark[w] \in 0..Secs(MaxNow)

\* Whole seconds grow with the clock.
LEMMA SecsBound ==
  ASSUME NEW t \in 0..MaxNow
  PROVE  Secs(t) \in 0..Secs(MaxNow)
  <1> DEFINE k == TicksPerSec
             a == t \div k
             b == MaxNow \div k
  <1>1. /\ k \in Nat \ {0} /\ a \in Nat /\ b \in Nat
        /\ k * a <= t /\ t <= MaxNow /\ MaxNow < k * b + k
    BY ClockAssumption
  <1>2. a <= b
    <2> HIDE DEF k, a, b
    <2> SUFFICES ASSUME a >= b + 1 PROVE FALSE
      BY <1>1
    <2>1. k * a >= k * (b + 1)
      BY <1>1
    <2>2. k * (b + 1) = k * b + k
      BY <1>1
    <2>3. k * a \in Int /\ k * b \in Int
      BY <1>1
    <2>4. t < k * a
      BY <1>1, <2>1, <2>2, <2>3, ClockAssumption
    <2> QED BY <1>1, <2>3, <2>4
  <1> QED BY <1>1, <1>2 DEF Secs

LEMMA TInvInit == Init => TInv
  <1> SUFFICES ASSUME Init PROVE TInv
    OBVIOUS
  <1>1. 0 \in 0..Secs(MaxNow) /\ 0 \in 0..MaxNow /\ Secs(0) = 0
    BY SecsBound, ClockAssumption DEF Secs
  <1>2. NoMeta \in [there : BOOLEAN, written : 0..Secs(MaxNow), ttl : {Secs(t) : t \in Ttls \cup {0}}]
    BY <1>1 DEF NoMeta
  <1>3. TypeOK
    BY <1>1, <1>2 DEF Init, TypeOK, Stages
  <1> QED BY <1>3, BodyAssumption DEF Init, TInv, NoneOpen, NoArg

\* Who returns has nothing open and no body in hand.
LEMMA ReturnTInv ==
  ASSUME TInv, NEW w \in Workers, Return(w), now' = now, DOMAIN blocks' = Inodes,
         data' \in Inodes \cup {NoFile}, tmp' \in [Pids -> Inodes \cup {NoFile}],
         meta' \in [there : BOOLEAN, written : 0..Secs(MaxNow), ttl : {Secs(t) : t \in Ttls \cup {0}}]
  PROVE  TInv'
  <1>1. NoArg \in [v : Values, ttl : Ttls \cup {0}] /\ "idle" \in Stages
    BY BodyAssumption DEF NoArg, Stages
  <1>2. TypeOK'
    BY <1>1 DEF Return, TInv, TypeOK
  <1>3. NoneOpen'
    BY DEF Return, TInv, TypeOK, NoneOpen
  <1> QED BY <1>1, <1>2, <1>3 DEF Return, TInv, TypeOK

\* And who goes on to another operation has nothing open either.
LEMMA GoOnTInv ==
  ASSUME TInv, NEW w \in Workers, NEW stage \in {"rename", "rmmeta"}, GoOn(w, stage),
         data' \in Inodes \cup {NoFile}, DOMAIN blocks' = Inodes, UNCHANGED <<tmp, meta, now>>
  PROVE  TInv'
  <1>1. CASE dropped[w]
    BY <1>1, ReturnTInv DEF GoOn, TInv, TypeOK
  <1>2. CASE ~dropped[w]
    <2>1. TypeOK'
      BY <1>2 DEF GoOn, Goto, TInv, TypeOK, Stages
    <2>2. NoneOpen'
      BY <1>2 DEF GoOn, Goto, TInv, TypeOK, NoneOpen
    <2> QED BY <1>2, <2>1, <2>2 DEF GoOn, Goto, TInv, TypeOK
  <1> QED BY <1>1, <1>2

LEMMA GetTInv ==
  ASSUME TInv, NEW w \in Workers, Get(w)
  PROVE  TInv'
  <1>1. CASE GetOpen(w)
    <2>1. TypeOK'
      BY <1>1, SMTT(20) DEF GetOpen, Goto, files, locals, TInv, TypeOK, Stages
    <2> QED BY <1>1, <2>1 DEF GetOpen, Goto, files, locals, TInv, TypeOK, NoneOpen
  <1>2. CASE GetRead(w)
    <2>1. TypeOK'
      BY <1>2 DEF GetRead, Goto, files, TInv, TypeOK, Stages
    <2> QED BY <1>2, <2>1 DEF GetRead, Goto, files, TInv, TypeOK, NoneOpen
  <1>3. CASE GetCheckTtl(w) /\ Expired(meta)
    <2>1. TypeOK'
      BY <1>3 DEF GetCheckTtl, Goto, files, TInv, TypeOK, Stages
    <2> QED BY <1>3, <2>1 DEF GetCheckTtl, Goto, files, TInv, TypeOK, NoneOpen
  <1>4. CASE GetCheckTtl(w) /\ ~Expired(meta)
    BY <1>4, ReturnTInv DEF GetCheckTtl, files, TInv, TypeOK
  <1> QED BY <1>1, <1>2, <1>3, <1>4 DEF Get

LEMMA PutTInv ==
  ASSUME TInv, NEW w \in Workers, Put(w)
  PROVE  TInv'
  <1> USE DEF TInv
  <1>1. ASSUME NEW v \in Values, NEW ttl \in Ttls, PutOpen(w, v, ttl) PROVE TInv'
    <2> DEFINE i == IF tmp[PidOf[w]] = NoFile THEN Fresh ELSE tmp[PidOf[w]]
    <2>1. PidOf[w] \in Pids
      BY WorkersAssumption
    <2>2. Fresh \in Inodes
      BY <1>1, FreshIsFree DEF PutOpen, NoneOpen, TypeOK, FreeInodes
    <2>3. i \in Inodes
      BY <2>1, <2>2 DEF TypeOK
    <2>4. /\ tmp' = [tmp EXCEPT ![PidOf[w]] = i] /\ ino' = [ino EXCEPT ![w] = i]
          /\ blocks' = [blocks EXCEPT ![i] = <<>>]
          /\ pc' = [pc EXCEPT ![w] = "write"] /\ UNCHANGED <<data, meta, now, linked, dropped>>
          /\ arg' = [arg EXCEPT ![w] = [v |-> v, ttl |-> ttl]] /\ mark' = [mark EXCEPT ![w] = 1]
      BY <1>1 DEF PutOpen, TmpOf, Goto
    <2> HIDE DEF i
    <2>5. TypeOK'
      BY <2>3, <2>4 DEF TypeOK, Stages
    <2> QED BY <2>4, <2>5 DEF TypeOK, NoneOpen
  <1>2. CASE PutWrite(w)
    <2>1. DOMAIN blocks' = Inodes /\ UNCHANGED <<data, tmp, meta, now>>
      BY <1>2 DEF PutWrite, TypeOK
    <2>2. CASE GoOn(w, "rename")
      BY <2>1, <2>2, GoOnTInv DEF TypeOK
    <2>3. CASE mark' = [mark EXCEPT ![w] = @ + 1] /\ UNCHANGED <<pc, ino, arg, linked, dropped>>
      <3>1. TypeOK'
        BY <2>1, <2>3 DEF TypeOK
      <3> QED BY <1>2, <2>1, <2>3, <3>1 DEF PutWrite, TypeOK, NoneOpen
    <2> QED BY <1>2, <2>2, <2>3 DEF PutWrite
  <1>3. CASE PutRename(w) /\ tmp[PidOf[w]] = NoFile
    BY <1>3, ReturnTInv DEF PutRename, TmpOf, TypeOK
  <1>4. CASE PutRename(w) /\ tmp[PidOf[w]] # NoFile
    <2>1. PidOf[w] \in Pids
      BY WorkersAssumption
    <2>2. tmp[PidOf[w]] \in Inodes /\ NoFile \in Inodes \cup {NoFile}
      BY <1>4, <2>1 DEF TypeOK
    <2>4. CASE dropped[w]
      <3>1. /\ Return(w) /\ data' \in Inodes \cup {NoFile}
            /\ tmp' \in [Pids -> Inodes \cup {NoFile}] /\ UNCHANGED <<blocks, meta, now>>
        BY <1>4, <2>1, <2>2, <2>4 DEF PutRename, TmpOf, TypeOK
      <3> QED BY <3>1, ReturnTInv DEF TypeOK
    <2>5. SUFFICES ASSUME ~dropped[w] PROVE TInv'
      BY <2>4
    <2>3. TypeOK'
      BY <1>4, <2>1, <2>2, <2>5 DEF PutRename, TmpOf, Goto, TypeOK, Stages
    <2> QED BY <1>4, <2>3, <2>5 DEF PutRename, TmpOf, Goto, TypeOK, NoneOpen
  <1>5. CASE PutMetaOpen(w)
    <2>1. Secs(now) \in 0..Secs(MaxNow) /\ 0 \in 0..Secs(MaxNow) /\ Secs(0) = 0
      BY SecsBound, ClockAssumption DEF TypeOK, Secs
    <2>2. EmptyMeta \in [there : BOOLEAN, written : 0..Secs(MaxNow), ttl : {Secs(t) : t \in Ttls \cup {0}}]
      BY <2>1 DEF EmptyMeta
    <2>3. TypeOK'
      BY <1>5, <2>2 DEF PutMetaOpen, Goto, TypeOK, Stages
    <2> QED BY <1>5, <2>1, <2>3 DEF PutMetaOpen, Goto, TypeOK, NoneOpen
  <1>6. CASE PutMetaWrite(w)
    <2>1. meta' \in [there : BOOLEAN, written : 0..Secs(MaxNow), ttl : {Secs(t) : t \in Ttls \cup {0}}]
      BY <1>6 DEF PutMetaWrite, TypeOK
    <2> QED BY <1>6, <2>1, ReturnTInv DEF PutMetaWrite, TypeOK
  <1> QED BY <1>1, <1>2, <1>3, <1>4, <1>5, <1>6 DEF Put

LEMMA GcTInv ==
  ASSUME TInv, NEW w \in Workers, Gc(w)
  PROVE  TInv'
  <1> USE DEF TInv
  <1>1. CASE GcRead(w)
    <2>1. TypeOK'
      BY <1>1 DEF GcRead, Goto, files, TypeOK, Stages
    <2> QED BY <1>1, <2>1 DEF GcRead, Goto, files, TypeOK, NoneOpen
  <1>3. CASE RemoveData(w)
    BY <1>3, GoOnTInv DEF RemoveData, TypeOK
  <1>2. CASE RemoveMeta(w)
    <2>1. 0 \in 0..Secs(MaxNow) /\ Secs(0) = 0
      BY SecsBound, ClockAssumption DEF Secs
    <2>2. NoMeta \in [there : BOOLEAN, written : 0..Secs(MaxNow), ttl : {Secs(t) : t \in Ttls \cup {0}}]
      BY <2>1 DEF NoMeta
    <2>3. TypeOK'
      BY <1>2, <2>2 DEF RemoveMeta, Goto, TypeOK, Stages
    <2> QED BY <1>2, <2>3 DEF RemoveMeta, Goto, TypeOK, NoneOpen
  <1> QED BY <1>1, <1>2, <1>3 DEF Gc

\* Whoever is dropped or killed leaves nothing open.
LEMMA StopTInv ==
  ASSUME TInv, (\E w \in Workers : Cancel(w)) \/ (\E p \in Pids : Crash(p))
  PROVE  TInv'
  <1>1. ASSUME NEW w \in Workers, Cancel(w) PROVE TInv'
    <2>1. CASE Return(w)
      BY <1>1, <2>1, ReturnTInv DEF Cancel, files, TInv, TypeOK
    <2>2. CASE dropped' = [dropped EXCEPT ![w] = TRUE] /\ UNCHANGED <<pc, ino, arg, mark, linked>>
      BY <1>1, <2>2 DEF Cancel, files, TInv, TypeOK, NoneOpen
    <2> QED BY <1>1, <2>1, <2>2 DEF Cancel
  <1>2. ASSUME NEW p \in Pids, Crash(p) PROVE TInv'
    <2>1. NoArg \in [v : Values, ttl : Ttls \cup {0}]
      BY BodyAssumption DEF NoArg
    <2>2. TypeOK'
      BY <1>2 DEF Crash, files, TInv, TypeOK, Stages
    <2>3. NoneOpen'
      BY <1>2 DEF Crash, TInv, NoneOpen, TypeOK
    <2> QED BY <1>2, <2>1, <2>2, <2>3 DEF Crash, TInv, TypeOK
  <1> QED BY <1>1, <1>2

\* Every file and every open file is one of the inodes, every stage and stamp
\* what it should be: with any number of tasks in a process, dropped and killed
\* at will, an inode is left for each put (FsCache::get, put, gc).
THEOREM FsCacheTypes == Spec => []TypeOK
  <1>1. TInv /\ [Next]_vars => TInv'
    <2> SUFFICES ASSUME TInv, [Next]_vars PROVE TInv'
      OBVIOUS
    <2>1. CASE Tick \/ UNCHANGED vars
      <3>1. TypeOK'
        BY <2>1, ClockAssumption DEF Tick, vars, files, locals, TInv, TypeOK
      <3> QED BY <2>1, <3>1 DEF Tick, vars, files, locals, TInv, NoneOpen
    <2> QED BY <2>1, GetTInv, PutTInv, GcTInv, StopTInv DEF Next
  <1>2. TInv => TypeOK
    BY DEF TInv
  <1> QED BY TInvInit, <1>1, <1>2, PTL DEF Spec
=============================================================================
