------------------------- MODULE LayeredCacheProofs -------------------------
(***************************************************************************)
(* To calls that do not overlap the two tiers are one cache: entries live  *)
(* to the second and no longer, once their put has written the sidecar,    *)
(* and no get goes back behind a put, whatever is dropped or killed; for   *)
(* bodies of any length, all TTLs of whole seconds, and a fast tier that   *)
(* forgets what and when it likes.                                         *)
(***************************************************************************)
EXTENDS LayeredCache, FsCacheProofs

\* Calls do not overlap.
OneCaller == \A u, v \in Workers : u = v

\* What Duration::from_secs makes; the sidecar keeps nothing less.
WholeSeconds == \A t \in Ttls : \E n \in Nat : t = n * TicksPerSec

\* Whoever goes on has the sidecar open or not.
Flags == linked \in [Workers -> BOOLEAN]

HTypeOK ==
  /\ born \in [Inodes -> [at : Nat, ttl : Ttls \cup {0}, said : BOOLEAN]]
  /\ called \in [Workers -> Nat] /\ late \in [Workers -> BOOLEAN]
  /\ Flags /\ now \in Nat

\* The file is in place and its sidecar is being written.
PutTail == {"metaopen", "metawrite"}

\* There is an entry whose put came as far as the sidecar.
Dated == data # NoFile /\ born[data].said

\* The entry's time is over.
RunOut == born[data].ttl > 0 /\ now > born[data].at + born[data].ttl

\* What the sidecar says, and what a call knows, of the entry's age.
Age(w) ==
  /\ pc[w] \in PutTail =>
       /\ data # NoFile /\ ino[w] = data
       /\ born[data].ttl = arg[w].ttl /\ ~born[data].said
  /\ pc[w] = "metawrite" => mark[w] = Secs(born[data].at) /\ linked[w]
  /\ Dated => meta.written = Secs(born[data].at) /\ meta.ttl = Secs(born[data].ttl)
  /\ pc[w] = "read" => data # NoFile /\ ino[w] = data /\ called[w] <= now
  /\ pc[w] = "checkttl" =>
       /\ data # NoFile
       /\ late[w] => Dated /\ born[data].ttl > 0
                     /\ now >= born[data].at + born[data].ttl + TicksPerSec
  /\ pc[w] = "rmdata" /\ Dated => RunOut
  /\ pc[w] = "rmmeta" => data = NoFile
  /\ outcome[w].hit => pc[w] \in {"idle", "checkttl"}
  /\ pc[w] = "idle" /\ outcome[w].hit => ~late[w]

AInv == HTypeOK /\ \A w \in Workers : Age(w)

----------------------------------------------------------------------------
(* Ticks and seconds. *)

LEMMA SecsFloor ==
  ASSUME NEW t \in Nat
  PROVE  /\ Secs(t) \in Nat
         /\ TicksPerSec * Secs(t) <= t /\ t < TicksPerSec * Secs(t) + TicksPerSec
  BY ClockAssumption DEF Secs

LEMMA SecsOfWhole ==
  ASSUME WholeSeconds, NEW t \in Ttls \cup {0}
  PROVE  t \in Nat /\ Secs(t) \in Nat /\ t = TicksPerSec * Secs(t)
  <1>1. PICK n \in Nat : t = n * TicksPerSec
    BY ClockAssumption DEF WholeSeconds
  <1>2. t \in Nat /\ t = TicksPerSec * n
    BY <1>1, ClockAssumption
  <1>3. Secs(t) = n
    <2> DEFINE k == TicksPerSec
               m == Secs(t)
    <2>1. m \in Nat /\ k * m <= k * n /\ k * n < k * m + k /\ k \in Nat \ {0}
      BY <1>2, SecsFloor, ClockAssumption
    <2> HIDE DEF k, m
    <2>2. ASSUME n >= m + 1 PROVE FALSE
      <3>1. k * n >= k * (m + 1) /\ k * (m + 1) = k * m + k
        BY <2>1, <2>2
      <3> QED BY <2>1, <3>1
    <2>3. ASSUME m >= n + 1 PROVE FALSE
      <3>1. k * m >= k * (n + 1) /\ k * (n + 1) = k * n + k
        BY <2>1, <2>3
      <3> QED BY <2>1, <3>1
    <2>4. m = n
      BY <2>1, <2>2, <2>3
    <2> QED BY <2>4 DEF m
  <1> QED BY <1>2, <1>3

\* What the sidecar calls expired has run out.
LEMMA ExpiredRunsOut ==
  ASSUME WholeSeconds, NEW at \in Nat, NEW ttl \in Ttls \cup {0}, NEW t \in Nat,
         Secs(ttl) > 0, Secs(t) > Secs(at) + Secs(ttl)
  PROVE  ttl > 0 /\ t > at + ttl
  <1> DEFINE k == TicksPerSec
             a == Secs(at)
             n == Secs(ttl)
             s == Secs(t)
  <1>0. /\ k \in Nat \ {0} /\ a \in Nat /\ n \in Nat /\ s \in Nat /\ n > 0 /\ s > a + n
        /\ at < k * a + k /\ ttl = k * n /\ k * s <= t
    BY SecsFloor, SecsOfWhole, ClockAssumption
  <1> HIDE DEF k, a, n, s
  <1>1. s >= a + n + 1
    BY <1>0
  <1>2. k * s >= k * (a + n + 1) /\ k * (a + n + 1) = k * a + k * n + k
    BY <1>0, <1>1
  <1>3. k * n > 0 /\ k * a \in Int /\ k * n \in Int /\ k * s \in Int
    BY <1>0, <1>1
  <1> QED BY <1>0, <1>1, <1>2, <1>3

\* And what ran out a second ago is expired.
LEMMA LateIsExpired ==
  ASSUME WholeSeconds, NEW at \in Nat, NEW ttl \in Ttls \cup {0}, NEW t \in Nat,
         ttl > 0, t >= at + ttl + TicksPerSec
  PROVE  Secs(ttl) > 0 /\ Secs(t) > Secs(at) + Secs(ttl)
  <1> DEFINE k == TicksPerSec
             a == Secs(at)
             n == Secs(ttl)
             s == Secs(t)
  <1>1. /\ k \in Nat \ {0} /\ a \in Nat /\ n \in Nat /\ s \in Nat
        /\ k * a <= at /\ ttl = k * n /\ t < k * s + k /\ t >= at + ttl + k
    BY SecsFloor, SecsOfWhole, ClockAssumption
  <1>2. SUFFICES n > 0 /\ s > a + n
    OBVIOUS
  <1> HIDE DEF k, a, n, s
  <1>3. n > 0
    BY <1>1
  <1>4. ASSUME a + n >= s PROVE FALSE
    <2>1. k * (a + n) >= k * s /\ k * (a + n) = k * a + k * n
      BY <1>1, <1>4
    <2>2. k * a \in Int /\ k * n \in Int /\ k * s \in Int
      BY <1>1
    <2> QED BY <1>1, <2>1, <2>2
  <1> QED BY <1>1, <1>3, <1>4

----------------------------------------------------------------------------
(* Age, call by call. *)

LEMMA FlagsStay ==
  ASSUME Flags, NEW w \in Workers,
         Get(w) \/ Put(w) \/ Gc(w) \/ Return(w)
  PROVE  Flags'
  <1>1. CASE Return(w)
    BY <1>1 DEF Flags, Return
  <1>2. CASE Get(w)
    BY <1>2 DEF Flags, Get, GetOpen, GetRead, GetCheckTtl, Return, locals
  <1>3. CASE Put(w)
    <2>1. CASE PutWrite(w) \/ PutRename(w)
      BY <2>1 DEF Flags, PutWrite, PutRename, GoOn, Return
    <2>2. CASE PutMetaOpen(w) \/ PutMetaWrite(w) \/ \E v \in Values, ttl \in Ttls : PutOpen(w, v, ttl)
      BY <2>2 DEF Flags, PutOpen, PutMetaOpen, PutMetaWrite, Return
    <2> QED BY <1>3, <2>1, <2>2 DEF Put
  <1>4. CASE Gc(w)
    BY <1>4 DEF Flags, Gc, GcRead, RemoveData, RemoveMeta, GoOn, Return
  <1> QED BY <1>1, <1>2, <1>3, <1>4

\* Files, clock and history as they are: who reads, checks or removes.
LEMMA GetAge ==
  ASSUME OneCaller, WholeSeconds, FInv, AInv, NEW w \in Workers,
         EGetOpen(w) \/ EGetRead(w) \/ (GetCheckTtl(w) /\ UNCHANGED history)
  PROVE  AInv'
  <1> USE DEF AInv, HTypeOK, FInv, PutTail, Dated
  <1>0. Age(w) /\ (\A u \in Workers : u = w) /\ Flags'
    BY FlagsStay DEF OneCaller, Get, EGetOpen, EGetRead
  <1>1. CASE EGetOpen(w)
    <2>1. HTypeOK'
      BY <1>0, <1>1 DEF EGetOpen, GetOpen
    <2>2. UNCHANGED <<data, meta, now, born>>
      BY <1>1 DEF EGetOpen, GetOpen, files
    <2>3. outcome'[w] = Miss /\ late'[w] = FALSE /\ called'[w] = now
      BY <1>1 DEF EGetOpen, GetOpen, FTypeOK
    <2>4. CASE data = NoFile
      <3>1. pc'[w] = "idle"
        BY <1>1, <2>4 DEF EGetOpen, GetOpen, locals
      <3>2. Age(w)'
        BY <1>0, <2>2, <2>3, <2>4, <3>1 DEF Age, Miss
      <3> QED BY <1>0, <2>1, <3>2
    <2>5. CASE data # NoFile
      <3>1. pc'[w] = "read" /\ ino'[w] = data /\ pc[w] = "idle"
        BY <1>1, <2>5 DEF EGetOpen, GetOpen, Goto, FTypeOK
      <3>2. Age(w)'
        BY <1>0, <2>2, <2>3, <2>5, <3>1 DEF Age, Miss
      <3> QED BY <1>0, <2>1, <3>2
    <2> QED BY <2>4, <2>5
  <1>2. CASE EGetRead(w)
    <2>1. HTypeOK'
      <3>1. ExpiredAt(ino[w], called[w]) \in BOOLEAN
        BY DEF ExpiredAt
      <3>2. UNCHANGED <<born, called, now>>
        BY <1>2 DEF EGetRead, GetRead
      <3>3. late' \in [Workers -> BOOLEAN]
        BY <1>2, <3>1 DEF EGetRead
      <3> QED BY <1>0, <3>2, <3>3
    <2>2. UNCHANGED <<data, meta, now, born>>
      BY <1>2 DEF EGetRead, GetRead, files
    <2>3. /\ pc[w] = "read" /\ pc'[w] = "checkttl" /\ ino[w] = data /\ data # NoFile
          /\ called[w] <= now
      BY <1>0, <1>2 DEF EGetRead, GetRead, Goto, FTypeOK, Age
    <2>4. late'[w] => ExpiredAt(data, called[w])
      BY <1>2, <2>3 DEF EGetRead
    <2>5. late'[w] => /\ born[data].said /\ born[data].ttl > 0
                      /\ now >= born[data].at + born[data].ttl + TicksPerSec
      <3>1. /\ born[data].at \in Nat /\ born[data].ttl \in Nat /\ called[w] \in Nat
            /\ TicksPerSec \in Nat
        BY <2>3, ClockAssumption DEF FTypeOK
      <3> QED BY <2>3, <2>4, <3>1 DEF ExpiredAt
    <2>6. Age(w)'
      BY <1>0, <2>2, <2>3, <2>5 DEF Age
    <2> QED BY <1>0, <2>1, <2>6
  <1>3. CASE GetCheckTtl(w) /\ UNCHANGED history
    <2>1. HTypeOK'
      BY <1>0, <1>3 DEF GetCheckTtl, history
    <2>2. UNCHANGED <<data, meta, now, born, late>> /\ pc[w] = "checkttl"
      BY <1>3 DEF GetCheckTtl, files, history
    <2>3. /\ data # NoFile
          /\ Dated => meta.written = Secs(born[data].at) /\ meta.ttl = Secs(born[data].ttl)
          /\ born[data].at \in Nat /\ born[data].ttl \in Ttls \cup {0}
      BY <1>0, <2>2 DEF Age, FTypeOK
    <2>4. CASE Expired(meta)
      <3>1. pc'[w] = "rmdata" /\ outcome'[w] = Miss
        BY <1>3, <2>4 DEF GetCheckTtl, Goto, FTypeOK
      <3>2. Dated => RunOut
        BY <2>3, <2>4, ExpiredRunsOut DEF Expired, RunOut
      <3>3. Age(w)'
        BY <1>0, <2>2, <2>3, <3>1, <3>2 DEF Age, Miss, RunOut
      <3> QED BY <1>0, <2>1, <3>3
    <2>5. CASE ~Expired(meta)
      <3>1. pc'[w] = "idle" /\ outcome'[w] = outcome[w]
        BY <1>3, <2>5 DEF GetCheckTtl, Return, FTypeOK
      <3>2. ~late[w]
        <4> SUFFICES ASSUME late[w] PROVE FALSE
          OBVIOUS
        <4>1. /\ Dated /\ born[data].ttl > 0
              /\ now >= born[data].at + born[data].ttl + TicksPerSec
          BY <1>0, <2>2 DEF Age
        <4>2. meta.ttl > 0 /\ Secs(now) > meta.written + meta.ttl
          BY <2>3, <4>1, LateIsExpired
        <4> QED BY <2>5, <4>2 DEF Expired
      <3>3. Age(w)'
        BY <1>0, <2>2, <2>3, <3>1, <3>2 DEF Age
      <3> QED BY <1>0, <2>1, <3>3
    <2> QED BY <2>4, <2>5
  <1> QED BY <1>1, <1>2, <1>3

\* A put dates its body anew, and the sidecar follows.
LEMMA PutAge ==
  ASSUME OneCaller, FInv, FInv', AInv, NEW w \in Workers,
         \/ EPutRename(w) \/ EPutMetaOpen(w) \/ EPutMetaWrite(w)
         \/ /\ \/ (\E v \in Values, ttl \in Ttls : PutOpen(w, v, ttl)) \/ PutWrite(w)
               \/ pc[w] = "write" /\ Return(w) /\ UNCHANGED <<files, now, outcome>>
            /\ UNCHANGED history
  PROVE  AInv'
  <1> USE DEF AInv, HTypeOK, PutTail, Dated
  <1>0. Age(w) /\ (\A u \in Workers : u = w) /\ Flags'
    BY FlagsStay DEF OneCaller, Put, EPutRename, EPutMetaOpen, EPutMetaWrite
  <1>1. CASE UNCHANGED history /\ \E v \in Values, ttl \in Ttls : PutOpen(w, v, ttl)
    <2>1. /\ UNCHANGED <<data, meta, now, born, called, late>> /\ pc[w] = "idle" /\ pc'[w] = "write"
          /\ outcome'[w] = Miss
      BY <1>1 DEF PutOpen, history, Goto, FInv, FTypeOK
    <2> QED BY <1>0, <2>1 DEF Age, Miss
  <1>2. CASE UNCHANGED history /\ PutWrite(w)
    <2>1. /\ UNCHANGED <<data, meta, now, born, called, late, outcome>> /\ pc[w] = "write"
          /\ pc'[w] \in {"write", "rename", "idle"}
      BY <1>2 DEF PutWrite, history, GoOn, Return, Goto, FInv, FTypeOK
    <2> QED BY <1>0, <2>1 DEF Age
  <1>3. CASE UNCHANGED history /\ pc[w] = "write" /\ Return(w) /\ UNCHANGED <<files, now, outcome>>
    <2>1. /\ UNCHANGED <<data, meta, now, born, called, late, outcome>> /\ pc[w] = "write"
          /\ pc'[w] = "idle"
      BY <1>3 DEF Return, history, files, FInv, FTypeOK
    <2> QED BY <1>0, <2>1 DEF Age
  <1>4. CASE EPutRename(w)
    <2>1. /\ pc[w] = "rename" /\ PidOf[w] \in Pids /\ tmp[PidOf[w]] # NoFile
          /\ tmp[PidOf[w]] \in Inodes
      BY <1>4, WorkersAssumption DEF EPutRename, PutRename, FInv, FTypeOK, Writing
    <2>2. /\ data' = tmp[PidOf[w]]
          /\ \/ ino'[w] = data' /\ pc'[w] = "metaopen" /\ arg' = arg
             \/ pc'[w] = "idle"
          /\ UNCHANGED <<meta, now, outcome, called, late>>
      BY <1>4, <2>1 DEF EPutRename, PutRename, TmpOf, Goto, Return, FInv, FTypeOK
    <2>7. data' # data /\ data' # NoFile
      BY <2>1, <2>2 DEF FInv, NamesApart
    <2>3. /\ data' # NoFile
          /\ born' = [born EXCEPT ![data'] = [at |-> now, ttl |-> arg[w].ttl, said |-> FALSE]]
      BY <1>4, <2>7 DEF EPutRename
    <2>4. HTypeOK'
      BY <1>0, <2>1, <2>2, <2>3 DEF FInv, FTypeOK
    <2>5. born'[data'].ttl = arg[w].ttl /\ ~born'[data'].said
      BY <2>1, <2>2, <2>3
    <2>6. Age(w)'
      BY <1>0, <2>1, <2>2, <2>3, <2>5 DEF Age
    <2> QED BY <1>0, <2>4, <2>6
  <1>5. CASE EPutMetaOpen(w)
    <2>1. /\ pc[w] = "metaopen" /\ pc'[w] = "metawrite" /\ UNCHANGED <<data, ino, now, arg, outcome>>
          /\ mark'[w] = Secs(now) /\ linked'[w] = TRUE /\ UNCHANGED <<called, late>>
          /\ born' = [born EXCEPT ![ino[w]].at = now]
      BY <1>5 DEF EPutMetaOpen, PutMetaOpen, Goto, Flags, FInv, FTypeOK
    <2>2. ino[w] = data /\ data \in Inodes /\ born[data].ttl = arg[w].ttl /\ ~born[data].said
      BY <1>0, <2>1 DEF Age, FInv, FTypeOK
    <2>3. HTypeOK' /\ born'[data].at = now /\ born'[data].ttl = born[data].ttl /\ ~born'[data].said
      BY <1>0, <1>5, <2>1, <2>2 DEF EPutMetaOpen, PutMetaOpen
    <2>4. Age(w)'
      BY <1>0, <2>1, <2>2, <2>3 DEF Age
    <2> QED BY <1>0, <2>3, <2>4
  <1>6. CASE EPutMetaWrite(w)
    <2>1. /\ pc[w] = "metawrite" /\ pc'[w] = "idle" /\ UNCHANGED <<data, now, outcome, called, late>>
          /\ born' = [born EXCEPT ![ino[w]].said = linked[w]]
      BY <1>6 DEF EPutMetaWrite, PutMetaWrite, Return, FInv, FTypeOK
    <2>2. /\ mark[w] = Secs(born[data].at) /\ linked[w] /\ born[data].ttl = arg[w].ttl
          /\ ino[w] = data /\ data \in Inodes
      BY <1>0, <2>1 DEF Age, FInv, FTypeOK
    <2>3. meta'.written = mark[w] /\ meta'.ttl = Secs(arg[w].ttl)
      BY <1>6, <2>2 DEF EPutMetaWrite, PutMetaWrite
    <2>4. HTypeOK' /\ born'[data].at = born[data].at /\ born'[data].ttl = born[data].ttl
      BY <1>0, <2>1, <2>2 DEF Flags
    <2>5. Age(w)'
      BY <1>0, <2>1, <2>2, <2>3, <2>4 DEF Age
    <2> QED BY <1>0, <2>4, <2>5
  <1> QED BY <1>1, <1>2, <1>3, <1>4, <1>5, <1>6

\* A removal comes when the entry's time is over.
LEMMA GcAge ==
  ASSUME OneCaller, WholeSeconds, FInv, AInv, NEW w \in Workers, Gc(w), UNCHANGED history
  PROVE  AInv' /\ (Dated /\ data' = NoFile => RunOut)
  <1> USE DEF AInv, HTypeOK, FInv, PutTail, Dated
  <1>0. /\ Age(w) /\ \A u \in Workers : u = w
        /\ UNCHANGED <<born, called, late, now>> /\ Flags'
    BY FlagsStay DEF OneCaller, Gc, GcRead, RemoveData, RemoveMeta, history
  <1>1. CASE GcRead(w)
    <2>1. /\ pc[w] = "idle" /\ pc'[w] = "rmdata" /\ outcome'[w] = Miss /\ Expired(meta)
          /\ UNCHANGED <<data, meta>>
      BY <1>1 DEF GcRead, Goto, files, FTypeOK
    <2>2. Dated => RunOut
      <3> SUFFICES ASSUME Dated PROVE RunOut
        OBVIOUS
      <3>1. /\ meta.written = Secs(born[data].at) /\ meta.ttl = Secs(born[data].ttl)
            /\ born[data].at \in Nat /\ born[data].ttl \in Ttls \cup {0}
        BY <1>0, <2>1 DEF Age, FTypeOK
      <3> QED BY <2>1, <3>1, ExpiredRunsOut DEF Expired, RunOut
    <2>3. Age(w)'
      BY <1>0, <2>1, <2>2 DEF Age, Miss, RunOut
    <2> QED BY <1>0, <2>1, <2>3
  <1>2. CASE RemoveData(w)
    <2>1. /\ pc[w] = "rmdata" /\ pc'[w] \in {"rmmeta", "idle"} /\ data' = NoFile
          /\ UNCHANGED <<meta, outcome>>
      BY <1>2 DEF RemoveData, GoOn, Return, Goto, FTypeOK
    <2>2. Dated => RunOut
      BY <1>0, <2>1 DEF Age
    <2>3. Age(w)'
      BY <1>0, <2>1 DEF Age
    <2> QED BY <1>0, <2>2, <2>3
  <1>3. CASE RemoveMeta(w)
    <2>1. pc[w] = "rmmeta" /\ pc'[w] = "idle" /\ data = NoFile /\ UNCHANGED <<data, outcome>>
      BY <1>0, <1>3 DEF RemoveMeta, Goto, FTypeOK, Age
    <2>2. Age(w)'
      BY <1>0, <2>1 DEF Age
    <2> QED BY <1>0, <2>1, <2>2
  <1> QED BY <1>1, <1>2, <1>3 DEF Gc

\* A dropped call has no answer, and what it leaves behind is as far as it was;
\* a killed one is gone.
Stopped == (\E w \in Workers : Cancel(w)) \/ (\E p \in Pids : Crash(p))

LEMMA StopAge ==
  ASSUME OneCaller, FInv, AInv, Stopped, UNCHANGED history
  PROVE  AInv'
  <1> USE DEF AInv, HTypeOK, FInv, PutTail, Dated
  <1>1. UNCHANGED <<data, meta, now, born, called, late>>
    BY DEF Stopped, Cancel, Crash, files, history
  <1>2. Flags'
    <2>1. ASSUME NEW w \in Workers, Cancel(w) PROVE Flags'
      BY <2>1 DEF Cancel, Return, Flags
    <2>2. ASSUME NEW p \in Pids, Crash(p) PROVE Flags'
      <3>1. linked' = [w \in Workers |-> PidOf[w] # p /\ linked[w]]
        BY <2>2 DEF Crash
      <3>2. \A w \in Workers : (PidOf[w] # p /\ linked[w]) \in BOOLEAN
        OBVIOUS
      <3> QED BY <3>1, <3>2 DEF Flags
    <2> QED BY <2>1, <2>2 DEF Stopped
  <1>3. ASSUME NEW w \in Workers PROVE Age(w)'
    <2>1. Age(w) /\ \A u \in Workers : u = w
      BY DEF OneCaller
    <2>2. /\ outcome'[w] = Miss
          /\ \/ pc'[w] = "idle"
             \/ /\ pc'[w] = pc[w] /\ ino'[w] = ino[w] /\ arg'[w] = arg[w]
                /\ mark'[w] = mark[w] /\ linked'[w] = linked[w]
      <3>1. ASSUME NEW u \in Workers, Cancel(u)
            PROVE  /\ outcome'[w] = Miss
                   /\ \/ pc'[w] = "idle"
                      \/ UNCHANGED <<pc, ino, arg, mark, linked>>
        BY <2>1, <3>1 DEF Cancel, Return, FTypeOK
      <3>2. ASSUME NEW p \in Pids, Crash(p)
            PROVE  pc'[w] = "idle" /\ outcome'[w] = Miss
        BY <2>1, <3>2 DEF Crash
      <3> QED BY <3>1, <3>2 DEF Stopped
    <2> QED BY <1>1, <2>1, <2>2 DEF Age, Miss, RunOut
  <1> QED BY <1>1, <1>2, <1>3

\* Time passes: what had run out still has.
LEMMA TickAge ==
  ASSUME FInv, AInv, UNCHANGED <<files, locals, outcome, history>>, now' = now \/ now' = now + 1
  PROVE  AInv'
  <1> USE DEF AInv, HTypeOK, Dated
  <1>1. HTypeOK' /\ now' >= now /\ UNCHANGED <<data, meta, pc, ino, arg, mark, linked, outcome, born, called, late>>
    BY DEF history, files, locals, Flags
  <1>2. ASSUME NEW w \in Workers PROVE Age(w)'
    <2>1. Age(w)
      OBVIOUS
    <2>2. data # NoFile => born[data].at \in Nat /\ born[data].ttl \in Nat /\ TicksPerSec \in Nat
      BY ClockAssumption DEF FInv, FTypeOK
    <2>3. data # NoFile /\ RunOut => RunOut'
      BY <1>1, <2>2 DEF RunOut
    <2>4. /\ pc[w] = "read" => called'[w] <= now'
          /\ pc[w] = "checkttl" /\ late[w] => now' >= born[data].at + born[data].ttl + TicksPerSec
      BY <1>1, <2>1, <2>2 DEF Age
    <2> QED BY <1>1, <2>1, <2>3, <2>4 DEF Age, PutTail
  <1> QED BY <1>1, <1>2

----------------------------------------------------------------------------
(* The steps of the two tiers, as the slow one sees them. *)

SlowPut(w) ==
  \/ EPutRename(w) \/ EPutMetaOpen(w) \/ EPutMetaWrite(w)
  \/ /\ \/ (\E v \in Values, ttl \in Ttls : PutOpen(w, v, ttl)) \/ PutWrite(w)
        \/ pc[w] = "write" /\ Return(w) /\ UNCHANGED <<files, now, outcome>>
     /\ UNCHANGED history

LEMMA LayeredSteps ==
  ASSUME [LNext]_lvars
  PROVE  \/ UNCHANGED evars
         \/ \E w \in Workers : EGetOpen(w) \/ EGetRead(w) \/ (GetCheckTtl(w) /\ UNCHANGED history)
         \/ \E w \in Workers : SlowPut(w)
         \/ \E w \in Workers : Gc(w) /\ UNCHANGED history
         \/ Stopped /\ UNCHANGED history
         \/ Tick /\ UNCHANGED history
  <1>1. ASSUME NEW w \in Workers, SlowWorks(w)
        PROVE  \/ EGetRead(w) \/ (GetCheckTtl(w) /\ UNCHANGED history)
               \/ SlowPut(w) \/ (Gc(w) /\ UNCHANGED history)
    BY <1>1 DEF SlowWorks, SlowPut, Gc
  <1>2. ASSUME NEW w \in Workers, PutFast(w) \/ PutEnds(w) \/ PutFails(w)
        PROVE  SlowPut(w)
    BY <1>2 DEF PutFast, PutEnds, PutFails, SlowPut
  <1>3. ASSUME NEW w \in Workers, GetFast(w) \/ GetSlow(w) \/ Backfill(w)
        PROVE  UNCHANGED evars \/ EGetOpen(w)
    BY <1>3 DEF GetFast, GetSlow, Backfill
  <1>4. CASE Evict \/ UNCHANGED lvars
    BY <1>4 DEF Evict, lvars
  <1>5. CASE LKill \/ \E w \in Workers : LDrop(w)
    BY <1>5 DEF LKill, LDrop, Stopped, evars
  <1>6. CASE Tick /\ UNCHANGED <<history, tiers, observed>>
    BY <1>6
  <1> QED BY <1>1, <1>2, <1>3, <1>4, <1>5, <1>6 DEF LNext

\* A put that fails leaves the files as they are.
LEMMA FailsInv ==
  ASSUME FInv, NEW w \in Workers, pc[w] = "write", Return(w), UNCHANGED <<files, now, outcome>>
  PROVE  FInv'
  <1>1. FTypeOK'
    BY ReturnTypes DEF FInv, FTypeOK, files, LocalsOK
  <1>2. UNCHANGED <<tmp, blocks, data>>
    BY DEF files
  <1> QED BY <1>1, <1>2, QuietInv DEF FInv, FTypeOK, Return, NoneOpen

\* The slow tier keeps the invariant of the directory.
LEMMA DirectoryInv ==
  ASSUME OneCaller, FInv, [LNext]_lvars
  PROVE  FInv'
  <1>0. PutsApart /\ PutsApart'
    BY DEF OneCaller, PutsApart
  <1>1. CASE UNCHANGED evars
    BY <1>0, <1>1, FNextInv DEF evars
  <1>2. ASSUME NEW w \in Workers,
               EGetOpen(w) \/ EGetRead(w) \/ (GetCheckTtl(w) /\ UNCHANGED history)
        PROVE  FInv'
    BY <1>2, ReadStepInv DEF EGetOpen, EGetRead
  <1>3. ASSUME NEW w \in Workers, SlowPut(w)
        PROVE  FInv'
    <2>1. CASE \/ PutRename(w) \/ PutMetaOpen(w) \/ PutWrite(w) \/ PutMetaWrite(w)
               \/ \E v \in Values, ttl \in Ttls : PutOpen(w, v, ttl)
      BY <1>0, <2>1, FNextInv DEF Next, Put
    <2>2. CASE pc[w] = "write" /\ Return(w) /\ UNCHANGED <<files, now, outcome>>
      BY <2>2, FailsInv
    <2> QED BY <1>3, <2>1, <2>2 DEF SlowPut, EPutRename, EPutMetaOpen, EPutMetaWrite
  <1>4. ASSUME NEW w \in Workers, Gc(w)
        PROVE  FInv'
    BY <1>4, GcStepInv DEF Gc
  <1>5. CASE Stopped
    BY <1>5, StopInv DEF Stopped
  <1>6. CASE Tick
    BY <1>0, <1>6, FNextInv DEF Next
  <1> QED BY <1>1, <1>2, <1>3, <1>4, <1>5, <1>6, LayeredSteps

\* And that of the ages.
LEMMA SlowInv ==
  ASSUME OneCaller, WholeSeconds, FInv, AInv, [LNext]_lvars
  PROVE  FInv' /\ AInv'
  <1>0. FInv'
    BY DirectoryInv
  <1>1. CASE UNCHANGED evars
    <2>1. UNCHANGED <<files, locals, outcome, history>> /\ now' = now
      BY <1>1 DEF evars, vars
    <2> QED BY <1>0, <2>1, TickAge
  <1>2. ASSUME NEW w \in Workers,
               EGetOpen(w) \/ EGetRead(w) \/ (GetCheckTtl(w) /\ UNCHANGED history)
        PROVE  AInv'
    BY <1>2, GetAge
  <1>3. ASSUME NEW w \in Workers, SlowPut(w)
        PROVE  AInv'
    BY <1>0, <1>3, PutAge DEF SlowPut
  <1>4. ASSUME NEW w \in Workers, Gc(w), UNCHANGED history
        PROVE  AInv'
    BY <1>4, GcAge
  <1>5. CASE Stopped /\ UNCHANGED history
    BY <1>0, <1>5, StopAge
  <1>6. CASE Tick /\ UNCHANGED history
    <2>1. UNCHANGED <<files, locals, outcome, history>> /\ now' = now + 1
      BY <1>6 DEF Tick
    <2> QED BY <1>0, <2>1, TickAge
  <1> QED BY <1>0, <1>1, <1>2, <1>3, <1>4, <1>5, <1>6, LayeredSteps

\* Before the first put there is nothing to be of any age.
LEMMA AgeInit == LInit => FInv /\ AInv
  <1> SUFFICES ASSUME LInit PROVE FInv /\ AInv
    OBVIOUS
  <1>1. EInit /\ Init
    BY DEF LInit, EInit
  <1>2. HTypeOK
    BY <1>1 DEF EInit, Init, HTypeOK, Flags
  <1>3. \A w \in Workers : Age(w)
    BY <1>1 DEF Init, Age, PutTail, Dated, Miss
  <1> QED BY <1>1, <1>2, <1>3, FInitInv DEF AInv

\* An entry whose put has written the sidecar never outlives its TTL by a
\* second: whatever of it is served had not expired when the get was called,
\* whatever was dropped or killed.
THEOREM NothingStaleIsServed ==
  ASSUME OneCaller, WholeSeconds
  PROVE  LSpec => []ExpiredNotServed
  <1>1. FInv /\ AInv /\ [LNext]_lvars => (FInv /\ AInv)'
    BY SlowInv
  <1>2. AInv => ExpiredNotServed
    BY DEF AInv, Age, ExpiredNotServed
  <1> QED BY AgeInit, <1>1, <1>2, PTL DEF LSpec

\* And no get or gc removes such an entry whose TTL has not run out.
THEOREM LiveEntriesStay ==
  ASSUME OneCaller, WholeSeconds
  PROVE  LSpec => LiveEntryKept
  <1>1. FInv /\ AInv /\ [LNext]_lvars => (FInv /\ AInv)'
    BY SlowInv
  <1>2. FInv /\ AInv /\ [LNext]_lvars =>
          [data # NoFile /\ data' = NoFile /\ born[data].said
             => born[data].ttl > 0 /\ now > born[data].at + born[data].ttl]_evars
    <2> SUFFICES ASSUME FInv, AInv, [LNext]_lvars, Dated, data' = NoFile
                 PROVE  RunOut
      BY DEF RunOut, Dated
    <2>1. ASSUME NEW w \in Workers, Gc(w), UNCHANGED history PROVE RunOut
      BY <2>1, GcAge
    <2>2. ASSUME NEW w \in Workers, SlowPut(w) PROVE data # NoFile => data' # NoFile
      <3>1. PidOf[w] \in Pids
        BY WorkersAssumption
      <3> QED BY <2>2, <3>1
            DEF SlowPut, EPutRename, EPutMetaOpen, EPutMetaWrite, PutRename, PutMetaOpen, PutOpen,
                PutWrite, PutMetaWrite, files, TmpOf
    <2>3. data # NoFile /\ ~UNCHANGED data
      BY DEF Dated
    <2> QED BY <2>1, <2>2, <2>3, LayeredSteps
              DEF evars, vars, files, EGetOpen, EGetRead, GetOpen, GetRead, GetCheckTtl, Tick,
                  Stopped, Cancel, Crash
  <1> QED BY AgeInit, <1>1, <1>2, PTL DEF LSpec, LiveEntryKept

----------------------------------------------------------------------------
(* What the tiers hold. *)

\* The bodies a get may return.
Recent == {settled} \cup since

\* What a worker has got, or is about to, is recent; the body of a put under
\* way is in the file it has put in place, and nothing older is in the fast tier.
Tiers(w) ==
  /\ answer[w] # <<>> => answer[w] \in Recent
  /\ filling[w] =>
       /\ pc[w] \in {"idle", "read", "checkttl", "rmdata", "rmmeta"}
       /\ outcome[w].bytes # <<>> => outcome[w].bytes \in Recent
  /\ pc[w] \in {"write", "rename"} \cup PutTail =>
       /\ Body(arg[w].v) \in since
       /\ fast \in {<<>>, Body(arg[w].v)} /\ answer[w] = <<>>
  /\ pc[w] \in PutTail => data # NoFile /\ blocks[data] = Body(arg[w].v)
  /\ pc[w] = "read" => data # NoFile /\ ino[w] = data

TierInv ==
  /\ filling \in [Workers -> BOOLEAN] /\ answer = [w \in Workers |-> answer[w]]
  /\ fast # <<>> => fast \in Recent
  /\ data # NoFile => blocks[data] \in Recent
  /\ \A w \in Workers : Tiers(w)

\* A get goes to one tier or the other, and its answer comes from there.
LEMMA GetTiers ==
  ASSUME OneCaller, FInv, TierInv, NEW w \in Workers, GetFast(w) \/ GetSlow(w) \/ Backfill(w)
  PROVE  TierInv'
  <1> USE DEF TierInv, FInv, PutTail, Recent
  <1>0. Tiers(w) /\ \A u \in Workers : u = w
    BY DEF OneCaller
  <1>1. CASE GetFast(w)
    <2>1. /\ UNCHANGED <<data, blocks, fast, filling, settled, since, pc, outcome, arg>>
          /\ pc[w] = "idle" /\ ~filling[w] /\ answer'[w] = fast /\ ino' = ino
      BY <1>1 DEF GetFast, Between, evars, vars, files, locals, observed
    <2> QED BY <1>0, <1>1, <2>1 DEF Tiers, GetFast
  <1>2. CASE GetSlow(w)
    <2>1. /\ UNCHANGED <<data, blocks, fast, settled, since, arg>>
          /\ pc'[w] \in {"idle", "read"} /\ outcome'[w] = Miss /\ answer'[w] = <<>>
          /\ pc'[w] = "read" => data # NoFile /\ ino'[w] = data
          /\ filling' \in [Workers -> BOOLEAN]
      BY <1>2 DEF GetSlow, Between, EGetOpen, GetOpen, files, locals, observed, Goto, FTypeOK
    <2> QED BY <1>0, <1>2, <2>1 DEF Tiers, GetSlow, Miss
  <1>3. CASE Backfill(w)
    <2>1. /\ UNCHANGED <<data, blocks, settled, since, pc, outcome, arg>>
          /\ pc[w] = "idle" /\ filling[w] /\ filling'[w] = FALSE /\ answer'[w] = outcome[w].bytes
          /\ filling' \in [Workers -> BOOLEAN]
          /\ fast' = IF outcome[w].hit THEN outcome[w].bytes ELSE fast
      BY <1>3 DEF Backfill, evars, vars, files, locals, observed
    <2> QED BY <1>0, <1>3, <2>1 DEF Tiers, Backfill
  <1> QED BY <1>1, <1>2, <1>3

\* A put goes to the fast tier first; whether the slow one fails or ends it,
\* the last body it settled on or a later one is all there is.
LEMMA PutTiers ==
  ASSUME OneCaller, FInv, TierInv, NEW w \in Workers, PutFast(w) \/ PutEnds(w) \/ PutFails(w)
  PROVE  TierInv'
  <1> USE DEF TierInv, FInv, PutTail, Recent
  <1>0. Tiers(w) /\ \A u \in Workers : u = w
    BY DEF OneCaller
  <1>1. CASE PutFast(w)
    <2>1. PICK v \in Values, ttl \in Ttls :
            PutOpen(w, v, ttl) /\ fast' = Body(v) /\ since' = since \cup {Body(v)}
      BY <1>1 DEF PutFast
    <2>2. data' = data /\ (data # NoFile => blocks'[data] = blocks[data])
      BY <2>1, PutWritesApart
    <2>3. /\ pc'[w] = "write" /\ arg'[w].v = v /\ answer'[w] = <<>> /\ ~filling[w]
          /\ UNCHANGED <<filling, settled>> /\ answer' = [answer EXCEPT ![w] = <<>>]
      BY <1>1, <2>1 DEF PutFast, Between, PutOpen, Goto, FTypeOK
    <2> QED BY <1>0, <2>1, <2>2, <2>3 DEF Tiers
  <1>2. CASE PutEnds(w)
    <2>1. /\ UNCHANGED <<data, blocks, fast, filling, answer>> /\ pc[w] = "metawrite"
          /\ pc'[w] = "idle" /\ settled' = Body(arg[w].v)
      BY <1>2 DEF PutEnds, EPutMetaWrite, PutMetaWrite, Return, tiers, FTypeOK
    <2> QED BY <1>0, <2>1 DEF Tiers
  <1>3. CASE PutFails(w)
    <2>1. /\ UNCHANGED <<data, blocks, outcome, tiers, observed>> /\ pc[w] = "write" /\ pc'[w] = "idle"
      BY <1>3 DEF PutFails, Return, files, FTypeOK
    <2> QED BY <1>0, <2>1 DEF Tiers, tiers, observed
  <1> QED BY <1>1, <1>2, <1>3

\* The slow tier reads what is recent, and puts in place what its put brought.
LEMMA SlowTiers ==
  ASSUME OneCaller, FInv, TierInv, NEW w \in Workers, SlowWorks(w)
  PROVE  TierInv'
  <1> USE DEF TierInv, FInv, PutTail, Recent
  <1>0. /\ Tiers(w) /\ \A u \in Workers : u = w
        /\ UNCHANGED <<fast, filling, answer, settled, since>>
    BY DEF OneCaller, SlowWorks, tiers, observed
  <1>1. CASE GetRead(w)
    <2>1. /\ UNCHANGED <<data, blocks, arg>> /\ pc[w] = "read" /\ pc'[w] = "checkttl"
          /\ outcome'[w].bytes = blocks[data] /\ data # NoFile
      BY <1>0, <1>1 DEF GetRead, files, Goto, FTypeOK, Tiers
    <2> QED BY <1>0, <2>1 DEF Tiers
  <1>2. CASE GetCheckTtl(w)
    <2>1. /\ UNCHANGED <<data, blocks>> /\ pc[w] = "checkttl" /\ pc'[w] \in {"idle", "rmdata"}
          /\ outcome'[w] \in {outcome[w], Miss}
      BY <1>2 DEF GetCheckTtl, Return, files, Goto, FTypeOK
    <2> QED BY <1>0, <2>1 DEF Tiers, Miss
  <1>3. CASE PutWrite(w)
    <2>1. data' = data /\ (data # NoFile => blocks'[data] = blocks[data])
      BY <1>3, PutWritesApart
    <2>2. /\ pc[w] = "write" /\ pc'[w] \in {"write", "rename", "idle"} /\ UNCHANGED outcome
          /\ pc'[w] # "idle" => arg' = arg
      BY <1>3 DEF PutWrite, GoOn, Return, Goto, FTypeOK
    <2> QED BY <1>0, <2>1, <2>2 DEF Tiers
  <1>4. CASE PutRename(w)
    <2>1. /\ pc[w] = "rename" /\ tmp[PidOf[w]] # NoFile
          /\ blocks[tmp[PidOf[w]]] = Body(arg[w].v)
      BY <1>4 DEF PutRename, Writing
    <2>2. /\ data' = tmp[PidOf[w]] /\ UNCHANGED <<blocks, outcome>>
          /\ \/ pc'[w] = "metaopen" /\ arg' = arg
             \/ pc'[w] = "idle"
      BY <1>4, <2>1 DEF PutRename, TmpOf, Return, Goto, FTypeOK
    <2> QED BY <1>0, <2>1, <2>2 DEF Tiers
  <1>5. CASE PutMetaOpen(w)
    <2>1. /\ UNCHANGED <<data, blocks, arg, outcome>> /\ pc[w] = "metaopen" /\ pc'[w] = "metawrite"
      BY <1>5 DEF PutMetaOpen, Goto, FTypeOK
    <2> QED BY <1>0, <2>1 DEF Tiers
  <1>6. CASE RemoveData(w) \/ RemoveMeta(w)
    <2>1. /\ data' \in {data, NoFile} /\ UNCHANGED <<blocks, outcome>>
          /\ pc[w] \in {"rmdata", "rmmeta"} /\ pc'[w] \in {"rmmeta", "idle"}
      BY <1>6 DEF RemoveData, RemoveMeta, GoOn, Return, Goto, FTypeOK
    <2> QED BY <1>0, <2>1 DEF Tiers
  <1>7. CASE Between(w) /\ GcRead(w)
    <2>1. /\ UNCHANGED <<data, blocks, arg>> /\ pc'[w] = "rmdata" /\ ~filling[w]
      BY <1>7 DEF Between, GcRead, files, Goto, FTypeOK
    <2> QED BY <1>0, <2>1 DEF Tiers
  <1> QED BY <1>1, <1>2, <1>3, <1>4, <1>5, <1>6, <1>7
            DEF SlowWorks, EGetRead, EPutRename, EPutMetaOpen

\* A dropped call returns nothing, and its leftover brings what it was given; a
\* kill leaves what is in the directory.
LEMMA DisturbedTiers ==
  ASSUME OneCaller, FInv, TierInv, NEW w \in Workers, LDrop(w) \/ LKill
  PROVE  TierInv'
  <1> USE DEF TierInv, FInv, PutTail, Recent
  <1>0. Tiers(w) /\ \A u \in Workers : u = w
    BY DEF OneCaller
  <1>1. CASE LDrop(w)
    <2>1. /\ UNCHANGED <<data, blocks, fast, settled, since>>
          /\ filling'[w] = FALSE /\ answer'[w] = <<>> /\ filling' \in [Workers -> BOOLEAN]
          /\ answer' = [u \in Workers |-> answer'[u]]
      BY <1>1 DEF LDrop, Cancel, vars, files, observed
    <2>2. \/ pc'[w] = "idle"
          \/ pc[w] # "read" /\ UNCHANGED <<pc, arg>>
      BY <1>1 DEF LDrop, Cancel, Return, vars, locals, FTypeOK
    <2> QED BY <1>0, <2>1, <2>2 DEF Tiers
  <1>2. CASE LKill
    <2>1. /\ UNCHANGED <<data, blocks, settled, since>> /\ fast' = <<>>
          /\ filling' = [u \in Workers |-> FALSE] /\ answer' = [u \in Workers |-> <<>>]
      BY <1>2 DEF LKill, Crash, files, observed
    <2>2. pc'[w] = "idle" \/ UNCHANGED <<pc[w], arg[w], ino[w]>>
      BY <1>2 DEF LKill, Crash
    <2> QED BY <1>0, <2>1, <2>2 DEF Tiers
  <1> QED BY <1>1, <1>2

\* "Writes go to both tiers": no get goes back behind the last put that
\* succeeded, whichever tier answers, whatever was forgotten or failed, and
\* whatever call was dropped or killed at any of its steps.
THEOREM NoGetGoesBack ==
  ASSUME OneCaller
  PROVE  LSpec => []LayeredReads
  <1>1. LInit => FInv /\ TierInv
    BY FInitInv DEF LInit, EInit, Init, TierInv, Tiers, PutTail, Miss
  <1>2. FInv /\ TierInv /\ [LNext]_lvars => (FInv /\ TierInv)'
    <2> SUFFICES ASSUME FInv, TierInv, [LNext]_lvars PROVE TierInv'
      BY DirectoryInv
    <2>1. ASSUME NEW w \in Workers, GetFast(w) \/ GetSlow(w) \/ Backfill(w) PROVE TierInv'
      BY <2>1, GetTiers
    <2>2. ASSUME NEW w \in Workers, PutFast(w) \/ PutEnds(w) \/ PutFails(w) PROVE TierInv'
      BY <2>2, PutTiers
    <2>3. ASSUME NEW w \in Workers, SlowWorks(w) PROVE TierInv'
      BY <2>3, SlowTiers
    <2>4. CASE LKill \/ \E w \in Workers : LDrop(w)
      <3>1. PICK w \in Workers : LDrop(w) \/ LKill
        BY <2>4 DEF LKill, Crash
      <3> QED BY <3>1, DisturbedTiers
    <2>5. CASE Evict
      BY <2>5 DEF Evict, evars, vars, files, locals, observed, TierInv, Tiers, Recent
    <2>6. CASE UNCHANGED lvars \/ (Tick /\ UNCHANGED <<history, tiers, observed>>)
      BY <2>6 DEF Tick, lvars, evars, vars, files, locals, tiers, observed, TierInv, Tiers, Recent
    <2> QED BY <2>1, <2>2, <2>3, <2>4, <2>5, <2>6 DEF LNext
  <1>3. TierInv => LayeredReads
    BY DEF TierInv, Tiers, Recent, LayeredReads
  <1> QED BY <1>1, <1>2, <1>3, PTL DEF LSpec
=============================================================================
