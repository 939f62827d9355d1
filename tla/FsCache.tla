------------------------------ MODULE FsCache ------------------------------
(***************************************************************************)
(* FsCache, one entry of it: the data file, its .meta sidecar and the      *)
(* temporary files of the processes that use the directory.  Each action   *)
(* is one file system call of get, put or gc, so that the calls of several *)
(* workers interleave the way the operating system lets them.  An open     *)
(* file is an inode: a reader or a writer keeps it when its name goes      *)
(* away.  A crash is that of a process: what it wrote stays.  A call that  *)
(* is dropped leaves the operation under way behind: tokio::fs has handed  *)
(* it to a thread of the blocking pool, which nothing stops, and it can    *)
(* still take effect beside the next calls of the process.                 *)
(*                                                                         *)
(* Entries of different keys are different files as long as FsCache::hash  *)
(* tells the keys apart, so one entry stands for all.                      *)
(***************************************************************************)
EXTENDS Integers, Sequences, FiniteSets

CONSTANTS
  Workers,      \* concurrent calls of get, put and gc, what dropped ones left included
  Pids,         \* processes
  PidOf,        \* the process of each worker
  Values,       \* bodies that are put
  BlocksOf,     \* how many write(2) calls a body takes
  Ttls,         \* EntryMeta::ttl in ticks, 0 for None
  TicksPerSec,  \* clock ticks in a second
  MaxNow        \* bound: last instant of the clock

ASSUME WorkersAssumption == /\ PidOf \in [Workers -> Pids]
                           /\ IsFiniteSet(Workers) /\ IsFiniteSet(Pids)
ASSUME BodyAssumption == Values # {} /\ BlocksOf \in [Values -> Nat \ {0}]
ASSUME ClockAssumption == TicksPerSec \in Nat \ {0} /\ MaxNow \in Nat /\ Ttls \subseteq Nat

NoFile == 0
Inodes == 1..(1 + Cardinality(Pids) + Cardinality(Workers))

VARIABLES
  data,     \* inode of the data file, or NoFile
  tmp,      \* inode of <hash>.tmp-<pid> of each process, or NoFile
  blocks,   \* content of each inode
  meta,     \* the sidecar: whether it is there, and what it says
  now,      \* the clock
  pc,       \* next file system call of each worker
  ino,      \* inode a worker has open, or has just made the entry
  arg,      \* the body and TTL of a put
  mark,     \* next block of a put's write, then the put's time stamp
  linked,   \* whether the sidecar a put has open still has its name
  dropped,  \* whether nobody waits for the call any more
  outcome   \* what the last call of a worker returned

files == <<data, tmp, blocks, meta>>
locals == <<pc, ino, arg, mark, linked, dropped>>
vars == <<files, now, locals, outcome>>

Secs(ticks) == ticks \div TicksPerSec

NoMeta == [there |-> FALSE, written |-> 0, ttl |-> 0]
EmptyMeta == [there |-> TRUE, written |-> 0, ttl |-> 0]

Body(v) == [i \in 1..BlocksOf[v] |-> v]
Miss == [hit |-> FALSE, bytes |-> <<>>]
NoArg == [v |-> CHOOSE v \in Values : TRUE, ttl |-> 0]

\* Stages of a worker: the file system call it makes next.
Stages == {"idle", "read", "checkttl", "write", "rename", "metaopen", "metawrite",
           "rmdata", "rmmeta"}

TypeOK ==
  /\ data \in Inodes \cup {NoFile}
  /\ tmp \in [Pids -> Inodes \cup {NoFile}]
  /\ DOMAIN blocks = Inodes
  /\ meta \in [there : BOOLEAN, written : 0..Secs(MaxNow), ttl : {Secs(t) : t \in Ttls \cup {0}}]
  /\ now \in 0..MaxNow
  /\ pc \in [Workers -> Stages]
  /\ ino \in [Workers -> Inodes \cup {NoFile}]
  /\ linked \in [Workers -> BOOLEAN]
  /\ dropped \in [Workers -> BOOLEAN]

Init ==
  /\ data = NoFile
  /\ tmp = [p \in Pids |-> NoFile]
  /\ blocks = [i \in Inodes |-> <<>>]
  /\ meta = NoMeta
  /\ now = 0
  /\ pc = [w \in Workers |-> "idle"]
  /\ ino = [w \in Workers |-> NoFile]
  /\ arg = [w \in Workers |-> NoArg]
  /\ mark = [w \in Workers |-> 0]
  /\ linked = [w \in Workers |-> FALSE]
  /\ dropped = [w \in Workers |-> FALSE]
  /\ outcome = [w \in Workers |-> Miss]

\* Inodes no name and no open file keeps alive.
FreeInodes == Inodes \ ({data} \cup {tmp[p] : p \in Pids} \cup {ino[w] : w \in Workers})
Fresh == CHOOSE i \in FreeInodes : TRUE

\* Fault: the name of the temporary file leaves out the process.
TmpShared(w) == CHOOSE p \in Pids : TRUE

\* The temporary file a put of w writes: <hash>.tmp-<pid>.
TmpOf(w) == PidOf[w]

\* pwrite: block i of s becomes x; a gap left by a truncation reads as zeros.
WriteAt(s, i, x) ==
  [j \in 1..(IF i > Len(s) THEN i ELSE Len(s)) |->
     IF j = i THEN x ELSE IF j <= Len(s) THEN s[j] ELSE "zero"]

\* Fault: >= instead of >.
ExpiredEarly(m) == m.ttl > 0 /\ Secs(now) >= m.written + m.ttl

\* "ttl > 0 && now > written + ttl" of get and gc.
Expired(m) == m.ttl > 0 /\ Secs(now) > m.written + m.ttl

\* The call is over: its locals are gone.
Return(w) ==
  /\ pc' = [pc EXCEPT ![w] = "idle"]
  /\ ino' = [ino EXCEPT ![w] = NoFile]
  /\ mark' = [mark EXCEPT ![w] = 0]
  /\ linked' = [linked EXCEPT ![w] = FALSE]
  /\ arg' = [arg EXCEPT ![w] = NoArg]
  /\ dropped' = [dropped EXCEPT ![w] = FALSE]

Goto(w, stage) == pc' = [pc EXCEPT ![w] = stage]

\* The operation is done, and the next one follows if somebody waits for it.
GoOn(w, stage) ==
  IF dropped[w]
    THEN Return(w)
    ELSE /\ Goto(w, stage)
         /\ ino' = [ino EXCEPT ![w] = NoFile]
         /\ mark' = [mark EXCEPT ![w] = 0]
         /\ UNCHANGED <<arg, linked, dropped>>

----------------------------------------------------------------------------
(* get *)

\* The data file is opened, or there is none.
GetOpen(w) ==
  /\ pc[w] = "idle"
  /\ IF data = NoFile
       THEN UNCHANGED locals
       ELSE /\ ino' = [ino EXCEPT ![w] = data]
            /\ Goto(w, "read")
            /\ UNCHANGED <<arg, mark, linked, dropped>>
  /\ outcome' = [outcome EXCEPT ![w] = Miss]
  /\ UNCHANGED <<files, now>>

\* The file is read to its end and closed.
GetRead(w) ==
  /\ pc[w] = "read"
  /\ outcome' = [outcome EXCEPT ![w] = [hit |-> TRUE, bytes |-> blocks[ino[w]]]]
  /\ ino' = [ino EXCEPT ![w] = NoFile]
  /\ Goto(w, "checkttl")
  /\ UNCHANGED <<files, now, arg, mark, linked, dropped>>

\* The sidecar is read: a missing one means no expiry.
GetCheckTtl(w) ==
  /\ pc[w] = "checkttl"
  /\ IF Expired(meta)
       THEN /\ Goto(w, "rmdata")
            /\ outcome' = [outcome EXCEPT ![w] = Miss]
            /\ UNCHANGED <<ino, arg, mark, linked, dropped>>
       ELSE /\ Return(w)
            /\ UNCHANGED outcome
  /\ UNCHANGED <<files, now>>

----------------------------------------------------------------------------
(* put *)

\* Fault: the file is opened without being truncated.
PutOpenOver(w, v, ttl) ==
  /\ pc[w] = "idle"
  /\ LET p == TmpOf(w)
         i == IF tmp[p] = NoFile THEN Fresh ELSE tmp[p]
     IN  /\ blocks' = [blocks EXCEPT ![i] = IF tmp[p] = NoFile THEN <<>> ELSE @]
         /\ tmp' = [tmp EXCEPT ![p] = i]
         /\ ino' = [ino EXCEPT ![w] = i]
  /\ arg' = [arg EXCEPT ![w] = [v |-> v, ttl |-> ttl]]
  /\ mark' = [mark EXCEPT ![w] = 1]
  /\ outcome' = [outcome EXCEPT ![w] = Miss]
  /\ Goto(w, "write")
  /\ UNCHANGED <<data, meta, now, linked, dropped>>

\* fs::write creates or truncates the temporary file of the process.
PutOpen(w, v, ttl) ==
  /\ pc[w] = "idle"
  /\ LET p == TmpOf(w)
         i == IF tmp[p] = NoFile THEN Fresh ELSE tmp[p]
     IN  /\ tmp' = [tmp EXCEPT ![p] = i]
         /\ blocks' = [blocks EXCEPT ![i] = <<>>]
         /\ ino' = [ino EXCEPT ![w] = i]
  /\ arg' = [arg EXCEPT ![w] = [v |-> v, ttl |-> ttl]]
  /\ mark' = [mark EXCEPT ![w] = 1]
  /\ outcome' = [outcome EXCEPT ![w] = Miss]
  /\ Goto(w, "write")
  /\ UNCHANGED <<data, meta, now, linked, dropped>>

\* fs::write writes the next block; after the last it closes the file.
PutWrite(w) ==
  /\ pc[w] = "write"
  /\ blocks' = [blocks EXCEPT ![ino[w]] = WriteAt(@, mark[w], arg[w].v)]
  /\ IF mark[w] < BlocksOf[arg[w].v]
       THEN /\ mark' = [mark EXCEPT ![w] = @ + 1]
            /\ UNCHANGED <<pc, ino, arg, linked, dropped>>
       ELSE GoOn(w, "rename")
  /\ UNCHANGED <<data, tmp, meta, now, outcome>>

\* The temporary file becomes the data file; put fails if it is gone.
PutRename(w) ==
  /\ pc[w] = "rename"
  /\ LET p == TmpOf(w)
     IN  IF tmp[p] = NoFile
           THEN Return(w) /\ UNCHANGED <<data, tmp>>
           ELSE /\ data' = tmp[p]
                /\ tmp' = [tmp EXCEPT ![p] = NoFile]
                /\ IF dropped[w]
                     THEN Return(w)
                     ELSE /\ ino' = [ino EXCEPT ![w] = tmp[p]]
                          /\ Goto(w, "metaopen")
                          /\ UNCHANGED <<arg, mark, linked, dropped>>
  /\ UNCHANGED <<blocks, meta, now, outcome>>

\* The stamp is taken and fs::write creates or truncates the sidecar.
PutMetaOpen(w) ==
  /\ pc[w] = "metaopen"
  /\ meta' = EmptyMeta
  /\ mark' = [mark EXCEPT ![w] = Secs(now)]
  /\ linked' = [linked EXCEPT ![w] = TRUE]
  /\ Goto(w, "metawrite")
  /\ UNCHANGED <<data, tmp, blocks, now, ino, arg, dropped, outcome>>

\* Fault: the sidecar names the deadline where get expects the duration.
PutMetaDeadline(w) ==
  /\ pc[w] = "metawrite"
  /\ meta' = IF linked[w]
               THEN [there |-> TRUE, written |-> mark[w], ttl |-> mark[w] + Secs(arg[w].ttl)]
               ELSE meta
  /\ Return(w)
  /\ UNCHANGED <<data, tmp, blocks, now, outcome>>

\* Fault: the sidecar is written without the TTL.
PutMetaStamp(w) ==
  /\ pc[w] = "metawrite"
  /\ meta' = IF linked[w] THEN [there |-> TRUE, written |-> mark[w], ttl |-> 0] ELSE meta
  /\ Return(w)
  /\ UNCHANGED <<data, tmp, blocks, now, outcome>>

\* The stamp and the TTL in whole seconds are written, to a file without a
\* name if the sidecar was removed meanwhile.
PutMetaWrite(w) ==
  /\ pc[w] = "metawrite"
  /\ meta' = IF linked[w]
               THEN [there |-> TRUE, written |-> mark[w], ttl |-> Secs(arg[w].ttl)]
               ELSE meta
  /\ Return(w)
  /\ UNCHANGED <<data, tmp, blocks, now, outcome>>

----------------------------------------------------------------------------
(* gc, and the removals get and gc share *)

\* gc comes by the sidecar and finds it expired.
GcRead(w) ==
  /\ pc[w] = "idle"
  /\ meta.there /\ Expired(meta)
  /\ outcome' = [outcome EXCEPT ![w] = Miss]
  /\ Goto(w, "rmdata")
  /\ UNCHANGED <<files, now, ino, arg, mark, linked, dropped>>

\* Fault: the entry is emptied instead of unlinked.
TruncateData(w) ==
  /\ pc[w] = "rmdata"
  /\ blocks' = IF data = NoFile THEN blocks ELSE [blocks EXCEPT ![data] = <<>>]
  /\ GoOn(w, "rmmeta")
  /\ UNCHANGED <<data, tmp, meta, now, outcome>>

\* The data file, whichever has the name by now, is removed.
RemoveData(w) ==
  /\ pc[w] = "rmdata"
  /\ data' = NoFile
  /\ GoOn(w, "rmmeta")
  /\ UNCHANGED <<tmp, blocks, meta, now, outcome>>

\* Then the sidecar; who has it open goes on with a file without a name.
RemoveMeta(w) ==
  /\ pc[w] = "rmmeta"
  /\ meta' = NoMeta
  /\ linked' = [u \in Workers |-> FALSE]
  /\ Goto(w, "idle")
  /\ dropped' = [dropped EXCEPT ![w] = FALSE]
  /\ UNCHANGED <<data, tmp, blocks, now, ino, arg, mark, outcome>>

----------------------------------------------------------------------------
\* The future of a call is dropped: before the next operation is handed over,
\* or a read, and it is as if the call were over; later, and the operation goes
\* on to its end by itself.  Writing a file is one operation.
Cancel(w) ==
  /\ pc[w] # "idle" /\ ~dropped[w]
  /\ outcome' = [outcome EXCEPT ![w] = Miss]
  /\ \/ pc[w] \notin {"write", "metawrite"} /\ Return(w)
     \/ /\ pc[w] \notin {"read", "checkttl"}
        /\ dropped' = [dropped EXCEPT ![w] = TRUE]
        /\ UNCHANGED <<pc, ino, arg, mark, linked>>
  /\ UNCHANGED <<files, now>>

\* A process dies, in the middle of a write if it likes; files stay.
Crash(p) ==
  /\ \E w \in Workers : PidOf[w] = p /\ pc[w] # "idle"
  /\ LET Dead(w) == PidOf[w] = p
     IN  /\ pc' = [w \in Workers |-> IF Dead(w) THEN "idle" ELSE pc[w]]
         /\ ino' = [w \in Workers |-> IF Dead(w) THEN NoFile ELSE ino[w]]
         /\ mark' = [w \in Workers |-> IF Dead(w) THEN 0 ELSE mark[w]]
         /\ linked' = [w \in Workers |-> ~Dead(w) /\ linked[w]]
         /\ outcome' = [w \in Workers |-> IF Dead(w) THEN Miss ELSE outcome[w]]
         /\ arg' = [w \in Workers |-> IF Dead(w) THEN NoArg ELSE arg[w]]
         /\ dropped' = [w \in Workers |-> ~Dead(w) /\ dropped[w]]
  /\ UNCHANGED <<files, now>>

Tick ==
  /\ now < MaxNow
  /\ now' = now + 1
  /\ UNCHANGED <<files, locals, outcome>>

Get(w) == GetOpen(w) \/ GetRead(w) \/ GetCheckTtl(w)
Put(w) == \/ \E v \in Values, ttl \in Ttls : PutOpen(w, v, ttl)
          \/ PutWrite(w) \/ PutRename(w) \/ PutMetaOpen(w) \/ PutMetaWrite(w)
Gc(w) == GcRead(w) \/ RemoveData(w) \/ RemoveMeta(w)

Next ==
  \/ \E w \in Workers : Get(w) \/ Put(w) \/ Gc(w) \/ Cancel(w)
  \/ \E p \in Pids : Crash(p)
  \/ Tick

Spec == Init /\ [][Next]_vars

\* Calls run to their end: nothing is dropped and no process dies.
NextUndisturbed == Tick \/ \E w \in Workers : Get(w) \/ Put(w) \/ Gc(w)
SpecUndisturbed == Init /\ [][NextUndisturbed]_vars

\* A process has its temporary file open for one put at a time: none begins
\* while another one, or what a dropped one has left, writes or renames it.
WithTmp(w) == pc[w] \in {"write", "rename"}
PutsApart ==
  \A u, w \in Workers : u # w /\ PidOf[u] = PidOf[w] => ~(WithTmp(u) /\ WithTmp(w))

SpecApart == Init /\ [][Next /\ PutsApart']_vars

----------------------------------------------------------------------------
Contents == {Body(v) : v \in Values}

\* A get returns what one put wrote, never a mixture, a prefix or an empty
\* file ("Writes are atomic (temp file + rename)", fs.rs): of processes that
\* put one body at a time, whatever is dropped or killed.
NoTornRead == \A w \in Workers : outcome[w].hit => outcome[w].bytes \in Contents

\* The entry as AtomicCache has it: the data file's content, and for each
\* worker what the file it is reading, or has read, contains.
StoredBytes == IF data = NoFile THEN <<>> ELSE blocks[data]
Answer(w) == IF pc[w] = "read" THEN blocks[ino[w]] ELSE outcome[w].bytes

Atomic == INSTANCE AtomicCache WITH NoEntry <- <<>>, stored <- StoredBytes,
                                    answer <- [w \in Workers |-> Answer(w)]

\* To such processes that share the directory the cache is atomic: a put takes
\* effect in its rename, also one that was dropped, a get in its open, and a
\* crash or a removal leaves a whole entry or none.
ImplementsAtomicCache == Atomic!ASpec
=============================================================================
