--------------------------- MODULE FsCacheExpiry ---------------------------
(***************************************************************************)
(* FsCache with a record of how old each stored body is: history variables *)
(* note when its put took its time stamp, what TTL it was given and        *)
(* whether the put came as far as the sidecar, apart from what the sidecar *)
(* then says, which is what get and gc go by.                              *)
(***************************************************************************)
EXTENDS FsCache

VARIABLES
  born,     \* of each inode: the instant its put dates it from, its TTL, and
            \* whether the put has said so in the sidecar
  called,   \* when the last get of each worker was called
  late      \* whether the entry it read had expired by then

history == <<born, called, late>>
evars == <<vars, history>>

EInit ==
  /\ Init
  /\ born = [i \in Inodes |-> [at |-> 0, ttl |-> 0, said |-> FALSE]]
  /\ called = [w \in Workers |-> 0]
  /\ late = [w \in Workers |-> FALSE]

\* Whether i had expired, by a second or more, at the given instant, if its
\* put has said when it would.
ExpiredAt(i, instant) ==
  /\ born[i].said /\ born[i].ttl > 0
  /\ instant >= born[i].at + born[i].ttl + TicksPerSec

EGetOpen(w) ==
  /\ GetOpen(w)
  /\ called' = [called EXCEPT ![w] = now]
  /\ late' = [late EXCEPT ![w] = FALSE]
  /\ UNCHANGED born

EGetRead(w) ==
  /\ GetRead(w)
  /\ late' = [late EXCEPT ![w] = ExpiredAt(ino[w], called[w])]
  /\ UNCHANGED <<born, called>>

EPutRename(w) ==
  /\ PutRename(w)
  /\ born' = IF data' = data
               THEN born
               ELSE [born EXCEPT ![data'] = [at |-> now, ttl |-> arg[w].ttl, said |-> FALSE]]
  /\ UNCHANGED <<called, late>>

EPutMetaOpen(w) ==
  /\ PutMetaOpen(w)
  /\ born' = [born EXCEPT ![ino[w]].at = now]
  /\ UNCHANGED <<called, late>>

EPutMetaWrite(w) ==
  /\ PutMetaWrite(w)
  /\ born' = [born EXCEPT ![ino[w]].said = linked[w]]
  /\ UNCHANGED <<called, late>>

----------------------------------------------------------------------------
\* A get returns no entry that had expired when it was called ("Fetch an
\* entry, if present and unexpired", cache/mod.rs), to the second, whatever
\* was dropped or killed since its put wrote the sidecar.
ExpiredNotServed ==
  \A w \in Workers : pc[w] = "idle" /\ outcome[w].hit => ~late[w]

\* An entry that has not expired survives every get and every gc, and what was
\* dropped or killed in the middle of them: with calls that do not overlap, a
\* removal means that the TTL the put said has run out.
LiveEntryKept ==
  [][data # NoFile /\ data' = NoFile /\ born[data].said
       => born[data].ttl > 0 /\ now > born[data].at + born[data].ttl]_evars
=============================================================================
