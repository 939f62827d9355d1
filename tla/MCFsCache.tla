----------------------------- MODULE MCFsCache -----------------------------
\* Small instances of FsCache: workers in processes of their own, or in one.
EXTENDS FsCache, TLC

CONSTANTS w1, w2, w3, p1, p2, a, b

TwoProcesses == [w \in Workers |-> IF w = w3 THEN p2 ELSE p1]
SameProcess == [w \in Workers |-> p1]
Blocks == [v \in Values |-> IF v = a THEN 2 ELSE 1]

----------------------------------------------------------------------------
\* Which states TLC takes for one.  Inodes have no number, and a file without a
\* name is what a reader sees of it; the workers of one process have no identity;
\* stamps that do not run out before the clock stops are alike; what a call that
\* is over returned was there to be checked before it ended.
Text(i) == IF i = NoFile THEN <<FALSE>> ELSE <<TRUE, blocks[i]>>
Lasts(stamp, ttl) == ttl = 0 \/ stamp + ttl >= Secs(MaxNow)
Sidecar == IF Lasts(meta.written, meta.ttl) THEN meta.there ELSE <<meta.written, meta.ttl>>

Call(w) ==
  <<pc[w], arg[w], dropped[w],
    CASE pc[w] = "read" -> <<ino[w] = data, Text(ino[w])>>
      [] pc[w] = "checkttl" -> <<outcome[w]>>
      [] pc[w] = "write" -> <<mark[w], ino[w] = tmp[TmpOf(w)], ino[w] = data, Text(ino[w])>>
      [] pc[w] = "metawrite" -> <<linked[w], IF Lasts(mark[w], Secs(arg[w].ttl)) THEN Secs(MaxNow) ELSE mark[w]>>
      [] OTHER -> <<>>>>

View == <<Text(data), [p \in Pids |-> Text(tmp[p])], Sidecar, now,
          [p \in Pids |-> {Call(w) : w \in {w \in Workers : PidOf[w] = p}}]>>
=============================================================================
