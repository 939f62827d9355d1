--------------------------- MODULE MCLayeredCache ---------------------------
\* Small instances of LayeredCache: one caller, a body of two blocks and one of one.
EXTENDS LayeredCache, TLC

CONSTANTS w1, p1, a, b

OwnProcess == [w \in Workers |-> p1]
Blocks == [v \in Values |-> IF v = a THEN 2 ELSE 1]

\* Which states TLC takes for one: inodes have no number, files without a name
\* no content, and a call no more history than it still needs.
Names == {"data"} \cup Pids \cup Workers
InodeAt(x) == CASE x = "data" -> data [] x \in Pids -> tmp[x] [] OTHER -> ino[x]
Seen == {<<{x \in Names : InodeAt(x) = i}, blocks[i], IF i = data THEN born[i] ELSE <<>>>> :
           i \in {InodeAt(x) : x \in Names} \ {NoFile}}
Calls == [w \in Workers |->
            <<pc[w], arg[w], mark[w], linked[w], dropped[w], outcome[w], answer[w], filling[w],
              IF pc[w] = "read" THEN called[w] ELSE 0, late[w]>>]
View == <<Seen, meta, now, Calls, fast, settled, since>>
=============================================================================
