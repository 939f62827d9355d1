\* Two tasks of one process put the same key: see findings.
CONSTANTS
  w1 = w1  w2 = w2  w3 = w3
  p1 = p1  p2 = p2
  a = a  b = b
  BlocksOf <- Blocks
  Workers = {w1, w2, w3}
  Pids = {p1}
  PidOf <- SameProcess
  Values = {a, b}
  Ttls = {0}
  TicksPerSec = 1
  MaxNow = 0
SPECIFICATION SpecUndisturbed
INVARIANT NoTornRead
