\* Two processes share the directory, one of them with two calls at a time, or
\* with what a dropped one has left beside the next; entries expire, calls are
\* dropped and processes die.
CONSTANTS
  w1 = w1  w2 = w2  w3 = w3
  p1 = p1  p2 = p2
  a = a  b = b
  BlocksOf <- Blocks
  Workers = {w1, w2, w3}
  Pids = {p1, p2}
  PidOf <- TwoProcesses
  Values = {a, b}
  Ttls = {1}
  TicksPerSec = 1
  MaxNow = 2
VIEW View
SPECIFICATION SpecApart
INVARIANT NoTornRead
PROPERTY ImplementsAtomicCache
