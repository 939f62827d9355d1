\* One caller at a time, calls dropped and the process killed; without a TTL and
\* with one of one second, in half seconds; the fast tier forgets at will, the
\* slow one may fail to write.
CONSTANTS
  w1 = w1  p1 = p1
  a = a  b = b
  BlocksOf <- Blocks
  Workers = {w1}
  Pids = {p1}
  PidOf <- OwnProcess
  Values = {a, b}
  Ttls = {0, 2}
  TicksPerSec = 2
  MaxNow = 6
VIEW View
SPECIFICATION LSpec
INVARIANT TypeOK
INVARIANT ExpiredNotServed
INVARIANT LayeredReads
PROPERTY LiveEntryKept
