------------------------- MODULE MCTransportTiming -------------------------
\* Small instances of TransportTiming.
EXTENDS TransportTiming, TLC

CONSTANTS t1, t2, t3, indexHost, dataHost, index, data

MCBucketOf == [h \in {indexHost, dataHost} |-> IF h = dataHost THEN data ELSE index]
OneBucket == [h \in {indexHost} |-> index]

\* The tasks are interchangeable.
TaskSymmetry == Permutations(Tasks)
=============================================================================
