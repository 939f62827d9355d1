---------------------------- MODULE MCTransport ----------------------------
\* Small instances of Transport: an index host and a data host, each
\* with its own bucket, or the index host alone.
EXTENDS Transport, TLC

CONSTANTS t1, t2, t3, indexHost, dataHost, index, data

MCBucketOf == [h \in {indexHost, dataHost} |-> IF h = dataHost THEN data ELSE index]
OneBucket == [h \in {indexHost} |-> index]
\* The tasks are interchangeable: nothing in the safety properties names one.
TaskSymmetry == Permutations(Tasks)
=============================================================================
