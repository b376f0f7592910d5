------------------------------ MODULE MCFullDuplex ------------------------------
EXTENDS FullDuplex

\* The first frames are due when the ring has just become full, so that one is
\* evicted and the alarm of its successor races with the thread; the one that
\* is staged then is due long after, and the later ones are later still.
MCTimeOf == [n \in 0..MaxTransfers |-> IF n < 5 THEN 6 ELSE IF n < 7 THEN 9 ELSE 10]
================================================================================
