---------------------------- MODULE MCBno055Driver -----------------------------
EXTENDS Bno055Driver

\* The first nine operations of bno_init have all the kinds.
MCCalls == SubSeq(BnoInitCalls, 1, 9)
================================================================================
