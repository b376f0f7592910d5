---------------------------- MODULE MCHilScheduler -----------------------------
EXTENDS HilScheduler

\* A frame that is due at once, one in the near future, one at the horizon.
MCTimestamps == {0, 2, 3}
================================================================================
