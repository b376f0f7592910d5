-------------------------------- MODULE HilClock --------------------------------
(***************************************************************************)
(* The clock that both revisions of the scheduler compute with,            *)
(* scheduler_test.c and scheduler_fs2.c: now_us(), and the signed          *)
(* difference between a timestamp and it.                                  *)
(*                                                                         *)
(* A word of the node holds 2 * HalfWord values; in the code HalfWord is   *)
(* 2^31.  now_us() converts a 32-bit cycle counter, which starts again at  *)
(* 0 long before a word of microseconds is full (after 17.9 s at 240 MHz). *)
(* A timestamp is the Pi's time, which does not wrap: the code keeps its   *)
(* low word, and the difference below is the same for both.                *)
(***************************************************************************)
EXTENDS Integers

CONSTANTS
  ClockWrap,  \* now_us() starts again at 0 after this many ticks
  HalfWord    \* half of the values of a uint32_t

ASSUME WordAssumption ==
  /\ HalfWord \in Nat \ {0}
  /\ ClockWrap \in 1..2 * HalfWord

\* now_us() when the hardware has counted t ticks.
NowUsAt(t) == t % ClockWrap

\* (int32_t) of a difference of two uint32_t.
Int32(d) == ((d + HalfWord) % (2 * HalfWord)) - HalfWord

================================================================================
