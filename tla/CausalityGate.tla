----------------------------- MODULE CausalityGate -----------------------------
(***************************************************************************)
(* What the HIL node promises between the Pi and the sensor emulators      *)
(* (scheduler_test.h:60-91, sensor_emulation_test.h:11-22), without rings, *)
(* timers, flags or threads: a lossy first-in first-out channel.  Packets  *)
(* are numbered by arrival.  The packets inside the node form a set, and   *)
(* whatever leaves it, served to the emulators or lost, is always the      *)
(* oldest one.  Hence what is served is a subsequence of what was          *)
(* received: no reordering, no repetition, and a loss costs only the       *)
(* oldest physics state.                                                   *)
(***************************************************************************)
EXTENDS Naturals

VARIABLES
  received,  \* number of packets taken from the wire
  inside,    \* the numbers of the packets the node still holds
  served     \* the number of the packet the emulators see, 0 before the first

cgVars == <<received, inside, served>>

Oldest(n) == n \in inside /\ \A m \in inside : n <= m

Init ==
  /\ received = 0
  /\ inside = {}
  /\ served = 0

Receive ==
  /\ received' = received + 1
  /\ inside' = inside \union {received + 1}
  /\ UNCHANGED served

\* Overload: the oldest packet gives way.
Lose(n) ==
  /\ Oldest(n)
  /\ inside' = inside \ {n}
  /\ UNCHANGED <<received, served>>

Serve(n) ==
  /\ Oldest(n)
  /\ inside' = inside \ {n}
  /\ served' = n
  /\ UNCHANGED received

Next ==
  \/ Receive
  \/ \E n \in inside : Lose(n) \/ Serve(n)

Spec == Init /\ [][Next]_cgVars

================================================================================
