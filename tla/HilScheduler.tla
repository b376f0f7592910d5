------------------------------ MODULE HilScheduler ------------------------------
(***************************************************************************)
(* The causality gate of the HIL node, test_node/app/src/threads/          *)
(* scheduler_test.c: the scheduler thread takes frames from the Pi and     *)
(* stages them in the ring scheduler_q; the injection timer ISR moves the  *)
(* oldest one into the one-slot gate sensor_update_q when the timer fires. *)
(*                                                                         *)
(* The ISR preempts the thread between any two kernel calls of the thread  *)
(* (each k_msgq call and each atomic operation is one step); the ISR       *)
(* itself is one step, as no thread runs inside it and the MCU has one     *)
(* core.  A packet is its arrival number and its timestamp: no property    *)
(* here depends on the physics values.                                     *)
(***************************************************************************)
EXTENDS Integers, Sequences, HilClock

CONSTANTS
  QueueLen,    \* SCHEDULER_Q_LEN
  Timestamps,  \* the timestamps the Pi may put into a frame
  MaxTime,     \* the clock of the model stops here, timers keep running
  MaxFrames,   \* bound: packets the Pi sends
  MaxFaults    \* bound: SPI errors, and undecodable frames

ASSUME QueueLenAssumption == QueueLen \in Nat \ {0}
ASSUME ClockAssumption ==
  /\ MaxTime \in Nat
  /\ Timestamps \subseteq 0..MaxTime
ASSUME BoundAssumption == MaxFrames \in Nat /\ MaxFaults \in Nat

VARIABLES
  clock,                \* hardware time since boot
  pc,                   \* where the scheduler thread is
  pkt,                  \* its local packet, NoPacket outside steps 6 to 7
  scheduler_q,          \* the staging ring, oldest first
  sensor_update_q,      \* the gate: a message queue of length 1
  timer_armed,          \* the atomic flag
  timer_running,        \* kernel side of injection_timer
  timer_left,           \* ticks until injection_timer expires
  armed_for,            \* history: the packet whose timestamp started the timer
  spi_err_count,
  diag_decode_fail,
  diag_spi_rx,
  diag_timer_inject,
  diag_sched_q_evict,
  diag_last_inject_ts,  \* the three "last value" diagnostics hold the number
  diag_last_lidar_mm,   \* of the packet the value is from
  diag_last_euler_x,
  early,                \* history: packets injected before their timestamp
  dropped,              \* history: packets put_overwrite gives up on
  too_far               \* history: timers started for a timestamp that an
                        \* int32_t difference to now_us() cannot hold

queues == <<scheduler_q, sensor_update_q>>
kernelTimer == <<timer_running, timer_left, armed_for>>
faults == <<spi_err_count, diag_decode_fail>>
flow == <<diag_spi_rx, diag_timer_inject, diag_sched_q_evict>>
lasts == <<diag_last_inject_ts, diag_last_lidar_mm, diag_last_euler_x>>
diag == <<faults, flow, lasts>>
history == <<early, dropped, too_far>>

vars == <<clock, pc, pkt, queues, timer_armed, kernelTimer, diag, history>>

Packet == [id : 1..MaxFrames, ts : Timestamps]
NoPacket == [id |-> 0, ts |-> 0]

Locations == {"spi_read", "retry_sleep", "q_put", "q_evict", "q_reput",
              "arm_cas", "arm_peek"}

\* The thread has decoded a packet it has not staged yet.
InHand == pc \in {"q_put", "q_evict", "q_reput"}

\* What the sensor emulation thread would peek at, as an arrival number.
GateId == IF sensor_update_q = <<>> THEN 0 ELSE sensor_update_q[1].id

\* k_msgq_put with K_NO_WAIT: a full queue stays as it is.
MsgqPut(q, p, max) == IF Len(q) < max THEN Append(q, p) ELSE q

NowUs == NowUsAt(clock)

\* Two wrong delays, for the mutation runs: one tick short, and unsigned.
DelayTruncated(ts) == IF Int32(ts - NowUs) < 2 THEN 1 ELSE Int32(ts - NowUs) - 1
DelayUnclamped(ts) == (ts - NowUs) % (2 * HalfWord)

\* The delay until a timestamp: a signed difference, clamped to 1.
Delay(ts) == IF Int32(ts - NowUs) < 1 THEN 1 ELSE Int32(ts - NowUs)

\* The difference does not fit: the delay is not the time that is left.
TooFar(ts) == ts - NowUs >= HalfWord

StartTimer(p) ==
  /\ timer_running' = TRUE
  /\ timer_left' = Delay(p.ts)
  /\ armed_for' = p
  /\ too_far' = IF TooFar(p.ts) THEN too_far + 1 ELSE too_far

StopTimer ==
  /\ timer_running' = FALSE
  /\ timer_left' = 0
  /\ armed_for' = NoPacket

Init ==
  /\ clock = 0
  /\ pc = "spi_read"
  /\ pkt = NoPacket
  /\ scheduler_q = <<>>
  /\ sensor_update_q = <<>>
  /\ timer_armed = 0
  /\ timer_running = FALSE
  /\ timer_left = 0
  /\ armed_for = NoPacket
  /\ spi_err_count = 0
  /\ diag_decode_fail = 0
  /\ diag_spi_rx = 0
  /\ diag_timer_inject = 0
  /\ diag_sched_q_evict = 0
  /\ diag_last_inject_ts = 0
  /\ diag_last_lidar_mm = 0
  /\ diag_last_euler_x = 0
  /\ early = 0
  /\ dropped = 0
  /\ too_far = 0

--------------------------------------------------------------------------------
(***************************************************************************)
(* Wrong variants of the thread's steps.  No action uses them: a mutation  *)
(* run puts one in the place of the step it imitates, to show that a       *)
(* property notices.                                                       *)
(***************************************************************************)

\* The ring accepts one packet too many.
QPutOffByOne ==
  /\ pc = "q_put"
  /\ IF Len(scheduler_q) <= QueueLen
       THEN /\ scheduler_q' = Append(scheduler_q, pkt)
            /\ pkt' = NoPacket
            /\ pc' = "arm_cas"
       ELSE /\ pc' = "q_evict"
            /\ UNCHANGED <<pkt, scheduler_q>>
  /\ UNCHANGED <<clock, sensor_update_q, timer_armed, kernelTimer, diag, history>>

\* A full ring refuses the newcomer, as in the earlier scheduler_fs.c.
QEvictNewest ==
  /\ pc = "q_evict"
  /\ pkt' = NoPacket
  /\ dropped' = dropped + 1
  /\ pc' = "arm_cas"
  /\ UNCHANGED <<clock, queues, timer_armed, kernelTimer, diag, early, too_far>>

\* put_overwrite makes room and forgets the second put.
QReputForgotten ==
  /\ pc = "q_reput"
  /\ pkt' = NoPacket
  /\ pc' = "arm_cas"
  /\ UNCHANGED <<clock, queues, timer_armed, kernelTimer, diag, history>>

\* A plain store in the place of the compare-and-swap.
ArmWithoutCas ==
  /\ pc = "arm_cas"
  /\ timer_armed' = 1
  /\ pc' = "arm_peek"
  /\ UNCHANGED <<clock, pkt, queues, kernelTimer, diag, history>>

\* An empty ring returns without undoing the flag.
ArmPeekNoUndo ==
  /\ pc = "arm_peek"
  /\ IF scheduler_q = <<>>
       THEN UNCHANGED <<kernelTimer, too_far>>
       ELSE StartTimer(Head(scheduler_q))
  /\ pc' = "spi_read"
  /\ UNCHANGED <<clock, pkt, queues, timer_armed, diag, early, dropped>>

--------------------------------------------------------------------------------
(***************************************************************************)
(* Scheduler thread.                                                       *)
(***************************************************************************)

\* spi_read() returned an error: count it and sleep 1 ms.
SpiReadError ==
  /\ pc = "spi_read"
  /\ spi_err_count < MaxFaults
  /\ spi_err_count' = spi_err_count + 1
  /\ pc' = "retry_sleep"
  /\ UNCHANGED <<clock, pkt, queues, timer_armed, kernelTimer, diag_decode_fail,
                 flow, lasts, history>>

RetryWakeUp ==
  /\ pc = "retry_sleep"
  /\ pc' = "spi_read"
  /\ UNCHANGED <<clock, pkt, queues, timer_armed, kernelTimer, diag, history>>

\* A clock-sync frame is ignored in stream mode: nothing changes.
SyncFrame ==
  /\ pc = "spi_read"
  /\ UNCHANGED vars

\* A bad length prefix, or a payload pb_decode refuses.
BadFrame ==
  /\ pc = "spi_read"
  /\ diag_decode_fail < MaxFaults
  /\ diag_decode_fail' = diag_decode_fail + 1
  /\ UNCHANGED <<clock, pc, pkt, queues, timer_armed, kernelTimer, spi_err_count,
                 flow, lasts, history>>

\* Steps 4 to 6: the frame decodes and becomes the packet in hand.
GoodFrame(ts) ==
  /\ pc = "spi_read"
  /\ diag_spi_rx < MaxFrames
  /\ diag_spi_rx' = diag_spi_rx + 1
  /\ diag_last_lidar_mm' = diag_spi_rx + 1
  /\ diag_last_euler_x' = diag_spi_rx + 1
  /\ pkt' = [id |-> diag_spi_rx + 1, ts |-> ts]
  /\ pc' = "q_put"
  /\ UNCHANGED <<clock, queues, timer_armed, kernelTimer, faults, diag_timer_inject,
                 diag_sched_q_evict, diag_last_inject_ts, history>>

\* scheduler_q_put_overwrite, first k_msgq_put.
QPut ==
  /\ pc = "q_put"
  /\ IF Len(scheduler_q) < QueueLen
       THEN /\ scheduler_q' = Append(scheduler_q, pkt)
            /\ pkt' = NoPacket
            /\ pc' = "arm_cas"
       ELSE /\ pc' = "q_evict"
            /\ UNCHANGED <<pkt, scheduler_q>>
  /\ UNCHANGED <<clock, sensor_update_q, timer_armed, kernelTimer, diag, history>>

\* k_msgq_get of the oldest.  The ISR may have drained the ring since the
\* put failed: then the function returns without storing the packet.
QEvict ==
  /\ pc = "q_evict"
  /\ IF scheduler_q # <<>>
       THEN /\ scheduler_q' = Tail(scheduler_q)
            /\ diag_sched_q_evict' = diag_sched_q_evict + 1
            /\ pc' = "q_reput"
            /\ UNCHANGED <<pkt, dropped>>
       ELSE /\ pkt' = NoPacket
            /\ dropped' = dropped + 1
            /\ pc' = "arm_cas"
            /\ UNCHANGED <<scheduler_q, diag_sched_q_evict>>
  /\ UNCHANGED <<clock, sensor_update_q, timer_armed, kernelTimer, faults,
                 diag_spi_rx, diag_timer_inject, lasts, early, too_far>>

\* The second k_msgq_put, whose result the code ignores.
QReput ==
  /\ pc = "q_reput"
  /\ scheduler_q' = MsgqPut(scheduler_q, pkt, QueueLen)
  /\ pkt' = NoPacket
  /\ pc' = "arm_cas"
  /\ UNCHANGED <<clock, sensor_update_q, timer_armed, kernelTimer, diag, history>>

\* try_arm_timer: atomic_cas(&timer_armed, 0, 1).
ArmCas ==
  /\ pc = "arm_cas"
  /\ IF timer_armed = 0
       THEN timer_armed' = 1 /\ pc' = "arm_peek"
       ELSE pc' = "spi_read" /\ UNCHANGED timer_armed
  /\ UNCHANGED <<clock, pkt, queues, kernelTimer, diag, history>>

\* try_arm_timer: peek, compute the delay, start the timer.  The timer is
\* stopped here, so the ISR cannot come between these calls.
ArmPeek ==
  /\ pc = "arm_peek"
  /\ IF scheduler_q = <<>>
       THEN timer_armed' = 0 /\ UNCHANGED <<kernelTimer, too_far>>
       ELSE StartTimer(Head(scheduler_q)) /\ UNCHANGED timer_armed
  /\ pc' = "spi_read"
  /\ UNCHANGED <<clock, pkt, queues, diag, early, dropped>>

--------------------------------------------------------------------------------
(***************************************************************************)
(* injection_timer_isr, and the kernel's clock.                            *)
(***************************************************************************)
Expired == timer_running /\ timer_left = 0

\* The ring was drained: clear the flag and leave the timer stopped.
IsrNothingToInject ==
  /\ Expired
  /\ scheduler_q = <<>>
  /\ timer_armed' = 0
  /\ StopTimer
  /\ UNCHANGED <<clock, pc, pkt, queues, diag, history>>

(***************************************************************************)
(* Pop the oldest packet, put it into the gate, count, and start the timer *)
(* for the packet that is now the oldest, if there is one.  The parameters *)
(* are the ring after the pop, the gate after the put, and whether to      *)
(* re-arm.                                                                 *)
(***************************************************************************)
IsrInjectWith(rest, gate, rearm) ==
  /\ Expired
  /\ scheduler_q # <<>>
  /\ scheduler_q' = rest
  /\ sensor_update_q' = gate
  /\ diag_timer_inject' = diag_timer_inject + 1
  /\ diag_last_inject_ts' = Head(scheduler_q).id
  /\ diag_last_euler_x' = Head(scheduler_q).id
  /\ early' = IF Head(scheduler_q).ts > clock THEN early + 1 ELSE early
  /\ IF rearm /\ rest # <<>>
       THEN timer_armed' = 1 /\ StartTimer(Head(rest))
       ELSE timer_armed' = 0 /\ StopTimer /\ UNCHANGED too_far
  /\ UNCHANGED <<clock, pc, pkt, faults, diag_spi_rx, diag_sched_q_evict,
                 diag_last_lidar_mm, dropped>>

\* Three wrong ISRs for the mutation runs: k_msgq_peek for k_msgq_get, no
\* purge before the put, and re-arming left to try_arm_timer.
IsrPeeks == IsrInjectWith(scheduler_q, MsgqPut(<<>>, Head(scheduler_q), 1), TRUE)
IsrNoPurge ==
  IsrInjectWith(Tail(scheduler_q), MsgqPut(sensor_update_q, Head(scheduler_q), 1), TRUE)
IsrNoRearm == IsrInjectWith(Tail(scheduler_q), MsgqPut(<<>>, Head(scheduler_q), 1), FALSE)

\* The ring loses its head; purge and put leave exactly that packet in the gate.
IsrInject ==
  IsrInjectWith(Tail(scheduler_q), MsgqPut(<<>>, Head(scheduler_q), 1), TRUE)

\* Time passes whether or not an expired timer has been served yet.
Tick ==
  /\ clock' = IF clock < MaxTime THEN clock + 1 ELSE clock
  /\ timer_left' = IF timer_left > 0 THEN timer_left - 1 ELSE 0
  /\ UNCHANGED <<pc, pkt, queues, timer_armed, timer_running, armed_for, diag,
                 history>>

--------------------------------------------------------------------------------
Receive ==
  \/ SpiReadError
  \/ SyncFrame
  \/ BadFrame
  \/ \E ts \in Timestamps : GoodFrame(ts)

ThreadStep ==
  \/ RetryWakeUp
  \/ QPut
  \/ QEvict
  \/ QReput
  \/ ArmCas
  \/ ArmPeek

Isr == IsrNothingToInject \/ IsrInject

Next == Receive \/ ThreadStep \/ Isr \/ Tick

Spec == Init /\ [][Next]_vars

(***************************************************************************)
(* The kernel runs a ready thread, serves a pending interrupt and advances *)
(* its clock; the Pi need not ever send a frame.                           *)
(***************************************************************************)
Fairness == WF_vars(ThreadStep) /\ WF_vars(Isr) /\ WF_vars(Tick)

FairSpec == Spec /\ Fairness

--------------------------------------------------------------------------------
(***************************************************************************)
(* Properties.                                                             *)
(***************************************************************************)
Ids(q) == {q[i].id : i \in DOMAIN q}

ThreadType ==
  /\ pc \in Locations
  /\ pkt \in Packet \union {NoPacket}
  /\ InHand <=> pkt \in Packet

QueueType ==
  /\ scheduler_q \in Seq(Packet)
  /\ Len(scheduler_q) <= QueueLen
  /\ sensor_update_q \in Seq(Packet)
  /\ Len(sensor_update_q) <= 1

ClockType ==
  /\ clock \in 0..MaxTime
  /\ timer_armed \in {0, 1}
  /\ timer_left \in Nat

TimerType ==
  /\ timer_running \in BOOLEAN
  /\ armed_for \in Packet \union {NoPacket}

CounterType ==
  /\ spi_err_count \in Nat
  /\ diag_decode_fail \in Nat
  /\ diag_spi_rx \in 0..MaxFrames
  /\ diag_timer_inject \in Nat
  /\ diag_sched_q_evict \in Nat
  /\ diag_last_inject_ts \in Nat
  /\ diag_last_lidar_mm \in Nat
  /\ diag_last_euler_x \in Nat
  /\ early \in Nat
  /\ dropped \in Nat
  /\ too_far \in Nat

\* Every variable keeps its type, the ring and the gate their length.
TypeOK == ThreadType /\ QueueType /\ ClockType /\ TimerType /\ CounterType

(***************************************************************************)
(* timer_armed says the truth about the kernel timer in every state the    *)
(* ISR or another caller can see, except while try_arm_timer is between    *)
(* its compare-and-swap and k_timer_start; and in that window the timer is *)
(* stopped, so that it is never restarted under a running countdown.       *)
(***************************************************************************)
TimerFlag ==
  /\ timer_armed = 1 <=> timer_running \/ pc = "arm_peek"
  /\ pc = "arm_peek" => ~timer_running
  /\ timer_running <=> armed_for # NoPacket

(***************************************************************************)
(* No lost wake-up: a staged packet is never left behind a stopped timer,  *)
(* unless the thread is on its way to start it.  The ISR and try_arm_timer *)
(* each decide on what the other has just changed.                         *)
(***************************************************************************)
NoLostWakeup ==
  scheduler_q # <<>> /\ ~timer_running => pc \in {"arm_cas", "arm_peek"}

(***************************************************************************)
(* Arrival order survives the thread and the ISR interleaving: the gate    *)
(* holds an older packet than the ring, the ring is in order, and the      *)
(* packet in hand is the newest.  So no packet is injected twice or after  *)
(* a later one.                                                            *)
(***************************************************************************)
RingOrder ==
  /\ \A i, j \in 1..Len(scheduler_q) : i < j => scheduler_q[i].id < scheduler_q[j].id
  /\ \A i \in 1..Len(scheduler_q) :
       /\ GateId < scheduler_q[i].id
       /\ scheduler_q[i].id <= diag_spi_rx
       /\ InHand => scheduler_q[i].id < pkt.id
  /\ InHand => pkt.id = diag_spi_rx /\ GateId < pkt.id
  /\ GateId <= diag_spi_rx

(***************************************************************************)
(* sensor_emulation_test.h:17-22: from the first injection on the gate is  *)
(* full, and it holds the packet the ISR injected last.                    *)
(***************************************************************************)
GateAlwaysFull ==
  diag_timer_inject > 0 => sensor_update_q # <<>> /\ GateId = diag_last_inject_ts

(***************************************************************************)
(* The counters account for every decoded packet: it was injected, evicted *)
(* or given up, or it is in the ring or in the thread's hand.              *)
(***************************************************************************)
Conservation ==
  diag_spi_rx = diag_timer_inject + diag_sched_q_evict + dropped + Len(scheduler_q)
                  + (IF InHand THEN 1 ELSE 0)

(***************************************************************************)
(* How far the Arrow of Time can be broken.  A packet is injected before   *)
(* its timestamp because the timer ran for one that an eviction took away, *)
(* or because its timestamp was 2^31 us or more ahead of now_us(), so that *)
(* the difference was negative and the delay was clamped; and each         *)
(* eviction and each such timer is the cause of one early packet at most.  *)
(***************************************************************************)
EarlyBounded == early <= diag_sched_q_evict + too_far

(***************************************************************************)
(* The timer never runs past the timestamp it was started for (or one tick *)
(* past now, if that timestamp is over): "fires when now_us() >=           *)
(* packet.timestamp_us", scheduler_test.h:29.                              *)
(***************************************************************************)
OnTime ==
  timer_running =>
    timer_left <= IF armed_for.ts > clock THEN armed_for.ts - clock ELSE 1

(***************************************************************************)
(* The scheduler implements the lossy first-in first-out channel.          *)
(***************************************************************************)
CG == INSTANCE CausalityGate WITH
  received <- diag_spi_rx,
  inside   <- Ids(scheduler_q) \union (IF InHand THEN {pkt.id} ELSE {}),
  served   <- GateId

ImplementsCausalityGate == CG!Spec

(***************************************************************************)
(* The gate catches up: whatever the Pi does next, a decoded packet is     *)
(* served, or a later one is, unless put_overwrite gave a packet up.       *)
(***************************************************************************)
GateCatchesUp ==
  \A n \in 1..MaxFrames :
    diag_spi_rx >= n ~> GateId >= n \/ dropped > 0

================================================================================
