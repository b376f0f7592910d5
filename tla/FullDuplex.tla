------------------------------- MODULE FullDuplex -------------------------------
(***************************************************************************)
(* The full-duplex revision of the scheduler,                              *)
(* test_node/app/src/threads/c/scheduler_fs2.c (not compiled): two receive *)
(* buffers, a counted semaphore, the clock-sync gate, and a counter alarm  *)
(* instead of the kernel timer.                                            *)
(*                                                                         *)
(* A frame is the number of the SPI transfer it came in; 0 is what does    *)
(* not decode.  An interrupt that is due preempts the thread, and ticks    *)
(* pass between any two of its steps.  A transfer takes a tick or more,    *)
(* since an alarm's shortest delay is far shorter than a transfer.         *)
(***************************************************************************)
EXTENDS Integers, Sequences, HilClock

CONSTANTS
  SchedulerQLen,  \* SCHEDULER_Q_LEN
  TimeOf,         \* the timestamp of each frame
  MaxTransfers,   \* bound: SPI transfers
  MaxFaults,      \* bound: calls and transfers that fail
  Horizon         \* bound: the clock is followed no further

ASSUME DuplexAssumption ==
  /\ SchedulerQLen \in Nat /\ SchedulerQLen >= 2
  /\ MaxTransfers \in Nat /\ MaxFaults \in Nat /\ Horizon \in Nat
  /\ TimeOf \in [0..MaxTransfers -> 0..Horizon]

VARIABLES
  pc, pkt,           \* scheduler_thread: its place and its packet,
  next,              \* the packet try_arm_counter has peeked at
  rx_buf,            \* the frame in each receive buffer
  dma_rx_buf,        \* which of them the DMA fills; the other is decoded
  spi,               \* the transfer: "idle", "armed" or "clocked"
  spi_rx_sem,        \* up to 2
  sync_confirmed,
  scheduler_q,
  gate,              \* sensor_update_q: the frame shown, or 0
  alarm_armed,       \* atomic
  alarm_left,        \* ticks until the counter alarm, if one is set
  now,               \* hardware time since boot
  confirming,        \* the one frame in which the Pi sets sync_confirmed
  transfers,         \* history: transfers so far,
  faults,            \* failures so far,
  rearm_failed,      \* whether one was the transfer of step 4,
  alarm_failures,    \* how many were a counter_set_channel_alarm,
  evicted, stale_arms,  \* evictions, and alarms set for a packet that has gone,
  early              \* and the injections before the timestamp

thread == <<pc, pkt, next>>
receive == <<rx_buf, dma_rx_buf, spi, spi_rx_sem, transfers>>
alarm == <<alarm_armed, alarm_left>>
inject == <<scheduler_q, gate, early>>
outcome == <<faults, rearm_failed, alarm_failures>>
causes == <<evicted, stale_arms>>
vars == <<thread, receive, alarm, inject, outcome, sync_confirmed, now, confirming, causes>>

Bufs == {"a", "b"}
Other(b) == IF b = "a" THEN "b" ELSE "a"
AlarmDue == alarm_armed = 1 /\ alarm_left = 0
Locations ==
  {"arm", "retry", "take1", "rearm", "parse", "put", "evict", "reput", "peek", "cas", "take2"}

Init ==
  /\ pc = "arm" /\ pkt = 0 /\ next = 0
  /\ rx_buf = [b \in Bufs |-> 0] /\ dma_rx_buf = "a"
  /\ spi = "idle" /\ spi_rx_sem = 0 /\ transfers = 0
  /\ sync_confirmed = FALSE /\ confirming \in 1..MaxTransfers
  /\ scheduler_q = <<>> /\ gate = 0
  /\ alarm_armed = 0 /\ alarm_left = 0 /\ now = 0
  /\ faults = 0 /\ rearm_failed = FALSE /\ alarm_failures = 0
  /\ evicted = 0 /\ stale_arms = 0 /\ early = 0

\* A call of the thread or the interrupt that returns an error.
Fails == faults < MaxFaults /\ faults' = faults + 1

--------------------------------------------------------------------------------
(***************************************************************************)
(* The receive loop, by the steps its comments number.                     *)
(***************************************************************************)
Thread(from) == pc = from /\ ~AlarmDue

\* 1. arm_spi_transfer, and the sleep before the next try.
Arm ==
  /\ Thread("arm")
  /\ \/ spi' = "armed" /\ pc' = "take1" /\ UNCHANGED faults
     \/ Fails /\ pc' = "retry" /\ UNCHANGED spi
  /\ UNCHANGED <<pkt, next, rx_buf, dma_rx_buf, spi_rx_sem, transfers, alarm, inject,
                 rearm_failed, alarm_failures, sync_confirmed, now, confirming, causes>>

RetryWakeUp ==
  /\ Thread("retry")
  /\ pc' = "arm"
  /\ UNCHANGED <<pkt, next, receive, alarm, inject, outcome, sync_confirmed, now,
                 confirming, causes>>

\* k_sem_take and swap_buffers: steps 2 and 3, and again 8 and 9.
TakeAndSwap(from, to) ==
  /\ Thread(from)
  /\ spi_rx_sem > 0
  /\ spi_rx_sem' = spi_rx_sem - 1
  /\ dma_rx_buf' = Other(dma_rx_buf)
  /\ pc' = to
  /\ UNCHANGED <<pkt, next, rx_buf, spi, transfers, alarm, inject, outcome, sync_confirmed,
                 now, confirming, causes>>

\* Wrong variant, for a mutation run: without the swap of step 9.
Take2NoSwap ==
  /\ Thread("take2")
  /\ spi_rx_sem > 0
  /\ spi_rx_sem' = spi_rx_sem - 1
  /\ pc' = "arm"
  /\ UNCHANGED <<pkt, next, rx_buf, dma_rx_buf, spi, transfers, alarm, inject, outcome,
                 sync_confirmed, now, confirming, causes>>

Take1 == TakeAndSwap("take1", "rearm")
Take2 == TakeAndSwap("take2", "arm")

\* Wrong variant, for a mutation run: the transfer of step 4 is forgotten.
RearmForgotten ==
  /\ Thread("rearm")
  /\ pc' = "parse"
  /\ UNCHANGED <<pkt, next, receive, alarm, inject, outcome, sync_confirmed, now,
                 confirming, causes>>

\* 4. The transfer that runs while this frame is decoded; the thread goes on
\* if it cannot be armed.
Rearm ==
  /\ Thread("rearm")
  /\ \/ spi' = "armed" /\ UNCHANGED <<faults, rearm_failed>>
     \/ Fails /\ rearm_failed' = TRUE /\ UNCHANGED spi
  /\ pc' = "parse"
  /\ UNCHANGED <<pkt, next, rx_buf, dma_rx_buf, spi_rx_sem, transfers, alarm, inject,
                 alarm_failures, sync_confirmed, now, confirming, causes>>

\* 5 to 7b. Length, protobuf and clock-sync gate.
Parse ==
  /\ Thread("parse")
  /\ LET frame == rx_buf[Other(dma_rx_buf)] IN
       IF frame # 0 /\ (sync_confirmed \/ frame = confirming)
         THEN sync_confirmed' = TRUE /\ pkt' = frame /\ pc' = "put"
         ELSE pc' = "take2" /\ UNCHANGED <<sync_confirmed, pkt>>
  /\ UNCHANGED <<next, receive, alarm, inject, outcome, now, confirming, causes>>

(***************************************************************************)
(* 7c. scheduler_q_put_overwrite and try_arm_counter.                      *)
(***************************************************************************)
\* Wrong variant, for a mutation run: the ring has no limit.
QPutNoLimit ==
  /\ Thread("put")
  /\ scheduler_q' = Append(scheduler_q, pkt)
  /\ pc' = "peek"
  /\ UNCHANGED <<pkt, next, receive, alarm, gate, early, outcome, sync_confirmed, now,
                 confirming, causes>>

QPut ==
  /\ Thread("put")
  /\ IF Len(scheduler_q) < SchedulerQLen
       THEN scheduler_q' = Append(scheduler_q, pkt) /\ pc' = "peek"
       ELSE pc' = "evict" /\ UNCHANGED scheduler_q
  /\ UNCHANGED <<pkt, next, receive, alarm, gate, early, outcome, sync_confirmed, now,
                 confirming, causes>>

\* The alarm may have drained the ring meanwhile: the packet is given up.
QEvict ==
  /\ Thread("evict")
  /\ IF scheduler_q # <<>>
       THEN scheduler_q' = Tail(scheduler_q) /\ pc' = "reput" /\ evicted' = evicted + 1
       ELSE pc' = "peek" /\ UNCHANGED <<scheduler_q, evicted>>
  /\ UNCHANGED <<pkt, next, receive, alarm, gate, early, outcome, sync_confirmed, now,
                 confirming, stale_arms>>

\* The result of the second put is ignored.
QReput ==
  /\ Thread("reput")
  /\ scheduler_q' = IF Len(scheduler_q) < SchedulerQLen
                      THEN Append(scheduler_q, pkt) ELSE scheduler_q
  /\ pc' = "peek"
  /\ UNCHANGED <<pkt, next, receive, alarm, gate, early, outcome, sync_confirmed, now,
                 confirming, causes>>

\* The peek is before the compare-and-swap: the alarm may pop what it saw.
ArmPeek ==
  /\ Thread("peek")
  /\ IF scheduler_q = <<>>
       THEN pc' = "take2" /\ UNCHANGED next
       ELSE pc' = "cas" /\ next' = Head(scheduler_q)
  /\ UNCHANGED <<pkt, receive, alarm, inject, outcome, sync_confirmed, now, confirming, causes>>

\* The difference of try_arm_counter between a timestamp and now_us().
DelayUs(n) == Int32(TimeOf[n] - NowUsAt(now))

\* Wrong variant, for a mutation run: the conversion to ticks loses one.
DelayRoundedDown(n) == IF DelayUs(n) < 2 THEN 1 ELSE DelayUs(n) - 1

\* Its clamp: the next tick of the counter.
Delay(n) == IF DelayUs(n) < 1 THEN 1 ELSE DelayUs(n)

\* counter_set_channel_alarm for packet n, once the flag is won; the flag is
\* released if it fails.
SetAlarm(n) ==
  \/ alarm_armed' = 1 /\ alarm_left' = Delay(n) /\ UNCHANGED <<faults, alarm_failures>>
  \/ alarm_armed' = 0 /\ alarm_left' = 0 /\ Fails /\ alarm_failures' = alarm_failures + 1

\* What was peeked at has gone, and the alarm will run for more than a tick or
\* another packet is the head by now.
Stale == IF scheduler_q = <<>> THEN Delay(next) > 1 ELSE Head(scheduler_q) # next

ArmCas ==
  /\ Thread("cas")
  /\ IF alarm_armed = 0
       THEN SetAlarm(next)
       ELSE UNCHANGED <<alarm, faults, alarm_failures>>
  /\ stale_arms' = IF alarm_armed = 0 /\ alarm_armed' = 1 /\ Stale
                     THEN stale_arms + 1 ELSE stale_arms
  /\ pc' = "take2"
  /\ UNCHANGED <<pkt, next, receive, inject, rearm_failed, sync_confirmed, now, confirming,
                 evicted>>

ThreadStep ==
  \/ Arm \/ RetryWakeUp \/ Take1 \/ Rearm \/ Parse \/ QPut \/ QEvict \/ QReput
  \/ ArmPeek \/ ArmCas \/ Take2

--------------------------------------------------------------------------------
(***************************************************************************)
(* The interrupts and the clock.                                           *)
(***************************************************************************)

\* Wrong variant, for a mutation run: the next packet is left to the thread.
AlarmNoRearm ==
  /\ AlarmDue
  /\ alarm_armed' = 0 /\ alarm_left' = 0
  /\ IF scheduler_q = <<>>
       THEN UNCHANGED inject
       ELSE /\ scheduler_q' = Tail(scheduler_q)
            /\ gate' = Head(scheduler_q)
            /\ early' = IF TimeOf[Head(scheduler_q)] > now THEN early + 1 ELSE early
  /\ UNCHANGED <<thread, receive, outcome, sync_confirmed, now, confirming, causes>>

\* Wrong variant, for a mutation run: the delay is of the packet just popped.
AlarmOfPopped ==
  /\ AlarmDue
  /\ IF scheduler_q = <<>>
       THEN alarm_armed' = 0 /\ alarm_left' = 0 /\ UNCHANGED <<inject, faults, alarm_failures>>
       ELSE /\ scheduler_q' = Tail(scheduler_q)
            /\ gate' = Head(scheduler_q)
            /\ early' = IF TimeOf[Head(scheduler_q)] > now THEN early + 1 ELSE early
            /\ SetAlarm(Head(scheduler_q))
  /\ UNCHANGED <<thread, receive, rearm_failed, sync_confirmed, now, confirming, causes>>

\* injection_alarm_cb.
InjectionAlarm ==
  /\ AlarmDue
  /\ IF scheduler_q = <<>>
       THEN alarm_armed' = 0 /\ alarm_left' = 0 /\ UNCHANGED <<inject, faults, alarm_failures>>
       ELSE /\ scheduler_q' = Tail(scheduler_q)
            /\ gate' = Head(scheduler_q)
            /\ early' = IF TimeOf[Head(scheduler_q)] > now THEN early + 1 ELSE early
            /\ IF Len(scheduler_q) = 1
                 THEN alarm_armed' = 0 /\ alarm_left' = 0 /\ UNCHANGED <<faults, alarm_failures>>
                 ELSE SetAlarm(scheduler_q[2])
  /\ UNCHANGED <<thread, receive, rearm_failed, sync_confirmed, now, confirming, causes>>

\* spi_rx_callback.  An error gives the semaphore as well, and leaves in the
\* buffer what it was or a part of a frame.
SpiDone ==
  /\ spi = "clocked"
  /\ transfers < MaxTransfers
  /\ transfers' = transfers + 1
  /\ \/ rx_buf' = [rx_buf EXCEPT ![dma_rx_buf] = transfers + 1] /\ UNCHANGED faults
     \/ Fails /\ rx_buf' \in {rx_buf, [rx_buf EXCEPT ![dma_rx_buf] = 0]}
  /\ spi_rx_sem' = IF spi_rx_sem < 2 THEN spi_rx_sem + 1 ELSE 2
  /\ spi' = "idle"
  /\ UNCHANGED <<thread, dma_rx_buf, alarm, inject, rearm_failed, alarm_failures,
                 sync_confirmed, now, confirming, causes>>

Tick ==
  /\ ~AlarmDue
  /\ now' = IF now < Horizon THEN now + 1 ELSE now
  /\ alarm_left' = IF alarm_left > 0 THEN alarm_left - 1 ELSE 0
  /\ spi' = IF spi = "armed" THEN "clocked" ELSE spi
  /\ UNCHANGED <<thread, rx_buf, dma_rx_buf, spi_rx_sem, transfers, alarm_armed, inject,
                 outcome, sync_confirmed, confirming, causes>>

Next == ThreadStep \/ InjectionAlarm \/ SpiDone \/ Tick

Spec == Init /\ [][Next]_vars

FairSpec == Spec /\ WF_vars(ThreadStep) /\ WF_vars(InjectionAlarm) /\ WF_vars(Tick)

--------------------------------------------------------------------------------
(***************************************************************************)
(* Properties.                                                             *)
(***************************************************************************)

\* Every variable keeps its type.
TypeOK ==
  /\ pc \in Locations
  /\ pkt \in 0..MaxTransfers /\ next \in 0..MaxTransfers
  /\ rx_buf \in [Bufs -> 0..MaxTransfers] /\ dma_rx_buf \in Bufs
  /\ spi \in {"idle", "armed", "clocked"} /\ spi_rx_sem \in 0..2
  /\ transfers \in 0..MaxTransfers
  /\ sync_confirmed \in BOOLEAN /\ confirming \in 1..MaxTransfers
  /\ scheduler_q \in Seq(1..MaxTransfers) /\ Len(scheduler_q) <= SchedulerQLen
  /\ gate \in 0..MaxTransfers
  /\ alarm_armed \in {0, 1} /\ alarm_left \in Nat
  /\ now \in 0..Horizon
  /\ faults \in 0..MaxFaults /\ rearm_failed \in BOOLEAN /\ alarm_failures \in Nat
  /\ evicted \in Nat /\ stale_arms \in Nat /\ early \in Nat

(***************************************************************************)
(* The frame of the transfer that is armed in step 4 is never decoded:     *)
(* step 9 swaps it back to the DMA.  The node stages frames of every other *)
(* transfer only, in order, although a failed transfer may show it one of  *)
(* them twice; and the confirmation of the clock, if it comes in the       *)
(* others, is never seen and every packet is discarded.                    *)
(***************************************************************************)
EveryOtherFrame ==
  LET staged == <<gate>> \o scheduler_q IN
  /\ \A i \in DOMAIN staged : staged[i] # 0 => staged[i] % 2 = 1
  /\ \A i, j \in DOMAIN staged : i < j => staged[i] <= staged[j]
  /\ sync_confirmed => confirming % 2 = 1

(***************************************************************************)
(* The thread waits for a semaphore that nobody gives in one place only,   *)
(* step 8, and only after the arming of step 4 failed (the comment at      *)
(* scheduler_fs2.c:581-582 leaves that case open).                         *)
(***************************************************************************)
StuckOnlyByRearm ==
  pc \in {"take1", "take2"} /\ spi_rx_sem = 0 /\ spi = "idle"
    => pc = "take2" /\ rearm_failed

(***************************************************************************)
(* A packet is early by an eviction or by a stale alarm, at most one for   *)
(* each.  The compare-and-swap lets one caller set the alarm, but not for  *)
(* the packet that is there: the thread peeks, the interrupt takes the     *)
(* packet and frees the flag, and the thread sets the alarm for it.  When  *)
(* that packet was itself early its delay is long, the next frame is       *)
(* staged under it and is early too, and so one eviction can make a chain  *)
(* of early packets.  A stale alarm of a single tick is not counted: it    *)
(* ends before the next frame is staged.                                   *)
(***************************************************************************)
EarlyBounded == early <= evicted + stale_arms

(***************************************************************************)
(* The first link of such a chain is an eviction, or an alarm that could   *)
(* not be set: while there is none of them, no order of peek,              *)
(* compare-and-swap and interrupt shows a packet before its timestamp.     *)
(* This is for a clock that has not started again: the delay of a packet   *)
(* that has gone is long, too, when now_us() has wrapped after it was due. *)
(***************************************************************************)
EarlyOnlyAfterLoss == early > 0 => evicted > 0 \/ alarm_failures > 0

(***************************************************************************)
(* A packet in the ring, or a later one, reaches the gate, unless an alarm *)
(* could not be set: no order of peek, compare-and-swap and interrupt      *)
(* leaves the ring without an alarm.  (A packet that finds the ring full,  *)
(* and drained when it comes to evict, is given up: it is never in it.)    *)
(***************************************************************************)
StagedIsServed ==
  \A n \in 1..MaxTransfers :
    (\E i \in DOMAIN scheduler_q : scheduler_q[i] = n) ~> gate >= n \/ alarm_failures > 0

================================================================================
