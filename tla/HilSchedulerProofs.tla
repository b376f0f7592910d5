-------------------------- MODULE HilSchedulerProofs ---------------------------
(***************************************************************************)
(* Proofs, for every ring length, every set of timestamps and every bound, *)
(* of the safety properties of HilScheduler, and that they and those of    *)
(* SensorServing hold of the node the two make up.                         *)
(***************************************************************************)
EXTENDS HilNode, TLAPS

(***************************************************************************)
(* Facts about the operators.                                              *)
(***************************************************************************)

\* A remainder of a number below the modulus is the number.
LEMMA SmallRemainder ==
  ASSUME NEW m \in Nat \ {0}, NEW x \in 0..m - 1
  PROVE  x % m = x
  OBVIOUS

\* The cast keeps what fits into a word, and gives an integer in any case.
LEMMA Int32Value ==
  ASSUME NEW d \in Int
  PROVE  /\ Int32(d) \in Int
         /\ -HalfWord <= d /\ d < HalfWord => Int32(d) = d
  <1>1. HalfWord \in Nat \ {0} /\ 2 * HalfWord \in Nat \ {0}
    BY WordAssumption
  <1>2. Int32(d) \in Int
    BY <1>1 DEF Int32
  <1>3. ASSUME -HalfWord <= d, d < HalfWord
        PROVE  Int32(d) = d
    <2>1. d + HalfWord \in 0..2 * HalfWord - 1
      BY <1>1, <1>3
    <2>2. (d + HalfWord) % (2 * HalfWord) = d + HalfWord
      BY <1>1, <2>1, SmallRemainder
    <2>3. QED
      BY <1>1, <2>2 DEF Int32
  <1>4. QED
    BY <1>2, <1>3

\* The first difference that does not fit becomes the smallest one that does.
LEMMA Int32Edge == Int32(HalfWord) = -HalfWord
  <1>1. HalfWord \in Nat \ {0} /\ 2 * HalfWord \in Nat \ {0}
    BY WordAssumption
  <1>2. HalfWord + HalfWord = 2 * HalfWord
    BY <1>1
  <1>3. (2 * HalfWord) % (2 * HalfWord) = 0
    <2>1. \A m \in Nat \ {0} : m % m = 0
      OBVIOUS
    <2>2. QED
      BY <1>1, <2>1
  <1>4. QED
    BY <1>1, <1>2, <1>3 DEF Int32

\* A delay is a positive number of ticks, and no shorter than the difference
\* it is computed from, unless that does not fit.
LEMMA DelayType ==
  ASSUME clock \in Nat, NEW ts \in Timestamps
  PROVE  /\ Delay(ts) \in Nat
         /\ Delay(ts) >= 1
         /\ NowUs \in Nat
         /\ NowUs <= clock
         /\ ~TooFar(ts) => ts - NowUs <= Delay(ts)
  <1>1. ts \in Nat
    BY ClockAssumption
  <1>2. NowUs \in Nat /\ NowUs <= clock
    <2>1. ClockWrap \in Nat \ {0}
      BY WordAssumption
    <2>2. QED
      BY <2>1 DEF NowUs, NowUsAt
  <1>3. Int32(ts - NowUs) \in Int /\ ts - NowUs \in Int
    BY <1>1, <1>2, Int32Value
  <1>4. Delay(ts) \in Nat /\ Delay(ts) >= 1
    BY <1>3 DEF Delay
  <1>5. ASSUME ~TooFar(ts)
        PROVE  ts - NowUs <= Delay(ts)
    <2>1. CASE ts - NowUs < 1
      BY <1>3, <1>4, <2>1
    <2>2. CASE ts - NowUs >= 1
      <3>1. -HalfWord <= ts - NowUs /\ ts - NowUs < HalfWord
        BY <1>3, <1>5, <2>2, WordAssumption DEF TooFar
      <3>2. Int32(ts - NowUs) = ts - NowUs
        BY <1>3, <3>1, Int32Value
      <3>3. QED
        BY <1>3, <2>2, <3>2 DEF Delay
    <2>3. QED
      BY <1>3, <2>1, <2>2
  <1>6. QED
    BY <1>2, <1>4, <1>5

\* The head and the tail of a non-empty ring.
LEMMA HeadTail ==
  ASSUME NEW q \in Seq(Packet), q # <<>>
  PROVE  /\ Head(q) \in Packet
         /\ Head(q) = q[1]
         /\ Tail(q) \in Seq(Packet)
         /\ Len(q) \in Nat /\ Len(q) >= 1
         /\ Len(Tail(q)) = Len(q) - 1
         /\ \A i \in 1..Len(Tail(q)) : Tail(q)[i] = q[i + 1]
  OBVIOUS

\* The fields of a packet are natural numbers.
LEMMA PacketFields ==
  ASSUME NEW p \in Packet
  PROVE  p.id \in Nat /\ p.id >= 1 /\ p.id <= MaxFrames /\ p.ts \in Timestamps /\ p.ts \in Nat
  <1>1. p.id \in 1..MaxFrames /\ p.ts \in Timestamps
    BY DEF Packet
  <1>2. p.ts \in Nat
    <2>1. \A ts \in Timestamps : ts \in Nat
      BY ClockAssumption
    <2>2. QED
      BY <1>1, <2>1
  <1>3. QED
    BY <1>1, <1>2, BoundAssumption

\* The delay until the head of a non-empty ring.
LEMMA HeadDelay ==
  ASSUME clock \in 0..MaxTime, NEW q \in Seq(Packet), q # <<>>
  PROVE  Delay(Head(q).ts) \in Nat /\ Delay(Head(q).ts) >= 1
  <1>1. Head(q).ts \in Timestamps
    BY HeadTail DEF Packet
  <1>2. clock \in Nat
    BY ClockAssumption
  <1>3. QED
    BY <1>1, <1>2, DelayType

\* Appending to a ring that has room.
LEMMA AppendToRing ==
  ASSUME NEW q \in Seq(Packet), NEW p \in Packet, Len(q) < QueueLen
  PROVE  /\ Append(q, p) \in Seq(Packet)
         /\ Len(Append(q, p)) = Len(q) + 1
         /\ Len(Append(q, p)) <= QueueLen
  BY QueueLenAssumption

\* Appending to a ring that is not empty keeps its head.
LEMMA AppendKeepsHead ==
  ASSUME NEW q \in Seq(Packet), q # <<>>, NEW p \in Packet \union {NoPacket}
  PROVE  Append(q, p) # <<>> /\ Head(Append(q, p)) = Head(q)
  <1>1. q \in Seq(Packet \union {NoPacket})
    OBVIOUS
  <1>2. QED
    BY <1>1

\* The ISR's purge and put leave one packet in the gate.
LEMMA GatePut == \A p : MsgqPut(<<>>, p, 1) = <<p>>
  BY DEF MsgqPut

\* NoPacket is told apart from every packet by its number.
LEMMA NoPacketNotPacket == NoPacket \notin Packet
  BY BoundAssumption DEF NoPacket, Packet

--------------------------------------------------------------------------------
(***************************************************************************)
(* Type correctness.                                                       *)
(***************************************************************************)
THEOREM TypeCorrect == Spec => []TypeOK
  <1> USE DEF Locations, InHand, queues, kernelTimer, faults, flow, lasts, diag, history
  <1>1. Init => TypeOK
    <2> SUFFICES ASSUME Init PROVE TypeOK
      OBVIOUS
    <2>1. ThreadType
      <3>1. pc = "spi_read" /\ pkt = NoPacket
        BY DEF Init
      <3>2. QED
        BY <3>1, NoPacketNotPacket DEF ThreadType
    <2>2. QueueType
      BY QueueLenAssumption DEF Init, QueueType
    <2>3. ClockType
      BY ClockAssumption DEF Init, ClockType
    <2>4. TimerType
      BY DEF Init, TimerType
    <2>5. CounterType
      BY BoundAssumption DEF Init, CounterType
    <2>6. QED
      BY <2>1, <2>2, <2>3, <2>4, <2>5 DEF TypeOK
  <1>2. TypeOK /\ [Next]_vars => TypeOK'
    <2> SUFFICES ASSUME TypeOK, [Next]_vars
                 PROVE  TypeOK'
      OBVIOUS
    <2>0. ThreadType /\ QueueType /\ ClockType /\ TimerType /\ CounterType
      BY DEF TypeOK
    <2>1. ThreadType'
      <3> USE <2>0 DEF ThreadType
      <3>1. ASSUME NEW ts \in Timestamps, GoodFrame(ts)
            PROVE  ThreadType'
        <4>1. diag_spi_rx + 1 \in 1..MaxFrames
          BY <3>1, BoundAssumption DEF GoodFrame, CounterType
        <4>2. pkt' \in Packet
          BY <3>1, <4>1 DEF GoodFrame, Packet
        <4>3. QED
          BY <3>1, <4>2 DEF GoodFrame
      <3>2. CASE QPut
        BY <3>2, NoPacketNotPacket DEF QPut
      <3>3. CASE QEvict
        BY <3>3, NoPacketNotPacket DEF QEvict
      <3>4. CASE QReput
        BY <3>4, NoPacketNotPacket DEF QReput
      <3>5. CASE SpiReadError \/ SyncFrame \/ BadFrame \/ RetryWakeUp \/ ArmCas \/ ArmPeek
        BY <3>5 DEF SpiReadError, SyncFrame, BadFrame, RetryWakeUp, ArmCas, ArmPeek, vars
      <3>6. CASE Isr \/ Tick \/ UNCHANGED vars
        BY <3>6 DEF Isr, IsrNothingToInject, IsrInject, IsrInjectWith, Tick, vars
      <3>7. QED
        BY <3>1, <3>2, <3>3, <3>4, <3>5, <3>6 DEF Next, Receive, ThreadStep
    <2>2. QueueType'
      <3> USE <2>0 DEF QueueType
      <3>1. CASE QPut
        <4>1. pkt \in Packet /\ sensor_update_q' = sensor_update_q
          BY <2>0, <3>1 DEF QPut, ThreadType
        <4>2. CASE Len(scheduler_q) < QueueLen
          <5>1. scheduler_q' = Append(scheduler_q, pkt)
            BY <3>1, <4>2 DEF QPut
          <5>2. QED
            BY <4>1, <4>2, <5>1, AppendToRing
        <4>3. CASE ~(Len(scheduler_q) < QueueLen)
          <5>1. scheduler_q' = scheduler_q
            BY <3>1, <4>3 DEF QPut
          <5>2. QED
            BY <4>1, <5>1
        <4>4. QED
          BY <4>2, <4>3
      <3>2. CASE QEvict
        <4>1. sensor_update_q' = sensor_update_q
          BY <3>2 DEF QEvict
        <4>2. CASE scheduler_q # <<>>
          <5>1. scheduler_q' = Tail(scheduler_q)
            BY <3>2, <4>2 DEF QEvict
          <5>2. QED
            BY <4>1, <4>2, <5>1, HeadTail, QueueLenAssumption
        <4>3. CASE scheduler_q = <<>>
          <5>1. scheduler_q' = scheduler_q
            BY <3>2, <4>3 DEF QEvict
          <5>2. QED
            BY <4>1, <5>1
        <4>4. QED
          BY <4>2, <4>3
      <3>3. CASE QReput
        <4>1. pkt \in Packet /\ sensor_update_q' = sensor_update_q
          BY <2>0, <3>3 DEF QReput, ThreadType
        <4>2. scheduler_q' = MsgqPut(scheduler_q, pkt, QueueLen)
          BY <3>3 DEF QReput
        <4>3. QED
          BY <4>1, <4>2, AppendToRing DEF MsgqPut
      <3>4. CASE IsrInject
        <4>1. /\ scheduler_q # <<>>
              /\ scheduler_q' = Tail(scheduler_q)
              /\ sensor_update_q' = <<Head(scheduler_q)>>
          BY <3>4, GatePut DEF IsrInject, IsrInjectWith
        <4>2. QED
          BY <4>1, HeadTail, QueueLenAssumption
      <3>5. CASE Receive \/ RetryWakeUp \/ ArmCas \/ ArmPeek
        BY <3>5 DEF Receive, SpiReadError, SyncFrame, BadFrame, GoodFrame, RetryWakeUp,
           ArmCas, ArmPeek, vars
      <3>6. CASE IsrNothingToInject \/ Tick \/ UNCHANGED vars
        BY <3>6 DEF IsrNothingToInject, Tick, vars
      <3>7. QED
        BY <3>1, <3>2, <3>3, <3>4, <3>5, <3>6 DEF Next, ThreadStep, Isr
    <2>3. ClockType'
      <3> USE <2>0 DEF ClockType
      <3>1. CASE ArmPeek /\ scheduler_q # <<>>
        <4>1. Delay(Head(scheduler_q).ts) \in Nat
          BY <3>1, HeadDelay DEF QueueType
        <4>2. QED
          BY <3>1, <4>1 DEF ArmPeek, StartTimer
      <3>2. CASE ArmPeek /\ scheduler_q = <<>>
        BY <3>2 DEF ArmPeek
      <3>3. CASE IsrInject
        <4>1. Tail(scheduler_q) \in Seq(Packet)
          BY <3>3, HeadTail DEF IsrInject, IsrInjectWith, QueueType
        <4>2. CASE Tail(scheduler_q) # <<>>
          <5>1. Delay(Head(Tail(scheduler_q)).ts) \in Nat
            BY <4>1, <4>2, HeadDelay
          <5>2. QED
            BY <3>3, <4>2, <5>1 DEF IsrInject, IsrInjectWith, StartTimer
        <4>3. CASE Tail(scheduler_q) = <<>>
          BY <3>3, <4>3 DEF IsrInject, IsrInjectWith, StopTimer
        <4>4. QED
          BY <4>2, <4>3
      <3>4. CASE IsrNothingToInject
        BY <3>4 DEF IsrNothingToInject, StopTimer
      <3>5. CASE Tick
        BY <3>5, ClockAssumption DEF Tick
      <3>6. CASE Receive \/ (ThreadStep /\ ~ArmPeek) \/ UNCHANGED vars
        BY <3>6 DEF Receive, SpiReadError, SyncFrame, BadFrame, GoodFrame, ThreadStep,
           RetryWakeUp, QPut, QEvict, QReput, ArmCas, vars
      <3>7. QED
        BY <3>1, <3>2, <3>3, <3>4, <3>5, <3>6 DEF Next, ThreadStep, Isr
    <2>4. TimerType'
      <3> USE <2>0 DEF TimerType
      <3>1. CASE ArmPeek
        <4>1. CASE scheduler_q # <<>>
          <5>1. Head(scheduler_q) \in Packet
            BY <4>1, HeadTail DEF QueueType
          <5>2. timer_running' = TRUE /\ armed_for' = Head(scheduler_q)
            BY <3>1, <4>1 DEF ArmPeek, StartTimer
          <5>3. QED
            BY <5>1, <5>2
        <4>2. CASE scheduler_q = <<>>
          BY <3>1, <4>2 DEF ArmPeek
        <4>3. QED
          BY <4>1, <4>2
      <3>2. CASE IsrInject
        <4>1. Tail(scheduler_q) \in Seq(Packet)
          BY <3>2, HeadTail DEF IsrInject, IsrInjectWith, QueueType
        <4>2. CASE Tail(scheduler_q) # <<>>
          <5>1. Head(Tail(scheduler_q)) \in Packet
            BY <4>1, <4>2, HeadTail
          <5>2. timer_running' = TRUE /\ armed_for' = Head(Tail(scheduler_q))
            BY <3>2, <4>2 DEF IsrInject, IsrInjectWith, StartTimer
          <5>3. QED
            BY <5>1, <5>2
        <4>3. CASE Tail(scheduler_q) = <<>>
          BY <3>2, <4>3 DEF IsrInject, IsrInjectWith, StopTimer
        <4>4. QED
          BY <4>2, <4>3
      <3>3. CASE IsrNothingToInject
        BY <3>3 DEF IsrNothingToInject, StopTimer
      <3>4. CASE Receive \/ (ThreadStep /\ ~ArmPeek) \/ Tick \/ UNCHANGED vars
        BY <3>4 DEF Receive, SpiReadError, SyncFrame, BadFrame, GoodFrame, ThreadStep,
           RetryWakeUp, QPut, QEvict, QReput, ArmCas, Tick, vars
      <3>5. QED
        BY <3>1, <3>2, <3>3, <3>4 DEF Next, ThreadStep, Isr
    <2>5. CounterType'
      <3> USE <2>0 DEF CounterType
      <3>1. CASE Receive
        BY <3>1, BoundAssumption
        DEF Receive, SpiReadError, SyncFrame, BadFrame, GoodFrame, vars
      <3>2. CASE QEvict
        BY <3>2 DEF QEvict
      <3>3. CASE IsrInject
        <4>1. Head(scheduler_q).id \in Nat
          <5>1. Head(scheduler_q) \in Packet
            BY <3>3, HeadTail DEF IsrInject, IsrInjectWith, QueueType
          <5>2. QED
            BY <5>1, PacketFields
        <4>2. /\ diag_timer_inject' = diag_timer_inject + 1
              /\ diag_last_inject_ts' = Head(scheduler_q).id
              /\ diag_last_euler_x' = Head(scheduler_q).id
              /\ early' \in {early, early + 1}
              /\ UNCHANGED <<faults, diag_spi_rx, diag_sched_q_evict, diag_last_lidar_mm, dropped>>
          BY <3>3 DEF IsrInject, IsrInjectWith
        <4>3. too_far' \in {too_far, too_far + 1}
          BY <3>3 DEF IsrInject, IsrInjectWith, StartTimer
        <4>4. QED
          BY <4>1, <4>2, <4>3
      <3>4. CASE RetryWakeUp \/ QPut \/ QReput \/ ArmCas \/ ArmPeek
        <4>1. UNCHANGED <<diag, early, dropped>>
          BY <3>4 DEF RetryWakeUp, QPut, QReput, ArmCas, ArmPeek
        <4>2. too_far' \in {too_far, too_far + 1}
          BY <3>4 DEF RetryWakeUp, QPut, QReput, ArmCas, ArmPeek, StartTimer
        <4>3. QED
          BY <4>1, <4>2
      <3>5. CASE IsrNothingToInject \/ Tick \/ UNCHANGED vars
        BY <3>5 DEF IsrNothingToInject, Tick, vars
      <3>6. QED
        BY <3>1, <3>2, <3>3, <3>4, <3>5 DEF Next, ThreadStep, Isr
    <2>6. QED
      BY <2>1, <2>2, <2>3, <2>4, <2>5 DEF TypeOK
  <1>3. QED
    BY <1>1, <1>2, PTL DEF Spec

--------------------------------------------------------------------------------
(***************************************************************************)
(* The flag tells the truth about the timer, and no packet is left behind. *)
(***************************************************************************)

\* The steps that do not touch the flag or the timer do not enter or leave
\* the window of try_arm_timer either.
LEMMA TimerUntouched ==
  ASSUME ThreadType,
         Receive \/ RetryWakeUp \/ QPut \/ QEvict \/ QReput \/ Tick \/ UNCHANGED vars
  PROVE  /\ UNCHANGED <<timer_armed, timer_running, armed_for>>
         /\ pc' = "arm_peek" <=> pc = "arm_peek"
  <1> USE DEF queues, kernelTimer, faults, flow, lasts, diag, history
  <1>1. CASE Receive \/ RetryWakeUp
    BY <1>1 DEF Receive, SpiReadError, SyncFrame, BadFrame, GoodFrame, RetryWakeUp, vars
  <1>2. CASE QPut \/ QEvict \/ QReput
    BY <1>2 DEF QPut, QEvict, QReput
  <1>3. CASE Tick \/ UNCHANGED vars
    BY <1>3 DEF Tick, vars
  <1>4. QED
    BY <1>1, <1>2, <1>3

THEOREM TimerFlagCorrect == Spec => []TimerFlag
  <1> USE DEF queues, kernelTimer, faults, flow, lasts, diag, history
  <1>1. Init => TimerFlag
    BY DEF Init, TimerFlag
  <1>2. TypeOK /\ TimerFlag /\ [Next]_vars => TimerFlag'
    <2> SUFFICES ASSUME TypeOK, TimerFlag, [Next]_vars
                 PROVE  TimerFlag'
      OBVIOUS
    <2>0. ThreadType /\ QueueType
      BY DEF TypeOK
    <2>1. CASE Receive \/ RetryWakeUp \/ QPut \/ QEvict \/ QReput \/ Tick \/ UNCHANGED vars
      BY <2>0, <2>1, TimerUntouched DEF TimerFlag
    <2>2. CASE ArmCas
      BY <2>2 DEF ArmCas, TimerFlag
    <2>3. CASE ArmPeek /\ scheduler_q # <<>>
      <3>1. Head(scheduler_q) # NoPacket
        BY <2>0, <2>3, HeadTail, NoPacketNotPacket DEF QueueType
      <3>2. QED
        BY <2>3, <3>1 DEF ArmPeek, StartTimer, TimerFlag
    <2>4. CASE ArmPeek /\ scheduler_q = <<>>
      BY <2>4 DEF ArmPeek, TimerFlag
    <2>5. CASE IsrNothingToInject
      BY <2>5 DEF IsrNothingToInject, Expired, StopTimer, TimerFlag
    <2>6. CASE IsrInject
      <3>1. pc' # "arm_peek"
        BY <2>6 DEF IsrInject, IsrInjectWith, Expired, TimerFlag
      <3>2. CASE Tail(scheduler_q) # <<>>
        <4>1. Tail(scheduler_q) \in Seq(Packet)
          BY <2>0, <2>6, HeadTail DEF IsrInject, IsrInjectWith, QueueType
        <4>2. Head(Tail(scheduler_q)) # NoPacket
          BY <3>2, <4>1, HeadTail, NoPacketNotPacket
        <4>3. QED
          BY <2>6, <3>1, <3>2, <4>2 DEF IsrInject, IsrInjectWith, StartTimer, TimerFlag
      <3>3. CASE Tail(scheduler_q) = <<>>
        BY <2>6, <3>1, <3>3 DEF IsrInject, IsrInjectWith, StopTimer, TimerFlag
      <3>4. QED
        BY <3>2, <3>3
    <2>7. QED
      BY <2>1, <2>2, <2>3, <2>4, <2>5, <2>6 DEF Next, ThreadStep, Isr
  <1>3. QED
    BY <1>1, <1>2, TypeCorrect, PTL DEF Spec

THEOREM NoLostWakeupCorrect == Spec => []NoLostWakeup
  <1> USE DEF queues, kernelTimer, faults, flow, lasts, diag, history
  <1>1. Init => NoLostWakeup
    BY DEF Init, NoLostWakeup
  <1>2. TypeOK /\ TimerFlag /\ NoLostWakeup /\ [Next]_vars => NoLostWakeup'
    <2> SUFFICES ASSUME TypeOK, TimerFlag, NoLostWakeup, [Next]_vars
                 PROVE  NoLostWakeup'
      OBVIOUS
    <2>1. CASE Receive \/ RetryWakeUp \/ Tick \/ UNCHANGED vars
      BY <2>1 DEF NoLostWakeup, Receive, SpiReadError, SyncFrame, BadFrame, GoodFrame,
         RetryWakeUp, Tick, vars
    <2>2. CASE QPut
      BY <2>2 DEF NoLostWakeup, QPut
    <2>3. CASE QEvict
      BY <2>3 DEF NoLostWakeup, QEvict
    <2>4. CASE QReput
      BY <2>4 DEF NoLostWakeup, QReput
    <2>5. CASE ArmCas
      <3>1. CASE timer_armed = 0
        BY <2>5, <3>1 DEF NoLostWakeup, ArmCas
      <3>2. CASE timer_armed # 0
        <4>1. timer_running
          BY <2>5, <3>2 DEF TypeOK, ClockType, TimerFlag, ArmCas
        <4>2. timer_running'
          BY <2>5, <4>1 DEF ArmCas
        <4>3. QED
          BY <4>2 DEF NoLostWakeup
      <3>3. QED
        BY <3>1, <3>2
    <2>6. CASE ArmPeek
      BY <2>6 DEF NoLostWakeup, ArmPeek, StartTimer
    <2>7. CASE IsrNothingToInject
      BY <2>7 DEF NoLostWakeup, IsrNothingToInject
    <2>8. CASE IsrInject
      BY <2>8 DEF NoLostWakeup, IsrInject, IsrInjectWith, StartTimer
    <2>9. QED
      BY <2>1, <2>2, <2>3, <2>4, <2>5, <2>6, <2>7, <2>8 DEF Next, ThreadStep, Isr
  <1>3. QED
    BY <1>1, <1>2, TypeCorrect, TimerFlagCorrect, PTL DEF Spec

--------------------------------------------------------------------------------
(***************************************************************************)
(* No packet is lost from the books, and the gate is never empty again.    *)
(***************************************************************************)

\* In the second put of put_overwrite the ring has room, because only the ISR
\* can have run since the eviction.
RoomForReput == pc = "q_reput" => Len(scheduler_q) < QueueLen

Books == Conservation /\ RoomForReput

LEMMA BooksInvariant == Spec => []Books
  <1> USE DEF queues, kernelTimer, faults, flow, lasts, diag, history, InHand
  <1>1. Init => Books
    BY DEF Init, Books, Conservation, RoomForReput
  <1>2. TypeOK /\ Books /\ [Next]_vars => Books'
    <2> SUFFICES ASSUME TypeOK, Books, [Next]_vars
                 PROVE  Conservation' /\ RoomForReput'
      BY DEF Books
    <2>0. /\ QueueType /\ CounterType /\ Conservation /\ RoomForReput
          /\ pkt \in Packet \union {NoPacket} /\ (InHand => pkt \in Packet)
          /\ Len(scheduler_q) \in Nat /\ QueueLen \in Nat
      BY QueueLenAssumption DEF TypeOK, ThreadType, QueueType, Books
    <2> USE <2>0
    <2>1. CASE \E ts \in Timestamps : GoodFrame(ts)
      <3>1. /\ diag_spi_rx' = diag_spi_rx + 1 /\ pc = "spi_read" /\ pc' = "q_put"
            /\ UNCHANGED <<diag_timer_inject, diag_sched_q_evict, dropped, scheduler_q>>
        BY <2>1 DEF GoodFrame
      <3>2. QED
        BY <3>1 DEF Conservation, RoomForReput, CounterType
    <2>2. CASE QPut
      <3>1. UNCHANGED <<diag_spi_rx, diag_timer_inject, diag_sched_q_evict, dropped>>
        BY <2>2 DEF QPut
      <3>2. CASE Len(scheduler_q) < QueueLen
        <4>1. pc = "q_put" /\ pc' = "arm_cas" /\ scheduler_q' = Append(scheduler_q, pkt)
          BY <2>2, <3>2 DEF QPut
        <4>2. Len(scheduler_q') = Len(scheduler_q) + 1
          BY <3>2, <4>1, AppendToRing DEF QueueType
        <4>3. QED
          BY <3>1, <4>1, <4>2 DEF Conservation, RoomForReput, CounterType
      <3>3. CASE ~(Len(scheduler_q) < QueueLen)
        <4>1. pc = "q_put" /\ pc' = "q_evict" /\ scheduler_q' = scheduler_q
          BY <2>2, <3>3 DEF QPut
        <4>2. QED
          BY <3>1, <4>1 DEF Conservation, RoomForReput, CounterType
      <3>4. QED
        BY <3>2, <3>3
    <2>3. CASE QEvict
      <3>1. CASE scheduler_q # <<>>
        <4>1. /\ pc = "q_evict" /\ pc' = "q_reput" /\ scheduler_q' = Tail(scheduler_q)
              /\ diag_sched_q_evict' = diag_sched_q_evict + 1
              /\ UNCHANGED <<diag_spi_rx, diag_timer_inject, dropped>>
          BY <2>3, <3>1 DEF QEvict
        <4>2. Len(scheduler_q') = Len(scheduler_q) - 1
          BY <3>1, <4>1, HeadTail DEF QueueType
        <4>3. Conservation'
          <5>1. diag_spi_rx = diag_timer_inject + diag_sched_q_evict + dropped
                                + Len(scheduler_q) + 1
            BY <4>1 DEF Conservation
          <5>2. diag_spi_rx' = diag_timer_inject' + diag_sched_q_evict' + dropped'
                                 + Len(scheduler_q') + 1
            <6>1. /\ diag_timer_inject \in Nat /\ diag_sched_q_evict \in Nat
                  /\ dropped \in Nat /\ Len(scheduler_q) \in Nat
              BY DEF CounterType
            <6>2. /\ diag_sched_q_evict' = diag_sched_q_evict + 1
                  /\ diag_timer_inject' = diag_timer_inject
                  /\ diag_spi_rx' = diag_spi_rx
                  /\ dropped' = dropped
              BY <4>1
            <6> HIDE <2>0
            <6>3. QED
              BY <4>2, <5>1, <6>1, <6>2
          <5>3. QED
            BY <4>1, <5>2 DEF Conservation
        <4>4. RoomForReput'
          BY <4>2 DEF RoomForReput, QueueType
        <4>5. QED
          BY <4>3, <4>4
      <3>2. CASE scheduler_q = <<>>
        <4>1. /\ pc = "q_evict" /\ pc' = "arm_cas" /\ dropped' = dropped + 1
              /\ UNCHANGED <<diag_spi_rx, diag_timer_inject, diag_sched_q_evict, scheduler_q>>
          BY <2>3, <3>2 DEF QEvict
        <4>2. QED
          BY <4>1 DEF Conservation, RoomForReput, CounterType
      <3>3. QED
        BY <3>1, <3>2
    <2>4. CASE QReput
      <3>1. /\ pc = "q_reput" /\ pc' = "arm_cas" /\ scheduler_q' = Append(scheduler_q, pkt)
            /\ UNCHANGED <<diag_spi_rx, diag_timer_inject, diag_sched_q_evict, dropped>>
        BY <2>4 DEF QReput, MsgqPut, RoomForReput
      <3>2. Len(scheduler_q') = Len(scheduler_q) + 1
        BY <3>1, AppendToRing DEF QueueType, RoomForReput
      <3>3. QED
        BY <3>1, <3>2 DEF Conservation, RoomForReput, CounterType
    <2>5. CASE IsrInject
      <3>1. /\ scheduler_q # <<>> /\ scheduler_q' = Tail(scheduler_q)
            /\ diag_timer_inject' = diag_timer_inject + 1
            /\ UNCHANGED <<pc, diag_spi_rx, diag_sched_q_evict, dropped>>
        BY <2>5 DEF IsrInject, IsrInjectWith
      <3>2. Len(scheduler_q') = Len(scheduler_q) - 1
        BY <3>1, HeadTail DEF QueueType
      <3>3. QED
        BY <3>1, <3>2 DEF Conservation, RoomForReput, CounterType
    <2>6. CASE SpiReadError \/ SyncFrame \/ BadFrame \/ RetryWakeUp \/ ArmCas \/ ArmPeek
      BY <2>6 DEF Conservation, RoomForReput, SpiReadError, SyncFrame, BadFrame,
         RetryWakeUp, ArmCas, ArmPeek, vars
    <2>7. CASE IsrNothingToInject \/ Tick \/ UNCHANGED vars
      BY <2>7 DEF Conservation, RoomForReput, IsrNothingToInject, Tick, vars
    <2>8. QED
      BY <2>1, <2>2, <2>3, <2>4, <2>5, <2>6, <2>7 DEF Next, Receive, ThreadStep, Isr
  <1>3. QED
    BY <1>1, <1>2, TypeCorrect, PTL DEF Spec

\* The counters account for every decoded packet, for every ring length and
\* however the ISR interleaves with put_overwrite.
THEOREM ConservationCorrect == Spec => []Conservation
  <1>1. Books => Conservation
    BY DEF Books
  <1>2. QED
    BY <1>1, BooksInvariant, PTL

\* What the injection does to the gate, and that nothing else touches it.
LEMMA GateSteps ==
  ASSUME TypeOK, [Next]_vars
  PROVE  \/ /\ IsrInject
            /\ scheduler_q # <<>>
            /\ scheduler_q' = Tail(scheduler_q)
            /\ sensor_update_q' = <<Head(scheduler_q)>>
            /\ GateId' = Head(scheduler_q).id
            /\ diag_last_inject_ts' = Head(scheduler_q).id
            /\ UNCHANGED <<pc, pkt, diag_spi_rx>>
         \/ UNCHANGED <<sensor_update_q, GateId, diag_last_inject_ts, diag_timer_inject>>
  <1> USE DEF queues, kernelTimer, faults, flow, lasts, diag, history
  <1>1. CASE IsrInject
    <2>1. /\ scheduler_q # <<>>
          /\ scheduler_q' = Tail(scheduler_q)
          /\ sensor_update_q' = <<Head(scheduler_q)>>
          /\ diag_last_inject_ts' = Head(scheduler_q).id
          /\ UNCHANGED <<pc, pkt, diag_spi_rx>>
      BY <1>1, GatePut DEF IsrInject, IsrInjectWith
    <2>2. GateId' = Head(scheduler_q).id
      BY <2>1 DEF GateId
    <2>3. QED
      BY <1>1, <2>1, <2>2
  <1>2. CASE ~IsrInject
    <2>1. UNCHANGED <<sensor_update_q, diag_last_inject_ts, diag_timer_inject>>
      BY <1>2 DEF Next, Receive, ThreadStep, Isr, SpiReadError, SyncFrame, BadFrame,
         GoodFrame, RetryWakeUp, QPut, QEvict, QReput, ArmCas, ArmPeek,
         IsrNothingToInject, Tick, vars
    <2>2. QED
      BY <2>1 DEF GateId
  <1>3. QED
    BY <1>1, <1>2

THEOREM GateAlwaysFullCorrect == Spec => []GateAlwaysFull
  <1>1. Init => GateAlwaysFull
    BY DEF Init, GateAlwaysFull
  <1>2. TypeOK /\ GateAlwaysFull /\ [Next]_vars => GateAlwaysFull'
    <2> SUFFICES ASSUME TypeOK, GateAlwaysFull, [Next]_vars
                 PROVE  GateAlwaysFull'
      OBVIOUS
    <2>1. CASE UNCHANGED <<sensor_update_q, GateId, diag_last_inject_ts, diag_timer_inject>>
      BY <2>1 DEF GateAlwaysFull
    <2>2. CASE /\ sensor_update_q' = <<Head(scheduler_q)>>
               /\ GateId' = Head(scheduler_q).id
               /\ diag_last_inject_ts' = Head(scheduler_q).id
      BY <2>2 DEF GateAlwaysFull
    <2>3. QED
      BY <2>1, <2>2, GateSteps
  <1>3. QED
    BY <1>1, <1>2, TypeCorrect, PTL DEF Spec

--------------------------------------------------------------------------------
(***************************************************************************)
(* Arrival order.                                                          *)
(***************************************************************************)

\* How one step changes what RingOrder is about: it decodes the next packet,
\* appends the packet in hand to the ring, drops the head of the ring, gives
\* the packet in hand up, moves the head to the gate, or leaves all alone.
Decode ==
  /\ ~InHand /\ InHand'
  /\ diag_spi_rx' = diag_spi_rx + 1 /\ pkt'.id = diag_spi_rx + 1
  /\ UNCHANGED <<scheduler_q, GateId>>
Stage ==
  /\ InHand /\ ~InHand'
  /\ scheduler_q' = Append(scheduler_q, pkt)
  /\ UNCHANGED <<diag_spi_rx, GateId>>
DropHead ==
  /\ InHand /\ InHand'
  /\ scheduler_q # <<>> /\ scheduler_q' = Tail(scheduler_q)
  /\ UNCHANGED <<pkt, diag_spi_rx, GateId>>
GiveUp ==
  /\ InHand /\ ~InHand'
  /\ scheduler_q = <<>>
  /\ UNCHANGED <<scheduler_q, diag_spi_rx, GateId>>
Inject ==
  /\ scheduler_q # <<>> /\ scheduler_q' = Tail(scheduler_q)
  /\ GateId' = Head(scheduler_q).id
  /\ UNCHANGED <<pkt, InHand, diag_spi_rx>>
OrderStutter ==
  UNCHANGED <<scheduler_q, pkt, InHand, diag_spi_rx, GateId>>

LEMMA OrderSteps ==
  ASSUME TypeOK, RoomForReput, [Next]_vars
  PROVE  Decode \/ Stage \/ DropHead \/ GiveUp \/ Inject \/ OrderStutter
  <1> USE DEF queues, kernelTimer, faults, flow, lasts, diag, history
  <1>1. ASSUME NEW ts \in Timestamps, GoodFrame(ts)
        PROVE  Decode
    BY <1>1 DEF GoodFrame, Decode, InHand, GateId
  <1>2. CASE QPut
    BY <1>2 DEF QPut, Stage, OrderStutter, InHand, GateId
  <1>3. CASE QEvict
    BY <1>3 DEF QEvict, DropHead, GiveUp, InHand, GateId
  <1>4. CASE QReput
    BY <1>4 DEF QReput, RoomForReput, MsgqPut, Stage, InHand, GateId
  <1>5. CASE IsrInject
    <2>1. /\ scheduler_q # <<>> /\ scheduler_q' = Tail(scheduler_q)
          /\ sensor_update_q' = <<Head(scheduler_q)>>
          /\ UNCHANGED <<pc, pkt, diag_spi_rx>>
      BY <1>5, GatePut DEF IsrInject, IsrInjectWith
    <2>2. GateId' = Head(scheduler_q).id
      BY <2>1 DEF GateId
    <2>3. InHand' = InHand
      BY <2>1 DEF InHand
    <2>4. QED
      BY <2>1, <2>2, <2>3 DEF Inject
  <1>6. CASE SpiReadError \/ SyncFrame \/ BadFrame \/ RetryWakeUp \/ ArmCas \/ ArmPeek
    BY <1>6 DEF SpiReadError, SyncFrame, BadFrame, RetryWakeUp, ArmCas, ArmPeek, vars,
       OrderStutter, InHand, GateId
  <1>7. CASE IsrNothingToInject \/ Tick \/ UNCHANGED vars
    BY <1>7 DEF IsrNothingToInject, Tick, vars, OrderStutter, InHand, GateId
  <1>8. QED
    BY <1>1, <1>2, <1>3, <1>4, <1>5, <1>6, <1>7 DEF Next, Receive, ThreadStep, Isr

\* The packets reach the gate in arrival order, for every ring length.
THEOREM RingOrderCorrect == Spec => []RingOrder
  <1>1. Init => RingOrder
    BY DEF Init, RingOrder, InHand, GateId
  <1>2. TypeOK /\ RoomForReput /\ RingOrder /\ [Next]_vars => RingOrder'
    <2> SUFFICES ASSUME TypeOK, RoomForReput, RingOrder, [Next]_vars
                 PROVE  RingOrder'
      OBVIOUS
    <2>0. /\ scheduler_q \in Seq(Packet) /\ Len(scheduler_q) \in Nat
          /\ InHand => pkt \in Packet
          /\ diag_spi_rx \in Nat
      BY BoundAssumption DEF TypeOK, QueueType, ThreadType, CounterType
    <2>1. \A i \in 1..Len(scheduler_q) : scheduler_q[i].id \in Nat
      <3>1. \A i \in 1..Len(scheduler_q) : scheduler_q[i] \in Packet
        BY <2>0
      <3>2. QED
        BY <3>1, PacketFields
    <2>2. GateId \in Nat
      <3>1. CASE sensor_update_q = <<>>
        BY <3>1 DEF GateId
      <3>2. CASE sensor_update_q # <<>>
        <4>1. sensor_update_q[1] \in Packet
          BY <3>2 DEF TypeOK, QueueType
        <4>2. QED
          BY <3>2, <4>1, PacketFields DEF GateId
      <3>3. QED
        BY <3>1, <3>2
    <2>3. CASE Decode
      <3>1. \A i \in 1..Len(scheduler_q) : scheduler_q[i].id < diag_spi_rx + 1
        BY <2>0, <2>1 DEF RingOrder
      <3>2. GateId < diag_spi_rx + 1
        BY <2>0, <2>2 DEF RingOrder
      <3>3. /\ diag_spi_rx' = diag_spi_rx + 1 /\ pkt'.id = diag_spi_rx + 1
            /\ scheduler_q' = scheduler_q /\ GateId' = GateId
        BY <2>3 DEF Decode
      <3>4. \A i, j \in 1..Len(scheduler_q') :
              i < j => scheduler_q'[i].id < scheduler_q'[j].id
        BY <3>3 DEF RingOrder
      <3>5. \A i \in 1..Len(scheduler_q') :
              /\ GateId' < scheduler_q'[i].id
              /\ scheduler_q'[i].id <= diag_spi_rx'
              /\ scheduler_q'[i].id < pkt'.id
        BY <2>0, <2>1, <3>1, <3>3 DEF RingOrder
      <3>6. pkt'.id = diag_spi_rx' /\ GateId' < pkt'.id /\ GateId' <= diag_spi_rx'
        BY <2>0, <2>2, <3>2, <3>3
      <3>7. QED
        BY <3>4, <3>5, <3>6 DEF RingOrder
    <2>4. CASE Stage
      <3>1. /\ Len(scheduler_q') = Len(scheduler_q) + 1
            /\ \A i \in 1..Len(scheduler_q) : scheduler_q'[i] = scheduler_q[i]
            /\ scheduler_q'[Len(scheduler_q) + 1] = pkt
        BY <2>0, <2>4 DEF Stage
      <3>2. QED
        BY <2>0, <2>4, <3>1 DEF RingOrder, Stage
    <2>5. CASE DropHead
      <3>1. /\ Len(scheduler_q') = Len(scheduler_q) - 1
            /\ \A i \in 1..Len(scheduler_q') : scheduler_q'[i] = scheduler_q[i + 1]
        BY <2>0, <2>5, HeadTail DEF DropHead
      <3>2. QED
        BY <2>0, <2>5, <3>1 DEF RingOrder, DropHead
    <2>6. CASE GiveUp
      BY <2>0, <2>6 DEF RingOrder, GiveUp
    <2>7. CASE Inject
      <3>1. /\ Len(scheduler_q') = Len(scheduler_q) - 1
            /\ \A i \in 1..Len(scheduler_q') : scheduler_q'[i] = scheduler_q[i + 1]
            /\ GateId' = scheduler_q[1].id
            /\ 1 \in 1..Len(scheduler_q)
        BY <2>0, <2>7, HeadTail DEF Inject
      <3>2. QED
        BY <2>0, <2>7, <3>1 DEF RingOrder, Inject
    <2>8. CASE OrderStutter
      BY <2>8 DEF RingOrder, OrderStutter
    <2>9. QED
      BY <2>3, <2>4, <2>5, <2>6, <2>7, <2>8, OrderSteps
  <1>3. Books => RoomForReput
    BY DEF Books
  <1>4. QED
    BY <1>1, <1>2, <1>3, TypeCorrect, BooksInvariant, PTL DEF Spec

--------------------------------------------------------------------------------
(***************************************************************************)
(* The refinement of CausalityGate.                                        *)
(***************************************************************************)

\* The numbers in a ring after an append.
LEMMA IdsAppend ==
  ASSUME NEW q \in Seq(Packet), NEW p \in Packet
  PROVE  Ids(Append(q, p)) = Ids(q) \union {p.id}
  <1>1. /\ DOMAIN Append(q, p) = 1..Len(q) + 1 /\ DOMAIN q = 1..Len(q) /\ Len(q) \in Nat
        /\ \A i \in 1..Len(q) : Append(q, p)[i] = q[i]
        /\ Append(q, p)[Len(q) + 1] = p
    OBVIOUS
  <1>2. \A i : i \in 1..Len(q) + 1 <=> i \in 1..Len(q) \/ i = Len(q) + 1
    BY <1>1
  <1>3. ASSUME NEW n \in Ids(Append(q, p))
        PROVE  n \in Ids(q) \union {p.id}
    <2>1. PICK i \in 1..Len(q) + 1 : n = Append(q, p)[i].id
      BY <1>1 DEF Ids
    <2>2. CASE i \in 1..Len(q)
      BY <1>1, <2>1, <2>2 DEF Ids
    <2>3. CASE i = Len(q) + 1
      BY <1>1, <2>1, <2>3
    <2>4. QED
      BY <1>2, <2>2, <2>3
  <1>4. ASSUME NEW n \in Ids(q) \union {p.id}
        PROVE  n \in Ids(Append(q, p))
    <2>1. CASE n \in Ids(q)
      <3>1. PICK i \in 1..Len(q) : n = q[i].id
        BY <1>1, <2>1 DEF Ids
      <3>2. n = Append(q, p)[i].id /\ i \in 1..Len(q) + 1
        BY <1>1, <1>2, <3>1
      <3>3. QED
        BY <1>1, <3>2 DEF Ids
    <2>2. CASE n = p.id
      <3>1. n = Append(q, p)[Len(q) + 1].id /\ Len(q) + 1 \in 1..Len(q) + 1
        BY <1>1, <1>2, <2>2
      <3>2. QED
        BY <1>1, <3>1 DEF Ids
    <2>3. QED
      BY <1>4, <2>1, <2>2
  <1>5. QED
    BY <1>3, <1>4

\* The numbers in an ordered ring after its head is gone; the head was the
\* smallest.
LEMMA IdsTail ==
  ASSUME NEW q \in Seq(Packet), q # <<>>,
         \A i, j \in 1..Len(q) : i < j => q[i].id < q[j].id
  PROVE  /\ Head(q).id \in Ids(q)
         /\ \A n \in Ids(q) : Head(q).id <= n
         /\ Ids(Tail(q)) = Ids(q) \ {Head(q).id}
  <1>1. /\ DOMAIN q = 1..Len(q) /\ DOMAIN Tail(q) = 1..Len(q) - 1
        /\ Len(q) \in Nat /\ Len(q) >= 1
        /\ Head(q) = q[1]
        /\ \A i \in 1..Len(q) - 1 : Tail(q)[i] = q[i + 1]
    <2>1. Tail(q) \in Seq(Packet) /\ Len(Tail(q)) = Len(q) - 1
      BY HeadTail
    <2>2. DOMAIN Tail(q) = 1..Len(q) - 1
      BY <2>1
    <2>3. QED
      BY <2>2, HeadTail
  <1>2. \A i \in 1..Len(q) : q[i].id \in Nat
    <2>1. \A i \in 1..Len(q) : q[i] \in Packet
      OBVIOUS
    <2>2. QED
      BY <2>1, PacketFields
  <1>3. 1 \in 1..Len(q)
    BY <1>1
  <1>4. \A i \in 1..Len(q) : i = 1 \/ q[1].id < q[i].id
    BY <1>1, <1>3
  <1>5. Head(q).id \in Ids(q)
    BY <1>1, <1>3 DEF Ids
  <1>6. \A n \in Ids(q) : Head(q).id <= n
    <2> TAKE n \in Ids(q)
    <2>1. PICK i \in 1..Len(q) : n = q[i].id
      BY <1>1 DEF Ids
    <2>2. q[1].id \in Nat /\ q[i].id \in Nat /\ (i = 1 \/ q[1].id < q[i].id)
      BY <1>2, <1>3, <1>4
    <2>3. q[1].id <= q[i].id
      BY <2>2
    <2>4. QED
      BY <1>1, <2>1, <2>3
  <1>7. ASSUME NEW n \in Ids(Tail(q))
        PROVE  n \in Ids(q) \ {Head(q).id}
    <2>1. PICK i \in 1..Len(q) - 1 : n = Tail(q)[i].id
      BY <1>1 DEF Ids
    <2>2. i + 1 \in 1..Len(q) /\ i + 1 # 1
      BY <1>1
    <2>3. n = q[i + 1].id
      BY <1>1, <2>1
    <2>4. q[1].id < q[i + 1].id /\ q[1].id \in Nat
      BY <1>2, <1>3, <1>4, <2>2
    <2>5. n # Head(q).id
      BY <1>1, <2>3, <2>4
    <2>6. n \in Ids(q)
      BY <1>1, <2>2, <2>3 DEF Ids
    <2>7. QED
      BY <2>5, <2>6
  <1>8. ASSUME NEW n \in Ids(q) \ {Head(q).id}
        PROVE  n \in Ids(Tail(q))
    <2>1. PICK i \in 1..Len(q) : n = q[i].id
      BY <1>1 DEF Ids
    <2>2. i # 1
      BY <1>1, <2>1
    <2>3. i - 1 \in 1..Len(q) - 1 /\ (i - 1) + 1 = i
      BY <1>1, <2>2
    <2>4. n = Tail(q)[i - 1].id
      BY <1>1, <2>1, <2>3
    <2>5. QED
      BY <1>1, <2>3, <2>4 DEF Ids
  <1>9. QED
    BY <1>5, <1>6, <1>7, <1>8

\* The packets the node still holds, and the steps of the channel.
Inside == Ids(scheduler_q) \union (IF InHand THEN {pkt.id} ELSE {})

LEMMA ChannelStep ==
  ASSUME TypeOK, RoomForReput, RingOrder, [Next]_vars
  PROVE  [CG!Next]_(CG!cgVars)
  <1>0. /\ scheduler_q \in Seq(Packet)
        /\ InHand => pkt \in Packet
    BY DEF TypeOK, QueueType, ThreadType
  <1>1. CASE Decode
    <2>1. ~InHand /\ InHand' /\ Ids(scheduler_q)' = Ids(scheduler_q)
      BY <1>1 DEF Decode, Ids
    <2>2. Inside' = Inside \union {diag_spi_rx + 1}
      BY <1>1, <2>1 DEF Inside, Decode
    <2>3. diag_spi_rx' = diag_spi_rx + 1 /\ GateId' = GateId
      BY <1>1 DEF Decode
    <2>4. CG!Receive
      BY <2>2, <2>3 DEF CG!Receive, Inside
    <2>5. QED
      BY <2>4 DEF CG!Next
  <1>2. CASE Stage
    <2>1. InHand /\ ~InHand' /\ UNCHANGED <<diag_spi_rx, GateId>>
      BY <1>2 DEF Stage
    <2>2. Ids(scheduler_q)' = Ids(scheduler_q) \union {pkt.id}
      BY <1>0, <1>2, IdsAppend DEF Stage
    <2>3. Inside' = Inside
      BY <2>1, <2>2 DEF Inside
    <2>4. QED
      BY <2>1, <2>3 DEF CG!cgVars, Inside
  <1>3. CASE DropHead
    <2> DEFINE n == Head(scheduler_q).id
    <2>1. InHand /\ InHand' /\ scheduler_q # <<>> /\ UNCHANGED <<pkt, diag_spi_rx, GateId>>
      BY <1>3 DEF DropHead
    <2>2. /\ n \in Ids(scheduler_q)
          /\ \A m \in Ids(scheduler_q) : n <= m
          /\ Ids(scheduler_q)' = Ids(scheduler_q) \ {n}
      BY <1>0, <1>3, IdsTail DEF RingOrder, DropHead
    <2>3. n < pkt.id /\ n \in Nat /\ pkt.id \in Nat
      <3>1. Head(scheduler_q) = scheduler_q[1] /\ 1 \in 1..Len(scheduler_q)
        BY <1>0, <2>1, HeadTail
      <3>2. Head(scheduler_q) \in Packet
        BY <1>0, <2>1, HeadTail
      <3>3. n < pkt.id
        BY <2>1, <3>1 DEF RingOrder
      <3>4. QED
        BY <1>0, <2>1, <3>2, <3>3, PacketFields
    <2>4. n <= pkt.id /\ n # pkt.id
      BY <2>3
    <2>5. n \in Inside /\ \A m \in Inside : n <= m
      BY <2>1, <2>2, <2>4 DEF Inside
    <2>6. Inside' = Inside \ {n}
      BY <2>1, <2>2, <2>4 DEF Inside
    <2>7. CG!Lose(n)
      BY <2>1, <2>5, <2>6 DEF CG!Lose, CG!Oldest, Inside
    <2>8. QED
      BY <2>5, <2>7 DEF CG!Next, Inside
  <1>4. CASE GiveUp
    <2>1. /\ InHand /\ ~InHand' /\ scheduler_q = <<>>
          /\ UNCHANGED <<scheduler_q, diag_spi_rx, GateId>>
      BY <1>4 DEF GiveUp
    <2>2. Ids(scheduler_q) = {} /\ Ids(scheduler_q)' = {}
      BY <2>1 DEF Ids
    <2>3. Inside = {pkt.id} /\ Inside' = {}
      BY <2>1, <2>2 DEF Inside
    <2>4. pkt.id \in Nat
      BY <1>0, <2>1, PacketFields
    <2>5. CG!Lose(pkt.id)
      BY <2>1, <2>3, <2>4 DEF CG!Lose, CG!Oldest, Inside
    <2>6. QED
      BY <2>3, <2>5 DEF CG!Next, Inside
  <1>5. CASE Inject
    <2> DEFINE n == Head(scheduler_q).id
    <2>1. /\ scheduler_q # <<>> /\ GateId' = n
          /\ UNCHANGED <<pkt, InHand, diag_spi_rx>>
      BY <1>5 DEF Inject
    <2>2. /\ n \in Ids(scheduler_q)
          /\ \A m \in Ids(scheduler_q) : n <= m
          /\ Ids(scheduler_q)' = Ids(scheduler_q) \ {n}
      BY <1>0, <1>5, IdsTail DEF RingOrder, Inject
    <2>3. InHand => n <= pkt.id /\ n # pkt.id
      <3>1. Head(scheduler_q) = scheduler_q[1] /\ 1 \in 1..Len(scheduler_q)
        BY <1>0, <2>1, HeadTail
      <3>2. Head(scheduler_q) \in Packet
        BY <1>0, <2>1, HeadTail
      <3>3. InHand => n < pkt.id
        BY <2>1, <3>1 DEF RingOrder
      <3>4. InHand => n \in Nat /\ pkt.id \in Nat
        BY <1>0, <3>2, PacketFields
      <3>5. QED
        BY <3>3, <3>4
    <2>4. n \in Inside /\ \A m \in Inside : n <= m
      BY <2>2, <2>3 DEF Inside
    <2>5. Inside' = Inside \ {n}
      BY <2>1, <2>2, <2>3 DEF Inside
    <2>6. CG!Serve(n)
      BY <2>1, <2>4, <2>5 DEF CG!Serve, CG!Oldest, Inside
    <2>7. QED
      BY <2>4, <2>6 DEF CG!Next, Inside
  <1>6. CASE OrderStutter
    <2>1. UNCHANGED <<diag_spi_rx, GateId>> /\ Inside' = Inside
      BY <1>6 DEF OrderStutter, Inside, Ids
    <2>2. QED
      BY <2>1 DEF CG!cgVars, Inside
  <1>7. QED
    BY <1>1, <1>2, <1>3, <1>4, <1>5, <1>6, OrderSteps

\* The scheduler, the ISR and their ring implement the lossy first-in
\* first-out channel, for every ring length and every set of timestamps.
THEOREM SchedulerImplementsGate == Spec => ImplementsCausalityGate
  <1>1. Init => CG!Init
    BY DEF Init, CG!Init, Ids, InHand, GateId
  <1>2. TypeOK /\ RoomForReput /\ RingOrder /\ [Next]_vars => [CG!Next]_(CG!cgVars)
    BY ChannelStep
  <1>3. Books => RoomForReput
    BY DEF Books
  <1>4. QED
    BY <1>1, <1>2, <1>3, TypeCorrect, BooksInvariant, RingOrderCorrect, PTL
    DEF Spec, CG!Spec, ImplementsCausalityGate

--------------------------------------------------------------------------------
(***************************************************************************)
(* The timer and the clock.                                                *)
(***************************************************************************)

\* How one step changes the countdown: it starts the timer for the packet p,
\* stops it, lets time pass, or leaves the clock and the timer alone.
Start(p) ==
  /\ clock' = clock /\ timer_running' = TRUE
  /\ timer_left' = Delay(p.ts) /\ armed_for' = p
  /\ too_far' = IF TooFar(p.ts) THEN too_far + 1 ELSE too_far
Stop == clock' = clock /\ timer_running' = FALSE /\ too_far' = too_far
Hold == UNCHANGED <<clock, timer_running, timer_left, armed_for, too_far>>

LEMMA CountdownSteps ==
  ASSUME TypeOK, [Next]_vars
  PROVE  (\E p \in Packet : Start(p)) \/ Stop \/ Tick \/ Hold
  <1> USE DEF queues, kernelTimer, faults, flow, lasts, diag, history
  <1>0. scheduler_q \in Seq(Packet)
    BY DEF TypeOK, QueueType
  <1>1. CASE ArmPeek
    <2>1. CASE scheduler_q # <<>>
      <3>1. Head(scheduler_q) \in Packet
        BY <1>0, <2>1, HeadTail
      <3>2. Start(Head(scheduler_q))
        BY <1>1, <2>1 DEF ArmPeek, StartTimer, Start
      <3>3. QED
        BY <3>1, <3>2
    <2>2. CASE scheduler_q = <<>>
      BY <1>1, <2>2 DEF ArmPeek, Hold
    <2>3. QED
      BY <2>1, <2>2
  <1>2. CASE IsrInject
    <2>1. CASE Tail(scheduler_q) # <<>>
      <3>1. Tail(scheduler_q) \in Seq(Packet)
        BY <1>0, <1>2, HeadTail DEF IsrInject, IsrInjectWith
      <3>2. Head(Tail(scheduler_q)) \in Packet
        BY <2>1, <3>1, HeadTail
      <3>3. Start(Head(Tail(scheduler_q)))
        BY <1>2, <2>1 DEF IsrInject, IsrInjectWith, StartTimer, Start
      <3>4. QED
        BY <3>2, <3>3
    <2>2. CASE Tail(scheduler_q) = <<>>
      BY <1>2, <2>2 DEF IsrInject, IsrInjectWith, StopTimer, Stop
    <2>3. QED
      BY <2>1, <2>2
  <1>3. CASE IsrNothingToInject
    BY <1>3 DEF IsrNothingToInject, StopTimer, Stop
  <1>4. CASE Receive \/ (ThreadStep /\ ~ArmPeek) \/ UNCHANGED vars
    BY <1>4 DEF Receive, SpiReadError, SyncFrame, BadFrame, GoodFrame, ThreadStep,
       RetryWakeUp, QPut, QEvict, QReput, ArmCas, vars, Hold
  <1>5. QED
    BY <1>1, <1>2, <1>3, <1>4 DEF Next, ThreadStep, Isr

\* While now_us() does not wrap, and no timestamp is more than a half word in
\* the past, the timer never runs past the timestamp it was started for, or one
\* tick if that is over.
THEOREM OnTimeCorrect ==
  ASSUME MaxTime < ClockWrap, MaxTime <= HalfWord
  PROVE  Spec => []OnTime
  <1>1. Init => OnTime
    BY DEF Init, OnTime
  <1>2. TypeOK /\ TimerFlag /\ OnTime /\ [Next]_vars => OnTime'
    <2> SUFFICES ASSUME TypeOK, TimerFlag, OnTime, [Next]_vars
                 PROVE  OnTime'
      OBVIOUS
    <2>0. clock \in Nat /\ clock <= MaxTime /\ timer_left \in Nat /\ MaxTime \in Nat
      BY ClockAssumption DEF TypeOK, ClockType
    <2>1. ASSUME NEW p \in Packet, Start(p)
          PROVE  OnTime'
      <3>1. p.ts \in Nat
        BY <2>1, PacketFields
      <3>2. NowUs = clock
        <4>1. clock \in 0..ClockWrap - 1 /\ ClockWrap \in Nat \ {0}
          BY <2>0, WordAssumption
        <4>2. QED
          BY <4>1, SmallRemainder DEF NowUs, NowUsAt
      <3>3. Delay(p.ts) <= IF p.ts > clock THEN p.ts - clock ELSE 1
        <4>1. p.ts <= MaxTime
          <5>1. \A ts \in Timestamps : ts <= MaxTime
            BY ClockAssumption
          <5>2. QED
            BY <2>1, <5>1, PacketFields
        <4>2. p.ts - clock \in Int /\ -HalfWord <= p.ts - clock /\ p.ts - clock <= HalfWord
          BY <2>0, <3>1, <4>1, WordAssumption
        <4>3. CASE p.ts - clock < HalfWord
          <5>1. Int32(p.ts - clock) = p.ts - clock
            BY <4>2, <4>3, Int32Value
          <5>2. QED
            BY <2>0, <3>1, <3>2, <5>1 DEF Delay
        <4>4. CASE p.ts - clock = HalfWord
          <5>1. Int32(p.ts - clock) = -HalfWord
            BY <4>4, Int32Edge
          <5>2. Delay(p.ts) = 1
            BY <3>2, <5>1, WordAssumption DEF Delay
          <5>3. QED
            BY <2>0, <3>1, <4>4, <5>2, WordAssumption
        <4>5. QED
          BY <4>2, <4>3, <4>4, WordAssumption
      <3>4. QED
        BY <2>0, <2>1, <3>1, <3>3 DEF OnTime, Start
    <2>2. CASE Stop
      BY <2>2 DEF OnTime, Stop
    <2>3. CASE Tick /\ timer_running
      <3>1. armed_for \in Packet
        BY <2>3 DEF TypeOK, TimerType, TimerFlag
      <3>2. armed_for.ts \in Nat /\ armed_for.ts <= MaxTime
        <4>1. armed_for.ts \in Timestamps /\ armed_for.ts \in Nat
          BY <3>1, PacketFields
        <4>2. \A ts \in Timestamps : ts <= MaxTime
          BY ClockAssumption
        <4>3. QED
          BY <4>1, <4>2
      <3>3. timer_left <= IF armed_for.ts > clock THEN armed_for.ts - clock ELSE 1
        BY <2>3 DEF OnTime
      <3>4. /\ clock' = IF clock < MaxTime THEN clock + 1 ELSE clock
            /\ timer_left' = IF timer_left > 0 THEN timer_left - 1 ELSE 0
            /\ armed_for' = armed_for
        BY <2>3 DEF Tick
      <3>5. timer_left' <= IF armed_for.ts > clock' THEN armed_for.ts - clock' ELSE 1
        BY <2>0, <3>2, <3>3, <3>4
      <3>6. QED
        BY <3>4, <3>5 DEF OnTime
    <2>4. CASE Tick /\ ~timer_running
      BY <2>4 DEF Tick, OnTime
    <2>5. CASE Hold
      BY <2>5 DEF OnTime, Hold
    <2>6. QED
      BY <2>1, <2>2, <2>3, <2>4, <2>5, CountdownSteps
  <1>3. QED
    BY <1>1, <1>2, TypeCorrect, TimerFlagCorrect, PTL DEF Spec

\* The timer runs for a packet that is not the oldest any more.
Orphaned ==
  timer_running /\ (scheduler_q = <<>> \/ Head(scheduler_q) # armed_for)

\* It will expire before the timestamp it was started for.
TooSoon == timer_running /\ armed_for.ts > clock + timer_left

\* EarlyBounded with the early packet that is still to come: the next one is
\* early only if the timer that runs has a cause, which is not used up yet.
EarlyInv ==
  /\ EarlyBounded
  /\ Orphaned \/ TooSoon => early + 1 <= diag_sched_q_evict + too_far

\* A timer that will expire too soon was started for a timestamp too far ahead,
\* wrapped clock or not.
LEMMA StartTooSoon ==
  ASSUME TypeOK, NEW p \in Packet, Start(p)
  PROVE  /\ too_far' \in Nat /\ too_far <= too_far'
         /\ TooSoon' => too_far' = too_far + 1
  <1>0. too_far \in Nat /\ too_far' \in {too_far, too_far + 1}
    BY DEF TypeOK, CounterType, Start
  <1>1. p.ts \in Timestamps /\ p.ts \in Nat /\ clock \in Nat
    BY PacketFields, ClockAssumption DEF TypeOK, ClockType
  <1>2. SUFFICES ASSUME ~TooFar(p.ts)
                 PROVE  ~TooSoon'
    BY <1>0 DEF Start
  <1>3. /\ p.ts - NowUs <= Delay(p.ts) /\ Delay(p.ts) \in Nat
        /\ NowUs <= clock /\ NowUs \in Nat
    BY <1>1, <1>2, DelayType
  <1>4. p.ts <= clock + Delay(p.ts)
    BY <1>1, <1>3
  <1>5. ~(p.ts > clock + Delay(p.ts))
    BY <1>1, <1>3, <1>4
  <1>6. QED
    BY <1>5 DEF Start, TooSoon

\* Time makes none expire too soon: what passes of the delay passes of the
\* time to the timestamp, which comes before the clock stops.
LEMMA TickTooSoon ==
  ASSUME TypeOK, TimerFlag, Tick
  PROVE  TooSoon' => TooSoon
  <1>1. clock \in Nat /\ clock <= MaxTime /\ timer_left \in Nat /\ MaxTime \in Nat
    BY ClockAssumption DEF TypeOK, ClockType
  <1>2. SUFFICES ASSUME timer_running, ~(armed_for.ts > clock + timer_left)
                 PROVE  ~(armed_for.ts > clock + timer_left)'
    BY DEF Tick, TooSoon
  <1>3. armed_for.ts \in Nat /\ armed_for.ts <= MaxTime
    <2>1. armed_for \in Packet
      BY <1>2 DEF TypeOK, TimerType, TimerFlag
    <2>2. armed_for.ts \in Timestamps /\ armed_for.ts \in Nat
      BY <2>1, PacketFields
    <2>3. \A ts \in Timestamps : ts <= MaxTime
      BY ClockAssumption
    <2>4. QED
      BY <2>2, <2>3
  <1>4. /\ clock' = IF clock < MaxTime THEN clock + 1 ELSE clock
        /\ timer_left' = IF timer_left > 0 THEN timer_left - 1 ELSE 0
        /\ armed_for' = armed_for
    BY DEF Tick
  <1>5. QED
    BY <1>1, <1>2, <1>3, <1>4

\* What a sum bounds, a larger sum bounds.
LEMMA MoreRoom ==
  ASSUME NEW e \in Nat, NEW d \in Nat, NEW f \in Nat, NEW g \in Nat, e <= d + f, f <= g
  PROVE  e <= d + g
  OBVIOUS

LEMMA EarlyInvariant == Spec => []EarlyInv
  <1> USE DEF queues, kernelTimer, faults, flow, lasts, diag, history
  <1>1. Init => EarlyInv
    BY DEF Init, EarlyInv, EarlyBounded, Orphaned, TooSoon
  <1>2. TypeOK /\ TimerFlag /\ EarlyInv /\ [Next]_vars => EarlyInv'
    <2> SUFFICES ASSUME TypeOK, TimerFlag, EarlyInv, [Next]_vars
                 PROVE  EarlyInv'
      OBVIOUS
    <2>0. scheduler_q \in Seq(Packet) /\ pkt \in Packet \union {NoPacket}
      BY DEF TypeOK, QueueType, ThreadType
    <2>1. /\ early \in Nat /\ diag_sched_q_evict \in Nat /\ too_far \in Nat
          /\ early <= diag_sched_q_evict + too_far
      BY DEF TypeOK, CounterType, EarlyInv, EarlyBounded
    <2>2. ASSUME UNCHANGED <<early, diag_sched_q_evict, too_far>>,
                 Orphaned' => Orphaned, TooSoon' => TooSoon
          PROVE  EarlyInv'
      BY <2>1, <2>2 DEF EarlyInv, EarlyBounded
    <2>3. CASE QPut \/ QReput
      <3>1. /\ UNCHANGED <<early, diag_sched_q_evict, too_far, timer_running, armed_for>>
            /\ UNCHANGED <<clock, timer_left>>
        BY <2>3 DEF QPut, QReput
      <3>2. TooSoon' => TooSoon
        BY <3>1 DEF TooSoon
      <3>3. CASE scheduler_q = <<>>
        BY <2>2, <3>1, <3>2, <3>3 DEF Orphaned
      <3>4. CASE scheduler_q # <<>>
        <4>1. scheduler_q' = scheduler_q \/ scheduler_q' = Append(scheduler_q, pkt)
          BY <2>3 DEF QPut, QReput, MsgqPut
        <4>2. scheduler_q' # <<>> /\ Head(scheduler_q') = Head(scheduler_q)
          <5>1. CASE scheduler_q' = scheduler_q
            BY <3>4, <5>1
          <5>2. CASE scheduler_q' = Append(scheduler_q, pkt)
            BY <2>0, <3>4, <5>2, AppendKeepsHead
          <5>3. QED
            BY <4>1, <5>1, <5>2
        <4>3. Orphaned' => Orphaned
          BY <3>1, <4>2 DEF Orphaned
        <4>4. QED
          BY <2>2, <3>1, <3>2, <4>3
      <3>5. QED
        BY <3>3, <3>4
    <2>4. CASE QEvict
      <3>1. CASE scheduler_q # <<>>
        <4>1. early' = early /\ diag_sched_q_evict' = diag_sched_q_evict + 1 /\ too_far' = too_far
          BY <2>4, <3>1 DEF QEvict
        <4>2. QED
          BY <2>1, <4>1 DEF EarlyInv, EarlyBounded
      <3>2. CASE scheduler_q = <<>>
        <4>1. /\ UNCHANGED <<early, diag_sched_q_evict, too_far, scheduler_q>>
              /\ UNCHANGED <<clock, timer_running, timer_left, armed_for>>
          BY <2>4, <3>2 DEF QEvict
        <4>2. QED
          BY <2>2, <4>1 DEF Orphaned, TooSoon
      <3>3. QED
        BY <3>1, <3>2
    <2>5. CASE ArmPeek
      <3>1. UNCHANGED <<early, diag_sched_q_evict, scheduler_q>>
        BY <2>5 DEF ArmPeek
      <3>2. CASE scheduler_q # <<>>
        <4>1. Head(scheduler_q) \in Packet /\ Start(Head(scheduler_q))
          BY <2>0, <2>5, <3>2, HeadTail DEF ArmPeek, StartTimer, Start
        <4>2. too_far' \in Nat /\ too_far <= too_far' /\ (TooSoon' => too_far' = too_far + 1)
          BY <4>1, StartTooSoon
        <4>3. ~Orphaned'
          BY <3>1, <3>2, <4>1 DEF Start, Orphaned
        <4>4. early' = early /\ diag_sched_q_evict' = diag_sched_q_evict
          BY <3>1
        <4>5. early' <= diag_sched_q_evict' + too_far'
          BY <2>1, <4>2, <4>4, MoreRoom
        <4>6. TooSoon' => early' + 1 <= diag_sched_q_evict' + too_far'
          BY <2>1, <4>2, <4>4
        <4>7. QED
          BY <4>3, <4>5, <4>6 DEF EarlyInv, EarlyBounded
      <3>3. CASE scheduler_q = <<>>
        <4>1. UNCHANGED <<too_far, clock, timer_running, timer_left, armed_for>>
          BY <2>5, <3>3 DEF ArmPeek
        <4>2. QED
          BY <2>2, <3>1, <4>1 DEF Orphaned, TooSoon
      <3>4. QED
        BY <3>2, <3>3
    <2>6. CASE IsrInject
      <3>1. /\ timer_running /\ timer_left = 0 /\ scheduler_q # <<>>
            /\ scheduler_q' = Tail(scheduler_q)
            /\ early' = IF Head(scheduler_q).ts > clock THEN early + 1 ELSE early
            /\ diag_sched_q_evict' = diag_sched_q_evict
        BY <2>6 DEF IsrInject, IsrInjectWith, Expired
      <3>2. ~Orphaned'
        BY <2>6 DEF IsrInject, IsrInjectWith, StartTimer, StopTimer, Orphaned
      <3>3. early' \in Nat /\ early' <= diag_sched_q_evict + too_far
        <4>1. CASE Orphaned \/ TooSoon
          <5>1. early + 1 <= diag_sched_q_evict + too_far
            BY <4>1 DEF EarlyInv, EarlyBounded
          <5>2. QED
            BY <2>1, <3>1, <5>1
        <4>2. CASE ~Orphaned /\ ~TooSoon
          <5>1. Head(scheduler_q) = armed_for
            BY <3>1, <4>2 DEF Orphaned
          <5>2. clock \in Nat /\ ~(armed_for.ts > clock + 0)
            BY <3>1, <4>2, ClockAssumption DEF TooSoon, TypeOK, ClockType
          <5>3. armed_for.ts \in Nat
            BY <2>0, <3>1, <5>1, HeadTail, PacketFields
          <5>4. early' = early
            BY <3>1, <5>1, <5>2, <5>3
          <5>5. QED
            BY <2>1, <5>4
        <4>3. QED
          BY <4>1, <4>2
      <3>4. CASE Tail(scheduler_q) # <<>>
        <4>1. Tail(scheduler_q) \in Seq(Packet)
          BY <2>0, <3>1, HeadTail
        <4>2. Head(Tail(scheduler_q)) \in Packet
          BY <3>4, <4>1, HeadTail
        <4>3. Start(Head(Tail(scheduler_q)))
          BY <2>6, <3>4 DEF IsrInject, IsrInjectWith, StartTimer, Start
        <4>4. too_far' \in Nat /\ too_far <= too_far' /\ (TooSoon' => too_far' = too_far + 1)
          BY <4>2, <4>3, StartTooSoon
        <4>5. early' <= diag_sched_q_evict' + too_far'
          BY <2>1, <3>1, <3>3, <4>4, MoreRoom
        <4>6. TooSoon' => early' + 1 <= diag_sched_q_evict' + too_far'
          BY <2>1, <3>1, <3>3, <4>4
        <4>7. QED
          BY <3>2, <4>5, <4>6 DEF EarlyInv, EarlyBounded
      <3>5. CASE Tail(scheduler_q) = <<>>
        <4>1. too_far' = too_far /\ ~TooSoon'
          BY <2>6, <3>5 DEF IsrInject, IsrInjectWith, StopTimer, TooSoon
        <4>2. QED
          BY <2>1, <3>1, <3>2, <3>3, <4>1 DEF EarlyInv, EarlyBounded
      <3>6. QED
        BY <3>4, <3>5
    <2>7. CASE Receive \/ RetryWakeUp \/ ArmCas \/ UNCHANGED vars
      <3>1. /\ UNCHANGED <<early, diag_sched_q_evict, too_far, scheduler_q>>
            /\ UNCHANGED <<clock, timer_running, timer_left, armed_for>>
        BY <2>7 DEF Receive, SpiReadError, SyncFrame, BadFrame, GoodFrame, RetryWakeUp,
           ArmCas, vars
      <3>2. QED
        BY <2>2, <3>1 DEF Orphaned, TooSoon
    <2>8. CASE Tick
      <3>1. UNCHANGED <<early, diag_sched_q_evict, too_far, timer_running, armed_for, scheduler_q>>
        BY <2>8 DEF Tick
      <3>2. QED
        BY <2>2, <2>8, <3>1, TickTooSoon DEF Orphaned
    <2>9. CASE IsrNothingToInject
      <3>1. /\ UNCHANGED <<early, diag_sched_q_evict, too_far>>
            /\ ~Orphaned' /\ ~TooSoon'
        BY <2>9 DEF IsrNothingToInject, StopTimer, Orphaned, TooSoon
      <3>2. QED
        BY <2>2, <3>1
    <2>10. QED
      BY <2>3, <2>4, <2>5, <2>6, <2>7, <2>8, <2>9 DEF Next, ThreadStep, Isr
  <1>3. QED
    BY <1>1, <1>2, TypeCorrect, TimerFlagCorrect, PTL DEF Spec

(***************************************************************************)
(* Each early packet has an eviction or a timestamp too far ahead as its   *)
(* cause, however often now_us() starts again (scheduler_test.c:187, 218). *)
(***************************************************************************)
THEOREM EarlyBoundedCorrect == Spec => []EarlyBounded
  <1>1. EarlyInv => EarlyBounded
    BY DEF EarlyInv
  <1>2. QED
    BY <1>1, EarlyInvariant, PTL

\* In a stream shorter than 2^31 us (35.8 minutes) no timestamp is too far
\* ahead of now_us(), even if that has started again.
LEMMA NeverTooFar ==
  ASSUME MaxTime < HalfWord
  PROVE  Spec => [](too_far = 0)
  <1>1. Init => too_far = 0
    BY DEF Init
  <1>2. TypeOK /\ too_far = 0 /\ [Next]_vars => (too_far = 0)'
    <2> SUFFICES ASSUME TypeOK, too_far = 0, [Next]_vars
                 PROVE  too_far' = 0
      OBVIOUS
    <2>1. ASSUME NEW p \in Packet, Start(p)
          PROVE  too_far' = 0
      <3>1. p.ts \in Timestamps /\ p.ts \in Nat /\ p.ts <= MaxTime
        <4>1. \A ts \in Timestamps : ts <= MaxTime
          BY ClockAssumption
        <4>2. QED
          BY <4>1, PacketFields
      <3>2. NowUs \in Nat
        BY <3>1, ClockAssumption, DelayType DEF TypeOK, ClockType
      <3>3. ~TooFar(p.ts)
        BY <3>1, <3>2, ClockAssumption, WordAssumption DEF TooFar
      <3>4. QED
        BY <2>1, <3>3 DEF Start
    <2>2. CASE Stop \/ Tick \/ Hold
      BY <2>2 DEF Stop, Tick, Hold, history
    <2>3. QED
      BY <2>1, <2>2, CountdownSteps
  <1>3. QED
    BY <1>1, <1>2, TypeCorrect, PTL DEF Spec

(***************************************************************************)
(* So in a stream of less than 2^31 us the premature injections never      *)
(* outnumber the evictions, and without overload there is none.            *)
(***************************************************************************)
THEOREM EarlyOnlyByEviction ==
  ASSUME MaxTime < HalfWord
  PROVE  Spec => [](early <= diag_sched_q_evict)
  <1>1. TypeOK /\ EarlyBounded /\ too_far = 0 => early <= diag_sched_q_evict
    BY DEF TypeOK, CounterType, EarlyBounded
  <1>2. QED
    BY <1>1, TypeCorrect, EarlyBoundedCorrect, NeverTooFar, PTL

--------------------------------------------------------------------------------
(***************************************************************************)
(* The node.  Its scheduler is HilScheduler, and with this scheduler in    *)
(* the place of the abstract gate the rest of it is SensorServing.         *)
(***************************************************************************)
\* What the emulators assume of the DUT.
NodeAssumption ==
  /\ Cells \in Nat \ {0} /\ ImuRegs \subseteq 0..Cells + 1
  /\ LidarRegs \subseteq 0..Serving!LastLidarReg

\* Every theorem about the scheduler is one about the node.
THEOREM NodeIsScheduler == NodeSpec => Spec
  <1>1. NodeInit => Init
    BY DEF NodeInit
  <1>2. [NodeNext]_nodeVars => [Next]_vars
    BY DEF NodeNext, SchedulerStep, SensorStep, BusStep, nodeVars
  <1>3. QED
    BY <1>1, <1>2, PTL DEF NodeSpec, Spec

LEMMA EmulatorsUntouched ==
  ASSUME UNCHANGED serving
  PROVE  UNCHANGED <<Serving!imuVars, Serving!lidarVars, Serving!sensor, Serving!overlap>>
  BY DEF serving, Serving!imuVars, Serving!imuImage, Serving!imuWriter, Serving!imuBus,
     Serving!lidarVars, Serving!lidarBus, Serving!sensor, Serving!overlap

\* A step of the scheduler is one of the gate, or none.
LEMMA SchedulerAsGate ==
  ASSUME TypeOK, TypeOK', RoomForReput, RingOrder, [Next]_vars, UNCHANGED serving
  PROVE  [Serving!Next]_(Serving!vars)
  <1>1. [CG!Next]_(CG!cgVars)
    BY ChannelStep
  <1>2. CASE UNCHANGED CG!cgVars
    BY <1>2, EmulatorsUntouched DEF CG!cgVars, Serving!vars, Serving!gate
  <1>3. CASE CG!Next
    <2>1. Serving!Gate!Next
      BY <1>3 DEF CG!Next, CG!Receive, CG!Lose, CG!Serve, CG!Oldest, Serving!Gate!Next,
         Serving!Gate!Receive, Serving!Gate!Lose, Serving!Gate!Serve, Serving!Gate!Oldest
    <2>2. diag_spi_rx' <= MaxFrames
      BY BoundAssumption DEF TypeOK, CounterType
    <2>3. QED
      BY <2>1, <2>2, EmulatorsUntouched DEF Serving!Next, Serving!GateStep
  <1>4. QED
    BY <1>1, <1>2, <1>3

(***************************************************************************)
(* The node implements SensorServing: what the DUT is served by the thread *)
(* and the two interrupts of the real scheduler is what the abstract gate  *)
(* allows.                                                                 *)
(***************************************************************************)
THEOREM NodeImplementsServing == NodeSpec => Serving!Spec
  <1>1. NodeInit => Serving!Init
    BY DEF NodeInit
  <1>2. TypeOK /\ TypeOK' /\ RoomForReput /\ RingOrder /\ [NodeNext]_nodeVars
          => [Serving!Next]_(Serving!vars)
    <2> SUFFICES ASSUME TypeOK, TypeOK', RoomForReput, RingOrder, [NodeNext]_nodeVars
                 PROVE  [Serving!Next]_(Serving!vars)
      OBVIOUS
    <2>1. CASE SchedulerStep \/ UNCHANGED nodeVars
      BY <2>1, SchedulerAsGate DEF SchedulerStep, nodeVars
    <2>2. CASE SensorStep \/ BusStep
      BY <2>2 DEF SensorStep, BusStep, Serving!Next
    <2>3. QED
      BY <2>1, <2>2 DEF NodeNext
  <1>3. Books => RoomForReput
    BY DEF Books
  <1>4. QED
    BY <1>1, <1>2, <1>3, NodeIsScheduler, TypeCorrect, BooksInvariant, RingOrderCorrect, PTL
    DEF NodeSpec, Serving!Spec

\* What is proved of SensorServing, at the node's variables.
SP ==
  INSTANCE SensorServingProofs WITH
    MaxPackets <- MaxFrames,
    received <- diag_spi_rx,
    inside <- Ids(scheduler_q) \union (IF InHand THEN {pkt.id} ELSE {}),
    served <- GateId,
    diag_last_euler_x <- served_euler_x,
    diag_last_lidar_mm <- served_lidar_mm

\* The steps of the sensor emulation thread, under either name of the instance.
LEMMA SameThread ==
  ASSUME Serving!SensorThread
  PROVE  SP!SensorThread
  <1>1. Serving!SenPeek => SP!SenPeek
    BY DEF Serving!SenPeek, Serving!GoToSleep, Serving!imuVars, Serving!imuImage,
           Serving!imuWriter, Serving!imuBus, Serving!lidarVars, Serving!lidarBus,
           Serving!sensor, Serving!overlap, Serving!gate, SP!SenPeek, SP!GoToSleep,
           SP!imuVars, SP!imuImage, SP!imuWriter, SP!imuBus, SP!lidarVars, SP!lidarBus,
           SP!sensor, SP!overlap, SP!gate
  <1>2. Serving!SenLidar => SP!SenLidar
    BY DEF Serving!SenLidar, Serving!LidarUpdateDistance, Serving!imuVars, Serving!imuImage,
           Serving!imuWriter, Serving!imuBus, Serving!lidarVars, Serving!lidarBus,
           Serving!sensor, Serving!overlap, Serving!gate, SP!SenLidar,
           SP!LidarUpdateDistance, SP!imuVars, SP!imuImage, SP!imuWriter, SP!imuBus,
           SP!lidarVars, SP!lidarBus, SP!sensor, SP!overlap, SP!gate
  <1>3. Serving!SenImuIndex => SP!SenImuIndex
    BY DEF Serving!SenImuIndex, Serving!ImuUpdateIndex, Serving!imuVars, Serving!imuImage,
           Serving!imuWriter, Serving!imuBus, Serving!lidarVars, Serving!lidarBus,
           Serving!sensor, Serving!overlap, Serving!gate, SP!SenImuIndex, SP!ImuUpdateIndex,
           SP!imuVars, SP!imuImage, SP!imuWriter, SP!imuBus, SP!lidarVars, SP!lidarBus,
           SP!sensor, SP!overlap, SP!gate
  <1>4. Serving!SenImuCopy => SP!SenImuCopy
    BY DEF Serving!SenImuCopy, Serving!ImuUpdateCopy, Serving!Group, Serving!imuVars,
           Serving!imuImage, Serving!imuWriter, Serving!imuBus, Serving!lidarVars,
           Serving!lidarBus, Serving!sensor, Serving!overlap, Serving!gate, SP!SenImuCopy,
           SP!ImuUpdateCopy, SP!Group, SP!imuVars, SP!imuImage, SP!imuWriter, SP!imuBus,
           SP!lidarVars, SP!lidarBus, SP!sensor, SP!overlap, SP!gate
  <1>5. Serving!SenImuPublish => SP!SenImuPublish
    BY DEF Serving!SenImuPublish, Serving!ImuUpdatePublish, Serving!GoToSleep,
           Serving!Group, Serving!imuVars, Serving!imuImage, Serving!imuWriter,
           Serving!imuBus, Serving!lidarVars, Serving!lidarBus, Serving!sensor,
           Serving!overlap, Serving!gate, SP!SenImuPublish, SP!ImuUpdatePublish,
           SP!GoToSleep, SP!Group, SP!imuVars, SP!imuImage, SP!imuWriter, SP!imuBus,
           SP!lidarVars, SP!lidarBus, SP!sensor, SP!overlap, SP!gate
  <1>6. Serving!SenWakeUp => SP!SenWakeUp
    BY DEF Serving!SenWakeUp, Serving!imuVars, Serving!imuImage, Serving!imuWriter,
           Serving!imuBus, Serving!lidarVars, Serving!lidarBus, Serving!sensor,
           Serving!overlap, Serving!gate, SP!SenWakeUp, SP!imuVars, SP!imuImage,
           SP!imuWriter, SP!imuBus, SP!lidarVars, SP!lidarBus, SP!sensor, SP!overlap,
           SP!gate
  <1>7. QED
    BY <1>1, <1>2, <1>3, <1>4, <1>5, <1>6 DEF Serving!SensorThread, SP!SensorThread

\* The callbacks of the two buses.
LEMMA SameImuBus ==
  ASSUME Serving!ImuBus
  PROVE  SP!ImuBus
  <1>1. Serving!ImuWriteRequested => SP!ImuWriteRequested
    BY DEF Serving!ImuWriteRequested, Serving!imuImage, Serving!imuWriter, Serving!imuBus,
           SP!ImuWriteRequested, SP!imuImage, SP!imuWriter, SP!imuBus
  <1>2. ASSUME NEW val \in ImuRegs, Serving!ImuWriteReceived(val)
        PROVE  SP!ImuWriteReceived(val)
    BY <1>2 DEF Serving!ImuWriteReceived, Serving!imuImage, Serving!imuWriter, Serving!imuBus,
           SP!ImuWriteReceived, SP!imuImage, SP!imuWriter, SP!imuBus
  <1>3. Serving!ImuReadRequested => SP!ImuReadRequested
    BY DEF Serving!ImuReadRequested, Serving!ServeImuByte, Serving!ImuId, Serving!Group,
           Serving!imuImage, Serving!imuWriter, Serving!imuBus, SP!ImuReadRequested,
           SP!ServeImuByte, SP!ImuId, SP!Group, SP!imuImage, SP!imuWriter, SP!imuBus
  <1>4. Serving!ImuReadProcessed => SP!ImuReadProcessed
    BY DEF Serving!ImuReadProcessed, Serving!ServeImuByte, Serving!Group, Serving!imuImage,
           Serving!imuWriter, Serving!imuBus, SP!ImuReadProcessed, SP!ServeImuByte,
           SP!Group, SP!imuImage, SP!imuWriter, SP!imuBus
  <1>5. Serving!ImuStop => SP!ImuStop
    BY DEF Serving!ImuStop, Serving!imuImage, Serving!imuWriter, Serving!imuBus, SP!ImuStop,
           SP!imuImage, SP!imuWriter, SP!imuBus
  <1>6. Serving!ImuCallback => SP!ImuCallback
    BY <1>1, <1>2, <1>3, <1>4, <1>5 DEF Serving!ImuCallback, SP!ImuCallback
  <1>7. QED
    BY <1>6 DEF Serving!ImuBus, Serving!lidarVars, Serving!lidarBus, Serving!sensor,
           Serving!overlap, Serving!gate, SP!ImuBus, SP!lidarVars, SP!lidarBus, SP!sensor,
           SP!overlap, SP!gate

LEMMA SameLidarBus ==
  ASSUME Serving!LidarBus
  PROVE  SP!LidarBus
  <1>1. Serving!LidarWriteRequested => SP!LidarWriteRequested
    BY DEF Serving!LidarWriteRequested, SP!LidarWriteRequested
  <1>2. ASSUME NEW val \in LidarRegs, Serving!LidarWriteReceived(val)
        PROVE  SP!LidarWriteReceived(val)
    BY <1>2 DEF Serving!LidarWriteReceived, Serving!LastLidarReg,
           Serving!LIDAR_REG_FULL_DELAY_LOW, SP!LidarWriteReceived, SP!LastLidarReg,
           SP!LIDAR_REG_FULL_DELAY_LOW
  <1>3. Serving!LidarReadRequested => SP!LidarReadRequested
    BY DEF Serving!LidarReadRequested, Serving!ServeRegisterByte,
           Serving!LIDAR_REG_FULL_DELAY_HIGH, Serving!LIDAR_REG_FULL_DELAY_LOW,
           SP!LidarReadRequested, SP!ServeRegisterByte, SP!LIDAR_REG_FULL_DELAY_HIGH,
           SP!LIDAR_REG_FULL_DELAY_LOW
  <1>4. Serving!LidarReadProcessed => SP!LidarReadProcessed
    BY DEF Serving!LidarReadProcessed, Serving!ServeRegisterByte, Serving!LastLidarReg,
           Serving!LIDAR_REG_FULL_DELAY_HIGH, Serving!LIDAR_REG_FULL_DELAY_LOW,
           SP!LidarReadProcessed, SP!ServeRegisterByte, SP!LastLidarReg,
           SP!LIDAR_REG_FULL_DELAY_HIGH, SP!LIDAR_REG_FULL_DELAY_LOW
  <1>5. Serving!LidarStop => SP!LidarStop
    BY DEF Serving!LidarStop, SP!LidarStop
  <1>6. Serving!LidarCallback => SP!LidarCallback
    BY <1>1, <1>2, <1>3, <1>4, <1>5 DEF Serving!LidarCallback, SP!LidarCallback
  <1>7. QED
    BY <1>6 DEF Serving!LidarBus, Serving!imuVars, Serving!imuImage, Serving!imuWriter,
           Serving!imuBus, Serving!sensor, Serving!overlap, Serving!gate, SP!LidarBus,
           SP!imuVars, SP!imuImage, SP!imuWriter, SP!imuBus, SP!sensor, SP!overlap, SP!gate

LEMMA SameServing == Serving!Spec => SP!Spec
  <1>1. Serving!Init => SP!Init
    BY DEF Serving!Init, Serving!ImuInit, Serving!LidarInit, Serving!Gate!Init,
           Serving!Group, Serving!LIDAR_REG_ACQ_COMMAND, SP!Init, SP!ImuInit, SP!LidarInit,
           SP!Gate!Init, SP!Group, SP!LIDAR_REG_ACQ_COMMAND
  <1>2. Serving!GateStep => SP!GateStep
    BY DEF Serving!GateStep, Serving!Gate!Next, Serving!Gate!Receive, Serving!Gate!Lose,
           Serving!Gate!Serve, Serving!Gate!Oldest, Serving!sensor, Serving!overlap,
           Serving!imuVars, Serving!imuImage, Serving!imuWriter, Serving!imuBus,
           Serving!lidarVars, Serving!lidarBus, SP!GateStep, SP!Gate!Next, SP!Gate!Receive,
           SP!Gate!Lose, SP!Gate!Serve, SP!Gate!Oldest, SP!sensor, SP!overlap, SP!imuVars,
           SP!imuImage, SP!imuWriter, SP!imuBus, SP!lidarVars, SP!lidarBus
  <1>3. UNCHANGED Serving!vars => UNCHANGED SP!vars
    BY DEF Serving!vars, Serving!imuVars, Serving!imuImage, Serving!imuWriter,
           Serving!imuBus, Serving!lidarVars, Serving!lidarBus, Serving!sensor,
           Serving!overlap, Serving!gate, SP!vars, SP!imuVars, SP!imuImage, SP!imuWriter,
           SP!imuBus, SP!lidarVars, SP!lidarBus, SP!sensor, SP!overlap, SP!gate
  <1>4. [Serving!Next]_(Serving!vars) => [SP!Next]_(SP!vars)
    BY <1>2, <1>3, SameThread, SameImuBus, SameLidarBus DEF Serving!Next, SP!Next
  <1>5. QED
    BY <1>1, <1>4, PTL DEF Serving!Spec, SP!Spec

\* What is assumed of the DUT, as SensorServingProofs assumes it.
LEMMA ServingAssumptions ==
  ASSUME NodeAssumption
  PROVE  /\ Cells \in Nat \ {0} /\ ImuRegs \subseteq 0..Cells + 1
         /\ LidarRegs \subseteq 0..SP!LastLidarReg
         /\ MaxFrames \in Nat
  BY BoundAssumption
  DEF NodeAssumption, Serving!LastLidarReg, Serving!LIDAR_REG_FULL_DELAY_LOW,
      SP!LastLidarReg, SP!LIDAR_REG_FULL_DELAY_LOW

(***************************************************************************)
(* So the DUT, served by the node's own scheduler, never reads a torn      *)
(* sample of the IMU within one sleep of the sensor emulation thread       *)
(* (imu_emulator_test.h:22-25), never two bytes of two distances           *)
(* (lidar_emulator_test.h:19-22), and the two sensors tell of the same     *)
(* moment.                                                                 *)
(***************************************************************************)
THEOREM NodeServesCoherently ==
  ASSUME NodeAssumption
  PROVE  NodeSpec => [](Serving!ImuCoherent /\ Serving!LidarCoherent /\ Serving!SensorsInStep)
  <1>0. /\ Cells \in Nat \ {0} /\ ImuRegs \subseteq 0..Cells + 1
        /\ LidarRegs \subseteq 0..SP!LastLidarReg
        /\ MaxFrames \in Nat
    BY ServingAssumptions
  <1>1. SP!ImuCoherent => Serving!ImuCoherent
    BY DEF SP!ImuCoherent, Serving!ImuCoherent
  <1>2. SP!LidarCoherent => Serving!LidarCoherent
    BY DEF SP!LidarCoherent, Serving!LidarCoherent
  <1>3. SP!SensorsInStep => Serving!SensorsInStep
    BY DEF SP!SensorsInStep, SP!ImuId, Serving!SensorsInStep, Serving!ImuId
  <1>4. SP!Spec => [](SP!ImuCoherent /\ SP!LidarCoherent /\ SP!SensorsInStep)
    <2>1. /\ SP!Spec => []SP!ImuCoherent
          /\ SP!Spec => []SP!LidarCoherent
          /\ SP!Spec => []SP!SensorsInStep
      BY <1>0, SP!ImuCoherentCorrect, SP!LidarCoherentCorrect, SP!SensorsInStepCorrect
    <2>2. QED
      BY <2>1, PTL
  <1>5. QED
    BY <1>1, <1>2, <1>3, <1>4, NodeImplementsServing, SameServing, PTL

(***************************************************************************)
(* And time never runs backwards for it: the retries, the evictions and    *)
(* the interrupt in the middle of the scheduler's loop bring no older      *)
(* packet to a sensor after a newer one.                                   *)
(***************************************************************************)
THEOREM NodeNeverRegresses ==
  ASSUME NodeAssumption
  PROVE  NodeSpec => Serving!NoRegress
  <1>0. /\ Cells \in Nat \ {0} /\ ImuRegs \subseteq 0..Cells + 1
        /\ LidarRegs \subseteq 0..SP!LastLidarReg
        /\ MaxFrames \in Nat
    BY ServingAssumptions
  <1>1. SP!Spec => SP!NoRegress
    BY <1>0, SP!NoRegressCorrect
  <1>2. UNCHANGED SP!vars => UNCHANGED Serving!vars
    BY DEF Serving!vars, Serving!imuVars, Serving!imuImage, Serving!imuWriter,
           Serving!imuBus, Serving!lidarVars, Serving!lidarBus, Serving!sensor,
           Serving!overlap, Serving!gate, SP!vars, SP!imuVars, SP!imuImage, SP!imuWriter,
           SP!imuBus, SP!lidarVars, SP!lidarBus, SP!sensor, SP!overlap, SP!gate
  <1>3. SP!ImuId = Serving!ImuId /\ SP!ImuId' = Serving!ImuId'
    BY DEF SP!ImuId, Serving!ImuId
  <1>4. [/\ SP!ImuId' >= SP!ImuId
         /\ imu_seen' >= imu_seen
         /\ simulated_distance_mm' >= simulated_distance_mm
         /\ transaction_distance_cache' >= transaction_distance_cache]_(SP!vars)
        => [/\ Serving!ImuId' >= Serving!ImuId
            /\ imu_seen' >= imu_seen
            /\ simulated_distance_mm' >= simulated_distance_mm
            /\ transaction_distance_cache' >= transaction_distance_cache]_(Serving!vars)
    BY <1>2, <1>3
  <1>5. SP!NoRegress => Serving!NoRegress
    BY <1>4, PTL DEF SP!NoRegress, Serving!NoRegress
  <1>6. QED
    BY <1>1, <1>5, NodeImplementsServing, SameServing, PTL

\* While no packet was injected early, the one at the gate is due.
GateDue == early = 0 /\ sensor_update_q # <<>> => sensor_update_q[1].ts <= clock

LEMMA GateDueInvariant == Spec => []GateDue
  <1>1. Init => GateDue
    BY DEF Init, GateDue
  <1>2. TypeOK /\ GateDue /\ [Next]_vars => GateDue'
    <2> SUFFICES ASSUME TypeOK, GateDue, [Next]_vars
                 PROVE  GateDue'
      OBVIOUS
    <2>0. clock \in Nat /\ early \in Nat
      BY DEF TypeOK, ClockType, CounterType
    <2>1. CASE IsrInject
      <3>1. /\ sensor_update_q' = <<Head(scheduler_q)>> /\ clock' = clock
            /\ early' = IF Head(scheduler_q).ts > clock THEN early + 1 ELSE early
            /\ scheduler_q # <<>>
        BY <2>1, GatePut DEF IsrInject, IsrInjectWith
      <3>2. Head(scheduler_q) \in Packet /\ Head(scheduler_q).ts \in Nat
        BY <3>1, HeadTail, PacketFields DEF TypeOK, QueueType
      <3>3. sensor_update_q'[1] = Head(scheduler_q)
        BY <3>1
      <3>4. QED
        BY <2>0, <3>1, <3>2, <3>3 DEF GateDue
    <2>2. CASE Tick
      <3>1. clock' >= clock /\ UNCHANGED <<early, sensor_update_q>>
        BY <2>0, <2>2, ClockAssumption DEF Tick, queues, history
      <3>2. CASE sensor_update_q = <<>>
        BY <3>1, <3>2 DEF GateDue
      <3>3. CASE sensor_update_q # <<>>
        <4>1. sensor_update_q[1] \in Packet
          BY <3>3 DEF TypeOK, QueueType
        <4>2. sensor_update_q[1].ts \in Nat
          BY <4>1, PacketFields
        <4>3. clock' \in Nat
          BY <2>0, <2>2, ClockAssumption DEF Tick
        <4>4. QED
          BY <2>0, <3>1, <4>2, <4>3 DEF GateDue
      <3>4. QED
        BY <3>2, <3>3
    <2>3. CASE Receive \/ ThreadStep \/ IsrNothingToInject \/ UNCHANGED vars
      <3>1. UNCHANGED <<clock, early, sensor_update_q>>
        BY <2>3 DEF Receive, SpiReadError, SyncFrame, BadFrame, GoodFrame, ThreadStep,
           RetryWakeUp, QPut, QEvict, QReput, ArmCas, ArmPeek, IsrNothingToInject, vars,
           queues, history, diag, kernelTimer, faults
      <3>2. QED
        BY <3>1 DEF GateDue
    <2>4. QED
      BY <2>1, <2>2, <2>3 DEF Next, Isr
  <1>3. QED
    BY <1>1, <1>2, TypeCorrect, PTL DEF Spec

(***************************************************************************)
(* scheduler_test.h:12-14, the Arrow of Time, holds of the DUT's reads as  *)
(* long as the ring has evicted no packet and no timestamp was 2^31 us or  *)
(* more ahead of now_us().  These two are the only ways to break it.       *)
(***************************************************************************)
THEOREM ArrowBrokenTwoWays ==
  NodeSpec => [](diag_sched_q_evict = 0 /\ too_far = 0 => ArrowOfTime)
  <1>1. TypeOK /\ EarlyBounded /\ GateDue
          => (diag_sched_q_evict = 0 /\ too_far = 0 => ArrowOfTime)
    <2> SUFFICES ASSUME TypeOK, EarlyBounded, GateDue, diag_sched_q_evict = 0, too_far = 0
                 PROVE  ArrowOfTime
      OBVIOUS
    <2>1. early = 0
      BY DEF TypeOK, CounterType, EarlyBounded
    <2>2. QED
      BY <2>1 DEF GateDue, ArrowOfTime
  <1>2. QED
    BY <1>1, NodeIsScheduler, TypeCorrect, EarlyBoundedCorrect, GateDueInvariant, PTL

\* In a stream of less than 2^31 us an eviction is the only way, the one TLC
\* finds.
THEOREM ArrowHoldsWithoutEviction ==
  ASSUME MaxTime < HalfWord
  PROVE  NodeSpec => [](diag_sched_q_evict = 0 => ArrowOfTime)
  BY ArrowBrokenTwoWays, NodeIsScheduler, NeverTooFar, PTL

================================================================================
