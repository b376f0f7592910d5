---------------------------- MODULE FullDuplexProofs ----------------------------
(***************************************************************************)
(* Proofs, for every ring length, every timestamps and every bound, of     *)
(* what the two buffers of FullDuplex do to the frames, and of where its   *)
(* thread can wait for ever.                                               *)
(***************************************************************************)
EXTENDS FullDuplex, TLAPS

Frame == 1..MaxTransfers

LEMMA ConstantFacts ==
  /\ SchedulerQLen \in Nat /\ SchedulerQLen >= 2
  /\ MaxTransfers \in Nat /\ MaxFaults \in Nat /\ Horizon \in Nat
  /\ \A n \in 0..MaxTransfers : TimeOf[n] \in Int
  <1>1. TimeOf \in [0..MaxTransfers -> 0..Horizon]
    BY DuplexAssumption
  <1>2. \A n \in 0..MaxTransfers : TimeOf[n] \in Int
    BY <1>1
  <1>3. QED
    BY <1>2, DuplexAssumption

\* Only what the gate lets through is staged.
PacketInv == pc \in {"put", "evict", "reput"} => pkt # 0

\* A remainder of a number below the modulus is the number.
LEMMA SmallRemainder ==
  ASSUME NEW m \in Nat \ {0}, NEW x \in 0..m - 1
  PROVE  x % m = x
  OBVIOUS

\* now_us() never is ahead of the clock, and is the clock until it wraps.
LEMMA NowUsFacts ==
  ASSUME NEW t \in 0..Horizon
  PROVE  /\ NowUsAt(t) \in Nat /\ NowUsAt(t) <= t
         /\ Horizon < ClockWrap => NowUsAt(t) = t
  <1>1. ClockWrap \in Nat \ {0} /\ t \in Nat /\ t <= Horizon /\ Horizon \in Nat
    BY WordAssumption, ConstantFacts
  <1>2. NowUsAt(t) \in Nat /\ NowUsAt(t) <= t
    BY <1>1 DEF NowUsAt
  <1>3. ASSUME Horizon < ClockWrap
        PROVE  NowUsAt(t) = t
    <2>1. t \in 0..ClockWrap - 1
      BY <1>1, <1>3
    <2>2. QED
      BY <1>1, <2>1, SmallRemainder DEF NowUsAt
  <1>4. QED
    BY <1>2, <1>3

\* The cast keeps what fits into a word, and gives an integer in any case.
LEMMA Int32Value ==
  ASSUME NEW d \in Int
  PROVE  /\ Int32(d) \in Int
         /\ -HalfWord <= d /\ d < HalfWord => Int32(d) = d
  <1>1. HalfWord \in Nat \ {0} /\ 2 * HalfWord \in Nat \ {0}
    BY WordAssumption
  <1>2. Int32(d) \in Int
    BY <1>1 DEF Int32
  <1>3. ASSUME -HalfWord <= d, d < HalfWord
        PROVE  Int32(d) = d
    <2>1. d + HalfWord \in 0..2 * HalfWord - 1
      BY <1>1, <1>3
    <2>2. (d + HalfWord) % (2 * HalfWord) = d + HalfWord
      BY <1>1, <2>1, SmallRemainder
    <2>3. QED
      BY <1>1, <2>2 DEF Int32
  <1>4. QED
    BY <1>2, <1>3

\* The delay of a frame is a positive number of ticks.
LEMMA DelayType ==
  ASSUME now \in 0..Horizon, NEW n \in 0..MaxTransfers
  PROVE  Delay(n) \in Nat /\ Delay(n) >= 1
  <1>1. TimeOf[n] \in Int /\ NowUsAt(now) \in Int
    BY ConstantFacts, NowUsFacts
  <1>2. DelayUs(n) \in Int
    BY <1>1, Int32Value DEF DelayUs
  <1>3. QED
    BY <1>2 DEF Delay

\* What setting an alarm leaves of the types.
LEMMA SetAlarmType ==
  ASSUME TypeOK, NEW n \in 0..MaxTransfers, SetAlarm(n)
  PROVE  /\ alarm_armed' \in {0, 1} /\ alarm_left' \in Nat
         /\ faults' \in 0..MaxFaults /\ alarm_failures' \in Nat
         /\ alarm_failures' \in {alarm_failures, alarm_failures + 1}
  <1>1. Delay(n) \in Nat
    BY DelayType DEF TypeOK
  <1>2. faults \in 0..MaxFaults /\ alarm_failures \in Nat
    BY DEF TypeOK
  <1>3. QED
    BY <1>1, <1>2, ConstantFacts DEF SetAlarm, Fails

\* The head and the tail of a ring.
LEMMA HeadTail ==
  ASSUME NEW q \in Seq(Frame), q # <<>>
  PROVE  /\ Head(q) \in Frame /\ Head(q) = q[1]
         /\ Tail(q) \in Seq(Frame)
         /\ Len(q) \in Nat /\ Len(q) >= 1
         /\ Len(Tail(q)) = Len(q) - 1
         /\ \A i \in 1..Len(Tail(q)) : Tail(q)[i] = q[i + 1]
  OBVIOUS

\* What appending makes of a ring.
LEMMA AppendFacts ==
  ASSUME NEW q \in Seq(Frame), NEW n \in Frame
  PROVE  /\ Append(q, n) \in Seq(Frame)
         /\ Len(q) \in Nat /\ Len(Append(q, n)) = Len(q) + 1
         /\ \A i \in 1..Len(q) : Append(q, n)[i] = q[i]
         /\ Append(q, n)[Len(q) + 1] = n
  OBVIOUS

\* Both keep its type and its limit.
LEMMA RingType ==
  ASSUME scheduler_q \in Seq(Frame), Len(scheduler_q) <= SchedulerQLen
  PROVE  /\ Len(scheduler_q) < SchedulerQLen =>
              \A n \in Frame : /\ Append(scheduler_q, n) \in Seq(Frame)
                               /\ Len(Append(scheduler_q, n)) <= SchedulerQLen
         /\ scheduler_q # <<>> =>
              /\ Head(scheduler_q) \in Frame
              /\ Tail(scheduler_q) \in Seq(Frame)
              /\ Len(Tail(scheduler_q)) <= SchedulerQLen
              /\ Len(scheduler_q) # 1 => scheduler_q[2] \in Frame
  <1>1. SchedulerQLen \in Nat
    BY ConstantFacts
  <1>2. ASSUME Len(scheduler_q) < SchedulerQLen, NEW n \in Frame
        PROVE  /\ Append(scheduler_q, n) \in Seq(Frame)
               /\ Len(Append(scheduler_q, n)) <= SchedulerQLen
    BY <1>1, <1>2, AppendFacts
  <1>3. ASSUME scheduler_q # <<>>
        PROVE  /\ Head(scheduler_q) \in Frame
               /\ Tail(scheduler_q) \in Seq(Frame)
               /\ Len(Tail(scheduler_q)) <= SchedulerQLen
               /\ Len(scheduler_q) # 1 => scheduler_q[2] \in Frame
    <2>1. /\ Head(scheduler_q) \in Frame /\ Tail(scheduler_q) \in Seq(Frame)
          /\ Len(scheduler_q) \in Nat /\ Len(scheduler_q) >= 1
          /\ Len(Tail(scheduler_q)) = Len(scheduler_q) - 1
      BY <1>3, HeadTail
    <2>2. Len(scheduler_q) >= 2 => scheduler_q[2] \in Frame
      OBVIOUS
    <2>3. QED
      BY <1>1, <2>1, <2>2
  <1>4. QED
    BY <1>2, <1>3

--------------------------------------------------------------------------------
(***************************************************************************)
(* Type correctness.                                                       *)
(***************************************************************************)

\* Every step of the thread keeps the types.
LEMMA ThreadType ==
  ASSUME TypeOK, PacketInv, ThreadStep
  PROVE  TypeOK' /\ PacketInv'
  <1> USE DEF TypeOK, PacketInv, Thread, thread, receive, alarm, inject, outcome, causes
  <1>1. CASE Arm
    <2>1. /\ spi' \in {"idle", "armed", "clocked"} /\ faults' \in 0..MaxFaults
          /\ pc' \in Locations /\ pc' \in {"take1", "retry"}
      BY <1>1, ConstantFacts DEF Arm, Fails, Locations
    <2>2. QED
      BY <1>1, <2>1 DEF Arm
  <1>2. CASE RetryWakeUp
    BY <1>2 DEF RetryWakeUp, Locations
  <1>3. ASSUME NEW from, NEW to \in {"rearm", "arm"}, TakeAndSwap(from, to)
        PROVE  TypeOK' /\ PacketInv'
    BY <1>3 DEF TakeAndSwap, Locations, Other, Bufs
  <1>4. CASE Rearm
    <2>1. /\ spi' \in {"idle", "armed", "clocked"} /\ faults' \in 0..MaxFaults
          /\ pc' \in Locations /\ pc' = "parse"
      BY <1>4, ConstantFacts DEF Rearm, Fails, Locations
    <2>2. rearm_failed' \in BOOLEAN
      BY <1>4 DEF Rearm
    <2>3. QED
      BY <1>4, <2>1, <2>2 DEF Rearm
  <1>5. CASE Parse
    <2>1. rx_buf[Other(dma_rx_buf)] \in 0..MaxTransfers
      BY DEF Other, Bufs
    <2>2. pkt' \in 0..MaxTransfers /\ sync_confirmed' \in BOOLEAN /\ pc' \in {"put", "take2"}
      BY <1>5, <2>1 DEF Parse
    <2>3. pc' = "put" => pkt' # 0
      BY <1>5 DEF Parse
    <2>4. QED
      BY <1>5, <2>2, <2>3 DEF Parse, Locations
  <1>6. CASE QPut
    <2>1. pkt \in Frame
      BY <1>6 DEF QPut, Frame
    <2>2. scheduler_q' \in Seq(Frame) /\ Len(scheduler_q') <= SchedulerQLen
      BY <1>6, <2>1, RingType DEF QPut, Frame
    <2>3. QED
      BY <1>6, <2>2 DEF QPut, Locations, Frame
  <1>7. CASE QEvict
    <2>1. scheduler_q' \in Seq(Frame) /\ Len(scheduler_q') <= SchedulerQLen
      BY <1>7, RingType DEF QEvict, Frame
    <2>2. QED
      BY <1>7, <2>1 DEF QEvict, Locations, Frame
  <1>8. CASE QReput
    <2>1. pkt \in Frame
      BY <1>8 DEF QReput, Frame
    <2>2. scheduler_q' \in Seq(Frame) /\ Len(scheduler_q') <= SchedulerQLen
      BY <1>8, <2>1, RingType DEF QReput, Frame
    <2>3. QED
      BY <1>8, <2>2 DEF QReput, Locations, Frame
  <1>9. CASE ArmPeek
    <2>1. next' \in 0..MaxTransfers
      BY <1>9, RingType, ConstantFacts DEF ArmPeek, Frame
    <2>2. QED
      BY <1>9, <2>1 DEF ArmPeek, Locations
  <1>10. CASE ArmCas
    <2>1. /\ alarm_armed' \in {0, 1} /\ alarm_left' \in Nat
          /\ faults' \in 0..MaxFaults /\ alarm_failures' \in Nat
      BY <1>10, SetAlarmType DEF ArmCas
    <2>2. QED
      BY <1>10, <2>1 DEF ArmCas, Locations
  <1>11. QED
    BY <1>1, <1>2, <1>3, <1>4, <1>5, <1>6, <1>7, <1>8, <1>9, <1>10
       DEF ThreadStep, Take1, Take2

\* So does every interrupt, and the clock.
LEMMA InterruptType ==
  ASSUME TypeOK, PacketInv, InjectionAlarm \/ SpiDone \/ Tick
  PROVE  TypeOK' /\ PacketInv'
  <1> USE DEF TypeOK, PacketInv, thread, receive, alarm, inject, outcome, causes
  <1>1. CASE InjectionAlarm
    <2>1. CASE scheduler_q = <<>>
      BY <1>1, <2>1 DEF InjectionAlarm
    <2>2. CASE scheduler_q # <<>>
      <3>1. /\ scheduler_q' \in Seq(Frame) /\ Len(scheduler_q') <= SchedulerQLen
            /\ gate' \in Frame
        <4>1. scheduler_q' = Tail(scheduler_q) /\ gate' = Head(scheduler_q)
          BY <1>1, <2>2 DEF InjectionAlarm
        <4>2. QED
          BY <2>2, <4>1, RingType DEF Frame
      <3>2. early' \in Nat
        BY <1>1, <2>2 DEF InjectionAlarm
      <3>3. /\ alarm_armed' \in {0, 1} /\ alarm_left' \in Nat
            /\ faults' \in 0..MaxFaults /\ alarm_failures' \in Nat
        <4>1. CASE Len(scheduler_q) = 1
          BY <1>1, <2>2, <4>1 DEF InjectionAlarm
        <4>2. CASE Len(scheduler_q) # 1
          <5>1. scheduler_q[2] \in 0..MaxTransfers
            BY <2>2, <4>2, RingType, ConstantFacts DEF Frame
          <5>2. SetAlarm(scheduler_q[2])
            BY <1>1, <2>2, <4>2 DEF InjectionAlarm
          <5>3. QED
            BY <5>1, <5>2, SetAlarmType
        <4>3. QED
          BY <4>1, <4>2
      <3>4. QED
        BY <1>1, <3>1, <3>2, <3>3 DEF InjectionAlarm, Frame
    <2>3. QED
      BY <2>1, <2>2
  <1>2. CASE SpiDone
    <2>1. transfers + 1 \in 0..MaxTransfers
      BY <1>2, ConstantFacts DEF SpiDone
    <2>2. rx_buf' \in [Bufs -> 0..MaxTransfers]
      BY <1>2, <2>1, ConstantFacts DEF SpiDone
    <2>3. faults' \in 0..MaxFaults
      BY <1>2, ConstantFacts DEF SpiDone, Fails
    <2>4. QED
      BY <1>2, <2>1, <2>2, <2>3 DEF SpiDone
  <1>3. CASE Tick
    BY <1>3, ConstantFacts DEF Tick
  <1>4. QED
    BY <1>1, <1>2, <1>3

LEMMA TypeInit ==
  Init => TypeOK /\ PacketInv
  <1> SUFFICES ASSUME Init PROVE TypeOK /\ PacketInv
    OBVIOUS
  <1>1. /\ 0 \in 0..MaxTransfers /\ 0 \in 0..Horizon /\ 0 \in 0..MaxFaults
        /\ 0 <= SchedulerQLen
    BY ConstantFacts
  <1>2. /\ rx_buf \in [Bufs -> 0..MaxTransfers] /\ dma_rx_buf \in Bufs
        /\ scheduler_q \in Seq(Frame) /\ Len(scheduler_q) = 0
    BY <1>1 DEF Init, Bufs
  <1>3. sync_confirmed \in BOOLEAN /\ rearm_failed \in BOOLEAN
    BY DEF Init
  <1>4. QED
    BY <1>1, <1>2, <1>3 DEF Init, TypeOK, PacketInv, Locations, Frame

LEMMA TypeStep ==
  TypeOK /\ PacketInv /\ [Next]_vars => TypeOK' /\ PacketInv'
  <1> SUFFICES ASSUME TypeOK, PacketInv, [Next]_vars PROVE TypeOK' /\ PacketInv'
    OBVIOUS
  <1>1. CASE Next
    BY <1>1, ThreadType, InterruptType DEF Next
  <1>2. CASE UNCHANGED vars
    BY <1>2 DEF TypeOK, PacketInv, vars, thread, receive, alarm, inject, outcome, causes
  <1>3. QED
    BY <1>1, <1>2

\* The model keeps its types for every ring length and every bound.
THEOREM DuplexTypeCorrect == Spec => []TypeOK
  <1>1. QED
    BY TypeInit, TypeStep, PTL DEF Spec

--------------------------------------------------------------------------------
(***************************************************************************)
(* The two buffers.  The thread decodes buffer "a" only, and what was      *)
(* received there came in an odd transfer: the transfers before step 1 and *)
(* step 9 are even in number, those between steps 2 and 8 odd until the    *)
(* transfer of step 4 is done.                                             *)
(***************************************************************************)
FirstHalf == {"arm", "retry", "take1"}
Odd(n) == n % 2 = 1

PhaseInv ==
  /\ dma_rx_buf = IF pc \in FirstHalf THEN "a" ELSE "b"
  /\ pc \in {"arm", "retry"} => spi = "idle" /\ spi_rx_sem = 0 /\ ~Odd(transfers)
  /\ pc = "rearm" => spi = "idle" /\ spi_rx_sem = 0 /\ Odd(transfers)
  /\ pc = "take1" =>
       \/ spi # "idle" /\ spi_rx_sem = 0 /\ ~Odd(transfers)
       \/ spi = "idle" /\ spi_rx_sem = 1 /\ Odd(transfers)
  /\ pc \notin FirstHalf \cup {"rearm"} =>
       \/ spi # "idle" /\ spi_rx_sem = 0 /\ Odd(transfers)
       \/ spi = "idle" /\ spi_rx_sem = 1 /\ ~Odd(transfers)
       \/ spi = "idle" /\ spi_rx_sem = 0 /\ Odd(transfers) /\ rearm_failed

\* The parity of a successor.
LEMMA OddSuccessor ==
  ASSUME NEW n \in Nat
  PROVE  Odd(n + 1) <=> ~Odd(n)
  BY DEF Odd

LEMMA PhaseInit ==
  Init => PhaseInv
  BY DEF Init, PhaseInv, FirstHalf, Odd

LEMMA PhaseStep ==
  TypeOK /\ PhaseInv /\ [Next]_vars => PhaseInv'
  <1> SUFFICES ASSUME TypeOK, PhaseInv, [Next]_vars PROVE PhaseInv'
    OBVIOUS
  <1> USE DEF PhaseInv, FirstHalf, Thread, thread, receive, alarm, inject, outcome, causes
  <1>1. CASE Arm
    BY <1>1 DEF Arm
  <1>2. CASE RetryWakeUp
    BY <1>2 DEF RetryWakeUp
  <1>3. CASE Take1
    BY <1>3 DEF Take1, TakeAndSwap, Other
  <1>4. CASE Rearm
    <2>1. CASE spi' = "armed"
      BY <1>4, <2>1 DEF Rearm
    <2>2. CASE rearm_failed' = TRUE /\ UNCHANGED spi
      BY <1>4, <2>2 DEF Rearm
    <2>3. QED
      BY <1>4, <2>1, <2>2 DEF Rearm
  <1>5. CASE Parse \/ QPut \/ QEvict \/ QReput \/ ArmPeek \/ ArmCas
    <2>1. /\ pc \in {"parse", "put", "evict", "reput", "peek", "cas"}
          /\ pc' \in {"put", "evict", "reput", "peek", "cas", "take2"}
          /\ UNCHANGED <<rx_buf, dma_rx_buf, spi, spi_rx_sem, transfers, rearm_failed>>
      BY <1>5 DEF Parse, QPut, QEvict, QReput, ArmPeek, ArmCas
    <2>2. QED
      BY <2>1
  <1>6. CASE Take2
    <2>1. /\ pc = "take2" /\ pc' = "arm" /\ spi_rx_sem' = spi_rx_sem - 1
          /\ spi_rx_sem > 0 /\ dma_rx_buf' = Other(dma_rx_buf) /\ UNCHANGED <<spi, transfers>>
      BY <1>6 DEF Take2, TakeAndSwap
    <2>2. spi = "idle" /\ spi_rx_sem = 1 /\ ~Odd(transfers) /\ dma_rx_buf = "b"
      BY <2>1
    <2>3. QED
      BY <2>1, <2>2 DEF Other
  <1>7. CASE InjectionAlarm
    BY <1>7 DEF InjectionAlarm
  <1>8. CASE SpiDone
    <2>1. /\ spi = "clocked" /\ spi' = "idle" /\ transfers' = transfers + 1
          /\ spi_rx_sem' = IF spi_rx_sem < 2 THEN spi_rx_sem + 1 ELSE 2
          /\ UNCHANGED <<pc, dma_rx_buf, rearm_failed>>
      BY <1>8 DEF SpiDone
    <2>2. spi_rx_sem = 0
      BY <2>1
    <2>3. Odd(transfers') <=> ~Odd(transfers)
      BY <2>1, OddSuccessor DEF TypeOK, Odd
    <2>4. pc' = pc /\ spi' = "idle" /\ spi_rx_sem' = 1 /\ dma_rx_buf' = dma_rx_buf
      BY <2>1, <2>2
    <2>5. pc \notin {"arm", "retry", "rearm"}
      BY <2>1
    <2>6. pc = "take1" => Odd(transfers')
      BY <2>1, <2>3
    <2>7. pc # "take1" => ~Odd(transfers')
      <3>1. pc # "take1" => pc \notin FirstHalf \cup {"rearm"}
        BY <2>5
      <3>2. pc # "take1" => Odd(transfers)
        BY <2>1, <3>1
      <3>3. QED
        BY <2>3, <3>2
    <2>8. QED
      BY <2>4, <2>5, <2>6, <2>7
  <1>9. CASE Tick
    <2>1. spi' # "idle" <=> spi # "idle"
      BY <1>9 DEF Tick
    <2>2. spi \in {"idle", "armed", "clocked"}
      BY DEF TypeOK
    <2>3. spi = "idle" => spi' = "idle"
      BY <1>9 DEF Tick
    <2>4. QED
      BY <1>9, <2>1, <2>3 DEF Tick
  <1>10. CASE UNCHANGED vars
    BY <1>10 DEF vars
  <1>11. QED
    BY <1>1, <1>2, <1>3, <1>4, <1>5, <1>6, <1>7, <1>8, <1>9, <1>10 DEF Next, ThreadStep

(***************************************************************************)
(* The thread can wait for ever in step 8 only, and only after the arming  *)
(* of step 4 failed.                                                       *)
(***************************************************************************)
THEOREM StuckOnlyByRearmCorrect == Spec => []StuckOnlyByRearm
  <1>1. PhaseInv => StuckOnlyByRearm
    BY DEF PhaseInv, StuckOnlyByRearm, FirstHalf
  <1>2. QED
    BY <1>1, TypeInit, TypeStep, PhaseInit, PhaseStep, PTL DEF Spec

--------------------------------------------------------------------------------
(***************************************************************************)
(* What is decoded and staged: frames of odd transfers, none older than    *)
(* the gate, none newer than the packet in the thread's hands, and what    *)
(* buffer "a" holds is no older than that.                                 *)
(***************************************************************************)
DecodedInv ==
  /\ rx_buf["a"] # 0 => Odd(rx_buf["a"]) /\ pkt <= rx_buf["a"]
  /\ rx_buf["a"] <= transfers /\ pkt <= transfers
  /\ pkt # 0 => Odd(pkt)
  /\ sync_confirmed => Odd(confirming)

RingInv ==
  /\ gate <= pkt
  /\ gate # 0 => Odd(gate)
  /\ \A i \in 1..Len(scheduler_q) :
       Odd(scheduler_q[i]) /\ gate <= scheduler_q[i] /\ scheduler_q[i] <= pkt
  /\ \A i, j \in 1..Len(scheduler_q) : i < j => scheduler_q[i] <= scheduler_q[j]

OrderInv == DecodedInv /\ RingInv

LEMMA OrderInit ==
  Init => OrderInv
  <1> SUFFICES ASSUME Init PROVE OrderInv
    OBVIOUS
  <1>1. rx_buf["a"] = 0 /\ Len(scheduler_q) = 0
    BY DEF Init, Bufs
  <1>2. QED
    BY <1>1 DEF Init, OrderInv, DecodedInv, RingInv

\* What the ring is after a frame is appended that is as new as any in it.
LEMMA AppendKeepsRing ==
  ASSUME TypeOK, RingInv, pkt \in Frame, Odd(pkt),
         scheduler_q' = Append(scheduler_q, pkt), UNCHANGED <<gate, pkt>>
  PROVE  RingInv'
  <1> DEFINE q == scheduler_q
  <1>1. q \in Seq(Frame) /\ \A i \in 1..Len(q) : q[i] \in Nat
    BY ConstantFacts DEF TypeOK, Frame
  <1>2. /\ Len(q) \in Nat /\ Len(Append(q, pkt)) = Len(q) + 1
        /\ \A i \in 1..Len(q) : Append(q, pkt)[i] = q[i]
        /\ Append(q, pkt)[Len(q) + 1] = pkt
    BY <1>1, AppendFacts
  <1>3. \A i \in 1..Len(q) + 1 : i \in 1..Len(q) \/ i = Len(q) + 1
    BY <1>2
  <1>4. pkt \in Nat /\ gate \in Nat /\ gate <= pkt
    BY ConstantFacts DEF TypeOK, RingInv
  <1>5. \A i \in 1..Len(q) + 1 : LET n == Append(q, pkt)[i] IN
          Odd(n) /\ gate <= n /\ n <= pkt
    BY <1>2, <1>3, <1>4 DEF RingInv
  <1>6. ASSUME NEW i \in 1..Len(q) + 1, NEW j \in 1..Len(q) + 1, i < j
        PROVE  Append(q, pkt)[i] <= Append(q, pkt)[j]
    <2>1. i \in 1..Len(q)
      BY <1>2, <1>6
    <2>2. CASE j \in 1..Len(q)
      BY <1>2, <1>6, <2>1, <2>2 DEF RingInv
    <2>3. CASE j = Len(q) + 1
      BY <1>2, <2>1, <2>3 DEF RingInv
    <2>4. QED
      BY <1>3, <2>2, <2>3
  <1>7. QED
    BY <1>2, <1>4, <1>5, <1>6 DEF RingInv

\* What it is after its head is gone, to the gate or evicted.
LEMMA TailKeepsRing ==
  ASSUME TypeOK, RingInv, scheduler_q # <<>>, scheduler_q' = Tail(scheduler_q),
         UNCHANGED pkt, gate' \in {gate, Head(scheduler_q)}
  PROVE  RingInv'
  <1> DEFINE q == scheduler_q
  <1>1. q \in Seq(Frame) /\ \A i \in 1..Len(q) : q[i] \in Nat
    BY ConstantFacts DEF TypeOK, Frame
  <1>2. /\ Head(q) = q[1] /\ Len(q) \in Nat /\ Len(q) >= 1
        /\ Len(Tail(q)) = Len(q) - 1
        /\ \A i \in 1..Len(Tail(q)) : Tail(q)[i] = q[i + 1]
    BY <1>1, HeadTail
  <1>3. \A i \in 1..Len(Tail(q)) : i + 1 \in 1..Len(q) /\ 1 < i + 1
    BY <1>2
  <1>4. Odd(q[1]) /\ q[1] <= pkt /\ \A i \in 1..Len(q) : q[1] <= q[i]
    BY <1>1, <1>2 DEF RingInv
  <1>5. gate' <= pkt /\ (gate' # 0 => Odd(gate')) /\ \A i \in 1..Len(q) : gate' <= q[i]
    BY <1>2, <1>4 DEF RingInv
  <1>6. \A i \in 1..Len(Tail(q)) : LET n == Tail(q)[i] IN
          Odd(n) /\ gate' <= n /\ n <= pkt
    BY <1>2, <1>3, <1>5 DEF RingInv
  <1>7. ASSUME NEW i \in 1..Len(Tail(q)), NEW j \in 1..Len(Tail(q)), i < j
        PROVE  Tail(q)[i] <= Tail(q)[j]
    <2>1. i + 1 \in 1..Len(q) /\ j + 1 \in 1..Len(q) /\ i + 1 < j + 1
      BY <1>3, <1>7
    <2>2. q[i + 1] <= q[j + 1]
      BY <2>1 DEF RingInv
    <2>3. QED
      BY <1>2, <2>2
  <1>8. QED
    BY <1>5, <1>6, <1>7 DEF RingInv

LEMMA DecodedStep ==
  ASSUME TypeOK, PhaseInv, DecodedInv, [Next]_vars
  PROVE  DecodedInv'
  <1> USE DEF DecodedInv, thread, receive, alarm, inject, outcome, causes
  <1>1. CASE Parse
    <2>1. pc = "parse" /\ dma_rx_buf = "b"
      BY <1>1 DEF Parse, Thread, PhaseInv, FirstHalf
    <2>2. Other(dma_rx_buf) = "a"
      BY <2>1 DEF Other
    <2>3. \/ UNCHANGED <<pkt, sync_confirmed>>
          \/ /\ rx_buf["a"] # 0 /\ pkt' = rx_buf["a"]
             /\ sync_confirmed \/ rx_buf["a"] = confirming
      BY <1>1, <2>2 DEF Parse
    <2>4. UNCHANGED <<rx_buf, transfers, confirming>>
      BY <1>1 DEF Parse
    <2>5. rx_buf["a"] \in Nat /\ pkt \in Nat
      BY ConstantFacts DEF TypeOK, Bufs
    <2>6. QED
      BY <2>3, <2>4, <2>5
  <1>2. CASE SpiDone
    <2>1. /\ spi = "clocked" /\ transfers' = transfers + 1
          /\ UNCHANGED <<pkt, sync_confirmed, confirming>>
      BY <1>2 DEF SpiDone
    <2>2. /\ rx_buf["a"] \in Nat /\ pkt \in Nat /\ transfers \in Nat /\ "a" \in Bufs
          /\ rx_buf \in [Bufs -> 0..MaxTransfers]
      BY ConstantFacts DEF TypeOK, Bufs
    <2>3. \/ rx_buf'["a"] \in {rx_buf["a"], 0}
          \/ dma_rx_buf = "a" /\ rx_buf'["a"] = transfers + 1
      BY <1>2, <2>2 DEF SpiDone
    <2>4. ASSUME dma_rx_buf = "a"
          PROVE  Odd(transfers + 1)
      <3>1. pc \in FirstHalf
        BY <2>4 DEF PhaseInv
      <3>2. ~Odd(transfers)
        BY <2>1, <3>1 DEF PhaseInv, FirstHalf
      <3>3. QED
        BY <2>2, <3>2, OddSuccessor
    <2>5. QED
      BY <2>1, <2>2, <2>3, <2>4
  <1>3. CASE \/ Arm \/ RetryWakeUp \/ Take1 \/ Rearm \/ QPut \/ QEvict \/ QReput \/ ArmPeek
             \/ ArmCas \/ Take2 \/ InjectionAlarm \/ Tick \/ UNCHANGED vars
    <2>1. UNCHANGED <<rx_buf, pkt, transfers, sync_confirmed, confirming>>
      BY <1>3 DEF Arm, RetryWakeUp, Take1, Take2, TakeAndSwap, Rearm, QPut, QEvict, QReput,
         ArmPeek, ArmCas, InjectionAlarm, Tick, vars
    <2>2. QED
      BY <2>1
  <1>4. QED
    BY <1>1, <1>2, <1>3 DEF Next, ThreadStep

LEMMA RingStep ==
  ASSUME TypeOK, PacketInv, PhaseInv, DecodedInv, RingInv, [Next]_vars
  PROVE  RingInv'
  <1> USE DEF thread, receive, alarm, inject, outcome, causes
  <1>1. CASE QPut \/ QReput
    <2>1. pkt \in Frame /\ Odd(pkt)
      BY <1>1, ConstantFacts DEF QPut, QReput, Thread, TypeOK, PacketInv, DecodedInv, Frame
    <2>2. UNCHANGED <<gate, pkt>>
      BY <1>1 DEF QPut, QReput
    <2>3. scheduler_q' \in {scheduler_q, Append(scheduler_q, pkt)}
      BY <1>1 DEF QPut, QReput
    <2>4. CASE scheduler_q' = scheduler_q
      BY <2>2, <2>4 DEF RingInv
    <2>5. QED
      BY <2>1, <2>2, <2>3, <2>4, AppendKeepsRing
  <1>2. CASE QEvict \/ InjectionAlarm
    <2>1. CASE scheduler_q = <<>>
      <3>1. UNCHANGED <<scheduler_q, gate, pkt>>
        BY <1>2, <2>1 DEF QEvict, InjectionAlarm
      <3>2. QED
        BY <3>1 DEF RingInv
    <2>2. CASE scheduler_q # <<>>
      <3>1. /\ scheduler_q' = Tail(scheduler_q) /\ UNCHANGED pkt
            /\ gate' \in {gate, Head(scheduler_q)}
        BY <1>2, <2>2 DEF QEvict, InjectionAlarm
      <3>2. QED
        BY <2>2, <3>1, TailKeepsRing
    <2>3. QED
      BY <2>1, <2>2
  <1>3. CASE Parse
    <2>1. UNCHANGED <<scheduler_q, gate>>
      BY <1>3 DEF Parse
    <2>2. pkt <= pkt'
      <3>1. pc = "parse" /\ dma_rx_buf = "b"
        BY <1>3 DEF Parse, Thread, PhaseInv, FirstHalf
      <3>2. Other(dma_rx_buf) = "a"
        BY <3>1 DEF Other
      <3>3. UNCHANGED pkt \/ (rx_buf["a"] # 0 /\ pkt' = rx_buf["a"])
        BY <1>3, <3>2 DEF Parse
      <3>4. pkt \in Int
        BY DEF TypeOK
      <3>5. QED
        BY <3>3, <3>4 DEF DecodedInv
    <2>3. pkt \in Nat /\ pkt' \in Nat /\ gate \in Nat
      BY TypeStep, ConstantFacts DEF TypeOK
    <2>4. \A i \in 1..Len(scheduler_q) : scheduler_q[i] \in Nat
      BY ConstantFacts DEF TypeOK
    <2>5. gate <= pkt' /\ \A i \in 1..Len(scheduler_q) : scheduler_q[i] <= pkt'
      BY <2>2, <2>3, <2>4 DEF RingInv
    <2>6. QED
      BY <2>1, <2>5 DEF RingInv
  <1>4. CASE \/ Arm \/ RetryWakeUp \/ Take1 \/ Rearm \/ ArmPeek \/ ArmCas \/ Take2 \/ SpiDone
             \/ Tick \/ UNCHANGED vars
    <2>1. UNCHANGED <<scheduler_q, gate, pkt>>
      BY <1>4 DEF Arm, RetryWakeUp, Take1, Take2, TakeAndSwap, Rearm, ArmPeek, ArmCas, SpiDone,
         Tick, vars
    <2>2. QED
      BY <2>1 DEF RingInv
  <1>5. QED
    BY <1>1, <1>2, <1>3, <1>4 DEF Next, ThreadStep

\* The staged frames, with the one at the gate before them.
LEMMA StagedOrder ==
  ASSUME TypeOK, OrderInv
  PROVE  EveryOtherFrame
  <1> DEFINE q == scheduler_q
             staged == <<gate>> \o q
  <1>1. q \in Seq(Nat) /\ gate \in Nat
    BY ConstantFacts DEF TypeOK
  <1>2. /\ DOMAIN staged = 1..Len(q) + 1 /\ Len(q) \in Nat /\ staged[1] = gate
        /\ \A i \in 2..Len(q) + 1 : staged[i] = q[i - 1] /\ i - 1 \in 1..Len(q)
    BY <1>1
  <1>3. ASSUME NEW i \in DOMAIN staged, staged[i] # 0
        PROVE  staged[i] % 2 = 1
    <2>1. CASE i = 1
      BY <1>2, <1>3, <2>1 DEF OrderInv, RingInv, Odd
    <2>2. CASE i \in 2..Len(q) + 1
      <3>1. staged[i] = q[i - 1] /\ i - 1 \in 1..Len(q)
        BY <1>2, <2>2
      <3>2. QED
        BY <3>1 DEF OrderInv, RingInv, Odd
    <2>3. QED
      BY <1>2, <2>1, <2>2
  <1>4. ASSUME NEW i \in DOMAIN staged, NEW j \in DOMAIN staged, i < j
        PROVE  staged[i] <= staged[j]
    <2>1. j \in 2..Len(q) + 1
      BY <1>2, <1>4
    <2>2. staged[j] = q[j - 1] /\ j - 1 \in 1..Len(q)
      BY <1>2, <2>1
    <2>3. CASE i = 1
      BY <1>2, <2>2, <2>3 DEF OrderInv, RingInv
    <2>4. CASE i \in 2..Len(q) + 1
      <3>1. staged[i] = q[i - 1] /\ i - 1 \in 1..Len(q) /\ i - 1 < j - 1
        BY <1>2, <1>4, <2>1, <2>4
      <3>2. QED
        BY <2>2, <3>1 DEF OrderInv, RingInv
    <2>5. QED
      BY <1>2, <2>3, <2>4
  <1>5. sync_confirmed => confirming % 2 = 1
    BY DEF OrderInv, DecodedInv, Odd
  <1>6. QED
    BY <1>3, <1>4, <1>5 DEF EveryOtherFrame

(***************************************************************************)
(* The node stages frames of every other transfer only, in order, and      *)
(* hears the confirmation of the clock in these alone.                     *)
(***************************************************************************)
THEOREM EveryOtherFrameCorrect == Spec => []EveryOtherFrame
  <1>1. TypeOK /\ PacketInv /\ PhaseInv /\ OrderInv /\ [Next]_vars => OrderInv'
    BY DecodedStep, RingStep DEF OrderInv
  <1>2. TypeOK /\ OrderInv => EveryOtherFrame
    BY StagedOrder
  <1>3. QED
    BY <1>1, <1>2, TypeInit, TypeStep, PhaseInit, PhaseStep, OrderInit, PTL DEF Spec

--------------------------------------------------------------------------------
(***************************************************************************)
(* Early packets.  The alarm is sound when the head of the ring is due by  *)
(* the time it ends, and harmless when the ring is empty and it ends       *)
(* before the thread, which has still to arm a transfer, can fill it.  Any *)
(* other alarm is foreign to the ring: an eviction or a stale alarm made   *)
(* it so, and it makes one packet early at most.                           *)
(***************************************************************************)
Sound == scheduler_q # <<>> /\ TimeOf[Head(scheduler_q)] <= now + alarm_left

Harmless ==
  /\ scheduler_q = <<>> /\ alarm_left <= 1
  /\ pc \in {"take2", "arm", "retry", "take1"}
  /\ pc = "take1" => spi = "armed" \/ alarm_left = 0

Foreign == alarm_armed = 1 /\ ~Sound /\ ~Harmless

ForeignInv ==
  IF Foreign THEN early < evicted + stale_arms ELSE early <= evicted + stale_arms

(***************************************************************************)
(* While nothing is evicted and every alarm can be set no alarm is         *)
(* foreign, since a packet that the thread has peeked at, and that has     *)
(* gone, was due, and the ring has an alarm of its own or is empty.        *)
(***************************************************************************)
Lossless == evicted = 0 /\ alarm_failures = 0

LosslessInv ==
  Lossless =>
    /\ early = 0 /\ ~Foreign
    /\ pc = "cas" =>
         \/ scheduler_q # <<>> /\ Head(scheduler_q) = next
         \/ TimeOf[next] <= now /\ (scheduler_q = <<>> \/ alarm_armed = 1)

\* While no difference is too large for the cast, an alarm that is set for a
\* packet does not end before its timestamp; and until now_us() starts again
\* it ends at the next tick if that has passed.
LEMMA DelayCovers ==
  ASSUME Horizon < HalfWord, TypeOK, NEW n \in 0..MaxTransfers
  PROVE  /\ Delay(n) \in Nat /\ Delay(n) >= 1 /\ TimeOf[n] \in Int
         /\ TimeOf[n] <= now + Delay(n)
         /\ Horizon < ClockWrap /\ TimeOf[n] <= now => Delay(n) = 1
  <1>1. /\ TimeOf[n] \in 0..Horizon /\ Horizon \in Nat
        /\ now \in 0..Horizon /\ HalfWord \in Nat
    BY DuplexAssumption, WordAssumption DEF TypeOK
  <1>2. NowUsAt(now) \in Nat /\ NowUsAt(now) <= now
    BY <1>1, NowUsFacts
  <1>3. DelayUs(n) = TimeOf[n] - NowUsAt(now)
    <2>1. /\ TimeOf[n] - NowUsAt(now) \in Int
          /\ -HalfWord <= TimeOf[n] - NowUsAt(now)
          /\ TimeOf[n] - NowUsAt(now) < HalfWord
      BY <1>1, <1>2
    <2>2. QED
      BY <2>1, Int32Value DEF DelayUs
  <1>4. Delay(n) \in Nat /\ Delay(n) >= 1 /\ TimeOf[n] - NowUsAt(now) <= Delay(n)
    BY <1>1, <1>2, <1>3 DEF Delay
  <1>5. TimeOf[n] <= now + Delay(n)
    BY <1>1, <1>2, <1>4
  <1>6. Horizon < ClockWrap /\ TimeOf[n] <= now => Delay(n) = 1
    <2>1. Horizon < ClockWrap => NowUsAt(now) = now
      BY <1>1, NowUsFacts
    <2>2. QED
      BY <1>1, <1>3, <2>1 DEF Delay
  <1>7. QED
    BY <1>1, <1>4, <1>5, <1>6

\* Setting an alarm for the packet that will be the head leaves none foreign.
LEMMA SetAlarmSound ==
  ASSUME Horizon < HalfWord, TypeOK, NEW n \in 0..MaxTransfers, SetAlarm(n), UNCHANGED now,
         scheduler_q' # <<>>, TimeOf[Head(scheduler_q')] = TimeOf[n]
  PROVE  ~Foreign'
  <1>1. CASE alarm_armed' = 0
    BY <1>1 DEF Foreign
  <1>2. CASE alarm_armed' = 1 /\ alarm_left' = Delay(n)
    BY <1>2, DelayCovers DEF Foreign, Sound
  <1>3. QED
    BY <1>1, <1>2 DEF SetAlarm

\* A step that leaves the alarm, the ring and the clock alone makes no alarm
\* foreign: a harmless one keeps the thread from staging.
LEMMA QuietStep ==
  ASSUME TypeOK, PhaseInv,
         Arm \/ RetryWakeUp \/ Take1 \/ Rearm \/ Parse \/ ArmPeek \/ Take2 \/ SpiDone
           \/ UNCHANGED vars
  PROVE  UNCHANGED <<alarm, scheduler_q, now, early, causes>> /\ (Foreign' => Foreign)
  <1> USE DEF Thread, thread, receive, alarm, inject, outcome, causes
  <1>1. UNCHANGED <<alarm, scheduler_q, now, early, causes>>
    BY DEF Arm, RetryWakeUp, Take1, Take2, TakeAndSwap, Rearm, Parse, ArmPeek, SpiDone, vars
  <1>2. ASSUME alarm_armed = 1, Harmless
        PROVE  Harmless'
    <2>1. CASE alarm_left = 0
      <3>1. SpiDone \/ UNCHANGED vars
        BY <1>2, <2>1 DEF AlarmDue, Arm, RetryWakeUp, Take1, Take2, TakeAndSwap, Rearm, Parse,
           ArmPeek
      <3>2. UNCHANGED pc
        BY <3>1 DEF SpiDone, vars
      <3>3. QED
        BY <1>1, <1>2, <2>1, <3>2 DEF Harmless
    <2>2. CASE alarm_left # 0
      <3>1. pc \in {"take2", "arm", "retry"} \/ (pc = "take1" /\ spi = "armed")
        BY <1>2, <2>2 DEF Harmless
      <3>2. pc = "take1" => spi_rx_sem = 0
        BY <3>1 DEF PhaseInv, FirstHalf
      <3>3. pc' \in {"take2", "arm", "retry"} \/ (pc' = "take1" /\ spi' = "armed")
        BY <3>1, <3>2 DEF Arm, RetryWakeUp, Take1, Take2, TakeAndSwap, Rearm, Parse, ArmPeek,
           SpiDone, vars, TypeOK
      <3>4. QED
        BY <1>1, <1>2, <3>3 DEF Harmless
    <2>3. QED
      BY <2>1, <2>2
  <1>3. QED
    BY <1>1, <1>2 DEF Foreign, Sound

\* Neither does staging a packet.
LEMMA StagingStep ==
  ASSUME TypeOK, PacketInv, QPut \/ QReput
  PROVE  UNCHANGED <<alarm, now, early, causes>> /\ (Foreign' => Foreign)
  <1> USE DEF thread, receive, alarm, inject, outcome, causes
  <1>1. UNCHANGED <<alarm, now, early, causes>> /\ pc \in {"put", "reput"}
    BY DEF QPut, QReput, Thread
  <1>2. scheduler_q \in Seq(Frame) /\ pkt \in Frame
    BY <1>1, ConstantFacts DEF TypeOK, PacketInv, Frame
  <1>3. scheduler_q' \in {scheduler_q, Append(scheduler_q, pkt)}
    BY DEF QPut, QReput
  <1>4. scheduler_q # <<>> =>
          Append(scheduler_q, pkt) # <<>> /\ Head(Append(scheduler_q, pkt)) = Head(scheduler_q)
    BY <1>2
  <1>5. Sound => Sound'
    BY <1>1, <1>3, <1>4 DEF Sound
  <1>6. ~Harmless
    BY <1>1 DEF Harmless
  <1>7. QED
    BY <1>1, <1>5, <1>6 DEF Foreign

\* The clock brings the end of an alarm nearer by as much as it goes on itself.
LEMMA TickStep ==
  ASSUME TypeOK, Tick
  PROVE  UNCHANGED <<scheduler_q, alarm_armed, early, causes>> /\ now <= now'
         /\ (Foreign' => Foreign)
  <1> USE DEF thread, receive, alarm, inject, outcome, causes
  <1>1. /\ UNCHANGED <<pc, scheduler_q, alarm_armed, early, causes>>
        /\ now' = IF now < Horizon THEN now + 1 ELSE now
        /\ alarm_left' = IF alarm_left > 0 THEN alarm_left - 1 ELSE 0
        /\ ~AlarmDue
    BY DEF Tick
  <1>2. now \in 0..Horizon /\ alarm_left \in Nat /\ Horizon \in Nat
    BY ConstantFacts DEF TypeOK
  <1>3. now <= now'
    BY <1>1, <1>2
  <1>4. ASSUME alarm_armed = 1, Sound
        PROVE  Sound'
    <2>1. TimeOf[Head(scheduler_q)] \in 0..Horizon
      <3>1. Head(scheduler_q) \in 0..MaxTransfers
        BY <1>4, HeadTail, ConstantFacts DEF Sound, TypeOK, Frame
      <3>2. QED
        BY <3>1, DuplexAssumption
    <2>2. alarm_left > 0
      BY <1>1, <1>2, <1>4 DEF AlarmDue
    <2>3. TimeOf[Head(scheduler_q)] <= now' + alarm_left'
      BY <1>1, <1>2, <1>4, <2>1, <2>2 DEF Sound
    <2>4. QED
      BY <1>1, <1>4, <2>3 DEF Sound
  <1>5. ASSUME alarm_armed = 1, Harmless
        PROVE  Harmless'
    <2>1. alarm_left' = 0
      BY <1>1, <1>2, <1>5 DEF Harmless
    <2>2. QED
      BY <1>1, <1>5, <2>1 DEF Harmless
  <1>6. QED
    BY <1>1, <1>3, <1>4, <1>5 DEF Foreign

\* An eviction counts as a cause; to find the ring drained changes nothing.
LEMMA EvictStep ==
  ASSUME TypeOK, QEvict
  PROVE  /\ UNCHANGED <<alarm, now, early, stale_arms>>
         /\ \/ evicted' = evicted + 1
            \/ UNCHANGED <<evicted, scheduler_q>> /\ (Foreign' => Foreign)
  <1> USE DEF thread, receive, alarm, inject, outcome
  <1>1. UNCHANGED <<alarm, now, early, stale_arms>> /\ pc = "evict"
    BY DEF QEvict, Thread
  <1>2. evicted' = evicted + 1 \/ UNCHANGED <<evicted, scheduler_q>>
    BY DEF QEvict
  <1>3. UNCHANGED scheduler_q => (Foreign' => Foreign)
    BY <1>1 DEF Foreign, Sound, Harmless
  <1>4. QED
    BY <1>1, <1>2, <1>3

\* The alarm of the thread is foreign only if it is stale, and then it is
\* counted.
LEMMA CasStep ==
  ASSUME Horizon < HalfWord, TypeOK, ArmCas
  PROVE  /\ UNCHANGED <<scheduler_q, now, early, evicted>>
         /\ \/ stale_arms' = stale_arms + 1 /\ alarm_armed = 0 /\ Stale
            \/ UNCHANGED stale_arms /\ (Foreign' => Foreign)
  <1> USE DEF thread, receive, alarm, inject, outcome
  <1>1. /\ UNCHANGED <<scheduler_q, now, early, evicted, next>>
        /\ pc = "cas" /\ pc' = "take2"
        /\ stale_arms' = IF alarm_armed = 0 /\ alarm_armed' = 1 /\ Stale
                           THEN stale_arms + 1 ELSE stale_arms
    BY DEF ArmCas, Thread
  <1>2. alarm_armed \in {0, 1} /\ next \in 0..MaxTransfers
    BY DEF TypeOK
  <1>3. CASE alarm_armed = 1
    <2>1. UNCHANGED <<alarm, stale_arms>>
      BY <1>1, <1>3 DEF ArmCas
    <2>2. QED
      BY <1>1, <2>1 DEF Foreign, Sound, Harmless
  <1>4. CASE alarm_armed = 0 /\ Stale /\ alarm_armed' = 1
    BY <1>1, <1>4
  <1>5. CASE alarm_armed = 0 /\ alarm_armed' # 1
    BY <1>1, <1>5 DEF Foreign
  <1>6. CASE alarm_armed = 0 /\ ~Stale /\ alarm_armed' = 1
    <2>1. SetAlarm(next) /\ UNCHANGED stale_arms
      BY <1>1, <1>6 DEF ArmCas
    <2>2. alarm_left' = Delay(next)
      BY <1>6, <2>1 DEF SetAlarm
    <2>3. CASE scheduler_q = <<>>
      <3>1. Delay(next) \in Nat /\ ~(Delay(next) > 1)
        BY <1>2, <1>6, <2>3, DelayCovers DEF Stale
      <3>2. alarm_left' <= 1
        BY <2>2, <3>1
      <3>3. Harmless'
        BY <1>1, <2>3, <3>2 DEF Harmless
      <3>4. QED
        BY <1>1, <2>1, <3>3 DEF Foreign
    <2>4. CASE scheduler_q # <<>>
      <3>1. Head(scheduler_q) = next
        BY <1>6, <2>4 DEF Stale
      <3>2. ~Foreign'
        BY <1>1, <1>2, <2>1, <2>4, <3>1, SetAlarmSound
      <3>3. QED
        BY <1>1, <2>1, <3>2
    <2>5. QED
      BY <2>3, <2>4
  <1>7. QED
    BY <1>2, <1>3, <1>4, <1>5, <1>6

\* The interrupt shows a packet early only for a foreign alarm, and sets none.
LEMMA AlarmStep ==
  ASSUME Horizon < HalfWord, TypeOK, InjectionAlarm
  PROVE  /\ UNCHANGED <<pc, next, now, causes>> /\ ~Foreign'
         /\ UNCHANGED early \/ (Foreign /\ early' = early + 1)
         /\ UNCHANGED scheduler_q \/ scheduler_q' = Tail(scheduler_q)
         /\ scheduler_q' = <<>> \/ alarm_armed' = 1 \/ alarm_failures' = alarm_failures + 1
  <1> USE DEF thread, receive, alarm, inject, outcome, causes
  <1>1. /\ UNCHANGED <<pc, next, now, causes>>
        /\ alarm_armed = 1 /\ alarm_left = 0
    BY DEF InjectionAlarm, AlarmDue
  <1>2. CASE scheduler_q = <<>>
    <2>1. alarm_armed' = 0 /\ UNCHANGED <<scheduler_q, early>>
      BY <1>2 DEF InjectionAlarm
    <2>2. QED
      BY <1>1, <1>2, <2>1 DEF Foreign
  <1>3. CASE scheduler_q # <<>>
    <2> DEFINE q == scheduler_q
    <2>1. /\ scheduler_q' = Tail(q)
          /\ early' = IF TimeOf[Head(q)] > now THEN early + 1 ELSE early
          /\ IF Len(q) = 1
               THEN alarm_armed' = 0 /\ alarm_left' = 0 /\ UNCHANGED <<faults, alarm_failures>>
               ELSE SetAlarm(q[2])
      BY <1>3 DEF InjectionAlarm
    <2>2. q \in Seq(Frame)
      BY DEF TypeOK, Frame
    <2>3. /\ Head(q) \in Frame /\ Len(q) \in Nat /\ Len(q) >= 1
          /\ Tail(q) \in Seq(Frame) /\ Len(Tail(q)) = Len(q) - 1
          /\ \A i \in 1..Len(Tail(q)) : Tail(q)[i] = q[i + 1]
      BY <1>3, <2>2, HeadTail
    <2>4. TimeOf[Head(q)] \in Int /\ now \in Int
      BY <2>3, ConstantFacts DEF Frame, TypeOK
    <2>5. TimeOf[Head(q)] > now => Foreign
      BY <1>1, <1>3, <2>4 DEF Foreign, Sound, Harmless
    <2>6. UNCHANGED early \/ (Foreign /\ early' = early + 1)
      BY <2>1, <2>5
    <2>7. CASE Len(q) = 1
      <3>1. scheduler_q' = <<>>
        BY <2>1, <2>3, <2>7
      <3>2. QED
        BY <1>1, <2>1, <2>6, <2>7, <3>1 DEF Foreign
    <2>8. CASE Len(q) # 1
      <3>1. Len(Tail(q)) >= 1
        BY <2>3, <2>8
      <3>2. Tail(q) # <<>> /\ Head(Tail(q)) = Tail(q)[1]
        <4>1. Tail(q) # <<>>
          BY <3>1
        <4>2. QED
          BY <2>3, <4>1, HeadTail
      <3>3. Head(Tail(q)) = q[2]
        BY <2>3, <3>1, <3>2
      <3>4. q[2] \in 0..MaxTransfers
        BY <2>2, <2>3, <2>8, ConstantFacts DEF Frame
      <3>5. SetAlarm(q[2])
        BY <2>1, <2>8
      <3>6. ~Foreign'
        BY <1>1, <2>1, <3>2, <3>3, <3>4, <3>5, SetAlarmSound
      <3>7. alarm_armed' = 1 \/ alarm_failures' = alarm_failures + 1
        BY <3>5 DEF SetAlarm
      <3>8. QED
        BY <1>1, <2>1, <2>6, <3>6, <3>7
    <2>9. QED
      BY <2>7, <2>8
  <1>4. QED
    BY <1>2, <1>3

LEMMA ForeignStep ==
  ASSUME Horizon < HalfWord, TypeOK, PacketInv, PhaseInv, ForeignInv, [Next]_vars
  PROVE  ForeignInv'
  <1> USE DEF ForeignInv, causes
  <1>1. early \in Nat /\ evicted \in Nat /\ stale_arms \in Nat
    BY DEF TypeOK
  <1>2. CASE \/ Arm \/ RetryWakeUp \/ Take1 \/ Rearm \/ Parse \/ ArmPeek \/ Take2 \/ SpiDone
             \/ UNCHANGED vars
    BY <1>1, <1>2, QuietStep
  <1>3. CASE QPut \/ QReput
    BY <1>1, <1>3, StagingStep
  <1>4. CASE Tick
    BY <1>1, <1>4, TickStep
  <1>5. CASE QEvict
    BY <1>1, <1>5, EvictStep
  <1>6. CASE ArmCas
    BY <1>1, <1>6, CasStep
  <1>7. CASE InjectionAlarm
    BY <1>1, <1>7, AlarmStep
  <1>8. QED
    BY <1>2, <1>3, <1>4, <1>5, <1>6, <1>7 DEF Next, ThreadStep

\* Neither kind of loss is ever taken back.
LEMMA LossIsKept ==
  ASSUME TypeOK, [Next]_vars, Lossless'
  PROVE  Lossless /\ UNCHANGED <<evicted, alarm_failures>>
  <1> USE DEF thread, receive, alarm, inject, outcome, causes
  <1>1. evicted \in Nat /\ alarm_failures \in Nat
    BY DEF TypeOK
  <1>2. evicted' \in {evicted, evicted + 1}
    BY DEF Next, ThreadStep, Arm, RetryWakeUp, Take1, Take2, TakeAndSwap, Rearm, Parse, QPut,
       QEvict, QReput, ArmPeek, ArmCas, InjectionAlarm, SpiDone, Tick, vars
  <1>3. alarm_failures' \in {alarm_failures, alarm_failures + 1}
    BY DEF Next, ThreadStep, Arm, RetryWakeUp, Take1, Take2, TakeAndSwap, Rearm, Parse, QPut,
       QEvict, QReput, ArmPeek, ArmCas, InjectionAlarm, SpiDone, Tick, vars, SetAlarm
  <1>4. QED
    BY <1>1, <1>2, <1>3 DEF Lossless

\* Only the thread goes to its compare-and-swap, with the head it peeked at.
LEMMA AtCas ==
  ASSUME [Next]_vars, pc' = "cas"
  PROVE  \/ /\ ArmPeek /\ scheduler_q' # <<>> /\ Head(scheduler_q') = next'
         \/ /\ InjectionAlarm \/ SpiDone \/ Tick \/ UNCHANGED vars
            /\ pc = "cas" /\ UNCHANGED next
  <1> USE DEF Thread, thread, receive, alarm, inject, outcome, causes
  <1>1. CASE ArmPeek
    BY <1>1 DEF ArmPeek
  <1>2. CASE InjectionAlarm \/ SpiDone \/ Tick \/ UNCHANGED vars
    BY <1>2 DEF InjectionAlarm, SpiDone, Tick, vars
  <1>3. QED
    BY <1>1, <1>2 DEF Next, ThreadStep, Arm, RetryWakeUp, Take1, Take2, TakeAndSwap, Rearm,
       Parse, QPut, QEvict, QReput, ArmCas

LEMMA LosslessStep ==
  ASSUME Horizon < HalfWord, Horizon < ClockWrap,
         TypeOK, PacketInv, PhaseInv, LosslessInv, [Next]_vars
  PROVE  LosslessInv'
  <1> SUFFICES ASSUME Lossless'
               PROVE  /\ early' = 0 /\ ~Foreign'
                      /\ pc' = "cas" =>
                           \/ scheduler_q' # <<>> /\ Head(scheduler_q') = next'
                           \/ /\ TimeOf[next'] <= now'
                              /\ scheduler_q' = <<>> \/ alarm_armed' = 1
    BY DEF LosslessInv
  <1>1. Lossless /\ UNCHANGED <<evicted, alarm_failures>>
    BY LossIsKept
  <1>2. early = 0 /\ ~Foreign
    BY <1>1 DEF LosslessInv
  <1>3. evicted \in Nat /\ stale_arms \in Nat /\ alarm_failures \in Nat
    BY DEF TypeOK
  <1>4. early' = 0 /\ ~Foreign'
    <2>1. CASE \/ Arm \/ RetryWakeUp \/ Take1 \/ Rearm \/ Parse \/ ArmPeek \/ Take2 \/ SpiDone
               \/ UNCHANGED vars
      BY <1>2, <2>1, QuietStep
    <2>2. CASE QPut \/ QReput \/ Tick
      BY <1>2, <2>2, StagingStep, TickStep
    <2>3. CASE QEvict
      BY <1>1, <1>2, <1>3, <2>3, EvictStep
    <2>4. CASE ArmCas
      <3>1. pc = "cas"
        BY <2>4 DEF ArmCas, Thread
      <3>2. \/ scheduler_q # <<>> /\ Head(scheduler_q) = next
            \/ TimeOf[next] <= now /\ (scheduler_q = <<>> \/ alarm_armed = 1)
        BY <1>1, <3>1 DEF LosslessInv
      <3>3. TimeOf[next] <= now => Delay(next) = 1
        BY DelayCovers DEF TypeOK
      <3>4. ~(alarm_armed = 0 /\ Stale)
        BY <3>2, <3>3 DEF Stale
      <3>5. QED
        BY <1>2, <2>4, <3>4, CasStep
    <2>5. CASE InjectionAlarm
      BY <1>2, <2>5, AlarmStep
    <2>6. QED
      BY <2>1, <2>2, <2>3, <2>4, <2>5 DEF Next, ThreadStep
  <1>5. ASSUME pc = "cas", UNCHANGED next, InjectionAlarm \/ SpiDone \/ Tick \/ UNCHANGED vars
        PROVE  \/ scheduler_q' # <<>> /\ Head(scheduler_q') = next'
               \/ TimeOf[next'] <= now' /\ (scheduler_q' = <<>> \/ alarm_armed' = 1)
    <2>1. \/ scheduler_q # <<>> /\ Head(scheduler_q) = next
          \/ TimeOf[next] <= now /\ (scheduler_q = <<>> \/ alarm_armed = 1)
      BY <1>1, <1>5 DEF LosslessInv
    <2>2. TimeOf[next] \in Int /\ now \in Int /\ now' \in Int
      BY TypeStep, ConstantFacts DEF TypeOK
    <2>3. CASE SpiDone \/ UNCHANGED vars
      BY <1>5, <2>1, <2>3, QuietStep DEF alarm
    <2>4. CASE Tick
      BY <1>5, <2>1, <2>2, <2>4, TickStep
    <2>5. CASE InjectionAlarm
      <3>1. UNCHANGED now /\ (scheduler_q' = <<>> \/ alarm_armed' = 1)
        BY <1>1, <1>3, <2>5, AlarmStep
      <3>2. CASE TimeOf[next] <= now
        BY <1>5, <3>1, <3>2
      <3>3. CASE scheduler_q # <<>> /\ Head(scheduler_q) = next
        <4>1. alarm_armed = 1 /\ alarm_left = 0
          BY <2>5 DEF InjectionAlarm, AlarmDue
        <4>2. Sound
          BY <1>2, <3>3, <4>1 DEF Foreign, Harmless
        <4>3. TimeOf[next] <= now
          BY <2>2, <3>3, <4>1, <4>2 DEF Sound
        <4>4. QED
          BY <3>2, <4>3
      <3>4. QED
        BY <2>1, <3>2, <3>3
    <2>6. QED
      BY <1>5, <2>3, <2>4, <2>5
  <1>6. QED
    BY <1>4, <1>5, AtCas

LEMMA EarlyInit ==
  Init => ForeignInv /\ LosslessInv
  BY DEF Init, ForeignInv, LosslessInv, Foreign

(***************************************************************************)
(* In a stream of less than 2^31 us every early packet has a cause of its  *)
(* own: an eviction, or an alarm that was set for a packet that had gone.  *)
(* (In a longer one the int32_t delay of scheduler_fs2.c:211 can be        *)
(* negative for a packet that is not due, and is clamped to 1.)            *)
(***************************************************************************)
THEOREM EarlyBoundedCorrect ==
  ASSUME Horizon < HalfWord
  PROVE  Spec => []EarlyBounded
  <1>1. TypeOK /\ PacketInv /\ PhaseInv /\ ForeignInv /\ [Next]_vars => ForeignInv'
    BY ForeignStep
  <1>2. TypeOK /\ ForeignInv => EarlyBounded
    BY DEF TypeOK, ForeignInv, EarlyBounded
  <1>3. QED
    BY <1>1, <1>2, TypeInit, TypeStep, PhaseInit, PhaseStep, EarlyInit, PTL DEF Spec

(***************************************************************************)
(* Until now_us() starts again no race of the thread and the interrupt     *)
(* makes a packet early as long as the ring does not overflow and every    *)
(* alarm can be set.                                                       *)
(***************************************************************************)
THEOREM EarlyOnlyAfterLossCorrect ==
  ASSUME Horizon < HalfWord, Horizon < ClockWrap
  PROVE  Spec => []EarlyOnlyAfterLoss
  <1>1. TypeOK /\ PacketInv /\ PhaseInv /\ LosslessInv /\ [Next]_vars => LosslessInv'
    BY LosslessStep
  <1>2. TypeOK /\ LosslessInv => EarlyOnlyAfterLoss
    BY DEF TypeOK, LosslessInv, Lossless, EarlyOnlyAfterLoss
  <1>3. QED
    BY <1>1, <1>2, TypeInit, TypeStep, PhaseInit, PhaseStep, EarlyInit, PTL DEF Spec

================================================================================
