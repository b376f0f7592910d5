---------------------------- MODULE LidarPathProofs -----------------------------
(***************************************************************************)
(* Proofs, for every queue length, both periods and any number of packets, *)
(* of the safety properties of LidarPath.                                  *)
(***************************************************************************)
EXTENDS LidarPath, TLAPS

LEMMA ConstantFacts ==
  /\ QueueLen \in Nat /\ QueueLen >= 1
  /\ PeriodTicks \in Nat /\ PeriodTicks >= 1
  /\ ConsumerTicks \in Nat /\ ConsumerTicks >= 1
  /\ MaxPackets \in Nat
  BY PathAssumption

LEMMA RegisterFacts ==
  /\ LIDAR_REG_ACQ_COMMAND = 0 /\ LIDAR_REG_STATUS = 1
  /\ LIDAR_REG_FULL_DELAY_HIGH = 15 /\ LIDAR_REG_FULL_DELAY_LOW = 16
  /\ LastLidarReg = 17
  /\ Operations = {"command", "status", "low", "high"}
  /\ Register["command"] = 0 /\ Register["status"] = 1
  /\ Register["low"] = 16 /\ Register["high"] = 17
  /\ NextOp["command"] = "status" /\ NextOp["status"] = "low"
  /\ NextOp["low"] = "high" /\ NextOp["high"] = "command"
  BY DEF LIDAR_REG_ACQ_COMMAND, LIDAR_REG_STATUS, LIDAR_REG_FULL_DELAY_HIGH,
     LIDAR_REG_FULL_DELAY_LOW, LastLidarReg, Operations, Register, NextOp

LEMMA ProductFacts ==
  ASSUME NEW a \in Nat, NEW b \in Nat, NEW k \in Nat, a <= b
  PROVE  a * k \in Nat /\ a * k <= b * k /\ (a + 1) * k = a * k + k
  <1>1. PICK d \in Nat : b = a + d
    BY b - a \in Nat
  <1>2. d * k \in Nat /\ a * k \in Nat
    OBVIOUS
  <1>3. b * k = a * k + d * k
    BY <1>1
  <1>4. (a + 1) * k = a * k + k
    OBVIOUS
  <1>5. QED
    BY <1>2, <1>3, <1>4

\* What a byte tells of the distance is of a type, whatever the register.
LEMMA ServedType ==
  ASSUME EmulatorType, NEW reg
  PROVE  ServedByte(reg) \in Byte
  BY DEF EmulatorType, ServedByte, Byte, NoDistance

--------------------------------------------------------------------------------
(***************************************************************************)
(* Type correctness.                                                       *)
(***************************************************************************)

\* Every bus event of the driver keeps the emulator's types.
LEMMA EmulatorStep ==
  ASSUME EmulatorType,
         \/ LidarWriteRequested \/ LidarReadRequested \/ LidarReadProcessed \/ LidarStop
         \/ \E val \in 0..LastLidarReg : LidarWriteReceived(val)
  PROVE  EmulatorType'
  <1> USE RegisterFacts DEF EmulatorType
  <1>1. ASSUME NEW reg, NEW before \in SUBSET Nat, ServeRegisterByte(reg, before)
        PROVE  /\ transaction_distance_cache' \in Nat
               /\ lidar_high' \in SUBSET Nat
               /\ lidar_low' \in SUBSET Nat
    <2>1. /\ transaction_distance_cache' \in {simulated_distance_mm, transaction_distance_cache}
          /\ lidar_high' \in {{simulated_distance_mm}, before}
          /\ lidar_low' \in {{transaction_distance_cache}, {}}
      BY <1>1 DEF ServeRegisterByte
    <2>2. QED
      BY <2>1
  <1>2. CASE LidarWriteRequested
    BY <1>2 DEF LidarWriteRequested
  <1>3. ASSUME NEW val \in 0..LastLidarReg, LidarWriteReceived(val)
        PROVE  EmulatorType'
    <2>1. active_register' \in 0..LastLidarReg
      BY <1>3 DEF LidarWriteReceived
    <2>2. next_byte_is_reg_address' = FALSE
      BY <1>3 DEF LidarWriteReceived
    <2>3. QED
      BY <1>3, <2>1, <2>2 DEF LidarWriteReceived
  <1>4. CASE LidarReadRequested
    <2>1. /\ transaction_distance_cache' \in Nat
          /\ lidar_high' \in SUBSET Nat /\ lidar_low' \in SUBSET Nat
      BY <1>1, <1>4 DEF LidarReadRequested
    <2>2. diag_last_lidar_mm' \in Nat
      BY <1>4 DEF LidarReadRequested
    <2>3. QED
      BY <1>4, <2>1, <2>2 DEF LidarReadRequested
  <1>5. CASE LidarReadProcessed
    <2>1. /\ transaction_distance_cache' \in Nat
          /\ lidar_high' \in SUBSET Nat /\ lidar_low' \in SUBSET Nat
      BY <1>1, <1>5 DEF LidarReadProcessed
    <2>2. active_register' \in 0..LastLidarReg
      BY <1>5 DEF LidarReadProcessed
    <2>3. QED
      BY <1>5, <2>1, <2>2 DEF LidarReadProcessed
  <1>6. CASE LidarStop
    BY <1>6 DEF LidarStop
  <1>7. QED
    BY <1>2, <1>3, <1>4, <1>5, <1>6

\* And so does every step.
LEMMA EmulatorTypeStep ==
  ASSUME TypeOK, [Next]_vars
  PROVE  EmulatorType'
  <1>0. EmulatorType /\ Register[rd_op] \in 0..LastLidarReg
    BY RegisterFacts DEF TypeOK
  <1>1. CASE StartWrite \/ ReadByte \/ ReadAhead \/ StopTransaction
    BY <1>0, <1>1, EmulatorStep DEF StartWrite, ReadByte, ReadAhead, StopTransaction
  <1>2. CASE WritePointer
    BY <1>0, <1>2, EmulatorStep DEF WritePointer
  <1>3. CASE WriteCommand
    <2>1. LIDAR_LITE_V4_CMD_MEASURE \in 0..LastLidarReg
      BY RegisterFacts DEF LIDAR_LITE_V4_CMD_MEASURE
    <2>2. QED
      BY <1>0, <1>3, <2>1, EmulatorStep DEF WriteCommand
  <1>4. CASE FetchFails
    BY <1>0, <1>4, EmulatorStep DEF FetchFails, lidarVars, lidarBus, EmulatorType
  <1>5. CASE NewDistance
    BY <1>0, <1>5 DEF NewDistance, LidarUpdateDistance, lidarBus, EmulatorType
  <1>6. UNCHANGED lidarVars => EmulatorType'
    BY <1>0 DEF lidarVars, lidarBus, EmulatorType
  <1>7. QED
    BY <1>1, <1>2, <1>3, <1>4, <1>5, <1>6 DEF Next, ReaderStep, ConsumerStep, TimerExpires,
       Tick, TakeSem, PutDistance, ConsumerGets, ConsumerWakes, vars

\* The steps of one fetch, and those that leave the queue alone, by what they
\* do to the program counters and the clock.
LEMMA ControlTypeStep ==
  ASSUME TypeOK, [Next]_vars
  PROVE  /\ lidar_sem' \in {0, 1}
         /\ lidar_timer' \in 0..PeriodTicks
         /\ rd_pc' \in OnBus \union {"take", "put"}
         /\ rd_op' \in Operations
         /\ cs_pc' \in {"get", "sleep"}
         /\ cs_timer' \in 0..ConsumerTicks
  <1> USE ConstantFacts, RegisterFacts
      DEF TypeOK, OnBus, reader, consumer, clock
  <1>1. CASE TimerExpires \/ Tick
    BY <1>1 DEF TimerExpires, Tick
  <1>2. CASE TakeSem \/ StartWrite \/ WritePointer \/ WriteCommand \/ ReadByte \/ ReadAhead
    BY <1>2 DEF TakeSem, StartWrite, WritePointer, WriteCommand, ReadByte, ReadAhead
  <1>3. CASE StopTransaction
    BY <1>3 DEF StopTransaction
  <1>4. CASE FetchFails \/ PutDistance \/ NewDistance
    BY <1>4 DEF FetchFails, PutDistance, NewDistance
  <1>5. CASE ConsumerStep
    BY <1>5 DEF ConsumerStep, ConsumerGets, ConsumerWakes
  <1>6. CASE UNCHANGED vars
    BY <1>6 DEF vars
  <1>7. QED
    BY <1>1, <1>2, <1>3, <1>4, <1>5, <1>6 DEF Next, ReaderStep

LEMMA BytesTypeStep ==
  ASSUME TypeOK, [Next]_vars
  PROVE  bytes' \in [{"low", "high"} -> Byte]
  <1>1. CASE ReadByte
    <2>1. ServedByte(active_register) \in Byte
      BY ServedType DEF TypeOK
    <2>2. QED
      BY <1>1, <2>1 DEF ReadByte, TypeOK
  <1>2. CASE ~ReadByte
    <2>1. bytes' = bytes
      BY <1>2 DEF Next, ReaderStep, ConsumerStep, TimerExpires, Tick, TakeSem, StartWrite,
         WritePointer, WriteCommand, ReadAhead, StopTransaction, FetchFails, PutDistance,
         ConsumerGets, ConsumerWakes, NewDistance, reader, vars
    <2>2. QED
      BY <2>1 DEF TypeOK
  <1>3. QED
    BY <1>1, <1>2

\* What a step does to the queue: nothing, or one of three things.
LEMMA QueueStep ==
  ASSUME [Next]_vars
  PROVE  \/ Tick /\ lidar_msgq' = Older(lidar_msgq)
         \/ PutDistance
         \/ ConsumerGets
         \/ UNCHANGED lidar_msgq
  BY DEF Next, ReaderStep, ConsumerStep, TimerExpires, Tick, TakeSem, StartWrite,
     WritePointer, WriteCommand, ReadByte, ReadAhead, StopTransaction, FetchFails,
     ConsumerWakes, NewDistance, vars

LEMMA QueueTypeStep ==
  ASSUME TypeOK, [Next]_vars
  PROVE  lidar_msgq' \in Seq(Distance) /\ Len(lidar_msgq') <= QueueLen
  <1> USE ConstantFacts
  <1>0. lidar_msgq \in Seq(Distance) /\ Len(lidar_msgq) <= QueueLen
    BY DEF TypeOK
  <1>1. CASE lidar_msgq' = Older(lidar_msgq)
    <2>1. ASSUME NEW i \in 1..Len(lidar_msgq)
          PROVE  [lidar_msgq[i] EXCEPT !.age = @ + 1] \in Distance
      <3>1. lidar_msgq[i] \in Distance
        BY <1>0
      <3>2. QED
        BY <3>1 DEF Distance
    <2>2. DOMAIN lidar_msgq = 1..Len(lidar_msgq) /\ Len(lidar_msgq) \in Nat
      BY <1>0
    <2>3. Older(lidar_msgq) \in [1..Len(lidar_msgq) -> Distance]
      BY <2>1, <2>2 DEF Older
    <2>4. QED
      BY <1>0, <1>1, <2>2, <2>3
  <1>2. CASE PutDistance
    <2>1. [low |-> bytes.low, high |-> bytes.high, age |-> 0] \in Distance
      BY DEF TypeOK, Distance
    <2>2. QED
      BY <1>0, <1>2, <2>1 DEF PutDistance
  <1>3. CASE ConsumerGets
    BY <1>0, <1>3 DEF ConsumerGets
  <1>4. CASE UNCHANGED lidar_msgq
    BY <1>0, <1>4
  <1>5. QED
    BY <1>1, <1>2, <1>3, <1>4, QueueStep

\* The queue of distances is bounded and every variable keeps its type.
THEOREM LidarPathTypeCorrect == Spec => []TypeOK
  <1>1. Init => TypeOK
    <2> SUFFICES ASSUME Init PROVE TypeOK
      OBVIOUS
    <2>1. EmulatorType
      <3>1. next_byte_is_reg_address = TRUE
        BY DEF Init, LidarInit
      <3>2. QED
        BY <3>1, RegisterFacts DEF Init, LidarInit, EmulatorType
    <2>2. bytes \in [{"low", "high"} -> Byte]
      BY DEF Init, Byte, NoDistance
    <2>3. QED
      BY <2>1, <2>2, ConstantFacts, RegisterFacts DEF Init, TypeOK
  <1>2. TypeOK /\ [Next]_vars => TypeOK'
    BY EmulatorTypeStep, ControlTypeStep, BytesTypeStep, QueueTypeStep DEF TypeOK
  <1>3. QED
    BY <1>1, <1>2, PTL DEF Spec

--------------------------------------------------------------------------------
(***************************************************************************)
(* The age of a queued distance, the rest of the consumer's sleep and the  *)
(* sleeps of those before it never exceed a full queue of sleeps.          *)
(***************************************************************************)
Rest == IF cs_pc = "sleep" THEN cs_timer ELSE 0

AgeInv ==
  \A i \in 1..Len(lidar_msgq) :
    lidar_msgq[i].age + Rest + (i - 1) * ConsumerTicks <= QueueLen * ConsumerTicks

LEMMA QueueFacts ==
  ASSUME TypeOK
  PROVE  /\ lidar_msgq \in Seq(Distance) /\ Len(lidar_msgq) \in Nat
         /\ Len(lidar_msgq) <= QueueLen
         /\ cs_timer \in 0..ConsumerTicks /\ cs_pc \in {"get", "sleep"}
         /\ \A i \in 1..Len(lidar_msgq) : lidar_msgq[i].age \in Nat
  <1>1. /\ lidar_msgq \in Seq(Distance) /\ Len(lidar_msgq) <= QueueLen
        /\ cs_timer \in 0..ConsumerTicks /\ cs_pc \in {"get", "sleep"}
    BY DEF TypeOK
  <1>2. \A i \in 1..Len(lidar_msgq) : lidar_msgq[i] \in Distance
    BY <1>1
  <1>3. \A i \in 1..Len(lidar_msgq) : lidar_msgq[i].age \in Nat
    BY <1>2 DEF Distance
  <1>4. QED
    BY <1>1, <1>3

LEMMA AgeStep ==
  ASSUME TypeOK, AgeInv, [Next]_vars
  PROVE  AgeInv'
  <1> USE ConstantFacts
  <1>0. /\ lidar_msgq \in Seq(Distance) /\ Len(lidar_msgq) <= QueueLen
        /\ cs_timer \in 0..ConsumerTicks /\ cs_pc \in {"get", "sleep"}
        /\ \A i \in 1..Len(lidar_msgq) : lidar_msgq[i].age \in Nat
    BY QueueFacts
  <1>1. CASE PutDistance
    <2>1. CASE Len(lidar_msgq) < QueueLen
      <3> DEFINE n == Len(lidar_msgq)
                 d == [low |-> bytes.low, high |-> bytes.high, age |-> 0]
      <3>1. n \in Nat /\ lidar_msgq' = Append(lidar_msgq, d) /\ Rest' = Rest
        BY <1>0, <1>1, <2>1 DEF PutDistance, Rest, consumer
      <3>2. Rest <= ConsumerTicks /\ Rest \in Nat
        BY <1>0 DEF Rest
      <3>3. n * ConsumerTicks + ConsumerTicks <= QueueLen * ConsumerTicks
        BY <2>1, <3>1, ProductFacts
      <3>4. ASSUME NEW i \in 1..Len(lidar_msgq')
            PROVE  lidar_msgq'[i].age + Rest' + (i - 1) * ConsumerTicks
                     <= QueueLen * ConsumerTicks
        <4>1. CASE i = n + 1
          <5>1. lidar_msgq'[i].age = 0 /\ i - 1 = n
            BY <1>0, <3>1, <4>1
          <5>2. n * ConsumerTicks \in Nat
            BY <3>1
          <5>3. (i - 1) * ConsumerTicks = n * ConsumerTicks
            BY <5>1
          <5> HIDE DEF n, d
          <5>4. QED
            BY <3>1, <3>2, <3>3, <5>1, <5>2, <5>3
        <4>2. CASE i # n + 1
          <5>1. i \in 1..n /\ lidar_msgq'[i] = lidar_msgq[i]
            BY <1>0, <3>1, <4>2
          <5>2. QED
            BY <3>1, <5>1 DEF AgeInv
        <4>3. QED
          BY <4>1, <4>2
      <3>5. QED
        BY <3>4 DEF AgeInv
    <2>2. CASE ~(Len(lidar_msgq) < QueueLen)
      BY <1>1, <2>2 DEF PutDistance, AgeInv, Rest, consumer
    <2>3. QED
      BY <2>1, <2>2
  <1>2. CASE ConsumerGets
    <2>1. lidar_msgq' = Tail(lidar_msgq) /\ Rest' = ConsumerTicks /\ Rest = 0
          /\ lidar_msgq # <<>>
      BY <1>2 DEF ConsumerGets, Rest
    <2>2. ASSUME NEW i \in 1..Len(lidar_msgq')
          PROVE  lidar_msgq'[i].age + Rest' + (i - 1) * ConsumerTicks
                   <= QueueLen * ConsumerTicks
      <3>1. i + 1 \in 1..Len(lidar_msgq) /\ lidar_msgq'[i] = lidar_msgq[i + 1]
        BY <1>0, <2>1
      <3>2. lidar_msgq[i + 1].age + 0 + ((i + 1) - 1) * ConsumerTicks
              <= QueueLen * ConsumerTicks
        BY <2>1, <3>1 DEF AgeInv
      <3>3. i - 1 \in Nat /\ ((i + 1) - 1) * ConsumerTicks = (i - 1) * ConsumerTicks + ConsumerTicks
        BY ProductFacts
      <3>4. lidar_msgq[i + 1].age \in Nat /\ (i - 1) * ConsumerTicks \in Nat
        BY <1>0, <3>1, <3>3, ProductFacts
      <3>5. lidar_msgq'[i].age = lidar_msgq[i + 1].age /\ Rest' = ConsumerTicks
        BY <2>1, <3>1
      <3>6. lidar_msgq[i + 1].age + ((i - 1) * ConsumerTicks + ConsumerTicks)
              <= QueueLen * ConsumerTicks
        BY <3>2, <3>3, <3>4
      <3>7. QED
        BY <3>4, <3>5, <3>6
    <2>3. QED
      BY <2>2 DEF AgeInv
  <1>3. CASE Tick
    <2>1. ASSUME NEW i \in 1..Len(lidar_msgq')
          PROVE  lidar_msgq'[i].age + Rest' + (i - 1) * ConsumerTicks
                   <= QueueLen * ConsumerTicks
      <3>1. /\ i \in 1..Len(lidar_msgq)
            /\ lidar_msgq'[i].age = lidar_msgq[i].age + 1
            /\ lidar_msgq[i].age \in Nat
        <4>1. lidar_msgq' = [j \in 1..Len(lidar_msgq) |-> [lidar_msgq[j] EXCEPT !.age = @ + 1]]
          BY <1>0, <1>3 DEF Tick, Older
        <4>2. i \in 1..Len(lidar_msgq)
          BY <1>0, <4>1
        <4>3. lidar_msgq[i] \in Distance
          BY <1>0, <4>2
        <4>4. QED
          BY <4>1, <4>2, <4>3 DEF Distance
      <3>2. cs_pc = "sleep" /\ Rest' = Rest - 1 /\ Rest \in Nat
        <4>1. cs_pc # "get"
          BY <1>0, <1>3, <3>1 DEF Tick
        <4>2. QED
          BY <1>0, <1>3, <4>1 DEF Tick, Rest
      <3>3. lidar_msgq[i].age + Rest + (i - 1) * ConsumerTicks <= QueueLen * ConsumerTicks
        BY <3>1 DEF AgeInv
      <3>4. (i - 1) * ConsumerTicks \in Nat
        BY i - 1 \in Nat, ProductFacts
      <3>5. QED
        BY <3>1, <3>2, <3>3, <3>4
    <2>2. QED
      BY <2>1 DEF AgeInv
  <1>4. CASE UNCHANGED lidar_msgq /\ ~Tick /\ ~ConsumerGets
    <2>1. Rest' = Rest
      BY <1>0, <1>4 DEF Next, ReaderStep, ConsumerStep, TimerExpires, TakeSem, StartWrite,
         WritePointer, WriteCommand, ReadByte, ReadAhead, StopTransaction, FetchFails,
         PutDistance, ConsumerWakes, NewDistance, consumer, vars, Rest
    <2>2. QED
      BY <1>4, <2>1 DEF AgeInv
  <1>5. QED
    BY <1>1, <1>2, <1>3, <1>4, QueueStep

\* No queued distance is older than a full queue takes to be served.
THEOREM LidarAgeCorrect == Spec => []AgeBounded
  <1>1. Init => AgeInv
    BY DEF Init, AgeInv
  <1>2. TypeOK /\ AgeInv => AgeBounded
    <2> SUFFICES ASSUME TypeOK, AgeInv, NEW i \in DOMAIN lidar_msgq
                 PROVE  lidar_msgq[i].age <= (QueueLen - i + 1) * ConsumerTicks
      BY DEF AgeBounded
    <2>1. /\ i \in 1..Len(lidar_msgq) /\ Len(lidar_msgq) <= QueueLen
          /\ lidar_msgq[i].age \in Nat /\ cs_timer \in Nat
      BY QueueFacts, ConstantFacts
    <2>2. lidar_msgq[i].age + Rest + (i - 1) * ConsumerTicks <= QueueLen * ConsumerTicks
      BY <2>1 DEF AgeInv
    <2>3. PICK a \in Nat : i - 1 = a
      BY <2>1, i - 1 \in Nat
    <2>4. PICK b \in Nat : QueueLen = b + a
      <3>1. QueueLen - a \in Nat
        BY <2>1, <2>3, ConstantFacts
      <3>2. QED
        BY <3>1, <2>3, ConstantFacts
    <2>5. /\ QueueLen * ConsumerTicks = b * ConsumerTicks + a * ConsumerTicks
          /\ b * ConsumerTicks \in Nat /\ a * ConsumerTicks \in Nat
      BY <2>4, ConstantFacts
    <2>6. QueueLen - i + 1 = b
      BY <2>1, <2>3, <2>4, ConstantFacts
    <2>7. Rest \in Nat
      BY <2>1 DEF Rest
    <2>8. lidar_msgq[i].age + Rest + a * ConsumerTicks <= b * ConsumerTicks + a * ConsumerTicks
      BY <2>2, <2>3, <2>5
    <2>9. lidar_msgq[i].age <= b * ConsumerTicks
      BY <2>1, <2>5, <2>7, <2>8
    <2>10. QED
      BY <2>6, <2>9
  <1>3. TypeOK /\ AgeInv /\ [Next]_vars => AgeInv'
    BY AgeStep
  <1>4. QED
    BY <1>1, <1>2, <1>3, LidarPathTypeCorrect, PTL DEF Spec

--------------------------------------------------------------------------------
(***************************************************************************)
(* Why nothing is measured.                                                *)
(***************************************************************************)
FromNothing == [half |-> "low", packet |-> 0]

\* Where the register pointer is: never at the emulator's high byte.
PointerInv ==
  /\ active_register \in {0, 1, 2, 16, 17}
  /\ rd_pc = "pointer" => next_byte_is_reg_address
  /\ rd_pc = "data" => ~next_byte_is_reg_address /\ active_register = Register[rd_op]
  /\ rd_pc \in {"data", "stop"} /\ rd_op = "command" => lidar_bus # "reading"
  /\ rd_pc = "stop" /\ rd_op # "command" => active_register = Register[rd_op]

\* So the cache keeps its first value, and that is what the low byte is.
CacheInv ==
  /\ transaction_distance_cache = 0
  /\ \/ rd_op = "high"
     \/ rd_op = "low" /\ rd_pc \in {"stop", "end"}
     \/ rd_pc = "put"
     => bytes["low"] = FromNothing
  /\ (rd_op = "high" /\ rd_pc \in {"stop", "end"}) \/ rd_pc = "put" => bytes["high"] = NoDistance

NothingInv ==
  \A i \in 1..Len(lidar_msgq) :
    lidar_msgq[i].low = FromNothing /\ lidar_msgq[i].high = NoDistance

LEMMA PointerStep ==
  ASSUME TypeOK, PointerInv, [Next]_vars
  PROVE  PointerInv'
  <1> USE RegisterFacts DEF PointerInv, OnBus
  <1>0. /\ rd_pc \in OnBus \union {"take", "put"} /\ rd_op \in Operations
        /\ next_byte_is_reg_address \in BOOLEAN
    BY DEF TypeOK, EmulatorType
  <1>1. CASE StartWrite
    BY <1>1 DEF StartWrite, LidarWriteRequested
  <1>2. CASE WritePointer
    <2>1. /\ active_register' = Register[rd_op] /\ next_byte_is_reg_address' = FALSE
          /\ lidar_bus' # "reading" /\ rd_pc' = "data" /\ rd_op' = rd_op
      BY <1>2 DEF WritePointer, LidarWriteReceived
    <2>2. QED
      BY <1>0, <2>1
  <1>3. CASE WriteCommand
    <2>1. /\ active_register = 0 /\ ~next_byte_is_reg_address
      BY <1>3 DEF WriteCommand
    <2>2. /\ active_register' = 1 /\ lidar_bus' # "reading"
          /\ rd_pc' = "stop" /\ rd_op' = "command"
      BY <1>3, <2>1 DEF WriteCommand, LidarWriteReceived
    <2>3. QED
      BY <2>2
  <1>4. CASE ReadByte
    BY <1>0, <1>4 DEF ReadByte, LidarReadRequested
  <1>5. CASE ReadAhead
    <2>1. rd_pc = "stop" /\ rd_op # "command" /\ active_register = Register[rd_op]
          /\ active_register < 17 /\ active_register' = active_register + 1
          /\ rd_pc' = "end" /\ rd_op' = rd_op
      BY <1>0, <1>5 DEF ReadAhead, LidarReadProcessed
    <2>2. rd_op \in {"status", "low"}
      BY <1>0, <2>1
    <2>3. QED
      BY <2>1, <2>2
  <1>6. CASE StopTransaction
    BY <1>6 DEF StopTransaction, LidarStop
  <1>7. CASE FetchFails
    BY <1>7 DEF FetchFails, LidarStop, lidarVars, lidarBus
  <1>8. CASE TimerExpires \/ Tick \/ TakeSem \/ PutDistance \/ ConsumerStep \/ NewDistance
    BY <1>0, <1>8 DEF TimerExpires, Tick, TakeSem, PutDistance, ConsumerStep, ConsumerGets,
       ConsumerWakes, NewDistance, LidarUpdateDistance, lidarVars, lidarBus, reader
  <1>9. CASE UNCHANGED vars
    BY <1>9 DEF vars, lidarVars, lidarBus, reader
  <1>10. QED
    BY <1>1, <1>2, <1>3, <1>4, <1>5, <1>6, <1>7, <1>8, <1>9 DEF Next, ReaderStep

LEMMA CacheStep ==
  ASSUME TypeOK, PointerInv, CacheInv, [Next]_vars
  PROVE  CacheInv'
  <1> USE RegisterFacts DEF CacheInv
  <1>0. /\ rd_pc \in OnBus \union {"take", "put"} /\ rd_op \in Operations
        /\ bytes \in [{"low", "high"} -> Byte]
    BY DEF TypeOK
  <1>1. CASE ReadByte
    <2>1. active_register = Register[rd_op] /\ rd_op \in {"status", "low", "high"}
      BY <1>0, <1>1 DEF ReadByte, PointerInv
    <2>2. transaction_distance_cache' = 0
      BY <1>1, <2>1 DEF ReadByte, LidarReadRequested, ServeRegisterByte
    <2>3. rd_pc' = "stop" /\ rd_op' = rd_op
      BY <1>1 DEF ReadByte
    <2>4. CASE rd_op = "status"
      BY <2>2, <2>3, <2>4
    <2>5. CASE rd_op = "low"
      <3>1. ServedByte(active_register) = FromNothing
        BY <2>1, <2>5 DEF ServedByte, FromNothing
      <3>2. bytes' = [bytes EXCEPT !["low"] = FromNothing]
        BY <1>0, <1>1, <2>5, <3>1 DEF ReadByte
      <3>3. QED
        BY <1>0, <2>2, <2>3, <2>5, <3>2
    <2>6. CASE rd_op = "high"
      <3>1. ServedByte(active_register) = NoDistance
        BY <2>1, <2>6 DEF ServedByte
      <3>2. bytes' = [bytes EXCEPT !["high"] = NoDistance]
        BY <1>0, <1>1, <2>6, <3>1 DEF ReadByte
      <3>3. bytes["low"] = FromNothing
        BY <2>6
      <3>4. QED
        BY <1>0, <2>2, <2>3, <2>6, <3>2, <3>3
    <2>7. QED
      BY <2>1, <2>4, <2>5, <2>6
  <1>2. CASE ReadAhead
    <2>1. /\ active_register \in {0, 1, 2, 16, 17} /\ active_register' = active_register + 1
          /\ active_register + 1 # 15 /\ rd_pc = "stop" /\ rd_pc' = "end"
          /\ UNCHANGED <<rd_op, bytes>>
      BY <1>2 DEF ReadAhead, PointerInv, LidarReadProcessed
    <2>2. transaction_distance_cache' = transaction_distance_cache
      BY <1>2, <2>1 DEF ReadAhead, LidarReadProcessed, ServeRegisterByte
    <2>3. QED
      BY <2>1, <2>2
  <1>3. CASE StopTransaction
    <2>1. /\ UNCHANGED <<bytes, transaction_distance_cache>>
          /\ rd_pc \in {"stop", "end"}
          /\ rd_pc' = IF rd_op = "high" THEN "put" ELSE "start"
          /\ rd_op' = NextOp[rd_op]
      BY <1>3 DEF StopTransaction, LidarStop
    <2>2. QED
      BY <1>0, <2>1
  <1>4. CASE StartWrite \/ WritePointer \/ WriteCommand
    <2>1. /\ UNCHANGED <<rd_op, bytes, transaction_distance_cache>>
          /\ rd_pc' \in {"pointer", "data"} \/ (rd_pc' = "stop" /\ rd_op = "command")
      BY <1>4 DEF StartWrite, WritePointer, WriteCommand, LidarWriteRequested,
         LidarWriteReceived
    <2>2. QED
      BY <1>0, <2>1
  <1>5. CASE FetchFails \/ TakeSem
    <2>1. /\ UNCHANGED <<bytes, transaction_distance_cache>>
          /\ rd_pc' \in {"take", "start"} /\ rd_op' = "command"
      BY <1>5 DEF FetchFails, TakeSem, LidarStop, lidarVars, lidarBus
    <2>2. QED
      BY <2>1
  <1>6. CASE PutDistance
    BY <1>0, <1>6 DEF PutDistance, lidarVars, lidarBus
  <1>7. CASE TimerExpires \/ Tick \/ ConsumerStep \/ NewDistance
    BY <1>7 DEF TimerExpires, Tick, ConsumerStep, ConsumerGets, ConsumerWakes, NewDistance,
       LidarUpdateDistance, lidarVars, lidarBus, reader
  <1>8. CASE UNCHANGED vars
    BY <1>8 DEF vars, lidarVars, lidarBus, reader
  <1>9. QED
    BY <1>1, <1>2, <1>3, <1>4, <1>5, <1>6, <1>7, <1>8 DEF Next, ReaderStep

LEMMA NothingStep ==
  ASSUME TypeOK, CacheInv, NothingInv, [Next]_vars
  PROVE  NothingInv'
  <1> USE DEF NothingInv
  <1>0. lidar_msgq \in Seq(Distance)
    BY DEF TypeOK
  <1>1. CASE lidar_msgq' = Older(lidar_msgq)
    <2>1. lidar_msgq' = [j \in 1..Len(lidar_msgq) |-> [lidar_msgq[j] EXCEPT !.age = @ + 1]]
      BY <1>0, <1>1 DEF Older
    <2>2. ASSUME NEW i \in 1..Len(lidar_msgq')
          PROVE  lidar_msgq'[i].low = FromNothing /\ lidar_msgq'[i].high = NoDistance
      <3>1. i \in 1..Len(lidar_msgq)
        BY <1>0, <2>1
      <3>2. lidar_msgq[i] \in Distance
        BY <1>0, <3>1
      <3>3. lidar_msgq'[i].low = lidar_msgq[i].low /\ lidar_msgq'[i].high = lidar_msgq[i].high
        BY <2>1, <3>1, <3>2 DEF Distance
      <3>4. QED
        BY <3>1, <3>3
    <2>3. QED
      BY <2>2
  <1>2. CASE PutDistance
    <2> DEFINE d == [low |-> bytes["low"], high |-> bytes["high"], age |-> 0]
    <2>1. bytes["low"] = FromNothing /\ bytes["high"] = NoDistance
      BY <1>2 DEF PutDistance, CacheInv
    <2>2. lidar_msgq' = lidar_msgq \/ lidar_msgq' = Append(lidar_msgq, d)
      BY <1>2 DEF PutDistance
    <2>3. CASE lidar_msgq' = Append(lidar_msgq, d)
      <3>1. ASSUME NEW i \in 1..Len(lidar_msgq')
            PROVE  lidar_msgq'[i] = d \/ (i \in 1..Len(lidar_msgq) /\ lidar_msgq'[i] = lidar_msgq[i])
        BY <1>0, <2>3
      <3>2. d.low = FromNothing /\ d.high = NoDistance
        BY <2>1
      <3>3. QED
        BY <3>1, <3>2
    <2>4. QED
      BY <2>2, <2>3
  <1>3. CASE ConsumerGets
    <2>1. ASSUME NEW i \in 1..Len(lidar_msgq')
          PROVE  i + 1 \in 1..Len(lidar_msgq) /\ lidar_msgq'[i] = lidar_msgq[i + 1]
      BY <1>0, <1>3 DEF ConsumerGets
    <2>2. QED
      BY <2>1
  <1>4. CASE UNCHANGED lidar_msgq
    BY <1>4
  <1>5. QED
    BY <1>1, <1>2, <1>3, <1>4, QueueStep

\* Every distance the DUT queues is the same, whatever the simulator sends.
THEOREM NothingMeasuredCorrect == Spec => []NothingMeasured
  <1>1. Init => PointerInv /\ CacheInv /\ NothingInv
    BY RegisterFacts DEF Init, LidarInit, PointerInv, CacheInv, NothingInv
  <1>2. TypeOK /\ PointerInv /\ CacheInv /\ NothingInv /\ [Next]_vars
          => PointerInv' /\ CacheInv' /\ NothingInv'
    BY PointerStep, CacheStep, NothingStep
  <1>3. TypeOK /\ NothingInv => NothingMeasured
    BY DEF TypeOK, NothingInv, NothingMeasured, FromNothing
  <1>4. QED
    BY <1>1, <1>2, <1>3, LidarPathTypeCorrect, PTL DEF Spec

================================================================================
