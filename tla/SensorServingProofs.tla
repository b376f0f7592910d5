-------------------------- MODULE SensorServingProofs --------------------------
(***************************************************************************)
(* Proofs, for every number of bytes, registers, reads and packets, of the *)
(* safety properties of SensorServing.                                     *)
(***************************************************************************)
EXTENDS SensorServing, TLAPS

(***************************************************************************)
(* The channel in front of the gate: what is inside is newer than what has *)
(* been served.                                                            *)
(***************************************************************************)
GateInv ==
  /\ received \in Nat
  /\ served \in Nat
  /\ inside \in SUBSET Nat
  /\ served <= received
  /\ \A n \in inside : served < n /\ n <= received

LEMMA GateAdvances ==
  ASSUME GateInv, Gate!Next
  PROVE  GateInv' /\ served <= served'
  <1>1. CASE Gate!Receive
    <2>1. /\ received' = received + 1 /\ served' = served
          /\ inside' = inside \union {received + 1}
      BY <1>1 DEF Gate!Receive
    <2>2. \A n \in inside' : n \in Nat /\ served' < n /\ n <= received'
      BY <2>1 DEF GateInv
    <2>3. received' \in Nat /\ served' \in Nat /\ served' <= received' /\ served <= served'
      BY <2>1 DEF GateInv
    <2>4. QED
      BY <2>2, <2>3 DEF GateInv
  <1>2. ASSUME NEW n \in inside, Gate!Lose(n) \/ Gate!Serve(n)
        PROVE  GateInv' /\ served <= served'
    <2>1. /\ received' = received /\ inside' = inside \ {n}
          /\ served' = served \/ served' = n
          /\ \A m \in inside : n <= m
      BY <1>2 DEF Gate!Lose, Gate!Serve, Gate!Oldest
    <2>2. n \in Nat /\ served < n /\ n <= received /\ served \in Nat /\ received \in Nat
      BY <1>2 DEF GateInv
    <2>3. \A m \in inside' : m \in Nat /\ served < m /\ m <= received /\ n < m
      <3> TAKE m \in inside'
      <3>1. m \in inside /\ m # n
        BY <2>1
      <3>2. m \in Nat /\ n <= m /\ served < m /\ m <= received
        BY <2>1, <3>1 DEF GateInv
      <3>3. QED
        BY <2>2, <3>1, <3>2
    <2>4. served' \in Nat /\ served <= served' /\ served' <= received'
      BY <2>1, <2>2
    <2>5. QED
      BY <2>1, <2>2, <2>3, <2>4 DEF GateInv
  <1>3. QED
    BY <1>1, <1>2 DEF Gate!Next

LEMMA GateInvariant == Spec => []GateInv
  <1>1. Init => GateInv
    BY DEF Init, Gate!Init, GateInv
  <1>2. GateInv /\ [Next]_vars => GateInv'
    <2> SUFFICES ASSUME GateInv, [Next]_vars
                 PROVE  GateInv'
      OBVIOUS
    <2>1. CASE GateStep
      BY <2>1, GateAdvances DEF GateStep
    <2>2. CASE SensorThread
      BY <2>2 DEF SensorThread, SenPeek, SenLidar, SenImuIndex, SenImuCopy, SenImuPublish,
         SenWakeUp, gate, GateInv
    <2>3. CASE ImuBus \/ LidarBus \/ UNCHANGED vars
      BY <2>3 DEF ImuBus, LidarBus, vars, gate, GateInv
    <2>4. QED
      BY <2>1, <2>2, <2>3 DEF Next
  <1>3. QED
    BY <1>1, <1>2, PTL DEF Spec

--------------------------------------------------------------------------------
(***************************************************************************)
(* Type correctness.                                                       *)
(***************************************************************************)

\* A byte is served from at most one packet.
LEMMA ServedBytes ==
  ASSUME ImuType, NEW idx \in {0, 1}, NEW reg
  PROVE  ServeImuByte(idx, reg) \in SUBSET Nat
  <1>1. reg \in Group => imu_buf[idx][reg] \in Nat
    BY DEF ImuType
  <1>2. QED
    BY <1>1 DEF ServeImuByte

LEMMA ImuIdType ==
  ASSUME ImuType
  PROVE  ImuId \in Nat
  <1>1. 1 \in Group
    BY ImuAssumption DEF Group
  <1>2. QED
    BY <1>1 DEF ImuId, ImuType

\* The writer's steps keep the types.
LEMMA ImuWriterType ==
  ASSUME ImuType, SensorType, SensorThread
  PROVE  ImuType'
  <1> USE DEF ImuType
  <1>1. CASE SenImuIndex
    BY <1>1 DEF SenImuIndex, ImuUpdateIndex, imuImage, imuBus
  <1>2. CASE SenImuCopy
    <2>1. PICK c \in Group \ imu_copied :
            /\ imu_buf' = [imu_buf EXCEPT ![imu_inactive] = [@ EXCEPT ![c] = sen_pkt]]
            /\ imu_copied' = imu_copied \union {c}
            /\ UNCHANGED <<active_idx, imu_inactive, imuBus, imu_flips>>
      BY <1>2 DEF SenImuCopy, ImuUpdateCopy
    <2>2. imu_buf' \in [{0, 1} -> [Group -> Nat]]
      BY <2>1 DEF SensorType
    <2>3. QED
      BY <2>1, <2>2 DEF imuBus
  <1>3. CASE SenImuPublish
    BY <1>3 DEF SenImuPublish, ImuUpdatePublish, imuWriter, imuBus
  <1>4. CASE SenPeek \/ SenLidar \/ SenWakeUp
    BY <1>4 DEF SenPeek, SenLidar, SenWakeUp, imuVars, imuImage, imuWriter, imuBus
  <1>5. QED
    BY <1>1, <1>2, <1>3, <1>4 DEF SensorThread

\* And so do the callbacks.
LEMMA ImuCallbackType ==
  ASSUME ImuType, ImuCallback
  PROVE  ImuType'
  <1> USE DEF ImuType, imuImage, imuWriter
  <1>0. Cells \in Nat
    BY ImuAssumption
  <1>1. CASE ImuWriteRequested
    BY <1>0, <1>1 DEF ImuWriteRequested
  <1>2. ASSUME NEW val \in ImuRegs, ImuWriteReceived(val)
        PROVE  ImuType'
    <2>1. val \in 0..Cells + 1
      BY ImuAssumption
    <2>2. QED
      BY <1>0, <1>2, <2>1 DEF ImuWriteReceived
  <1>3. CASE ImuReadRequested
    <2>1. imu_ids' \in SUBSET Nat
      BY <1>3, ServedBytes DEF ImuReadRequested
    <2>2. imu_seen' \in Nat /\ diag_last_euler_x' \in Nat
      BY <1>3, ImuIdType DEF ImuReadRequested
    <2>3. imu_current_reg' \in 0..(IF imu_bus' = "reading" THEN Cells + 2 ELSE Cells + 1)
      <3>1. imu_current_reg \in 0..Cells + 1
        BY <1>3 DEF ImuReadRequested
      <3>2. imu_current_reg' = imu_current_reg + 1 /\ imu_bus' = "reading"
        BY <1>3 DEF ImuReadRequested
      <3>3. QED
        BY <1>0, <3>1, <3>2
    <2>4. QED
      BY <1>3, <2>1, <2>2, <2>3 DEF ImuReadRequested
  <1>4. CASE ImuReadProcessed
    <2>1. imu_ids' \in SUBSET Nat
      BY <1>4, ServedBytes DEF ImuReadProcessed
    <2>2. imu_current_reg' \in 0..(IF imu_bus' = "reading" THEN Cells + 2 ELSE Cells + 1)
      <3>1. /\ imu_current_reg \in 0..Cells + 2 /\ imu_current_reg <= Cells + 1
            /\ imu_current_reg' = imu_current_reg + 1 /\ imu_bus' = "reading"
        BY <1>4 DEF ImuReadProcessed
      <3>2. QED
        BY <1>0, <3>1
    <2>3. QED
      BY <1>4, <2>1, <2>2 DEF ImuReadProcessed
  <1>5. CASE ImuStop
    BY <1>0, <1>5 DEF ImuStop
  <1>6. QED
    BY <1>1, <1>2, <1>3, <1>4, <1>5 DEF ImuCallback

LEMMA LidarCallbackType ==
  ASSUME LidarType, LidarCallback
  PROVE  LidarType'
  <1> USE DEF LidarType
  <1>0. /\ LastLidarReg = 17 /\ LIDAR_REG_FULL_DELAY_HIGH = 15
        /\ LIDAR_REG_FULL_DELAY_LOW = 16
    BY LidarAssumption
    DEF LastLidarReg, LIDAR_REG_FULL_DELAY_HIGH, LIDAR_REG_FULL_DELAY_LOW
  <1>1. ASSUME NEW reg, NEW before \in SUBSET Nat, ServeRegisterByte(reg, before)
        PROVE  /\ transaction_distance_cache' \in Nat
               /\ lidar_high' \in SUBSET Nat
               /\ lidar_low' \in SUBSET Nat
    <2>1. transaction_distance_cache' \in {simulated_distance_mm, transaction_distance_cache}
      BY <1>1 DEF ServeRegisterByte
    <2>2. lidar_high' \in {{simulated_distance_mm}, before}
      BY <1>1 DEF ServeRegisterByte
    <2>3. lidar_low' \in {{transaction_distance_cache}, {}}
      BY <1>1 DEF ServeRegisterByte
    <2>4. QED
      BY <2>1, <2>2, <2>3
  <1>2. CASE LidarWriteRequested
    BY <1>2 DEF LidarWriteRequested
  <1>3. ASSUME NEW val \in LidarRegs, LidarWriteReceived(val)
        PROVE  LidarType'
    <2>1. val \in 0..17
      BY <1>0, LidarAssumption
    <2>2. active_register' \in 0..17
      BY <1>0, <1>3, <2>1 DEF LidarWriteReceived
    <2>3. next_byte_is_reg_address' = FALSE
      BY <1>3 DEF LidarWriteReceived
    <2>4. QED
      BY <1>0, <1>3, <2>2, <2>3 DEF LidarWriteReceived
  <1>4. CASE LidarReadRequested
    <2>1. /\ transaction_distance_cache' \in Nat
          /\ lidar_high' \in SUBSET Nat
          /\ lidar_low' \in SUBSET Nat
      BY <1>1, <1>4 DEF LidarReadRequested
    <2>2. diag_last_lidar_mm' \in Nat
      BY <1>4 DEF LidarReadRequested
    <2>3. QED
      BY <1>4, <2>1, <2>2 DEF LidarReadRequested
  <1>5. CASE LidarReadProcessed
    <2>1. /\ transaction_distance_cache' \in Nat
          /\ lidar_high' \in SUBSET Nat
          /\ lidar_low' \in SUBSET Nat
      BY <1>1, <1>5 DEF LidarReadProcessed
    <2>2. active_register' \in 0..LastLidarReg
      BY <1>0, <1>5 DEF LidarReadProcessed
    <2>3. QED
      BY <1>5, <2>1, <2>2 DEF LidarReadProcessed
  <1>6. CASE LidarStop
    BY <1>6 DEF LidarStop
  <1>7. QED
    BY <1>2, <1>3, <1>4, <1>5, <1>6 DEF LidarCallback

THEOREM ServingTypeCorrect == Spec => []TypeOK
  <1>1. Init => TypeOK
    <2> SUFFICES ASSUME Init PROVE ImuType /\ LidarType /\ SensorType
      BY DEF TypeOK
    <2>1. ImuType
      <3>1. Cells \in Nat
        BY ImuAssumption
      <3>2. imu_buf = [idx \in {0, 1} |-> [c \in Group |-> 0]]
        BY DEF Init, ImuInit
      <3>3. imu_buf \in [{0, 1} -> [Group -> Nat]]
        BY <3>2
      <3>4. QED
        BY <3>1, <3>3 DEF Init, ImuInit, ImuType
    <2>2. LidarType
      <3>1. next_byte_is_reg_address = TRUE
        BY DEF Init, LidarInit
      <3>2. QED
        BY <3>1, LidarAssumption DEF Init, LidarInit, LidarType, LastLidarReg,
           LIDAR_REG_FULL_DELAY_LOW, LIDAR_REG_ACQ_COMMAND
    <2>3. SensorType
      <3>1. slept_in = FALSE /\ spanned = FALSE
        BY DEF Init
      <3>2. QED
        BY <3>1 DEF Init, Gate!Init, SensorType, SenLocations
    <2>4. QED
      BY <2>1, <2>2, <2>3
  <1>2. TypeOK /\ GateInv' /\ [Next]_vars => TypeOK'
    <2> SUFFICES ASSUME TypeOK, GateInv', [Next]_vars
                 PROVE  ImuType' /\ LidarType' /\ SensorType'
      BY DEF TypeOK
    <2>0. ImuType /\ LidarType /\ SensorType
      BY DEF TypeOK
    <2>1. ImuType'
      <3>1. CASE SensorThread
        BY <2>0, <3>1, ImuWriterType
      <3>2. CASE ImuBus
        BY <2>0, <3>2, ImuCallbackType DEF ImuBus
      <3>3. CASE LidarBus \/ GateStep \/ UNCHANGED vars
        BY <2>0, <3>3 DEF LidarBus, GateStep, vars, imuVars, imuImage, imuWriter, imuBus,
           ImuType
      <3>4. QED
        BY <3>1, <3>2, <3>3 DEF Next
    <2>2. LidarType'
      <3>1. CASE SenLidar
        BY <2>0, <3>1 DEF SenLidar, LidarUpdateDistance, lidarBus, LidarType, SensorType
      <3>2. CASE SenPeek \/ SenImuIndex \/ SenImuCopy \/ SenImuPublish \/ SenWakeUp
        BY <2>0, <3>2 DEF SenPeek, SenImuIndex, SenImuCopy, SenImuPublish, SenWakeUp,
           lidarVars, lidarBus, LidarType
      <3>3. CASE LidarBus
        BY <2>0, <3>3, LidarCallbackType DEF LidarBus
      <3>4. CASE ImuBus \/ GateStep \/ UNCHANGED vars
        BY <2>0, <3>4 DEF ImuBus, GateStep, vars, lidarVars, lidarBus, LidarType
      <3>5. QED
        BY <3>1, <3>2, <3>3, <3>4 DEF Next, SensorThread
    <2>3. SensorType'
      <3> USE <2>0 DEF SensorType, SenLocations
      <3>0. received' \in Nat /\ inside' \in SUBSET Nat /\ served' \in Nat
        BY DEF GateInv
      <3>1. sen_pc' \in SenLocations /\ sen_pkt' \in Nat
        BY DEF Next, SensorThread, SenPeek, SenLidar, SenImuIndex, SenImuCopy,
           SenImuPublish, SenWakeUp, GoToSleep, ImuBus, LidarBus, GateStep, sensor, vars
      <3>2. slept_in' \in BOOLEAN /\ spanned' \in BOOLEAN
        BY DEF Next, SensorThread, SenPeek, SenLidar, SenImuIndex, SenImuCopy,
           SenImuPublish, SenWakeUp, GoToSleep, ImuBus, LidarBus, GateStep, overlap, vars
      <3>3. QED
        BY <3>0, <3>1, <3>2
    <2>4. QED
      BY <2>1, <2>2, <2>3
  <1>3. QED
    BY <1>1, <1>2, GateInvariant, PTL DEF Spec

--------------------------------------------------------------------------------
(***************************************************************************)
(* The LiDAR's two bytes.                                                  *)
(***************************************************************************)

\* Whatever a read has served so far is what the cache holds.
FromCache ==
  /\ \A h \in lidar_high : h = transaction_distance_cache
  /\ \A l \in lidar_low : l = transaction_distance_cache

\* The two bytes of a distance are of one sample, however often the sensor
\* emulation thread writes between them.
THEOREM LidarCoherentCorrect == Spec => []LidarCoherent
  <1>1. Init => FromCache
    BY DEF Init, LidarInit, FromCache
  <1>2. FromCache /\ [Next]_vars => FromCache'
    <2> SUFFICES ASSUME FromCache, [Next]_vars
                 PROVE  FromCache'
      OBVIOUS
    <2> USE DEF FromCache
    <2>1. ASSUME NEW reg, NEW before, ServeRegisterByte(reg, before),
                 before = {} \/ before = lidar_high
          PROVE  FromCache'
      <3>1. CASE reg = LIDAR_REG_FULL_DELAY_HIGH
        <4>1. /\ transaction_distance_cache' = simulated_distance_mm
              /\ lidar_high' = {simulated_distance_mm}
              /\ lidar_low' = {}
          BY <2>1, <3>1
          DEF ServeRegisterByte, LIDAR_REG_FULL_DELAY_HIGH, LIDAR_REG_FULL_DELAY_LOW
        <4>2. QED
          BY <4>1
      <3>2. CASE reg # LIDAR_REG_FULL_DELAY_HIGH
        <4>1. /\ transaction_distance_cache' = transaction_distance_cache
              /\ lidar_high' = before
              /\ lidar_low' = {} \/ lidar_low' = {transaction_distance_cache}
          BY <2>1, <3>2 DEF ServeRegisterByte
        <4>2. QED
          BY <2>1, <4>1
      <3>3. QED
        BY <3>1, <3>2
    <2>2. CASE LidarBus
      <3>1. CASE LidarReadRequested
        BY <2>1, <3>1 DEF LidarReadRequested
      <3>2. CASE LidarReadProcessed
        BY <2>1, <3>2 DEF LidarReadProcessed
      <3>3. CASE LidarWriteRequested \/ (\E val \in LidarRegs : LidarWriteReceived(val)) \/ LidarStop
        BY <3>3 DEF LidarWriteRequested, LidarWriteReceived, LidarStop
      <3>4. QED
        BY <2>2, <3>1, <3>2, <3>3 DEF LidarBus, LidarCallback
    <2>3. CASE SensorThread
      BY <2>3 DEF SensorThread, SenPeek, SenLidar, SenImuIndex, SenImuCopy, SenImuPublish,
         SenWakeUp, LidarUpdateDistance, lidarVars, lidarBus
    <2>4. CASE ImuBus \/ GateStep \/ UNCHANGED vars
      BY <2>4 DEF ImuBus, GateStep, vars, lidarVars, lidarBus
    <2>5. QED
      BY <2>2, <2>3, <2>4 DEF Next
  <1>3. FromCache => LidarCoherent
    BY DEF FromCache, LidarCoherent
  <1>4. QED
    BY <1>1, <1>2, <1>3, PTL DEF Spec

--------------------------------------------------------------------------------
(***************************************************************************)
(* The two images of the IMU.                                              *)
(***************************************************************************)

\* The active image shows one packet, and the writer works on the other.
ImageInv ==
  /\ \A c \in Group : imu_buf[active_idx][c] = ImuId
  /\ sen_pc = "imu_copy" =>
       /\ imu_inactive = 1 - active_idx
       /\ \A c \in imu_copied : imu_buf[imu_inactive][c] = sen_pkt

\* A callback on the IMU bus changes no image.
LEMMA CallbackKeepsImages ==
  ASSUME ImuCallback
  PROVE  UNCHANGED <<imu_buf, active_idx, imu_inactive, imu_copied>>
  BY DEF ImuCallback, ImuWriteRequested, ImuWriteReceived, ImuReadRequested,
     ImuReadProcessed, ImuStop, imuImage, imuWriter

LEMMA ImageInvariant == Spec => []ImageInv
  <1>1. Init => ImageInv
    <2> SUFFICES ASSUME Init PROVE ImageInv
      OBVIOUS
    <2>1. /\ imu_buf = [idx \in {0, 1} |-> [c \in Group |-> 0]]
          /\ active_idx = 0 /\ sen_pc = "peek"
      BY DEF Init, ImuInit
    <2>2. 1 \in Group
      BY ImuAssumption DEF Group
    <2>3. \A c \in Group : imu_buf[active_idx][c] = 0
      BY <2>1
    <2>4. QED
      BY <2>1, <2>2, <2>3 DEF ImageInv, ImuId
  <1>2. TypeOK /\ ImageInv /\ [Next]_vars => ImageInv'
    <2> SUFFICES ASSUME TypeOK, ImageInv, [Next]_vars
                 PROVE  ImageInv'
      OBVIOUS
    <2>0. /\ imu_buf \in [{0, 1} -> [Group -> Nat]]
          /\ active_idx \in {0, 1} /\ imu_inactive \in {0, 1}
          /\ 1 \in Group
      BY ImuAssumption DEF TypeOK, ImuType, Group
    <2>1. CASE SenImuIndex
      <3>1. /\ imu_inactive' = 1 - active_idx /\ imu_copied' = {}
            /\ imu_buf' = imu_buf /\ active_idx' = active_idx
        BY <2>1 DEF SenImuIndex, ImuUpdateIndex, imuImage
      <3>2. QED
        BY <3>1 DEF ImageInv, ImuId
    <2>2. CASE SenImuCopy
      <3>1. PICK c \in Group \ imu_copied :
              /\ imu_buf' = [imu_buf EXCEPT ![imu_inactive] = [@ EXCEPT ![c] = sen_pkt]]
              /\ imu_copied' = imu_copied \union {c}
              /\ UNCHANGED <<active_idx, imu_inactive>>
        BY <2>2 DEF SenImuCopy, ImuUpdateCopy
      <3>2. sen_pc = "imu_copy" /\ sen_pc' = sen_pc /\ sen_pkt' = sen_pkt
        BY <2>2 DEF SenImuCopy, sensor
      <3>3. imu_inactive = 1 - active_idx /\ imu_inactive # active_idx
        BY <2>0, <3>2 DEF ImageInv
      <3>4. imu_buf'[active_idx] = imu_buf[active_idx]
        BY <2>0, <3>1, <3>3
      <3>5. /\ imu_buf'[imu_inactive][c] = sen_pkt
            /\ \A d \in Group : d # c => imu_buf'[imu_inactive][d] = imu_buf[imu_inactive][d]
        BY <2>0, <3>1
      <3>6. imu_copied \subseteq Group
        BY DEF TypeOK, ImuType
      <3>7. \A d \in imu_copied' : imu_buf'[imu_inactive'][d] = sen_pkt'
        BY <3>1, <3>2, <3>5, <3>6 DEF ImageInv
      <3>8. \A d \in Group : imu_buf'[active_idx'][d] = ImuId'
        BY <2>0, <3>1, <3>4 DEF ImageInv, ImuId
      <3>9. QED
        BY <3>1, <3>3, <3>7, <3>8 DEF ImageInv
    <2>3. CASE SenImuPublish
      <3>1. /\ imu_copied = Group /\ sen_pc = "imu_copy" /\ sen_pc' = "sleep"
            /\ active_idx' = imu_inactive /\ imu_buf' = imu_buf
        BY <2>3 DEF SenImuPublish, ImuUpdatePublish, GoToSleep
      <3>2. \A c \in Group : imu_buf[imu_inactive][c] = sen_pkt
        BY <3>1 DEF ImageInv
      <3>3. QED
        BY <2>0, <3>1, <3>2 DEF ImageInv, ImuId
    <2>4. CASE SenPeek \/ SenLidar \/ SenWakeUp
      <3>1. /\ UNCHANGED <<imu_buf, active_idx>>
            /\ sen_pc' # "imu_copy"
        BY <2>4 DEF SenPeek, SenLidar, SenWakeUp, GoToSleep, imuVars, imuImage
      <3>2. QED
        BY <3>1 DEF ImageInv, ImuId
    <2>5. CASE ImuBus
      <3>1. UNCHANGED <<imu_buf, active_idx, imu_inactive, imu_copied, sen_pc, sen_pkt>>
        BY <2>5, CallbackKeepsImages DEF ImuBus, sensor
      <3>2. QED
        BY <3>1 DEF ImageInv, ImuId
    <2>6. CASE LidarBus \/ GateStep \/ UNCHANGED vars
      BY <2>6 DEF LidarBus, GateStep, vars, imuVars, imuImage, imuWriter, sensor, ImageInv,
         ImuId
    <2>7. QED
      BY <2>1, <2>2, <2>3, <2>4, <2>5, <2>6 DEF Next, SensorThread
  <1>3. QED
    BY <1>1, <1>2, ServingTypeCorrect, PTL DEF Spec

--------------------------------------------------------------------------------
(***************************************************************************)
(* The two sensors show the same moment.                                   *)
(***************************************************************************)
StepInv ==
  /\ sen_pc \in {"sleep", "peek"} => ImuId = sen_pkt
  /\ sen_pc \in {"sleep", "peek", "lidar"} => ImuId = simulated_distance_mm
  /\ sen_pc \in {"imu_index", "imu_copy"} => simulated_distance_mm = sen_pkt
  /\ ImuId <= simulated_distance_mm
  /\ simulated_distance_mm <= sen_pkt
  /\ sen_pkt <= served

LEMMA StepInvariant == Spec => []StepInv
  <1>1. Init => StepInv
    <2> SUFFICES ASSUME Init PROVE StepInv
      OBVIOUS
    <2>1. 1 \in Group
      BY ImuAssumption DEF Group
    <2>2. /\ imu_buf = [idx \in {0, 1} |-> [c \in Group |-> 0]] /\ active_idx = 0
          /\ sen_pkt = 0 /\ served = 0 /\ simulated_distance_mm = 0 /\ sen_pc = "peek"
      BY DEF Init, ImuInit, LidarInit, Gate!Init
    <2>3. ImuId = 0
      BY <2>1, <2>2 DEF ImuId
    <2>4. QED
      BY <2>2, <2>3 DEF StepInv
  <1>2. TypeOK /\ GateInv /\ ImageInv /\ StepInv /\ [Next]_vars => StepInv'
    <2> SUFFICES ASSUME TypeOK, GateInv, ImageInv, StepInv, [Next]_vars
                 PROVE  StepInv'
      OBVIOUS
    <2>0. /\ served \in Nat /\ sen_pkt \in Nat /\ simulated_distance_mm \in Nat
          /\ sen_pc \in SenLocations /\ ImuId \in Nat
          /\ imu_buf \in [{0, 1} -> [Group -> Nat]]
          /\ active_idx \in {0, 1} /\ 1 \in Group
      BY ImuIdType, ImuAssumption DEF TypeOK, ImuType, LidarType, SensorType, Group
    <2>1. CASE SenPeek
      <3>1. UNCHANGED <<served, simulated_distance_mm, ImuId>>
        BY <2>1 DEF SenPeek, gate, lidarVars, imuVars, imuImage, ImuId
      <3>2. CASE served > 0
        <4>1. sen_pc = "peek" /\ sen_pc' = "lidar" /\ sen_pkt' = served
          BY <2>1, <3>2 DEF SenPeek
        <4>2. QED
          BY <2>0, <3>1, <4>1 DEF StepInv
      <3>3. CASE ~(served > 0)
        <4>1. sen_pc = "peek" /\ sen_pc' = "sleep" /\ sen_pkt' = sen_pkt
          BY <2>1, <3>3 DEF SenPeek, GoToSleep
        <4>2. QED
          BY <2>0, <3>1, <4>1 DEF StepInv
      <3>4. QED
        BY <3>2, <3>3
    <2>2. CASE SenLidar
      <3>1. /\ sen_pc = "lidar" /\ sen_pc' = "imu_index" /\ simulated_distance_mm' = sen_pkt
            /\ UNCHANGED <<served, sen_pkt, ImuId>>
        BY <2>2 DEF SenLidar, LidarUpdateDistance, gate, imuVars, imuImage, ImuId
      <3>2. QED
        BY <2>0, <3>1 DEF StepInv
    <2>3. CASE SenImuIndex
      <3>1. /\ sen_pc = "imu_index" /\ sen_pc' = "imu_copy"
            /\ UNCHANGED <<served, sen_pkt, simulated_distance_mm, ImuId>>
        BY <2>3 DEF SenImuIndex, ImuUpdateIndex, gate, lidarVars, imuImage, ImuId
      <3>2. QED
        BY <2>0, <3>1 DEF StepInv
    <2>4. CASE SenImuCopy
      <3>1. PICK c \in Group \ imu_copied :
              /\ imu_buf' = [imu_buf EXCEPT ![imu_inactive] = [@ EXCEPT ![c] = sen_pkt]]
              /\ UNCHANGED <<active_idx, imu_inactive>>
        BY <2>4 DEF SenImuCopy, ImuUpdateCopy
      <3>2. imu_inactive # active_idx
        BY <2>0, <2>4 DEF ImageInv, SenImuCopy
      <3>3. ImuId' = ImuId
        BY <2>0, <3>1, <3>2 DEF ImuId
      <3>4. /\ sen_pc = "imu_copy" /\ sen_pc' = "imu_copy"
            /\ UNCHANGED <<served, sen_pkt, simulated_distance_mm>>
        BY <2>4 DEF SenImuCopy, sensor, gate, lidarVars
      <3>5. QED
        BY <2>0, <3>3, <3>4 DEF StepInv
    <2>5. CASE SenImuPublish
      <3>1. /\ sen_pc = "imu_copy" /\ sen_pc' = "sleep" /\ imu_copied = Group
            /\ active_idx' = imu_inactive /\ imu_buf' = imu_buf
            /\ UNCHANGED <<served, sen_pkt, simulated_distance_mm>>
        BY <2>5 DEF SenImuPublish, ImuUpdatePublish, GoToSleep, gate, lidarVars
      <3>2. ImuId' = sen_pkt
        BY <2>0, <3>1 DEF ImageInv, ImuId
      <3>3. QED
        BY <2>0, <3>1, <3>2 DEF StepInv
    <2>6. CASE SenWakeUp
      <3>1. /\ sen_pc = "sleep" /\ sen_pc' = "peek"
            /\ UNCHANGED <<served, sen_pkt, simulated_distance_mm, ImuId>>
        BY <2>6 DEF SenWakeUp, gate, lidarVars, imuVars, imuImage, ImuId
      <3>2. QED
        BY <2>0, <3>1 DEF StepInv
    <2>7. CASE ImuBus
      <3>1. UNCHANGED <<sen_pc, served, sen_pkt, simulated_distance_mm, ImuId>>
        BY <2>7, CallbackKeepsImages DEF ImuBus, sensor, gate, lidarVars, ImuId
      <3>2. QED
        BY <3>1 DEF StepInv
    <2>8. CASE LidarBus
      <3>1. simulated_distance_mm' = simulated_distance_mm
        BY <2>8 DEF LidarBus, LidarCallback, LidarWriteRequested, LidarWriteReceived,
           LidarReadRequested, LidarReadProcessed, LidarStop
      <3>2. UNCHANGED <<sen_pc, served, sen_pkt, ImuId>>
        BY <2>8 DEF LidarBus, sensor, gate, imuVars, imuImage, ImuId
      <3>3. QED
        BY <3>1, <3>2 DEF StepInv
    <2>9. CASE GateStep
      <3>1. served <= served' /\ served' \in Nat
        BY <2>9, GateAdvances DEF GateStep, GateInv
      <3>2. UNCHANGED <<sen_pc, sen_pkt, simulated_distance_mm, ImuId>>
        BY <2>9 DEF GateStep, sensor, lidarVars, imuVars, imuImage, ImuId
      <3>3. sen_pkt <= served'
        BY <2>0, <3>1 DEF StepInv
      <3>4. QED
        BY <3>2, <3>3 DEF StepInv
    <2>10. CASE UNCHANGED vars
      BY <2>10 DEF vars, sensor, gate, lidarVars, imuVars, imuImage, ImuId, StepInv
    <2>11. QED
      BY <2>1, <2>2, <2>3, <2>4, <2>5, <2>6, <2>7, <2>8, <2>9, <2>10 DEF Next, SensorThread
  <1>3. QED
    BY <1>1, <1>2, ServingTypeCorrect, GateInvariant, ImageInvariant, PTL DEF Spec

\* The LiDAR and the IMU tell of the same packet while the thread sleeps, and
\* neither is ever ahead of the gate.
THEOREM SensorsInStepCorrect == Spec => []SensorsInStep
  <1>1. StepInv => SensorsInStep
    BY DEF StepInv, SensorsInStep
  <1>2. QED
    BY <1>1, StepInvariant, PTL

--------------------------------------------------------------------------------
(***************************************************************************)
(* No torn read within one sleep of the sensor emulation thread.           *)
(***************************************************************************)

\* The image of a read in progress is whole.  It is the active one, until a
\* flip; and after the flip the writer sleeps before it comes back to it.
ReadInv ==
  imu_bus = "reading" /\ ~spanned =>
    /\ \A c \in Group : imu_buf[imu_snap_buf_idx][c] = imu_seen
    /\ \A n \in imu_ids : n = imu_seen
    /\ imu_snap_buf_idx # active_idx => sen_pc = "sleep" /\ slept_in

THEOREM ImuCoherentCorrect == Spec => []ImuCoherent
  <1>1. Init => ReadInv
    BY DEF Init, ImuInit, ReadInv
  <1>2. TypeOK /\ ImageInv /\ ReadInv /\ [Next]_vars => ReadInv'
    <2> SUFFICES ASSUME TypeOK, ImageInv, ReadInv, [Next]_vars,
                        imu_bus' = "reading", ~spanned'
                 PROVE  /\ \A c \in Group : imu_buf'[imu_snap_buf_idx'][c] = imu_seen'
                        /\ \A n \in imu_ids' : n = imu_seen'
                        /\ imu_snap_buf_idx' # active_idx' => sen_pc' = "sleep" /\ slept_in'
      BY DEF ReadInv
    <2>0. /\ imu_buf \in [{0, 1} -> [Group -> Nat]]
          /\ active_idx \in {0, 1} /\ imu_snap_buf_idx \in {0, 1}
          /\ slept_in \in BOOLEAN /\ spanned \in BOOLEAN
      BY DEF TypeOK, ImuType, SensorType
    <2>1. CASE SenPeek \/ SenLidar \/ SenImuIndex
      <3>1. UNCHANGED <<imu_buf, active_idx, imuBus>>
        BY <2>1 DEF SenPeek, SenLidar, SenImuIndex, ImuUpdateIndex, imuVars, imuImage
      <3>2. sen_pc # "sleep" /\ spanned' = spanned
        BY <2>1 DEF SenPeek, SenLidar, SenImuIndex, GoToSleep, overlap
      <3>3. QED
        BY <3>1, <3>2 DEF ReadInv, imuBus
    <2>2. CASE SenImuCopy
      <3>1. PICK c \in Group \ imu_copied :
              /\ imu_buf' = [imu_buf EXCEPT ![imu_inactive] = [@ EXCEPT ![c] = sen_pkt]]
              /\ UNCHANGED <<active_idx, imuBus>>
        BY <2>2 DEF SenImuCopy, ImuUpdateCopy
      <3>2. sen_pc = "imu_copy" /\ sen_pc' = "imu_copy" /\ UNCHANGED overlap
        BY <2>2 DEF SenImuCopy, sensor
      <3>3. imu_bus = "reading" /\ ~spanned
        BY <3>1, <3>2 DEF imuBus, overlap
      <3>4. imu_snap_buf_idx = active_idx
        BY <3>2, <3>3 DEF ReadInv
      <3>5. imu_inactive # active_idx
        BY <2>0, <3>2 DEF ImageInv
      <3>6. imu_buf'[active_idx] = imu_buf[active_idx]
        BY <2>0, <3>1, <3>5
      <3>7. QED
        BY <3>1, <3>3, <3>4, <3>6 DEF ReadInv, imuBus
    <2>3. CASE SenImuPublish
      <3>1. /\ sen_pc = "imu_copy" /\ sen_pc' = "sleep"
            /\ slept_in' = (imu_bus = "reading") /\ spanned' = spanned
            /\ imu_buf' = imu_buf /\ UNCHANGED imuBus
        BY <2>3 DEF SenImuPublish, ImuUpdatePublish, GoToSleep
      <3>2. QED
        BY <3>1 DEF ReadInv, imuBus
    <2>4. CASE SenWakeUp
      <3>1. /\ spanned' = (spanned \/ slept_in) /\ slept_in' = slept_in
            /\ imu_buf' = imu_buf /\ active_idx' = active_idx /\ UNCHANGED imuBus
        BY <2>4 DEF SenWakeUp, imuVars, imuImage
      <3>2. ~spanned /\ ~slept_in
        BY <3>1
      <3>3. QED
        BY <3>1, <3>2 DEF ReadInv, imuBus
    <2>5. CASE ImuBus
      <3>1. UNCHANGED <<imu_buf, active_idx, sen_pc, overlap>>
        BY <2>5, CallbackKeepsImages DEF ImuBus, sensor
      <3>2. CASE ImuReadRequested
        <4>1. /\ imu_snap_buf_idx' = active_idx /\ imu_seen' = ImuId
              /\ imu_ids' = ServeImuByte(active_idx, imu_current_reg)
          BY <3>2 DEF ImuReadRequested
        <4>2. \A c \in Group : imu_buf[active_idx][c] = ImuId
          BY DEF ImageInv
        <4>3. \A n \in imu_ids' : n = imu_seen'
          BY <4>1, <4>2 DEF ServeImuByte
        <4>4. QED
          BY <3>1, <4>1, <4>2, <4>3
      <3>3. CASE ImuReadProcessed
        <4>1. /\ imu_bus = "reading"
              /\ imu_ids' = imu_ids \union ServeImuByte(imu_snap_buf_idx, imu_current_reg)
              /\ UNCHANGED <<imu_snap_buf_idx, imu_seen>>
          BY <3>3 DEF ImuReadProcessed
        <4>2. ~spanned
          BY <3>1 DEF overlap
        <4>3. /\ \A c \in Group : imu_buf[imu_snap_buf_idx][c] = imu_seen
              /\ \A n \in imu_ids : n = imu_seen
              /\ imu_snap_buf_idx # active_idx => sen_pc = "sleep" /\ slept_in
          BY <4>1, <4>2 DEF ReadInv
        <4>4. \A n \in imu_ids' : n = imu_seen'
          BY <4>1, <4>3 DEF ServeImuByte
        <4>5. QED
          BY <3>1, <4>1, <4>3, <4>4 DEF overlap
      <3>4. CASE ImuWriteRequested \/ (\E val \in ImuRegs : ImuWriteReceived(val)) \/ ImuStop
        <4>1. imu_bus' # "reading"
          BY <3>4 DEF ImuWriteRequested, ImuWriteReceived, ImuStop
        <4>2. QED
          BY <4>1
      <3>5. QED
        BY <2>5, <3>2, <3>3, <3>4 DEF ImuBus, ImuCallback
    <2>6. CASE LidarBus \/ GateStep \/ UNCHANGED vars
      <3>1. UNCHANGED <<imu_buf, active_idx, imuBus, sen_pc, overlap>>
        BY <2>6 DEF LidarBus, GateStep, vars, imuVars, imuImage, sensor
      <3>2. QED
        BY <3>1 DEF ReadInv, imuBus, overlap
    <2>7. QED
      BY <2>1, <2>2, <2>3, <2>4, <2>5, <2>6 DEF Next, SensorThread
  <1>3. ReadInv => ImuCoherent
    BY DEF ReadInv, ImuCoherent
  <1>4. QED
    BY <1>1, <1>2, <1>3, ServingTypeCorrect, ImageInvariant, PTL DEF Spec

--------------------------------------------------------------------------------
(***************************************************************************)
(* Neither sensor goes back in time.                                       *)
(***************************************************************************)

\* What a sensor shows never gets older ...
LEMMA ShownAdvances ==
  ASSUME TypeOK, ImageInv, StepInv, [Next]_vars
  PROVE  ImuId <= ImuId' /\ simulated_distance_mm <= simulated_distance_mm'
  <1>0. /\ sen_pkt \in Nat /\ simulated_distance_mm \in Nat /\ ImuId \in Nat
        /\ imu_buf \in [{0, 1} -> [Group -> Nat]]
        /\ active_idx \in {0, 1} /\ imu_inactive \in {0, 1} /\ 1 \in Group
    BY ImuIdType, ImuAssumption DEF TypeOK, ImuType, LidarType, SensorType, Group
  <1>1. CASE SenLidar
    <2>1. ImuId' = ImuId /\ simulated_distance_mm' = sen_pkt
      BY <1>1 DEF SenLidar, LidarUpdateDistance, imuVars, imuImage, ImuId
    <2>2. QED
      BY <1>0, <2>1 DEF StepInv
  <1>2. CASE SenImuCopy
    <2>1. PICK c \in Group \ imu_copied :
            /\ imu_buf' = [imu_buf EXCEPT ![imu_inactive] = [@ EXCEPT ![c] = sen_pkt]]
            /\ active_idx' = active_idx
      BY <1>2 DEF SenImuCopy, ImuUpdateCopy
    <2>2. imu_inactive # active_idx
      BY <1>0, <1>2 DEF ImageInv, SenImuCopy
    <2>3. ImuId' = ImuId
      BY <1>0, <2>1, <2>2 DEF ImuId
    <2>4. simulated_distance_mm' = simulated_distance_mm
      BY <1>2 DEF SenImuCopy, lidarVars
    <2>5. QED
      BY <1>0, <2>3, <2>4
  <1>3. CASE SenImuPublish
    <2>1. /\ sen_pc = "imu_copy" /\ imu_copied = Group
          /\ active_idx' = imu_inactive /\ imu_buf' = imu_buf
          /\ simulated_distance_mm' = simulated_distance_mm
      BY <1>3 DEF SenImuPublish, ImuUpdatePublish, lidarVars
    <2>2. ImuId' = sen_pkt
      BY <1>0, <2>1 DEF ImageInv, ImuId
    <2>3. QED
      BY <1>0, <2>1, <2>2 DEF StepInv
  <1>4. CASE SenPeek \/ SenImuIndex \/ SenWakeUp
    <2>1. UNCHANGED <<imu_buf, active_idx, simulated_distance_mm>>
      BY <1>4 DEF SenPeek, SenImuIndex, ImuUpdateIndex, SenWakeUp, imuVars, imuImage,
         lidarVars
    <2>2. QED
      BY <1>0, <2>1 DEF ImuId
  <1>5. CASE ImuBus \/ LidarBus
    <2>1. simulated_distance_mm' = simulated_distance_mm
      BY <1>5 DEF ImuBus, lidarVars, LidarBus, LidarCallback, LidarWriteRequested,
         LidarWriteReceived, LidarReadRequested, LidarReadProcessed, LidarStop
    <2>2. UNCHANGED <<imu_buf, active_idx>>
      BY <1>5, CallbackKeepsImages DEF ImuBus, LidarBus, imuVars, imuImage
    <2>3. QED
      BY <1>0, <2>1, <2>2 DEF ImuId
  <1>6. CASE GateStep \/ UNCHANGED vars
    BY <1>0, <1>6 DEF GateStep, vars, imuVars, imuImage, lidarVars, ImuId
  <1>7. QED
    BY <1>1, <1>2, <1>3, <1>4, <1>5, <1>6 DEF Next, SensorThread

\* ... and what a read began with or cached was shown at that moment.
LEMMA ReadsWhatIsShown ==
  ASSUME [Next]_vars
  PROVE  /\ imu_seen' \in {imu_seen, ImuId}
         /\ transaction_distance_cache' \in {transaction_distance_cache, simulated_distance_mm}
  <1>1. CASE SensorThread
    BY <1>1 DEF SensorThread, SenPeek, SenLidar, SenImuIndex, SenImuCopy, SenImuPublish,
       SenWakeUp, ImuUpdateIndex, ImuUpdateCopy, ImuUpdatePublish, LidarUpdateDistance,
       imuVars, imuBus, lidarVars, lidarBus
  <1>2. CASE ImuBus
    BY <1>2 DEF ImuBus, lidarVars, lidarBus, ImuCallback, ImuWriteRequested,
       ImuWriteReceived, ImuReadRequested, ImuReadProcessed, ImuStop
  <1>3. CASE LidarBus
    BY <1>3 DEF LidarBus, imuVars, imuBus, LidarCallback, LidarWriteRequested,
       LidarWriteReceived, LidarReadRequested, LidarReadProcessed, LidarStop,
       ServeRegisterByte
  <1>4. CASE GateStep \/ UNCHANGED vars
    BY <1>4 DEF GateStep, vars, imuVars, imuBus, lidarVars, lidarBus
  <1>5. QED
    BY <1>1, <1>2, <1>3, <1>4 DEF Next

\* A read never began with something newer than what is shown now.
SeenInv == imu_seen <= ImuId /\ transaction_distance_cache <= simulated_distance_mm

LEMMA SeenInvariant == Spec => []SeenInv
  <1>1. Init => SeenInv
    <2> SUFFICES ASSUME Init PROVE SeenInv
      OBVIOUS
    <2>1. 1 \in Group
      BY ImuAssumption DEF Group
    <2>2. /\ imu_buf = [idx \in {0, 1} |-> [c \in Group |-> 0]] /\ active_idx = 0
          /\ imu_seen = 0 /\ transaction_distance_cache = 0 /\ simulated_distance_mm = 0
      BY DEF Init, ImuInit, LidarInit
    <2>3. QED
      BY <2>1, <2>2 DEF SeenInv, ImuId
  <1>2. TypeOK /\ TypeOK' /\ ImageInv /\ StepInv /\ SeenInv /\ [Next]_vars => SeenInv'
    <2> SUFFICES ASSUME TypeOK, TypeOK', ImageInv, StepInv, SeenInv, [Next]_vars
                 PROVE  SeenInv'
      OBVIOUS
    <2>1. /\ imu_seen \in Nat /\ transaction_distance_cache \in Nat
          /\ ImuId \in Nat /\ simulated_distance_mm \in Nat
      BY ImuIdType DEF TypeOK, ImuType, LidarType
    <2>2. ImuId' \in Nat /\ simulated_distance_mm' \in Nat
      <3>1. imu_buf' \in [{0, 1} -> [Group -> Nat]] /\ active_idx' \in {0, 1} /\ 1 \in Group
        BY ImuAssumption DEF TypeOK, ImuType, Group
      <3>2. QED
        BY <3>1 DEF ImuId, TypeOK, LidarType
    <2>3. QED
      BY <2>1, <2>2, ShownAdvances, ReadsWhatIsShown DEF SeenInv
  <1>3. QED
    BY <1>1, <1>2, ServingTypeCorrect, ImageInvariant, StepInvariant, PTL DEF Spec

\* No step makes what the DUT is shown, or what its reads begin with, older.
THEOREM NoRegressCorrect == Spec => NoRegress
  <1>1. TypeOK /\ ImageInv /\ StepInv /\ SeenInv /\ [Next]_vars
          => [/\ ImuId' >= ImuId
              /\ imu_seen' >= imu_seen
              /\ simulated_distance_mm' >= simulated_distance_mm
              /\ transaction_distance_cache' >= transaction_distance_cache]_vars
    <2> SUFFICES ASSUME TypeOK, ImageInv, StepInv, SeenInv, [Next]_vars
                 PROVE  /\ ImuId' >= ImuId
                        /\ imu_seen' >= imu_seen
                        /\ simulated_distance_mm' >= simulated_distance_mm
                        /\ transaction_distance_cache' >= transaction_distance_cache
      OBVIOUS
    <2>1. /\ imu_seen \in Nat /\ transaction_distance_cache \in Nat
          /\ ImuId \in Nat /\ simulated_distance_mm \in Nat
      BY ImuIdType DEF TypeOK, ImuType, LidarType
    <2>2. QED
      BY <2>1, ShownAdvances, ReadsWhatIsShown DEF SeenInv
  <1>2. QED
    BY <1>1, ServingTypeCorrect, ImageInvariant, StepInvariant, SeenInvariant, PTL
    DEF Spec, NoRegress

================================================================================
