----------------------------- MODULE SensorServing ------------------------------
(***************************************************************************)
(* From the gate to the DUT: the sensor emulation thread,                  *)
(* test_node/app/src/threads/sensor_emulation_test.c, peeks at the gate    *)
(* and updates the two emulators, while the DUT reads them over two I2C    *)
(* buses.  What is in front of the gate is the abstract CausalityGate,     *)
(* which the scheduler of HilScheduler implements.                         *)
(*                                                                         *)
(* The thread is preempted between any two steps: by the scheduler thread  *)
(* and the injection timer, which may change the gate, and by the          *)
(* interrupts of the I2C controllers.                                      *)
(***************************************************************************)
EXTENDS ImuEmulator, LidarEmulator

CONSTANT MaxPackets  \* bound: packets the node receives

ASSUME PacketAssumption == MaxPackets \in Nat

VARIABLES
  received, inside, served,  \* of the CausalityGate
  sen_pc,                    \* where the sensor emulation thread is
  sen_pkt,                   \* its local copy of the packet
  slept_in,                  \* history: the IMU read in progress was there
                             \* when the thread went to sleep,
  spanned                    \* history: and still when it woke up

gate == <<received, inside, served>>
sensor == <<sen_pc, sen_pkt>>
overlap == <<slept_in, spanned>>
vars == <<imuVars, lidarVars, gate, sensor, overlap>>

Gate == INSTANCE CausalityGate

SenLocations == {"peek", "lidar", "imu_index", "imu_copy", "sleep"}

Init ==
  /\ ImuInit
  /\ LidarInit
  /\ Gate!Init
  /\ sen_pc = "peek"
  /\ sen_pkt = 0
  /\ slept_in = FALSE
  /\ spanned = FALSE

\* Entering k_sleep.
GoToSleep ==
  /\ sen_pc' = "sleep"
  /\ slept_in' = (imu_bus = "reading")
  /\ UNCHANGED spanned

--------------------------------------------------------------------------------
\* Wrong variants, for mutation runs: the IMU data is read from the gate
\* again, and the LiDAR is updated only when its bus is idle.
SenImuCopyRepeek ==
  /\ sen_pc = "imu_copy"
  /\ ImuUpdateCopy(served)
  /\ UNCHANGED <<sensor, overlap, lidarVars, gate>>

SenLidarWhenIdle ==
  /\ sen_pc = "lidar"
  /\ IF lidar_bus = "idle" THEN LidarUpdateDistance(sen_pkt) ELSE UNCHANGED lidarVars
  /\ sen_pc' = "imu_index"
  /\ UNCHANGED <<sen_pkt, overlap, imuVars, gate>>

--------------------------------------------------------------------------------
(***************************************************************************)
(* sensor_emulation_thread.                                                *)
(***************************************************************************)

\* k_msgq_peek; an empty gate sends the thread back to sleep.
SenPeek ==
  /\ sen_pc = "peek"
  /\ IF served > 0
       THEN sen_pkt' = served /\ sen_pc' = "lidar" /\ UNCHANGED overlap
       ELSE GoToSleep /\ UNCHANGED sen_pkt
  /\ UNCHANGED <<imuVars, lidarVars, gate>>

SenLidar ==
  /\ sen_pc = "lidar"
  /\ LidarUpdateDistance(sen_pkt)
  /\ sen_pc' = "imu_index"
  /\ UNCHANGED <<sen_pkt, overlap, imuVars, gate>>

SenImuIndex ==
  /\ sen_pc = "imu_index"
  /\ ImuUpdateIndex
  /\ sen_pc' = "imu_copy"
  /\ UNCHANGED <<sen_pkt, overlap, lidarVars, gate>>

SenImuCopy ==
  /\ sen_pc = "imu_copy"
  /\ ImuUpdateCopy(sen_pkt)
  /\ UNCHANGED <<sensor, overlap, lidarVars, gate>>

SenImuPublish ==
  /\ sen_pc = "imu_copy"
  /\ ImuUpdatePublish
  /\ GoToSleep
  /\ UNCHANGED <<sen_pkt, lidarVars, gate>>

\* k_sleep(K_USEC(500)) returns.
SenWakeUp ==
  /\ sen_pc = "sleep"
  /\ sen_pc' = "peek"
  /\ spanned' = (spanned \/ slept_in)
  /\ UNCHANGED <<sen_pkt, slept_in, imuVars, lidarVars, gate>>

SensorThread ==
  \/ SenPeek
  \/ SenLidar
  \/ SenImuIndex
  \/ SenImuCopy
  \/ SenImuPublish
  \/ SenWakeUp

--------------------------------------------------------------------------------
\* A callback on the IMU bus.  The history forgets the read when it ends.
ImuBus ==
  /\ ImuCallback
  /\ IF imu_bus' = "reading"
       THEN UNCHANGED overlap
       ELSE slept_in' = FALSE /\ spanned' = FALSE
  /\ UNCHANGED <<sensor, lidarVars, gate>>

LidarBus == LidarCallback /\ UNCHANGED <<sensor, overlap, imuVars, gate>>

\* The Pi and the injection timer, at any time.
GateStep ==
  /\ Gate!Next
  /\ received' <= MaxPackets
  /\ UNCHANGED <<sensor, overlap, imuVars, lidarVars>>

Next == SensorThread \/ ImuBus \/ LidarBus \/ GateStep

Spec == Init /\ [][Next]_vars

\* The kernel wakes the thread and schedules it.  The DUT may stop in the
\* middle of a read and the Pi may stop sending.
FairSpec == Spec /\ WF_vars(SensorThread)

--------------------------------------------------------------------------------
(***************************************************************************)
(* Properties.                                                             *)
(***************************************************************************)
ImuType ==
  /\ imu_buf \in [{0, 1} -> [Group -> Nat]]
  /\ active_idx \in {0, 1}
  /\ imu_inactive \in {0, 1}
  /\ imu_copied \subseteq Group
  /\ imu_current_reg \in 0..(IF imu_bus = "reading" THEN Cells + 2 ELSE Cells + 1)
  /\ imu_snap_buf_idx \in {0, 1}
  /\ imu_bus \in {"idle", "addressed", "reading"}
  /\ diag_last_euler_x \in Nat
  /\ imu_ids \in SUBSET Nat
  /\ imu_seen \in Nat
  /\ imu_flips \in 0..2

LidarType ==
  /\ simulated_distance_mm \in Nat
  /\ transaction_distance_cache \in Nat
  /\ active_register \in 0..LastLidarReg
  /\ next_byte_is_reg_address \in BOOLEAN
  /\ lidar_bus \in {"idle", "addressed", "reading"}
  /\ diag_last_lidar_mm \in Nat
  /\ lidar_high \in SUBSET Nat
  /\ lidar_low \in SUBSET Nat

SensorType ==
  /\ received \in Nat
  /\ inside \in SUBSET Nat
  /\ served \in Nat
  /\ sen_pc \in SenLocations
  /\ sen_pkt \in Nat
  /\ slept_in \in BOOLEAN
  /\ spanned \in BOOLEAN

\* Every variable keeps its type.
TypeOK == ImuType /\ LidarType /\ SensorType

(***************************************************************************)
(* imu_emulator_test.h:22-25, "No struct tearing": the bytes of a read are *)
(* all from one packet, the one the active image showed when the read      *)
(* began.  The double buffer guarantees it for a read that does not last   *)
(* through a whole sleep of the sensor emulation thread.                   *)
(***************************************************************************)
ImuCoherent ==
  imu_bus = "reading" /\ ~spanned => \A n \in imu_ids : n = imu_seen

(***************************************************************************)
(* imu_emulator_test.h:27-32 says when a read is torn nevertheless: flip   *)
(* #1 makes the interrupt's buffer inactive, #2 active and #3 inactive     *)
(* again.  So no read is torn before flip #2.                              *)
(***************************************************************************)
TearNeedsSecondFlip == imu_flips < 2 => \A m, n \in imu_ids : m = n

(***************************************************************************)
(* lidar_emulator_test.h:19-22: the two bytes of a distance belong to the  *)
(* same sample, whatever is written between them.                          *)
(***************************************************************************)
LidarCoherent == \A h \in lidar_high, l \in lidar_low : h = l

(***************************************************************************)
(* The two sensors tell of the same moment: while the thread sleeps both   *)
(* show the packet it peeked last, and during an update the IMU is behind  *)
(* the LiDAR, never ahead of it, and the LiDAR never ahead of the gate.    *)
(***************************************************************************)
SensorsInStep ==
  /\ sen_pc \in {"sleep", "peek"} => ImuId = simulated_distance_mm
  /\ ImuId <= simulated_distance_mm
  /\ simulated_distance_mm <= sen_pkt
  /\ sen_pkt <= served

(***************************************************************************)
(* Time never runs backwards for the DUT: neither sensor shows an older    *)
(* packet than before, nor does a new read begin with one.                 *)
(***************************************************************************)
NoRegress ==
  [][/\ ImuId' >= ImuId
     /\ imu_seen' >= imu_seen
     /\ simulated_distance_mm' >= simulated_distance_mm
     /\ transaction_distance_cache' >= transaction_distance_cache]_vars

(***************************************************************************)
(* The emulators catch up with the gate, whatever the DUT does on the two  *)
(* buses: "no starvation", imu_emulator_test.h:25.                         *)
(***************************************************************************)
EmulatorsCatchUp ==
  \A n \in 1..MaxPackets :
    served >= n ~> simulated_distance_mm >= n /\ ImuId >= n

================================================================================
