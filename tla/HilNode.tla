-------------------------------- MODULE HilNode --------------------------------
(***************************************************************************)
(* The HIL node as a whole: the scheduler thread and the injection timer   *)
(* of HilScheduler, and behind the gate the sensor emulation thread, the   *)
(* two emulators and the DUT's bus traffic of SensorServing, whose         *)
(* abstract gate is here the scheduler's own.                              *)
(*                                                                         *)
(* The two diagnostics that both the scheduler and an emulator write are   *)
(* kept apart, as only the diagnostic thread reads them.                   *)
(***************************************************************************)
EXTENDS HilScheduler

CONSTANTS Cells, ImuRegs, LidarRegs  \* as in ImuEmulator and LidarEmulator

VARIABLES
  imu_buf, active_idx, imu_inactive, imu_copied, imu_current_reg, imu_snap_buf_idx,
  imu_bus, imu_ids, imu_seen, imu_flips,
  simulated_distance_mm, transaction_distance_cache, active_register,
  next_byte_is_reg_address, lidar_bus, lidar_high, lidar_low,
  sen_pc, sen_pkt, slept_in, spanned,
  served_euler_x, served_lidar_mm  \* what the emulators write to diag_last_*

Serving ==
  INSTANCE SensorServing WITH
    MaxPackets <- MaxFrames,
    received <- diag_spi_rx,
    inside <- Ids(scheduler_q) \union (IF InHand THEN {pkt.id} ELSE {}),
    served <- GateId,
    diag_last_euler_x <- served_euler_x,
    diag_last_lidar_mm <- served_lidar_mm

serving ==
  <<imu_buf, active_idx, imu_inactive, imu_copied, imu_current_reg, imu_snap_buf_idx, imu_bus,
    served_euler_x, imu_ids, imu_seen, imu_flips,
    simulated_distance_mm, transaction_distance_cache, active_register,
    next_byte_is_reg_address, lidar_bus, served_lidar_mm, lidar_high, lidar_low,
    sen_pc, sen_pkt, slept_in, spanned>>
nodeVars == <<vars, serving>>

NodeInit == Init /\ Serving!Init

\* scheduler_test.h:58-64: the scheduler thread preempts the sensor emulation
\* thread, which runs while the other waits for a frame or sleeps.
SchedulerWaits == pc \in {"spi_read", "retry_sleep"}

SchedulerStep == Next /\ UNCHANGED serving

SensorStep == SchedulerWaits /\ UNCHANGED vars /\ Serving!SensorThread

BusStep == UNCHANGED vars /\ (Serving!ImuBus \/ Serving!LidarBus)

NodeNext == SchedulerStep \/ SensorStep \/ BusStep

NodeSpec == NodeInit /\ [][NodeNext]_nodeVars

--------------------------------------------------------------------------------
(***************************************************************************)
(* scheduler_test.h:12-14, the Arrow of Time: "the DUT is never served     *)
(* physics state from the future".  A read of the IMU that shows the       *)
(* packet at the gate shows one whose timestamp has come.                  *)
(***************************************************************************)
ArrowOfTime ==
  imu_bus = "reading" /\ sensor_update_q # <<>> /\ imu_seen = GateId
    => sensor_update_q[1].ts <= clock

================================================================================
