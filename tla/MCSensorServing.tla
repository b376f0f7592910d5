---------------------------- MODULE MCSensorServing -----------------------------
EXTENDS SensorServing

\* The unmapped register 0 and the first one of the group.
MCImuRegs == {0, 1}

\* ACQ_COMMAND, STATUS, the register before the pair, and its two bytes.
MCLidarRegs ==
  {LIDAR_REG_ACQ_COMMAND, LIDAR_REG_STATUS, LIDAR_REG_FULL_DELAY_HIGH - 1,
   LIDAR_REG_FULL_DELAY_HIGH, LIDAR_REG_FULL_DELAY_LOW}

(***************************************************************************)
(* The two buses share no state, so a behaviour uses one of them; or it is *)
(* one of the triple-buffer revision of the IMU emulator by itself.        *)
(***************************************************************************)
VARIABLES
  bus,
  t_buf, t_writer, t_pending, t_reader, t_copied, t_reg, t_bus,
  t_written, t_news, t_ids, t_seen

tripleVars == <<t_buf, t_writer, t_pending, t_reader, t_copied, t_reg, t_bus,
                t_written, t_news, t_ids, t_seen>>

Triple ==
  INSTANCE ImuTriple WITH
    imu_buf <- t_buf, writer_idx <- t_writer, pending_idx <- t_pending,
    reader_idx <- t_reader, copied <- t_copied, imu_current_reg <- t_reg, bus <- t_bus,
    written <- t_written, news <- t_news, ids <- t_ids, seen <- t_seen

MCInit == Init /\ Triple!Init /\ bus \in {"imu", "lidar", "triple"}

Serving ==
  /\ bus # "triple"
  /\ Next
  /\ bus = "imu" => ~LidarBus
  /\ bus = "lidar" => ~ImuBus
  /\ UNCHANGED tripleVars

MCNext == UNCHANGED bus /\ (Serving \/ (bus = "triple" /\ Triple!Next /\ UNCHANGED vars))

FairThread == bus # "triple" /\ SensorThread /\ UNCHANGED <<bus, tripleVars>>

MCSpec == MCInit /\ [][MCNext]_<<vars, tripleVars, bus>>
                 /\ WF_<<vars, tripleVars, bus>>(FairThread)

\* The properties of ImuTriple.
NeverTorn == Triple!NeverTorn
NewsIsServed == Triple!NewsIsServed
================================================================================
