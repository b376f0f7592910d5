----------------------------- MODULE LidarEmulator ------------------------------
(***************************************************************************)
(* The emulated LIDAR-Lite, test_node/app/src/threads/lidar_emulator_test.c:*)
(* an atomic distance, written by the sensor emulation thread, and a cache  *)
(* that freezes it when the DUT reads the high byte.  A distance is the     *)
(* number of the packet it came in.  The actions change the variables of    *)
(* this module only.                                                        *)
(***************************************************************************)
EXTENDS Integers

CONSTANT
  LidarRegs      \* the registers the DUT sets the pointer to

LIDAR_REG_ACQ_COMMAND == 0
LIDAR_REG_STATUS == 1
LIDAR_REG_FULL_DELAY_HIGH == 15
LIDAR_REG_FULL_DELAY_LOW == 16

\* Bound: the DUT reads at most one register past the pair.
LastLidarReg == LIDAR_REG_FULL_DELAY_LOW + 1

ASSUME LidarAssumption == LidarRegs \subseteq 0..LastLidarReg

VARIABLES
  simulated_distance_mm,       \* atomic
  transaction_distance_cache,
  active_register,             \* the register pointer
  next_byte_is_reg_address,
  lidar_bus,                   \* "idle", "addressed" or "reading"
  diag_last_lidar_mm,
  lidar_high,                  \* history: the packet the high byte of this
  lidar_low                    \* read is from, and the low byte, as sets

lidarBus == <<transaction_distance_cache, active_register, next_byte_is_reg_address,
              lidar_bus, diag_last_lidar_mm, lidar_high, lidar_low>>
lidarVars == <<simulated_distance_mm, lidarBus>>

LidarInit ==
  /\ simulated_distance_mm = 0
  /\ transaction_distance_cache = 0
  /\ active_register = LIDAR_REG_ACQ_COMMAND
  /\ next_byte_is_reg_address = TRUE
  /\ lidar_bus = "idle"
  /\ diag_last_lidar_mm = 0
  /\ lidar_high = {}
  /\ lidar_low = {}

\* Wrong variant, for a mutation run: the low byte comes from the live value.
LidarLowFromLive(reg, before) ==
  /\ transaction_distance_cache' = IF reg = LIDAR_REG_FULL_DELAY_HIGH
                                     THEN simulated_distance_mm
                                     ELSE transaction_distance_cache
  /\ lidar_high' = IF reg = LIDAR_REG_FULL_DELAY_HIGH
                     THEN {simulated_distance_mm} ELSE before
  /\ lidar_low' = IF reg = LIDAR_REG_FULL_DELAY_LOW
                    THEN {simulated_distance_mm} ELSE {}

(***************************************************************************)
(* serve_register_byte: the high byte refreshes the cache, the low byte is *)
(* from the cache, STATUS and the others tell nothing of the distance.     *)
(* "before" is what this read has served as the high byte so far.          *)
(***************************************************************************)
ServeRegisterByte(reg, before) ==
  /\ transaction_distance_cache' = IF reg = LIDAR_REG_FULL_DELAY_HIGH
                                     THEN simulated_distance_mm
                                     ELSE transaction_distance_cache
  /\ lidar_high' = IF reg = LIDAR_REG_FULL_DELAY_HIGH
                     THEN {simulated_distance_mm} ELSE before
  /\ lidar_low' = IF reg = LIDAR_REG_FULL_DELAY_LOW
                    THEN {transaction_distance_cache} ELSE {}

--------------------------------------------------------------------------------
\* lidar_emulator_update_distance, called by the sensor emulation thread.
LidarUpdateDistance(p) ==
  /\ simulated_distance_mm' = p
  /\ UNCHANGED lidarBus

(***************************************************************************)
(* The I2C target callbacks.                                               *)
(***************************************************************************)
LidarWriteRequested ==
  /\ lidar_bus = "idle"
  /\ lidar_bus' = "addressed"
  /\ next_byte_is_reg_address' = TRUE
  /\ UNCHANGED <<simulated_distance_mm, transaction_distance_cache, active_register,
                 diag_last_lidar_mm, lidar_high, lidar_low>>

\* The first byte is the register, the others are written and absorbed.
LidarWriteReceived(val) ==
  /\ lidar_bus = "addressed"
  /\ IF next_byte_is_reg_address
       THEN active_register' = val
       ELSE /\ active_register < LastLidarReg
            /\ active_register' = active_register + 1
  /\ next_byte_is_reg_address' = FALSE
  /\ UNCHANGED <<simulated_distance_mm, transaction_distance_cache, lidar_bus,
                 diag_last_lidar_mm, lidar_high, lidar_low>>

LidarReadRequested ==
  /\ lidar_bus \in {"idle", "addressed"}
  /\ lidar_bus' = "reading"
  /\ ServeRegisterByte(active_register, {})
  /\ diag_last_lidar_mm' = IF active_register = LIDAR_REG_FULL_DELAY_HIGH
                             THEN simulated_distance_mm ELSE diag_last_lidar_mm
  /\ UNCHANGED <<simulated_distance_mm, active_register, next_byte_is_reg_address>>

LidarReadProcessed ==
  /\ lidar_bus = "reading"
  /\ active_register < LastLidarReg
  /\ active_register' = active_register + 1
  /\ ServeRegisterByte(active_register + 1, lidar_high)
  /\ UNCHANGED <<simulated_distance_mm, next_byte_is_reg_address, lidar_bus,
                 diag_last_lidar_mm>>

LidarStop ==
  /\ lidar_bus # "idle"
  /\ lidar_bus' = "idle"
  /\ next_byte_is_reg_address' = TRUE
  /\ lidar_high' = {}
  /\ lidar_low' = {}
  /\ UNCHANGED <<simulated_distance_mm, transaction_distance_cache, active_register,
                 diag_last_lidar_mm>>

LidarCallback ==
  \/ LidarWriteRequested
  \/ \E val \in LidarRegs : LidarWriteReceived(val)
  \/ LidarReadRequested
  \/ LidarReadProcessed
  \/ LidarStop

================================================================================
