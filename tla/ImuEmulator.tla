------------------------------ MODULE ImuEmulator -------------------------------
(***************************************************************************)
(* The emulated BNO055, test_node/app/src/threads/imu_emulator_test.c: two *)
(* copies of the register image, one active for the I2C interrupt and one  *)
(* for the sensor emulation thread to write.                               *)
(*                                                                         *)
(* A byte of the image is the number of the packet it was copied from, and *)
(* one group of consecutive mapped registers, 1..Cells, stands for the     *)
(* three of the code (gyro, Euler angles, linear acceleration); the        *)
(* registers around it are unmapped.  Each callback is one step, since     *)
(* nothing preempts it; the thread's memcpy is one step per byte, in any   *)
(* order.  The actions change the variables of this module only.           *)
(***************************************************************************)
EXTENDS Integers

CONSTANTS
  Cells,        \* bytes of a register group
  ImuRegs       \* the registers the DUT sets the pointer to

ASSUME ImuAssumption ==
  /\ Cells \in Nat \ {0}
  /\ ImuRegs \subseteq 0..Cells + 1

VARIABLES
  imu_buf,           \* the two register images
  active_idx,        \* atomic: the image the interrupt reads
  imu_inactive,      \* the writer's local: the image it writes
  imu_copied,        \* the writer's local: bytes memcpy has copied
  imu_current_reg,   \* the register pointer
  imu_snap_buf_idx,  \* the image of the read in progress
  imu_bus,           \* "idle", "addressed" or "reading"
  diag_last_euler_x, \* the packet the last value served is from
  imu_ids,           \* history: packets the bytes of this read are from
  imu_seen,          \* history: the packet the latest read began with
  imu_flips          \* history: flips since this read began, 2 for more

imuImage == <<imu_buf, active_idx>>
imuWriter == <<imu_inactive, imu_copied>>
imuBus == <<imu_current_reg, imu_snap_buf_idx, imu_bus,
            diag_last_euler_x, imu_ids, imu_seen>>
imuVars == <<imuImage, imuWriter, imuBus, imu_flips>>

Group == 1..Cells

\* serve_imu_byte, as the set of packets the byte tells of: 0xFF of none.
ServeImuByte(idx, reg) == IF reg \in Group THEN {imu_buf[idx][reg]} ELSE {}

\* The packet the active image shows.
ImuId == imu_buf[active_idx][1]

\* imu_emulator_init: both images are zeros, packet 0.
ImuInit ==
  /\ imu_buf = [idx \in {0, 1} |-> [c \in Group |-> 0]]
  /\ active_idx = 0
  /\ imu_inactive = 0
  /\ imu_copied = {}
  /\ imu_current_reg = 0
  /\ imu_snap_buf_idx = 0
  /\ imu_bus = "idle"
  /\ diag_last_euler_x = 0
  /\ imu_ids = {}
  /\ imu_seen = 0
  /\ imu_flips = 0

--------------------------------------------------------------------------------
(***************************************************************************)
(* Wrong variants, for mutation runs.                                      *)
(***************************************************************************)

\* The flip comes before the copy.
ImuPublishFirst ==
  /\ imu_inactive' = 1 - active_idx
  /\ imu_copied' = {}
  /\ active_idx' = 1 - active_idx
  /\ UNCHANGED <<imu_buf, imuBus, imu_flips>>

\* Every byte looks the active image up again.
ImuReadProcessedNoSnapshot ==
  /\ imu_bus = "reading"
  /\ imu_current_reg <= Cells + 1
  /\ imu_ids' = imu_ids \union ServeImuByte(active_idx, imu_current_reg)
  /\ imu_current_reg' = imu_current_reg + 1
  /\ UNCHANGED <<imuImage, imuWriter, imu_snap_buf_idx, imu_bus,
                 diag_last_euler_x, imu_seen, imu_flips>>

\* The register pointer outlives the transaction.
ImuStopKeepsPointer ==
  /\ imu_bus # "idle"
  /\ imu_bus' = "idle"
  /\ imu_snap_buf_idx' = 0
  /\ imu_ids' = {}
  /\ imu_flips' = 0
  /\ UNCHANGED <<imuImage, imuWriter, imu_current_reg,
                 diag_last_euler_x, imu_seen>>

--------------------------------------------------------------------------------
(***************************************************************************)
(* imu_emulator_update_data, called by the sensor emulation thread.        *)
(***************************************************************************)
ImuUpdateIndex ==
  /\ imu_inactive' = 1 - active_idx
  /\ imu_copied' = {}
  /\ UNCHANGED <<imuImage, imuBus, imu_flips>>

ImuUpdateCopy(p) ==
  \E c \in Group \ imu_copied :
    /\ imu_buf' = [imu_buf EXCEPT ![imu_inactive] = [@ EXCEPT ![c] = p]]
    /\ imu_copied' = imu_copied \union {c}
    /\ UNCHANGED <<active_idx, imu_inactive, imuBus, imu_flips>>

ImuUpdatePublish ==
  /\ imu_copied = Group
  /\ active_idx' = imu_inactive
  /\ imu_flips' = IF imu_bus = "reading" /\ imu_flips < 2 THEN imu_flips + 1 ELSE imu_flips
  /\ UNCHANGED <<imu_buf, imuWriter, imuBus>>

--------------------------------------------------------------------------------
(***************************************************************************)
(* The I2C target callbacks, in the order in which a bus master, the DUT,  *)
(* can make the driver call them.                                          *)
(***************************************************************************)
ImuWriteRequested ==
  /\ imu_bus = "idle"
  /\ imu_bus' = "addressed"
  /\ UNCHANGED <<imuImage, imuWriter, imu_current_reg, imu_snap_buf_idx,
                 diag_last_euler_x, imu_ids, imu_seen, imu_flips>>

ImuWriteReceived(val) ==
  /\ imu_bus = "addressed"
  /\ imu_current_reg' = val
  /\ UNCHANGED <<imuImage, imuWriter, imu_snap_buf_idx, imu_bus,
                 diag_last_euler_x, imu_ids, imu_seen, imu_flips>>

\* Snapshot the index of the active image and serve the first byte.  A
\* repeated start leads here from "addressed".
ImuReadRequested ==
  /\ imu_bus \in {"idle", "addressed"}
  /\ imu_bus' = "reading"
  /\ imu_snap_buf_idx' = active_idx
  /\ imu_ids' = ServeImuByte(active_idx, imu_current_reg)
  /\ imu_seen' = ImuId
  /\ diag_last_euler_x' = IF imu_current_reg = 1 THEN ImuId ELSE diag_last_euler_x
  /\ imu_current_reg' = imu_current_reg + 1
  /\ imu_flips' = 0
  /\ UNCHANGED <<imuImage, imuWriter>>

\* The next byte, from the same image.  The DUT reads at most one register
\* past the group.
ImuReadProcessed ==
  /\ imu_bus = "reading"
  /\ imu_current_reg <= Cells + 1
  /\ imu_ids' = imu_ids \union ServeImuByte(imu_snap_buf_idx, imu_current_reg)
  /\ imu_current_reg' = imu_current_reg + 1
  /\ UNCHANGED <<imuImage, imuWriter, imu_snap_buf_idx, imu_bus,
                 diag_last_euler_x, imu_seen, imu_flips>>

ImuStop ==
  /\ imu_bus # "idle"
  /\ imu_bus' = "idle"
  /\ imu_current_reg' = 0
  /\ imu_snap_buf_idx' = 0
  /\ imu_ids' = {}
  /\ imu_flips' = 0
  /\ UNCHANGED <<imuImage, imuWriter, diag_last_euler_x, imu_seen>>

ImuCallback ==
  \/ ImuWriteRequested
  \/ \E val \in ImuRegs : ImuWriteReceived(val)
  \/ ImuReadRequested
  \/ ImuReadProcessed
  \/ ImuStop

================================================================================
