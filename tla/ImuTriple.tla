------------------------------- MODULE ImuTriple -------------------------------
(***************************************************************************)
(* The triple-buffer revision of the emulated BNO055,                      *)
(* test_node/app/src/threads/c/imu_emulator2.c (not compiled), the cure    *)
(* for the read that ImuEmulator shows torn: the writer, the pending and   *)
(* the reader's image change places by atomic exchanges.                   *)
(*                                                                         *)
(* As in ImuEmulator, a byte of an image is the number of the packet it    *)
(* was copied from, 1..Cells is a group of mapped registers, a callback is *)
(* one step, and the memcpy is one step per byte.                          *)
(***************************************************************************)
EXTENDS Integers

CONSTANTS
  Cells,        \* bytes of a register group
  ImuRegs,      \* the registers the DUT sets the pointer to
  MaxPackets    \* bound: packets given to imu_emulator_update_data

VARIABLES
  imu_buf,          \* the three register images
  writer_idx,       \* the sensor thread's own
  pending_idx,      \* atomic: exchanged by both
  reader_idx,       \* the interrupt's own
  copied,           \* bytes of the packet in hand that memcpy has copied
  imu_current_reg,  \* the register pointer
  bus,              \* "idle", "addressed" or "reading"
  written,          \* history: packets published so far
  news,             \* history: one was since the latest read began
  ids,              \* history: packets the bytes of this read are from
  seen              \* history: the packet the latest read began with

indices == <<writer_idx, pending_idx, reader_idx>>
history == <<written, news, ids, seen>>
vars == <<imu_buf, indices, copied, imu_current_reg, bus, history>>

Images == 0..2
Group == 1..Cells

\* serve_imu_byte, as the set of packets the byte tells of: 0xFF of none.
ServeByte(idx, reg) == IF reg \in Group THEN {imu_buf[idx][reg]} ELSE {}

\* imu_emulator_init: all images are zeros, packet 0.
Init ==
  /\ imu_buf = [idx \in Images |-> [c \in Group |-> 0]]
  /\ writer_idx = 1 /\ pending_idx = 2 /\ reader_idx = 0
  /\ copied = {}
  /\ imu_current_reg = 0 /\ bus = "idle"
  /\ written = 0 /\ news = FALSE /\ ids = {} /\ seen = 0

--------------------------------------------------------------------------------
(***************************************************************************)
(* imu_emulator_update_data, called by the sensor emulation thread.        *)
(***************************************************************************)
UpdateCopy ==
  /\ written < MaxPackets
  /\ \E c \in Group \ copied :
       /\ imu_buf' = [imu_buf EXCEPT ![writer_idx] = [@ EXCEPT ![c] = written + 1]]
       /\ copied' = copied \union {c}
  /\ UNCHANGED <<indices, imu_current_reg, bus, history>>

\* Wrong variants, for mutation runs: the writer keeps its image, and
\* the reader gives back the writer's.
UpdatePublishKeeps ==
  /\ written < MaxPackets
  /\ copied = Group
  /\ pending_idx' = writer_idx
  /\ copied' = {}
  /\ written' = written + 1 /\ news' = TRUE
  /\ UNCHANGED <<imu_buf, writer_idx, reader_idx, imu_current_reg, bus, ids, seen>>

ReadRequestedNoExchange ==
  /\ bus \in {"idle", "addressed"}
  /\ bus' = "reading"
  /\ reader_idx' = reader_idx
  /\ seen' = imu_buf[reader_idx'][1]
  /\ ids' = ServeByte(reader_idx', imu_current_reg)
  /\ imu_current_reg' = imu_current_reg + 1
  /\ news' = FALSE
  /\ UNCHANGED <<imu_buf, writer_idx, pending_idx, copied, written>>

\* The exchange of writer_idx and pending_idx.
UpdatePublish ==
  /\ written < MaxPackets
  /\ copied = Group
  /\ pending_idx' = writer_idx /\ writer_idx' = pending_idx
  /\ copied' = {}
  /\ written' = written + 1 /\ news' = TRUE
  /\ UNCHANGED <<imu_buf, reader_idx, imu_current_reg, bus, ids, seen>>

--------------------------------------------------------------------------------
(***************************************************************************)
(* The I2C target callbacks.                                               *)
(***************************************************************************)
WriteRequested ==
  /\ bus = "idle"
  /\ bus' = "addressed"
  /\ UNCHANGED <<imu_buf, indices, copied, imu_current_reg, history>>

WriteReceived(val) ==
  /\ bus = "addressed"
  /\ imu_current_reg' = val
  /\ UNCHANGED <<imu_buf, indices, copied, bus, history>>

\* The exchange of reader_idx and pending_idx, and the first byte.
ReadRequested ==
  /\ bus \in {"idle", "addressed"}
  /\ bus' = "reading"
  /\ reader_idx' = pending_idx /\ pending_idx' = reader_idx
  /\ seen' = imu_buf[pending_idx][1]
  /\ ids' = ServeByte(pending_idx, imu_current_reg)
  /\ imu_current_reg' = imu_current_reg + 1
  /\ news' = FALSE
  /\ UNCHANGED <<imu_buf, writer_idx, copied, written>>

\* The DUT reads at most one register past the group.
ReadProcessed ==
  /\ bus = "reading"
  /\ imu_current_reg <= Cells + 1
  /\ ids' = ids \union ServeByte(reader_idx, imu_current_reg)
  /\ imu_current_reg' = imu_current_reg + 1
  /\ UNCHANGED <<imu_buf, indices, copied, bus, written, news, seen>>

Stop ==
  /\ bus # "idle"
  /\ bus' = "idle"
  /\ imu_current_reg' = 0
  /\ ids' = {}
  /\ UNCHANGED <<imu_buf, indices, copied, written, news, seen>>

Callback ==
  \/ WriteRequested
  \/ \E val \in ImuRegs : WriteReceived(val)
  \/ ReadRequested
  \/ ReadProcessed
  \/ Stop

Next == UpdateCopy \/ UpdatePublish \/ Callback

Spec == Init /\ [][Next]_vars

--------------------------------------------------------------------------------
(***************************************************************************)
(* Properties.                                                             *)
(***************************************************************************)

(***************************************************************************)
(* imu_emulator2.c:22-26: a read is never torn, however long it lasts and  *)
(* however often the writer publishes meanwhile.                           *)
(***************************************************************************)
NeverTorn == bus = "reading" => \A n \in ids : n = seen

(***************************************************************************)
(* A read that begins after something new was published shows the newest.  *)
(***************************************************************************)
NewsIsServed ==
  [][bus # "reading" /\ bus' = "reading" /\ news => seen' = written]_vars

(***************************************************************************)
(* imu_emulator2.c:219 says that a read takes the "freshest complete       *)
(* buffer": never an older packet than the read before.                    *)
(***************************************************************************)
NeverOlder == [][seen' >= seen]_vars

================================================================================
