------------------------------- MODULE LidarPath --------------------------------
(***************************************************************************)
(* From the emulated LiDAR to the console of the device under test: the    *)
(* timer, the reader and the consumer of flight_controller/app/src/lidar.c *)
(* and main.c, the driver lidar_lite_v4.c, and at the other end of the I2C *)
(* bus the callbacks of LidarEmulator.                                     *)
(*                                                                         *)
(* Time passes in ticks, while the two threads are blocked or a bus        *)
(* transaction is under way.  A byte of a distance is the packet it is     *)
(* from and which half of it, a queued distance has its age as well.       *)
(***************************************************************************)
EXTENDS LidarEmulator, Sequences

CONSTANTS
  QueueLen,       \* MAX_LIDAR_MSGQ_LEN
  PeriodTicks,    \* the period of lidar_timer
  ConsumerTicks,  \* the sleep of lidar_consumer
  MaxPackets      \* bound: packets the HIL node shows

ASSUME PathAssumption ==
  /\ QueueLen \in Nat \ {0}
  /\ PeriodTicks \in Nat \ {0}
  /\ ConsumerTicks \in Nat \ {0}
  /\ MaxPackets \in Nat

VARIABLES
  lidar_sem,    \* binary
  lidar_timer,  \* ticks until it expires
  rd_pc,        \* where lidar_read_thread is
  rd_op,        \* the register operation sample_fetch is at
  bytes,        \* its locals low_byte and high_byte
  lidar_msgq,   \* the oldest distance first
  cs_pc,        \* lidar_consumer: "get" or "sleep"
  cs_timer      \* the rest of its sleep

reader == <<rd_pc, rd_op, bytes>>
consumer == <<cs_pc, cs_timer>>
clock == <<lidar_sem, lidar_timer>>
vars == <<lidarVars, clock, reader, lidar_msgq, consumer>>

LIDAR_LITE_V4_CMD_MEASURE == 4

\* Wrong variant, for a mutation run: the registers of the LIDAR-Lite v3.
RegisterV3 == [command |-> 0, status |-> 1, low |-> 16, high |-> 15]

\* The registers of the LIDAR-Lite v4, lidar_lite_v4.c:13-16.
Register == [command |-> 0, status |-> 1, low |-> 16, high |-> 17]

Operations == DOMAIN Register
OnBus == {"start", "pointer", "data", "stop", "end"}
NextOp == [command |-> "status", status |-> "low", low |-> "high", high |-> "command"]

\* What serve_register_byte tells of the distance; 0x00 and 0xFF are nothing.
NoDistance == [half |-> "none", packet |-> 0]
ServedByte(reg) ==
  CASE reg = LIDAR_REG_FULL_DELAY_HIGH -> [half |-> "high", packet |-> simulated_distance_mm]
    [] reg = LIDAR_REG_FULL_DELAY_LOW -> [half |-> "low", packet |-> transaction_distance_cache]
    [] OTHER -> NoDistance

\* main() starts the timer when the threads run.
Init ==
  /\ LidarInit
  /\ lidar_sem = 0 /\ lidar_timer = PeriodTicks
  /\ rd_pc = "take" /\ rd_op = "command"
  /\ bytes = [low |-> NoDistance, high |-> NoDistance]
  /\ lidar_msgq = <<>>
  /\ cs_pc = "get" /\ cs_timer = 0

--------------------------------------------------------------------------------
(***************************************************************************)
(* The kernel: lidar_timer_handler, the clock.                             *)
(***************************************************************************)

\* Wrong variant, for a mutation run: the timer is started without a period.
TimerExpiresOnce ==
  /\ lidar_timer = 0 /\ lidar_sem = 0
  /\ lidar_sem' = 1
  /\ UNCHANGED <<lidar_timer, lidarVars, reader, lidar_msgq, consumer>>

\* k_sem_give: while a fetch is under way it is remembered once.
TimerExpires ==
  /\ lidar_timer = 0
  /\ lidar_sem' = 1
  /\ lidar_timer' = PeriodTicks
  /\ UNCHANGED <<lidarVars, reader, lidar_msgq, consumer>>

Older(samples) == [i \in DOMAIN samples |-> [samples[i] EXCEPT !.age = @ + 1]]

Tick ==
  /\ lidar_timer > 0
  /\ rd_pc \in OnBus \/ (rd_pc = "take" /\ lidar_sem = 0)
  /\ IF cs_pc = "sleep" THEN cs_timer > 0 ELSE lidar_msgq = <<>>
  /\ lidar_timer' = lidar_timer - 1
  /\ cs_timer' = IF cs_pc = "sleep" THEN cs_timer - 1 ELSE cs_timer
  /\ lidar_msgq' = Older(lidar_msgq)
  /\ UNCHANGED <<lidar_sem, lidarVars, reader, cs_pc>>

(***************************************************************************)
(* lidar_read_thread and, within it, lidar_lite_v4_sample_fetch: a command *)
(* and three register reads, each a bus transaction of several callbacks.  *)
(***************************************************************************)
TakeSem ==
  /\ rd_pc = "take" /\ lidar_sem = 1
  /\ lidar_sem' = 0
  /\ rd_pc' = "start" /\ rd_op' = "command"
  /\ UNCHANGED <<bytes, lidarVars, lidar_timer, lidar_msgq, consumer>>

StartWrite ==
  /\ rd_pc = "start"
  /\ LidarWriteRequested
  /\ rd_pc' = "pointer"
  /\ UNCHANGED <<rd_op, bytes, clock, lidar_msgq, consumer>>

WritePointer ==
  /\ rd_pc = "pointer"
  /\ LidarWriteReceived(Register[rd_op])
  /\ rd_pc' = "data"
  /\ UNCHANGED <<rd_op, bytes, clock, lidar_msgq, consumer>>

WriteCommand ==
  /\ rd_pc = "data" /\ rd_op = "command"
  /\ LidarWriteReceived(LIDAR_LITE_V4_CMD_MEASURE)
  /\ rd_pc' = "stop"
  /\ UNCHANGED <<rd_op, bytes, clock, lidar_msgq, consumer>>

\* The emulator's STATUS is always ready, so it is read once.
ReadByte ==
  /\ rd_pc = "data" /\ rd_op # "command"
  /\ LidarReadRequested
  /\ bytes' = IF rd_op \in DOMAIN bytes
                THEN [bytes EXCEPT ![rd_op] = ServedByte(active_register)]
                ELSE bytes
  /\ rd_pc' = "stop"
  /\ UNCHANGED <<rd_op, clock, lidar_msgq, consumer>>

\* The I2C controller of the HIL node may fetch one byte ahead.
ReadAhead ==
  /\ rd_pc = "stop"
  /\ LidarReadProcessed
  /\ rd_pc' = "end"
  /\ UNCHANGED <<rd_op, bytes, clock, lidar_msgq, consumer>>

StopTransaction ==
  /\ rd_pc \in {"stop", "end"}
  /\ LidarStop
  /\ rd_pc' = IF rd_op = "high" THEN "put" ELSE "start"
  /\ rd_op' = NextOp[rd_op]
  /\ UNCHANGED <<bytes, clock, lidar_msgq, consumer>>

\* An error in any transaction ends the fetch; nothing is printed.
FetchFails ==
  /\ rd_pc \in OnBus
  /\ IF lidar_bus = "idle" THEN UNCHANGED lidarVars ELSE LidarStop
  /\ rd_pc' = "take" /\ rd_op' = "command"
  /\ UNCHANGED <<bytes, clock, lidar_msgq, consumer>>

\* Wrong variant, for a mutation run: without a limit.
PutAlways ==
  /\ rd_pc = "put"
  /\ lidar_msgq' = Append(lidar_msgq, [low |-> bytes.low, high |-> bytes.high, age |-> 0])
  /\ rd_pc' = "take"
  /\ UNCHANGED <<rd_op, bytes, lidarVars, clock, consumer>>

\* k_msgq_put with K_NO_WAIT: a full queue drops the newest distance.
PutDistance ==
  /\ rd_pc = "put"
  /\ lidar_msgq' =
       IF Len(lidar_msgq) < QueueLen
         THEN Append(lidar_msgq, [low |-> bytes.low, high |-> bytes.high, age |-> 0])
         ELSE lidar_msgq
  /\ rd_pc' = "take"
  /\ UNCHANGED <<rd_op, bytes, lidarVars, clock, consumer>>

ReaderStep ==
  \/ TakeSem
  \/ StartWrite
  \/ WritePointer
  \/ WriteCommand
  \/ ReadByte
  \/ ReadAhead
  \/ StopTransaction
  \/ FetchFails
  \/ PutDistance

(***************************************************************************)
(* lidar_consumer.                                                         *)
(***************************************************************************)

\* Wrong variant, for a mutation run: the newest first.
GetsNewest ==
  /\ cs_pc = "get" /\ lidar_msgq # <<>>
  /\ lidar_msgq' = SubSeq(lidar_msgq, 1, Len(lidar_msgq) - 1)
  /\ cs_pc' = "sleep" /\ cs_timer' = ConsumerTicks
  /\ UNCHANGED <<lidarVars, clock, reader>>

ConsumerGets ==
  /\ cs_pc = "get" /\ lidar_msgq # <<>>
  /\ lidar_msgq' = Tail(lidar_msgq)
  /\ cs_pc' = "sleep" /\ cs_timer' = ConsumerTicks
  /\ UNCHANGED <<lidarVars, clock, reader>>

ConsumerWakes ==
  /\ cs_pc = "sleep" /\ cs_timer = 0
  /\ cs_pc' = "get"
  /\ UNCHANGED <<cs_timer, lidarVars, clock, reader, lidar_msgq>>

\* The sensor emulation thread of the HIL node, at any time.
NewDistance ==
  /\ simulated_distance_mm < MaxPackets
  /\ LidarUpdateDistance(simulated_distance_mm + 1)
  /\ UNCHANGED <<clock, reader, lidar_msgq, consumer>>

ConsumerStep == ConsumerGets \/ ConsumerWakes

Next == TimerExpires \/ Tick \/ ReaderStep \/ ConsumerStep \/ NewDistance

Spec == Init /\ [][Next]_vars

FairSpec ==
  Spec /\ WF_vars(TimerExpires) /\ WF_vars(Tick) /\ WF_vars(ReaderStep) /\ WF_vars(ConsumerStep)

--------------------------------------------------------------------------------
(***************************************************************************)
(* Properties.                                                             *)
(***************************************************************************)
Byte == [half : {"high", "low", "none"}, packet : Nat]
Distance == [low : Byte, high : Byte, age : Nat]

EmulatorType ==
  /\ simulated_distance_mm \in Nat
  /\ transaction_distance_cache \in Nat
  /\ active_register \in 0..LastLidarReg
  /\ next_byte_is_reg_address \in BOOLEAN
  /\ lidar_bus \in {"idle", "addressed", "reading"}
  /\ diag_last_lidar_mm \in Nat
  /\ lidar_high \in SUBSET Nat
  /\ lidar_low \in SUBSET Nat

\* Every variable keeps its type.
TypeOK ==
  /\ EmulatorType
  /\ lidar_sem \in {0, 1}
  /\ lidar_timer \in 0..PeriodTicks
  /\ rd_pc \in OnBus \union {"take", "put"}
  /\ rd_op \in Operations
  /\ bytes \in [{"low", "high"} -> Byte]
  /\ lidar_msgq \in Seq(Distance) /\ Len(lidar_msgq) <= QueueLen
  /\ cs_pc \in {"get", "sleep"}
  /\ cs_timer \in 0..ConsumerTicks

(***************************************************************************)
(* The i-th distance in the queue is never older than the places before    *)
(* its own take to be served: what lidar_consumer prints is at most a full *)
(* queue of sleeps old (0.8 s), however slow the fetches are.              *)
(***************************************************************************)
AgeBounded ==
  \A i \in DOMAIN lidar_msgq : lidar_msgq[i].age <= (QueueLen - i + 1) * ConsumerTicks

(***************************************************************************)
(* What the driver and the emulator make of a distance: the driver's high  *)
(* byte is a register the emulator does not have, its low byte comes from  *)
(* a cache that only the emulator's own high byte refreshes.  So every     *)
(* distance is made of packet 0 and 0xFF, whatever the simulator sends.    *)
(***************************************************************************)
NothingMeasured ==
  \A i \in DOMAIN lidar_msgq :
    /\ lidar_msgq[i].low = [half |-> "low", packet |-> 0]
    /\ lidar_msgq[i].high = NoDistance

(***************************************************************************)
(* lidar_emulator_test.h:26-33: the measurement sequence, "as performed by *)
(* the DUT", reads both halves of one simulated distance.                  *)
(***************************************************************************)
MeasurementGenuine ==
  \A i \in DOMAIN lidar_msgq :
    \E p \in 0..MaxPackets :
      /\ lidar_msgq[i].low = [half |-> "low", packet |-> p]
      /\ lidar_msgq[i].high = [half |-> "high", packet |-> p]

(***************************************************************************)
(* Unless fetches keep failing, distances keep coming: no order of timer,  *)
(* semaphore and queue leaves a thread waiting for what is not given.      *)
(***************************************************************************)
DistancesFlow == <>[][~FetchFails]_vars => []<><<ConsumerGets>>_vars

================================================================================
