# slayterHIL in TLA+

TLA+ modules, TLC runs and TLAPS proofs for the hardware-in-the-loop (HIL) bench
of this repository.  Paths are relative to the repository (`src/` there is the
repository root here).

The bench flies a drone's flight controller without a drone.  A Raspberry Pi runs
the physics (`flight_sim`) and sends one frame after another over SPI to the *HIL
node* (`test_node`), an ESP32 under Zephyr.  The node holds each frame until its
timestamp is due and then shows it to the *device under test* (DUT,
`flight_controller`, a second ESP32) through two emulated I2C sensors: a BNO055
inertial unit and a LIDAR-Lite.  A web page (`app/dashboard`) edits and starts
tests.  The promise of the bench is that the DUT sees what the physics computed:
in order, in time, from one instant and untorn.  That promise is what the modules
are about.

## 1. Inventory

### Parts, state and operations

| part | source | state | operations | hard because |
|---|---|---|---|---|
| Scheduler thread, injection timer | `test_node/app/src/threads/scheduler_test.c` | ring `scheduler_q`, one-slot gate `sensor_update_q`, atomic `timer_armed`, kernel timer, counters | receive loop, `scheduler_q_put_overwrite`, `try_arm_timer`, `injection_timer_isr` | the ISR preempts the thread between any two kernel calls; a ring at its limit; signed delays on a 32-bit clock |
| Sensor emulation thread | `.../sensor_emulation_test.c` | its local packet | peek the gate, update both emulators, sleep 500 us | preempted by the scheduler (priority 5 against 7), the timer and two I2C interrupts |
| IMU emulator | `.../imu_emulator_test.c` | two register images, `active_idx`, register pointer, snapshot index | `imu_emulator_update_data`, five I2C target callbacks | a read that lasts over several updates |
| LiDAR emulator | `.../lidar_emulator_test.c` | atomic distance, transaction cache, register pointer | `lidar_emulator_update_distance`, five callbacks | a 16-bit value served as two bytes |
| Diagnostics, start-up | `test_node/app/src/main.c`, `hil_diag.c` | counters and four last values | snapshot, rates, health | counters read one by one |
| Remote control, PWM | `.../rc.c`, `.../pwm.c` | - | a UART command, set-up; nothing calls them | - |
| Full-duplex scheduler revision | `.../threads/c/scheduler_fs2.c` | two SPI buffers, a counted semaphore, ring, counter alarm, sync gate | receive loop, alarm and SPI callbacks; not compiled | two transfers for each decoded frame, a failure to re-arm, a peek before the compare-and-swap |
| Triple-buffer IMU revision | `.../threads/c/imu_emulator2.c` | permutation of three images, register pointer | update, five callbacks; not compiled | lock-free exchange between thread and interrupt |
| Older revisions, stubs | `.../threads/c/*` | - | not compiled | - |
| Bit-banged SPI slave | `test_node/modules/spis_bitbang` | three pins, a bit index, a chip-select filter | Zephyr SPI driver API; a sample application only | busy waiting against the master's clock |
| DUT application | `flight_controller/app/src/*.c` | three message queues, a semaphore, a timer | producers and consumers of IMU, LiDAR and UART data, motor mixing | rates that differ, queues that drop the newest |
| DUT BNO055 driver | `flight_controller/drivers/sensor/bno055` | operation mode, page, power | attribute, trigger and sample calls | two threads and a work item on one chip, no lock |
| DUT LIDAR-Lite driver | `.../lidar_lite_v4` | last distance | a command, a status poll, two one-byte reads | the two bytes are two transactions |
| DUT example sensor | `.../example_sensor` | - | one GPIO read | - |
| Flight simulator | `flight_sim/src` | drone state | physics loop into a CSV file, serialisation, RC parser | floating point |
| SPI master transport | `flight_sim/src/spi_linux.cpp`, `SPI_Slave_Driver` | a file descriptor | one transfer | - |
| Dashboard | `app/dashboard` | connected clients, current test | a placeholder test, broadcast, edit command lists | clients that leave during a broadcast |
| Scripts, protocol buffers, graphics, samples | `tests`, `shared/proto`, `flight_sim/graphics`, `test_node/sample_apps` | - | - | - |

`PROJECT.json` lists the same parts with their status.

### Interactions

    Pi --SPI frame--> scheduler thread --scheduler_q--> injection_timer_isr
       --sensor_update_q--> sensor emulation thread --active_idx-----> IMU I2C ISR   --> DUT
                                                    --atomic distance-> LiDAR I2C ISR --> DUT
    DUT: BNO055 driver --bno_msgq--> control loop --> motors
         LIDAR-Lite driver --lidar_msgq--> console

The scheduler thread and the ISR share the ring, the armed flag and the kernel
timer; the ISR and the sensor thread share the gate; the sensor thread and the two
I2C interrupts share the emulators' state.  There is no mutex anywhere on this
path: its correctness rests on the order of single kernel calls and atomic
accesses, and that is what the modules model step by step.

### What makes each part correct

* Scheduler: no staged packet without a timer, no packet served twice or out of
  order, every decoded packet accounted for, the gate never empty once filled, a
  timer that does not run past the timestamp, and no packet before its time.
* Sensor thread: both sensors tell of one instant, never step back, and catch up.
* Emulators: bytes of one transaction are from one packet.
* DUT drivers: a configuration call that succeeded left the chip in the mode it
  found it in, and a read that succeeded read the sensor.
* DUT application: what is acted on or printed is of a bounded age, samples keep
  coming, and the failsafe comes when they do not and goes when they do.
* The two uncompiled revisions: the promises of their own comments, a receive loop
  that never hangs and an IMU read that is never torn nor older than the last.

The hazards behind these are listed in `PROJECT.json`, each at the line where it bites.

## 2. Modules

| module | models | builds on |
|---|---|---|
| `CausalityGate` | the promise between the Pi and the emulators: a lossy first-in first-out channel | - |
| `HilClock` | `now_us()` and the `int32_t` difference to a timestamp, for both revisions of the scheduler | - |
| `HilScheduler` | `scheduler_test.c`, thread, ISR, kernel timer and clock | `HilClock`; refines `CausalityGate` |
| `ImuEmulator` | `imu_emulator_test.c`: variables and actions of the double buffer | - |
| `LidarEmulator` | `lidar_emulator_test.c`: variables and actions of the cache | - |
| `SensorServing` | `sensor_emulation_test.c`, composed with both emulators, the DUT's bus traffic and the gate | `ImuEmulator`, `LidarEmulator`, `CausalityGate` |
| `SensorServingProofs` | theorems about `SensorServing` | `SensorServing`, TLAPS |
| `HilNode` | the whole node: the scheduler, and `SensorServing` behind its gate | `HilScheduler`, `SensorServing` |
| `HilSchedulerProofs` | theorems about `HilScheduler` and about the node | `HilNode`, `SensorServingProofs`, TLAPS |
| `Bno055Driver` | `bno055.c` and `bno.c`: configuration, sampling thread and interrupt work item on one chip | - |
| `Bno055DriverProofs` | theorems about `Bno055Driver` | `Bno055Driver`, TLAPS |
| `AttitudePath` | `bno.c` and the control loop of `main.c`, in time: reader, queue, motors and failsafe | - |
| `AttitudePathProofs` | theorems about `AttitudePath` | `AttitudePath`, TLAPS |
| `LidarPath` | `lidar.c`, the LiDAR consumer of `main.c` and `lidar_lite_v4.c`, against the emulator's callbacks | `LidarEmulator` |
| `LidarPathProofs` | theorems about `LidarPath` | `LidarPath`, TLAPS |
| `FullDuplex` | `c/scheduler_fs2.c`: receive loop, SPI callback, counter alarm | `HilClock` |
| `FullDuplexProofs` | theorems about `FullDuplex` | `FullDuplex`, TLAPS |
| `ImuTriple` | `c/imu_emulator2.c`: update and callbacks of the triple buffer | - |
| `ImuTripleProofs` | theorems about `ImuTriple` | `ImuTriple`, TLAPS |
| `MCHilScheduler`, `MCHilNode`, `MCSensorServing`, `MCBno055Driver`, `MCFullDuplex` | values of the constants for TLC; `MCSensorServing` also composes `ImuTriple` | |
| `MCSensorServingProofs` | theorems about the composition in `MCSensorServing` | `MCSensorServing`, `SensorServingProofs`, `ImuTripleProofs`, TLAPS |

### HilScheduler

Variables carry the names of the C objects.  `pc` is the place of the thread
between two kernel calls (`spi_read`, `retry_sleep`, `q_put`, `q_evict`,
`q_reput`, `arm_cas`, `arm_peek`), `pkt` its local packet; `timer_running`,
`timer_left` and `armed_for` are the kernel's side of `injection_timer`.
`early`, `dropped` and `too_far` are history: packets injected before their timestamp,
packets `put_overwrite` gives up on when the ISR drained the ring meanwhile, and timers
started for a timestamp too far ahead of the clock for a signed difference (`TooFar`).

| action | code |
|---|---|
| `SpiReadError`, `RetryWakeUp` | `spi_read` fails, 1 ms sleep (scheduler_test.c:310-322) |
| `SyncFrame` | a clock-sync frame is ignored in stream mode (269-277) |
| `BadFrame`, `GoodFrame` | length check, `pb_decode`, field mapping (337-426) |
| `QPut`, `QEvict`, `QReput` | the three queue calls of `scheduler_q_put_overwrite` (232-246) |
| `ArmCas`, `ArmPeek` | `try_arm_timer` (207-222) |
| `IsrNothingToInject`, `IsrInject` | `injection_timer_isr` (139-195) |
| `Tick` | the hardware clock and the kernel's countdown |

Decisions:

* The ISR is one step: the MCU has one core and no thread runs inside it.
* `ArmPeek` merges peek, delay and `k_timer_start`: the timer is stopped there, so
  the ISR cannot come between them (`TimerFlag` states that it is stopped), and a
  tick is far longer than the three calls.
* A packet is its arrival number and its timestamp.  The physics values are
  copied and never compared, so the number stands for them; the three "last
  value" diagnostics hold the number of the packet they were taken from.
* `NowUs` is the clock modulo `ClockWrap`: `now_us()` converts a 32-bit cycle counter.
  `Delay` is the code's `(int32_t)(timestamp_us - now_us())`, clamped to 1: `Int32` takes a
  difference into a word of `2 * HalfWord` values (`HalfWord` is 2^31 in the code), so a
  timestamp `HalfWord` or more ahead gives a negative difference and a delay of 1.
* `device_is_ready` holds; frames that fail to decode are one action with two causes.

### ImuEmulator, LidarEmulator, SensorServing

A byte of an IMU image, and a distance, is the number of the packet it came from.
`Cells` consecutive registers, surrounded by unmapped ones, stand for the three
register groups of the code (gyro, Euler angles, linear acceleration), which are
written and served alike.  `memcpy` is one step per byte, in any order
(`ImuUpdateCopy`); the index load and the flip are steps of their own
(`ImuUpdateIndex`, `ImuUpdatePublish`).  Each I2C callback is one step, and the
DUT drives the bus as any master may: it writes pointers, reads, restarts, stops
in the middle, or goes silent.  `SensorServing` adds the thread (`SenPeek`,
`SenLidar`, `SenImuIndex`, `SenImuCopy`, `SenImuPublish`, `SenWakeUp`) and puts
`CausalityGate` in front; `HilNode` puts the scheduler there.  `imu_ids`, `imu_seen`,
`imu_flips`, `lidar_high`, `lidar_low`, `slept_in` and `spanned` are history.

### HilNode

The two halves joined at `sensor_update_q`: the gate of `SensorServing` becomes the
scheduler's counters, ring and queue (`Serving`).  A step is one of the scheduler, its
timer or the clock (`SchedulerStep`), of the sensor emulation thread (`SensorStep`), or of
the DUT on a bus (`BusStep`).  The scheduler has the higher priority
(scheduler_test.h:58-64), so the sensor thread runs only while it waits
(`SchedulerWaits`); the interrupts come at any time.  `diag_last_lidar_mm` and
`diag_last_euler_x`, which the scheduler and an emulator both write and only the
diagnostic thread reads, are kept once for each writer.  The two halves together have
too many states for a run that passes in minutes: what holds of them is proved (section 4),
and the run `arrow_of_time`, which ends at a violation, is of this module.

### Bno055Driver

On the DUT, `main()` configures the BNO055 with sixteen register operations
(`BnoInitCalls`), `bno_read_thread` polls it from boot on, and the work item of the
interrupt line acknowledges interrupts.  None of them takes a lock; a bus
transaction is the unit the bus driver serialises and the unit of a step here.

`main_pc` is the transaction main is at, `call` the operation of `bno_init`, and
`phase` tells the three parts of an operation apart: the change to CONFIG mode
(`enter`), its own registers on page 1 (`body`), the way back to the mode it saved
(`leave`).  `PageRead`..`PageVerify` are `bno055_set_page`, `ModeRead`..`ModeVerify`
`bno055_set_config`, `Attr*` `bno055_set_attribut`, `Axis*` and `Int*`
`bno055_trigger_configuation`; `rd_pc` and `Reader*` are `bno055_sample_fetch` under
`bno_read_thread`; `work` and `Work*` `bno055_work_cb`.  `MainBusError`,
`ReaderBusError` and the second disjuncts of the work steps are transactions that
fail, and a write that fails may have reached the chip.

The chip (`chip_page`, `chip_mode`, `triggers`, `int_line`) is modelled by how the
driver uses it: page 0 has read-only data registers where page 1 has settings, an
interrupt needs a fusion mode and an enabled trigger, RST_SYS resets it.  Its pin
stays high until RST_INT and the GPIO is edge triggered.  Only CONFIG and NDOF
occur, since `bno.c` asks for nothing else; POWER_NORMAL is the reset value, so
`bno055_set_power` never writes.  One timing fact is assumed: the 20 ms sleep of
`bno055_set_config` outlasts a work item that was submitted before it (`Settled`;
three transactions at a higher priority).

### AttitudePath

What `Bno055Driver` leaves out: time.  `rd_*` is `bno_read_thread` (a sleep of
`PollTicks`, then a fetch), `cs_*` the control loop `bno_consumer` (`bno_get` with a
timeout, then a sleep of `ControlTicks`), `bno_msgq` the ages of the queued samples.
A fetch may fail (`ReaderFails`), or take any time: beyond `FetchTicks` it counts as a
loss.  `Tick` is enabled only while both threads are blocked, since both do
milliseconds of sleeping and microseconds of computing and nothing of a higher
priority runs for long.  The module starts where `main()` starts the loop.  By then the
reader has run alone, from the moment `bno_init` published the device, and a full queue
has kept the oldest samples: the queue may hold any number of samples of any ages
(`BootAges`).  `lost`, `silence` and `uptime` are history.

### LidarPath

`lidar_timer` gives the binary semaphore (`TimerExpires`), `lidar_read_thread` takes it
(`TakeSem`) and fetches.  A fetch is four register operations (`rd_op`: command,
status, low, high), each a transaction of several callbacks of `LidarEmulator`
(`StartWrite`, `WritePointer`, `WriteCommand`, `ReadByte`, `ReadAhead`,
`StopTransaction`), so that the very actions that `SensorServing` composes answer the
DUT here; `NewDistance` is the HIL node's update, at any time.  `FetchFails` is an
error at any point.  `PutDistance`, `ConsumerGets` and `ConsumerWakes` are the queue and
the consumer.  A byte is the packet it comes from and the half it is of, so a
distance made of two halves, of two packets, or of nothing can be told apart.  `Tick`
passes while the threads are blocked or on the bus; a transaction may last for ever,
the periods are the code's.

### FullDuplex

`pc` follows the steps that the comments of `scheduler_thread` number: `Arm` (1),
`Take1` (2, 3), `Rearm` (4), `Parse` (5 to 7b), `QPut`, `QEvict`, `QReput`, `ArmPeek`,
`ArmCas` (7c), `Take2` (8, 9).  `SpiDone` is `spi_rx_callback`, `InjectionAlarm`
`injection_alarm_cb`, `Tick` the clock, the alarm's countdown and the Pi's clocking of
an armed transfer.  A frame is the number of the transfer it came in, 0 what does not
decode; `confirming` is the one frame in which the Pi confirms the clock.  Each call
that can fail does, within `MaxFaults`: `arm_spi_transfer` in steps 1 and 4, the
transfer itself, and `counter_set_channel_alarm` in the thread and in the interrupt.
`DelayUs` is the difference of `HilClock`, as in the compiled revision.
`rearm_failed`, `alarm_failures`, `evicted`, `stale_arms`, `early` and `transfers` are history.
Interrupts that are due come before any step of the thread.

### ImuTriple

The same abstraction as `ImuEmulator`: `UpdateCopy` is one byte of the `memcpy`,
`UpdatePublish` and `ReadRequested` are the two atomic exchanges with `pending_idx`, and
the DUT drives the bus as any master may.  `written`, `news`, `ids` and `seen` are history.

## 3. Runs

| run | properties | bounds | shows |
|---|---|---|---|
| `hil_scheduler` | `TypeOK`, `TimerFlag`, `NoLostWakeup`, `RingOrder`, `GateAlwaysFull`, `Conservation`, `EarlyBounded`, `OnTime`, `ImplementsCausalityGate`, `GateCatchesUp` | ring 2, 4 packets, timestamps 0, 2, 3, clock to 3 in a word of 6, one SPI error, one bad frame | the scheduler keeps its promises in every interleaving |
| `sensor_serving` | `TypeOK`, `ImuCoherent`, `LidarCoherent`, `SensorsInStep`, `NoRegress`, `EmulatorsCatchUp`, `NeverTorn`, `NewsIsServed` | 2 bytes, 3 packets, 2 IMU and 5 LiDAR registers, any number of reads | reads shorter than a sleep are not torn, the two bytes of a distance belong together, the sensors tell of one instant, nothing steps back, the emulators catch up; the triple buffer is never torn and serves the newest |
| `bno055_driver` | `TypeOK`, `PageOneOnlyInConfig`, `ConfiguredOnSuccess`, `InterruptNotStranded`, `SamplesGenuine`, `AttitudesFlow` | the first nine operations, one bus error | what configuration, sampling and interrupts may rely on |
| `attitude_path` | `TypeOK`, `AgeBounded`, `FailsafeInTime`, `LiftedByFresh`, `FailsafeMeansLoss`, `LatencyConverges` | ticks of 5 ms: 40, 5, 50 and 100 ms; queue 3, samples of age 0 or 0.5 s at the start | how stale the motors' attitude can be, and when the failsafe comes and goes |
| `lidar_path` | `TypeOK`, `AgeBounded`, `NothingMeasured`, `DistancesFlow` | ticks of 10 ms: 30 and 100 ms; queue 2, 2 packets | distances are at most a queue old and keep coming, and all of them are the same constant |
| `full_duplex` | `TypeOK`, `EveryOtherFrame`, `StuckOnlyByRearm`, `EarlyBounded`, `EarlyOnlyAfterLoss`, `StagedIsServed` | ring 2, 9 transfers, 2 failures, clock to 10 of 20, a word of 32 | what the two buffers decode, where the thread can hang, what is early and by what, and that staged packets are injected |
| `arrow_of_time` | `ArrowOfTime` | the node: ring 2, 3 packets, timestamps 1, 3, clock to 3, 1 byte, a register each | **violated**, see below |
| `clock_wrap` | `OnTime` | clock value wraps at 2, a word of 8 | **violated**, see below |
| `imu_tearing` | `TearNeedsSecondFlip` | as `sensor_serving` | **violated**, see below |
| `init_report` | `InitReportsTruth` | all sixteen operations, no bus error | **violated**, see below |
| `lidar_mismatch` | `MeasurementGenuine` | as `lidar_path` | **violated**, see below |
| `triple_older` | `NeverOlder` | 2 bytes, 3 packets | **violated**, see below |

Why the bounds are enough.  A ring of two slots is full after two packets, is
evicted from by a third, and a fourth arrives while the timer runs for the evicted
one; each of the three timestamps (over, near, at the horizon) can come in any
order.  In `hil_scheduler` the word has six values, so that the packet of time 3 is too
far ahead at time 0 and at no other: its difference is negative, it is injected early
without an eviction, and `EarlyBounded` counts it.  The clock does not wrap in that
run, because `OnTime` needs that; it does in `clock_wrap`.

Two bytes are the least that can be torn.  Three packets fill both images and overwrite one.  Reads are not counted: a read may follow another for ever, begin
where the last one stopped, and meet every update.  The two buses share no state
except the thread, and the triple buffer shares none with either, so a behaviour of
`sensor_serving` draws one of the three at the start (`bus`) and leaves the others
unread; that keeps one run small, and the proofs have no such restriction.

The first nine operations of `bno_init` have every kind of operation, and interrupts
enabled early enough to meet later operations; one bus error is enough to reach
every error path, and two are not needed for any of them.

The periods of `attitude_path` are those of the code; a queue of three instead of
sixteen is full, partly full and empty in every phase of the two loops, and the
theorems are for any length.  With 16, `AgeBounded` says 0.8 s, and that samples from
before the loop's start, which the motors follow first and which may be of any age, are
done with 0.9 s after it.  `LatencyConverges` says that a full queue's age is not a worst
case but where a loop without errors ends: the reader is faster than the loop and a full queue drops the newest.
`FailsafeInTime` says 0.95 s, and `FailsafeMeansLoss` that it takes three lost samples in
a row as long as a fetch takes less than 10 ms.

A queue of two in `lidar_path` overflows, since three distances are put in the time
one is taken; two packets are what it takes for the halves of a distance to differ.
In `full_duplex` nine transfers are five decoded frames.  With a ring of two, the third
meets a full ring just when the first is due: the second is evicted, the alarm that
runs for it pops the third early while the thread is about to set one for it, and the
fourth is staged under that stale alarm and is early too.  This chain, and the alarm that
drains the ring between a refused put and the get, were looked for in the run and are
reached.  Two failures are one of the re-arming or of a transfer and one of an
alarm, or two of a kind.

Deadlock checking is on in every run: a clock, the sensor thread, a bus master or the
DUT's reader can always go on.  (A thread that hangs is therefore a property of its
own: `StuckOnlyByRearm`, `DistancesFlow`.)

**Fairness.**  `HilScheduler`: weak fairness of the thread's internal steps, of the
ISR and of the clock.  The kernel runs a ready thread of the highest priority
that is ready and the hardware serves a pending interrupt.  Nothing is assumed of
the Pi: `Receive` has no fairness.  `SensorServing`: weak fairness of the sensor
thread only; the DUT may stop within a read and the Pi may stop sending.  `Bno055Driver`:
weak fairness of each thread and of the work queue, because bus transactions end and
sleeps are finite; none of the chip's interrupts.  `AttitudePath`: weak fairness of both threads and of
time; an I2C transfer ends, with an error if need be.  `LidarPath`: the same of the
timer, the clock, the reader and the consumer; `DistancesFlow` is for behaviours in which
fetches fail finitely often, and the reader's fairness is what ends a transaction.
`FullDuplex`: the thread, the alarm and the clock; none of `SpiDone`, so the Pi may
stop, and a staged packet must be injected nevertheless.  `ImuTriple`: none, it has no
liveness property.

### What the violated runs show

* `arrow_of_time`.  scheduler_test.h:12-14 promises that the DUT "is never served
  physics state from the future".  When the ring is full, `put_overwrite` evicts
  the packet the timer is running for and leaves the timer alone; the ISR then
  pops whatever is oldest without looking at its timestamp, the sensor emulation thread
  takes it from the gate, and the DUT reads it.  `EarlyBounded`, which holds and is
  proved, says how much harm this does: at most one premature injection for each
  eviction.  Without an eviction the promise holds as long as timestamps stay below
  2^31 us (`ArrowHoldsWithoutEviction`, proved).  After 35.8 minutes of a stream there is a
  second way: see `clock_wrap`.
* `clock_wrap`.  main.c:63-66 argues that both sides count up from zero together.
  The node's microseconds start again after 2^32 cycles (about 17 s at 240 MHz)
  while the Pi's go on; from then on every delay is a turn of the counter too long, and
  longer with each turn.  When the timestamps are 2^31 us ahead of the clock, the
  difference is negative as an `int32_t`, the clamp makes it 1, and packets are injected
  on arrival, without an eviction and before their time.  `EarlyBounded` counts those
  timers in `too_far`, and `ArrowBrokenTwoWays`, proved, says that there is no third way.
* `imu_tearing`.  imu_emulator_test.h:27-32 counts three flips before a read can be
  torn.  One is enough: after flip #1 the image of the read in progress is the
  inactive one, and the next update writes to it at once.  `ImuCoherent` is the
  guarantee that does hold.
* `init_report`.  `bno_init` publishes `bno_dev` (bno.c:110) before it configures the
  chip, so the reader's `bno055_set_page(0)` runs in the middle of the
  configuration.  Between main's selection of page 1 and its read-back this makes
  the value differ: the driver logs "I2C communication compromised", `bno_init` fails
  and `main()` returns, on a bus without an error.  At the interrupt registers the
  same page change is not noticed, as the read-back is only logged: "BNO055
  initialized" and a trigger that is off.  What the reader cannot do is leave the
  chip in the wrong mode or on the wrong page after a success: `ConfiguredOnSuccess`, proved.
* `lidar_mismatch`.  lidar_emulator_test.h:26-33 lists the measurement sequence "as
  performed by the DUT": the pointer to 0x0F and two bytes.  The DUT's driver reads
  0x10 and 0x11 in two transactions.  0x10 comes from a cache that only a read of 0x0F
  refreshes, 0x11 is not mapped: every distance is 0xFF00 (`NothingMeasured`, proved),
  whatever the simulator sends.
* `triple_older`.  imu_emulator2.c:218-220 says that a read takes the "freshest complete
  buffer".  The exchange is unconditional: when nothing was published since the last
  read, the pending image is the one that read gave back, and the second read is
  of an older packet.  `NewsIsServed`, proved, is the part that holds.

Observed while reading, not the subject of a run: hil_diag.h:34 calls
`diag_last_lidar_mm` the last distance served on I2C, but scheduler_test.c:372
also sets it on reception; main.c:171-193 truncates rates, so one frame in two
seconds counts as none; the overlay of the DUT has the BNO055 at 0x28 while the
emulator answers at 0x29; the second of the two operations for the
gyroscope's SLOPE_DUR writes the bits of the first (bno055.c:670-690); the comment
"Poll at 50 Hz" of bno.c:96 is beside a sleep of 40 ms; the messages of lidar.c:42-46
for a queued and a dropped distance are exchanged; the LiDAR consumer waits without a
time limit and nothing tells it, or the console, that distances have stopped; rc.c
sends three bytes for a command and the DUT's UART consumer looks at the first byte of
each bunch only; serialize.cpp writes the keys of fields 16 to 18 and values from 128 on
as single bytes, where protobuf takes two (it has no caller).

Of `scheduler_fs2.c`, from the run `full_duplex`: the thread waits for two transfers for
each frame it decodes, so every second frame of the Pi is lost, and the clock
confirmation too if it comes in one of them; the semaphore never holds 2, which its
comment at 131-133 allows for; when the alarm drains the ring between the refused put and
the get, the newest packet is given up beside an empty ring; and the compare-and-swap, which "ensures
the alarm is set at most once" (190-192), does not ensure that it is set for the packet
that is there.  Between the thread's peek and its swap the alarm may pop the packet; if that
was early, by an eviction, the thread then sets a long alarm for a packet that has gone,
the next frame is staged under it and is early as well, and the race may repeat itself.  An
eviction can therefore make more than one packet early (in the compiled revision, whose
peek comes after the swap, it makes one: `EarlyBounded` of `HilScheduler`).  A clock that
wraps has the same effect here without any loss: the alarm for a packet that has gone is
then a turn of the counter long, and the next packet is staged under it.

## 4. Proofs

All theorems hold for every value of the constants that satisfies the named
assumptions (`WordAssumption`, `QueueLenAssumption`, `ClockAssumption`, `BoundAssumption`,
`ImuAssumption`, `LidarAssumption`, `PacketAssumption`, `CallsAssumption`, `FaultAssumption`,
`AttitudeAssumption`, `PathAssumption`, `DuplexAssumption`).  What the node serves is proved
under `NodeAssumption`, which is `ImuAssumption` and `LidarAssumption` for `HilNode`.

`HilSchedulerProofs`

* `TypeCorrect`, then `TimerFlagCorrect` and `NoLostWakeupCorrect`, each inductive
  relative to the ones before.
* `ConservationCorrect` needs `Books`: the balance and, with it, that the second
  put of `put_overwrite` always finds room (`RoomForReput`).  The ISR can only shrink the
  ring between the eviction and that put, but without the fact the balance is not
  inductive.
* `RingOrderCorrect` and `GateAlwaysFullCorrect` are invariants over arrival numbers.
* `SchedulerImplementsGate`: `CausalityGate` under the mapping received = `diag_spi_rx`,
  inside = the numbers in the ring and in the thread's hand, served = the number
  in the gate.  `QEvict` and the drained case map to `Lose`, the ISR to `Serve`, and
  `RingOrder` is what makes them take the oldest.
* `OnTimeCorrect` assumes that the clock does not wrap within the horizon and that a
  difference fits an `int32_t` (`MaxTime < ClockWrap`, `MaxTime <= HalfWord`); the run
  `clock_wrap` shows that the first is needed.
* `EarlyBoundedCorrect`, for every clock and word, rests on the converse of `OnTime`: a
  countdown that was not started for a `TooFar` timestamp does not end before that
  timestamp, since the delay is at least the time that is left, and more on a wrapped
  clock (`StartTooSoon`, `TickTooSoon`; `Int32Value` is the fact about the cast).
  `EarlyInv` adds to the balance the timer that runs now: if it is orphaned, or ends too
  soon, an eviction or a `too_far` timer is still to be used up.
* `EarlyOnlyByEviction`: with `MaxTime < HalfWord` no timestamp is `TooFar` (`NeverTooFar`),
  whether or not the clock wraps, and evictions alone bound the early packets.
* The node.  `NodeIsScheduler` projects a behaviour of `HilNode` to the scheduler, so that
  everything above holds of it.  `NodeImplementsServing` projects it to `SensorServing`:
  a step of the scheduler is one of the abstract gate or none (`ChannelStep`, the step
  part of `SchedulerImplementsGate`), the others are steps of `SensorServing` as they are.
* From that and the theorems of `SensorServingProofs`, `NodeServesCoherently` and
  `NodeNeverRegresses`: the DUT is served untorn, coherent, in step and never back in time
  by the real scheduler with its evictions and interrupts, not only by an abstract gate.
  (`SameServing` equates the two names, `Serving!` and `SP!`, that the instances of the
  module and of its proofs give to the same definitions.)
* `ArrowBrokenTwoWays`, from `EarlyBounded` and `GateDue`: while nothing was
  injected early, the packet at the gate is due, so `ArrowOfTime` can fail after an
  eviction or a `too_far` timer only.  `ArrowHoldsWithoutEviction` is the case of
  `MaxTime < HalfWord`, where the eviction is the only way.

`SensorServingProofs`

* `ServingTypeCorrect`, `LidarCoherentCorrect` (through `FromCache`: the high byte of a
  read is what the cache holds), `SensorsInStepCorrect` (through the image and step
  invariants, which say what each image holds at each place of the thread), and
  `ImuCoherentCorrect` (through `ReadInv`: while a read has not spanned a sleep, the
  image of its snapshot is untouched).
* `NoRegressCorrect`, an action property: what is shown only advances
  (`ShownAdvances`), what a read begins with is what is shown (`ReadsWhatIsShown`), and
  no read began with anything newer (`SeenInv`).  The gate's own order comes from
  `GateAdvances`.

`Bno055DriverProofs` (`CallsAssumption`, `FaultAssumption`; any sequence of operations
that begins with a mode, any number of bus errors)

* `DriverTypeCorrect`, then `PageInv`: page 1 implies CONFIG mode, an idle work item and
  main within the registers of an operation.  The work item is idle because it was
  when main woke from the settling sleep and a chip in CONFIG mode raises no
  interrupt; this is the part that `PageOneOnlyInConfig` alone lacks.
* `ConfigInv` follows the saved mode through the operations: between two of them the
  driver and the chip are in NDOF, or the chip was reset.
* From these, `PageOneCorrect`, `ConfigurationCorrect`, `InterruptCorrect` and, with
  `ReaderInv`, `SamplesCorrect`.

`AttitudePathProofs` (`AttitudeAssumption`: any queue length, periods and timeouts, with
`Losses` rounds shorter than a sleep and a timeout of the loop)

* `IInv` adds to each property what remains to be waited: `AgeInv` the time until a
  queued sample is applied (its age, or for one from before the start the uptime, then
  is within the bound), `SilenceInv` the time until the failsafe, `LossInv`
  compares the time since the loop took a sample with the longest the reader can have
  needed.  These sums are what a step of the clock leaves alone.
* From it `AgeCorrect`, `FailsafeCorrect`, `LiftedByFreshCorrect` and, as an action
  property, `FailsafeMeansLossCorrect`.

`LidarPathProofs`

* `LidarPathTypeCorrect`, and `LidarAgeCorrect` through `AgeInv`: a distance's age, the rest
  of the consumer's present sleep and a sleep for each place before it make up at
  most a full queue of sleeps, a sum that a step of the clock leaves alone.
* `NothingMeasuredCorrect` follows the pointer: `PointerInv` says that the emulator's
  pointer is on the driver's register whenever a byte is served, and never on 0x0F;
  `CacheInv` that the cache therefore never changes, nor what the two bytes can be;
  `NothingInv` that the queue holds nothing else.

`FullDuplexProofs` (any ring of two or more, any timestamps, transfers and failures)

* `DuplexTypeCorrect`; `StuckOnlyByRearmCorrect` through `PhaseInv`, which ties the place of
  the thread to the semaphore, the state of the transfer, the buffers' roles and the parity
  of the transfers so far.
* `EveryOtherFrameCorrect` through the same invariant, `DecodedInv` (what the buffer to be
  decoded holds) and `RingInv` (the ring and the packet in hand are odd and in order).
* `EarlyBoundedCorrect`, for `Horizon < HalfWord`, through `ForeignInv`: an alarm that is neither sound (the head of
  the ring is due when it ends) nor harmless (the ring is empty and it ends before the
  thread can fill it, which takes `PhaseInv`) is paid for by an eviction or a stale alarm
  that no early packet has used up yet.  An attempt to prove the bound that suggests
  itself, one early packet for each eviction or failed alarm, led to the chain above.
* `EarlyOnlyAfterLossCorrect`, for `Horizon < HalfWord` and `Horizon < ClockWrap`, through
  `LosslessInv`: until the first loss no alarm is foreign, because a packet that was
  peeked at and has gone was due, and its alarm takes one tick.  Both properties fail
  without these hypotheses: beyond `HalfWord` by the cast, and the second on a wrapped
  clock, where the alarm of a due packet is long.

`ImuTripleProofs`

* `PermutationCorrect`: the three indices always are the three images, so neither side
  ever touches the other's.  From it and from what each image holds,
  `NeverTornCorrect` and `NewsIsServedCorrect`.

`MCSensorServingProofs`

* `ServingIsComposed`, `NeverTornComposed`, `NewsIsServedComposed`: the composition that the
  run `sensor_serving` explores is a behaviour of each of its parts, so the theorems about
  `SensorServing` and `ImuTriple` hold of it.

Only model-checked: the liveness properties `GateCatchesUp`, `EmulatorsCatchUp`,
`AttitudesFlow`, `LatencyConverges`, `DistancesFlow` and `StagedIsServed`, since liveness
under fairness is beyond the provers in use.

## 5. Not modelled

* The diagnostic thread and the start-up of the HIL node: the thread reads counters and
  prints; start-up is the initial states.
* `rc.c` and `pwm.c`: nothing in the compiled program calls them.
* The other files under `threads/c`: superseded or empty.
* The bit-banged SPI driver: an adapted Zephyr driver for a sample application.  It polls
  three pins, and whether it keeps up with the master's clock is a matter of machine
  cycles.
* On the DUT: the UART path, which prints the first byte of a command; the state machine,
  which gets no events and has empty handlers; the motor mixing, which is floating point;
  of the BNO055 driver, the modes, power states and attributes no caller uses and the
  compiled-out custom configuration; of the LIDAR-Lite driver, the time-out of its
  status poll, since the emulator is always ready.
* The flight simulator: floating-point physics in one thread that writes a CSV file.  The
  loop that would send frames to the node is not in the repository, so the Pi is an
  unconstrained sender in `HilScheduler` and `FullDuplex`.
* The SPI master transport (one `ioctl` or `write`), the dashboard (its test is a placeholder
  that sleeps and broadcasts), batch scripts, drawing, samples, the DUT's example
  sensor, and the generated protocol buffers.

The modules map about four lines of a hundred of the repository's code.  Three quarters of it
are a vendored JSON library, a vendored network library and generated protobuf code, and
most of the rest is floating point, drawing and tables of register numbers.
