------------------------------ MODULE AttitudePath ------------------------------
(***************************************************************************)
(* From the BNO055 to the motors of the device under test, in time: the    *)
(* reader thread of flight_controller/app/src/bno.c, the message queue and *)
(* the control loop bno_consumer of main.c, from the moment main() starts  *)
(* the latter.  Until then the reader has run alone.                       *)
(*                                                                         *)
(* Time passes in ticks, and only while both threads are blocked: what     *)
(* they compute between two kernel calls takes no time, a fetch over the   *)
(* bus does.  A sample is its age.                                         *)
(***************************************************************************)
EXTENDS Integers, Sequences

CONSTANTS
  QueueLen,      \* MAX_BNO_MSGQ_LEN
  PollTicks,     \* the sleep of the reader
  FetchTicks,    \* the longest fetch on a healthy bus
  ControlTicks,  \* the sleep of the control loop
  TimeoutTicks,  \* the timeout of its bno_get
  BootAges,      \* ages of samples queued when the loop starts
  Losses         \* as many samples in a row must be lost for a failsafe

ASSUME AttitudeAssumption ==
  /\ QueueLen \in Nat \ {0}
  /\ PollTicks \in Nat \ {0} /\ FetchTicks \in Nat
  /\ ControlTicks \in Nat \ {0} /\ TimeoutTicks \in Nat
  /\ BootAges \subseteq Nat
  /\ Losses \in Nat
  /\ Losses * (PollTicks + FetchTicks) < ControlTicks + TimeoutTicks

VARIABLES
  bno_msgq,      \* ages of the queued samples, the oldest first
  rd_pc,         \* bno_read_thread: "sleep" or "fetch"
  rd_timer,      \* the rest of its sleep, or the duration of its fetch
  cs_pc,         \* bno_consumer: "get" or "sleep"
  cs_timer,      \* the rest of its timeout, or of its sleep
  motors,        \* what they follow: "nothing", the "failsafe", or a "sample"
  motor_age,     \* the age of that sample
  lost,          \* history: rounds without a sample since the last one
  silence,       \* history: ticks since the last sample, up to a bound
  uptime         \* history: ticks since the loop started, up to a bound

reader == <<rd_pc, rd_timer>>
consumer == <<cs_pc, cs_timer, motors, motor_age>>
vars == <<bno_msgq, reader, consumer, lost, silence, uptime>>

\* The time to serve a full queue, sleep and time out.
FailsafeTicks == QueueLen * ControlTicks + ControlTicks + TimeoutTicks
\* The time to serve what was queued at the start, and to time out.
BootTicks == QueueLen * ControlTicks + TimeoutTicks
Until(limit, n) == IF n < limit THEN n + 1 ELSE n

(***************************************************************************)
(* bno_init publishes bno_dev before it configures the chip, so the reader *)
(* may have put any number of samples, of any ages, before main() starts   *)
(* the loop: a full queue drops the newest and keeps those.                *)
(***************************************************************************)
Init ==
  /\ \E n \in 0..QueueLen : bno_msgq \in [1..n -> BootAges]
  /\ \/ rd_pc = "sleep" /\ rd_timer \in 0..PollTicks
     \/ rd_pc = "fetch" /\ rd_timer \in 0..FetchTicks
  /\ cs_pc = "get" /\ cs_timer = TimeoutTicks
  /\ motors = "nothing" /\ motor_age = 0
  /\ lost \in IF bno_msgq = <<>> THEN {Losses} ELSE 0..Losses
  /\ silence = 0 /\ uptime = 0

--------------------------------------------------------------------------------
(***************************************************************************)
(* bno_read_thread.                                                        *)
(***************************************************************************)
ReaderSleeps == rd_pc' = "sleep" /\ rd_timer' = PollTicks

ReaderWakes ==
  /\ rd_pc = "sleep" /\ rd_timer = 0
  /\ rd_pc' = "fetch" /\ rd_timer' = 0
  /\ UNCHANGED <<bno_msgq, consumer, lost, silence, uptime>>

\* Wrong variants, for mutation runs: without a limit; only if it is empty.
PutAlways ==
  /\ rd_pc = "fetch"
  /\ bno_msgq' = Append(bno_msgq, 0)
  /\ ReaderSleeps
  /\ lost' = 0 /\ silence' = 0
  /\ UNCHANGED <<consumer, uptime>>

PutWhenEmpty ==
  /\ rd_pc = "fetch"
  /\ bno_msgq' = IF bno_msgq = <<>> THEN <<0>> ELSE bno_msgq
  /\ ReaderSleeps
  /\ lost' = 0 /\ silence' = 0
  /\ UNCHANGED <<consumer, uptime>>

\* k_msgq_put with K_NO_WAIT: a full queue drops the newest sample.
ReaderPuts ==
  /\ rd_pc = "fetch"
  /\ bno_msgq' = IF Len(bno_msgq) < QueueLen THEN Append(bno_msgq, 0) ELSE bno_msgq
  /\ ReaderSleeps
  /\ lost' = 0 /\ silence' = 0
  /\ UNCHANGED <<consumer, uptime>>

\* Wrong variant, for a mutation run: the old sample is put all the same.
FailsButPuts ==
  /\ rd_pc = "fetch"
  /\ bno_msgq' = IF Len(bno_msgq) < QueueLen THEN Append(bno_msgq, silence) ELSE bno_msgq
  /\ ReaderSleeps
  /\ lost' = Until(Losses, lost)
  /\ UNCHANGED <<consumer, silence, uptime>>

ReaderFails ==
  /\ rd_pc = "fetch"
  /\ ReaderSleeps
  /\ lost' = Until(Losses, lost)
  /\ UNCHANGED <<bno_msgq, consumer, silence, uptime>>

ReaderStep == ReaderWakes \/ ReaderPuts \/ ReaderFails

(***************************************************************************)
(* bno_consumer.                                                           *)
(***************************************************************************)
ConsumerSleeps == cs_pc' = "sleep" /\ cs_timer' = ControlTicks

ConsumerWakesWith(timeout) ==
  /\ cs_pc = "sleep" /\ cs_timer = 0
  /\ cs_pc' = "get" /\ cs_timer' = timeout
  /\ UNCHANGED <<bno_msgq, reader, motors, motor_age, lost, silence, uptime>>

ConsumerGets ==
  /\ cs_pc = "get" /\ bno_msgq # <<>>
  /\ motors' = "sample" /\ motor_age' = Head(bno_msgq)
  /\ bno_msgq' = Tail(bno_msgq)
  /\ ConsumerSleeps
  /\ UNCHANGED <<reader, lost, silence, uptime>>

\* Wrong variant, for a mutation run: the motors are left as they are.
TimesOutSilently ==
  /\ cs_pc = "get" /\ bno_msgq = <<>> /\ cs_timer = 0
  /\ ConsumerSleeps
  /\ UNCHANGED <<bno_msgq, reader, motors, motor_age, lost, silence, uptime>>

ConsumerTimesOut ==
  /\ cs_pc = "get" /\ bno_msgq = <<>> /\ cs_timer = 0
  /\ motors' = "failsafe" /\ motor_age' = 0
  /\ ConsumerSleeps
  /\ UNCHANGED <<bno_msgq, reader, lost, silence, uptime>>

\* Wrong variant, for a mutation run: half the timeout.
ConsumerWakesHasty == ConsumerWakesWith(TimeoutTicks \div 2)

ConsumerWakes == ConsumerWakesWith(TimeoutTicks)

ConsumerStep == ConsumerWakes \/ ConsumerGets \/ ConsumerTimesOut

(***************************************************************************)
(* The clock of the kernel.  A fetch that takes longer than it may is as   *)
(* good as any number of failed ones.                                      *)
(***************************************************************************)
Older(samples) == [i \in DOMAIN samples |-> samples[i] + 1]

Tick ==
  /\ rd_pc = "sleep" => rd_timer > 0
  /\ cs_timer > 0
  /\ cs_pc = "get" => bno_msgq = <<>>
  /\ rd_timer' = IF rd_pc = "sleep" THEN rd_timer - 1 ELSE Until(FetchTicks, rd_timer)
  /\ lost' = IF rd_pc = "fetch" /\ rd_timer = FetchTicks THEN Losses ELSE lost
  /\ cs_timer' = cs_timer - 1
  /\ bno_msgq' = Older(bno_msgq)
  /\ motor_age' = IF motors = "sample" THEN motor_age + 1 ELSE motor_age
  /\ silence' = Until(FailsafeTicks + 1, silence)
  /\ uptime' = Until(BootTicks + 1, uptime)
  /\ UNCHANGED <<rd_pc, cs_pc, motors>>

Next == ReaderStep \/ ConsumerStep \/ Tick

Spec == Init /\ [][Next]_vars

FairSpec == Spec /\ WF_vars(ReaderStep) /\ WF_vars(ConsumerStep) /\ WF_vars(Tick)

--------------------------------------------------------------------------------
(***************************************************************************)
(* Properties.                                                             *)
(***************************************************************************)

\* Every variable keeps its type.
TypeOK ==
  /\ bno_msgq \in Seq(Nat) /\ Len(bno_msgq) <= QueueLen
  /\ rd_pc \in {"sleep", "fetch"} /\ rd_timer \in Nat
  /\ rd_timer <= IF rd_pc = "sleep" THEN PollTicks ELSE FetchTicks
  /\ cs_pc \in {"get", "sleep"} /\ cs_timer \in Nat
  /\ cs_timer <= IF cs_pc = "sleep" THEN ControlTicks ELSE TimeoutTicks
  /\ motors \in {"nothing", "failsafe", "sample"} /\ motor_age \in Nat
  /\ lost \in 0..Losses
  /\ silence \in 0..(FailsafeTicks + 1) /\ uptime \in 0..(BootTicks + 1)

(***************************************************************************)
(* The i-th sample in the queue is never older than the places before its  *)
(* own took to be served, so none is applied older than a full queue takes *)
(* (0.8 s), nor followed for longer than that, a sleep and a timeout.  An  *)
(* older one can only be from before the loop started: whatever its age,   *)
(* it leaves its place, and then the motors, by a fixed time after that.   *)
(***************************************************************************)
AgeBounded ==
  /\ \A i \in DOMAIN bno_msgq :
       \/ bno_msgq[i] <= (QueueLen - i + 1) * ControlTicks
       \/ uptime <= (QueueLen - i) * ControlTicks
  /\ motors = "sample" => motor_age <= FailsafeTicks \/ uptime <= BootTicks

(***************************************************************************)
(* Whatever the reader's errors, the motors are at the failsafe intensity  *)
(* when there has been no sample for FailsafeTicks (0.95 s).               *)
(***************************************************************************)
FailsafeInTime == silence > FailsafeTicks => motors = "failsafe"

(***************************************************************************)
(* main.c:74-81 goes to the failsafe only if Losses samples in a row were  *)
(* lost: no phase of the two loops makes it drop the motors with fewer.    *)
(***************************************************************************)
FailsafeMeansLoss == [][ConsumerTimesOut => lost = Losses]_vars

(***************************************************************************)
(* A failsafe is not lifted by an attitude from before it.                 *)
(***************************************************************************)
LiftedByFresh ==
  motors = "failsafe" => \A i \in DOMAIN bno_msgq : bno_msgq[i] <= ControlTicks

(***************************************************************************)
(* The reader is faster than the control loop (40 against 50 ms), so with  *)
(* no loss the queue fills, and the loop acts for good on samples from a   *)
(* whole queue ago.                                                        *)
(***************************************************************************)
LatencyConverges == <>[](lost = 0) => <>[](Len(bno_msgq) >= QueueLen - 1)

================================================================================
