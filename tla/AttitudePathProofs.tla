-------------------------- MODULE AttitudePathProofs ---------------------------
(***************************************************************************)
(* Proofs, for every queue length and all periods and timeouts, of the     *)
(* safety properties of AttitudePath.                                      *)
(***************************************************************************)
EXTENDS AttitudePath, SequenceTheorems, TLAPS

LEMMA ConstantFacts ==
  /\ QueueLen \in Nat /\ QueueLen >= 1
  /\ PollTicks \in Nat /\ PollTicks >= 1 /\ FetchTicks \in Nat
  /\ ControlTicks \in Nat /\ ControlTicks >= 1 /\ TimeoutTicks \in Nat
  /\ Losses \in Nat
  /\ Losses * (PollTicks + FetchTicks) < ControlTicks + TimeoutTicks
  /\ BootAges \subseteq Nat
  BY AttitudeAssumption

LEMMA ProductFacts ==
  ASSUME NEW a \in Nat, NEW b \in Nat, NEW k \in Nat, a <= b
  PROVE  a * k \in Nat /\ a * k <= b * k /\ (a + 1) * k = a * k + k
  <1>1. PICK d \in Nat : b = a + d
    BY b - a \in Nat
  <1>2. d * k \in Nat /\ a * k \in Nat
    OBVIOUS
  <1>3. b * k = a * k + d * k
    BY <1>1
  <1>4. (a + 1) * k = a * k + k
    OBVIOUS
  <1>5. QED
    BY <1>2, <1>3, <1>4

\* A tick that is waited for in m other sleeps: age and rest make up the same.
LEMMA TickSum ==
  ASSUME NEW a \in Nat, NEW b \in Nat, NEW c \in {b, b + 1}, NEW rest \in Nat,
         NEW m \in Nat, NEW x \in Int, NEW y \in Int,
         a + rest + m <= x \/ b + rest + m <= y
  PROVE  (a + 1) + (rest - 1) + m <= x \/ c + (rest - 1) + m <= y
  OBVIOUS

LEMMA FailsafeFacts ==
  /\ QueueLen * ControlTicks \in Nat
  /\ FailsafeTicks \in Nat
  /\ FailsafeTicks = QueueLen * ControlTicks + ControlTicks + TimeoutTicks
  /\ BootTicks \in Nat
  /\ BootTicks = QueueLen * ControlTicks + TimeoutTicks
  BY ConstantFacts DEF FailsafeTicks, BootTicks

LEMMA BootSequence ==
  ASSUME NEW n \in Nat, NEW s \in [1..n -> BootAges]
  PROVE  s \in Seq(Nat) /\ Len(s) = n
  <1>1. s \in [1..n -> Nat]
    BY ConstantFacts
  <1>2. s \in Seq(Nat)
    BY <1>1
  <1>3. DOMAIN s = 1..n
    OBVIOUS
  <1>4. QED
    BY <1>2, <1>3, LenProperties

(***************************************************************************)
(* The type invariant.                                                     *)
(***************************************************************************)
THEOREM AttitudeTypeCorrect == Spec => []TypeOK
  <1> USE ConstantFacts, FailsafeFacts
  <1>1. Init => TypeOK
    <2> SUFFICES ASSUME Init PROVE TypeOK
      OBVIOUS
    <2>1. PICK n \in 0..QueueLen : bno_msgq \in [1..n -> BootAges]
      BY DEF Init
    <2>2. bno_msgq \in Seq(Nat) /\ Len(bno_msgq) <= QueueLen
      BY <2>1, BootSequence
    <2>3. QED
      BY <2>2 DEF Init, TypeOK
  <1>2. TypeOK /\ [Next]_vars => TypeOK'
    <2> SUFFICES ASSUME TypeOK, [Next]_vars PROVE TypeOK'
      OBVIOUS
    <2> USE DEF TypeOK, reader, consumer, Until, ReaderSleeps, ConsumerSleeps
    <2>1. CASE ReaderWakes
      BY <2>1 DEF ReaderWakes
    <2>2. CASE ReaderPuts
      BY <2>2 DEF ReaderPuts
    <2>3. CASE ReaderFails
      BY <2>3 DEF ReaderFails
    <2>4. CASE ConsumerWakes
      BY <2>4 DEF ConsumerWakes, ConsumerWakesWith
    <2>5. CASE ConsumerGets
      <3>1. Head(bno_msgq) \in Nat /\ Tail(bno_msgq) \in Seq(Nat)
            /\ Len(Tail(bno_msgq)) <= QueueLen
        BY <2>5 DEF ConsumerGets
      <3>2. QED
        BY <2>5, <3>1 DEF ConsumerGets
    <2>6. CASE ConsumerTimesOut
      BY <2>6 DEF ConsumerTimesOut
    <2>7. CASE Tick
      <3>1. Older(bno_msgq) \in Seq(Nat) /\ Len(Older(bno_msgq)) = Len(bno_msgq)
        BY DEF Older
      <3>2. bno_msgq' \in Seq(Nat) /\ Len(bno_msgq') <= QueueLen
        BY <2>7, <3>1 DEF Tick
      <3>3. QED
        BY <2>7, <3>2 DEF Tick
    <2>8. CASE UNCHANGED vars
      BY <2>8 DEF vars
    <2>9. QED
      BY <2>1, <2>2, <2>3, <2>4, <2>5, <2>6, <2>7, <2>8 DEF Next, ReaderStep, ConsumerStep
  <1>3. QED
    BY <1>1, <1>2, PTL DEF Spec

(***************************************************************************)
(* When each queued sample will be applied: Rest from now and the sleeps   *)
(* of those before it later.  Its age then does not exceed a full queue,   *)
(* or it was there when the loop started and is applied by the time that   *)
(* the loop needs for a full queue.                                        *)
(***************************************************************************)
Rest == IF cs_pc = "sleep" THEN cs_timer ELSE 0

AgeInv ==
  \A i \in 1..Len(bno_msgq) :
    \/ bno_msgq[i] + Rest + (i - 1) * ControlTicks <= QueueLen * ControlTicks
    \/ uptime + Rest + (i - 1) * ControlTicks <= (QueueLen - 1) * ControlTicks

\* For how long the motors may follow the sample they follow now.
Held == IF cs_pc = "sleep" THEN cs_timer + TimeoutTicks ELSE cs_timer

MotorInv ==
  motors = "sample" =>
    motor_age + Held <= FailsafeTicks \/ uptime + Held <= BootTicks

(***************************************************************************)
(* When the failsafe comes if no further sample does: while it has not, or *)
(* a sample waits to lift it, the silence and the time left add up.        *)
(***************************************************************************)
TimeLeft ==
  IF bno_msgq = <<>> /\ cs_pc = "get" THEN cs_timer
  ELSE Rest + Len(bno_msgq) * ControlTicks + TimeoutTicks

SilenceInv ==
  motors # "failsafe" \/ bno_msgq # <<>> => silence + TimeLeft <= FailsafeTicks

\* What is queued in a failsafe was put after it.
FreshInv ==
  motors = "failsafe" =>
    \A i \in 1..Len(bno_msgq) : bno_msgq[i] + Rest <= ControlTicks

(***************************************************************************)
(* An upper bound of the time since the last sample, and the time since    *)
(* the control loop took it: an empty queue with few losses means that the *)
(* loop has not waited longer than the reader has needed.                  *)
(***************************************************************************)
SinceSample ==
  lost * (PollTicks + FetchTicks)
    + (IF rd_pc = "sleep" THEN PollTicks - rd_timer ELSE PollTicks + rd_timer)

SinceTaken ==
  IF cs_pc = "sleep" THEN ControlTicks - cs_timer
  ELSE ControlTicks + TimeoutTicks - cs_timer

LossInv == bno_msgq = <<>> /\ lost < Losses => SinceTaken <= SinceSample

--------------------------------------------------------------------------------
LEMMA AgeStep ==
  ASSUME TypeOK, AgeInv, [Next]_vars
  PROVE  AgeInv'
  <1> USE ConstantFacts, FailsafeFacts
  <1> USE DEF Rest, reader, consumer, ReaderSleeps, ConsumerSleeps
  <1>0. /\ bno_msgq \in Seq(Nat) /\ Len(bno_msgq) <= QueueLen
        /\ cs_timer \in Nat
        /\ cs_pc = "sleep" => cs_timer <= ControlTicks
        /\ uptime \in Nat
    BY DEF TypeOK
  <1>1. CASE ReaderWakes
    BY <1>1 DEF ReaderWakes, AgeInv
  <1>2. CASE ReaderPuts
    <2>1. CASE Len(bno_msgq) < QueueLen
      <3> DEFINE n == Len(bno_msgq)
      <3>1. n \in Nat /\ bno_msgq' = Append(bno_msgq, 0) /\ Rest' = Rest /\ uptime' = uptime
        BY <1>0, <1>2, <2>1 DEF ReaderPuts
      <3>2. Rest <= ControlTicks /\ Rest \in Nat
        BY <1>0
      <3>3. n * ControlTicks + ControlTicks <= QueueLen * ControlTicks
        BY <2>1, <3>1, ProductFacts
      <3>4. ASSUME NEW i \in 1..Len(bno_msgq')
            PROVE  \/ bno_msgq'[i] + Rest' + (i - 1) * ControlTicks <= QueueLen * ControlTicks
                   \/ uptime' + Rest' + (i - 1) * ControlTicks <= (QueueLen - 1) * ControlTicks
        <4>1. CASE i = n + 1
          <5>1. bno_msgq'[i] = 0 /\ i - 1 = n
            BY <1>0, <3>1, <4>1
          <5>2. n * ControlTicks \in Nat
            BY <3>1
          <5>3. (i - 1) * ControlTicks = n * ControlTicks
            BY <5>1
          <5> HIDE DEF n, Rest
          <5>4. QED
            BY <3>1, <3>2, <3>3, <5>1, <5>2, <5>3
        <4>2. CASE i # n + 1
          <5>1. i \in 1..n /\ bno_msgq'[i] = bno_msgq[i]
            BY <1>0, <3>1, <4>2
          <5>2. QED
            BY <3>1, <5>1 DEF AgeInv
        <4>3. QED
          BY <4>1, <4>2
      <3>5. QED
        BY <3>4 DEF AgeInv
    <2>2. CASE ~(Len(bno_msgq) < QueueLen)
      BY <1>2, <2>2 DEF ReaderPuts, AgeInv
    <2>3. QED
      BY <2>1, <2>2
  <1>3. CASE ReaderFails
    BY <1>3 DEF ReaderFails, AgeInv
  <1>4. CASE ConsumerWakes
    BY <1>4 DEF ConsumerWakes, ConsumerWakesWith, AgeInv
  <1>5. CASE ConsumerGets
    <2>1. bno_msgq' = Tail(bno_msgq) /\ Rest' = ControlTicks /\ Rest = 0 /\ bno_msgq # <<>>
          /\ uptime' = uptime
      BY <1>5 DEF ConsumerGets
    <2>2. ASSUME NEW i \in 1..Len(bno_msgq')
          PROVE  \/ bno_msgq'[i] + Rest' + (i - 1) * ControlTicks <= QueueLen * ControlTicks
                 \/ uptime' + Rest' + (i - 1) * ControlTicks <= (QueueLen - 1) * ControlTicks
      <3>1. i + 1 \in 1..Len(bno_msgq) /\ bno_msgq'[i] = bno_msgq[i + 1]
        BY <1>0, <2>1
      <3>2. \/ bno_msgq[i + 1] + 0 + ((i + 1) - 1) * ControlTicks <= QueueLen * ControlTicks
            \/ uptime + 0 + ((i + 1) - 1) * ControlTicks <= (QueueLen - 1) * ControlTicks
        BY <2>1, <3>1 DEF AgeInv
      <3>3. i - 1 \in Nat /\ ((i + 1) - 1) * ControlTicks = (i - 1) * ControlTicks + ControlTicks
        BY ProductFacts
      <3>4. bno_msgq[i + 1] \in Nat /\ (i - 1) * ControlTicks \in Nat
        BY <1>0, <3>1, <3>3, ProductFacts
      <3> HIDE DEF Rest
      <3>5. QED
        BY <1>0, <2>1, <3>1, <3>2, <3>3, <3>4
    <2>3. QED
      BY <2>2 DEF AgeInv
  <1>6. CASE ConsumerTimesOut
    BY <1>0, <1>6 DEF ConsumerTimesOut, AgeInv
  <1>7. CASE Tick
    <2>1. CASE cs_pc = "get"
      BY <1>0, <1>7, <2>1 DEF Tick, Older, AgeInv
    <2>2. CASE cs_pc # "get"
      <3>1. cs_pc = "sleep" /\ Rest' = Rest - 1 /\ Rest \in Nat
            /\ uptime' \in {uptime, uptime + 1}
        BY <1>0, <1>7, <2>2 DEF Tick, TypeOK, Until
      <3>2. ASSUME NEW i \in 1..Len(bno_msgq')
            PROVE  \/ bno_msgq'[i] + Rest' + (i - 1) * ControlTicks <= QueueLen * ControlTicks
                   \/ uptime' + Rest' + (i - 1) * ControlTicks <= (QueueLen - 1) * ControlTicks
        <4>1. i \in 1..Len(bno_msgq) /\ bno_msgq'[i] = bno_msgq[i] + 1 /\ bno_msgq[i] \in Nat
          BY <1>0, <1>7 DEF Tick, Older
        <4>2. \/ bno_msgq[i] + Rest + (i - 1) * ControlTicks <= QueueLen * ControlTicks
              \/ uptime + Rest + (i - 1) * ControlTicks <= (QueueLen - 1) * ControlTicks
          BY <4>1 DEF AgeInv
        <4>3. (i - 1) * ControlTicks \in Nat /\ QueueLen * ControlTicks \in Int
              /\ (QueueLen - 1) * ControlTicks \in Int
          BY ProductFacts
        <4> HIDE DEF Rest
        <4>4. \/ (bno_msgq[i] + 1) + (Rest - 1) + (i - 1) * ControlTicks
                   <= QueueLen * ControlTicks
              \/ uptime' + (Rest - 1) + (i - 1) * ControlTicks
                   <= (QueueLen - 1) * ControlTicks
          <5> DEFINE m == (i - 1) * ControlTicks
                     x == QueueLen * ControlTicks
                     y == (QueueLen - 1) * ControlTicks
                     a == bno_msgq[i]
          <5>1. m \in Nat /\ x \in Int /\ a \in Nat /\ Rest \in Nat
            BY <3>1, <4>1, <4>3
          <5>u. y \in Int /\ uptime \in Nat /\ uptime' \in {uptime, uptime + 1}
            BY <1>0, <3>1, <4>3
          <5>2. a + Rest + m <= x \/ uptime + Rest + m <= y
            BY <4>2
          <5> HIDE DEF m, x, y, a
          <5>3. (a + 1) + (Rest - 1) + m <= x \/ uptime' + (Rest - 1) + m <= y
            <6>1. CASE a + Rest + m <= x
              BY ONLY <5>1, <6>1
            <6>2. CASE uptime + Rest + m <= y
              <7>1. uptime + (Rest - 1) + m <= y /\ (uptime + 1) + (Rest - 1) + m <= y
                BY ONLY <5>1, <5>u, <6>2
              <7>2. uptime' = uptime \/ uptime' = uptime + 1
                BY ONLY <5>u
              <7>3. QED
                BY ONLY <7>1, <7>2
            <6>3. QED
              BY ONLY <5>2, <6>1, <6>2
          <5>4. QED
            BY <5>3 DEF m, x, y, a
        <4>5. QED
          BY ONLY <3>1, <4>1, <4>4
      <3>3. QED
        BY <3>2 DEF AgeInv
    <2>3. QED
      BY <2>1, <2>2
  <1>8. CASE UNCHANGED vars
    BY <1>8 DEF vars, AgeInv
  <1>9. QED
    BY <1>1, <1>2, <1>3, <1>4, <1>5, <1>6, <1>7, <1>8 DEF Next, ReaderStep, ConsumerStep

LEMMA MotorStep ==
  ASSUME TypeOK, AgeInv, MotorInv, [Next]_vars
  PROVE  MotorInv'
  <1> USE ConstantFacts, FailsafeFacts
  <1> USE DEF MotorInv, Held, reader, consumer, ReaderSleeps, ConsumerSleeps
  <1>0. /\ cs_pc \in {"get", "sleep"} /\ cs_timer \in Nat /\ motor_age \in Nat
        /\ cs_timer <= IF cs_pc = "sleep" THEN ControlTicks ELSE TimeoutTicks
        /\ motors \in {"nothing", "failsafe", "sample"} /\ uptime \in Nat
    BY DEF TypeOK
  <1>1. CASE ReaderStep
    BY <1>1 DEF ReaderStep, ReaderWakes, ReaderPuts, ReaderFails
  <1>2. CASE ConsumerWakes
    BY <1>0, <1>2 DEF ConsumerWakes, ConsumerWakesWith
  <1>3. CASE ConsumerGets
    <2>1. 1 \in 1..Len(bno_msgq) /\ Head(bno_msgq) = bno_msgq[1] /\ bno_msgq[1] \in Nat
          /\ cs_pc = "get" /\ uptime' = uptime
      BY <1>3 DEF ConsumerGets, TypeOK
    <2>2. \/ bno_msgq[1] + 0 + (1 - 1) * ControlTicks <= QueueLen * ControlTicks
          \/ uptime + 0 + (1 - 1) * ControlTicks <= (QueueLen - 1) * ControlTicks
      BY <2>1 DEF AgeInv, Rest
    <2>3. \/ bno_msgq[1] <= QueueLen * ControlTicks
          \/ uptime + ControlTicks <= QueueLen * ControlTicks
      BY <1>0, <2>1, <2>2
    <2>4. motor_age' = bno_msgq[1] /\ cs_pc' = "sleep" /\ cs_timer' = ControlTicks
      BY <1>3, <2>1 DEF ConsumerGets
    <2>5. QED
      BY <1>0, <2>1, <2>3, <2>4
  <1>4. CASE ConsumerTimesOut
    BY <1>4 DEF ConsumerTimesOut
  <1>5. CASE Tick
    <2>1. uptime' \in {uptime, uptime + 1} /\ motors' = motors
          /\ Held \in Nat /\ Held' = Held - 1
      BY <1>0, <1>5 DEF Tick, Until
    <2>2. motors = "sample" => motor_age' = motor_age + 1
      BY <1>5 DEF Tick
    <2> HIDE DEF Held
    <2>3. SUFFICES ASSUME motors' = "sample"
                   PROVE  motor_age' + Held' <= FailsafeTicks \/ uptime' + Held' <= BootTicks
      BY DEF Held
    <2>4. motor_age + Held + 0 <= FailsafeTicks \/ uptime + Held + 0 <= BootTicks
      BY <1>0, <2>1, <2>3
    <2>5. \/ (motor_age + 1) + (Held - 1) + 0 <= FailsafeTicks
          \/ uptime' + (Held - 1) + 0 <= BootTicks
      BY ONLY FailsafeFacts, <1>0, <2>1, <2>4, TickSum
    <2>6. motor_age' = motor_age + 1 /\ uptime' \in Nat
      BY <1>0, <2>1, <2>2, <2>3
    <2>7. QED
      BY ONLY FailsafeFacts, <1>0, <2>1, <2>5, <2>6
  <1>6. CASE UNCHANGED vars
    BY <1>6 DEF vars
  <1>7. QED
    BY <1>1, <1>2, <1>3, <1>4, <1>5, <1>6 DEF Next, ConsumerStep

LEMMA SilenceStep ==
  ASSUME TypeOK, SilenceInv, [Next]_vars
  PROVE  SilenceInv'
  <1> USE ConstantFacts, FailsafeFacts
  <1> USE DEF SilenceInv, TimeLeft, Rest, reader, consumer, ReaderSleeps, ConsumerSleeps
  <1>0. /\ bno_msgq \in Seq(Nat) /\ Len(bno_msgq) <= QueueLen
        /\ cs_pc \in {"get", "sleep"} /\ cs_timer \in Nat
        /\ cs_timer <= IF cs_pc = "sleep" THEN ControlTicks ELSE TimeoutTicks
        /\ silence \in 0..(FailsafeTicks + 1)
    BY DEF TypeOK
  <1>1. CASE ReaderWakes \/ ReaderFails
    BY <1>1 DEF ReaderWakes, ReaderFails
  <1>2. CASE ReaderPuts
    <2>1. bno_msgq' \in Seq(Nat) /\ Len(bno_msgq') \in 1..QueueLen
      BY <1>0, <1>2 DEF ReaderPuts
    <2>2. Len(bno_msgq') * ControlTicks \in Nat
          /\ Len(bno_msgq') * ControlTicks <= QueueLen * ControlTicks
      BY <2>1, ProductFacts
    <2>3. silence' = 0 /\ cs_pc' = cs_pc /\ cs_timer' = cs_timer
      BY <1>2 DEF ReaderPuts
    <2>4. QED
      BY <1>0, <2>1, <2>2, <2>3
  <1>3. CASE ConsumerWakes
    BY <1>0, <1>3 DEF ConsumerWakes, ConsumerWakesWith
  <1>4. CASE ConsumerGets
    <2> DEFINE n == Len(bno_msgq)
    <2>1. n \in Nat /\ n >= 1 /\ Len(bno_msgq') = n - 1 /\ bno_msgq' \in Seq(Nat)
      BY <1>0, <1>4 DEF ConsumerGets
    <2>2. silence + (n * ControlTicks + TimeoutTicks) <= FailsafeTicks
      BY <1>0, <1>4 DEF ConsumerGets
    <2>3. n * ControlTicks = (n - 1) * ControlTicks + ControlTicks
          /\ (n - 1) * ControlTicks \in Nat
      BY <2>1, n - 1 \in Nat, ProductFacts
    <2>4. silence' = silence /\ cs_pc' = "sleep" /\ cs_timer' = ControlTicks
      BY <1>4 DEF ConsumerGets
    <2>5. TimeLeft' = ControlTicks + (n - 1) * ControlTicks + TimeoutTicks
      BY <2>1, <2>4
    <2> HIDE DEF n, TimeLeft
    <2>6. QED
      BY <1>0, <2>1, <2>2, <2>3, <2>4, <2>5
  <1>5. CASE ConsumerTimesOut
    BY <1>5 DEF ConsumerTimesOut
  <1>6. CASE Tick
    <2>1. Len(bno_msgq') = Len(bno_msgq) /\ (bno_msgq' = <<>> <=> bno_msgq = <<>>)
      BY <1>0, <1>6 DEF Tick, Older
    <2>2. Len(bno_msgq) * ControlTicks \in Nat
      BY <1>0, ProductFacts
    <2>3. cs_timer > 0 /\ TimeLeft \in Nat /\ TimeLeft' = TimeLeft - 1
      <3>1. cs_timer > 0 /\ cs_timer' = cs_timer - 1 /\ cs_pc' = cs_pc
            /\ (cs_pc = "get" => bno_msgq = <<>>)
        BY <1>6 DEF Tick
      <3>2. CASE cs_pc = "get"
        BY <1>0, <2>1, <3>1, <3>2
      <3>3. CASE cs_pc = "sleep"
        <4>1. TimeLeft = cs_timer + Len(bno_msgq) * ControlTicks + TimeoutTicks
          BY <3>3
        <4>2. TimeLeft' = (cs_timer - 1) + Len(bno_msgq) * ControlTicks + TimeoutTicks
          BY <2>1, <3>1, <3>3
        <4> HIDE DEF TimeLeft
        <4>3. QED
          BY <1>0, <2>2, <3>1, <4>1, <4>2
      <3>4. QED
        BY <1>0, <3>2, <3>3, <3>1
    <2>4. silence' \in {silence, silence + 1} /\ motors' = motors
      BY <1>6 DEF Tick, Until
    <2>5. motors' # "failsafe" \/ bno_msgq' # <<>> => silence + TimeLeft <= FailsafeTicks
      BY <2>1, <2>4
    <2>6. silence + TimeLeft <= FailsafeTicks => silence' + TimeLeft' <= FailsafeTicks
      <3>1. silence \in Nat /\ FailsafeTicks \in Nat
        BY <1>0
      <3>2. CASE silence' = silence
        BY <2>3, <3>1, <3>2
      <3>3. CASE silence' = silence + 1
        BY <2>3, <3>1, <3>3
      <3>4. QED
        BY <2>4, <3>2, <3>3
    <2>7. QED
      BY <2>5, <2>6
  <1>7. CASE UNCHANGED vars
    BY <1>7 DEF vars
  <1>8. QED
    BY <1>1, <1>2, <1>3, <1>4, <1>5, <1>6, <1>7 DEF Next, ReaderStep, ConsumerStep

LEMMA FreshStep ==
  ASSUME TypeOK, FreshInv, [Next]_vars
  PROVE  FreshInv'
  <1> USE ConstantFacts
  <1> USE DEF FreshInv, Rest, reader, consumer, ReaderSleeps, ConsumerSleeps
  <1>0. /\ bno_msgq \in Seq(Nat)
        /\ cs_pc \in {"get", "sleep"} /\ cs_timer \in Nat
        /\ cs_pc = "sleep" => cs_timer <= ControlTicks
    BY DEF TypeOK
  <1>1. CASE ReaderWakes \/ ReaderFails
    BY <1>1 DEF ReaderWakes, ReaderFails
  <1>2. CASE ReaderPuts
    <2>1. ASSUME motors' = "failsafe", NEW i \in 1..Len(bno_msgq')
          PROVE  bno_msgq'[i] + Rest' <= ControlTicks
      <3>1. motors = "failsafe" /\ Rest' = Rest /\ Rest \in Nat /\ Rest <= ControlTicks
        BY <1>0, <1>2, <2>1 DEF ReaderPuts
      <3>2. bno_msgq'[i] = 0 \/ (i \in 1..Len(bno_msgq) /\ bno_msgq'[i] = bno_msgq[i])
        BY <1>0, <1>2 DEF ReaderPuts
      <3>3. QED
        BY <3>1, <3>2
    <2>2. QED
      BY <2>1
  <1>3. CASE ConsumerWakes
    BY <1>0, <1>3 DEF ConsumerWakes, ConsumerWakesWith
  <1>4. CASE ConsumerGets
    BY <1>4 DEF ConsumerGets
  <1>5. CASE ConsumerTimesOut
    BY <1>5 DEF ConsumerTimesOut
  <1>6. CASE Tick
    <2>1. ASSUME motors' = "failsafe", NEW i \in 1..Len(bno_msgq')
          PROVE  bno_msgq'[i] + Rest' <= ControlTicks
      <3>1. motors = "failsafe" /\ i \in 1..Len(bno_msgq) /\ bno_msgq'[i] = bno_msgq[i] + 1
            /\ bno_msgq[i] \in Nat
        BY <1>0, <1>6, <2>1 DEF Tick, Older
      <3>2. cs_pc = "sleep" /\ Rest' = Rest - 1 /\ Rest \in Nat
        BY <1>0, <1>6, <3>1 DEF Tick
      <3>3. bno_msgq[i] + Rest <= ControlTicks
        BY <3>1
      <3> HIDE DEF Rest
      <3>4. QED
        BY <3>1, <3>2, <3>3
    <2>2. QED
      BY <2>1
  <1>7. CASE UNCHANGED vars
    BY <1>7 DEF vars
  <1>8. QED
    BY <1>1, <1>2, <1>3, <1>4, <1>5, <1>6, <1>7 DEF Next, ReaderStep, ConsumerStep

LEMMA LossStep ==
  ASSUME TypeOK, LossInv, [Next]_vars
  PROVE  LossInv' /\ (ConsumerTimesOut => lost = Losses)
  <1> USE ConstantFacts
  <1> DEFINE round == PollTicks + FetchTicks
  <1>0. /\ bno_msgq \in Seq(Nat) /\ Len(bno_msgq) <= QueueLen
        /\ rd_pc \in {"sleep", "fetch"} /\ rd_timer \in Nat
        /\ rd_timer <= IF rd_pc = "sleep" THEN PollTicks ELSE FetchTicks
        /\ cs_pc \in {"get", "sleep"} /\ cs_timer \in Nat
        /\ cs_timer <= IF cs_pc = "sleep" THEN ControlTicks ELSE TimeoutTicks
        /\ lost \in 0..Losses
    BY DEF TypeOK
  <1>p. round \in Nat /\ lost * round \in Nat /\ (lost + 1) * round = lost * round + round
    BY <1>0, ProductFacts
  <1>t. ConsumerTimesOut => lost = Losses
    <2> SUFFICES ASSUME ConsumerTimesOut, lost # Losses PROVE FALSE
      OBVIOUS
    <2>1. ControlTicks + TimeoutTicks <= SinceSample
      BY <1>0 DEF ConsumerTimesOut, LossInv, SinceTaken
    <2>2. SinceSample <= lost * round + round
      BY <1>0, <1>p DEF SinceSample
    <2>3. lost + 1 \in Nat /\ lost + 1 <= Losses
      BY <1>0
    <2>4. (lost + 1) * round <= Losses * round
      BY <1>p, <2>3, ProductFacts
    <2>5. SinceSample \in Int /\ Losses * round \in Nat
      BY <1>0, <1>p, ProductFacts DEF SinceSample
    <2>6. Losses * round < ControlTicks + TimeoutTicks
      OBVIOUS
    <2> HIDE DEF round
    <2>7. QED
      BY <1>p, <2>1, <2>2, <2>4, <2>5, <2>6
  <1> SUFFICES LossInv'
    BY <1>t
  <1> USE DEF LossInv, SinceTaken, reader, consumer, ReaderSleeps, ConsumerSleeps
  <1>1. CASE ReaderWakes
    BY <1>0, <1>p, <1>1 DEF ReaderWakes, SinceSample
  <1>2. CASE ReaderPuts
    BY <1>0, <1>2 DEF ReaderPuts
  <1>3. CASE ReaderFails
    <2> SUFFICES ASSUME bno_msgq' = <<>>, lost' < Losses PROVE (SinceTaken <= SinceSample)'
      OBVIOUS
    <2>1. lost' = lost + 1 /\ lost < Losses
      BY <1>0, <1>3 DEF ReaderFails, Until
    <2>2. SinceTaken' = SinceTaken /\ SinceTaken <= SinceSample /\ SinceTaken \in Int
      BY <1>0, <1>3, <2>1 DEF ReaderFails
    <2>3. SinceSample' = lost * round + round
      BY <1>3, <1>p, <2>1 DEF ReaderFails, SinceSample
    <2>4. SinceSample <= lost * round + round /\ SinceSample \in Int
      BY <1>0, <1>p DEF SinceSample
    <2> HIDE DEF round, SinceTaken
    <2>5. QED
      BY <1>p, <2>2, <2>3, <2>4
  <1>4. CASE ConsumerWakes
    BY <1>0, <1>4 DEF ConsumerWakes, ConsumerWakesWith, SinceSample
  <1>5. CASE ConsumerGets
    <2>1. SinceTaken' = 0 /\ SinceSample' = SinceSample
      BY <1>5 DEF ConsumerGets, SinceSample
    <2>2. SinceSample >= 0
      BY <1>0, <1>p DEF SinceSample
    <2>3. QED
      BY <2>1, <2>2
  <1>6. CASE ConsumerTimesOut
    BY <1>0, <1>t, <1>6 DEF ConsumerTimesOut
  <1>7. CASE Tick
    <2> SUFFICES ASSUME bno_msgq' = <<>>, lost' < Losses PROVE (SinceTaken <= SinceSample)'
      OBVIOUS
    <2>1. bno_msgq = <<>>
      BY <1>0, <1>7 DEF Tick, Older
    <2>2. lost' = lost /\ ~(rd_pc = "fetch" /\ rd_timer = FetchTicks)
      BY <1>7 DEF Tick
    <2>3. SinceTaken' = SinceTaken + 1 /\ SinceTaken \in Int
      BY <1>0, <1>7 DEF Tick
    <2>4. SinceSample' = SinceSample + 1 /\ SinceSample \in Int
      BY <1>0, <1>7, <1>p, <2>2 DEF Tick, SinceSample, Until
    <2>5. SinceTaken <= SinceSample
      BY <2>1, <2>2
    <2> HIDE DEF SinceTaken
    <2>6. QED
      BY <2>3, <2>4, <2>5
  <1>8. CASE UNCHANGED vars
    BY <1>8 DEF vars, SinceSample
  <1>9. QED
    BY <1>1, <1>2, <1>3, <1>4, <1>5, <1>6, <1>7, <1>8
    DEF Next, ReaderStep, ConsumerStep

--------------------------------------------------------------------------------
IInv == AgeInv /\ MotorInv /\ SilenceInv /\ FreshInv /\ LossInv

LEMMA IInvCorrect == Spec => []IInv
  <1>1. Init => IInv
    <2> SUFFICES ASSUME Init PROVE IInv
      OBVIOUS
    <2> USE ConstantFacts, FailsafeFacts
    <2>1. PICK n \in 0..QueueLen : bno_msgq \in [1..n -> BootAges]
      BY DEF Init
    <2>2. Len(bno_msgq) = n /\ uptime = 0 /\ cs_pc = "get" /\ cs_timer = TimeoutTicks /\ motors = "nothing"
      BY <2>1 DEF Init
    <2>3. AgeInv
      <3>1. ASSUME NEW i \in 1..n
            PROVE  0 + 0 + (i - 1) * ControlTicks <= (QueueLen - 1) * ControlTicks
        <4>1. i - 1 \in Nat /\ QueueLen - 1 \in Nat /\ i - 1 <= QueueLen - 1
          OBVIOUS
        <4>2. (i - 1) * ControlTicks \in Nat
              /\ (i - 1) * ControlTicks <= (QueueLen - 1) * ControlTicks
          BY <4>1, ProductFacts
        <4>3. QED
          BY <4>2
      <3>2. QED
        BY <2>1, <2>2, <3>1 DEF AgeInv, Rest
    <2>4. MotorInv /\ FreshInv
      BY <2>2 DEF MotorInv, FreshInv
    <2>5. SilenceInv
      <3>1. n * ControlTicks \in Nat /\ n * ControlTicks <= QueueLen * ControlTicks
        BY ProductFacts
      <3>2. QED
        BY <2>2, <3>1 DEF Init, SilenceInv, TimeLeft, Rest
    <2>6. LossInv
      BY DEF Init, LossInv
    <2>7. QED
      BY <2>3, <2>4, <2>5, <2>6 DEF IInv
  <1>2. TypeOK /\ IInv /\ [Next]_vars => IInv'
    BY AgeStep, MotorStep, SilenceStep, FreshStep, LossStep DEF IInv
  <1>3. QED
    BY <1>1, <1>2, AttitudeTypeCorrect, PTL DEF Spec

(***************************************************************************)
(* No sample is applied older than a full queue takes to serve, but those  *)
(* from before the loop started, and these are gone by a fixed time.       *)
(***************************************************************************)
THEOREM AgeCorrect == Spec => []AgeBounded
  <1>1. TypeOK /\ IInv => AgeBounded
    <2> SUFFICES ASSUME TypeOK, IInv PROVE AgeBounded
      OBVIOUS
    <2> USE ConstantFacts, FailsafeFacts
    <2>1. ASSUME NEW i \in DOMAIN bno_msgq
          PROVE  \/ bno_msgq[i] <= (QueueLen - i + 1) * ControlTicks
                 \/ uptime <= (QueueLen - i) * ControlTicks
      <3>1. i \in 1..Len(bno_msgq) /\ bno_msgq[i] \in Nat /\ i <= QueueLen
            /\ uptime \in Nat
        BY DEF TypeOK
      <3>2. \/ bno_msgq[i] + Rest + (i - 1) * ControlTicks <= QueueLen * ControlTicks
            \/ uptime + Rest + (i - 1) * ControlTicks <= (QueueLen - 1) * ControlTicks
        BY <3>1 DEF IInv, AgeInv
      <3>3. Rest \in Nat
        BY DEF Rest, TypeOK
      <3>4. (QueueLen - i + 1) * ControlTicks
              = QueueLen * ControlTicks - (i - 1) * ControlTicks
            /\ (QueueLen - i) * ControlTicks
              = (QueueLen - 1) * ControlTicks - (i - 1) * ControlTicks
            /\ (QueueLen - 1) * ControlTicks \in Int
        BY <3>1
      <3>5. (i - 1) * ControlTicks \in Nat
        BY <3>1, i - 1 \in Nat, ProductFacts
      <3> DEFINE k == (i - 1) * ControlTicks
      <3>6. \/ bno_msgq[i] <= QueueLen * ControlTicks - k
            \/ uptime <= (QueueLen - 1) * ControlTicks - k
        <4> k \in Nat /\ QueueLen * ControlTicks \in Int /\ (QueueLen - 1) * ControlTicks \in Int
          BY <3>4, <3>5
        <4> HIDE DEF k, Rest
        <4>1. \/ bno_msgq[i] + Rest + k <= QueueLen * ControlTicks
              \/ uptime + Rest + k <= (QueueLen - 1) * ControlTicks
          BY <3>2 DEF k
        <4>2. QED
          BY <3>1, <3>3, <4>1
      <3>7. QED
        BY <3>4, <3>6
    <2>2. motors = "sample" => motor_age <= FailsafeTicks \/ uptime <= BootTicks
      BY DEF IInv, MotorInv, Held, TypeOK
    <2>3. QED
      BY <2>1, <2>2 DEF AgeBounded
  <1>2. QED
    BY <1>1, AttitudeTypeCorrect, IInvCorrect, PTL

(***************************************************************************)
(* A silent sensor means the failsafe after a bounded time.                *)
(***************************************************************************)
THEOREM FailsafeCorrect == Spec => []FailsafeInTime
  <1>1. TypeOK /\ IInv => FailsafeInTime
    <2> SUFFICES ASSUME TypeOK, IInv, silence > FailsafeTicks, motors # "failsafe"
                 PROVE  FALSE
      BY DEF FailsafeInTime
    <2> USE ConstantFacts, FailsafeFacts
    <2>1. Len(bno_msgq) * ControlTicks \in Nat
      BY ProductFacts DEF TypeOK
    <2>2. TimeLeft \in Nat
      BY <2>1 DEF TimeLeft, Rest, TypeOK
    <2>3. QED
      BY <2>2 DEF IInv, SilenceInv, TypeOK
  <1>2. QED
    BY <1>1, AttitudeTypeCorrect, IInvCorrect, PTL

(***************************************************************************)
(* A failsafe is lifted by a sample from after it only.                    *)
(***************************************************************************)
THEOREM LiftedByFreshCorrect == Spec => []LiftedByFresh
  <1>1. TypeOK /\ IInv => LiftedByFresh
    <2> SUFFICES ASSUME TypeOK, IInv, motors = "failsafe", NEW i \in DOMAIN bno_msgq
                 PROVE  bno_msgq[i] <= ControlTicks
      BY DEF LiftedByFresh
    <2>1. i \in 1..Len(bno_msgq) /\ bno_msgq[i] \in Nat /\ Rest \in Nat
      BY DEF TypeOK, Rest
    <2>2. bno_msgq[i] + Rest <= ControlTicks
      BY <2>1 DEF IInv, FreshInv
    <2>3. QED
      BY <2>1, <2>2, ConstantFacts
  <1>2. QED
    BY <1>1, AttitudeTypeCorrect, IInvCorrect, PTL

(***************************************************************************)
(* No failsafe for fewer than Losses lost samples in a row.                *)
(***************************************************************************)
THEOREM FailsafeMeansLossCorrect == Spec => FailsafeMeansLoss
  <1>1. TypeOK /\ IInv /\ [Next]_vars => [ConsumerTimesOut => lost = Losses]_vars
    BY LossStep DEF IInv
  <1>2. QED
    BY <1>1, AttitudeTypeCorrect, IInvCorrect, PTL DEF Spec, FailsafeMeansLoss

================================================================================
