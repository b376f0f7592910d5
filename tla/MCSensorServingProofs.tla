------------------------- MODULE MCSensorServingProofs -------------------------
(***************************************************************************)
(* Proofs about the composition in MCSensorServing: each of its behaviours *)
(* is one of SensorServing and one of ImuTriple, whichever of the two it   *)
(* has drawn, so what is proved of either holds of it.                     *)
(***************************************************************************)
EXTENDS MCSensorServing, SensorServingProofs

TP ==
  INSTANCE ImuTripleProofs WITH
    imu_buf <- t_buf, writer_idx <- t_writer, pending_idx <- t_pending,
    reader_idx <- t_reader, copied <- t_copied, imu_current_reg <- t_reg, bus <- t_bus,
    written <- t_written, news <- t_news, ids <- t_ids, seen <- t_seen

mcVars == <<vars, tripleVars, bus>>

\* The actions of the triple buffer, under either name of the instance.
LEMMA SameActions ==
  ASSUME Triple!Next
  PROVE  TP!Next
  <1>1. Triple!UpdateCopy => TP!UpdateCopy
    BY DEF Triple!UpdateCopy, Triple!Group, Triple!indices, Triple!history,
       TP!UpdateCopy, TP!Group, TP!indices, TP!history
  <1>2. Triple!UpdatePublish => TP!UpdatePublish
    BY DEF Triple!UpdatePublish, Triple!Group, TP!UpdatePublish, TP!Group
  <1>3. Triple!WriteRequested => TP!WriteRequested
    BY DEF Triple!WriteRequested, Triple!indices, Triple!history,
       TP!WriteRequested, TP!indices, TP!history
  <1>4. ASSUME NEW val \in ImuRegs, Triple!WriteReceived(val)
        PROVE  TP!WriteReceived(val)
    BY <1>4 DEF Triple!WriteReceived, Triple!indices, Triple!history,
       TP!WriteReceived, TP!indices, TP!history
  <1>5. Triple!ReadRequested => TP!ReadRequested
    BY DEF Triple!ReadRequested, Triple!ServeByte, Triple!Group,
       TP!ReadRequested, TP!ServeByte, TP!Group
  <1>6. Triple!ReadProcessed => TP!ReadProcessed
    BY DEF Triple!ReadProcessed, Triple!ServeByte, Triple!Group, Triple!indices,
       TP!ReadProcessed, TP!ServeByte, TP!Group, TP!indices
  <1>7. Triple!Stop => TP!Stop
    BY DEF Triple!Stop, Triple!indices, TP!Stop, TP!indices
  <1>8. QED
    BY <1>1, <1>2, <1>3, <1>4, <1>5, <1>6, <1>7
       DEF Triple!Next, Triple!Callback, TP!Next, TP!Callback

LEMMA TripleIsComposed == MCSpec => TP!Spec
  <1>1. MCInit => TP!Init
    BY DEF MCInit, Triple!Init, TP!Init, Triple!Images, TP!Images, Triple!Group, TP!Group
  <1>2. [MCNext]_mcVars => [TP!Next]_(TP!vars)
    <2>1. UNCHANGED tripleVars => UNCHANGED TP!vars
      BY DEF tripleVars, TP!vars, TP!indices, TP!history
    <2>2. [MCNext]_mcVars => Triple!Next \/ UNCHANGED tripleVars
      BY DEF MCNext, Serving, mcVars
    <2>3. QED
      BY <2>1, <2>2, SameActions
  <1>3. QED
    BY <1>1, <1>2, PTL DEF MCSpec, TP!Spec, mcVars

(***************************************************************************)
(* A behaviour of the composition is one of the sensor emulation thread    *)
(* and the two emulators, so every theorem about these holds of it.        *)
(***************************************************************************)
THEOREM ServingIsComposed == MCSpec => Spec
  <1>1. MCInit => Init
    BY DEF MCInit
  <1>2. [MCNext]_mcVars => [Next]_vars
    BY DEF MCNext, Serving, mcVars
  <1>3. QED
    BY <1>1, <1>2, PTL DEF MCSpec, Spec, mcVars

(***************************************************************************)
(* No read of the triple buffer is torn, however long it lasts.            *)
(***************************************************************************)
THEOREM NeverTornComposed == MCSpec => []NeverTorn
  <1>1. Cells \in Nat
    BY ImuAssumption
  <1>2. TP!Spec => []TP!NeverTorn
    BY <1>1, TP!NeverTornCorrect
  <1>3. TP!NeverTorn => NeverTorn
    BY DEF NeverTorn, Triple!NeverTorn, TP!NeverTorn
  <1>4. QED
    BY <1>2, <1>3, TripleIsComposed, PTL

(***************************************************************************)
(* A read that begins after a publication shows the newest packet.         *)
(***************************************************************************)
THEOREM NewsIsServedComposed == MCSpec => NewsIsServed
  <1>1. Cells \in Nat \ {0}
    BY ImuAssumption
  <1>2. TP!Spec => TP!NewsIsServed
    BY <1>1, TP!NewsIsServedCorrect
  <1>3. TP!NewsIsServed => NewsIsServed
    <2>1. [t_bus # "reading" /\ t_bus' = "reading" /\ t_news => t_seen' = t_written]_(TP!vars)
            => [t_bus # "reading" /\ t_bus' = "reading" /\ t_news
                  => t_seen' = t_written]_(Triple!vars)
      BY DEF Triple!vars, Triple!indices, Triple!history, TP!vars, TP!indices, TP!history
    <2>2. QED
      BY <2>1, PTL DEF NewsIsServed, Triple!NewsIsServed, TP!NewsIsServed
  <1>4. QED
    BY <1>2, <1>3, TripleIsComposed, PTL
================================================================================
