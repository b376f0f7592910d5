-------------------------- MODULE Bno055DriverProofs ---------------------------
(***************************************************************************)
(* Proofs, for every sequence of operations and any number of bus errors,  *)
(* of the safety properties of Bno055Driver.                               *)
(***************************************************************************)
EXTENDS Bno055Driver, TLAPS

LEMMA CallsFacts ==
  /\ Len(Calls) \in Nat /\ Len(Calls) >= 1
  /\ Calls[1] = "mode"
  BY CallsAssumption

(***************************************************************************)
(* What the steps of the other actors leave alone.                         *)
(***************************************************************************)
LEMMA ReaderEffect ==
  ASSUME ReaderStep
  PROVE  /\ UNCHANGED <<chip_mode, triggers, int_line, data_mode, mainThread, workItem, resets>>
         /\ chip_page' \in {0, chip_page}
         /\ faults' = faults \/ (faults < MaxFaults /\ faults' = faults + 1)
  BY DEF ReaderStep, ReaderWakes, ReaderPageRead, ReaderPageWrite, ReaderPageVerify,
         ReaderSwitch, ReaderFetchEul, ReaderFetchRest, ReaderPut, ReaderBusError,
         ReaderKeeps

LEMMA WorkEffect ==
  ASSUME WorkStep
  PROVE  /\ UNCHANGED <<driver, mainThread, reader, compromised>>
         /\ faults' = faults \/ (faults < MaxFaults /\ faults' = faults + 1)
         /\ \/ UNCHANGED <<chip, resets>>
            \/ work = "trig_write" /\ SysTrigger
  BY DEF WorkStep, WorkStatus, WorkTrigRead, WorkTrigWrite, WorkKeeps

(***************************************************************************)
(* The type invariant.                                                     *)
(***************************************************************************)
LEMMA MainChipType ==
  ASSUME TypeOK, MainStep
  PROVE  ChipType'
  <1>0. ChipType /\ MainType /\ Len(Calls) \in Nat
    BY CallsFacts DEF TypeOK
  <1> USE DEF MainGoto, CallDone, MainFail, Compromise, AllWell, MainKeeps, BodyDone,
             TargetPage, TargetMode, ModeRegister, ModeAfterWrite, TriggersAfterWrite,
             ModeCheckWith, ChipType, MainType, Modes, chip, driver
  <1>1. CASE BnoInit
    BY <1>0, <1>1 DEF BnoInit
  <1>2. CASE StartCall
    BY <1>0, <1>2 DEF StartCall
  <1>3. CASE BnoInitReturns
    BY <1>0, <1>3 DEF BnoInitReturns
  <1>4. CASE PageRead
    BY <1>0, <1>4 DEF PageRead
  <1>5. CASE PageWrite
    BY <1>0, <1>5 DEF PageWrite
  <1>6. CASE PageVerify
    BY <1>0, <1>6 DEF PageVerify
  <1>7. CASE ModeRead
    BY <1>0, <1>7 DEF ModeRead
  <1>8. CASE ModeClear
    BY <1>0, <1>8 DEF ModeClear
  <1>9. CASE Settled
    BY <1>0, <1>9 DEF Settled
  <1>10. CASE ModeCheck
    BY <1>0, <1>10 DEF ModeCheck
  <1>11. CASE ModeWrite
    BY <1>0, <1>11 DEF ModeWrite
  <1>12. CASE ModeSettled
    BY <1>0, <1>12 DEF ModeSettled
  <1>13. CASE ModeVerify
    BY <1>0, <1>13 DEF ModeVerify
  <1>14. CASE PowerRead
    BY <1>0, <1>14 DEF PowerRead
  <1>15. CASE AttrRead
    BY <1>0, <1>15 DEF AttrRead
  <1>16. CASE AttrWrite
    BY <1>0, <1>16 DEF AttrWrite
  <1>17. CASE AttrVerify
    BY <1>0, <1>17 DEF AttrVerify
  <1>18. CASE AxisRead
    BY <1>0, <1>18 DEF AxisRead
  <1>19. CASE AxisWrite
    BY <1>0, <1>19 DEF AxisWrite
  <1>20. CASE IntRead
    BY <1>0, <1>20 DEF IntRead
  <1>21. CASE IntWrite
    BY <1>0, <1>21 DEF IntWrite
  <1>22. CASE IntReread
    BY <1>0, <1>22 DEF IntReread
  <1>23. CASE MainBusError
    <2>1. UNCHANGED data_mode
      BY <1>23 DEF MainBusError
    <2>2. chip_page' \in {0, 1} /\ chip_mode' \in Modes
      BY <1>0, <1>23 DEF MainBusError
    <2>3. triggers' \subseteq 1..Len(Calls)
      <3>1. triggers' = triggers \/ (main_pc = "int_write" /\ triggers' = TriggersAfterWrite)
        BY <1>23 DEF MainBusError
      <3>2. main_pc = "int_write" => call \in 1..Len(Calls)
        BY <1>0
      <3>3. triggers \subseteq 1..Len(Calls)
        BY <1>0
      <3>4. QED
        BY <3>1, <3>2, <3>3
    <2>4. QED
      BY <1>0, <2>1, <2>2, <2>3
  <1>24. QED
    BY <1>1, <1>2, <1>3, <1>4, <1>5, <1>6, <1>7, <1>8, <1>9, <1>10, <1>11, <1>12, <1>13, <1>14, <1>15, <1>16, <1>17, <1>18, <1>19, <1>20, <1>21, <1>22, <1>23 DEF MainStep

LEMMA MainMainType ==
  ASSUME TypeOK, MainStep
  PROVE  MainType'
  <1>0. ChipType /\ MainType /\ Len(Calls) \in Nat /\ Len(Calls) >= 1
    BY CallsFacts DEF TypeOK
  <1> USE DEF MainGoto, CallDone, MainFail, Compromise, BodyDone, AfterPage, TargetMode,
             ModeRegister, ModeCheckWith, MainPlaces, MainTransactions, ChipType, MainType,
             Modes
  <1>1. CASE BnoInit
    BY <1>0, <1>1 DEF BnoInit
  <1>2. CASE StartCall
    BY <1>0, <1>2 DEF StartCall
  <1>3. CASE BnoInitReturns
    BY <1>0, <1>3 DEF BnoInitReturns
  <1>4. CASE PageRead
    BY <1>0, <1>4 DEF PageRead
  <1>5. CASE PageWrite
    BY <1>0, <1>5 DEF PageWrite
  <1>6. CASE PageVerify
    BY <1>0, <1>6 DEF PageVerify
  <1>7. CASE ModeRead
    BY <1>0, <1>7 DEF ModeRead
  <1>8. CASE ModeClear
    BY <1>0, <1>8 DEF ModeClear
  <1>9. CASE Settled
    BY <1>0, <1>9 DEF Settled
  <1>10. CASE ModeCheck
    BY <1>0, <1>10 DEF ModeCheck
  <1>11. CASE ModeWrite
    BY <1>0, <1>11 DEF ModeWrite
  <1>12. CASE ModeSettled
    BY <1>0, <1>12 DEF ModeSettled
  <1>13. CASE ModeVerify
    BY <1>0, <1>13 DEF ModeVerify
  <1>14. CASE PowerRead
    BY <1>0, <1>14 DEF PowerRead
  <1>15. CASE AttrRead
    BY <1>0, <1>15 DEF AttrRead
  <1>16. CASE AttrWrite
    BY <1>0, <1>16 DEF AttrWrite
  <1>17. CASE AttrVerify
    BY <1>0, <1>17 DEF AttrVerify
  <1>18. CASE AxisRead
    BY <1>0, <1>18 DEF AxisRead
  <1>19. CASE AxisWrite
    BY <1>0, <1>19 DEF AxisWrite
  <1>20. CASE IntRead
    BY <1>0, <1>20 DEF IntRead
  <1>21. CASE IntWrite
    BY <1>0, <1>21 DEF IntWrite
  <1>22. CASE IntReread
    BY <1>0, <1>22 DEF IntReread
  <1>23. CASE MainBusError
    BY <1>0, <1>23 DEF MainBusError
  <1>24. QED
    BY <1>1, <1>2, <1>3, <1>4, <1>5, <1>6, <1>7, <1>8, <1>9, <1>10, <1>11, <1>12, <1>13, <1>14, <1>15, <1>16, <1>17, <1>18, <1>19, <1>20, <1>21, <1>22, <1>23 DEF MainStep

LEMMA MainOtherTypes ==
  ASSUME TypeOK, MainStep
  PROVE  ReaderType' /\ WorkType' /\ FlagType'
  <1>1. UNCHANGED <<rd_pc, begun, work, work_reset, eul, int_line, resets>>
    BY DEF MainStep, BnoInit, StartCall, BnoInitReturns, PageRead, PageWrite, PageVerify,
           ModeRead, ModeClear, Settled, ModeCheck, ModeCheckWith, ModeWrite, ModeSettled,
           ModeVerify, PowerRead, AttrRead, AttrWrite, AttrVerify, AxisRead, AxisWrite,
           IntRead, IntWrite, IntReread, MainBusError, MainKeeps, reader
  <1>2. faults' = faults \/ (faults < MaxFaults /\ faults' = faults + 1)
    BY DEF MainStep, BnoInit, StartCall, BnoInitReturns, PageRead, PageWrite, PageVerify,
           ModeRead, ModeClear, Settled, ModeCheck, ModeCheckWith, ModeWrite, ModeSettled,
           ModeVerify, PowerRead, AttrRead, AttrWrite, AttrVerify, AxisRead, AxisWrite,
           IntRead, IntWrite, IntReread, MainBusError, AllWell, Compromise
  <1>3. bno_dev' \in {bno_dev, TRUE} /\ compromised' \in {compromised, TRUE}
    BY DEF MainStep, BnoInit, StartCall, BnoInitReturns, PageRead, PageWrite, PageVerify,
           ModeRead, ModeClear, Settled, ModeCheck, ModeCheckWith, ModeWrite, ModeSettled,
           ModeVerify, PowerRead, AttrRead, AttrWrite, AttrVerify, AxisRead, AxisWrite,
           IntRead, IntWrite, IntReread, MainBusError, AllWell, Compromise, MainGoto,
           MainFail, CallDone, BodyDone
  <1>4. ReaderType' /\ WorkType'
    BY <1>1, <1>2, FaultAssumption DEF TypeOK, ReaderType, WorkType
  <1>5. FlagType'
    BY <1>1, <1>3 DEF TypeOK, FlagType
  <1>6. QED
    BY <1>4, <1>5

THEOREM DriverTypeCorrect == Spec => []TypeOK
  <1>1. Init => TypeOK
    <2> SUFFICES ASSUME Init PROVE TypeOK
      OBVIOUS
    <2>1. ChipType /\ MainType
      BY CallsFacts DEF Init, ChipType, MainType, Modes, MainPlaces
    <2>2. ReaderType /\ WorkType
      BY FaultAssumption DEF Init, ReaderType, WorkType, ReaderPlaces
    <2>3. FlagType
      BY DEF Init, FlagType
    <2>4. QED
      BY <2>1, <2>2, <2>3 DEF TypeOK
  <1>2. TypeOK /\ [Next]_vars => TypeOK'
    <2> SUFFICES ASSUME TypeOK, [Next]_vars PROVE TypeOK'
      OBVIOUS
    <2>1. CASE MainStep
      BY <2>1, MainChipType, MainMainType, MainOtherTypes DEF TypeOK
    <2>2. CASE ReaderStep
      <3>1. ChipType' /\ MainType' /\ WorkType'
        <4>1. ChipType'
          BY <2>2, ReaderEffect DEF TypeOK, ChipType
        <4>2. MainType'
          BY <2>2, ReaderEffect DEF TypeOK, MainType, mainThread, position
        <4>3. WorkType'
          BY <2>2, ReaderEffect, FaultAssumption DEF TypeOK, WorkType, workItem
        <4>4. QED
          BY <4>1, <4>2, <4>3
      <3>2. ReaderType'
        BY <2>2 DEF ReaderStep, ReaderWakes, ReaderPageRead, ReaderPageWrite,
             ReaderPageVerify, ReaderSwitch, ReaderFetchEul, ReaderFetchRest, ReaderPut,
             ReaderBusError, ReaderGoto, ReaderType, ReaderPlaces, TypeOK, reader
      <3>3. begun' \in {begun, TRUE, FALSE} /\ compromised' \in {compromised, TRUE}
        BY <2>2 DEF ReaderStep, ReaderWakes, ReaderPageRead, ReaderPageWrite,
             ReaderPageVerify, ReaderSwitch, ReaderFetchEul, ReaderFetchRest, ReaderPut,
             ReaderBusError, ReaderGoto, reader
      <3>4. UNCHANGED <<bno_dev, int_line, work_reset>>
        BY <2>2, ReaderEffect DEF mainThread, workItem
      <3>5. QED
        BY <3>1, <3>2, <3>3, <3>4 DEF TypeOK, FlagType
    <2>3. CASE ChipInterrupt
      BY <2>3 DEF ChipInterrupt, WorkKeeps, TypeOK, ChipType, MainType, ReaderType, WorkType,
           FlagType, driver, mainThread, position, reader
    <2>4. CASE WorkStep
      <3>1. ChipType' /\ MainType' /\ ReaderType'
        BY <2>4, WorkEffect
        DEF SysTrigger, TypeOK, ChipType, MainType, ReaderType, Modes, chip, driver,
            mainThread, position, reader
      <3>2. WorkType'
        <4>1. work' \in {"idle", "status", "trig_read", "trig_write"}
          BY <2>4 DEF WorkStep, WorkStatus, WorkTrigRead, WorkTrigWrite
        <4>2. resets' = resets \/ resets' = resets + 1
          BY <2>4, WorkEffect DEF SysTrigger
        <4>3. QED
          BY <2>4, <4>1, <4>2, WorkEffect, FaultAssumption DEF TypeOK, WorkType
      <3>3. work_reset' \in BOOLEAN
        BY <2>4 DEF WorkStep, WorkStatus, WorkTrigRead, WorkTrigWrite, TypeOK, FlagType
      <3>4. int_line' \in {int_line, FALSE} /\ UNCHANGED <<bno_dev, begun, compromised>>
        BY <2>4, WorkEffect DEF SysTrigger, chip, mainThread, reader
      <3>5. QED
        BY <3>1, <3>2, <3>3, <3>4 DEF TypeOK, FlagType
    <2>5. CASE UNCHANGED vars
      BY <2>5 DEF TypeOK, ChipType, MainType, ReaderType, WorkType, FlagType, vars, chip,
           driver, mainThread, position, reader, workItem, history
    <2>6. QED
      BY <2>1, <2>2, <2>3, <2>4, <2>5 DEF Next
  <1>3. QED
    BY <1>1, <1>2, PTL DEF Spec

(***************************************************************************)
(* Who may see page 1.  Only the registers of an operation, between its    *)
(* two mode changes; the chip is in CONFIG mode then, and the work item is *)
(* idle, for it was when main() woke from the settling sleep and the chip  *)
(* has not been able to interrupt since.                                   *)
(***************************************************************************)
BodyPlaces ==
  {"page_read", "page_write", "page_verify", "attr_read", "attr_write", "attr_verify",
   "axis_read", "axis_write", "int_read", "int_write", "int_reread"}

OnPageOne ==
  \/ init_rc = "error"
  \/ phase = "body" /\ main_pc \in BodyPlaces
  \/ phase = "leave" /\ main_pc \in {"page_read", "page_write"}

PageInv ==
  /\ chip_page = 1 => chip_mode = "CONFIG" /\ work = "idle" /\ OnPageOne
  /\ phase = "body" /\ main_pc \in BodyPlaces => chip_mode = "CONFIG"
  /\ work # "idle" /\ chip_mode = "CONFIG" => main_pc \in {"settle", "returned"}
  /\ main_pc \in {"mode_write", "mode_settle", "mode_verify"} => TargetMode # "CONFIG"

LEMMA MainKeepsPageInv ==
  ASSUME TypeOK, PageInv, MainStep
  PROVE  PageInv'
  <1>0. ChipType /\ MainType /\ PageInv
    BY DEF TypeOK
  <1> USE DEF MainGoto, CallDone, MainFail, Compromise, AllWell, MainKeeps, BodyDone,
              AfterPage, TargetPage, TargetMode, ModeRegister, ModeAfterWrite,
              ModeCheckWith, ChipType, MainType, Modes, MainTransactions, PageInv,
              BodyPlaces, OnPageOne, chip, driver
  <1>1. CASE BnoInit
    BY <1>0, <1>1 DEF BnoInit
  <1>2. CASE StartCall
    BY <1>0, <1>2 DEF StartCall
  <1>3. CASE BnoInitReturns
    BY <1>0, <1>3 DEF BnoInitReturns
  <1>4. CASE PageRead
    BY <1>0, <1>4 DEF PageRead
  <1>5. CASE PageWrite
    BY <1>0, <1>5 DEF PageWrite
  <1>6. CASE PageVerify
    BY <1>0, <1>6 DEF PageVerify
  <1>7. CASE ModeRead
    BY <1>0, <1>7 DEF ModeRead
  <1>8. CASE ModeClear
    BY <1>0, <1>8 DEF ModeClear
  <1>9. CASE Settled
    BY <1>0, <1>9 DEF Settled
  <1>10. CASE ModeCheck
    BY <1>0, <1>10 DEF ModeCheck
  <1>11. CASE ModeWrite
    BY <1>0, <1>11 DEF ModeWrite
  <1>12. CASE ModeSettled
    BY <1>0, <1>12 DEF ModeSettled
  <1>13. CASE ModeVerify
    BY <1>0, <1>13 DEF ModeVerify
  <1>14. CASE PowerRead
    BY <1>0, <1>14 DEF PowerRead
  <1>15. CASE AttrRead
    BY <1>0, <1>15 DEF AttrRead
  <1>16. CASE AttrWrite
    BY <1>0, <1>16 DEF AttrWrite
  <1>17. CASE AttrVerify
    BY <1>0, <1>17 DEF AttrVerify
  <1>18. CASE AxisRead
    BY <1>0, <1>18 DEF AxisRead
  <1>19. CASE AxisWrite
    BY <1>0, <1>19 DEF AxisWrite
  <1>20. CASE IntRead
    BY <1>0, <1>20 DEF IntRead
  <1>21. CASE IntWrite
    BY <1>0, <1>21 DEF IntWrite
  <1>22. CASE IntReread
    BY <1>0, <1>22 DEF IntReread
  <1>23. CASE MainBusError
    BY <1>0, <1>23 DEF MainBusError
  <1>24. QED
    BY <1>1, <1>2, <1>3, <1>4, <1>5, <1>6, <1>7, <1>8, <1>9, <1>10, <1>11, <1>12, <1>13, <1>14, <1>15, <1>16, <1>17, <1>18, <1>19, <1>20, <1>21, <1>22, <1>23 DEF MainStep

LEMMA PageInvariant == Spec => []PageInv
  <1>1. Init => PageInv
    BY DEF Init, PageInv, BodyPlaces, TargetMode
  <1>2. TypeOK /\ PageInv /\ [Next]_vars => PageInv'
    <2> SUFFICES ASSUME TypeOK, PageInv, [Next]_vars PROVE PageInv'
      OBVIOUS
    <2>1. CASE MainStep
      BY <2>1, MainKeepsPageInv
    <2>2. CASE ReaderStep
      BY <2>2, ReaderEffect DEF PageInv, TargetMode, OnPageOne, mainThread, position, workItem
    <2>3. CASE ChipInterrupt
      BY <2>3 DEF ChipInterrupt, WorkKeeps, PageInv, TargetMode, OnPageOne, mainThread, position
    <2>4. CASE WorkStep
      <3>1. work # "idle"
        BY <2>4 DEF WorkStep, WorkStatus, WorkTrigRead, WorkTrigWrite
      <3>2. CASE UNCHANGED <<chip, resets>>
        <4>1. chip_page # 1
          BY <3>1 DEF PageInv
        <4>2. QED
          BY <3>1, <3>2, <4>1, <2>4, WorkEffect
          DEF PageInv, TargetMode, chip, mainThread, position
      <3>3. CASE work = "trig_write" /\ SysTrigger
        <4>1. work' = "idle"
          BY <2>4, <3>3 DEF WorkStep, WorkStatus, WorkTrigRead, WorkTrigWrite
        <4>2. QED
          BY <3>1, <3>3, <4>1, <2>4, WorkEffect
          DEF PageInv, TargetMode, SysTrigger, mainThread, position
      <3>4. QED
        BY <2>4, <3>2, <3>3, WorkEffect
    <2>5. CASE UNCHANGED vars
      BY <2>5 DEF PageInv, TargetMode, OnPageOne, vars, chip, mainThread, position, workItem
    <2>6. QED
      BY <2>1, <2>2, <2>3, <2>4, <2>5 DEF Next
  <1>3. QED
    BY <1>1, <1>2, DriverTypeCorrect, PTL DEF Spec

(***************************************************************************)
(* Page 1 is selected only in CONFIG mode.                                 *)
(***************************************************************************)
THEOREM PageOneCorrect == Spec => []PageOneOnlyInConfig
  <1>1. PageInv => PageOneOnlyInConfig
    BY DEF PageInv, PageOneOnlyInConfig
  <1>2. QED
    BY <1>1, PageInvariant, PTL

(***************************************************************************)
(* What bno_init knows between two operations: the first puts the chip in  *)
(* NDOF, each later one saves that mode and restores it, and both leave    *)
(* only when the mode reads back on page 0.                                *)
(***************************************************************************)
NdofReached == data_mode = "NDOF" /\ (chip_mode = "NDOF" \/ resets > 0)

ConfigInv ==
  /\ main_pc = "start" => call = 1
  /\ main_pc = "call" /\ call > 1 => NdofReached
  /\ main_pc \notin {"start", "call", "returned"} => saved = "NDOF"
  /\ init_rc = "ok" => NdofReached

LEMMA MainKeepsConfigInv ==
  ASSUME TypeOK, PageInv, ConfigInv, MainStep
  PROVE  ConfigInv'
  <1>0. ChipType /\ MainType /\ PageInv /\ ConfigInv
        /\ Len(Calls) \in Nat /\ Len(Calls) >= 1 /\ Calls[1] = "mode"
    BY CallsFacts DEF TypeOK
  <1> USE DEF MainGoto, CallDone, MainFail, Compromise, AllWell, MainKeeps, BodyDone,
              AfterPage, TargetMode, ModeRegister, ModeAfterWrite, ModeCheckWith, Kind,
              ChipType, MainType, Modes, MainTransactions, PageInv, OnPageOne, ConfigInv,
              NdofReached, chip, driver
  <1>1. CASE BnoInit
    BY <1>0, <1>1 DEF BnoInit
  <1>2. CASE StartCall
    BY <1>0, <1>2 DEF StartCall
  <1>3. CASE BnoInitReturns
    BY <1>0, <1>3 DEF BnoInitReturns
  <1>4. CASE PageRead
    BY <1>0, <1>4 DEF PageRead
  <1>5. CASE PageWrite
    BY <1>0, <1>5 DEF PageWrite
  <1>6. CASE PageVerify
    BY <1>0, <1>6 DEF PageVerify
  <1>7. CASE ModeRead
    BY <1>0, <1>7 DEF ModeRead
  <1>8. CASE ModeClear
    BY <1>0, <1>8 DEF ModeClear
  <1>9. CASE Settled
    BY <1>0, <1>9 DEF Settled
  <1>10. CASE ModeCheck
    BY <1>0, <1>10 DEF ModeCheck
  <1>11. CASE ModeWrite
    BY <1>0, <1>11 DEF ModeWrite
  <1>12. CASE ModeSettled
    BY <1>0, <1>12 DEF ModeSettled
  <1>13. CASE ModeVerify
    BY <1>0, <1>13 DEF ModeVerify
  <1>14. CASE PowerRead
    BY <1>0, <1>14 DEF PowerRead
  <1>15. CASE AttrRead
    BY <1>0, <1>15 DEF AttrRead
  <1>16. CASE AttrWrite
    BY <1>0, <1>16 DEF AttrWrite
  <1>17. CASE AttrVerify
    BY <1>0, <1>17 DEF AttrVerify
  <1>18. CASE AxisRead
    BY <1>0, <1>18 DEF AxisRead
  <1>19. CASE AxisWrite
    BY <1>0, <1>19 DEF AxisWrite
  <1>20. CASE IntRead
    BY <1>0, <1>20 DEF IntRead
  <1>21. CASE IntWrite
    BY <1>0, <1>21 DEF IntWrite
  <1>22. CASE IntReread
    BY <1>0, <1>22 DEF IntReread
  <1>23. CASE MainBusError
    BY <1>0, <1>23 DEF MainBusError
  <1>24. QED
    BY <1>1, <1>2, <1>3, <1>4, <1>5, <1>6, <1>7, <1>8, <1>9, <1>10, <1>11, <1>12,
       <1>13, <1>14, <1>15, <1>16, <1>17, <1>18, <1>19, <1>20, <1>21, <1>22, <1>23 DEF MainStep

LEMMA ConfigInvariant == Spec => []ConfigInv
  <1>1. Init => ConfigInv
    BY DEF Init, ConfigInv
  <1>2. TypeOK /\ PageInv /\ ConfigInv /\ [Next]_vars => ConfigInv'
    <2> SUFFICES ASSUME TypeOK, PageInv, ConfigInv, [Next]_vars PROVE ConfigInv'
      OBVIOUS
    <2>1. CASE MainStep
      BY <2>1, MainKeepsConfigInv
    <2>2. CASE ReaderStep
      BY <2>2, ReaderEffect DEF ConfigInv, NdofReached, mainThread, position
    <2>3. CASE ChipInterrupt
      BY <2>3 DEF ChipInterrupt, WorkKeeps, ConfigInv, NdofReached, driver, mainThread, position
    <2>4. CASE WorkStep
      <3>1. UNCHANGED <<main_pc, call, saved, init_rc, data_mode>>
        BY <2>4, WorkEffect DEF driver, mainThread, position
      <3>2. UNCHANGED <<chip_mode, resets>> \/ resets' = resets + 1
        BY <2>4, WorkEffect DEF SysTrigger, chip
      <3>3. NdofReached => NdofReached'
        BY <3>1, <3>2 DEF NdofReached, TypeOK, WorkType
      <3>4. QED
        BY <3>1, <3>3 DEF ConfigInv
    <2>5. CASE UNCHANGED vars
      BY <2>5 DEF ConfigInv, NdofReached, vars, chip, driver, mainThread, position, history
    <2>6. QED
      BY <2>1, <2>2, <2>3, <2>4, <2>5 DEF Next
  <1>3. QED
    BY <1>1, <1>2, DriverTypeCorrect, PageInvariant, PTL DEF Spec

(***************************************************************************)
(* A bno_init that succeeds leaves the chip on page 0 in the mode it asked *)
(* for, until the work item resets it.                                     *)
(***************************************************************************)
THEOREM ConfigurationCorrect == Spec => []ConfiguredOnSuccess
  <1>1. TypeOK /\ PageInv /\ ConfigInv => ConfiguredOnSuccess
    BY DEF TypeOK, ChipType, MainType, WorkType, PageInv, OnPageOne, ConfigInv, NdofReached,
           BodyPlaces, ConfiguredOnSuccess
  <1>2. QED
    BY <1>1, DriverTypeCorrect, PageInvariant, ConfigInvariant, PTL

(***************************************************************************)
(* A high interrupt line has a work item that will lower it: the work item *)
(* meets page 0, so that without a bus error RST_INT reaches the chip.     *)
(***************************************************************************)
THEOREM InterruptCorrect == Spec => []InterruptNotStranded
  <1>1. Init => InterruptNotStranded
    BY DEF Init, InterruptNotStranded
  <1>2. TypeOK /\ PageInv /\ InterruptNotStranded /\ [Next]_vars => InterruptNotStranded'
    <2> SUFFICES ASSUME TypeOK, PageInv, InterruptNotStranded, [Next]_vars
                 PROVE  InterruptNotStranded'
      OBVIOUS
    <2>1. CASE MainStep
      <3>1. UNCHANGED <<work, int_line>>
        BY <2>1
        DEF MainStep, BnoInit, StartCall, BnoInitReturns, PageRead, PageWrite, PageVerify,
           ModeRead, ModeClear, Settled, ModeCheck, ModeCheckWith, ModeWrite, ModeSettled,
           ModeVerify, PowerRead, AttrRead, AttrWrite, AttrVerify, AxisRead, AxisWrite,
           IntRead, IntWrite, IntReread, MainBusError, MainKeeps
      <3>2. faults' = faults \/ faults' = faults + 1
        BY <2>1
        DEF MainStep, BnoInit, StartCall, BnoInitReturns, PageRead, PageWrite, PageVerify,
           ModeRead, ModeClear, Settled, ModeCheck, ModeCheckWith, ModeWrite, ModeSettled,
           ModeVerify, PowerRead, AttrRead, AttrWrite, AttrVerify, AxisRead, AxisWrite,
           IntRead, IntWrite, IntReread, MainBusError, AllWell, Compromise
      <3>3. faults' = 0 => faults = 0
        BY <3>2 DEF TypeOK, WorkType
      <3>4. QED
        BY <3>1, <3>3 DEF InterruptNotStranded
    <2>2. CASE ReaderStep
      <3>1. faults' = 0 => faults = 0
        BY <2>2, ReaderEffect DEF TypeOK, WorkType
      <3>2. QED
        BY <2>2, <3>1, ReaderEffect DEF InterruptNotStranded, workItem
    <2>3. CASE ChipInterrupt
      BY <2>3 DEF ChipInterrupt, InterruptNotStranded
    <2>4. CASE WorkStep
      <3>1. chip_page = 0
        BY <2>4 DEF WorkStep, WorkStatus, WorkTrigRead, WorkTrigWrite, PageInv, TypeOK,
                    ChipType
      <3>2. CASE WorkStatus \/ WorkTrigRead
        BY <3>2 DEF WorkStatus, WorkTrigRead, InterruptNotStranded
      <3>3. CASE WorkTrigWrite
        <4>1. faults' = 0 => faults' = faults
          BY <3>3 DEF WorkTrigWrite, TypeOK, WorkType
        <4>2. CASE faults' = faults
          <5>1. SysTrigger
            BY <3>1, <3>3, <4>2 DEF WorkTrigWrite, TypeOK, WorkType
          <5>2. QED
            BY <5>1 DEF SysTrigger, InterruptNotStranded
        <4>3. QED
          BY <4>1, <4>2 DEF InterruptNotStranded
      <3>4. QED
        BY <2>4, <3>2, <3>3 DEF WorkStep
    <2>5. CASE UNCHANGED vars
      BY <2>5 DEF InterruptNotStranded, vars, chip, workItem, history
    <2>6. QED
      BY <2>1, <2>2, <2>3, <2>4, <2>5 DEF Next
  <1>3. QED
    BY <1>1, <1>2, DriverTypeCorrect, PageInvariant, PTL DEF Spec

(***************************************************************************)
(* The rounds of the reader that begin after bno_init: page 0 is selected, *)
(* the mode is NDOF, so they read attitudes.                               *)
(***************************************************************************)
ReaderInv ==
  /\ begun => init_rc = "ok" /\ rd_pc \notin {"page_write", "page_verify"}
  /\ begun /\ resets = 0 /\ rd_pc \in {"fetch_rest", "put"} => eul = "attitude"

LEMMA ReaderInvariant == Spec => []ReaderInv
  <1>1. Init => ReaderInv
    BY DEF Init, ReaderInv
  <1>2. TypeOK /\ PageInv /\ ConfigInv /\ ReaderInv /\ [Next]_vars => ReaderInv'
    <2> SUFFICES ASSUME TypeOK, PageInv, ConfigInv, ReaderInv, [Next]_vars PROVE ReaderInv'
      OBVIOUS
    <2>1. CASE MainStep
      <3>1. main_pc # "returned"
        BY <2>1
        DEF MainStep, BnoInit, StartCall, BnoInitReturns, PageRead, PageWrite, PageVerify,
           ModeRead, ModeClear, Settled, ModeCheck, ModeCheckWith, ModeWrite, ModeSettled,
           ModeVerify, PowerRead, AttrRead, AttrWrite, AttrVerify, AxisRead, AxisWrite,
           IntRead, IntWrite, IntReread, MainBusError, MainTransactions
      <3>2. ~begun
        BY <3>1 DEF ReaderInv, TypeOK, MainType
      <3>3. UNCHANGED begun
        BY <2>1
        DEF MainStep, BnoInit, StartCall, BnoInitReturns, PageRead, PageWrite, PageVerify,
           ModeRead, ModeClear, Settled, ModeCheck, ModeCheckWith, ModeWrite, ModeSettled,
           ModeVerify, PowerRead, AttrRead, AttrWrite, AttrVerify, AxisRead, AxisWrite,
           IntRead, IntWrite, IntReread, MainBusError, MainKeeps, reader
      <3>4. QED
        BY <3>2, <3>3 DEF ReaderInv
    <2>2. CASE ReaderStep
      <3>0. UNCHANGED <<init_rc, resets>>
        BY <2>2, ReaderEffect DEF mainThread
      <3>1. init_rc = "ok" => chip_page = 0
        BY DEF TypeOK, MainType, ChipType, PageInv, OnPageOne, BodyPlaces
      <3>2. init_rc = "ok" /\ resets = 0 => data_mode = "NDOF" /\ chip_mode = "NDOF"
        BY DEF ConfigInv, NdofReached
      <3>3. CASE ReaderWakes
        BY <3>0, <3>3 DEF ReaderWakes, ReaderInv, reader
      <3>4. CASE ReaderPageRead \/ ReaderPageWrite \/ ReaderPageVerify
        BY <3>0, <3>1, <3>4
        DEF ReaderPageRead, ReaderPageWrite, ReaderPageVerify, ReaderGoto, ReaderInv
      <3>5. CASE ReaderSwitch
        BY <3>0, <3>2, <3>5 DEF ReaderSwitch, ReaderGoto, ReaderInv
      <3>6. CASE ReaderFetchEul
        BY <3>0, <3>1, <3>2, <3>6 DEF ReaderFetchEul, ReaderGoto, ReaderInv
      <3>7. CASE ReaderFetchRest \/ ReaderPut \/ ReaderBusError
        BY <3>0, <3>7 DEF ReaderFetchRest, ReaderPut, ReaderBusError, ReaderGoto, ReaderInv
      <3>8. QED
        BY <2>2, <3>3, <3>4, <3>5, <3>6, <3>7 DEF ReaderStep
    <2>3. CASE ChipInterrupt
      BY <2>3 DEF ChipInterrupt, WorkKeeps, ReaderInv, driver, mainThread, reader
    <2>4. CASE WorkStep
      <3>1. UNCHANGED <<begun, rd_pc, eul, init_rc>>
        BY <2>4, WorkEffect DEF driver, mainThread, reader
      <3>2. resets' = 0 => resets = 0
        <4>1. resets' = resets \/ resets' = resets + 1
          BY <2>4, WorkEffect DEF SysTrigger
        <4>2. QED
          BY <4>1 DEF TypeOK, WorkType
      <3>3. QED
        BY <3>1, <3>2 DEF ReaderInv
    <2>5. CASE UNCHANGED vars
      BY <2>5 DEF ReaderInv, vars, driver, mainThread, reader, history
    <2>6. QED
      BY <2>1, <2>2, <2>3, <2>4, <2>5 DEF Next
  <1>3. QED
    BY <1>1, <1>2, DriverTypeCorrect, PageInvariant, ConfigInvariant, PTL DEF Spec

(***************************************************************************)
(* Rounds that begin after a successful bno_init deliver attitudes.        *)
(***************************************************************************)
THEOREM SamplesCorrect == Spec => []SamplesGenuine
  <1>1. ReaderInv => SamplesGenuine
    BY DEF ReaderInv, SamplesGenuine, Delivers
  <1>2. QED
    BY <1>1, ReaderInvariant, PTL

================================================================================
