------------------------------ MODULE Bno055Driver ------------------------------
(***************************************************************************)
(* The BNO055 of the device under test and those who talk to it, without a *)
(* lock between them (flight_controller/drivers/sensor/bno055/bno055.c and *)
(* flight_controller/app/src/bno.c): main() configuring it in bno_init(),  *)
(* bno_read_thread fetching samples since boot, and the work item of its   *)
(* interrupt line.                                                         *)
(*                                                                         *)
(* One I2C transaction is one step, as the bus driver serves one at a      *)
(* time.  The chip has two register pages and ignores writes to the        *)
(* read-only registers page 0 has where page 1 has settings.  Setting      *)
(* values, and the page, power and vectors the driver caches only for its  *)
(* log and for other applications, are left out.                           *)
(***************************************************************************)
EXTENDS Integers, Sequences

CONSTANTS
  Calls,     \* the register operations of bno_init, by kind
  MaxFaults  \* bound: transactions that fail

Attributes == {"attr"}
Triggers == {"drdy", "delta", "high_g"}
Kinds == {"mode", "power"} \union Attributes \union Triggers

ASSUME CallsAssumption ==
  /\ Calls \in Seq(Kinds)
  /\ Len(Calls) > 0
  /\ Calls[1] = "mode"
ASSUME FaultAssumption == MaxFaults \in Nat

\* bno_init: GYRO SLOPE_DUR and FEATURE_MASK are two operations each.
BnoInitCalls ==
  <<"mode", "power", "drdy", "attr", "attr", "delta", "attr", "attr", "high_g",
    "attr", "attr", "attr", "delta", "delta", "attr", "attr">>

VARIABLES
  chip_page, chip_mode, \* PAGE_ID and OPERATION_MODE of the chip
  triggers,             \* the calls whose interrupt the chip has enabled
  int_line,             \* the interrupt pin, high until RST_INT
  data_mode,            \* data->mode
  eul,                  \* data->eul, by what it was read from
  bno_dev,              \* bno_dev # NULL
  main_pc, call,        \* where bno_init is, and the operation it is at
  phase,                \* in the operation: before, in or after its own registers
  saved,                \* the local "mode"
  init_rc,              \* what bno_init has returned
  rd_pc,                \* where bno_read_thread is
  begun,                \* history: its round began after bno_init succeeded
  work,                 \* where bno055_work_cb is
  work_reset,           \* its local reg has the bit of RST_SYS set
  faults, resets,       \* history: failed transactions, resets of the chip
  compromised           \* history: an "I2C communication compromised" was reported

chip == <<chip_page, chip_mode, triggers, int_line>>
driver == <<data_mode, eul>>
position == <<main_pc, call, phase, saved>>
mainThread == <<position, init_rc, bno_dev>>
reader == <<rd_pc, begun>>
workItem == <<work, work_reset>>
history == <<faults, resets, compromised>>
vars == <<chip, driver, mainThread, reader, workItem, history>>

Modes == {"CONFIG", "NDOF"}  \* the two of the sixteen that bno.c uses

\* bno055_init has reset the chip, if it was successful.
Init ==
  /\ chip_page = 0 /\ chip_mode = "CONFIG" /\ triggers = {} /\ int_line = FALSE
  /\ data_mode = "CONFIG" /\ eul = "zero"
  /\ bno_dev = FALSE
  /\ main_pc = "start" /\ call = 1 /\ phase = "enter" /\ saved = "CONFIG"
  /\ init_rc = "running"
  /\ rd_pc = "sleep" /\ begun = FALSE
  /\ work = "idle" /\ work_reset = FALSE
  /\ faults = 0 /\ resets = 0 /\ compromised = FALSE

--------------------------------------------------------------------------------
(***************************************************************************)
(* bno_init.  An operation of main() is: bno055_set_config(CONFIG), its    *)
(* own registers, bno055_set_config(saved mode); and bno055_set_config     *)
(* begins with bno055_set_page(0).                                         *)
(***************************************************************************)
Kind == Calls[call]
TargetPage == IF phase = "body" THEN 1 ELSE 0
TargetMode == IF phase = "leave" THEN saved ELSE "CONFIG"

MainKeeps == UNCHANGED <<reader, work, work_reset, eul, int_line, resets>>

MainGoto(place) ==
  /\ main_pc' = place
  /\ UNCHANGED <<call, phase, saved, init_rc, bno_dev>>

\* Wrong variant, for a mutation run: one operation is skipped.
CallSkipsOne ==
  /\ main_pc' = "call"
  /\ call' = call + 2
  /\ UNCHANGED <<phase, saved, init_rc, bno_dev>>

CallDone ==
  /\ main_pc' = "call"
  /\ call' = call + 1
  /\ UNCHANGED <<phase, saved, init_rc, bno_dev>>

\* Return an error, all the way up to main().
MainFail ==
  /\ main_pc' = "returned"
  /\ init_rc' = "error"
  /\ UNCHANGED <<call, phase, saved, bno_dev>>

Compromise == compromised' = TRUE /\ UNCHANGED <<faults, chip_page, chip_mode, triggers>>
AllWell == UNCHANGED <<compromised, faults>>

(***************************************************************************)
(* Wrong variants, for mutation runs.                                      *)
(***************************************************************************)

\* The operation does not go to CONFIG mode for its registers.
CallWithoutConfig ==
  /\ main_pc = "call"
  /\ call <= Len(Calls)
  /\ phase' = IF Kind = "mode" THEN "leave" ELSE "body"
  /\ saved' = IF Kind = "mode" THEN "NDOF" ELSE data_mode
  /\ main_pc' = "page_read"
  /\ UNCHANGED <<call, init_rc, bno_dev, driver, chip, compromised, faults>>
  /\ MainKeeps

\* The second bno055_set_config is forgotten.
BodyForgetsMode == CallDone

--------------------------------------------------------------------------------
BnoInit ==
  /\ main_pc = "start"
  /\ \/ /\ bno_dev' = TRUE
        /\ main_pc' = "call"
        /\ UNCHANGED init_rc
     \/ /\ main_pc' = "returned"      \* !device_is_ready
        /\ init_rc' = "error"
        /\ UNCHANGED bno_dev
  /\ UNCHANGED <<call, phase, saved, driver, chip, compromised, faults>>
  /\ MainKeeps

StartCall ==
  /\ main_pc = "call"
  /\ call <= Len(Calls)
  /\ phase' = IF Kind = "mode" THEN "leave" ELSE "enter"
  /\ saved' = IF Kind = "mode" THEN "NDOF" ELSE data_mode
  /\ main_pc' = "page_read"
  /\ UNCHANGED <<call, init_rc, bno_dev, driver, chip, compromised, faults>>
  /\ MainKeeps

BnoInitReturns ==
  /\ main_pc = "call"
  /\ call > Len(Calls)
  /\ main_pc' = "returned"
  /\ init_rc' = "ok"
  /\ UNCHANGED <<call, phase, saved, bno_dev, driver, chip, compromised, faults>>
  /\ MainKeeps

\* bno055_set_page(TargetPage).
AfterPage ==
  IF phase # "body" THEN "mode_read"
  ELSE IF Kind \in Attributes THEN "attr_read"
  ELSE IF Kind = "drdy" THEN "int_read" ELSE "axis_read"

PageRead ==
  /\ main_pc = "page_read"
  /\ MainGoto(IF chip_page = TargetPage THEN AfterPage ELSE "page_write")
  /\ UNCHANGED <<chip_page, chip_mode, triggers, data_mode>>
  /\ AllWell /\ MainKeeps

PageWrite ==
  /\ main_pc = "page_write"
  /\ chip_page' = TargetPage
  /\ MainGoto("page_verify")
  /\ UNCHANGED <<chip_mode, triggers, data_mode>>
  /\ AllWell /\ MainKeeps

PageVerify ==
  /\ main_pc = "page_verify"
  /\ IF chip_page = TargetPage
       THEN MainGoto(AfterPage) /\ AllWell /\ UNCHANGED <<chip_page, chip_mode, triggers>>
       ELSE MainFail /\ Compromise
  /\ UNCHANGED data_mode
  /\ MainKeeps

\* bno055_set_config(TargetMode).  On page 1 its registers read as anything.
ModeRegister == IF chip_page = 0 THEN {chip_mode} ELSE Modes
ModeAfterWrite(mode) == IF chip_page = 0 THEN mode ELSE chip_mode

ModeRead ==
  /\ main_pc = "mode_read"
  /\ \E mode \in ModeRegister :
       /\ data_mode' = mode
       /\ MainGoto(IF mode = "CONFIG" THEN "mode_check" ELSE "mode_clear")
  /\ UNCHANGED <<chip_page, chip_mode, triggers>>
  /\ AllWell /\ MainKeeps

ModeClear ==
  /\ main_pc = "mode_clear"
  /\ chip_mode' = ModeAfterWrite("CONFIG")
  /\ MainGoto("settle")
  /\ UNCHANGED <<chip_page, triggers, data_mode>>
  /\ AllWell /\ MainKeeps

\* The sleep of 20 ms outlasts the work item, whose three transactions have
\* a higher priority; the chip raises no interrupt in CONFIG mode.
Settled ==
  /\ main_pc = "settle"
  /\ work = "idle"
  /\ MainGoto("mode_check")
  /\ UNCHANGED <<chip_page, chip_mode, triggers, data_mode>>
  /\ AllWell /\ MainKeeps

\* The parameter is what the operation keeps as the mode to go back to.
ModeCheckWith(keep) ==
  /\ main_pc = "mode_check"
  /\ \E mode \in ModeRegister :
       IF mode # "CONFIG"
         THEN MainFail /\ Compromise /\ UNCHANGED data_mode
         ELSE /\ data_mode' = "CONFIG"
              /\ IF TargetMode # "CONFIG" THEN MainGoto("mode_write")
                 ELSE IF phase = "leave" THEN CallDone
                 ELSE IF Kind = "power" THEN MainGoto("power_read")
                 ELSE /\ phase' = "body"
                      /\ saved' = keep
                      /\ main_pc' = "page_read"
                      /\ UNCHANGED <<call, init_rc, bno_dev>>
              /\ AllWell
              /\ UNCHANGED <<chip_page, chip_mode, triggers>>
  /\ MainKeeps

\* Wrong variant, for a mutation run: the mode is saved too late.
ModeCheckSavesLate == ModeCheckWith("CONFIG")

ModeCheck == ModeCheckWith(saved)

ModeWrite ==
  /\ main_pc = "mode_write"
  /\ chip_mode' = ModeAfterWrite(TargetMode)
  /\ MainGoto("mode_settle")
  /\ UNCHANGED <<chip_page, triggers, data_mode>>
  /\ AllWell /\ MainKeeps

ModeSettled ==
  /\ main_pc = "mode_settle"
  /\ MainGoto("mode_verify")
  /\ UNCHANGED <<chip_page, chip_mode, triggers, data_mode>>
  /\ AllWell /\ MainKeeps

ModeVerify ==
  /\ main_pc = "mode_verify"
  /\ \E mode \in ModeRegister :
       IF mode # TargetMode
         THEN MainFail /\ Compromise /\ UNCHANGED data_mode
         ELSE /\ data_mode' = mode
              /\ CallDone
              /\ AllWell
              /\ UNCHANGED <<chip_page, chip_mode, triggers>>
  /\ MainKeeps

\* The last register of an operation is done: back to the saved mode.
BodyDone ==
  /\ phase' = "leave"
  /\ main_pc' = "page_read"
  /\ UNCHANGED <<call, saved, init_rc, bno_dev>>

\* bno055_set_power: POWER_NORMAL is what the reset left, so nothing is written.
PowerRead ==
  /\ main_pc = "power_read"
  /\ BodyDone
  /\ UNCHANGED <<chip_page, chip_mode, triggers, data_mode>>
  /\ AllWell /\ MainKeeps

\* bno055_set_attribut.
AttrRead ==
  /\ main_pc = "attr_read"
  /\ MainGoto("attr_write")
  /\ UNCHANGED <<chip_page, chip_mode, triggers, data_mode>>
  /\ AllWell /\ MainKeeps

AttrWrite ==
  /\ main_pc = "attr_write"
  /\ MainGoto("attr_verify")
  /\ UNCHANGED <<chip_page, chip_mode, triggers, data_mode>>
  /\ AllWell /\ MainKeeps

\* On page 0 a register of sensor data is compared with the setting.
AttrVerify ==
  /\ main_pc = "attr_verify"
  /\ \/ BodyDone /\ AllWell /\ UNCHANGED <<chip_page, chip_mode, triggers>>
     \/ chip_page = 0 /\ MainFail /\ Compromise
  /\ UNCHANGED data_mode
  /\ MainKeeps

\* bno055_trigger_configuation: axes, then the mask and enable registers.
AxisRead ==
  /\ main_pc = "axis_read"
  /\ MainGoto("axis_write")
  /\ UNCHANGED <<chip_page, chip_mode, triggers, data_mode>>
  /\ AllWell /\ MainKeeps

AxisWrite ==
  /\ main_pc = "axis_write"
  /\ MainGoto("int_read")
  /\ UNCHANGED <<chip_page, chip_mode, triggers, data_mode>>
  /\ AllWell /\ MainKeeps

IntRead ==
  /\ main_pc = "int_read"
  /\ MainGoto("int_write")
  /\ UNCHANGED <<chip_page, chip_mode, triggers, data_mode>>
  /\ AllWell /\ MainKeeps

TriggersAfterWrite == IF chip_page = 1 THEN triggers \union {call} ELSE triggers

IntWrite ==
  /\ main_pc = "int_write"
  /\ triggers' = TriggersAfterWrite
  /\ MainGoto("int_reread")
  /\ UNCHANGED <<chip_page, chip_mode, data_mode>>
  /\ AllWell /\ MainKeeps

\* Read back for the log, not compared.
IntReread ==
  /\ main_pc = "int_reread"
  /\ BodyDone
  /\ UNCHANGED <<chip_page, chip_mode, triggers, data_mode>>
  /\ AllWell /\ MainKeeps

\* A transaction fails.  A write that fails may have reached the chip.
MainTransactions ==
  {"page_read", "page_write", "page_verify", "mode_read", "mode_clear", "mode_check",
   "mode_write", "mode_verify", "power_read", "attr_read", "attr_write", "attr_verify",
   "axis_read", "axis_write", "int_read", "int_write", "int_reread"}

MainBusError ==
  /\ main_pc \in MainTransactions
  /\ faults < MaxFaults
  /\ faults' = faults + 1
  /\ MainFail
  /\ \/ UNCHANGED <<chip_page, chip_mode, triggers>>
     \/ /\ main_pc = "page_write"
        /\ chip_page' = TargetPage
        /\ UNCHANGED <<chip_mode, triggers>>
     \/ /\ main_pc \in {"mode_clear", "mode_write"}
        /\ chip_mode' = ModeAfterWrite(IF main_pc = "mode_clear" THEN "CONFIG" ELSE TargetMode)
        /\ UNCHANGED <<chip_page, triggers>>
     \/ /\ main_pc = "int_write"
        /\ triggers' = TriggersAfterWrite
        /\ UNCHANGED <<chip_page, chip_mode>>
  /\ UNCHANGED <<data_mode, compromised>>
  /\ MainKeeps

MainStep ==
  \/ BnoInit \/ StartCall \/ BnoInitReturns
  \/ PageRead \/ PageWrite \/ PageVerify
  \/ ModeRead \/ ModeClear \/ Settled \/ ModeCheck
  \/ ModeWrite \/ ModeSettled \/ ModeVerify
  \/ PowerRead
  \/ AttrRead \/ AttrWrite \/ AttrVerify
  \/ AxisRead \/ AxisWrite \/ IntRead \/ IntWrite \/ IntReread
  \/ MainBusError

--------------------------------------------------------------------------------
(***************************************************************************)
(* bno_read_thread: bno055_sample_fetch, then bno055_channel_get of the    *)
(* Euler angles and k_msgq_put, as the location "put".                     *)
(***************************************************************************)
ReaderKeeps ==
  UNCHANGED <<chip_mode, triggers, int_line, data_mode, mainThread, workItem, resets>>

ReaderGoto(place) == rd_pc' = place /\ UNCHANGED begun

\* k_msleep returns.  Before bno_dev is set there is nothing to read.
ReaderWakes ==
  /\ rd_pc = "sleep"
  /\ IF bno_dev THEN rd_pc' = "page_read" /\ begun' = (init_rc = "ok")
     ELSE UNCHANGED reader
  /\ UNCHANGED <<chip_page, eul, compromised, faults>>
  /\ ReaderKeeps

ReaderPageRead ==
  /\ rd_pc = "page_read"
  /\ ReaderGoto(IF chip_page = 0 THEN "switch" ELSE "page_write")
  /\ UNCHANGED <<chip_page, eul, compromised, faults>>
  /\ ReaderKeeps

ReaderPageWrite ==
  /\ rd_pc = "page_write"
  /\ chip_page' = 0
  /\ ReaderGoto("page_verify")
  /\ UNCHANGED <<eul, compromised, faults>>
  /\ ReaderKeeps

ReaderPageVerify ==
  /\ rd_pc = "page_verify"
  /\ IF chip_page = 0
       THEN ReaderGoto("switch") /\ UNCHANGED compromised
       ELSE ReaderGoto("sleep") /\ compromised' = TRUE
  /\ UNCHANGED <<chip_page, eul, faults>>
  /\ ReaderKeeps

\* In CONFIG mode the fetch succeeds without reading anything.
ReaderSwitch ==
  /\ rd_pc = "switch"
  /\ ReaderGoto(IF data_mode = "CONFIG" THEN "put" ELSE "fetch_eul")
  /\ UNCHANGED <<chip_page, eul, compromised, faults>>
  /\ ReaderKeeps

\* What the six registers from EUL_DATA hold.
ReaderFetchEul ==
  /\ rd_pc = "fetch_eul"
  /\ eul' = IF chip_page = 1 THEN "settings"
            ELSE IF chip_mode = "CONFIG" THEN "halted" ELSE "attitude"
  /\ ReaderGoto("fetch_rest")
  /\ UNCHANGED <<chip_page, compromised, faults>>
  /\ ReaderKeeps

\* Quaternion, acceleration, gravity and calibration, which nobody asks for.
ReaderFetchRest ==
  /\ rd_pc = "fetch_rest"
  /\ ReaderGoto("put")
  /\ UNCHANGED <<chip_page, eul, compromised, faults>>
  /\ ReaderKeeps

ReaderPut ==
  /\ rd_pc = "put"
  /\ ReaderGoto("sleep")
  /\ UNCHANGED <<chip_page, eul, compromised, faults>>
  /\ ReaderKeeps

ReaderBusError ==
  /\ rd_pc \in {"page_read", "page_write", "page_verify", "fetch_eul", "fetch_rest"}
  /\ faults < MaxFaults
  /\ faults' = faults + 1
  /\ chip_page' \in IF rd_pc = "page_write" THEN {0, chip_page} ELSE {chip_page}
  /\ ReaderGoto("sleep")
  /\ UNCHANGED <<eul, compromised>>
  /\ ReaderKeeps

ReaderStep ==
  \/ ReaderWakes
  \/ ReaderPageRead \/ ReaderPageWrite \/ ReaderPageVerify
  \/ ReaderSwitch \/ ReaderFetchEul \/ ReaderFetchRest \/ ReaderPut
  \/ ReaderBusError

--------------------------------------------------------------------------------
(***************************************************************************)
(* The interrupt line and bno055_work_cb.  The trigger handlers of bno.c   *)
(* are empty.                                                              *)
(***************************************************************************)
WorkKeeps == UNCHANGED <<driver, mainThread, reader, compromised>>

\* A rising edge; bno055_gpio_callback_handler submits the work item.
ChipInterrupt ==
  /\ chip_mode # "CONFIG"
  /\ triggers # {}
  /\ ~int_line
  /\ int_line' = TRUE
  /\ work' = "status"
  /\ UNCHANGED <<chip_page, chip_mode, triggers, work_reset, faults, resets>>
  /\ WorkKeeps

\* A read of page 1 gives any value, and a failed one leaves reg as it was:
\* uninitialised after the first.  ACC_HIGH_G and RST_SYS are the same bit.
HighG == \E t \in triggers : Calls[t] = "high_g"

WorkStatus ==
  /\ work = "status"
  /\ work' = "trig_read"
  /\ \/ work_reset' \in (IF chip_page = 1 \/ HighG THEN BOOLEAN ELSE {FALSE})
        /\ UNCHANGED faults
     \/ faults < MaxFaults /\ faults' = faults + 1 /\ work_reset' \in BOOLEAN
  /\ UNCHANGED <<chip, resets>>
  /\ WorkKeeps

WorkTrigRead ==
  /\ work = "trig_read"
  /\ work' = "trig_write"
  /\ \/ work_reset' \in (IF chip_page = 1 THEN BOOLEAN ELSE {FALSE})
        /\ UNCHANGED faults
     \/ faults < MaxFaults /\ faults' = faults + 1 /\ UNCHANGED work_reset
  /\ UNCHANGED <<chip, resets>>
  /\ WorkKeeps

\* What SYS_TRIGGER does when reg | RST_INT is written to it.
SysTrigger ==
  /\ int_line' = FALSE
  /\ IF work_reset
       THEN /\ chip_page' = 0 /\ chip_mode' = "CONFIG" /\ triggers' = {}
            /\ resets' = resets + 1
       ELSE UNCHANGED <<chip_page, chip_mode, triggers, resets>>

WorkTrigWrite ==
  /\ work = "trig_write"
  /\ work' = "idle"
  /\ work_reset' = FALSE
  /\ \/ UNCHANGED faults
        /\ IF chip_page = 0 THEN SysTrigger ELSE UNCHANGED <<chip, resets>>
     \/ /\ faults < MaxFaults
        /\ faults' = faults + 1
        /\ \/ chip_page = 0 /\ SysTrigger
           \/ UNCHANGED <<chip, resets>>
  /\ WorkKeeps

WorkStep == WorkStatus \/ WorkTrigRead \/ WorkTrigWrite

Next == MainStep \/ ReaderStep \/ ChipInterrupt \/ WorkStep

Spec == Init /\ [][Next]_vars

\* The kernel runs the two threads and the work queue.
FairSpec == Spec /\ WF_vars(MainStep) /\ WF_vars(ReaderStep) /\ WF_vars(WorkStep)

--------------------------------------------------------------------------------
(***************************************************************************)
(* Properties.                                                             *)
(***************************************************************************)
MainPlaces ==
  MainTransactions \union {"start", "call", "settle", "mode_settle", "returned"}
ReaderPlaces ==
  {"sleep", "page_read", "page_write", "page_verify", "switch", "fetch_eul",
   "fetch_rest", "put"}

ChipType ==
  /\ chip_page \in {0, 1}
  /\ chip_mode \in Modes
  /\ triggers \subseteq 1..Len(Calls)
  /\ data_mode \in Modes

MainType ==
  /\ main_pc \in MainPlaces
  /\ call \in 1..(Len(Calls) + 1)
  /\ main_pc \notin {"start", "call", "returned"} => call <= Len(Calls)
  /\ phase \in {"enter", "body", "leave"}
  /\ saved \in Modes
  /\ init_rc \in {"running", "ok", "error"}
  /\ init_rc # "running" <=> main_pc = "returned"

ReaderType ==
  /\ rd_pc \in ReaderPlaces
  /\ eul \in {"zero", "attitude", "halted", "settings"}

WorkType ==
  /\ work \in {"idle", "status", "trig_read", "trig_write"}
  /\ faults \in 0..MaxFaults
  /\ resets \in Nat

FlagType ==
  /\ bno_dev \in BOOLEAN
  /\ begun \in BOOLEAN
  /\ int_line \in BOOLEAN
  /\ work_reset \in BOOLEAN
  /\ compromised \in BOOLEAN

\* Every variable keeps its type.
TypeOK == ChipType /\ MainType /\ ReaderType /\ WorkType /\ FlagType

(***************************************************************************)
(* Page 1 is selected only in CONFIG mode, by whichever caller and after   *)
(* whatever error, so that the work item, which does not select a page,    *)
(* finds the registers of page 0 whenever the chip can interrupt.          *)
(***************************************************************************)
PageOneOnlyInConfig == chip_page = 1 => chip_mode = "CONFIG"

(***************************************************************************)
(* A bno_init that succeeds leaves the chip on page 0 and in the mode it   *)
(* asked for, whatever the reader did in between, and the driver knows it; *)
(* only a reset by the work item changes that later.                       *)
(***************************************************************************)
ConfiguredOnSuccess ==
  init_rc = "ok" /\ resets = 0 =>
    chip_page = 0 /\ chip_mode = "NDOF" /\ data_mode = "NDOF"

(***************************************************************************)
(* The line triggers on its rising edge, so one that stays high without a  *)
(* work item to lower it is dead.  Without bus errors that never happens.  *)
(***************************************************************************)
InterruptNotStranded == int_line /\ faults = 0 => work # "idle"

(***************************************************************************)
(* A round of the reader that begins after bno_init has succeeded delivers *)
(* an attitude, not settings or the leftovers of CONFIG mode.              *)
(***************************************************************************)
Delivers == rd_pc = "put" /\ begun /\ eul = "attitude"

SamplesGenuine == rd_pc = "put" /\ begun /\ resets = 0 => Delivers

(***************************************************************************)
(* After a successful bno_init attitudes flow, again and again, unless a   *)
(* bus error made the work item reset the chip.                            *)
(***************************************************************************)
AttitudesFlow == init_rc = "ok" ~> Delivers \/ resets > 0

(***************************************************************************)
(* bno055.c:91, 143, 206, 256 and 312: a register that does not read back  *)
(* as written means "I2C communication compromised".                       *)
(***************************************************************************)
CompromisedMeansFault == compromised => faults > 0

(***************************************************************************)
(* bno.c:188, "BNO055 initialized": all triggers are enabled in the chip.  *)
(***************************************************************************)
InitializedMeansEnabled ==
  init_rc = "ok" /\ resets = 0 =>
    \A t \in DOMAIN Calls : Calls[t] \in Triggers => t \in triggers

(***************************************************************************)
(* What bno_init reports is true of the chip, either way.                  *)
(***************************************************************************)
InitReportsTruth == CompromisedMeansFault /\ InitializedMeansEnabled

================================================================================
