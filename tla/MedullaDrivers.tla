--------------------------- MODULE MedullaDrivers ---------------------------
(***************************************************************************)
(* The Medulla drivers (software/atrias_medulla_drivers), the master's     *)
(* side of the process data: each decodes the last EtherCAT frame of one   *)
(* Medulla into robot_state and encodes controller_output into the next.   *)
(* One Medulla and its driver are modelled, of any of the four kinds; the  *)
(* drivers share nothing but robot_state, where each has fields of its     *)
(* own.                                                                    *)
(*                                                                         *)
(* The unit of length is an encoder tick and the unit of time a cycle of   *)
(* the DC clock: a velocity is the pair of a distance and a time.  The     *)
(* encoders' timestamps, which refine the time within a cycle, and the     *)
(* conversions to radians are left out, and with them the roll-over of a   *)
(* hip's absolute encoder, which is half a turn wide.                      *)
(***************************************************************************)
EXTENDS Integers, Sequences, SequencesExt

CONSTANTS
  Kinds,           \* the kinds of Medulla to look at
  EncRange,        \* 1 << the bits of the wrapping encoders
  CounterModulus,  \* the Medullas' packet counter wraps here (uint8_t)
  MaxChange,       \* MAX_ACCEPTABLE_ENCODER_CHANGE
  ToeDebounce,     \* samples until the toe switch is believed
  Switches,        \* the limit switches
  Moves,           \* the ways an axis may move in a cycle
  Glitch,          \* how far off an erroneous absolute reading is
  Pull,            \* a hip's angle is corrected by 1 / Pull of its error (100000)
  MaxStrayed,      \* bound on the errors of a hip's absolute readings
  PosBound,        \* bound on the distance travelled
  MaxElapsed,      \* bound on the cycles between two frames
  MaxUnused        \* bound on the cycles between two absolute readings used

ASSUME DriverConstants ==
  /\ Kinds \subseteq {"leg", "hip", "boom", "imu"}
  /\ EncRange \in Nat /\ EncRange > 1 /\ EncRange % 2 = 0
  /\ CounterModulus \in Nat \ {0} /\ MaxElapsed \in Nat
  /\ MaxChange \in Nat /\ ToeDebounce \in Nat \ {0}
  /\ Moves \subseteq Int /\ Glitch \in Nat /\ Pull \in Nat \ {0}

Half == EncRange \div 2

(* An erroneous reading stands out from what the axis may have moved.      *)
ASSUME GlitchesStandOut == Glitch > MaxChange + Half

----------------------------------------------------------------------------
(* The process data images.  An entry is a name and a size in bytes; the   *)
(* master packs the drivers' entries (pdoEntryDatas) one after the other,  *)
(* a Medulla those of its own tables.                                      *)

Common == <<<<"id", 1>>, <<"state", 1>>, <<"counter", 1>>, <<"errors", 1>>>>

LegEntries ==
  Common \o <<
  <<"limitSwitch", 1>>, <<"toe", 2>>, <<"motorEncoder", 4>>, <<"motorTime", 2>>,
  <<"legEncoder", 4>>, <<"legTime", 2>>, <<"incEncoder", 2>>, <<"incTime", 2>>,
  <<"motorVoltage", 2>>, <<"logicVoltage", 2>>, <<"therm0", 2>>,
  <<"therm1", 2>>, <<"therm2", 2>>, <<"therm3", 2>>, <<"therm4", 2>>,
  <<"therm5", 2>>, <<"amp1", 2>>, <<"amp2", 2>>, <<"knee1", 2>>, <<"knee2", 2>>>>

HipEntries ==
  Common \o <<
  <<"limitSwitch", 1>>, <<"hipEncoder", 4>>, <<"hipTime", 2>>,
  <<"motorVoltage", 2>>, <<"logicVoltage", 2>>, <<"therm0", 2>>,
  <<"therm1", 2>>, <<"therm2", 2>>, <<"amp1", 2>>, <<"incEncoder", 2>>,
  <<"incTime", 2>>, <<"currentPositive", 2>>, <<"currentNegative", 2>>>>

BoomEntries ==
  Common \o <<
  <<"xEncoder", 4>>, <<"xTime", 2>>, <<"pitchEncoder", 4>>, <<"pitchTime", 2>>,
  <<"zEncoder", 4>>, <<"zTime", 2>>, <<"logicVoltage", 2>>>>

ImuEntries ==
  Common \o <<
  <<"gyrX", 4>>, <<"gyrY", 4>>, <<"gyrZ", 4>>, <<"accX", 4>>, <<"accY", 4>>,
  <<"accZ", 4>>, <<"status", 1>>, <<"seq", 1>>, <<"temperature", 2>>, <<"crc", 4>>>>

DriverEntries == [leg |-> LegEntries, hip |-> HipEntries,
                  boom |-> BoomEntries, imu |-> ImuEntries]

(* The Medullas' tables give an array one entry.                           *)
leg_tx_pdos ==
  Common \o <<
  <<"limitSwitch", 1>>, <<"toe", 2>>, <<"motorEncoder", 4>>, <<"motorTime", 2>>,
  <<"legEncoder", 4>>, <<"legTime", 2>>, <<"incEncoder", 2>>, <<"incTime", 2>>,
  <<"motorVoltage", 2>>, <<"logicVoltage", 2>>, <<"therm0", 12>>, <<"amp1", 2>>,
  <<"amp2", 2>>, <<"knee1", 2>>, <<"knee2", 2>>>>

hip_tx_pdos ==
  Common \o <<
  <<"limitSwitch", 1>>, <<"hipEncoder", 4>>, <<"hipTime", 2>>,
  <<"motorVoltage", 2>>, <<"logicVoltage", 2>>, <<"therm0", 6>>, <<"amp1", 2>>,
  <<"incEncoder", 2>>, <<"incTime", 2>>, <<"currentPositive", 2>>,
  <<"currentNegative", 2>>>>

boom_tx_pdos ==
  Common \o <<
  <<"xEncoder", 4>>, <<"xTime", 2>>, <<"pitchEncoder", 4>>, <<"pitchTime", 2>>,
  <<"zEncoder", 4>>, <<"zTime", 2>>, <<"logicVoltage", 2>>>>

imu_tx_pdos ==
  Common \o <<
  <<"gyrX", 4>>, <<"gyrY", 4>>, <<"gyrZ", 4>>, <<"accX", 4>>, <<"accY", 4>>,
  <<"accZ", 4>>, <<"status", 1>>, <<"seq", 1>>, <<"temperature", 2>>, <<"crc", 4>>>>

MedullaEntries == [leg |-> leg_tx_pdos, hip |-> hip_tx_pdos,
                   boom |-> boom_tx_pdos, imu |-> imu_tx_pdos]

(* MEDULLA_*_INPUTS_SIZE, the size of the sync manager's buffer.           *)
InputsSize == [leg |-> 47, hip |-> 31, boom |-> 24, imu |-> 36]

SizeOf(entries) ==
  FoldLeft(LAMBDA size, entry : size + entry[2], 0, entries)

(* How many of the entries the master is told of (MEDULLA_*_TX_PDO_COUNT)  *)
(* and a Medulla configures.                                               *)
DriverCount  == [leg |-> 24, hip |-> 17, boom |-> 11, imu |-> 14]
MedullaCount == [leg |-> 24 - 5, hip |-> 15, boom |-> 11, imu |-> 14]

(* fillInPDORegData: the place of each of the first count entries, one     *)
(* right after the other.                                                  *)
fillInPDORegData(entries, count) ==
  [name \in {entries[i][1] : i \in 1 .. count} |->
     LET at == SelectInSeq(entries, LAMBDA entry : entry[1] = name)
     IN SizeOf(SubSeq(entries, 1, at - 1))]

DriverOffsets ==
  [k \in Kinds |-> fillInPDORegData(DriverEntries[k], DriverCount[k])]

MedullaOffsets ==
  [k \in Kinds |-> fillInPDORegData(MedullaEntries[k], MedullaCount[k])]

(* The sizes of the image the master is told of and of the Medulla's.      *)
ImageSizes ==
  [k \in Kinds |-> {SizeOf(SubSeq(DriverEntries[k], 1, DriverCount[k])),
                    SizeOf(SubSeq(MedullaEntries[k], 1, MedullaCount[k]))}]

(* What the rest of the module takes for granted: every driver looks for   *)
(* each of its fields where the Medulla's tables put it, and the image     *)
(* fills the sync manager's buffer, though the two sides of a frame are    *)
(* written in two programs.                                                *)
ASSUME LayoutsAgree ==
  \A k \in Kinds :
    /\ \A name \in DOMAIN MedullaOffsets[k] :
         DriverOffsets[k][name] = MedullaOffsets[k][name]
    /\ ImageSizes[k] = {InputsSize[k]}

----------------------------------------------------------------------------
VARIABLES
  kind,    \* the kind of Medulla
  axis,    \* where the axis really is
  board,   \* what the Medulla sends: its last sample
  drv,     \* the driver's members
  rs,      \* the driver's fields of robot_state, but for the velocities
  seen     \* what has really happened, for the properties to refer to

dvars == <<kind, axis, board, drv, rs, seen>>

(* The Medulla's data when the axis is at pos: the wrapping encoder, the   *)
(* absolute one, which may err, the toe switch, the limit switches,        *)
(* whether it is idle, the gyroscope's last step and the packet counter.   *)
Sample(pos, err, toe, pressed, idle, gyro, count) ==
  [inc |-> pos % EncRange, abs |-> pos + err, toe |-> toe, pressed |-> pressed,
   idle |-> idle, gyro |-> gyro, counter |-> count]

(* postOpInit of the drivers, on the first data.  The boom's and the IMU's *)
(* leave timingCounterValue as they find it.                               *)
postOpInit(k, data, garbage) ==
  [timingCounterValue |-> IF k \in {"boom", "imu"} THEN garbage ELSE data.counter,
   inc |-> data.inc, incPos |-> 0, abs |-> data.abs, absDt |-> 0,
   oldToe |-> FALSE, toeCounter |-> 0,
   calibrated |-> FALSE, calibValue |-> data.inc, encPos |-> 0]

(* seen: whether the driver knows the counter of the frame before, the     *)
(* cycles since then and since the last absolute reading that was used,    *)
(* the axis in those two frames, whether a reading was thrown away for a   *)
(* jump since, the toe switch's last sample and for how many it has been   *)
(* that, the sum of the IMU's good packets, whether every frame arrived    *)
(* and whether every packet was good, and how far the errors of a hip's    *)
(* absolute readings may have led its angle astray.                        *)
DriverInit ==
  /\ kind \in Kinds
  /\ axis = 0
  /\ board = Sample(0, 0, FALSE, {}, TRUE, 0, 0)
  /\ \E garbage \in 0 .. CounterModulus - 1 :
       drv = postOpInit(kind, board, garbage)
  /\ rs = [pos |-> 0, angle |-> 0, onGround |-> FALSE, limitSwitches |-> {},
           pitch |-> 0, body |-> 0]
  /\ seen = [synced |-> kind \in {"leg", "hip"}, elapsed |-> 0, unused |-> 0,
             pos |-> 0, used |-> 0, jumped |-> FALSE,
             toe |-> FALSE, toes |-> 0, turned |-> 0, lossless |-> TRUE, good |-> TRUE,
             strayed |-> 0]

----------------------------------------------------------------------------
(* The decoders of the wrapping encoders.                                  *)

(* C's %, which takes the sign of a.                                       *)
CRem(a, b) == IF a >= 0 THEN a % b ELSE -((-a) % b)

(* The cast to the signed integer of the encoder's width.                  *)
Signed(a) == ((a + Half) % EncRange) - Half

IncrementalDelta_NoCast(reading, value) ==
  CRem(reading + Half - value, EncRange) - Half

(* The legs' and the hips' incremental encoder.                            *)
IncrementalDelta(reading, value) ==
  Signed(CRem(reading + Half - value, EncRange) - Half)

(* The boom's pitch and z encoders.                                        *)
BoomDelta(reading, value) ==
  CRem(reading - value + EncRange + Half, EncRange) - Half

(* Encoder::mod and Encoder::update, the boom's x encoder.                 *)
mod(a, b) == CRem(CRem(a, b) + b, b)

EncoderUpdate(reading) ==
  LET start == IF drv.calibrated THEN drv.encPos
               ELSE mod(reading - drv.calibValue + Half, EncRange) - Half
      last  == IF drv.calibrated THEN drv.inc ELSE reading
      delta == mod(reading - last + Half, EncRange) - Half
  IN [pos |-> start + delta, delta |-> delta]

----------------------------------------------------------------------------
(* The parts of processReceiveData.  deltaTime is the time since the last  *)
(* new frame, as the packet counter tells it.                              *)

deltaTime ==
  (board.counter + CounterModulus - drv.timingCounterValue) % CounterModulus

(* checkErroneousEncoderValues: an absolute reading that has not changed,  *)
(* or has jumped, is not used.                                             *)
skipMotorEncoder ==
  LET change == board.abs - drv.abs
  IN change = 0 \/ change > MaxChange \/ -change > MaxChange

AbsoluteVelocity_LastOnly == [d |-> board.abs - drv.abs, dt |-> deltaTime]

(* processVelocities: the time runs on over the readings that are skipped. *)
AbsoluteVelocity ==
  [d |-> board.abs - drv.abs, dt |-> drv.absDt + deltaTime]

toeCounter == IF board.toe = drv.oldToe THEN drv.toeCounter + 1 ELSE 0

(* toeDetect: the toe switch is believed once it has kept its value.       *)
ToeDetect ==
  IF toeCounter >= ToeDebounce
  THEN [toe |-> board.toe, count |-> ToeDebounce]
  ELSE [toe |-> rs.onGround, count |-> toeCounter]

(* A switch that was pressed stays so until the Medulla is idle again.     *)
LimitSwitches ==
  (IF board.idle THEN {} ELSE rs.limitSwitches) \cup board.pressed

----------------------------------------------------------------------------
(* processReceiveData of the four drivers, on a frame that is new.         *)

LegReceive ==
  LET delta == IncrementalDelta(board.inc, drv.inc)
      toe   == ToeDetect
  IN /\ drv' = [drv EXCEPT !.timingCounterValue = board.counter,
                  !.inc = (@ + delta) % EncRange, !.incPos = @ + delta,
                  !.abs = board.abs,
                  !.absDt = IF skipMotorEncoder THEN AbsoluteVelocity.dt ELSE 0,
                  !.oldToe = board.toe, !.toeCounter = toe.count]
     /\ rs' = [rs EXCEPT !.pos = drv.incPos + delta,
                 !.angle = IF skipMotorEncoder THEN @ ELSE board.abs,
                 !.onGround = toe.toe, !.limitSwitches = LimitSwitches]

(* The hip's angle, body, is counted in 1 / Pull of a tick.  The           *)
(* incremental encoder moves it and the absolute one, set against it,      *)
(* pulls it a little; the first frame sets it.                             *)
Pulled(angle) ==
  LET off == Pull * board.abs - angle
  IN angle + (IF off >= 0 THEN off \div Pull ELSE -((-off) \div Pull))

HipReceive ==
  LET delta == IncrementalDelta(board.inc, drv.inc)
  IN /\ drv' = [drv EXCEPT !.timingCounterValue = board.counter,
                  !.inc = (@ + delta) % EncRange, !.calibrated = TRUE]
     /\ rs' = [rs EXCEPT !.body = IF drv.calibrated THEN Pulled(@ + Pull * delta)
                                  ELSE Pull * board.abs,
                 !.limitSwitches = LimitSwitches]

(* The x encoder (Encoder) and the pitch encoder, which stands for z too,  *)
(* on one axis: pos is x's, angle pitch's.                                 *)
BoomReceive ==
  LET x     == EncoderUpdate(board.inc)
      delta == BoomDelta(board.inc, drv.inc)
  IN /\ drv' = [drv EXCEPT !.timingCounterValue = board.counter,
                  !.calibrated = TRUE, !.encPos = x.pos,
                  !.incPos = @ + delta, !.inc = board.inc]
     /\ rs' = [rs EXCEPT !.pos = x.pos, !.angle = drv.incPos + delta]

(* processIMU: the gyroscope's steps are added up.                         *)
ImuReceive ==
  /\ drv' = [drv EXCEPT !.timingCounterValue = board.counter]
  /\ rs' = [rs EXCEPT !.pitch = @ - board.gyro]

Receive == CASE kind = "leg"  -> LegReceive
             [] kind = "hip"  -> HipReceive
             [] kind = "boom" -> BoomReceive
             [] kind = "imu"  -> ImuReceive

----------------------------------------------------------------------------
(* What each kind of Medulla may sample: the erroneous readings, the toe   *)
(* switch, the limit switches, the idle state, the good packets.           *)
Inputs ==
  [err : IF \/ kind = "leg" /\ drv.abs = seen.pos
            \/ kind = "hip" /\ seen.strayed < MaxStrayed
         THEN {0, Glitch} ELSE {0},
   toe : IF kind = "leg" THEN BOOLEAN ELSE {FALSE},
   pressed : IF kind = "hip" THEN SUBSET Switches ELSE {{}},
   idle : IF kind = "hip" THEN BOOLEAN ELSE {FALSE},
   good : IF kind = "imu" THEN BOOLEAN ELSE {FALSE}]

(* A cycle of the Medulla.  The axis moves less than half the encoder's    *)
(* range between two frames, and no two frames of a leg in a row hold a    *)
(* glitch.  A bad packet of the IMU leaves the last good one's data in     *)
(* place (imu_process_data).                                               *)
BoardCycle ==
  /\ seen.elapsed < MaxElapsed /\ seen.unused < MaxUnused
  /\ {seen.turned, rs.pitch} \subseteq -PosBound .. PosBound
  /\ \E move \in Moves, in \in Inputs :
       /\ axis' = axis + move
       /\ axis' \in -PosBound .. PosBound
       /\ axis' - seen.pos \in 1 - Half .. Half - 1
       /\ board' = Sample(axis', in.err, in.toe, in.pressed, in.idle,
                          IF in.good THEN move ELSE board.gyro,
                          (board.counter + 1) % CounterModulus)
       /\ seen' = [seen EXCEPT !.elapsed = @ + 1,
                     !.unused = IF kind = "leg" THEN @ + 1 ELSE 0,
                     !.turned = IF in.good THEN @ - move ELSE @,
                     !.lossless = @ /\ seen.elapsed = 0,
                     !.good = @ /\ in.good]
  /\ UNCHANGED <<kind, drv, rs>>

(* The packet counter has come round since the last frame.                 *)
LostCount == seen.elapsed >= CounterModulus

(* A frame arrives (cycleECat) and the driver looks at it; one that is     *)
(* lost leaves things as they are.  The first frame of a hip passes the    *)
(* whole error of its absolute reading on, each later one a part.          *)
NewFrame ==
  /\ board.counter # drv.timingCounterValue
  /\ Receive
  /\ LET used == kind = "leg" /\ ~skipMotorEncoder
         err  == board.abs - axis IN
     seen' = [seen EXCEPT
       !.synced = TRUE, !.elapsed = 0, !.pos = axis,
       !.used = IF used THEN axis ELSE @,
       !.unused = IF used THEN 0 ELSE @,
       !.jumped = kind = "leg" /\ ~used /\ (@ \/ board.abs # drv.abs \/ LostCount),
       !.toe = board.toe,
       !.toes = IF board.toe # seen.toe THEN 1
                ELSE IF @ > ToeDebounce THEN @ ELSE @ + 1,
       !.strayed = IF kind # "hip" THEN @
                   ELSE IF drv.calibrated THEN @ + err ELSE Pull * err]
  /\ UNCHANGED <<kind, axis, board>>

(* A frame with the packet counter of the last is not looked at.  It is    *)
(* the same data, or as many cycles have passed as the counter has values. *)
OldFrame == board.counter = drv.timingCounterValue /\ UNCHANGED dvars

DriverNext == BoardCycle \/ NewFrame \/ OldFrame

DriverSpec == DriverInit /\ [][DriverNext]_dvars

----------------------------------------------------------------------------
(* The decoded position is the axis's, however often the encoder has       *)
(* wrapped and however many frames were lost on the way: the three         *)
(* decoders, each with its own arithmetic around C's %, all lose nothing.  *)
PositionTracksAxis ==
  /\ kind \in {"leg", "boom"} => rs.pos = seen.pos
  /\ kind = "boom" => rs.angle = seen.pos

(* A hip's angle is the axis's but for what the erroneous readings of its  *)
(* absolute encoder, which nothing tests for, have added to it: the first  *)
(* frame's its whole error, each other 1 / Pull of it; true readings       *)
(* never lead it further away (updateEncoderValues).                       *)
AngleKept ==
  kind = "hip" /\ drv.calibrated => rs.body - Pull * seen.pos \in 0 .. seen.strayed

(* The time a velocity is taken over is the time that passed between the   *)
(* two frames, across the packet counter's wrap, unless a whole turn of    *)
(* the counter was missed.                                                 *)
ElapsedTimeCounted ==
  seen.synced /\ ~LostCount => deltaTime = seen.elapsed

(* One erroneous reading of an absolute encoder never reaches robot_state, *)
(* neither when it comes nor when the reading after it jumps back          *)
(* (checkErroneousEncoderValues).                                          *)
NoGlitchReported == kind = "leg" => rs.angle = seen.used

(* The frame's absolute reading, if it is used.                            *)
Used == kind = "leg" /\ seen.elapsed > 0 /\ ~skipMotorEncoder

(* A velocity taken after readings that had not changed spans them: it is  *)
(* the distance since the last reading used over the time since then       *)
(* (processVelocities).                                                    *)
VelocitySpansUnchanged ==
  Used /\ ~seen.jumped /\ ~LostCount
    => AbsoluteVelocity = [d |-> axis - seen.used, dt |-> seen.unused]

(* onGround follows the toe switch once it has kept its value for more     *)
(* than ToeDebounce samples, and never before (toeDetect).                 *)
GroundDebounced ==
  /\ [][rs'.onGround # rs.onGround
        => seen'.toes > ToeDebounce /\ seen'.toe = rs'.onGround]_dvars
  /\ [](seen.toes > ToeDebounce => rs.onGround = seen.toe)

(* A limit switch that was pressed stays reported until the Medulla has    *)
(* been idle, even if only one frame ever showed it.                       *)
SwitchLatched ==
  [][\A switch \in rs.limitSwitches \ rs'.limitSwitches : board.idle]_dvars

(* The pitch is the sum of the gyroscope's steps while every packet is     *)
(* good and every frame arrives.                                           *)
PitchOfWholeStream ==
  kind = "imu" /\ seen.lossless /\ seen.good /\ seen.elapsed = 0
    => rs.pitch = seen.turned

(* Whatever wraps, is lost, bounces or is misread on the way, what         *)
(* robot_state says of the robot is so, but for the errors AngleKept       *)
(* allows a hip's angle.                                                   *)
StateDecoded ==
  /\ [](PositionTracksAxis /\ AngleKept /\ NoGlitchReported /\ PitchOfWholeStream)
  /\ GroundDebounced
  /\ SwitchLatched

(* A velocity is the distance between two readings over the time between   *)
(* the same two.                                                           *)
VelocitiesSpan == ElapsedTimeCounted /\ VelocitySpansUnchanged
=============================================================================
