----------------------------- MODULE Connectors -----------------------------
(***************************************************************************)
(* The connectors between RT Ops and the robot: atrias_ecat_conn, which    *)
(* cycles the EtherCAT bus in the phase of its distributed clock, and the  *)
(* three that stand in for it (atrias_noop_conn, atrias_csim_conn,         *)
(* atrias_sim_conn).  Two threads meet here: the connector's own, which    *)
(* begins a cycle and hands the robot state to RT Ops, and RT Ops'         *)
(* controller loop, which calls sendControllerOutput.                      *)
(*                                                                         *)
(* Time is counted from the period of the bus clock that the connector's   *)
(* targetTime lies in, so that no clock grows: phase is that time and      *)
(* lastStamp the last stamp, in periods.                                   *)
(***************************************************************************)
EXTENDS Integers, Sequences

CONSTANTS
  Conns,         \* the connectors to look at
  SlaveLists,    \* the slaves that may be found on the bus
  Period,        \* CONTROLLER_LOOP_PERIOD_NS
  Offset,        \* CONTROLLER_LOOP_OFFSET_NS
  Gain,          \* TIMING_FILTER_GAIN
  MaxOvershoot,  \* how late a sleep may end
  Works,         \* how long the work of a cycle may take
  Second,        \* SECOND_IN_NANOSECONDS
  SecModulus,    \* csim's seconds are counted modulo this bound
  Currents,      \* the motor currents RT Ops may send
  HoldCurrent,   \* HIP_HOLD_TORQUE
  Friction,      \* LEG_FRICTION_AMPS
  MinPos, MaxPos \* the end stops of csim's joints

ASSUME ConnectorConstants ==
  /\ Conns \subseteq {"ecat", "noop", "csim", "sim"}
  /\ Period \in Nat \ {0} /\ Period % 2 = 0 /\ Gain \in Nat \ {0}
  /\ Offset \in 0 .. Period - 1 /\ Works \subseteq Nat \ {0}
  /\ MaxOvershoot \in Nat /\ MaxOvershoot + Offset < Period
  /\ Second \in Nat /\ Second > Period /\ SecModulus \in Nat \ {0}

(* In the phase of the bus clock the connector is no farther from it than  *)
(* the gain, and what is added to a stamp covers that, a sleep's overshoot *)
(* included (300000, 100 and some thousands of a period of 1000000 ns); a  *)
(* cycle takes longer than the last correction, a nanosecond.              *)
ASSUME StampRoom ==
  /\ Gain > 1 /\ Gain <= Offset /\ MaxOvershoot + Offset + Gain < Period
  /\ \A work \in Works : work > 1

----------------------------------------------------------------------------
(* The Medullas.  A slave is a vendor, a product and the id it answers     *)
(* with; the manager keeps a driver for each place it knows.               *)

Slots == <<"lLegA", "lLegB", "rLegA", "rLegB", "boom", "imu", "lHip", "rHip">>

LegIDs == {"lLegA", "lLegB", "rLegA", "rLegB"}
HipIDs == {"lHip", "rHip"}

(* initLegMedulla, initHipMedulla, initBoomMedulla and initImuMedulla: the *)
(* id decides the place of a leg's and a hip's Medulla, the product that   *)
(* of the others'.  A second driver for a place takes the first one's.     *)
InitLegMedulla(slave)  == {slave.id} \cap LegIDs
InitHipMedulla(slave)  == {slave.id} \cap HipIDs
InitBoomMedulla(slave) == {"boom"}
InitImuMedulla(slave)  == {"imu"}

MedullasInit(list) ==
  LET Place(slave) ==
        IF slave.vendor # "drl" THEN {}
        ELSE CASE slave.product = "leg"  -> InitLegMedulla(slave)
               [] slave.product = "hip"  -> InitHipMedulla(slave)
               [] slave.product = "boom" -> InitBoomMedulla(slave)
               [] slave.product = "imu"  -> InitImuMedulla(slave)
               [] OTHER -> {}
  IN UNION {Place(list[i]) : i \in DOMAIN list}

CalcRobotConfiguration_NeedsHip(slots) ==
  CASE ~ {"lLegA", "lLegB"} \subseteq slots -> "UNKNOWN"
    [] {"lLegA", "lLegB"} \subseteq slots /\ ~ {"rLegA", "rLegB", "rHip"} \subseteq slots ->
         IF "lHip" \in slots THEN "LEFT_LEG_HIP" ELSE "LEFT_LEG_NOHIP"
    [] OTHER -> IF HipIDs \subseteq slots THEN "BIPED_FULL" ELSE "BIPED_NOHIP"

CalcRobotConfiguration(slots) ==
  CASE ~ {"lLegA", "lLegB"} \subseteq slots -> "UNKNOWN"
    [] {"lLegA", "lLegB"} \subseteq slots /\ ~ {"rLegA", "rLegB"} \subseteq slots ->
         IF "lHip" \in slots THEN "LEFT_LEG_HIP" ELSE "LEFT_LEG_NOHIP"
    [] OTHER -> IF HipIDs \subseteq slots THEN "BIPED_FULL" ELSE "BIPED_NOHIP"

(* The place the manager writes after the places in written, in the order  *)
(* of processTransmitData.                                                 *)
NextSlot(slots, written) ==
  Slots[CHOOSE i \in DOMAIN Slots :
          /\ Slots[i] \in slots \ written
          /\ \A j \in 1 .. i - 1 : Slots[j] \notin slots \ written]

----------------------------------------------------------------------------
VARIABLES
  conn,      \* the connector that was deployed
  bus,       \* the slaves, the places that have a driver, robotConfiguration
  pc,        \* the connector's thread
  midCycle,  \* ConnManager::midCycle, NoopConn::waitingForResponse
  eCatLock,  \* who holds it
  out,       \* the controller loop's thread, inside RT Ops
  image,     \* the places whose outputs the call in progress has written
  clock,     \* phase, overshoot, lastStamp, sleepTime
  sim,       \* csim's joint and its stamp
  noted       \* what has really happened, for the properties to refer to

cvars == <<conn, bus, pc, midCycle, eCatLock, out, image, clock, sim, noted>>

Unknown == 2   \* a robot state two or more cycles old, or none

(* The constructors.  RT Ops' loop starts with a run.                      *)
ConnInit ==
  /\ conn \in Conns
  /\ bus \in [slaves : SlaveLists, slots : {{}}, configuration : {"none"}]
  /\ pc = "configure"
  /\ midCycle = FALSE
  /\ eCatLock = "none"
  /\ out = [pc |-> "send", signal |-> FALSE, age |-> Unknown]
  /\ image = {}
  /\ clock \in [phase : 0 .. Period - 1, overshoot : {0}, lastStamp : {-1},
                sleepTime : {0}]
  /\ \E joint \in {"lHip", "rHip", "half"} :
       sim = [joint |-> joint, current |-> 0, pos |-> 0, vel |-> 0,
              sec |-> 0, nsec |-> 0]
  /\ noted = [state |-> Unknown, begun |-> FALSE, answered |-> FALSE,
             late |-> FALSE, torn |-> FALSE, disabled |-> FALSE]

(* A robot without a bus needs neither: there is one initial state of each *)
(* other connector.                                                        *)
Deployed ==
  /\ conn # "ecat" => clock.phase = 0 /\ bus.slaves = CHOOSE l \in SlaveLists : TRUE
  /\ conn # "csim" => sim.joint = "half"

----------------------------------------------------------------------------
(* configureHook and startHook.  configure fails when there is no slave.   *)
Configure ==
  /\ pc = "configure"
  /\ pc' = CASE conn = "ecat" /\ bus.slaves = << >> -> "failed"
             [] conn = "ecat" /\ bus.slaves # << >> -> "start"
             [] conn = "noop" -> "check"
             [] conn = "csim" -> "simulate"
             [] conn = "sim"  -> "read"
  /\ UNCHANGED <<conn, bus, midCycle, eCatLock, out, image, clock, sim, noted>>

(* ECatConn's component stays unconfigured; nothing more happens in it.    *)
Failed == pc = "failed" /\ UNCHANGED cvars

(* ConnManager::initialize and MedullaManager::start.                      *)
Start ==
  /\ pc = "start"
  /\ IF bus.slaves[1].product = "KPA"
       THEN UNCHANGED bus
       ELSE LET slots == MedullasInit(bus.slaves) IN
            bus' = [bus EXCEPT !.slots = slots,
                               !.configuration = CalcRobotConfiguration(slots)]
  /\ midCycle' = FALSE
  /\ pc' = "check"
  /\ UNCHANGED <<conn, eCatLock, out, image, clock, sim, noted>>

(* ECatConn::disableSafeties, called by an operator's script.              *)
DisableSafeties ==
  /\ conn = "ecat" /\ pc \notin {"configure", "failed"}
  /\ ~ noted.disabled
  /\ bus' = [bus EXCEPT !.configuration = "DISABLE"]
  /\ noted' = [noted EXCEPT !.disabled = TRUE]
  /\ UNCHANGED <<conn, pc, midCycle, eCatLock, out, image, clock, sim>>

----------------------------------------------------------------------------
(* ConnManager::loop and NoopConn::updateHook.                             *)

(* if (midCycle) sendEvent(MISSED_DEADLINE)                                *)
CheckDeadline ==
  /\ pc = "check"
  /\ pc' = IF conn = "ecat" THEN "frame" ELSE "mark"
  /\ UNCHANGED <<conn, bus, midCycle, eCatLock, out, image, clock, sim, noted>>

(* cycleECat sends the outputs as they stand: they are those of one call   *)
(* unless some of its places are written and some not.                     *)
TornFrame == noted.torn \/ image \notin {{}, bus.slots}

(* The block under eCatLock: nothing else can happen inside it.            *)
ReceiveFrame ==
  /\ pc = "frame" /\ eCatLock = "none"
  /\ \E overshoot \in 0 .. MaxOvershoot :
       clock' = [clock EXCEPT !.overshoot = overshoot]
  /\ noted' = [noted EXCEPT !.torn = TornFrame]
  /\ pc' = "mark"
  /\ UNCHANGED <<conn, bus, midCycle, eCatLock, out, image, sim>>

controllerTime_NoOffset == (clock.phase + clock.overshoot) \div Period

(* controllerTime, in periods.                                             *)
controllerTime == (clock.phase + clock.overshoot + Offset) \div Period

Older(age) == IF age = Unknown THEN age ELSE age + 1

BeginCycle ==
  /\ noted' = [noted EXCEPT !.begun = TRUE, !.answered = FALSE, !.late = FALSE,
                          !.state = Older(@)]
  /\ out' = [out EXCEPT !.age = Older(@)]

(* The stamp of the cycle (setTimingInfo); midCycle is set outside         *)
(* eCatLock.                                                               *)
MarkCycle ==
  /\ pc = "mark" /\ pc' = "callback"
  /\ midCycle' = TRUE
  /\ BeginCycle
  /\ clock' = IF conn = "ecat" THEN [clock EXCEPT !.lastStamp = controllerTime] ELSE clock
  /\ UNCHANGED <<conn, bus, eCatLock, image, sim>>

NewStateCallback_NoSignal ==
  /\ pc = "callback"
  /\ noted' = [noted EXCEPT !.state = 0]
  /\ pc' = "sleep"
  /\ UNCHANGED <<conn, bus, midCycle, eCatLock, out, image, clock, sim>>

(* newStateCallback: RT Ops keeps the state and wakes its loop.            *)
NewStateCallback ==
  /\ pc = "callback"
  /\ noted' = [noted EXCEPT !.state = 0]
  /\ out' = [out EXCEPT !.signal = TRUE]
  /\ pc' = "sleep"
  /\ UNCHANGED <<conn, bus, midCycle, eCatLock, image, clock, sim>>

(* C's % and /, which round towards zero.                                  *)
Rem(a, b) == IF a >= 0 THEN a % b ELSE -((-a) % b)
Quot(a, b) == IF a >= 0 THEN a \div b ELSE -((-a) \div b)

dcCorrection_Wrong ==
  Quot(Rem(clock.phase + Period \div 2, Period) - Period \div 2, Gain)

dcCorrection ==
  Quot(-(Rem(clock.phase + Period \div 2, Period) - Period \div 2), Gain)

(* Reduced to a time below a period, with the sign of % put right.         *)
sleepTime(curTime) ==
  Rem(Rem(clock.phase + dcCorrection - curTime, Period) + Period, Period)

(* The sleep until the next target, a whole period on but for the          *)
(* correction.                                                             *)
ECatSleep ==
  /\ pc = "sleep" /\ conn = "ecat"
  /\ \E work \in Works :
       LET curTime == clock.phase + clock.overshoot + work
           target  == curTime + sleepTime(curTime)
       IN clock' = [phase |-> target % Period, overshoot |-> 0,
                    lastStamp |-> clock.lastStamp - (target \div Period),
                    sleepTime |-> sleepTime(curTime)]
  /\ pc' = "check"
  /\ UNCHANGED <<conn, bus, midCycle, eCatLock, out, image, sim, noted>>

(* The other connectors are called again after a period.                   *)
UpdateHookReturns ==
  /\ pc = "sleep" /\ conn # "ecat"
  /\ pc' = CASE conn = "noop" -> "check" [] conn = "csim" -> "simulate"
             [] conn = "sim" -> "read"
  /\ UNCHANGED <<conn, bus, midCycle, eCatLock, out, image, clock, sim, noted>>

----------------------------------------------------------------------------
(* CSimConn::updateHook: the stamp, then a step of one joint.  A unit of   *)
(* velocity moves the joint by a unit in a cycle, a unit of current adds   *)
(* one to the velocity.                                                    *)

(* simHip and simLegHalf up to the end stops: the hips bear their holding  *)
(* torque, the leg halves friction.                                        *)
NewVel ==
  LET driven == sim.vel + sim.current
      slowed == CASE driven > Friction  -> driven - Friction
                  [] driven < -Friction -> driven + Friction
                  [] OTHER -> 0
  IN CASE sim.joint = "lHip" -> driven - HoldCurrent
       [] sim.joint = "rHip" -> driven + HoldCurrent
       [] sim.joint = "half" -> slowed

(* A joint past an end stop is not driven on.                              *)
AtStops(vel) ==
  IF (sim.pos < MinPos /\ vel < 0) \/ (sim.pos > MaxPos /\ vel > 0) THEN 0 ELSE vel

AdvanceStamp ==
  LET nsec == sim.nsec + Period
  IN [sim EXCEPT !.nsec = nsec % Second,
                 !.sec = (@ + nsec \div Second) % SecModulus]

Simulate ==
  /\ pc = "simulate"
  /\ LET vel == AtStops(NewVel)
     IN sim' = [AdvanceStamp EXCEPT !.vel = vel, !.pos = sim.pos + vel]
  /\ BeginCycle
  /\ pc' = "callback"
  /\ UNCHANGED <<conn, bus, midCycle, eCatLock, image, clock>>

(* SimConn::updateHook: only new data from the simulator is a new state.   *)
ReadSimulator ==
  /\ pc = "read"
  /\ \/ pc' = "callback" /\ BeginCycle
     \/ pc' = "sleep" /\ UNCHANGED <<out, noted>>
  /\ UNCHANGED <<conn, bus, midCycle, eCatLock, image, clock, sim>>

----------------------------------------------------------------------------
(* RT Ops' controller loop, as far as the connector sees it: it takes the  *)
(* last robot state, computes, and calls sendControllerOutput.             *)
Running == pc \notin {"configure", "failed", "start"}

Sent ==
  noted' = [noted EXCEPT !.answered = @ \/ (out.age = 0),
                       !.late = @ \/ (out.age # 0)]

(* ConnManager::sendControllerOutput takes eCatLock and writes the outputs *)
(* of one Medulla after the other ...                                      *)
LockOutput_NoLock ==
  /\ Running /\ out.pc = "send" /\ conn = "ecat"
  /\ out' = [out EXCEPT !.pc = "write"]
  /\ UNCHANGED <<conn, bus, pc, midCycle, eCatLock, image, clock, sim, noted>>

LockOutput ==
  /\ Running /\ out.pc = "send" /\ conn = "ecat" /\ eCatLock = "none"
  /\ eCatLock' = "out"
  /\ out' = [out EXCEPT !.pc = "write"]
  /\ UNCHANGED <<conn, bus, pc, midCycle, image, clock, sim, noted>>

ProcessTransmitData ==
  /\ out.pc = "write" /\ image # bus.slots
  /\ image' = image \cup {NextSlot(bus.slots, image)}
  /\ UNCHANGED <<conn, bus, pc, midCycle, eCatLock, out, clock, sim, noted>>

SendFrame_NotCleared ==
  /\ out.pc = "write" /\ image = bus.slots
  /\ Sent
  /\ image' = {}
  /\ eCatLock' = "none"
  /\ out' = [out EXCEPT !.pc = "wait"]
  /\ UNCHANGED <<conn, bus, pc, midCycle, clock, sim>>

(* ... sends them and clears midCycle.                                     *)
SendFrame ==
  /\ out.pc = "write" /\ image = bus.slots
  /\ Sent
  /\ midCycle' = FALSE
  /\ image' = {}
  /\ eCatLock' = "none"
  /\ out' = [out EXCEPT !.pc = "wait"]
  /\ UNCHANGED <<conn, bus, pc, clock, sim>>

(* sendControllerOutput of the other three.                                *)
NoopOutput ==
  /\ Running /\ out.pc = "send" /\ conn = "noop"
  /\ Sent /\ midCycle' = FALSE
  /\ out' = [out EXCEPT !.pc = "wait"]
  /\ UNCHANGED <<conn, bus, pc, eCatLock, image, clock, sim>>

SimOutput ==
  /\ Running /\ out.pc = "send" /\ conn \in {"csim", "sim"}
  /\ Sent
  /\ out' = [out EXCEPT !.pc = "wait"]
  /\ \E current \in Currents :
       sim' = IF conn = "csim" THEN [sim EXCEPT !.current = current] ELSE sim
  /\ UNCHANGED <<conn, bus, pc, midCycle, eCatLock, image, clock>>

(* signal.wait(), then getRobotState().                                    *)
Wait ==
  /\ out.pc = "wait" /\ out.signal
  /\ out' = [out EXCEPT !.pc = "send", !.signal = FALSE, !.age = noted.state]
  /\ UNCHANGED <<conn, bus, pc, midCycle, eCatLock, image, clock, sim, noted>>

ConnThread ==
  \/ Configure \/ Failed \/ Start
  \/ CheckDeadline \/ ReceiveFrame \/ MarkCycle \/ NewStateCallback
  \/ ECatSleep \/ UpdateHookReturns \/ Simulate \/ ReadSimulator

OutThread ==
  \/ LockOutput \/ ProcessTransmitData \/ SendFrame
  \/ NoopOutput \/ SimOutput \/ Wait

ConnNext == ConnThread \/ OutThread \/ DisableSafeties

ConnSpec ==
  /\ ConnInit /\ Deployed /\ [][ConnNext]_cvars
  /\ WF_cvars(ConnThread) /\ WF_cvars(OutThread)

----------------------------------------------------------------------------
(* The frames that either thread puts on the bus hold the outputs of one   *)
(* controller cycle: no frame goes out while processTransmitData has       *)
(* written the outputs of some Medullas and not yet those of the others    *)
(* (eCatLock).                                                             *)
NoTornFrame == ~ noted.torn

(* MISSED_DEADLINE is never a false alarm: when a cycle begins with        *)
(* midCycle still set, the controller's answer to the cycle before has not *)
(* been sent.                                                              *)
NoFalseAlarm == pc = "check" /\ midCycle => ~ noted.answered

(* A cycle the controller did not answer in time is reported, unless an    *)
(* answer to an earlier cycle came late, during that cycle.                *)
MissReportedUnlessLate ==
  pc = "check" /\ noted.begun /\ ~ noted.answered => midCycle \/ noted.late

(* The Medulla with an id answered on the bus.                             *)
Found(id) ==
  \E i \in DOMAIN bus.slaves :
    /\ bus.slaves[i].vendor = "drl" /\ bus.slaves[i].id = id
    /\ bus.slaves[i].product = IF id \in LegIDs THEN "leg" ELSE "hip"

(* Safety::shouldHalt checks the right leg unless the robot is a monopod,  *)
(* and the collision of the legs unless it is no biped.  A robot that has  *)
(* both legs whole is never taken for a monopod, whatever else is on the   *)
(* bus and in whatever order, nor a biped's hips for missing; only         *)
(* disableSafeties turns the checks off.                                   *)
WholeRobotChecked ==
  bus.configuration # "none" /\ ~ noted.disabled /\ (\A id \in LegIDs : Found(id))
    => bus.configuration = IF \A id \in HipIDs : Found(id)
                           THEN "BIPED_FULL" ELSE "BIPED_NOHIP"

(* The comment in ConnManager::loop: "Sleeptime is guaranteed to be less   *)
(* than SECOND_IN_NANOSECONDS"; and it is never negative, whatever the     *)
(* signs of the correction and of the remainder.                           *)
SleepBounded == clock.sleepTime \in 0 .. Second - 1

(* The phase of the target against the bus clock, either way.              *)
Aligned ==
  LET signed == ((clock.phase + Period \div 2) % Period) - Period \div 2
  IN signed \in -Gain + 1 .. Gain - 1

(* The correction drives the connector into the phase of the distributed   *)
(* clock, from whatever phase it starts, and then leaves it there.         *)
PhaseLocks == [](pc = "check" /\ conn = "ecat" => <>[]Aligned)

(* Once in phase, every cycle has a stamp of its own, later than the last: *)
(* a sleep that ends late is absorbed by CONTROLLER_LOOP_OFFSET_NS.        *)
StampsAdvance ==
  conn = "ecat" /\ pc = "mark" /\ pc' # pc /\ Aligned
    => clock'.lastStamp > clock.lastStamp

(* The stamp of csim counts the periods, across the carry into seconds.    *)
SimStampExact ==
  pc = "simulate" /\ pc' # pc =>
    sim'.sec * Second + sim'.nsec =
      (sim.sec * Second + sim.nsec + Period) % (SecModulus * Second)

(* The connectors keep time: the sleeps are never negative and never too   *)
(* long, the stamps only go forward, in phase with every cycle's later     *)
(* than the last, and the simulator's by a period a cycle.                 *)
TimeKept == [][SleepBounded' /\ StampsAdvance /\ SimStampExact]_cvars

(* Neither thread ever waits for the other for good: a connector that has  *)
(* started keeps coming to its sleep, and while it keeps calling back the  *)
(* controller loop keeps answering; the EtherCAT connector comes into the  *)
(* phase of the bus clock and stays in it.                                 *)
KeepsCycling ==
  /\ <>(pc # "configure") => <>(pc = "failed") \/ []<>(pc = "sleep")
  /\ []<>(pc = "callback") => []<>(out.pc = "wait") /\ []<>(out.pc = "send")
  /\ PhaseLocks

(* A deadline is reported when it was missed, and not otherwise.           *)
DeadlinesReported == NoFalseAlarm /\ MissReportedUnlessLate
=============================================================================
