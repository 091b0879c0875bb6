------------------------------- MODULE Motion -------------------------------
(***************************************************************************)
(* What the top-level controllers command: the positions that go through   *)
(* rate limiters, the startup ramp, the software E-stop, and the programs  *)
(* that play from a start to an end.  con is the controller that is        *)
(* loaded, c its members; an action is one cycle of it.                    *)
(*                                                                         *)
(* One joint of the legs and one of the hips stand for all: the code does  *)
(* the same for each.  Positions are small integers.  As in Gait, mode is  *)
(* guiIn's main_controller as it is compared and late as it is assigned.   *)
(* The first state is that after a disabled cycle, in which RT Ops runs a  *)
(* controller it has just loaded.                                          *)
(***************************************************************************)
EXTENDS Integers, Sequences

CONSTANTS
  Positions,        \* of a joint
  RATE,             \* legRateLimit, hipRateLimit, rate: over one cycle
  STARTUP_TIME,     \* of the startup controller, in cycles
  PROGRAM           \* length of a program, in cycles

ASSUME MotionConstants ==
  Positions \subseteq Nat /\ {RATE, STARTUP_TIME} \subseteq Nat /\ PROGRAM \in Nat \ {0}

VARIABLES
  con,      \* the controller
  c,        \* its members
  on,       \* rs.rtOpsState of the last cycle was ENABLED
  startup,  \* startupTimeRem; 0 in State::RUN
  out,      \* co: the command, the scale of the currents, the positions
  past      \* what the properties remember

mvars == <<con, c, on, startup, out, past>>

Joints == {"leg", "hip"}
None   == -1
Dist(a, b) == IF a > b THEN a - b ELSE b - a

(* The controllers that compare their mode with the GUI's.                 *)
Switching == {"SlipWalking", "Deadbeat", "Hopping", "StabilizedStanding",
              "ForceControlDemo"}
Limited   == Switching \cup {"Canonical", "MP", "JointPosition"}
Programs  == {"MotorSinWave", "LegSinWave", "ProgrammableTorque", "TorqueSin"}

(* setStartupEnabled(true) in the constructor.                             *)
StartupEnabled == Switching \cup {"EqPoint", "MotorSinWave"}
-----------------------------------------------------------------------------
(* ASCRateLimit: its output is its memory.                                 *)
Clamped(tgt, lo, hi) == IF tgt < lo THEN lo ELSE IF tgt > hi THEN hi ELSE tgt

rateLimit_FromTarget(lim, tgt) == Clamped(tgt, tgt - RATE, tgt + RATE)

rateLimit(lim, tgt) == Clamped(tgt, lim - RATE, lim + RATE)

(* A position that went through a limiter, one that did not, or none.      *)
Through(p) == [pos |-> p, limited |-> TRUE]
Straight(p) == [pos |-> p, limited |-> FALSE]
NoCommand == Straight(None)

(* A cycle's result: the limiters after it and what it commands.           *)
Run(lim, j, tgt)    == LET p == rateLimit(lim[j], tgt[j])
                       IN  [lim |-> p, cmd |-> Through(p)]
Direct(tgt, j)      == [lim |-> tgt[j], cmd |-> Straight(tgt[j])]
Unused(lim, j)      == [lim |-> lim[j], cmd |-> NoCommand]
RunUnused(lim, j, tgt) == [lim |-> rateLimit(lim[j], tgt[j]), cmd |-> NoCommand]
-----------------------------------------------------------------------------
(***************************************************************************)
(* updateController of the controllers that switch by main_controller: all *)
(* limiters go to the motors while disabled and on a switch.               *)
(***************************************************************************)
resetLimiters(lim, enabled, motor, mode) ==
  IF enabled /\ c.state = mode THEN lim ELSE motor

hoppingUpdate(lim, enabled, motor, mode) == resetLimiters(lim, enabled, motor, mode)

standingUpdate(lim, enabled, motor, mode) == resetLimiters(lim, enabled, motor, mode)

(* Counts the cycles of a program's time, up to its end.                   *)
More(t) == IF t < PROGRAM THEN t + 1 ELSE t

(* The time of the force control demo's programs (tL, tR), where the mode  *)
(* 1 stands for the forces and 2 for the stairs of positions, which start  *)
(* over at their end: it is counted while disabled too, and set back only  *)
(* by a switch.                                                            *)
demoTime(mode, late) ==
  LET t == IF c.state = mode THEN More(c.t) ELSE 0
  IN  IF late = 2 /\ t = PROGRAM THEN 0 ELSE t

(* Its limiters (updateState): the hips' are reset only while disabled.    *)
updateState(lim, enabled, motor, mode) ==
  [j \in Joints |-> IF enabled /\ (j = "hip" \/ c.state = mode) THEN lim[j] ELSE motor[j]]

(* Canonical walking tests its own copy, after it has assigned it.         *)
canonicalUpdate(lim, enabled, motor, late) ==
  IF late # 0 \/ ~enabled THEN [lim EXCEPT !["leg"] = motor["leg"]] ELSE lim

Updated(lim, enabled, motor, mode, late) ==
  CASE con = "ForceControlDemo"   -> updateState(lim, enabled, motor, mode)
    [] con = "Canonical"          -> canonicalUpdate(lim, enabled, motor, late)
    [] con = "Hopping"            -> hoppingUpdate(lim, enabled, motor, mode)
    [] con = "StabilizedStanding" -> standingUpdate(lim, enabled, motor, mode)
    [] OTHER                      -> resetLimiters(lim, enabled, motor, mode)

(* The hips of SLIP walking: limited in every mode, damped in shutdown.    *)
hipController(lim, tgt, late) ==
  IF late = 2 THEN RunUnused(lim, "hip", tgt) ELSE Run(lim, "hip", tgt)

(* The demo's hips are limited in every mode.                              *)
demoHip(lim, tgt) == Run(lim, "hip", tgt)

(* The canonical hips: limited while standing, else straight to the target *)
canonicalHip(lim, enabled, motor, tgt, late) ==
  LET l == IF enabled THEN lim ELSE [lim EXCEPT !["hip"] = motor["hip"]]
  IN  IF late = 0 THEN Run(l, "hip", tgt) ELSE Direct(tgt, "hip")

(* Standing moves the legs through limiters; walking, the regulator and    *)
(* the dampers do not use them.                                            *)
StandingLegs(lim, tgt, late) == IF late = 0 THEN Run(lim, "leg", tgt) ELSE Unused(lim, "leg")

(* Hopping uses them in flight too; they are not reset at take-off.        *)
HoppingLegs(lim, tgt, late, flight) ==
  IF late = 0 \/ (late = 1 /\ flight) THEN Run(lim, "leg", tgt) ELSE Unused(lim, "leg")

SwitchingJoints(enabled, motor, tgt, mode, late, flight) ==
  LET lim == Updated(c.lim, enabled, motor, mode, late)
  IN  [leg |-> IF con = "Hopping" THEN HoppingLegs(lim, tgt, late, flight)
               ELSE StandingLegs(lim, tgt, late),
       hip |-> CASE con = "Canonical" -> canonicalHip(lim, enabled, motor, tgt, late)
                 [] con = "ForceControlDemo" -> demoHip(lim, tgt)
                 [] OTHER -> hipController(lim, tgt, late)]

(* Motor position: limited always, reset while disabled.                   *)
ATCMP(enabled, motor, tgt) ==
  LET lim == IF enabled THEN c.lim ELSE motor
  IN  [j \in Joints |-> Run(lim, j, tgt)]

(* Joint position, legs: limited if motion is to be smooth.                *)
runLeg(lim, tgt, smooth) == IF smooth THEN Run(lim, "leg", tgt) ELSE Direct(tgt, "leg")

(* Joint position, hips.  To keep the hips vertical the limiter is run     *)
(* twice a cycle until it has reached the kinematic constraint (fast).     *)
VerticalHip(lim, tgt, fast) ==
  IF fast THEN Direct(tgt, "hip")
  ELSE Run([lim EXCEPT !["hip"] = rateLimit(@, tgt["hip"])], "hip", tgt)

JointHip(lim, tgt, fast, vertical, smooth) ==
  IF vertical THEN VerticalHip(lim, tgt, fast)
  ELSE IF smooth THEN Run(lim, "hip", tgt) ELSE Direct(tgt, "hip")

JointPosition(enabled, motor, tgt, vertical, smooth) ==
  LET lim == IF enabled THEN c.lim ELSE motor
  IN  [leg |-> runLeg(lim, tgt, smooth),
       hip |-> JointHip(lim, tgt, enabled /\ c.fast, vertical, smooth)]

NextFast(enabled, hip, tgt, vertical, smooth) ==
  IF vertical THEN (enabled /\ c.fast) \/ hip.lim = tgt["hip"] ELSE ~smooth
-----------------------------------------------------------------------------
(***************************************************************************)
(* runController of ATC: the ramp begins when rtOpsState becomes ENABLED,  *)
(* the command starts as run, and the startup controller scales what       *)
(* controller() has left in co.                                            *)
(***************************************************************************)
BeginStartup(enabled) ==
  IF con \in StartupEnabled /\ ~on /\ enabled THEN STARTUP_TIME ELSE startup

startupController(rem) == IF rem = 0 THEN 0 ELSE rem - 1

Scale(rem) == STARTUP_TIME - rem

commandEStop(cmd, estop) == IF estop THEN "error" ELSE cmd

(* checkSafeties: motors too fast; two controllers look at the springs.    *)
checkSafeties(fault)     == fault = "fast"
deadbeatSafeties(fault)  == fault = "fast"
standingSafeties(fault)  == fault \in {"fast", "bent"}
checkLimits(fault)       == fault \in {"fast", "bent"}

Unsafe(fault) ==
  \/ con = "SlipWalking" /\ checkSafeties(fault)
  \/ con = "Deadbeat" /\ deadbeatSafeties(fault)
  \/ con = "StabilizedStanding" /\ standingSafeties(fault)
  \/ con = "Canonical" /\ checkLimits(fault)

Near(p, q, d) == Dist(p, q) <= d

(* Hopping leaves stance, in which its legs' limiters have neither been    *)
(* run nor reset: they go on from where the last flight left them.         *)
TakesOff(j) ==
  con = "Hopping" /\ j = "leg" /\ on /\ c.state = 1 /\ j \notin past.used

(* Did this cycle's command of joint j leap?                               *)
Leaps(j, cmd, enabled, motor, switched, d) ==
  /\ cmd.limited
  /\ ~(IF ~enabled THEN Near(cmd.pos, motor[j], d)
       ELSE IF switched THEN Near(cmd.pos, motor[j], d) \/ Near(cmd.pos, past.ref[j], d)
       ELSE TakesOff(j) \/ Near(cmd.pos, past.ref[j], d))

ATC(enabled, motor, result, switched, raced, d, fault) ==
  LET rem   == BeginStartup(enabled)
      since == IF ~enabled \/ ~on THEN 0
               ELSE IF past.since < STARTUP_TIME THEN past.since + 1 ELSE past.since
  IN  /\ on' = enabled
      /\ startup' = startupController(rem)
      /\ out' = [command |-> commandEStop("run", Unsafe(fault)),
                 scale |-> Scale(rem)]
      /\ past' = [ref   |-> [j \in Joints |-> IF result[j].cmd.pos = None THEN motor[j]
                                              ELSE result[j].cmd.pos],
                  used  |-> {j \in Joints : result[j].cmd.pos # None},
                  since |-> since, over |-> fault = "fast", rested |-> TRUE,
                  leapt |-> ~raced /\ \E j \in Joints :
                              Leaps(j, result[j].cmd, enabled, motor, switched, d)]
      /\ UNCHANGED con

Lims(result) == [j \in Joints |-> result[j].lim]

SwitchingCycle(enabled, motor, tgt, mode, late, flight, fault) ==
  LET r == SwitchingJoints(enabled, motor, tgt, mode, late, flight)
  IN  /\ con \in Switching \cup {"Canonical"}
      /\ ATC(enabled, motor, r, late # c.state,
             late # mode /\ con # "Canonical", RATE, fault)
      /\ c' = [c EXCEPT !.state = late, !.lim = Lims(r),
                        !.t = IF con = "ForceControlDemo" THEN demoTime(mode, late) ELSE 0,
                        !.first = con = "ForceControlDemo" /\ late = mode /\ late # c.state]

MotorPositionCycle(enabled, motor, tgt) ==
  LET r == ATCMP(enabled, motor, tgt)
  IN  /\ con = "MP"
      /\ ATC(enabled, motor, r, FALSE, FALSE, RATE, "none")
      /\ c' = [c EXCEPT !.lim = Lims(r)]

JointPositionCycle(enabled, motor, tgt, vertical, smooth) ==
  LET r == JointPosition(enabled, motor, tgt, vertical, smooth)
  IN  /\ con = "JointPosition"
      /\ ATC(enabled, motor, r, FALSE, FALSE, 2 * RATE, "none")
      /\ c' = [c EXCEPT !.lim = Lims(r),
                        !.fast = NextFast(enabled, r.hip, tgt, vertical, smooth)]
-----------------------------------------------------------------------------
(***************************************************************************)
(* Programs.  c.t counts the cycles played, up to PROGRAM; played is the   *)
(* one this cycle plays, None if it plays none.                            *)
(***************************************************************************)
(* The sine of the motors goes on from t = 0 while disabled.               *)
MotorSinWave_Runs(enabled) == [t |-> More(c.t), played |-> c.t]

MotorSinWave(enabled) ==
  LET t == IF enabled THEN c.t ELSE 0 IN [t |-> More(t), played |-> t]

LegSinWave(enabled) ==
  IF enabled THEN [t |-> More(c.t), played |-> c.t] ELSE [t |-> 0, played |-> None]

(* The torque file is played once; then the current is 0 until disabled.   *)
ProgrammableTorque(enabled) ==
  IF ~enabled THEN [t |-> 0, played |-> None]
  ELSE IF c.t < PROGRAM THEN [t |-> c.t + 1, played |-> c.t]
  ELSE [t |-> c.t, played |-> None]

(* The torque sine starts afresh for another motor, not when enabled.      *)
TorqueSin(enabled, newMotor) ==
  LET t == IF newMotor THEN 0 ELSE c.t
  IN  IF enabled THEN [t |-> More(t), played |-> t] ELSE [t |-> c.t, played |-> None]

Play(enabled, newMotor) ==
  CASE con = "MotorSinWave"       -> MotorSinWave(enabled)
    [] con = "LegSinWave"         -> LegSinWave(enabled)
    [] con = "ProgrammableTorque" -> ProgrammableTorque(enabled)
    [] con = "TorqueSin"          -> TorqueSin(enabled, newMotor)

ProgramCycle(enabled, newMotor) ==
  LET p == Play(enabled, newMotor)
      nothing == [j \in Joints |-> [lim |-> None, cmd |-> NoCommand]]
  IN  /\ con \in Programs
      /\ ATC(enabled, past.ref, nothing, FALSE, FALSE, RATE, "none")
      /\ c' = [t |-> p.t, played |-> p.played, first |-> enabled /\ ~on]
-----------------------------------------------------------------------------
(***************************************************************************)
(* The range of motion demo.  Six smooth path generators (external) move   *)
(* the joints to la, lb, ra, rb; angles are in milliradians.               *)
(***************************************************************************)
A_MIN == -305
A_MAX == 2356
B_MIN == 785
B_MAX == 3447
DIFF_MIN == 450
DIFF_MAX == 2000
SAFE     == 300

Neutral == [la |-> 1571 - SAFE, lb |-> 1571 + SAFE, ra |-> 1571 - SAFE, rb |-> 1571 + SAFE]

DemoPose(step, p) ==
  CASE step = 0 -> [la |-> A_MIN + SAFE, lb |-> A_MIN + SAFE + (DIFF_MAX - SAFE),
                    ra |-> B_MAX - SAFE - (DIFF_MAX - SAFE), rb |-> B_MAX - SAFE]
    [] step = 1 -> [p EXCEPT !.lb = B_MIN + SAFE, !.ra = A_MAX - SAFE]
    [] step = 2 -> [la |-> A_MAX - SAFE, lb |-> B_MAX - SAFE,
                    ra |-> A_MIN + SAFE, rb |-> B_MIN + SAFE]
    [] step = 3 -> [p EXCEPT !.la = p.lb - (DIFF_MAX - SAFE), !.rb = p.ra + (DIFF_MAX - SAFE)]
    [] step = 4 -> Neutral

(* Targets are computed in every cycle, and handed to the generators when  *)
(* all six have finished.                                                  *)
AutoDemo(finished) ==
  IF c.step = 5 THEN [c EXCEPT !.step = 0]
  ELSE LET p == DemoPose(c.step, c.pose)
       IN  IF finished THEN [c EXCEPT !.pose = p, !.going = p, !.step = @ + 1]
           ELSE [c EXCEPT !.pose = p]

ManualDemo(finished) == IF finished THEN [c EXCEPT !.step = 0] ELSE c

DemoCycle(enabled, mode, finished) ==
  /\ con = "RangeOfMotion"
  /\ c' = IF ~enabled THEN c
          ELSE IF mode = 1 THEN AutoDemo(finished) ELSE ManualDemo(finished)
  /\ UNCHANGED <<con, on, startup, out, past>>
-----------------------------------------------------------------------------
(***************************************************************************)
(* The fast leg swing.  Six smooth path generators (external; done: they   *)
(* finish in this cycle) bring the joints to where six sine generators     *)
(* start.  A disabled cycle marks the former finished; phase is that of    *)
(* the sines.  cmd tells what the desired positions are: the motors' own,  *)
(* the path's, the sines', or the local variables left uninitialised.      *)
(***************************************************************************)
FastLegSwing(enabled, demo, done) ==
  LET ready == (~enabled \/ c.finished) /\ demo = c.running
      swing == demo /\ ready
  IN  [running |-> demo, finished |-> ready \/ (enabled /\ done),
       phase |-> IF swing THEN More(c.phase) ELSE 0,
       at    |-> IF swing THEN c.phase ELSE None,
       cmd   |-> IF swing THEN "sine"
                 ELSE IF ~enabled THEN "motors"
                 ELSE IF ~ready THEN "path" ELSE "undefined"]

SwingCycle(enabled, demo, done) ==
  /\ con = "FastLegSwing"
  /\ c' = FastLegSwing(enabled, demo, done)
  /\ on' = enabled
  /\ past' = [past EXCEPT !.rested = c.cmd # "sine", !.since = IF enabled /\ on THEN 1 ELSE 0]
  /\ UNCHANGED <<con, startup, out>>
-----------------------------------------------------------------------------
MotionInit ==
  /\ con \in Limited \cup Programs \cup {"RangeOfMotion", "FastLegSwing"}
  /\ on = FALSE
  /\ startup = 0
  /\ out = [command |-> "run", scale |-> STARTUP_TIME]
  /\ \E p \in Positions :
       /\ c = CASE con \in Limited  -> [state |-> 0, lim |-> [j \in Joints |-> p], fast |-> FALSE,
                                      t |-> 0, first |-> FALSE]
                [] con \in Programs -> [t |-> 0, played |-> None, first |-> FALSE]
                [] con = "FastLegSwing" -> [running |-> FALSE, finished |-> TRUE,
                                            phase |-> 0, at |-> None, cmd |-> "motors"]
                [] OTHER            -> [step |-> 0, pose |-> Neutral, going |-> Neutral]
       /\ past = [ref |-> [j \in Joints |-> p], used |-> {},
                  since |-> 0, over |-> FALSE, rested |-> TRUE, leapt |-> FALSE]

(* Both joints are given the same inputs: they do not depend on each other *)
Both(p) == [j \in Joints |-> p]

MotionNext ==
  \E enabled \in BOOLEAN :
    \/ /\ con \in Limited
       /\ \E motor, tgt \in Positions :
            \/ /\ con \in Switching \cup {"Canonical"}
               /\ \E mode, late \in 0..2, fault \in {"none", "fast", "bent"},
                     flight \in IF con = "Hopping" THEN BOOLEAN ELSE {FALSE} :
                    SwitchingCycle(enabled, Both(motor), Both(tgt), mode, late,
                                   flight, fault)
            \/ MotorPositionCycle(enabled, Both(motor), Both(tgt))
            \/ \E vertical, smooth \in BOOLEAN :
                 JointPositionCycle(enabled, Both(motor), Both(tgt), vertical, smooth)
    \/ \E newMotor \in BOOLEAN : ProgramCycle(enabled, newMotor)
    \/ \E mode \in 0..1, finished \in BOOLEAN : DemoCycle(enabled, mode, finished)
    \/ \E demo, done \in BOOLEAN : SwingCycle(enabled, demo, done)

MotionSpec == MotionInit /\ [][MotionNext]_mvars
-----------------------------------------------------------------------------
(***************************************************************************)
(* No command that goes through a rate limiter leaps: while disabled it is *)
(* within one step of the motor, in a cycle that switches the mode within  *)
(* one step of the motor or of the last command, else of the last command  *)
(* (two steps for the vertical hips of joint position, whose limiter is    *)
(* run twice); so the motor does not jump on enabling, however it was      *)
(* moved and whatever was set meanwhile.  Two leaps are excepted: that of  *)
(* a switch that comes between the comparison and the assignment of the    *)
(* mode (raced), and that of hopping's take-off, whose limiters stand      *)
(* where the last flight left them, not where the legs are (TakesOff).     *)
(* What does not go through a limiter is not spoken of: stance, walking,   *)
(* dampers, the demo's stairs.                                             *)
(***************************************************************************)
NoLeap == ~past.leapt

(***************************************************************************)
(* With the startup controller on, the n-th cycle after each enabling      *)
(* scales the currents by n/STARTUP_TIME, also when the robot was disabled *)
(* in the middle of the last ramp, which goes on while disabled            *)
(* (ATC::runController, startupController).                                *)
(***************************************************************************)
RampsFromZero == con \in StartupEnabled /\ on => out.scale = past.since

(***************************************************************************)
(* A motor over the speed limit makes the command of the same cycle an     *)
(* E-stop, in every mode and in the middle of the ramp (checkSafeties).    *)
(***************************************************************************)
OverspeedStops ==
  past.over /\ con \in {"SlipWalking", "Deadbeat", "StabilizedStanding", "Canonical"}
    => out.command = "error"

(***************************************************************************)
(* The controllers that play something over time, and those of them that   *)
(* go on from where they were when the robot is enabled: the torque sine,  *)
(* which starts over for a new motor only; the force control demo, whose   *)
(* time runs on while disabled; the range of motion demo, in the middle of *)
(* its path.                                                               *)
(***************************************************************************)
Timed  == Programs \cup {"ForceControlDemo", "RangeOfMotion"}
GoesOn == {"TorqueSin", "ForceControlDemo", "RangeOfMotion"}

(***************************************************************************)
(* Any other program that is stopped by disabling the robot starts over    *)
(* when it is enabled: it never goes on in the middle with the motors      *)
(* elsewhere (one cycle late for the motors' sine, which computes its      *)
(* start while disabled).  The force control demo's programs start over    *)
(* when the user switches to them, unless the switch comes between the     *)
(* comparison and the assignment of the mode (c.first says when).          *)
(***************************************************************************)
StartsOver ==
  /\ con \in Timed \ GoesOn /\ c.first => c.played \in 0..1
  /\ con = "ForceControlDemo" /\ c.first => c.t = 0

(***************************************************************************)
(* The poses the range of motion demo hands to the path generators keep    *)
(* the distance from the stops and from too wide a leg, whatever step the  *)
(* user enters and leaves it at; between two poses the paths, which run    *)
(* over the same time, stay within them.                                   *)
(***************************************************************************)
PosesWithinStops ==
  con = "RangeOfMotion" =>
    LET g == c.going IN
    /\ {g.la, g.ra} \subseteq (A_MIN + SAFE) .. (A_MAX - SAFE)
    /\ {g.lb, g.rb} \subseteq (B_MIN + SAFE) .. (B_MAX - SAFE)
    /\ {g.lb - g.la, g.rb - g.ra} \subseteq DIFF_MIN .. (DIFF_MAX - SAFE)

(***************************************************************************)
(* The sines of the fast leg swing start at phase 0, where the smooth      *)
(* paths leave the legs, whatever the order in which the demo and the      *)
(* robot are switched on and off.                                          *)
(***************************************************************************)
SwingFromRest ==
  con = "FastLegSwing" /\ past.rested /\ c.cmd = "sine" => c.at = 0

(***************************************************************************)
(* What is commanded is safe to follow: a limited position does not leap,  *)
(* but for the two leaps NoLeap names; no pose of the range of motion demo *)
(* leads into a stop; a motor that is too fast makes it an E-stop.         *)
(***************************************************************************)
CommandsSafe == NoLeap /\ OverspeedStops /\ PosesWithinStops

(***************************************************************************)
(* When the robot is enabled again the startup ramp begins at zero, and    *)
(* programs and sines start over, but for those that go on (GoesOn).       *)
(***************************************************************************)
StartsAfresh == RampsFromZero /\ StartsOver /\ SwingFromRest
=============================================================================
