-------------------------------- MODULE Gait --------------------------------
(***************************************************************************)
(* The step machines of the walking controllers: which leg stands, which   *)
(* one swings, where a swing starts from and how far it has come, and the  *)
(* rest lengths of the virtual springs the stance legs follow.             *)
(*                                                                         *)
(* ctl is the controller that is loaded, m its member variables.  An       *)
(* action is one cycle: runController, in RT Ops's loop thread, on one     *)
(* robot state.  guiIn is written by guiInCallback in the component's own  *)
(* thread without a lock; a message that comes while updateController runs *)
(* is seen by its assignments and not by the comparison before them.  So a *)
(* cycle compares with gui and assigns from late, which is gui or a newer  *)
(* message.                                                                *)
(*                                                                         *)
(* Angles are small integers that grow as a leg moves back; a leg's angle  *)
(* in the world is its angle to the torso plus the pitch.  A gait          *)
(* parameter s is kept in quarters.  Motor and leg angle are one: their    *)
(* difference, the springs' deflection, is an input.                       *)
(***************************************************************************)
EXTENDS Integers, Sequences

CONSTANTS
  Angles,           \* a leg's angle to the torso
  Pitches,          \* the torso's pitch
  Lengths,          \* leg_length of the GUI
  VERTICAL,         \* M_PI/2
  SPRING_RATE       \* springRateLimit over one cycle

ASSUME GaitConstants ==
  /\ Angles \cup Pitches \cup Lengths \cup {VERTICAL} \subseteq Int
  /\ SPRING_RATE \in Nat

VARIABLES
  ctl,    \* the controller
  gui,    \* guiIn.main_controller
  m,      \* the controller's members
  hist    \* what the properties remember

gvars == <<ctl, gui, m, hist>>

Legs      == {"L", "R"}
Other(l)  == IF l = "L" THEN "R" ELSE "L"
Walkers   == {"SlipWalking", "Deadbeat"}
GuiInputs == [mode : 0..2, r0 : Lengths]

(* One reading of the sensors.                                             *)
Readings == [angle : [Legs -> Angles], pitch : Pitches]

(* What may trigger the next step: the gait's angles (switchMethod 1), the *)
(* flight leg being loaded or free, by its toe in single and its spring in *)
(* double support (switchMethod 0), or the GUI's buttons.                  *)
Triggers == {"gait", "loaded", "free", "hand"}

Within(tgt, lo, hi) == IF tgt < lo THEN lo ELSE IF tgt > hi THEN hi ELSE tgt

(* operator() of the rate limiter; its output is its memory.               *)
RateLimit(out, tgt, rate) == Within(tgt, out - rate, out + rate)

World(m0, rs, leg) == rs.angle[leg] + m0.qb
-----------------------------------------------------------------------------
(***************************************************************************)
(* SLIP walking.  walkingState 0 and 3 stand on the right leg, 1 and 2 on  *)
(* the left; the odd ones are double support.                              *)
(***************************************************************************)
StanceLeg(w) == IF w \in {0, 3} THEN "R" ELSE "L"
FlightLeg(w) == Other(StanceLeg(w))

SlipWalking == [controllerState |-> 0, walkingState |-> 3, sPrev |-> 0,
                qe |-> 0, qb |-> 0, r0 |-> 0, flag |-> FALSE,
                r0lim |-> [l \in Legs |-> 0]]

(* The gait's angles q2 and q3.                                            *)
SlipAngles(m0) == [q2 |-> VERTICAL - 1, q3 |-> VERTICAL + 1]

(* The same at 0.5 m/s, and after the Poincare section at 0.75 m/s.        *)
PoincareAngles(flag) == IF flag THEN [q2 |-> VERTICAL - 1, q3 |-> VERTICAL + 1]
                                ELSE [q2 |-> VERTICAL - 2, q3 |-> VERTICAL + 2]

GaitAngles(m0) == IF ctl = "Deadbeat" THEN PoincareAngles(m0.flag) ELSE SlipAngles(m0)

(* The limiters start again at the old leg length, before r0 is assigned.  *)
updateController(m0, enabled, late) ==
  [m0 EXCEPT !.r0lim = IF enabled /\ m0.controllerState = gui THEN @
                       ELSE [l \in Legs |-> m0.r0],
             !.controllerState = late.mode,
             !.r0 = late.r0]

(* qb is the pitch that was computed last, maybe in an earlier cycle.      *)
resetFlightLegParameters(m0, rs, leg) ==
  [m0 EXCEPT !.r0lim[leg] = m0.r0, !.sPrev = 0, !.qe = World(m0, rs, leg)]

(* The standing controller takes the pitch after the reset.                *)
standingController(m0, rs) == [m0 EXCEPT !.qb = rs.pitch]

Stand(m0, rs) ==
  standingController([resetFlightLegParameters(m0, rs, "L") EXCEPT !.walkingState = 3], rs)

(* The shutdown controller damps the motors and computes no pitch.         *)
Shutdown(m0, rs) == [resetFlightLegParameters(m0, rs, "L") EXCEPT !.walkingState = 3]

stanceController(m0, rs, leg) ==
  [m0 EXCEPT !.r0lim[leg] = RateLimit(@, m0.r0, SPRING_RATE), !.qb = rs.pitch]

(* Four times s = (qSl - q2)/(q3 - q2).                                    *)
GaitParameter(m0, qSl) ==
  LET q == GaitAngles(m0) IN (4 * (qSl - q.q2)) \div (q.q3 - q.q2)

(* "Make s only increase".                                                 *)
swung(m0, rs, leg) ==
  LET n == [m0 EXCEPT !.qb = rs.pitch]
      s == GaitParameter(n, World(n, rs, leg))
  IN  [n EXCEPT !.sPrev = IF s < @ THEN @ ELSE s]

legSwingController(m0, rs, leg) == swung(m0, rs, leg)

Advance(m0) == [m0 EXCEPT !.walkingState = (@ + 1) % 4]

(* Flight leg touch down: by the toe, by the gait, or by hand.             *)
singleSupportEvents(m0, rs, by) ==
  LET n   == [m0 EXCEPT !.qb = rs.pitch]
      q   == GaitAngles(n)
      qSl == World(n, rs, StanceLeg(n.walkingState))
      qFl == World(n, rs, FlightLeg(n.walkingState))
      trigger == \/ by \in {"loaded", "hand"}
                 \/ by = "gait" /\ qSl >= q.q3 /\ qFl <= q.q2
  IN  IF trigger /\ qFl <= VERTICAL THEN Advance(n) ELSE n

(* Flight leg take off: when its spring is let go, by the gait or by hand. *)
doubleSupportEvents_NoReset(m0, rs, by) ==
  LET n   == [m0 EXCEPT !.qb = rs.pitch]
      leg == FlightLeg(n.walkingState)
      trigger == \/ by \in {"free", "hand"}
                 \/ by = "gait" /\ World(n, rs, Other(leg)) >= GaitAngles(n).q2
  IN  IF trigger /\ World(n, rs, leg) >= VERTICAL THEN Advance(n) ELSE n

doubleSupportEvents(m0, rs, by) ==
  LET n   == [m0 EXCEPT !.qb = rs.pitch]
      leg == FlightLeg(n.walkingState)
      trigger == \/ by \in {"free", "hand"}
                 \/ by = "gait" /\ World(n, rs, Other(leg)) >= GaitAngles(n).q2
  IN  IF trigger /\ World(n, rs, leg) >= VERTICAL
      THEN resetFlightLegParameters(Advance(n), rs, leg) ELSE n

SingleSupport(m0, rs, by) ==
  LET st == StanceLeg(m0.walkingState)
  IN  singleSupportEvents(stanceController(legSwingController(m0, rs, st), rs, st),
                          rs, by)

DoubleSupport(m0, rs, by) ==
  LET fl == FlightLeg(m0.walkingState)
  IN  doubleSupportEvents(stanceController(stanceController(m0, rs, fl), rs, Other(fl)),
                          rs, by)
-----------------------------------------------------------------------------
(***************************************************************************)
(* Deadbeat control began as a copy of SLIP walking.  Its forces, which    *)
(* are not modelled, and its gait's angles are its own: the swing looks    *)
(* whether the stance leg passes the vertical, by its angle to the torso.  *)
(***************************************************************************)
Deadbeat == SlipWalking

deadbeatUpdate(m0, enabled, late) == updateController(m0, enabled, late)

deadbeatStance(m0, rs, leg) == stanceController(m0, rs, leg)

deadbeatSwing(m0, rs, leg) ==
  swung([m0 EXCEPT !.flag = @ \/ rs.angle[leg] = VERTICAL], rs, leg)

deadbeatTouchDown(m0, rs, by) == singleSupportEvents(m0, rs, by)

deadbeatTakeOff(m0, rs, by) == doubleSupportEvents(m0, rs, by)

DeadbeatWalks(m0, rs, by) ==
  LET st == StanceLeg(m0.walkingState)
      fl == Other(st)
  IN  IF m0.walkingState \in {0, 2}
      THEN deadbeatTouchDown(deadbeatStance(deadbeatSwing(m0, rs, st), rs, st), rs, by)
      ELSE deadbeatTakeOff(deadbeatStance(deadbeatStance(m0, rs, fl), rs, st), rs, by)

Update(m0, enabled, late) ==
  IF ctl = "Deadbeat" THEN deadbeatUpdate(m0, enabled, late)
  ELSE updateController(m0, enabled, late)
-----------------------------------------------------------------------------
(***************************************************************************)
(* The equilibrium point controller.  t is the phase of the step, in       *)
(* quarters; state 1 stands on the right leg, 2 on the left, 0 waits for   *)
(* the startup controller.                                                 *)
(***************************************************************************)
EqPoint == [state |-> 0, t |-> 0, sw_stance |-> FALSE, sw_flight |-> FALSE,
            idle |-> FALSE]

(* control 0 of the GUI makes it idle until the robot is disabled.         *)
IdleMode(m0, enabled, control) ==
  [m0 EXCEPT !.idle = (@ /\ enabled) \/ control = 0]

EqStartup(m0, starting) ==
  IF starting THEN m0
  ELSE [m0 EXCEPT !.state = 2, !.sw_flight = TRUE, !.sw_stance = TRUE, !.t = 4]

StepOver(m0, s) == [m0 EXCEPT !.state = s, !.sw_stance = FALSE, !.sw_flight = FALSE, !.t = 0]

SwitchFrom(m0, s, ground) ==
  IF m0.state = s /\ m0.t = 4 /\ ground THEN StepOver(m0, 3 - s) ELSE m0

(* Manual stepping waits for the GUI's ground contact, automatic does not. *)
Switch(m0, rGC, lGC) == SwitchFrom(SwitchFrom(m0, 2, rGC), 1, lGC)

(* The stance leg's angle drives t; atPea: the stance motor has come to    *)
(* the posterior extreme.                                                  *)
CommandLegs(m0, s, atPea) ==
  LET n == [m0 EXCEPT !.t = IF s > @ THEN s ELSE @, !.sw_stance = @ \/ atPea]
  IN  [n EXCEPT !.sw_flight = @ \/ n.t = 4]

EqStep(m0, control, rGC, lGC, s, atPea) ==
  CommandLegs(CASE control = 1 -> Switch(m0, rGC, lGC)
                [] control = 2 -> Switch(m0, TRUE, TRUE)
                [] OTHER       -> m0, s, atPea)
-----------------------------------------------------------------------------
(***************************************************************************)
(* SLIP hopping and canonical walking.                                     *)
(***************************************************************************)
Hopping == [controllerState |-> 0, hoppingState |-> 0]

(* The right leg's touch down is computed from the left leg's data.        *)
ballisticEvents(m0, left) == IF left THEN [m0 EXCEPT !.hoppingState = 1] ELSE m0

stanceEvents(m0, left, right) ==
  IF left /\ right THEN [m0 EXCEPT !.hoppingState = 0] ELSE m0

Hop(m0, loaded) ==
  IF m0.hoppingState = 0 THEN ballisticEvents(m0, "L" \in loaded)
  ELSE stanceEvents(m0, "L" \notin loaded, "R" \notin loaded)

Canonical == [controllerState |-> 0, sleg |-> "L"]

(* The stance leg changes at the end of its stride, if tau is the stance   *)
(* leg's angle and not set by hand.                                        *)
walkingController(m0, atEnd, byAngle) ==
  [m0 EXCEPT !.sleg = IF byAngle /\ atEnd[@] THEN Other(@) ELSE @]
-----------------------------------------------------------------------------
GaitInit ==
  /\ ctl \in Walkers \cup {"EqPoint", "Hopping", "Canonical"}
  /\ gui = 0
  /\ m = CASE ctl = "SlipWalking" -> SlipWalking
           [] ctl = "Deadbeat"  -> Deadbeat
           [] ctl = "EqPoint"   -> EqPoint
           [] ctl = "Hopping"   -> Hopping
           [] ctl = "Canonical" -> Canonical
  /\ hist = [flying |-> "none", takeoff |-> 0, stepped |-> FALSE, raced |-> FALSE,
             started |-> FALSE]

(* guiIn changes between two cycles.                                       *)
guiInCallback ==
  /\ ctl \in Walkers
  /\ gui' \in 0..2
  /\ UNCHANGED <<ctl, m, hist>>

(* What the history remembers of a walker's cycle from m0 to m.            *)
Flying(m0) == IF m0.controllerState = 1 /\ m0.walkingState \in {0, 2}
              THEN FlightLeg(m0.walkingState) ELSE "none"

Remember(late, rs) ==
  hist' = [flying  |-> Flying(m'),
           stepped |-> FALSE,
           takeoff |-> IF Flying(m') # "none" /\ hist.flying = "none"
                       THEN rs.angle[Flying(m')] + rs.pitch ELSE hist.takeoff,
           raced   |-> late.mode # gui,
           started |-> m'.controllerState = 1 /\ m.controllerState # 1]

StandCycle(enabled, late, rs) ==
  /\ late.mode = 0
  /\ gui' = late.mode
  /\ m' = Stand(Update(m, enabled, late), rs)
  /\ Remember(late, rs)
  /\ UNCHANGED ctl

ShutdownCycle(enabled, late, rs) ==
  /\ late.mode = 2
  /\ gui' = late.mode
  /\ m' = Shutdown(Update(m, enabled, late), rs)
  /\ Remember(late, rs)
  /\ UNCHANGED ctl

SingleSupportCycle(enabled, late, rs, by) ==
  /\ ctl = "SlipWalking"
  /\ late.mode = 1
  /\ m.walkingState \in {0, 2}
  /\ gui' = late.mode
  /\ m' = SingleSupport(updateController(m, enabled, late), rs, by)
  /\ Remember(late, rs)
  /\ UNCHANGED ctl

DoubleSupportCycle(enabled, late, rs, by) ==
  /\ ctl = "SlipWalking"
  /\ late.mode = 1
  /\ m.walkingState \in {1, 3}
  /\ gui' = late.mode
  /\ m' = DoubleSupport(updateController(m, enabled, late), rs, by)
  /\ Remember(late, rs)
  /\ UNCHANGED ctl

DeadbeatCycle(enabled, late, rs, by) ==
  /\ ctl = "Deadbeat"
  /\ late.mode = 1
  /\ gui' = late.mode
  /\ m' = DeadbeatWalks(deadbeatUpdate(m, enabled, late), rs, by)
  /\ Remember(late, rs)
  /\ UNCHANGED ctl

WalkingController(enabled, late, rs) ==
  \/ StandCycle(enabled, late, rs)
  \/ ShutdownCycle(enabled, late, rs)
  \/ \E by \in Triggers :
       \/ SingleSupportCycle(enabled, late, rs, by)
       \/ DoubleSupportCycle(enabled, late, rs, by)
       \/ DeadbeatCycle(enabled, late, rs, by)

EqPointController(enabled, control, starting, s, atPea, rGC, lGC) ==
  LET n == IdleMode(m, enabled, control)
  IN  /\ m' = IF n.idle \/ ~enabled THEN n
              ELSE IF n.state = 0 THEN EqStartup(n, starting)
              ELSE EqStep(n, control, rGC, lGC, s, atPea)
      /\ hist' = [hist EXCEPT !.stepped = m.state # 0 /\ m'.state # m.state,
                              !.takeoff = s]
      /\ UNCHANGED <<ctl, gui>>

HoppingController(mode, loaded) ==
  LET n == [m EXCEPT !.controllerState = mode]
  IN  /\ m' = CASE mode = 0 -> [n EXCEPT !.hoppingState = 0]
                [] mode = 1 -> Hop(n, loaded)
                [] mode = 2 -> n
      /\ UNCHANGED <<ctl, gui, hist>>

CanonicalController(mode, atEnd, byAngle) ==
  LET n == [m EXCEPT !.controllerState = mode]
  IN  /\ m' = IF mode = 1 THEN walkingController(n, atEnd, byAngle) ELSE n
      /\ UNCHANGED <<ctl, gui, hist>>

GaitNext ==
  \/ guiInCallback
  \/ /\ ctl \in Walkers
     /\ \E enabled \in BOOLEAN, late \in GuiInputs, rs \in Readings :
          WalkingController(enabled, late, rs)
  \/ /\ ctl = "EqPoint"
     /\ \E enabled, starting, atPea, rGC, lGC \in BOOLEAN, control \in 0..2, s \in 0..4 :
          EqPointController(enabled, control, starting, s, atPea, rGC, lGC)
  \/ /\ ctl = "Hopping"
     /\ \E mode \in 0..2, loaded \in SUBSET Legs : HoppingController(mode, loaded)
  \/ /\ ctl = "Canonical"
     /\ \E mode \in 0..2, atEnd \in [Legs -> BOOLEAN], byAngle \in BOOLEAN :
          CanonicalController(mode, atEnd, byAngle)

GaitSpec == GaitInit /\ [][GaitNext]_gvars
-----------------------------------------------------------------------------
Walking == ctl \in Walkers /\ m.controllerState = 1

(***************************************************************************)
(* In single support the swing interpolates from where this leg was when   *)
(* it took off: exit conditions computed while standing, with the pitch of *)
(* an earlier cycle, or of the other leg's step are never used             *)
(* (resetFlightLegParameters in doubleSupportEvents).                      *)
(***************************************************************************)
SwingFromTakeoff == Walking /\ hist.flying # "none" => m.qe = hist.takeoff

(***************************************************************************)
(* The gait parameter of a swing starts at 0 or more and never goes back   *)
(* while the leg is in the air, however the stance leg rocks and also when *)
(* the Deadbeat gait angles change under it (sPrev).                       *)
(***************************************************************************)
SwingForward ==
  [][(Walking /\ hist.flying # "none" /\ hist'.flying = hist.flying)
       => m'.sPrev >= m.sPrev /\ m.sPrev >= 0]_gvars

(***************************************************************************)
(* A step of the equilibrium point controller starts with the phase of its *)
(* own stance leg: the end of the last step does not count for it, or both *)
(* legs would change over within a cycle (t = 0 in the switch).            *)
(***************************************************************************)
PhaseOfStance == ctl = "EqPoint" /\ hist.stepped => m.t = hist.takeoff

(***************************************************************************)
(* When walking starts, both stance legs' springs have the same rest       *)
(* length (updateController resets both limiters on a switch, the standing *)
(* controller only the left leg's), unless the GUI's switch came between   *)
(* the comparison and the assignment of controllerState.                   *)
(***************************************************************************)
EvenStance ==
  Walking /\ hist.started /\ ~hist.raced /\ hist.flying = "none"
    => m.r0lim["L"] = m.r0lim["R"]

(***************************************************************************)
(* A step is made of its own events: it swings from its own take-off and   *)
(* only forward, counts its own phase and starts on even legs.             *)
(***************************************************************************)
StepsAreOwn ==
  /\ [](SwingFromTakeoff /\ PhaseOfStance /\ EvenStance)
  /\ SwingForward
=============================================================================
