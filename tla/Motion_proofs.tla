---------------------------- MODULE Motion_proofs ----------------------------
(***************************************************************************)
(* Proofs about what the controllers command: that a limited position      *)
(* leaps at hopping's take-off and at a raced switch only, no pose leads   *)
(* into a stop and a fast motor is an E-stop, and that ramps begin at zero *)
(* and the programs and sines that do not go on start over, for every      *)
(* rate, startup time and length of a program, and for any positions; and about the walking   *)
(* controllers, whose steps are made of their own events, for any angles,  *)
(* pitches, leg lengths and rates, and whose toes are followed, for any    *)
(* deque, bounds and readings.                                             *)
(***************************************************************************)
EXTENDS Motion, Gait, ToeFilter, WellFoundedInduction, TLAPS

Controllers == Limited \cup Programs \cup {"RangeOfMotion", "FastLegSwing"}

(* Which controllers have which cycles.                                    *)
LEMMA Kinds ==
  /\ Limited \cap Programs = {} /\ "RangeOfMotion" \notin Limited \cup Programs
  /\ "FastLegSwing" \notin Limited \cup Programs
  /\ Switching \cup {"Canonical", "MP", "JointPosition"} = Limited
  /\ "FastLegSwing" \notin StartupEnabled /\ "RangeOfMotion" \notin StartupEnabled
  /\ "ForceControlDemo" \notin Programs
  /\ \A k \in Timed \ GoesOn : k \in Programs /\ k # "TorqueSin"
BY DEF Limited, Programs, Switching, StartupEnabled, Timed, GoesOn

----------------------------------------------------------------------------
(* The rate limiters.  A limiter's output stays within a step of its last  *)
(* one, and a position one.                                                *)
LEMMA LimiterStep ==
  ASSUME NEW lim \in Nat, NEW tgt \in Nat
  PROVE  /\ rateLimit(lim, tgt) \in Nat
         /\ Dist(rateLimit(lim, tgt), lim) <= RATE
BY MotionConstants DEF rateLimit, Clamped, Dist

(* Two steps of a limiter are at most two rates long.                      *)
LEMMA TwoSteps ==
  ASSUME NEW p \in Nat, NEW q \in Nat, NEW r \in Nat,
         Dist(p, q) <= RATE, Dist(q, r) <= RATE
  PROVE  Dist(p, r) <= 2 * RATE
BY MotionConstants DEF Dist

(* What a joint's part of a cycle returns: the limiter, and a command that *)
(* is its output or past it; from is where the limiter stood, d how far it *)
(* may have moved.                                                         *)
Stepped(res, from, d) ==
  /\ res.lim \in Nat
  /\ \/ res.cmd = NoCommand
     \/ res.cmd = Straight(res.lim)
     \/ res.cmd = Through(res.lim) /\ Dist(res.lim, from) <= d

(* A step of a limiter is at most its rate long.                           *)
LEMMA RunSteps ==
  ASSUME NEW lim \in [Joints -> Nat], NEW tgt \in [Joints -> Nat], NEW j \in Joints
  PROVE  /\ Stepped(Run(lim, j, tgt), lim[j], RATE)
         /\ Stepped(Direct(tgt, j), lim[j], RATE)
         /\ Stepped(Unused(lim, j), lim[j], RATE)
         /\ Stepped(RunUnused(lim, j, tgt), lim[j], RATE)
<1>1. /\ lim[j] \in Nat /\ tgt[j] \in Nat
      /\ rateLimit(lim[j], tgt[j]) \in Nat
      /\ Dist(rateLimit(lim[j], tgt[j]), lim[j]) <= RATE
  BY LimiterStep
<1> QED
  BY <1>1, Zenon DEF Stepped, Run, Direct, Unused, RunUnused

(* A longer way is a way.                                                  *)
LEMMA FartherSteps ==
  ASSUME NEW res, NEW from \in Nat, Stepped(res, from, RATE)
  PROVE  Stepped(res, from, 2 * RATE)
<1>1. res.lim \in Nat /\ (Dist(res.lim, from) <= RATE => Dist(res.lim, from) <= 2 * RATE)
  BY MotionConstants DEF Stepped, Dist
<1> QED
  BY <1>1, Zenon DEF Stepped

(* The vertical hips: two steps in a cycle.                                *)
LEMMA VerticalSteps ==
  ASSUME NEW lim \in [Joints -> Nat], NEW tgt \in [Joints -> Nat], NEW fast
  PROVE  Stepped(VerticalHip(lim, tgt, fast), lim["hip"], 2 * RATE)
<1> DEFINE once == [lim EXCEPT !["hip"] = rateLimit(@, tgt["hip"])]
<1>1. "hip" \in Joints
  BY DEF Joints
<1>2. /\ lim["hip"] \in Nat /\ once \in [Joints -> Nat]
      /\ once["hip"] \in Nat /\ Dist(once["hip"], lim["hip"]) <= RATE
  BY <1>1, LimiterStep
<1>3. CASE fast
  BY <1>1, <1>2, <1>3, RunSteps, FartherSteps, Zenon DEF VerticalHip
<1>4. CASE ~fast
  <2> DEFINE res == Run(once, "hip", tgt)
  <2>1. res.lim = rateLimit(once["hip"], tgt["hip"]) /\ res.cmd = Through(res.lim)
    BY DEF Run
  <2>2. res.lim \in Nat /\ Dist(res.lim, once["hip"]) <= RATE
    BY <1>1, <1>2, <2>1, LimiterStep
  <2>3. Dist(res.lim, lim["hip"]) <= 2 * RATE
    <3> HIDE DEF res, once
    <3> QED
      BY <1>2, <2>2, TwoSteps
  <2>4. VerticalHip(lim, tgt, fast) = res
    BY <1>4 DEF VerticalHip
  <2> HIDE DEF res
  <2> QED
    BY <2>1, <2>2, <2>3, <2>4 DEF Stepped
<1> QED
  BY <1>3, <1>4

----------------------------------------------------------------------------
(* A limiter that is not to be used without a switch, a disabled cycle or  *)
(* hopping's take-off before: a leg's in another mode than standing, a     *)
(* hip's in shutdown.                                                      *)
Idle(j) ==
  /\ con \in Switching /\ c.state # 0 /\ j \notin past.used
  /\ j = "leg" => on
  /\ j = "hip" => c.state = 2 /\ con # "ForceControlDemo"

(* The limiters agree with what was commanded last, or, where nothing was  *)
(* commanded, with where the motors were, but for the idle ones.           *)
LimitersInv ==
  con \in Limited =>
    /\ c = [state |-> c.state, lim |-> c.lim, fast |-> c.fast, t |-> c.t, first |-> c.first]
    /\ c.lim \in [Joints -> Nat] /\ past.ref \in [Joints -> Nat]
    /\ \A j \in Joints : c.lim[j] = past.ref[j] \/ Idle(j)
    /\ con = "ForceControlDemo" /\ c.first => c.t = 0

(* From where a limiter that is used may move on.                          *)
Starts(j, from, enabled, motor, switched) ==
  IF ~enabled THEN from = motor[j]
  ELSE IF switched THEN from \in {motor[j], past.ref[j]}
  ELSE TakesOff(j) \/ from = past.ref[j]

(* What the kinds of commands hold.                                        *)
LEMMA CommandFields ==
  /\ NoCommand.pos = None /\ ~NoCommand.limited
  /\ \A p : Straight(p).pos = p /\ ~Straight(p).limited
  /\ \A p : Through(p).pos = p /\ Through(p).limited
BY DEF NoCommand, Straight, Through

(* A cycle whose limiters move on from where they may.                     *)
MovesOn(from, motor, result, switched, raced, d, enabled) ==
  /\ past.ref \in [Joints -> Nat] /\ from \in [Joints -> Nat] /\ motor \in [Joints -> Nat]
  /\ \A j \in Joints : Stepped(result[j], from[j], d)
  /\ \A j \in Joints : ~raced /\ result[j].cmd = Through(result[j].lim) =>
                         Starts(j, from[j], enabled, motor, switched)

(* When a cycle's commands leap, and what is remembered of them.           *)
LEMMA CommandStep ==
  ASSUME NEW from, NEW motor, NEW result, NEW d, NEW enabled, NEW switched, NEW raced, NEW fault,
         MovesOn(from, motor, result, switched, raced, d, enabled),
         ATC(enabled, motor, result, switched, raced, d, fault)
  PROVE  /\ past'.ref = [j \in Joints |-> IF result[j].cmd = NoCommand THEN motor[j]
                                          ELSE result[j].lim]
         /\ past'.ref \in [Joints -> Nat]
         /\ past'.used = {j \in Joints : result[j].cmd # NoCommand}
         /\ ~past'.leapt
<1>0. /\ past.ref \in [Joints -> Nat] /\ from \in [Joints -> Nat] /\ motor \in [Joints -> Nat]
      /\ \A j \in Joints : Stepped(result[j], from[j], d)
      /\ \A j \in Joints : ~raced /\ result[j].cmd = Through(result[j].lim) =>
                             Starts(j, from[j], enabled, motor, switched)
  BY DEF MovesOn
<1>1. \A j \in Joints : /\ result[j].lim \in Nat
                        /\ result[j].cmd.pos = None <=> result[j].cmd = NoCommand
                        /\ result[j].cmd # NoCommand => result[j].cmd.pos = result[j].lim
  <2> SUFFICES ASSUME NEW j \in Joints
               PROVE  /\ result[j].lim \in Nat
                      /\ result[j].cmd.pos = None <=> result[j].cmd = NoCommand
                      /\ result[j].cmd # NoCommand => result[j].cmd.pos = result[j].lim
    OBVIOUS
  <2>1. result[j].lim \in Nat /\ Stepped(result[j], from[j], d)
    BY <1>0 DEF Stepped
  <2>2. result[j].lim # None
    BY <2>1 DEF None
  <2> QED
    BY <2>1, <2>2, CommandFields, Zenon DEF Stepped
<1>2. /\ past'.ref = [j \in Joints |-> IF result[j].cmd.pos = None THEN motor[j]
                                       ELSE result[j].cmd.pos]
      /\ past'.used = {j \in Joints : result[j].cmd.pos # None}
      /\ past'.leapt = (~raced /\ \E j \in Joints :
                          Leaps(j, result[j].cmd, enabled, motor, switched, d))
  BY DEF ATC
<1>3. \A j \in Joints : ~raced => ~Leaps(j, result[j].cmd, enabled, motor, switched, d)
  <2> SUFFICES ASSUME NEW j \in Joints, ~raced, result[j].cmd.limited
               PROVE  ~Leaps(j, result[j].cmd, enabled, motor, switched, d)
    BY DEF Leaps
  <2>1. result[j].cmd = Through(result[j].lim) /\ Dist(result[j].lim, from[j]) <= d
    BY <1>0, CommandFields, Zenon DEF Stepped
  <2>2. result[j].cmd.pos = result[j].lim
    BY <2>1, CommandFields
  <2>3. Starts(j, from[j], enabled, motor, switched)
    BY <1>0, <2>1
  <2> QED
    BY <2>1, <2>2, <2>3, Zenon DEF Leaps, Starts, Near
<1>4. past'.ref = [j \in Joints |-> IF result[j].cmd = NoCommand THEN motor[j]
                                    ELSE result[j].lim]
  BY <1>1, <1>2, Zenon
<1>5. past'.used = {j \in Joints : result[j].cmd # NoCommand}
  BY <1>1, <1>2
<1>6. past'.ref \in [Joints -> Nat]
  BY <1>0, <1>1, <1>4
<1> QED
  BY <1>2, <1>3, <1>4, <1>5, <1>6, Zenon

(* A command that is given is told from none.                              *)
LEMMA Commanded ==
  ASSUME NEW lim, NEW j, NEW tgt \in [Joints -> Nat]
  PROVE  /\ Run(lim, j, tgt).cmd # NoCommand
         /\ j \in Joints => Direct(tgt, j).cmd # NoCommand
         /\ \A p : NoCommand # Through(p)
         /\ Unused(lim, j).cmd = NoCommand /\ Unused(lim, j).lim = lim[j]
<1>1. j \in Joints => tgt[j] # None
  BY DEF None
<1> QED
  BY <1>1, CommandFields, Zenon DEF Run, Direct, Unused

----------------------------------------------------------------------------
(* The controllers that switch by main_controller.                         *)

(* Where their limiters stand when they are used.                          *)
SwitchingFrom(enabled, motor, mode, late) ==
  LET lim == Updated(c.lim, enabled, motor, mode, late)
  IN  [j \in Joints |-> IF con = "Canonical" /\ j = "hip" /\ ~enabled THEN motor[j] ELSE lim[j]]

(* What the limiters are set to before they run.                           *)
LEMMA UpdatedLimits ==
  ASSUME c.lim \in [Joints -> Nat], NEW enabled \in BOOLEAN, NEW motor \in [Joints -> Nat],
         NEW mode, NEW late,
         NEW lim, lim = Updated(c.lim, enabled, motor, mode, late)
  PROVE  /\ lim \in [Joints -> Nat]
         /\ con = "Canonical" =>
              /\ lim["hip"] = c.lim["hip"]
              /\ lim["leg"] = IF late # 0 \/ ~enabled THEN motor["leg"] ELSE c.lim["leg"]
         /\ con = "ForceControlDemo" =>
              /\ lim["hip"] = IF enabled THEN c.lim["hip"] ELSE motor["hip"]
              /\ lim["leg"] = IF enabled /\ c.state = mode THEN c.lim["leg"] ELSE motor["leg"]
         /\ con \notin {"Canonical", "ForceControlDemo"} =>
              lim = IF enabled /\ c.state = mode THEN c.lim ELSE motor
<1>1. "leg" \in Joints /\ "hip" \in Joints
  BY DEF Joints
<1>2. CASE con = "Canonical"
  <2>1. lim = IF late # 0 \/ ~enabled THEN [c.lim EXCEPT !["leg"] = motor["leg"]] ELSE c.lim
    BY <1>2, Zenon DEF Updated, canonicalUpdate
  <2>2. CASE late # 0 \/ ~enabled
    BY <1>1, <1>2, <2>1, <2>2
  <2>3. CASE ~(late # 0 \/ ~enabled)
    BY <1>1, <1>2, <2>1, <2>3
  <2> QED
    BY <2>2, <2>3
<1>3. CASE con = "ForceControlDemo"
  <2>1. lim = [j \in Joints |-> IF enabled /\ (j = "hip" \/ c.state = mode)
                                THEN c.lim[j] ELSE motor[j]]
    BY <1>3, Zenon DEF Updated, updateState
  <2>2. lim \in [Joints -> Nat]
    BY <2>1
  <2> QED
    BY <1>1, <1>3, <2>1, <2>2
<1>4. CASE con \notin {"Canonical", "ForceControlDemo"}
  <2>1. lim = IF enabled /\ c.state = mode THEN c.lim ELSE motor
    BY <1>4, Zenon DEF Updated, resetLimiters, hoppingUpdate, standingUpdate
  <2> QED
    BY <1>4, <2>1
<1> QED
  BY <1>2, <1>3, <1>4

(* The commands of a controller with modes.                                *)
LEMMA SwitchingJointsStep ==
  ASSUME c.lim \in [Joints -> Nat], con \in Switching \cup {"Canonical"},
         NEW enabled \in BOOLEAN, NEW motor \in [Joints -> Nat], NEW tgt \in [Joints -> Nat],
         NEW mode, NEW late, NEW flight,
         NEW r, r = SwitchingJoints(enabled, motor, tgt, mode, late, flight),
         NEW from, from = SwitchingFrom(enabled, motor, mode, late)
  PROVE  /\ from \in [Joints -> Nat]
         /\ \A j \in Joints : Stepped(r[j], from[j], RATE)
         /\ r["leg"].cmd = NoCommand => late # 0 /\ r["leg"].lim = from["leg"]
         /\ r["leg"].cmd # NoCommand => late = 0 \/ (con = "Hopping" /\ late = 1)
         /\ r["hip"].cmd = NoCommand => late = 2 /\ con \notin {"Canonical", "ForceControlDemo"}
         /\ r["hip"].cmd # NoCommand => late # 2 \/ con \in {"Canonical", "ForceControlDemo"}
<1> DEFINE lim  == Updated(c.lim, enabled, motor, mode, late)
           l    == IF enabled THEN lim ELSE [lim EXCEPT !["hip"] = motor["hip"]]
<1>1. "leg" \in Joints /\ "hip" \in Joints /\ \A j \in Joints : j = "leg" \/ j = "hip"
  BY DEF Joints
<1>2. lim \in [Joints -> Nat]
  BY UpdatedLimits
<1>3. /\ from \in [Joints -> Nat]
      /\ from["leg"] = lim["leg"]
      /\ con # "Canonical" => from["hip"] = lim["hip"]
      /\ con = "Canonical" => from["hip"] = IF enabled THEN lim["hip"] ELSE motor["hip"]
  <2>1. from = [j \in Joints |-> IF con = "Canonical" /\ j = "hip" /\ ~enabled
                                 THEN motor[j] ELSE lim[j]]
    BY DEF SwitchingFrom
  <2> HIDE DEF lim
  <2> QED
    BY <1>1, <1>2, <2>1
<1>4. /\ r["leg"] = IF con = "Hopping" THEN HoppingLegs(lim, tgt, late, flight)
                    ELSE StandingLegs(lim, tgt, late)
      /\ r["hip"] = CASE con = "Canonical" -> canonicalHip(lim, enabled, motor, tgt, late)
                      [] con = "ForceControlDemo" -> demoHip(lim, tgt)
                      [] OTHER -> hipController(lim, tgt, late)
  BY DEF SwitchingJoints
<1> HIDE DEF lim
<1>5. Stepped(r["leg"], from["leg"], RATE)
  BY <1>1, <1>2, <1>3, <1>4, RunSteps, ZenonT(30) DEF HoppingLegs, StandingLegs
<1>6. Stepped(r["hip"], from["hip"], RATE)
  <2>1. CASE con = "Canonical"
    <3>1. l \in [Joints -> Nat] /\ l["hip"] = from["hip"]
      BY <1>1, <1>2, <1>3, <2>1
    <3>2. r["hip"] = IF late = 0 THEN Run(l, "hip", tgt) ELSE Direct(tgt, "hip")
      BY <1>4, <2>1, Zenon DEF canonicalHip
    <3> HIDE DEF l
    <3> QED
      BY <1>1, <3>1, <3>2, RunSteps, Zenon
  <2>2. CASE con = "ForceControlDemo"
    BY <1>1, <1>2, <1>3, <1>4, <2>2, RunSteps, ZenonT(30) DEF demoHip
  <2>3. CASE con \notin {"Canonical", "ForceControlDemo"}
    BY <1>1, <1>2, <1>3, <1>4, <2>3, RunSteps, Zenon DEF hipController
  <2> QED
    BY <2>1, <2>2, <2>3
<1>7. /\ r["leg"].cmd = NoCommand => late # 0 /\ r["leg"].lim = from["leg"]
      /\ r["leg"].cmd # NoCommand => late = 0 \/ (con = "Hopping" /\ late = 1)
  <2>1. /\ Run(lim, "leg", tgt).cmd # NoCommand
        /\ Unused(lim, "leg").cmd = NoCommand /\ Unused(lim, "leg").lim = lim["leg"]
    BY Commanded
  <2>2. r["leg"] = IF late = 0 \/ (con = "Hopping" /\ late = 1 /\ flight)
                   THEN Run(lim, "leg", tgt) ELSE Unused(lim, "leg")
    BY <1>4, Zenon DEF HoppingLegs, StandingLegs
  <2> QED
    BY <1>3, <2>1, <2>2, Zenon
<1>8. /\ r["hip"].cmd = NoCommand => late = 2 /\ con \notin {"Canonical", "ForceControlDemo"}
      /\ r["hip"].cmd # NoCommand => late # 2 \/ con \in {"Canonical", "ForceControlDemo"}
  <2>1. CASE con = "Canonical"
    <3>1. r["hip"] = canonicalHip(lim, enabled, motor, tgt, late)
      BY <1>4, <2>1
    <3>2. Run(l, "hip", tgt).cmd # NoCommand /\ Direct(tgt, "hip").cmd # NoCommand
      BY <1>1, Commanded
    <3> HIDE DEF l
    <3>3. r["hip"] = IF late = 0 THEN Run(l, "hip", tgt) ELSE Direct(tgt, "hip")
      BY <3>1, Zenon DEF canonicalHip, l
    <3> QED
      BY <2>1, <3>2, <3>3, Zenon
  <2>2. CASE con = "ForceControlDemo"
    <3>1. r["hip"] = demoHip(lim, tgt)
      BY <1>4, <2>2
    <3>2. Run(lim, "hip", tgt).cmd # NoCommand
      BY Commanded
    <3> QED
      BY <2>2, <3>1, <3>2, Zenon DEF demoHip
  <2>3. CASE con \notin {"Canonical", "ForceControlDemo"}
    <3>1. r["hip"] = IF late = 2 THEN RunUnused(lim, "hip", tgt) ELSE Run(lim, "hip", tgt)
      BY <1>4, <2>3 DEF hipController
    <3>2. Run(lim, "hip", tgt).cmd # NoCommand /\ RunUnused(lim, "hip", tgt).cmd = NoCommand
      BY Commanded, Zenon DEF RunUnused
    <3> QED
      BY <2>3, <3>1, <3>2, Zenon
  <2> QED
    BY <2>1, <2>2, <2>3
<1> QED
  BY <1>1, <1>3, <1>5, <1>6, <1>7, <1>8, Zenon

(* Where a limiter that is used stands, it may move on from.               *)
LEMMA SwitchingStarts ==
  ASSUME LimitersInv, con \in Switching \cup {"Canonical"},
         NEW enabled \in BOOLEAN, NEW motor \in [Joints -> Nat],
         NEW mode, NEW late,
         NEW from, from = SwitchingFrom(enabled, motor, mode, late),
         ~(late # mode /\ con # "Canonical"),
         NEW j \in Joints,
         j = "leg" => late = 0 \/ (con = "Hopping" /\ late = 1),
         j = "hip" => late # 2 \/ con \in {"Canonical", "ForceControlDemo"}
  PROVE  Starts(j, from[j], enabled, motor, late # c.state)
<1> DEFINE lim == Updated(c.lim, enabled, motor, mode, late)
<1>1. (j = "leg" \/ j = "hip") /\ "Canonical" \notin Switching
  BY DEF Joints, Switching
<1>2. /\ c.lim \in [Joints -> Nat] /\ past.ref \in [Joints -> Nat]
      /\ c.lim[j] = past.ref[j] \/ Idle(j)
  BY Kinds DEF LimitersInv
<1>3. from[j] = IF con = "Canonical" /\ j = "hip" /\ ~enabled THEN motor[j] ELSE lim[j]
  BY DEF SwitchingFrom
<1> HIDE DEF lim
<1>4. CASE con = "Canonical"
  <2>1. from[j] = IF enabled THEN c.lim[j] ELSE motor[j]
    <3>1. /\ lim["hip"] = c.lim["hip"]
          /\ lim["leg"] = IF late # 0 \/ ~enabled THEN motor["leg"] ELSE c.lim["leg"]
      BY <1>2, <1>4, UpdatedLimits DEF lim
    <3>2. CASE j = "leg"
      BY <1>3, <1>4, <3>1, <3>2
    <3>3. CASE j = "hip"
      BY <1>3, <1>4, <3>1, <3>3
    <3> QED
      BY <1>1, <3>2, <3>3
  <2>2. c.lim[j] = past.ref[j]
    BY <1>1, <1>2, <1>4 DEF Idle
  <2> QED
    BY <2>1, <2>2, Zenon DEF Starts
<1>5. CASE con = "ForceControlDemo" /\ j = "hip"
  <2>1. from[j] = IF enabled THEN c.lim[j] ELSE motor[j]
    BY <1>2, <1>3, <1>5, UpdatedLimits DEF lim
  <2>2. c.lim[j] = past.ref[j]
    BY <1>2, <1>5 DEF Idle
  <2> QED
    BY <2>1, <2>2, Zenon DEF Starts
<1>6. CASE con # "Canonical" /\ ~(con = "ForceControlDemo" /\ j = "hip")
  <2>1. from[j] = IF enabled /\ c.state = mode THEN c.lim[j] ELSE motor[j]
    <3>1. CASE con = "ForceControlDemo"
      BY <1>1, <1>2, <1>3, <1>6, <3>1, UpdatedLimits DEF lim
    <3>2. CASE con # "ForceControlDemo"
      <4>1. lim = IF enabled /\ c.state = mode THEN c.lim ELSE motor
        BY <1>2, <1>6, <3>2, UpdatedLimits DEF lim
      <4> QED
        BY <1>3, <1>6, <4>1
    <3> QED
      BY <3>1, <3>2
  <2>2. late = mode
    BY <1>6
  <2>3. late = c.state => c.lim[j] = past.ref[j] \/ TakesOff(j)
    BY <1>1, <1>2, <1>6 DEF Idle, TakesOff
  <2> QED
    BY <2>1, <2>2, <2>3, Zenon DEF Starts
<1> QED
  BY <1>4, <1>5, <1>6

(* A cycle of a controller with modes.                                     *)
LEMMA SwitchingStep ==
  ASSUME LimitersInv,
         NEW enabled \in BOOLEAN, NEW motor \in [Joints -> Nat], NEW tgt \in [Joints -> Nat],
         NEW mode, NEW late, NEW flight, NEW fault,
         SwitchingCycle(enabled, motor, tgt, mode, late, flight, fault)
  PROVE  LimitersInv' /\ ~past'.leapt
<1> DEFINE r    == SwitchingJoints(enabled, motor, tgt, mode, late, flight)
           from == SwitchingFrom(enabled, motor, mode, late)
           raced == late # mode /\ con # "Canonical"
           switched == late # c.state
           time  == IF con = "ForceControlDemo" THEN demoTime(mode, late) ELSE 0
           first == con = "ForceControlDemo" /\ late = mode /\ late # c.state
<1>1. /\ con \in Switching \cup {"Canonical"} /\ con \in Limited /\ con' = con /\ on' = enabled
      /\ ATC(enabled, motor, r, switched, raced, RATE, fault)
      /\ c' = [c EXCEPT !.state = late, !.lim = Lims(r), !.t = time, !.first = first]
  BY Kinds DEF SwitchingCycle, ATC
<1>2. /\ c = [state |-> c.state, lim |-> c.lim, fast |-> c.fast, t |-> c.t, first |-> c.first]
      /\ c.lim \in [Joints -> Nat] /\ past.ref \in [Joints -> Nat]
  BY <1>1 DEF LimitersInv
<1>3. /\ from \in [Joints -> Nat]
      /\ \A j \in Joints : Stepped(r[j], from[j], RATE)
      /\ r["leg"].cmd = NoCommand => late # 0 /\ r["leg"].lim = from["leg"]
      /\ r["leg"].cmd # NoCommand => late = 0 \/ (con = "Hopping" /\ late = 1)
      /\ r["hip"].cmd = NoCommand => late = 2 /\ con \notin {"Canonical", "ForceControlDemo"}
      /\ r["hip"].cmd # NoCommand => late # 2 \/ con \in {"Canonical", "ForceControlDemo"}
  BY <1>1, <1>2, SwitchingJointsStep
<1>4. late # 0 /\ (con = "Canonical" \/ ~enabled) => from["leg"] = motor["leg"]
  <2>1. "leg" \in Joints /\ "leg" # "hip"
    BY DEF Joints
  <2>2. from["leg"] = Updated(c.lim, enabled, motor, mode, late)["leg"]
    BY <2>1 DEF SwitchingFrom
  <2> QED
    BY <1>2, <2>1, <2>2, UpdatedLimits
<1>13. first => time = 0
  BY DEF demoTime
<1> HIDE DEF r, time, first
<1>5. \A j \in Joints : ~raced /\ r[j].cmd = Through(r[j].lim) =>
                          Starts(j, from[j], enabled, motor, switched)
  <2> SUFFICES ASSUME NEW j \in Joints, ~raced, r[j].cmd = Through(r[j].lim)
               PROVE  Starts(j, from[j], enabled, motor, switched)
    OBVIOUS
  <2>1. r[j].cmd # NoCommand
    BY Commanded
  <2>2. /\ j = "leg" => late = 0 \/ (con = "Hopping" /\ late = 1)
        /\ j = "hip" => late # 2 \/ con \in {"Canonical", "ForceControlDemo"}
    BY <1>3, <2>1
  <2> QED
    BY <1>1, <2>2, SwitchingStarts
<1> HIDE DEF from
<1>6. /\ past'.ref = [j \in Joints |-> IF r[j].cmd = NoCommand THEN motor[j] ELSE r[j].lim]
      /\ past'.ref \in [Joints -> Nat]
      /\ past'.used = {j \in Joints : r[j].cmd # NoCommand}
      /\ ~past'.leapt
  <2>1. MovesOn(from, motor, r, switched, raced, RATE, enabled)
    BY <1>2, <1>3, <1>5 DEF MovesOn
  <2>2. ATC(enabled, motor, r, switched, raced, RATE, fault)
    BY <1>1
  <2> HIDE DEF raced, switched
  <2> QED
    BY <2>1, <2>2, CommandStep, Zenon
<1>7. /\ c' = [state |-> late, lim |-> Lims(r), fast |-> c.fast, t |-> time, first |-> first]
      /\ Lims(r) = [j \in Joints |-> r[j].lim]
  BY <1>1, <1>2 DEF Lims
<1>8. \A j \in Joints : r[j].lim \in Nat
  BY <1>3 DEF Stepped
<1> HIDE DEF raced, switched
<1>9. /\ c'.state = late /\ c'.lim = Lims(r) /\ c'.t = time /\ c'.first = first
      /\ c' = [state |-> c'.state, lim |-> c'.lim, fast |-> c'.fast,
               t |-> c'.t, first |-> c'.first]
      /\ Lims(r) \in [Joints -> Nat]
  BY <1>7, <1>8
<1>10. \A j \in Joints : c'.lim[j] = past'.ref[j] \/ Idle(j)'
  <2> SUFFICES ASSUME NEW j \in Joints, c'.lim[j] # past'.ref[j] PROVE Idle(j)'
    OBVIOUS
  <2>1. r[j].cmd = NoCommand /\ r[j].lim # motor[j] /\ j \notin past'.used
    BY <1>6, <1>7, <1>9
  <2>2. "leg" \in Joints /\ "hip" \in Joints /\ (j = "leg" \/ j = "hip")
    BY DEF Joints
  <2>3. CASE j = "leg"
    BY <1>1, <1>3, <1>4, <1>9, <2>1, <2>3 DEF Idle
  <2>4. CASE j = "hip"
    BY <1>1, <1>3, <1>9, <2>1, <2>4 DEF Idle
  <2> QED
    BY <2>2, <2>3, <2>4
<1> QED
  BY <1>1, <1>6, <1>9, <1>10, <1>13 DEF LimitersInv

----------------------------------------------------------------------------
(* The controllers that always use their limiters.                         *)
LEMMA AlwaysFrom ==
  ASSUME LimitersInv, con \in {"MP", "JointPosition"},
         NEW enabled \in BOOLEAN, NEW motor \in [Joints -> Nat],
         NEW from, from = IF enabled THEN c.lim ELSE motor
  PROVE  /\ from \in [Joints -> Nat]
         /\ c.lim \in [Joints -> Nat] /\ past.ref \in [Joints -> Nat]
         /\ \A j \in Joints : Starts(j, from[j], enabled, motor, FALSE)
<1>1. /\ c.lim \in [Joints -> Nat] /\ past.ref \in [Joints -> Nat]
      /\ \A j \in Joints : c.lim[j] = past.ref[j]
  BY Kinds DEF LimitersInv, Idle, Switching
<1>2. from \in [Joints -> Nat]
  BY <1>1
<1> QED
  BY <1>1, <1>2, Zenon DEF Starts

(* A cycle of a controller that has one mode.                              *)
LEMMA AlwaysStep ==
  ASSUME LimitersInv, con \in {"MP", "JointPosition"}, NEW from, NEW motor, NEW result, NEW d,
         NEW enabled, NEW fault, NEW fast,
         MovesOn(from, motor, result, FALSE, FALSE, d, enabled),
         ATC(enabled, motor, result, FALSE, FALSE, d, fault),
         \A j \in Joints : result[j].cmd # NoCommand,
         c' = [state |-> c.state, lim |-> Lims(result), fast |-> fast, t |-> c.t, first |-> c.first]
  PROVE  LimitersInv' /\ ~past'.leapt
<1>1. con' = con /\ con \in Limited /\ con # "ForceControlDemo"
  BY Kinds DEF ATC
<1>2. /\ past'.ref = [j \in Joints |-> IF result[j].cmd = NoCommand THEN motor[j]
                                      ELSE result[j].lim]
      /\ past'.ref \in [Joints -> Nat]
      /\ past'.used = {j \in Joints : result[j].cmd # NoCommand}
      /\ ~past'.leapt
  <2> DEFINE no == FALSE
  <2>1. /\ MovesOn(from, motor, result, no, no, d, enabled)
        /\ ATC(enabled, motor, result, no, no, d, fault)
    OBVIOUS
  <2> HIDE DEF no
  <2> QED
    BY <2>1, CommandStep, Zenon
<1>3. Lims(result) = [j \in Joints |-> result[j].lim] /\ \A j \in Joints : result[j].lim \in Nat
  BY DEF Lims, MovesOn, Stepped
<1>4. /\ c'.lim = Lims(result)
      /\ c' = [state |-> c'.state, lim |-> c'.lim, fast |-> c'.fast, t |-> c'.t, first |-> c'.first]
      /\ Lims(result) \in [Joints -> Nat]
  BY <1>3
<1>5. \A j \in Joints : c'.lim[j] = past'.ref[j]
  BY <1>2, <1>3, <1>4
<1> QED
  BY <1>1, <1>2, <1>4, <1>5 DEF LimitersInv

(* A cycle of the motor position controller.                               *)
LEMMA MotorPositionStep ==
  ASSUME LimitersInv,
         NEW enabled \in BOOLEAN, NEW motor \in [Joints -> Nat], NEW tgt \in [Joints -> Nat],
         MotorPositionCycle(enabled, motor, tgt)
  PROVE  LimitersInv' /\ ~past'.leapt
<1> DEFINE from == IF enabled THEN c.lim ELSE motor
           r    == ATCMP(enabled, motor, tgt)
<1>1. /\ con = "MP" /\ con \in Limited
      /\ ATC(enabled, motor, r, FALSE, FALSE, RATE, "none")
      /\ c' = [c EXCEPT !.lim = Lims(r)]
  BY Kinds DEF MotorPositionCycle
<1>2. /\ from \in [Joints -> Nat] /\ past.ref \in [Joints -> Nat]
      /\ \A j \in Joints : Starts(j, from[j], enabled, motor, FALSE)
  BY <1>1, AlwaysFrom
<1>3. r = [j \in Joints |-> Run(from, j, tgt)]
  BY DEF ATCMP
<1> HIDE DEF from, r
<1>4. \A j \in Joints : Stepped(r[j], from[j], RATE)
  BY <1>2, <1>3, RunSteps
<1>5. MovesOn(from, motor, r, FALSE, FALSE, RATE, enabled)
  BY <1>2, <1>4 DEF MovesOn
<1>6. c' = [state |-> c.state, lim |-> Lims(r), fast |-> c.fast, t |-> c.t, first |-> c.first]
  BY <1>1 DEF LimitersInv
<1>7. \A j \in Joints : r[j].cmd # NoCommand
  BY <1>3, Commanded
<1> QED
  BY <1>1, <1>5, <1>6, <1>7, AlwaysStep, Zenon

(* A cycle of the joint position controller.                               *)
LEMMA JointPositionStep ==
  ASSUME LimitersInv,
         NEW enabled \in BOOLEAN, NEW motor \in [Joints -> Nat], NEW tgt \in [Joints -> Nat],
         NEW vertical \in BOOLEAN, NEW smooth \in BOOLEAN,
         JointPositionCycle(enabled, motor, tgt, vertical, smooth)
  PROVE  LimitersInv' /\ ~past'.leapt
<1> DEFINE from == IF enabled THEN c.lim ELSE motor
           r    == JointPosition(enabled, motor, tgt, vertical, smooth)
           fast == NextFast(enabled, r.hip, tgt, vertical, smooth)
<1>1. /\ con = "JointPosition" /\ con \in Limited
      /\ ATC(enabled, motor, r, FALSE, FALSE, 2 * RATE, "none")
      /\ c' = [c EXCEPT !.lim = Lims(r), !.fast = fast]
  BY Kinds DEF JointPositionCycle
<1>2. /\ from \in [Joints -> Nat] /\ past.ref \in [Joints -> Nat]
      /\ \A j \in Joints : Starts(j, from[j], enabled, motor, FALSE)
  BY <1>1, AlwaysFrom
<1>3. /\ r["leg"] = runLeg(from, tgt, smooth)
      /\ r["hip"] = JointHip(from, tgt, enabled /\ c.fast, vertical, smooth)
  BY DEF JointPosition
<1> HIDE DEF from, r
<1>4. "leg" \in Joints /\ "hip" \in Joints /\ \A j \in Joints : j = "leg" \/ j = "hip"
  BY DEF Joints
<1>5. from["leg"] \in Nat /\ from["hip"] \in Nat
  BY <1>2, <1>4
<1>6. Stepped(r["leg"], from["leg"], 2 * RATE)
  BY <1>2, <1>3, <1>4, <1>5, RunSteps, FartherSteps, Zenon DEF runLeg
<1>7. Stepped(r["hip"], from["hip"], 2 * RATE)
  <2>1. CASE vertical
    <3>1. r["hip"] = VerticalHip(from, tgt, enabled /\ c.fast)
      BY <1>3, <2>1, Zenon DEF JointHip
    <3> QED
      BY <1>2, <3>1, VerticalSteps, Zenon
  <2>2. CASE ~vertical
    <3>1. r["hip"] = Run(from, "hip", tgt) \/ r["hip"] = Direct(tgt, "hip")
      BY <1>3, <2>2, Zenon DEF JointHip
    <3> QED
      BY <1>2, <1>4, <1>5, <3>1, RunSteps, FartherSteps, Zenon
  <2> QED
    BY <2>1, <2>2
<1>8. \A j \in Joints : Stepped(r[j], from[j], 2 * RATE)
  BY <1>4, <1>6, <1>7, Zenon
<1>9. MovesOn(from, motor, r, FALSE, FALSE, 2 * RATE, enabled)
  BY <1>2, <1>8 DEF MovesOn
<1> HIDE DEF fast
<1>10. c' = [state |-> c.state, lim |-> Lims(r), fast |-> fast, t |-> c.t, first |-> c.first]
  BY <1>1 DEF LimitersInv
<1>11. \A j \in Joints : r[j].cmd # NoCommand
  <2>1. \A lim : \A j \in Joints : Run(lim, j, tgt).cmd # NoCommand /\ Direct(tgt, j).cmd # NoCommand
    BY Commanded
  <2>2. r["leg"].cmd # NoCommand
    BY <1>3, <1>4, <2>1, Zenon DEF runLeg
  <2>3. r["hip"].cmd # NoCommand
    BY <1>3, <1>4, <2>1, Zenon DEF JointHip, VerticalHip
  <2> QED
    BY <1>4, <2>2, <2>3, Zenon
<1> QED
  BY <1>1, <1>9, <1>10, <1>11, AlwaysStep, Zenon

----------------------------------------------------------------------------
(* The ramp: what remains of it is told by the cycles since enabling.      *)
RampInv ==
  con \in StartupEnabled =>
    /\ on \in BOOLEAN /\ startup \in 0 .. STARTUP_TIME
    /\ on => /\ past.since \in 0 .. STARTUP_TIME /\ out.scale = past.since
             /\ startup = startupController(STARTUP_TIME - past.since)

(* The ramp over a cycle.                                                  *)
LEMMA RampStep ==
  ASSUME RampInv, NEW enabled \in BOOLEAN, NEW motor, NEW result, NEW switched, NEW raced,
         NEW d, NEW fault, ATC(enabled, motor, result, switched, raced, d, fault)
  PROVE  RampInv'
<1> SUFFICES ASSUME con \in StartupEnabled PROVE RampInv'
  BY DEF RampInv, ATC
<1>1. /\ on' = enabled /\ con' = con
      /\ startup' = startupController(BeginStartup(enabled))
      /\ out'.scale = Scale(BeginStartup(enabled))
      /\ past'.since = IF ~enabled \/ ~on THEN 0
                       ELSE IF past.since < STARTUP_TIME THEN past.since + 1 ELSE past.since
  BY DEF ATC
<1>2. STARTUP_TIME \in Nat /\ startup \in 0 .. STARTUP_TIME /\ on \in BOOLEAN
  BY MotionConstants DEF RampInv
<1>3. CASE ~enabled
  <2>1. BeginStartup(enabled) = startup
    BY <1>3 DEF BeginStartup
  <2>2. startup' \in 0 .. STARTUP_TIME
    BY <1>1, <1>2, <2>1 DEF startupController
  <2> QED
    BY <1>1, <1>3, <2>2, Zenon DEF RampInv
<1>4. CASE enabled /\ ~on
  <2>1. BeginStartup(enabled) = STARTUP_TIME /\ past'.since = 0
    BY <1>1, <1>4 DEF BeginStartup
  <2>2. startup' \in 0 .. STARTUP_TIME /\ out'.scale = 0 /\ 0 \in 0 .. STARTUP_TIME
        /\ STARTUP_TIME - 0 = STARTUP_TIME
    BY <1>1, <1>2, <2>1 DEF startupController, Scale
  <2> QED
    BY <1>1, <1>4, <2>1, <2>2, Zenon DEF RampInv
<1>5. CASE enabled /\ on
  <2>1. BeginStartup(enabled) = startup
    BY <1>5 DEF BeginStartup
  <2>2. /\ past.since \in 0 .. STARTUP_TIME
        /\ startup = startupController(STARTUP_TIME - past.since)
    BY <1>5 DEF RampInv
  <2>3. past'.since = IF past.since < STARTUP_TIME THEN past.since + 1 ELSE past.since
    BY <1>1, <1>5
  <2>4. /\ past'.since \in 0 .. STARTUP_TIME
        /\ startup = STARTUP_TIME - past'.since
    BY <1>2, <2>2, <2>3 DEF startupController
  <2>5. /\ startup' \in 0 .. STARTUP_TIME /\ out'.scale = past'.since
        /\ startup' = startupController(STARTUP_TIME - past'.since)
    BY <1>1, <1>2, <2>1, <2>4 DEF startupController, Scale
  <2> QED
    BY <1>1, <1>5, <2>4, <2>5, Zenon DEF RampInv
<1> QED
  BY <1>3, <1>4, <1>5

(* The software E-stop is looked at in every cycle.                        *)
LEMMA OverspeedStep ==
  ASSUME NEW enabled, NEW motor, NEW result, NEW switched, NEW raced,
         NEW d, NEW fault, ATC(enabled, motor, result, switched, raced, d, fault)
  PROVE  OverspeedStops'
<1>1. /\ con' = con /\ past'.over = (fault = "fast")
      /\ out'.command = IF Unsafe(fault) THEN "error" ELSE "run"
  BY DEF ATC, commandEStop
<1>2. fault = "fast" /\ con \in {"SlipWalking", "Deadbeat", "StabilizedStanding", "Canonical"}
        => Unsafe(fault)
  BY DEF Unsafe, checkSafeties, deadbeatSafeties, standingSafeties, checkLimits
<1> QED
  BY <1>1, <1>2, Zenon DEF OverspeedStops

----------------------------------------------------------------------------
(* The programs: at the start of their time while the robot is disabled.   *)
ProgramInv ==
  con \in Programs =>
    /\ c.t \in Nat
    /\ ~on /\ con # "TorqueSin" => c.t \in 0 .. 1
    /\ ~on /\ con = "ProgrammableTorque" => c.t = 0
    /\ StartsOver

(* A cycle of a program of torques or positions.                           *)
LEMMA ProgramStep ==
  ASSUME ProgramInv, NEW enabled \in BOOLEAN, NEW newMotor \in BOOLEAN,
         ProgramCycle(enabled, newMotor)
  PROVE  ProgramInv' /\ ~past'.leapt
<1> DEFINE p == Play(enabled, newMotor)
<1>1. /\ con \in Programs /\ con' = con /\ on' = enabled
      /\ c'.t = p.t /\ c'.played = p.played /\ c'.first = (enabled /\ ~on)
  BY DEF ProgramCycle, ATC
<1>2. ~past'.leapt
  <2> DEFINE nothing == [j \in Joints |-> [lim |-> None, cmd |-> NoCommand]]
  <2>1. past'.leapt => \E j \in Joints :
          Leaps(j, nothing[j].cmd, enabled, past.ref, FALSE, RATE)
    BY DEF ProgramCycle, ATC
  <2>2. \A j \in Joints : nothing[j].cmd = NoCommand
    OBVIOUS
  <2> HIDE DEF nothing
  <2> QED
    BY <2>1, <2>2, CommandFields, Zenon DEF Leaps
<1>3. /\ c.t \in Nat
      /\ ~on /\ con # "TorqueSin" => c.t \in 0 .. 1
      /\ ~on /\ con = "ProgrammableTorque" => c.t = 0
      /\ PROGRAM \in Nat \ {0}
  BY <1>1, MotionConstants DEF ProgramInv
<1>4. \A t \in Nat : More(t) \in Nat /\ More(0) \in 0 .. 1
  BY <1>3 DEF More
<1>5. /\ p.t \in Nat
      /\ ~enabled /\ con # "TorqueSin" => p.t \in 0 .. 1
      /\ ~enabled /\ con = "ProgrammableTorque" => p.t = 0
      /\ enabled /\ ~on /\ con # "TorqueSin" => p.played \in 0 .. 1
  <2>1. CASE con = "MotorSinWave"
    <3>1. p = MotorSinWave(enabled)
      BY <2>1 DEF Play
    <3>2. p.t = More(IF enabled THEN c.t ELSE 0) /\ p.played = IF enabled THEN c.t ELSE 0
      BY <3>1 DEF MotorSinWave
    <3> QED
      BY <1>3, <1>4, <2>1, <3>2
  <2>2. CASE con = "LegSinWave"
    <3>1. p = LegSinWave(enabled)
      BY <2>2 DEF Play
    <3>2. /\ enabled => p.t = More(c.t) /\ p.played = c.t
          /\ ~enabled => p.t = 0
      BY <3>1 DEF LegSinWave
    <3> QED
      BY <1>3, <1>4, <2>2, <3>2
  <2>3. CASE con = "ProgrammableTorque"
    <3>1. p = ProgrammableTorque(enabled)
      BY <2>3 DEF Play
    <3>2. /\ ~enabled => p.t = 0
          /\ enabled /\ c.t < PROGRAM => p.t = c.t + 1 /\ p.played = c.t
          /\ enabled /\ ~(c.t < PROGRAM) => p.t = c.t
      BY <3>1 DEF ProgrammableTorque
    <3>3. ~on => c.t < PROGRAM
      BY <1>3, <2>3
    <3> QED
      BY <1>3, <2>3, <3>2, <3>3
  <2>4. CASE con = "TorqueSin"
    <3>1. p = TorqueSin(enabled, newMotor)
      BY <2>4 DEF Play
    <3>2. p.t \in {More(0), More(c.t), c.t}
      BY <3>1 DEF TorqueSin
    <3> QED
      BY <1>3, <1>4, <2>4, <3>2
  <2> QED
    BY <1>1, <2>1, <2>2, <2>3, <2>4 DEF Programs
<1> HIDE DEF p
<1>6. c'.t \in Nat
  BY <1>1, <1>5
<1>7. ~on' /\ con' # "TorqueSin" => c'.t \in 0 .. 1
  BY <1>1, <1>5
<1>8. ~on' /\ con' = "ProgrammableTorque" => c'.t = 0
  BY <1>1, <1>5
<1>9. StartsOver'
  BY <1>1, <1>5, Kinds, Zenon DEF StartsOver
<1> QED
  BY <1>2, <1>6, <1>7, <1>8, <1>9 DEF ProgramInv

----------------------------------------------------------------------------
(* The range of motion demo.  A pose is computed from the one before; only *)
(* those of steps 1 and 3 depend on it, and so on the steps taken.         *)
Pose0 == DemoPose(0, Neutral)
Pose1 == DemoPose(1, Pose0)
Pose2 == DemoPose(2, Neutral)
Pose3 == DemoPose(3, Pose2)

DemoInv ==
  con = "RangeOfMotion" =>
    /\ c = [step |-> c.step, pose |-> c.pose, going |-> c.going]
    /\ c.step \in 0 .. 5
    /\ c.going \in {Neutral, Pose0, Pose1, Pose2, Pose3}
    /\ c.step = 1 => c.pose \in {Pose0, Pose1}
    /\ c.step = 3 => c.pose \in {Pose2, Pose3}

(* The demo's poses lead into one another.                                 *)
LEMMA Poses ==
  /\ \A p : DemoPose(0, p) = Pose0 /\ DemoPose(2, p) = Pose2 /\ DemoPose(4, p) = Neutral
  /\ \A p \in {Pose0, Pose1} : DemoPose(1, p) = Pose1
  /\ \A p \in {Pose2, Pose3} : DemoPose(3, p) = Pose3
<1>1. \A p : DemoPose(0, p) = Pose0 /\ DemoPose(2, p) = Pose2 /\ DemoPose(4, p) = Neutral
  BY DEF DemoPose, Pose0, Pose2
<1>2. \A p \in {Pose0, Pose1} : DemoPose(1, p) = Pose1
  BY DEF DemoPose, Pose0, Pose1
<1>3. \A p \in {Pose2, Pose3} : DemoPose(3, p) = Pose3
  BY DEF DemoPose, Pose2, Pose3
<1> QED
  BY <1>1, <1>2, <1>3

(* A cycle of the demo.                                                    *)
LEMMA DemoStep ==
  ASSUME DemoInv, NEW enabled \in BOOLEAN, NEW mode, NEW finished \in BOOLEAN,
         DemoCycle(enabled, mode, finished)
  PROVE  DemoInv'
<1>1. /\ con = "RangeOfMotion" /\ con' = con
      /\ c' \in {c, AutoDemo(finished), ManualDemo(finished)}
  BY Zenon DEF DemoCycle
<1>2. /\ c = [step |-> c.step, pose |-> c.pose, going |-> c.going]
      /\ c.step \in 0 .. 5
      /\ c.going \in {Neutral, Pose0, Pose1, Pose2, Pose3}
      /\ c.step = 1 => c.pose \in {Pose0, Pose1}
      /\ c.step = 3 => c.pose \in {Pose2, Pose3}
  BY <1>1 DEF DemoInv
<1>3. CASE c' = c
  BY <1>1, <1>2, <1>3 DEF DemoInv
<1>4. CASE c' = ManualDemo(finished)
  BY <1>1, <1>2, <1>4 DEF DemoInv, ManualDemo
<1>5. CASE c' = AutoDemo(finished)
  <2>1. CASE c.step = 5
    BY <1>1, <1>2, <1>5, <2>1 DEF DemoInv, AutoDemo
  <2>2. CASE c.step # 5
    <3> DEFINE p == DemoPose(c.step, c.pose)
    <3>1. c' = IF finished THEN [c EXCEPT !.pose = p, !.going = p, !.step = @ + 1]
               ELSE [c EXCEPT !.pose = p]
      BY <1>5, <2>2 DEF AutoDemo
    <3>2. /\ c.step = 0 => p = Pose0
          /\ c.step = 1 => p = Pose1
          /\ c.step = 2 => p = Pose2
          /\ c.step = 3 => p = Pose3
          /\ c.step = 4 => p = Neutral
      BY <1>2, Poses
    <3> HIDE DEF p
    <3>3. c.step \in 0 .. 4 /\ p \in {Neutral, Pose0, Pose1, Pose2, Pose3}
      BY <1>2, <2>2, <3>2
    <3>4. CASE finished
      <4>1. c' = [step |-> c.step + 1, pose |-> p, going |-> p]
        BY <1>2, <3>1, <3>4
      <4> QED
        BY <1>1, <3>2, <3>3, <4>1 DEF DemoInv
    <3>5. CASE ~finished
      <4>1. c' = [step |-> c.step, pose |-> p, going |-> c.going]
        BY <1>2, <3>1, <3>5
      <4> QED
        BY <1>1, <1>2, <3>2, <3>3, <4>1 DEF DemoInv
    <3> QED
      BY <3>4, <3>5
  <2> QED
    BY <2>1, <2>2
<1> QED
  BY <1>1, <1>3, <1>4, <1>5

(* All poses are within the stops.                                         *)
LEMMA PosesSafe == DemoInv => PosesWithinStops
<1> DEFINE Safe(g) ==
             /\ {g.la, g.ra} \subseteq (A_MIN + SAFE) .. (A_MAX - SAFE)
             /\ {g.lb, g.rb} \subseteq (B_MIN + SAFE) .. (B_MAX - SAFE)
             /\ {g.lb - g.la, g.rb - g.ra} \subseteq DIFF_MIN .. (DIFF_MAX - SAFE)
<1> USE DEF A_MIN, A_MAX, B_MIN, B_MAX, DIFF_MIN, DIFF_MAX, SAFE
<1>1. Neutral = [la |-> 1271, lb |-> 1871, ra |-> 1271, rb |-> 1871]
  BY DEF Neutral
<1>2. Pose0 = [la |-> -5, lb |-> 1695, ra |-> 1447, rb |-> 3147]
  BY DEF Pose0, DemoPose
<1>3. Pose1.la = -5 /\ Pose1.lb = 1085 /\ Pose1.ra = 2056 /\ Pose1.rb = 3147
  <2>1. Pose1 = [Pose0 EXCEPT !.lb = B_MIN + SAFE, !.ra = A_MAX - SAFE]
    BY DEF Pose1, DemoPose
  <2> QED
    BY <1>2, <2>1
<1>4. Pose2 = [la |-> 2056, lb |-> 3147, ra |-> -5, rb |-> 1085]
  BY DEF Pose2, DemoPose
<1>5. Pose3.la = 1447 /\ Pose3.lb = 3147 /\ Pose3.ra = -5 /\ Pose3.rb = 1695
  <2>1. Pose3 = [Pose2 EXCEPT !.la = Pose2.lb - (DIFF_MAX - SAFE),
                              !.rb = Pose2.ra + (DIFF_MAX - SAFE)]
    BY DEF Pose3, DemoPose
  <2> QED
    BY <1>4, <2>1
<1>6. Safe(Neutral) /\ Safe(Pose0) /\ Safe(Pose1)
  BY <1>1, <1>2, <1>3
<1>7. Safe(Pose2) /\ Safe(Pose3)
  BY <1>4, <1>5
<1> QED
  <2> SUFFICES ASSUME DemoInv, con = "RangeOfMotion" PROVE Safe(c.going)
    BY ZenonT(30) DEF PosesWithinStops
  <2>1. c.going \in {Neutral, Pose0, Pose1, Pose2, Pose3}
    BY DEF DemoInv
  <2> HIDE DEF Safe
  <2> QED
    BY <1>6, <1>7, <2>1

----------------------------------------------------------------------------
(* The fast leg swing: without a swing the sines are at their start.       *)
SwingInv ==
  con = "FastLegSwing" =>
    /\ DOMAIN past = {"ref", "used", "since", "over", "rested", "leapt"}
    /\ c.cmd # "sine" => c.phase = 0
    /\ SwingFromRest

(* A cycle of the leg swing.                                               *)
LEMMA SwingStep ==
  ASSUME SwingInv, NEW enabled \in BOOLEAN, NEW demo \in BOOLEAN, NEW done \in BOOLEAN,
         SwingCycle(enabled, demo, done)
  PROVE  SwingInv' /\ past'.leapt = past.leapt
<1> DEFINE ready == (~enabled \/ c.finished) /\ demo = c.running
           swing == demo /\ ready
<1>1. /\ con = "FastLegSwing" /\ con' = con
      /\ c'.phase = IF swing THEN More(c.phase) ELSE 0
      /\ c'.at = IF swing THEN c.phase ELSE None
      /\ c'.cmd = IF swing THEN "sine" ELSE IF ~enabled THEN "motors"
                  ELSE IF ~ready THEN "path" ELSE "undefined"
  BY DEF SwingCycle, FastLegSwing
<1>2. /\ DOMAIN past = {"ref", "used", "since", "over", "rested", "leapt"}
      /\ c.cmd # "sine" => c.phase = 0
  BY <1>1 DEF SwingInv
<1>3. /\ DOMAIN past' = DOMAIN past /\ past'.leapt = past.leapt
      /\ past'.rested = (c.cmd # "sine")
  BY <1>2 DEF SwingCycle
<1> HIDE DEF ready, swing
<1>4. c'.cmd # "sine" => ~swing
  BY <1>1
<1>5. c'.cmd = "sine" => swing
  BY <1>1
<1>6. c'.cmd # "sine" => c'.phase = 0
  BY <1>1, <1>4
<1>7. past'.rested /\ c'.cmd = "sine" => c'.at = 0
  BY <1>1, <1>2, <1>3, <1>5, Zenon
<1> QED
  BY <1>1, <1>2, <1>3, <1>6, <1>7, Zenon DEF SwingInv, SwingFromRest

----------------------------------------------------------------------------
MotionInv ==
  /\ LimitersInv /\ NoLeap /\ OverspeedStops /\ RampInv /\ ProgramInv /\ DemoInv /\ SwingInv

(* A cycle of a controller that commands positions: nothing else applies.  *)
LEMMA LimitedOnly ==
  ASSUME con \in Limited, con' = con
  PROVE  ProgramInv' /\ DemoInv' /\ SwingInv'
BY Kinds, Zenon DEF ProgramInv, DemoInv, SwingInv

(* The invariant holds at first.                                           *)
LEMMA MotionInitial == ASSUME MotionInit PROVE MotionInv
<1> PICK p \in Positions :
      /\ c = CASE con \in Limited  -> [state |-> 0, lim |-> [j \in Joints |-> p], fast |-> FALSE,
                                      t |-> 0, first |-> FALSE]
               [] con \in Programs -> [t |-> 0, played |-> None, first |-> FALSE]
               [] con = "FastLegSwing" -> [running |-> FALSE, finished |-> TRUE,
                                           phase |-> 0, at |-> None, cmd |-> "motors"]
               [] OTHER            -> [step |-> 0, pose |-> Neutral, going |-> Neutral]
      /\ past = [ref |-> [j \in Joints |-> p], used |-> {},
                 since |-> 0, over |-> FALSE, rested |-> TRUE, leapt |-> FALSE]
  BY DEF MotionInit
<1>1. p \in Nat /\ STARTUP_TIME \in Nat
  BY MotionConstants
<1>0. /\ past.ref = [j \in Joints |-> p] /\ past.used = {}
      /\ past.over = FALSE /\ past.leapt = FALSE
  OBVIOUS
<1>2. on = FALSE /\ startup = 0 /\ con \in Limited \cup Programs \cup {"RangeOfMotion", "FastLegSwing"}
  BY DEF MotionInit
<1>3. LimitersInv
  <2> SUFFICES ASSUME con \in Limited PROVE LimitersInv
    BY DEF LimitersInv
  <2>1. c = [state |-> 0, lim |-> [j \in Joints |-> p], fast |-> FALSE, t |-> 0, first |-> FALSE]
    BY Kinds
  <2>2. c.lim = past.ref /\ c.lim \in [Joints -> Nat] /\ c.t = 0
    BY <1>0, <1>1, <2>1
  <2>3. c = [state |-> c.state, lim |-> c.lim, fast |-> c.fast, t |-> c.t, first |-> c.first]
    BY <2>1
  <2> QED
    BY <1>0, <2>1, <2>2, <2>3, Zenon DEF LimitersInv
<1>4. NoLeap /\ OverspeedStops
  <2>1. past.leapt = FALSE /\ past.over = FALSE
    BY <1>0
  <2>2. NoLeap
    BY <2>1 DEF NoLeap
  <2>3. OverspeedStops
    BY <2>1 DEF OverspeedStops
  <2> QED
    BY <2>2, <2>3
<1>5. RampInv
  <2>1. on \in BOOLEAN /\ ~on /\ startup \in 0 .. STARTUP_TIME
    <3>1. on \in BOOLEAN /\ ~on
      BY <1>2, Zenon
    <3>2. startup \in 0 .. STARTUP_TIME
      BY <1>1, <1>2
    <3> QED
      BY <3>1, <3>2
  <2> QED
    BY <2>1, Zenon DEF RampInv
<1>6. ProgramInv
  <2> SUFFICES ASSUME con \in Programs PROVE ProgramInv
    BY DEF ProgramInv
  <2>1. c = [t |-> 0, played |-> None, first |-> FALSE]
    BY Kinds
  <2>2. c.t = 0 /\ c.first = FALSE
    BY <2>1
  <2> QED
    BY <2>2 DEF ProgramInv, StartsOver
<1>7. DemoInv
  <2> SUFFICES ASSUME con = "RangeOfMotion" PROVE DemoInv
    BY DEF DemoInv
  <2>1. c = [step |-> 0, pose |-> Neutral, going |-> Neutral]
    BY Kinds
  <2> QED
    BY <2>1 DEF DemoInv
<1>8. SwingInv
  <2> SUFFICES ASSUME con = "FastLegSwing" PROVE SwingInv
    BY DEF SwingInv
  <2>1. c = [running |-> FALSE, finished |-> TRUE, phase |-> 0, at |-> None, cmd |-> "motors"]
    BY Kinds
  <2>2. c.cmd # "sine" /\ c.phase = 0
    BY <2>1
  <2>3. DOMAIN past = {"ref", "used", "since", "over", "rested", "leapt"}
    OBVIOUS
  <2> QED
    BY <2>2, <2>3, Zenon DEF SwingInv, SwingFromRest
<1> QED
  BY <1>3, <1>4, <1>5, <1>6, <1>7, <1>8 DEF MotionInv

(* Every cycle preserves it.                                               *)
LEMMA MotionStep == ASSUME MotionInv, [MotionNext]_mvars PROVE MotionInv'
<1> USE DEF MotionInv
<1>1. \A p \in Positions : Both(p) \in [Joints -> Nat]
  BY MotionConstants DEF Both
<1>2. ASSUME NEW enabled \in BOOLEAN, NEW motor \in Positions, NEW tgt \in Positions,
             NEW mode \in 0..2, NEW late \in 0..2, NEW flight \in BOOLEAN, NEW fault,
             SwitchingCycle(enabled, Both(motor), Both(tgt), mode, late, flight, fault)
      PROVE  MotionInv'
  <2>1. con \in Limited /\ con' = con
    BY <1>2, Kinds DEF SwitchingCycle, ATC
  <2>2. LimitersInv' /\ NoLeap'
    BY <1>1, <1>2, SwitchingStep DEF NoLeap
  <2>3. RampInv' /\ OverspeedStops'
    BY <1>2, RampStep, OverspeedStep DEF SwitchingCycle
  <2> QED
    BY <2>1, <2>2, <2>3, LimitedOnly
<1>3. ASSUME NEW enabled \in BOOLEAN, NEW motor \in Positions, NEW tgt \in Positions,
             MotorPositionCycle(enabled, Both(motor), Both(tgt))
      PROVE  MotionInv'
  <2>1. con \in Limited /\ con' = con
    BY <1>3, Kinds DEF MotorPositionCycle, ATC
  <2>2. LimitersInv' /\ NoLeap'
    BY <1>1, <1>3, MotorPositionStep DEF NoLeap
  <2>3. RampInv' /\ OverspeedStops'
    BY <1>3, RampStep, OverspeedStep DEF MotorPositionCycle
  <2> QED
    BY <2>1, <2>2, <2>3, LimitedOnly
<1>4. ASSUME NEW enabled \in BOOLEAN, NEW motor \in Positions, NEW tgt \in Positions,
             NEW vertical \in BOOLEAN, NEW smooth \in BOOLEAN,
             JointPositionCycle(enabled, Both(motor), Both(tgt), vertical, smooth)
      PROVE  MotionInv'
  <2>1. con \in Limited /\ con' = con
    BY <1>4, Kinds DEF JointPositionCycle, ATC
  <2>2. LimitersInv' /\ NoLeap'
    BY <1>1, <1>4, JointPositionStep DEF NoLeap
  <2>3. RampInv' /\ OverspeedStops'
    BY <1>4, RampStep, OverspeedStep DEF JointPositionCycle
  <2> QED
    BY <2>1, <2>2, <2>3, LimitedOnly
<1>5. ASSUME NEW enabled \in BOOLEAN, NEW newMotor \in BOOLEAN, ProgramCycle(enabled, newMotor)
      PROVE  MotionInv'
  <2>1. con \in Programs /\ con' = con
    BY <1>5 DEF ProgramCycle, ATC
  <2>2. LimitersInv' /\ DemoInv' /\ SwingInv'
    BY <2>1, Kinds, Zenon DEF LimitersInv, DemoInv, SwingInv
  <2>3. ProgramInv' /\ NoLeap'
    BY <1>5, ProgramStep DEF NoLeap
  <2>4. RampInv' /\ OverspeedStops'
    BY <1>5, RampStep, OverspeedStep DEF ProgramCycle
  <2> QED
    BY <2>2, <2>3, <2>4
<1>6. ASSUME NEW enabled \in BOOLEAN, NEW mode \in 0..1, NEW finished \in BOOLEAN,
             DemoCycle(enabled, mode, finished)
      PROVE  MotionInv'
  <2>1. con = "RangeOfMotion" /\ con' = con /\ past' = past
    BY <1>6 DEF DemoCycle
  <2>2. LimitersInv' /\ ProgramInv' /\ SwingInv' /\ RampInv'
    BY <2>1, Kinds, Zenon DEF LimitersInv, ProgramInv, SwingInv, RampInv
  <2>3. NoLeap' /\ OverspeedStops'
    BY <2>1 DEF NoLeap, OverspeedStops
  <2> QED
    BY <1>6, <2>2, <2>3, DemoStep
<1>7. ASSUME NEW enabled \in BOOLEAN, NEW demo \in BOOLEAN, NEW done \in BOOLEAN,
             SwingCycle(enabled, demo, done)
      PROVE  MotionInv'
  <2>1. con = "FastLegSwing" /\ con' = con
    BY <1>7 DEF SwingCycle
  <2>2. LimitersInv' /\ ProgramInv' /\ DemoInv' /\ RampInv'
    BY <2>1, Kinds, Zenon DEF LimitersInv, ProgramInv, DemoInv, RampInv
  <2>3. OverspeedStops'
    BY <2>1 DEF OverspeedStops
  <2>4. SwingInv' /\ NoLeap'
    BY <1>7, SwingStep DEF NoLeap
  <2> QED
    BY <2>2, <2>3, <2>4
<1>8. CASE UNCHANGED mvars
  BY <1>8 DEF mvars, Idle, LimitersInv, NoLeap, OverspeedStops, RampInv, ProgramInv, StartsOver,
              DemoInv, SwingInv, SwingFromRest
<1>9. CASE MotionNext
  <2>1. \A flight : flight \in (IF con = "Hopping" THEN BOOLEAN ELSE {FALSE}) => flight \in BOOLEAN
    OBVIOUS
  <2> QED
    BY <1>2, <1>3, <1>4, <1>5, <1>6, <1>7, <1>9, <2>1, ZenonT(60) DEF MotionNext
<1> QED
  BY <1>8, <1>9

(* It holds always.                                                        *)
LEMMA MotionAlways == MotionSpec => []MotionInv
<1>1. MotionInit => MotionInv
  BY MotionInitial
<1>2. MotionInv /\ [MotionNext]_mvars => MotionInv'
  BY MotionStep
<1> QED
  BY <1>1, <1>2, PTL DEF MotionSpec

(***************************************************************************)
(* What is commanded is safe to follow (NoLeap with its two exceptions,    *)
(* OverspeedStops, PosesWithinStops), at any rate limit, wherever the      *)
(* motors were moved and whatever was set while the robot was disabled.    *)
(***************************************************************************)
THEOREM SafeToFollow == MotionSpec => []CommandsSafe
<1>1. MotionInv => CommandsSafe
  BY PosesSafe DEF MotionInv, CommandsSafe
<1> QED
  BY <1>1, MotionAlways, PTL

(***************************************************************************)
(* Ramps begin at zero and the programs and sines outside GoesOn start     *)
(* over when the robot is enabled (RampsFromZero, StartsOver,              *)
(* SwingFromRest), for any startup time and program, also when the robot   *)
(* was disabled in the middle of them.                                     *)
(***************************************************************************)
THEOREM RunsStartAfresh == MotionSpec => []StartsAfresh
<1>1. MotionInv => RampsFromZero
  BY DEF MotionInv, RampInv, RampsFromZero
<1>2. MotionInv => StartsOver
  <2>1. "ForceControlDemo" \in Limited
    BY DEF Limited, Switching
  <2> QED
    BY <2>1, Kinds DEF MotionInv, ProgramInv, LimitersInv, StartsOver
<1>3. MotionInv => SwingFromRest
  BY DEF MotionInv, SwingInv, SwingFromRest
<1> QED
  BY <1>1, <1>2, <1>3, MotionAlways, PTL DEF StartsAfresh

----------------------------------------------------------------------------
(* The walkers: the types of their members.                                *)
WalkerType ==
  [controllerState : 0..2, walkingState : 0..3, sPrev : Int, qe : Int, qb : Int,
   r0 : Int, flag : BOOLEAN, r0lim : [Legs -> Int]]

(* The inductive invariant of the walkers.  A leg swings when it has taken *)
(* off and from there, and the limiters agree when walking starts.         *)
WalkerInv ==
  ctl \in Walkers =>
    /\ m \in WalkerType
    /\ hist.flying = Flying(m)
    /\ m.controllerState # 1 => m.walkingState = 3
    /\ m.sPrev >= 0
    /\ SwingFromTakeoff /\ EvenStance

(* That of the equilibrium point controller.                               *)
EqInv ==
  ctl = "EqPoint" =>
    /\ m \in [state : 0..2, t : 0..4, sw_stance : BOOLEAN, sw_flight : BOOLEAN,
              idle : BOOLEAN]
    /\ PhaseOfStance

HistType ==
  hist \in [flying : Legs \cup {"none"}, takeoff : Int, stepped : BOOLEAN,
            raced : BOOLEAN, started : BOOLEAN]

GaitInv == HistType /\ WalkerInv /\ EqInv

----------------------------------------------------------------------------
(* The parts of a cycle.                                                   *)
LEMMA ReadingTypes ==
  ASSUME NEW rs \in Readings
  PROVE  rs.pitch \in Int /\ \A leg \in Legs : rs.angle[leg] \in Int
BY GaitConstants DEF Readings

(* What updateController leaves alone.                                     *)
LEMMA WalkerUpdated ==
  ASSUME NEW m0 \in WalkerType, NEW enabled \in BOOLEAN, NEW late \in GuiInputs,
         NEW n, n = Update(m0, enabled, late)
  PROVE  /\ n \in WalkerType /\ n.controllerState = late.mode
         /\ n.walkingState = m0.walkingState /\ n.sPrev = m0.sPrev /\ n.qe = m0.qe
         /\ m0.controllerState # gui => n.r0lim["L"] = n.r0lim["R"]
<1> DEFINE lim == IF enabled /\ m0.controllerState = gui THEN m0.r0lim
                  ELSE [l \in Legs |-> m0.r0]
<1>1. n = [m0 EXCEPT !.r0lim = lim, !.controllerState = late.mode, !.r0 = late.r0]
  BY DEF Update, deadbeatUpdate, updateController
<1>2. late.mode \in 0..2 /\ late.r0 \in Int
  BY GaitConstants DEF GuiInputs
<1>3. /\ lim \in [Legs -> Int]
      /\ m0.controllerState # gui => lim["L"] = lim["R"]
  BY DEF WalkerType, Legs
<1> HIDE DEF lim
<1> QED
  BY <1>1, <1>2, <1>3 DEF WalkerType

(* A leg takes off from where it is.                                       *)
LEMMA LegReset ==
  ASSUME NEW m0 \in WalkerType, NEW rs \in Readings, NEW leg \in Legs,
         NEW n, n = resetFlightLegParameters(m0, rs, leg)
  PROVE  /\ n \in WalkerType /\ n.sPrev = 0 /\ n.qe = rs.angle[leg] + m0.qb
         /\ n.controllerState = m0.controllerState /\ n.walkingState = m0.walkingState
<1>1. /\ m0.r0lim \in [Legs -> Int] /\ m0.r0 \in Int
      /\ rs.angle[leg] + m0.qb \in Int
  BY ReadingTypes DEF WalkerType
<1> DEFINE lim == [m0.r0lim EXCEPT ![leg] = m0.r0]
           from == rs.angle[leg] + m0.qb
<1>2. n = [m0 EXCEPT !.r0lim = lim, !.sPrev = 0, !.qe = from]
  BY DEF resetFlightLegParameters, World, WalkerType
<1>3. lim \in [Legs -> Int] /\ from \in Int
  BY <1>1
<1> HIDE DEF lim, from
<1>4. n \in WalkerType
  <2>1. m0 \in [controllerState : 0..2, walkingState : 0..3, sPrev : Int, qe : Int,
                qb : Int, r0 : Int, flag : BOOLEAN, r0lim : [Legs -> Int]] /\ 0 \in Int
    BY DEF WalkerType
  <2> QED
    BY <1>2, <1>3, <2>1 DEF WalkerType
<1>5. /\ n.sPrev = 0 /\ n.qe = from
      /\ n.controllerState = m0.controllerState /\ n.walkingState = m0.walkingState
  BY <1>2 DEF WalkerType
<1> QED
  BY <1>4, <1>5 DEF from

(* The leg on the ground does not move the other one's swing.              *)
LEMMA StanceStep ==
  ASSUME NEW m0 \in WalkerType, NEW rs \in Readings, NEW leg \in Legs,
         NEW n, n = stanceController(m0, rs, leg)
  PROVE  /\ n \in WalkerType /\ n.sPrev = m0.sPrev /\ n.qe = m0.qe
         /\ n.controllerState = m0.controllerState /\ n.walkingState = m0.walkingState
         /\ n.r0 = m0.r0
         /\ n.r0lim[leg] = RateLimit(m0.r0lim[leg], m0.r0, SPRING_RATE)
         /\ \A l \in Legs \ {leg} : n.r0lim[l] = m0.r0lim[l]
<1> DEFINE r == RateLimit(m0.r0lim[leg], m0.r0, SPRING_RATE)
           lim == [m0.r0lim EXCEPT ![leg] = r]
<1>1. /\ m0.r0lim \in [Legs -> Int] /\ m0.r0 \in Int /\ rs.pitch \in Int
      /\ m0.r0lim[leg] \in Int
  BY ReadingTypes DEF WalkerType
<1>2. r \in Int
  BY <1>1, GaitConstants DEF RateLimit, Within
<1>3. n = [m0 EXCEPT !.r0lim = lim, !.qb = rs.pitch]
  BY DEF stanceController, WalkerType
<1> HIDE DEF r
<1>4. lim \in [Legs -> Int] /\ lim[leg] = r /\ \A l \in Legs \ {leg} : lim[l] = m0.r0lim[l]
  BY <1>1, <1>2
<1> HIDE DEF lim
<1> QED
  BY <1>1, <1>3, <1>4 DEF WalkerType, r

(* The leg in the air swings forward.                                      *)
LEMMA SwungStep ==
  ASSUME NEW m0 \in WalkerType, NEW rs \in Readings, NEW leg \in Legs,
         NEW n, n = swung(m0, rs, leg)
  PROVE  /\ n \in WalkerType /\ n.sPrev >= m0.sPrev /\ n.qe = m0.qe
         /\ n.controllerState = m0.controllerState /\ n.walkingState = m0.walkingState
<1> DEFINE p == [m0 EXCEPT !.qb = rs.pitch]
           q == GaitAngles(p)
           s == GaitParameter(p, World(p, rs, leg))
           sp == IF s < m0.sPrev THEN m0.sPrev ELSE s
<1>1. rs.pitch \in Int /\ rs.angle[leg] \in Int /\ m0.sPrev \in Int
  BY ReadingTypes DEF WalkerType
<1>2. p \in WalkerType /\ p.qb = rs.pitch /\ p.sPrev = m0.sPrev
  BY <1>1 DEF WalkerType
<1> HIDE DEF p
<1>3. q.q3 - q.q2 \in {2, 4} /\ q.q2 \in Int
  BY GaitConstants DEF GaitAngles, PoincareAngles, SlipAngles
<1>4. s \in Int
  <2>1. 4 * (World(p, rs, leg) - q.q2) \in Int
    BY <1>1, <1>2, <1>3 DEF World
  <2> DEFINE x == 4 * (World(p, rs, leg) - q.q2)
             d == q.q3 - q.q2
  <2>2. s = x \div d
    BY DEF GaitParameter
  <2>3. x \in Int /\ d \in {2, 4}
    BY <1>3, <2>1
  <2> HIDE DEF x, d, s, q
  <2> QED
    BY <2>2, <2>3
<1> HIDE DEF s
<1>5. sp \in Int /\ sp >= m0.sPrev
  BY <1>1, <1>4
<1>6. n = [p EXCEPT !.sPrev = sp]
  BY <1>2 DEF swung, p, s
<1> HIDE DEF sp
<1>7. /\ n \in WalkerType /\ n.sPrev = sp /\ n.qe = p.qe
      /\ n.controllerState = p.controllerState /\ n.walkingState = p.walkingState
  BY <1>2, <1>5, <1>6 DEF WalkerType
<1>8. /\ p.qe = m0.qe /\ p.controllerState = m0.controllerState
      /\ p.walkingState = m0.walkingState
  BY DEF p, WalkerType
<1> QED
  BY <1>5, <1>7, <1>8

(* A touch down ends the swing.                                            *)
LEMMA TouchDown ==
  ASSUME NEW m0 \in WalkerType, NEW rs \in Readings, NEW by,
         NEW n, n = singleSupportEvents(m0, rs, by)
  PROVE  /\ n \in WalkerType /\ n.sPrev = m0.sPrev /\ n.qe = m0.qe
         /\ n.controllerState = m0.controllerState
         /\ n.walkingState \in {m0.walkingState, (m0.walkingState + 1) % 4}
<1> DEFINE p == [m0 EXCEPT !.qb = rs.pitch]
<1>1. /\ p \in WalkerType /\ p.sPrev = m0.sPrev /\ p.qe = m0.qe
      /\ p.controllerState = m0.controllerState /\ p.walkingState = m0.walkingState
  BY ReadingTypes DEF WalkerType
<1>2. n \in {p, Advance(p)}
  BY DEF singleSupportEvents
<1> HIDE DEF p
<1> QED
  BY <1>1, <1>2 DEF Advance, WalkerType

(* A take-off begins another.                                              *)
LEMMA TakeOff ==
  ASSUME NEW m0 \in WalkerType, NEW rs \in Readings, NEW by,
         NEW n, n = doubleSupportEvents(m0, rs, by)
  PROVE  /\ n \in WalkerType /\ n.controllerState = m0.controllerState
         /\ \/ /\ n.walkingState = m0.walkingState /\ n.sPrev = m0.sPrev
               /\ n.r0lim = m0.r0lim
            \/ /\ n.walkingState = (m0.walkingState + 1) % 4 /\ n.sPrev = 0
               /\ n.qe = rs.angle[FlightLeg(m0.walkingState)] + rs.pitch
<1> DEFINE p == [m0 EXCEPT !.qb = rs.pitch]
           leg == FlightLeg(m0.walkingState)
           a == Advance(p)
<1>1. /\ p \in WalkerType /\ p.sPrev = m0.sPrev /\ p.qb = rs.pitch
      /\ p.controllerState = m0.controllerState /\ p.walkingState = m0.walkingState
      /\ p.r0lim = m0.r0lim
  BY ReadingTypes DEF WalkerType
<1>2. n = p \/ n = resetFlightLegParameters(a, rs, leg)
  BY <1>1 DEF doubleSupportEvents
<1> HIDE DEF p
<1>3. /\ a \in WalkerType /\ a.qb = rs.pitch /\ a.controllerState = m0.controllerState
      /\ a.walkingState = (m0.walkingState + 1) % 4
  BY <1>1 DEF Advance, WalkerType
<1>4. leg \in Legs
  BY DEF FlightLeg, Other, StanceLeg, Legs
<1> HIDE DEF a, leg
<1>5. CASE n = p
  BY <1>1, <1>5
<1>6. CASE n = resetFlightLegParameters(a, rs, leg)
  BY <1>3, <1>4, <1>6, LegReset DEF leg
<1> QED
  BY <1>2, <1>5, <1>6

----------------------------------------------------------------------------
(* A walker's cycle in single support: the leg swings on, or touches down. *)
LEMMA SingleStep ==
  ASSUME NEW m0 \in WalkerType, NEW rs \in Readings, NEW by, m0.walkingState \in {0, 2},
         NEW n, n \in {SingleSupport(m0, rs, by), DeadbeatWalks(m0, rs, by)}
  PROVE  /\ n \in WalkerType /\ n.sPrev >= m0.sPrev /\ n.qe = m0.qe
         /\ n.controllerState = m0.controllerState
         /\ n.walkingState \in {m0.walkingState, (m0.walkingState + 1) % 4}
<1> DEFINE st == StanceLeg(m0.walkingState)
<1>1. st \in Legs
  BY DEF StanceLeg, Legs
<1>2. /\ m0.sPrev \in Int
      /\ [m0 EXCEPT !.flag = @ \/ rs.angle[st] = VERTICAL] \in WalkerType
      /\ [m0 EXCEPT !.flag = @ \/ rs.angle[st] = VERTICAL].sPrev = m0.sPrev
      /\ [m0 EXCEPT !.flag = @ \/ rs.angle[st] = VERTICAL].qe = m0.qe
      /\ [m0 EXCEPT !.flag = @ \/ rs.angle[st] = VERTICAL].controllerState
           = m0.controllerState
      /\ [m0 EXCEPT !.flag = @ \/ rs.angle[st] = VERTICAL].walkingState = m0.walkingState
  <2> DEFINE f == m0.flag \/ rs.angle[st] = VERTICAL
  <2>1. f \in BOOLEAN
    OBVIOUS
  <2> HIDE DEF f
  <2>2. /\ [m0 EXCEPT !.flag = f] \in WalkerType /\ m0.sPrev \in Int
        /\ [m0 EXCEPT !.flag = f].sPrev = m0.sPrev
        /\ [m0 EXCEPT !.flag = f].qe = m0.qe
        /\ [m0 EXCEPT !.flag = f].controllerState = m0.controllerState
        /\ [m0 EXCEPT !.flag = f].walkingState = m0.walkingState
    BY <2>1 DEF WalkerType
  <2> QED
    BY <2>2 DEF f
<1>3. PICK p : /\ p \in {legSwingController(m0, rs, st), deadbeatSwing(m0, rs, st)}
               /\ n = singleSupportEvents(stanceController(p, rs, st), rs, by)
  BY DEF SingleSupport, DeadbeatWalks, deadbeatTouchDown, deadbeatStance
<1>4. /\ p \in WalkerType /\ p.sPrev >= m0.sPrev /\ p.qe = m0.qe
      /\ p.controllerState = m0.controllerState /\ p.walkingState = m0.walkingState
  <2>1. CASE p = legSwingController(m0, rs, st)
    BY <1>1, <2>1, SwungStep DEF legSwingController
  <2>2. CASE p = deadbeatSwing(m0, rs, st)
    <3> DEFINE g == [m0 EXCEPT !.flag = @ \/ rs.angle[st] = VERTICAL]
    <3>1. p = swung(g, rs, st)
      BY <2>2 DEF deadbeatSwing
    <3>2. /\ g \in WalkerType /\ g.sPrev = m0.sPrev /\ g.qe = m0.qe
          /\ g.controllerState = m0.controllerState /\ g.walkingState = m0.walkingState
      BY <1>2
    <3> HIDE DEF g
    <3> QED
      BY <1>1, <3>1, <3>2, SwungStep
  <2> QED
    BY <1>3, <2>1, <2>2
<1> DEFINE q == stanceController(p, rs, st)
<1>5. /\ q \in WalkerType /\ q.sPrev = p.sPrev /\ q.qe = p.qe
      /\ q.controllerState = p.controllerState /\ q.walkingState = p.walkingState
  BY <1>1, <1>4, StanceStep
<1> HIDE DEF q, st
<1>6. n = singleSupportEvents(q, rs, by)
  BY <1>3 DEF q
<1> QED
  BY <1>4, <1>5, <1>6, TouchDown

(* In double support: both stand, or one takes off.                        *)
LEMMA DoubleStep ==
  ASSUME NEW m0 \in WalkerType, NEW rs \in Readings, NEW by, m0.walkingState \in {1, 3},
         NEW n, n \in {DoubleSupport(m0, rs, by), DeadbeatWalks(m0, rs, by)}
  PROVE  /\ n \in WalkerType /\ n.controllerState = m0.controllerState
         /\ \/ /\ n.walkingState = m0.walkingState /\ n.sPrev = m0.sPrev
               /\ m0.r0lim["L"] = m0.r0lim["R"] => n.r0lim["L"] = n.r0lim["R"]
            \/ /\ n.walkingState = (m0.walkingState + 1) % 4 /\ n.sPrev = 0
               /\ n.qe = rs.angle[FlightLeg(m0.walkingState)] + rs.pitch
<1> DEFINE fl == FlightLeg(m0.walkingState)
           p  == stanceController(m0, rs, fl)
           q  == stanceController(p, rs, Other(fl))
<1>1. fl \in Legs /\ Other(fl) \in Legs /\ Legs = {fl, Other(fl)} /\ fl # Other(fl)
  BY DEF FlightLeg, StanceLeg, Other, Legs
<1>2. n = doubleSupportEvents(q, rs, by)
  <2>1. StanceLeg(m0.walkingState) = Other(fl)
    BY DEF FlightLeg, StanceLeg, Other
  <2>2. m0.walkingState \notin {0, 2}
    BY DEF WalkerType
  <2> QED
    BY <2>1, <2>2 DEF DoubleSupport, DeadbeatWalks, deadbeatTakeOff, deadbeatStance, FlightLeg
<1> HIDE DEF fl, q
<1>3. /\ p \in WalkerType /\ p.sPrev = m0.sPrev
      /\ p.controllerState = m0.controllerState /\ p.walkingState = m0.walkingState
      /\ p.r0 = m0.r0 /\ p.r0lim[fl] = RateLimit(m0.r0lim[fl], m0.r0, SPRING_RATE)
      /\ p.r0lim[Other(fl)] = m0.r0lim[Other(fl)]
  BY <1>1, StanceStep
<1> HIDE DEF p
<1>4. q = stanceController(p, rs, Other(fl))
  BY DEF q
<1>5. /\ q \in WalkerType /\ q.sPrev = p.sPrev
      /\ q.controllerState = p.controllerState /\ q.walkingState = p.walkingState
      /\ q.r0lim[Other(fl)] = RateLimit(p.r0lim[Other(fl)], p.r0, SPRING_RATE)
      /\ q.r0lim[fl] = p.r0lim[fl]
  BY <1>1, <1>3, <1>4, StanceStep
<1>6. m0.r0lim["L"] = m0.r0lim["R"] => q.r0lim["L"] = q.r0lim["R"]
  <2>1. \A r : r["L"] = r["R"] <=> r[fl] = r[Other(fl)]
    BY <1>1 DEF Legs, Other
  <2> QED
    BY <1>3, <1>5, <2>1
<1>7. /\ n \in WalkerType /\ n.controllerState = q.controllerState
      /\ \/ /\ n.walkingState = q.walkingState /\ n.sPrev = q.sPrev
            /\ n.r0lim = q.r0lim
         \/ /\ n.walkingState = (q.walkingState + 1) % 4 /\ n.sPrev = 0
            /\ n.qe = rs.angle[FlightLeg(q.walkingState)] + rs.pitch
  BY <1>2, <1>5, TakeOff
<1> QED
  BY <1>3, <1>5, <1>6, <1>7

----------------------------------------------------------------------------
(* A walker's cycle keeps its invariant, and swings forward.               *)
Forward == Walking /\ hist.flying # "none" /\ hist'.flying = hist.flying
             => m'.sPrev >= m.sPrev /\ m.sPrev >= 0

(* The history knows which leg is in the air.                              *)
LEMMA Remembered ==
  ASSUME NEW late \in GuiInputs, NEW rs \in Readings, HistType, m' \in WalkerType,
         Remember(late, rs)
  PROVE  HistType' /\ hist'.flying = Flying(m)'
<1>1. Flying(m') \in Legs \cup {"none"}
  BY DEF Flying, FlightLeg, Other, StanceLeg, Legs
<1>2. /\ \A leg \in Legs : rs.angle[leg] + rs.pitch \in Int
      /\ hist.takeoff \in Int
  BY ReadingTypes DEF HistType
<1> DEFINE t == IF Flying(m') # "none" /\ hist.flying = "none"
                THEN rs.angle[Flying(m')] + rs.pitch ELSE hist.takeoff
           r == late.mode # gui
           b == m'.controllerState = 1 /\ m.controllerState # 1
           f == Flying(m')
<1>3. t \in Int
  BY <1>1, <1>2
<1>4. r \in BOOLEAN /\ b \in BOOLEAN
  OBVIOUS
<1>5. hist' = [flying |-> f, stepped |-> FALSE, takeoff |-> t, raced |-> r, started |-> b]
  BY DEF Remember
<1> HIDE DEF t, r, b
<1>6. /\ f \in Legs \cup {"none"}
      /\ hist' \in [flying : Legs \cup {"none"}, takeoff : Int, stepped : BOOLEAN,
                    raced : BOOLEAN, started : BOOLEAN]
      /\ hist'.flying = f
  <2> HIDE DEF f
  <2> QED
    BY <1>1, <1>3, <1>4, <1>5 DEF f
<1> QED
  BY <1>6 DEF HistType

(* The controllers that stand or shut down leave both feet on the ground.  *)
LEMMA StillCycle ==
  ASSUME HistType, WalkerInv, ctl \in Walkers, NEW enabled \in BOOLEAN,
         NEW late \in GuiInputs, NEW rs \in Readings,
         StandCycle(enabled, late, rs) \/ ShutdownCycle(enabled, late, rs)
  PROVE  HistType' /\ WalkerInv' /\ Forward
<1> DEFINE u == Update(m, enabled, late)
           f == resetFlightLegParameters(u, rs, "L")
           w == [f EXCEPT !.walkingState = 3]
<1>1. m \in WalkerType
  BY DEF WalkerInv
<1>2. u \in WalkerType /\ u.controllerState = late.mode
  BY <1>1, WalkerUpdated
<1> HIDE DEF u
<1>3. f \in WalkerType /\ f.sPrev = 0 /\ f.controllerState = late.mode
  BY <1>2, LegReset DEF Legs
<1> HIDE DEF f
<1>4. /\ w \in WalkerType /\ w.sPrev = 0 /\ w.controllerState = late.mode
      /\ w.walkingState = 3
  BY <1>3 DEF WalkerType
<1>5. m' \in {w, [w EXCEPT !.qb = rs.pitch]} /\ Remember(late, rs) /\ ctl' = ctl
  BY DEF StandCycle, ShutdownCycle, Stand, Shutdown, standingController, f, u
<1>6. late.mode # 1
  BY DEF StandCycle, ShutdownCycle
<1> HIDE DEF w
<1>7. /\ m' \in WalkerType /\ m'.sPrev = 0 /\ m'.controllerState # 1
      /\ m'.walkingState = 3
  BY <1>4, <1>5, <1>6, ReadingTypes DEF WalkerType
<1>8. HistType' /\ hist'.flying = Flying(m)'
  BY <1>5, <1>7, Remembered
<1>9. Flying(m)' = "none"
  BY <1>7 DEF Flying
<1>10. WalkerInv'
  BY <1>7, <1>8 DEF WalkerInv, SwingFromTakeoff, EvenStance, Walking
<1>11. Forward
  BY <1>8, <1>9 DEF Forward
<1> QED
  BY <1>8, <1>10, <1>11

(* Walking.                                                                *)
LEMMA WalkingCycle ==
  ASSUME HistType, WalkerInv, ctl \in Walkers, NEW enabled \in BOOLEAN,
         NEW late \in GuiInputs, NEW rs \in Readings, NEW by, late.mode = 1,
         ctl' = ctl, Remember(late, rs),
         m.walkingState \in {0, 2}
           => m' \in {SingleSupport(Update(m, enabled, late), rs, by),
                     DeadbeatWalks(Update(m, enabled, late), rs, by)},
         m.walkingState \in {1, 3}
           => m' \in {DoubleSupport(Update(m, enabled, late), rs, by),
                     DeadbeatWalks(Update(m, enabled, late), rs, by)}
  PROVE  HistType' /\ WalkerInv' /\ Forward
<1> DEFINE u == Update(m, enabled, late)
<1>1. /\ m \in WalkerType /\ hist.flying = Flying(m) /\ m.sPrev >= 0
      /\ m.controllerState # 1 => m.walkingState = 3
      /\ SwingFromTakeoff /\ EvenStance
  BY DEF WalkerInv
<1>2. /\ u \in WalkerType /\ u.controllerState = 1
      /\ u.walkingState = m.walkingState /\ u.sPrev = m.sPrev /\ u.qe = m.qe
      /\ m.controllerState # gui => u.r0lim["L"] = u.r0lim["R"]
  BY <1>1, WalkerUpdated
<1>3. m.walkingState \in 0..3 /\ m.sPrev \in Int
  BY <1>1 DEF WalkerType
<1>4. hist'.takeoff = IF Flying(m') # "none" /\ hist.flying = "none"
                      THEN rs.angle[Flying(m')] + rs.pitch ELSE hist.takeoff
  BY DEF Remember
<1>5. /\ hist'.raced <=> 1 # gui
      /\ hist'.started <=> m'.controllerState = 1 /\ m.controllerState # 1
  BY DEF Remember
<1>6. CASE m.walkingState \in {0, 2}
  <2>1. m' \in {SingleSupport(u, rs, by), DeadbeatWalks(u, rs, by)}
    BY <1>6
  <2> HIDE DEF u
  <2>2. /\ m' \in WalkerType /\ m'.sPrev >= m.sPrev /\ m'.qe = m.qe
        /\ m'.controllerState = 1
        /\ m'.walkingState \in {m.walkingState, (m.walkingState + 1) % 4}
    BY <1>2, <1>6, <2>1, SingleStep
  <2>3. HistType' /\ hist'.flying = Flying(m)'
    BY <2>2, Remembered
  <2>4. m.controllerState = 1 /\ hist.flying # "none"
    BY <1>1, <1>6 DEF Flying, FlightLeg, Other, StanceLeg
  <2>5. hist'.takeoff = hist.takeoff /\ hist'.started = FALSE
    BY <1>4, <1>5, <2>2, <2>4 DEF HistType
  <2>6. SwingFromTakeoff' /\ EvenStance'
    BY <1>1, <2>2, <2>4, <2>5 DEF SwingFromTakeoff, EvenStance, Walking
  <2>7. m'.sPrev >= 0
    BY <1>1, <1>3, <2>2 DEF WalkerType
  <2> QED
    BY <1>1, <2>2, <2>3, <2>6, <2>7 DEF WalkerInv, Forward
<1>7. CASE m.walkingState \in {1, 3}
  <2> DEFINE leg == FlightLeg(m.walkingState)
  <2>1. m' \in {DoubleSupport(u, rs, by), DeadbeatWalks(u, rs, by)}
    BY <1>7
  <2> HIDE DEF u
  <2>2. /\ m' \in WalkerType /\ m'.controllerState = 1
        /\ \/ /\ m'.walkingState = m.walkingState /\ m'.sPrev = m.sPrev
              /\ u.r0lim["L"] = u.r0lim["R"] => m'.r0lim["L"] = m'.r0lim["R"]
           \/ /\ m'.walkingState = (m.walkingState + 1) % 4 /\ m'.sPrev = 0
              /\ m'.qe = rs.angle[leg] + rs.pitch
    BY <1>2, <1>7, <2>1, DoubleStep
  <2>3. HistType' /\ hist'.flying = Flying(m)'
    BY <2>2, Remembered
  <2>4. hist.flying = "none"
    BY <1>1, <1>7 DEF Flying
  <2>5. Forward
    BY <2>4 DEF Forward
  <2>6. CASE m'.walkingState = m.walkingState
    <3>1. Flying(m)' = "none"
      BY <1>7, <2>6 DEF Flying
    <3>2. /\ m'.sPrev = m.sPrev
          /\ u.r0lim["L"] = u.r0lim["R"] => m'.r0lim["L"] = m'.r0lim["R"]
      BY <1>7, <2>2, <2>6
    <3>3. EvenStance'
      BY <1>2, <1>5, <3>2 DEF EvenStance, Walking
    <3>4. SwingFromTakeoff'
      BY <2>3, <3>1 DEF SwingFromTakeoff
    <3> QED
      BY <1>1, <2>2, <2>3, <2>5, <3>2, <3>3, <3>4 DEF WalkerInv
  <2>7. CASE /\ m'.walkingState = (m.walkingState + 1) % 4 /\ m'.sPrev = 0
             /\ m'.qe = rs.angle[leg] + rs.pitch
    <3>1. Flying(m)' = leg /\ leg # "none"
      BY <1>7, <2>2, <2>7 DEF Flying, FlightLeg, StanceLeg, Other
    <3>2. hist'.takeoff = m'.qe
      BY <1>4, <2>4, <2>7, <3>1
    <3>3. EvenStance' /\ SwingFromTakeoff'
      BY <2>3, <3>1, <3>2 DEF EvenStance, SwingFromTakeoff
    <3> QED
      BY <2>2, <2>3, <2>5, <2>7, <3>3 DEF WalkerInv
  <2> QED
    BY <2>2, <2>6, <2>7
<1> QED
  BY <1>3, <1>6, <1>7

(* A cycle of a walking controller.                                        *)
LEMMA WalkerStep ==
  ASSUME HistType, WalkerInv, ctl \in Walkers, NEW enabled \in BOOLEAN,
         NEW late \in GuiInputs, NEW rs \in Readings,
         WalkingController(enabled, late, rs)
  PROVE  HistType' /\ WalkerInv' /\ Forward
<1>1. CASE StandCycle(enabled, late, rs) \/ ShutdownCycle(enabled, late, rs)
  BY <1>1, StillCycle
<1>2. ASSUME NEW by \in Triggers, SingleSupportCycle(enabled, late, rs, by)
      PROVE  HistType' /\ WalkerInv' /\ Forward
  <2>1. Update(m, enabled, late) = updateController(m, enabled, late)
    BY <1>2 DEF Update, SingleSupportCycle
  <2> QED
    BY <1>2, <2>1, WalkingCycle DEF SingleSupportCycle
<1>3. ASSUME NEW by \in Triggers, DoubleSupportCycle(enabled, late, rs, by)
      PROVE  HistType' /\ WalkerInv' /\ Forward
  <2>1. Update(m, enabled, late) = updateController(m, enabled, late)
    BY <1>3 DEF Update, DoubleSupportCycle
  <2> QED
    BY <1>3, <2>1, WalkingCycle DEF DoubleSupportCycle
<1>4. ASSUME NEW by \in Triggers, DeadbeatCycle(enabled, late, rs, by)
      PROVE  HistType' /\ WalkerInv' /\ Forward
  <2>1. Update(m, enabled, late) = deadbeatUpdate(m, enabled, late)
    BY <1>4 DEF Update, DeadbeatCycle
  <2> QED
    BY <1>4, <2>1, WalkingCycle DEF DeadbeatCycle
<1> QED
  BY <1>1, <1>2, <1>3, <1>4 DEF WalkingController

----------------------------------------------------------------------------
(* The equilibrium point controller: its members' types, a step that       *)
(* counts its own phase, and idle mode.                                    *)
EqType == [state : 0..2, t : 0..4, sw_stance : BOOLEAN, sw_flight : BOOLEAN,
           idle : BOOLEAN]

(* The phase counts from where it was.                                     *)
LEMMA PhaseAdvances ==
  ASSUME NEW e \in EqType, NEW s \in 0..4, NEW atPea,
         NEW n, n = CommandLegs(e, s, atPea)
  PROVE  /\ n \in EqType /\ n.state = e.state /\ n.idle = e.idle
         /\ e.t = 0 => n.t = s
<1> DEFINE t == IF s > e.t THEN s ELSE e.t
           a == e.sw_stance \/ atPea
           b == e.sw_flight \/ t = 4
<1>1. e.t \in 0..4
  BY DEF EqType
<1>2. t \in 0..4 /\ (e.t = 0 => t = s)
  BY <1>1
<1>3. a \in BOOLEAN /\ b \in BOOLEAN
  OBVIOUS
<1>4. n = [e EXCEPT !.t = t, !.sw_stance = a, !.sw_flight = b]
  BY DEF CommandLegs, EqType
<1> HIDE DEF t, a, b
<1> QED
  BY <1>2, <1>3, <1>4 DEF EqType

(* A switch of phases begins with its time at zero.                        *)
LEMMA Switched ==
  ASSUME NEW e \in EqType, NEW s \in 1..2, NEW ground,
         NEW n, n = SwitchFrom(e, s, ground)
  PROVE  /\ n \in EqType /\ n.idle = e.idle
         /\ n = e \/ n.t = 0
<1>1. CASE n = StepOver(e, 3 - s)
  <2> DEFINE k == 3 - s
  <2>1. k \in 0..2 /\ 0 \in 0..4 /\ FALSE \in BOOLEAN
    OBVIOUS
  <2>2. n = [e EXCEPT !.state = k, !.sw_stance = FALSE, !.sw_flight = FALSE, !.t = 0]
    BY <1>1 DEF StepOver
  <2> HIDE DEF k
  <2>3. n \in EqType
    BY <2>1, <2>2 DEF EqType
  <2>4. n.t = 0 /\ n.idle = e.idle
    BY <2>2 DEF EqType
  <2> QED
    BY <2>3, <2>4
<1> QED
  BY <1>1 DEF SwitchFrom

(* A cycle of the equilibrium point controller.                            *)
LEMMA EqPointStep ==
  ASSUME EqInv, HistType, ctl = "EqPoint",
         NEW enabled \in BOOLEAN, NEW starting \in BOOLEAN, NEW atPea \in BOOLEAN,
         NEW rGC \in BOOLEAN, NEW lGC \in BOOLEAN, NEW control \in 0..2, NEW s \in 0..4,
         EqPointController(enabled, control, starting, s, atPea, rGC, lGC)
  PROVE  HistType' /\ EqInv'
<1> DEFINE n == IdleMode(m, enabled, control)
           k == Switch(n, rGC, lGC)
           l == Switch(n, TRUE, TRUE)
           e == CASE control = 1 -> k [] control = 2 -> l [] OTHER -> n
<1>1. m \in EqType
  BY DEF EqInv, EqType
<1>2. /\ n \in EqType /\ n.state = m.state
      /\ n.idle <=> (m.idle /\ enabled) \/ control = 0
  <2> DEFINE i == (m.idle /\ enabled) \/ control = 0
  <2>1. i \in BOOLEAN /\ n = [m EXCEPT !.idle = i]
    BY DEF IdleMode
  <2> HIDE DEF i, n
  <2>2. n \in EqType /\ n.state = m.state /\ n.idle = i
    BY <1>1, <2>1 DEF EqType
  <2> QED
    BY <2>2 DEF i
<1> HIDE DEF n
<1>3. ASSUME NEW x, NEW y, NEW r, r = Switch(n, x, y)
      PROVE  r \in EqType /\ r.idle = n.idle /\ (r = n \/ r.t = 0)
  <2> DEFINE v == SwitchFrom(n, 2, x)
  <2>1. v \in EqType /\ v.idle = n.idle /\ (v = n \/ v.t = 0)
    BY <1>2, Switched
  <2> HIDE DEF v
  <2>2. r = SwitchFrom(v, 1, y)
    BY <1>3 DEF Switch, v
  <2>3. r \in EqType /\ r.idle = v.idle /\ (r = v \/ r.t = 0)
    BY <2>1, <2>2, Switched
  <2> QED
    BY <2>1, <2>3
<1>4. e \in EqType /\ e.idle = n.idle /\ (e = n \/ e.t = 0)
  <2>1. e \in {k, l, n}
    OBVIOUS
  <2> HIDE DEF e, k, l
  <2>2. k \in EqType /\ k.idle = n.idle /\ (k = n \/ k.t = 0)
    BY <1>3 DEF k
  <2>3. l \in EqType /\ l.idle = n.idle /\ (l = n \/ l.t = 0)
    BY <1>3 DEF l
  <2> QED
    BY <1>2, <2>1, <2>2, <2>3
<1>5. EqStep(n, control, rGC, lGC, s, atPea) = CommandLegs(e, s, atPea)
  BY DEF EqStep
<1> HIDE DEF e, k, l
<1>6. /\ m' = IF n.idle \/ ~enabled THEN n
              ELSE IF n.state = 0 THEN EqStartup(n, starting)
              ELSE CommandLegs(e, s, atPea)
      /\ hist' = [hist EXCEPT !.stepped = m.state # 0 /\ m'.state # m.state,
                              !.takeoff = s]
      /\ ctl' = ctl
  BY <1>5 DEF EqPointController, n
<1>7. HistType'
  <2> DEFINE b == m.state # 0 /\ m'.state # m.state
  <2>1. b \in BOOLEAN
    OBVIOUS
  <2>2. hist' = [hist EXCEPT !.stepped = b, !.takeoff = s]
    BY <1>6
  <2>3. hist \in [flying : Legs \cup {"none"}, takeoff : Int, stepped : BOOLEAN,
                  raced : BOOLEAN, started : BOOLEAN] /\ s \in Int
    BY DEF HistType
  <2> HIDE DEF b
  <2>4. hist' \in [flying : Legs \cup {"none"}, takeoff : Int, stepped : BOOLEAN,
                   raced : BOOLEAN, started : BOOLEAN]
    BY <2>1, <2>2, <2>3
  <2> QED
    BY <2>4 DEF HistType
<1>8. /\ hist'.stepped <=> m.state # 0 /\ m'.state # m.state
      /\ hist'.takeoff = s
  BY <1>6 DEF HistType
<1>9. /\ m' \in EqType /\ (m'.idle <=> n.idle)
      /\ m.state # 0 /\ m'.state # m.state => m'.t = s
  <2>1. CASE n.idle \/ ~enabled
    BY <1>2, <1>6, <2>1
  <2>2. CASE ~(n.idle \/ ~enabled) /\ n.state = 0
    <3>1. m' = EqStartup(n, starting) /\ m.state = 0
      BY <1>2, <1>6, <2>2
    <3>2. \/ m' = n
          \/ m' = [n EXCEPT !.state = 2, !.sw_flight = TRUE, !.sw_stance = TRUE, !.t = 4]
      BY <3>1 DEF EqStartup
    <3>3. [n EXCEPT !.state = 2, !.sw_flight = TRUE, !.sw_stance = TRUE, !.t = 4]
            \in EqType
      <4>1. 2 \in 0..2 /\ 4 \in 0..4 /\ TRUE \in BOOLEAN
        OBVIOUS
      <4>2. n \in EqType
        BY <1>2
      <4> QED
        BY ONLY <4>1, <4>2, Zenon DEF EqType
    <3>4. m'.idle = n.idle
      BY <1>2, <3>2 DEF EqType
    <3> QED
      BY <1>2, <3>1, <3>2, <3>3, <3>4
  <2>3. CASE ~(n.idle \/ ~enabled) /\ n.state # 0
    <3>1. m' = CommandLegs(e, s, atPea)
      BY <1>6, <2>3
    <3>2. /\ m' \in EqType /\ m'.state = e.state /\ m'.idle = e.idle
          /\ e.t = 0 => m'.t = s
      BY <1>4, <3>1, PhaseAdvances
    <3> QED
      BY <1>2, <1>4, <3>2
  <2> QED
    BY <2>1, <2>2, <2>3
<1>10. EqInv'
  BY <1>1, <1>2, <1>8, <1>9
     DEF EqInv, EqType, PhaseOfStance
<1> QED
  BY <1>7, <1>10

----------------------------------------------------------------------------
(* The invariant of the gaits holds at first.                              *)
LEMMA GaitStarts == GaitInit => GaitInv
<1> SUFFICES ASSUME GaitInit PROVE GaitInv
  OBVIOUS
<1>1. hist = [flying |-> "none", takeoff |-> 0, stepped |-> FALSE, raced |-> FALSE,
              started |-> FALSE]
  BY DEF GaitInit
<1>2. HistType
  BY <1>1 DEF HistType
<1>3. WalkerInv
  <2> SUFFICES ASSUME ctl \in Walkers PROVE WalkerInv
    BY DEF WalkerInv
  <2>1. m = SlipWalking
    BY DEF GaitInit, Walkers, Deadbeat
  <2>2. [l \in Legs |-> 0] \in [Legs -> Int]
    OBVIOUS
  <2>3. /\ m \in WalkerType /\ m.controllerState = 0 /\ m.walkingState = 3
        /\ m.sPrev = 0
    BY <2>1, <2>2 DEF SlipWalking, WalkerType
  <2> QED
    BY <1>1, <2>3 DEF WalkerInv, Flying, SwingFromTakeoff, EvenStance, Walking
<1>4. EqInv
  <2> SUFFICES ASSUME ctl = "EqPoint" PROVE EqInv
    BY DEF EqInv
  <2>1. m = EqPoint
    BY DEF GaitInit, Walkers
  <2> QED
    BY <1>1, <2>1 DEF EqInv, EqPoint, PhaseOfStance
<1> QED
  BY <1>2, <1>3, <1>4 DEF GaitInv

(* Every cycle preserves it, and swings go forward.                        *)
LEMMA GaitSteps == GaitInv /\ [GaitNext]_gvars => GaitInv' /\ Forward
<1> SUFFICES ASSUME GaitInv, [GaitNext]_gvars PROVE GaitInv' /\ Forward
  OBVIOUS
<1> USE DEF GaitInv
<1>0. ctl \in Walkers => m.sPrev >= 0 /\ m.sPrev \in Int
  BY DEF WalkerInv, WalkerType
<1>1. CASE UNCHANGED <<ctl, m, hist>>
  <2>1. Forward
    BY <1>0, <1>1 DEF Forward, Walking
  <2> QED
    BY <1>1, <2>1 DEF HistType, WalkerInv, EqInv, Flying, SwingFromTakeoff, EvenStance,
                      Walking, PhaseOfStance
<1>2. CASE guiInCallback
  BY <1>1, <1>2 DEF guiInCallback
<1>3. ASSUME ctl \in Walkers,
             NEW enabled \in BOOLEAN, NEW late \in GuiInputs, NEW rs \in Readings,
             WalkingController(enabled, late, rs)
      PROVE  GaitInv' /\ Forward
  <2>1. HistType' /\ WalkerInv' /\ Forward
    BY <1>3, WalkerStep
  <2>2. ctl' = ctl
    BY <1>3 DEF WalkingController, StandCycle, ShutdownCycle, SingleSupportCycle,
                DoubleSupportCycle, DeadbeatCycle
  <2>3. EqInv'
    BY <1>3, <2>2 DEF EqInv, Walkers
  <2> QED
    BY <2>1, <2>3
<1>4. ASSUME ctl = "EqPoint",
             NEW enabled \in BOOLEAN, NEW starting \in BOOLEAN, NEW atPea \in BOOLEAN,
             NEW rGC \in BOOLEAN, NEW lGC \in BOOLEAN, NEW control \in 0..2, NEW s \in 0..4,
             EqPointController(enabled, control, starting, s, atPea, rGC, lGC)
      PROVE  GaitInv' /\ Forward
  <2>1. HistType' /\ EqInv'
    BY <1>4, EqPointStep
  <2>2. ctl' \notin Walkers /\ ctl \notin Walkers
    BY <1>4 DEF EqPointController, Walkers
  <2> QED
    BY <2>1, <2>2 DEF WalkerInv, Forward, Walking
<1>5. ASSUME ctl \in {"Hopping", "Canonical"}, ctl' = ctl, hist' = hist
      PROVE  GaitInv' /\ Forward
  BY <1>5 DEF HistType, WalkerInv, EqInv, Forward, Walking, Walkers
<1>6. CASE UNCHANGED gvars
  BY <1>1, <1>6 DEF gvars
<1>7. CASE GaitNext
  BY <1>2, <1>3, <1>4, <1>5, <1>7 DEF GaitNext, HoppingController, CanonicalController
<1> QED
  BY <1>6, <1>7

(***************************************************************************)
(* Every step of a walk is made of its own events: it swings from where    *)
(* its own leg took off and only forward, starts on even legs, and the     *)
(* equilibrium point controller counts its own phase, for any angles,      *)
(* pitches, lengths and rates.                                             *)
(***************************************************************************)
THEOREM StepsAreTheirOwn == GaitSpec => StepsAreOwn
<1>1. GaitInv => SwingFromTakeoff /\ PhaseOfStance /\ EvenStance
  BY DEF GaitInv, WalkerInv, EqInv, SwingFromTakeoff, PhaseOfStance, EvenStance, Walking
<1>2. Forward /\ GaitInv /\ [GaitNext]_gvars
        => [(Walking /\ hist.flying # "none" /\ hist'.flying = hist.flying)
              => m'.sPrev >= m.sPrev /\ m.sPrev >= 0]_gvars
  BY DEF Forward
<1> QED
  BY <1>1, <1>2, GaitStarts, GaitSteps, PTL DEF GaitSpec, StepsAreOwn, SwingForward

----------------------------------------------------------------------------
(***************************************************************************)
(* The toe filter.  The baseline is a sum over the deque, so what bounds   *)
(* its entries bounds it by an induction over the deque; what a start-up   *)
(* leaves in it is bounded by the slowest start-up, cycle by cycle.        *)
(***************************************************************************)

(* Induction over the numbers up to N, for the set of those for which      *)
(* something holds: there is no smallest one outside it.                   *)
LEMMA Induction ==
  ASSUME NEW N \in Nat, NEW T, 0 \in T, \A n \in 1..N : n - 1 \in T => n \in T
  PROVE  \A n \in 0..N : n \in T
<1> DEFINE Left == (0..N) \ T
<1>1. SUFFICES ASSUME Left # {} PROVE FALSE
  OBVIOUS
<1>2. PICK k \in Left : \A n \in Left : ~ (<<n, k>> \in OpToRel(<, Nat))
  <2>1. Left \subseteq Nat
    OBVIOUS
  <2> HIDE DEF Left
  <2> QED
    BY <1>1, <2>1, NatLessThanWellFounded, WFMin, Zenon
<1>3. k \in 1..N /\ k - 1 \in 0..N
  OBVIOUS
<1>4. k - 1 \in Left
  BY <1>3
<1>5. <<k - 1, k>> \in OpToRel(<, Nat)
  BY <1>3 DEF OpToRel
<1> HIDE DEF Left
<1> QED
  BY <1>2, <1>4, <1>5, Zenon

(* f is defined step by step.                                              *)
Stepwise(f, N, init, step) ==
  f[0] = init /\ \A n \in 1..N : f[n] = step[<<f[n - 1], n>>]

(* A function defined step by step exists and stays in its range.          *)
LEMMA Recursion ==
  ASSUME NEW N \in Nat, NEW S, NEW init \in S, NEW step \in [S \X (1..N) -> S]
  PROVE  \E f \in [0..N -> S] : Stepwise(f, N, init, step)
<1> DEFINE Upto(f, k) == f[0] = init /\ \A n \in 1..k : f[n] = step[<<f[n - 1], n>>]
           T == {k \in 0..N : \E f \in [0..k -> S] : Upto(f, k)}
<1>1. 0 \in T
  <2>1. [i \in 0..0 |-> init] \in [0..0 -> S] /\ Upto([i \in 0..0 |-> init], 0)
    OBVIOUS
  <2> HIDE DEF Upto
  <2> QED
    BY <2>1
<1>2. ASSUME NEW k \in 1..N, k - 1 \in T
      PROVE  k \in T
  <2>1. PICK f \in [0..k - 1 -> S] : Upto(f, k - 1)
    BY <1>2
  <2> DEFINE g == [i \in 0..k |-> IF i = k THEN step[<<f[k - 1], k>>] ELSE f[i]]
  <2>2. k - 1 \in 0..k - 1 /\ step[<<f[k - 1], k>>] \in S
    BY <2>1
  <2>3. g \in [0..k -> S]
    BY <2>1, <2>2
  <2>4. g[0] = init
    BY <2>1
  <2>5. ASSUME NEW n \in 1..k PROVE g[n] = step[<<g[n - 1], n>>]
    <3>1. n - 1 \in 0..k /\ n - 1 # k /\ n \in 0..k
      OBVIOUS
    <3>2. g[n - 1] = f[n - 1]
      BY <3>1
    <3>3. CASE n = k
      BY <3>1, <3>2, <3>3
    <3>4. CASE n # k
      <4>1. n \in 1..k - 1 /\ g[n] = f[n]
        BY <3>1, <3>4
      <4> QED
        BY <2>1, <3>2, <4>1
    <3> QED
      BY <3>3, <3>4
  <2> HIDE DEF g
  <2>6. Upto(g, k) /\ k \in 0..N
    BY <2>4, <2>5
  <2> HIDE DEF Upto
  <2> QED
    BY <2>3, <2>6
<1> HIDE DEF T
<1>3. \A n \in 0..N : n \in T
  BY <1>1, <1>2, Induction
<1> QED
  BY <1>3 DEF T, Stepwise

(* So do the sums of numbers.                                              *)
LEMMA Accumulation ==
  ASSUME NEW N \in Nat, NEW s \in [1..N -> Int]
  PROVE  \E p \in [0..N -> Int] :
           p[0] = 0 /\ \A n \in 1..N : p[n] = p[n - 1] + s[n]
<1> DEFINE step == [x \in Int \X (1..N) |-> x[1] + s[x[2]]]
<1>1. step \in [Int \X (1..N) -> Int]
  OBVIOUS
<1>2. PICK p \in [0..N -> Int] : Stepwise(p, N, 0, step)
  <2>1. 0 \in Int
    OBVIOUS
  <2> HIDE DEF step
  <2> QED
    BY <1>1, <2>1, Recursion
<1>3. ASSUME NEW n \in 1..N PROVE p[n] = p[n - 1] + s[n]
  <2>1. n - 1 \in 0..N
    OBVIOUS
  <2>2. <<p[n - 1], n>> \in Int \X (1..N)
    BY <1>2, <2>1
  <2> QED
    BY <1>2, <2>2 DEF Stepwise
<1> HIDE DEF step
<1> QED
  BY <1>2, <1>3 DEF Stepwise

(* The sums of a sequence's prefixes.                                      *)
Prefixes(p, s) ==
  /\ p \in [0..Len(s) -> Int] /\ p[0] = 0
  /\ \A n \in 1..Len(s) : p[n] = p[n - 1] + s[n]

(* A total is the last sum.                                                *)
LEMMA TotalOf ==
  ASSUME NEW s \in Seq(Int)
  PROVE  \E p : Prefixes(p, s) /\ Total(s) = p[Len(s)]
<1> DEFINE F(p) == [n \in 0..Len(s) |-> IF n = 0 THEN 0 ELSE p[n - 1] + s[n]]
           sums == CHOOSE p : p = F(p)
<1>1. Len(s) \in Nat /\ s \in [1..Len(s) -> Int]
  OBVIOUS
<1>2. PICK p \in [0..Len(s) -> Int] :
        p[0] = 0 /\ \A n \in 1..Len(s) : p[n] = p[n - 1] + s[n]
  BY <1>1, Accumulation
<1>3. p = F(p)
  BY <1>1, <1>2
<1>4. sums = F(sums)
  <2> HIDE DEF F
  <2> QED
    BY <1>3, Zenon
<1> DEFINE T == {n \in 0..Len(s) : sums[n] = p[n]}
<1>5. \A n \in 0..Len(s) : sums[n] = (IF n = 0 THEN 0 ELSE sums[n - 1] + s[n])
  BY <1>4
<1>6. \A n \in 0..Len(s) : n \in T
  <2> HIDE DEF sums
  <2>1. 0 \in T
    BY <1>1, <1>2, <1>5
  <2>2. ASSUME NEW n \in 1..Len(s), n - 1 \in T PROVE n \in T
    BY <1>1, <1>2, <1>5, <2>2
  <2> HIDE DEF T
  <2> QED
    BY <1>1, <2>1, <2>2, Induction
<1>7. sums = p
  <2>1. sums = [n \in 0..Len(s) |-> sums[n]]
    BY <1>4
  <2> HIDE DEF sums
  <2> QED
    BY <1>2, <1>6, <2>1
<1>8. Total(s) = sums[Len(s)]
  BY DEF Total
<1> HIDE DEF sums
<1> QED
  BY <1>2, <1>7, <1>8 DEF Prefixes

(* Totals follow the entries.                                              *)
LEMMA TotalMonotone ==
  ASSUME NEW s \in Seq(Int), NEW t \in Seq(Int), Len(s) = Len(t),
         \A n \in 1..Len(s) : s[n] <= t[n]
  PROVE  Total(s) \in Int /\ Total(t) \in Int /\ Total(s) <= Total(t)
<1>1. PICK p : Prefixes(p, s) /\ Total(s) = p[Len(s)]
  BY TotalOf
<1>2. PICK q : Prefixes(q, t) /\ Total(t) = q[Len(t)]
  BY TotalOf
<1> DEFINE T == {n \in 0..Len(s) : p[n] <= q[n]}
<1>3. Len(s) \in Nat /\ \A n \in 1..Len(s) : s[n] \in Int /\ t[n] \in Int
  OBVIOUS
<1>4. 0 \in T
  BY <1>1, <1>2, <1>3 DEF Prefixes
<1>5. ASSUME NEW n \in 1..Len(s), n - 1 \in T PROVE n \in T
  <2>1. p[n - 1] <= q[n - 1] /\ s[n] <= t[n] /\ n \in 0..Len(s)
    BY <1>3, <1>5
  <2>2. n \in 1..Len(t) /\ n - 1 \in 0..Len(s) /\ n - 1 \in 0..Len(t)
    BY <1>3
  <2>3. p[n] = p[n - 1] + s[n] /\ p[n - 1] \in Int
    BY <1>1, <2>2 DEF Prefixes
  <2>4. q[n] = q[n - 1] + t[n] /\ q[n - 1] \in Int
    BY <1>2, <2>2 DEF Prefixes
  <2>5. s[n] \in Int /\ t[n] \in Int
    BY <1>3
  <2>6. p[n] <= q[n]
    BY <2>1, <2>3, <2>4, <2>5
  <2> QED
    BY <2>1, <2>6
<1>6. \A n \in 0..Len(s) : n \in T
  <2> HIDE DEF T
  <2> QED
    BY <1>3, <1>4, <1>5, Induction
<1> QED
  BY <1>1, <1>2, <1>3, <1>6 DEF Prefixes

(* No entry less than k: the average is not, either.                       *)
LEMMA TotalAtLeast ==
  ASSUME NEW s \in Seq(Int), NEW k \in Int, \A n \in 1..Len(s) : k <= s[n]
  PROVE  Total(s) \in Int /\ k * Len(s) <= Total(s)
<1>1. PICK p : Prefixes(p, s) /\ Total(s) = p[Len(s)]
  BY TotalOf
<1> DEFINE T == {n \in 0..Len(s) : k * n <= p[n]}
<1>2. Len(s) \in Nat /\ \A n \in 1..Len(s) : s[n] \in Int
  OBVIOUS
<1>3. 0 \in T
  BY <1>1, <1>2 DEF Prefixes
<1>4. ASSUME NEW n \in 1..Len(s), n - 1 \in T PROVE n \in T
  <2>1. k * (n - 1) <= p[n - 1] /\ k <= s[n]
    BY <1>4
  <2>2. k * (n - 1) + k = k * n /\ k * n \in Int /\ k * (n - 1) \in Int
    BY <1>4
  <2>3. p[n] = p[n - 1] + s[n] /\ p[n - 1] \in Int /\ s[n] \in Int
    <3>1. n - 1 \in 0..Len(s)
      BY <1>2
    <3>2. p \in [0..Len(s) -> Int] /\ p[n] = p[n - 1] + s[n]
      BY <1>1 DEF Prefixes
    <3> QED
      BY <1>2, <3>1, <3>2
  <2> DEFINE kn == k * n
             kn1 == k * (n - 1)
  <2>4. kn1 <= p[n - 1] /\ kn1 + k = kn /\ kn \in Int /\ kn1 \in Int
    BY <2>1, <2>2
  <2> HIDE DEF kn, kn1
  <2>5. kn <= p[n]
    BY <2>1, <2>3, <2>4
  <2> QED
    BY <1>2, <2>5 DEF kn
<1>5. \A n \in 0..Len(s) : n \in T
  <2> HIDE DEF T
  <2> QED
    BY <1>2, <1>3, <1>4, Induction
<1> QED
  BY <1>1, <1>2, <1>5 DEF Prefixes

(* A quotient is no less than a factor.                                     *)
LEMMA QuotientAtLeast ==
  ASSUME NEW x \in Int, NEW k \in Int, NEW n \in Nat \ {0}, k * n <= x
  PROVE  k <= x \div n
<1> DEFINE q == x \div n
<1>1. q \in Int /\ x < q * n + n
  OBVIOUS
<1> HIDE DEF q
<1>2. SUFFICES ASSUME ~ (k <= q) PROVE FALSE
  BY DEF q
<1> DEFINE e == k - q - 1
<1>3. e \in Nat /\ k = q + 1 + e
  BY <1>1, <1>2
<1> HIDE DEF e
<1>4. e * n \in Nat /\ q * n \in Int
  BY <1>1, <1>3
<1>5. k * n = q * n + n + e * n
  BY <1>1, <1>3
<1> QED
  BY <1>1, <1>4, <1>5

(* Quotients by the same divisor are ordered as their dividends are.       *)
LEMMA Quotients ==
  ASSUME NEW x \in Int, NEW y \in Int, NEW n \in Nat \ {0}, x <= y
  PROVE  x \div n \in Int /\ y \div n \in Int /\ x \div n <= y \div n
<1> DEFINE q == x \div n
<1>1. q \in Int /\ y \div n \in Int /\ q * n <= x /\ q * n \in Int
  OBVIOUS
<1> HIDE DEF q
<1>2. q * n <= y
  BY <1>1
<1>3. q <= y \div n
  BY <1>1, <1>2, QuotientAtLeast
<1> QED
  BY <1>1, <1>3 DEF q

----------------------------------------------------------------------------
Deques == [1..LENGTH -> Int]

(* The constants' numbers.                                                 *)
LEMMA ToeNumbers ==
  /\ LENGTH \in Nat /\ IGNORED \in Nat /\ START \in Nat /\ ADC_MAX \in Nat
  /\ JUMP \in Nat /\ THRESHOLD \in Nat
  /\ IGNORED > 1 /\ LENGTH > IGNORED + 1 /\ START > ADC_MAX
  /\ 1 \in 1..LENGTH /\ 2 \in 1..LENGTH /\ LENGTH \in 1..LENGTH
  /\ \A r \in ToeReadings : r \in Nat /\ r < START
  /\ HighestAir \in Air /\ \A air \in Air : air <= HighestAir
<1>1. /\ LENGTH \in Nat /\ IGNORED \in Nat /\ START \in Nat /\ ADC_MAX \in Nat
      /\ JUMP \in Nat /\ THRESHOLD \in Nat
      /\ IGNORED > 1 /\ LENGTH > IGNORED + 1 /\ START > ADC_MAX
      /\ \A r \in ToeReadings : r \in 0..ADC_MAX
  BY ToeAssumption
<1>2. HighestAir \in Air /\ \A air \in Air : air <= HighestAir
  BY ToeAssumption DEF HighestAir
<1> QED
  BY <1>1, <1>2

(* The deque at first.                                                     *)
LEMMA FilledDeque == Filled \in Deques /\ \A i \in 1..LENGTH : Filled[i] = START
BY ToeNumbers DEF Filled, Deques

(* What an update returns: the average in front of the others.             *)
LEMMA UpdatedDeque ==
  ASSUME NEW d \in Deques, NEW new \in ToeReadings
  PROVE  LET good == BadData(new, d[1])
             toe  == IF Jumps(good, d) THEN d[1] ELSE good
         IN  /\ updateToeFilter(new, d) \in Deques
             /\ toe \in Int
             /\ updateToeFilter(new, d)[1] = (d[1] + d[2] + toe) \div 3
             /\ \A i \in 2..LENGTH : updateToeFilter(new, d)[i] = d[i - 1]
<1> DEFINE good == BadData(new, d[1])
           toe  == IF Jumps(good, d) THEN d[1] ELSE good
           first == (d[1] + d[2] + toe) \div 3
<1>1. /\ LENGTH \in Nat /\ LENGTH > 2 /\ new \in Int
      /\ d[1] \in Int /\ d[2] \in Int
  BY ToeNumbers DEF Deques
<1>2. good \in Int
  BY <1>1 DEF BadData
<1>3. toe \in Int
  BY <1>1, <1>2
<1>4. first \in Int
  <2> HIDE DEF toe
  <2> QED
    BY <1>1, <1>3
<1>5. updateToeFilter(new, d) = <<first>> \o SubSeq(d, 1, LENGTH - 1)
  BY DEF updateToeFilter
<1> HIDE DEF first
<1>6. d \in Seq(Int) /\ Len(d) = LENGTH
  BY <1>1 DEF Deques
<1>7. /\ SubSeq(d, 1, LENGTH - 1) \in Seq(Int)
      /\ Len(SubSeq(d, 1, LENGTH - 1)) = LENGTH - 1
      /\ \A i \in 1..LENGTH - 1 : SubSeq(d, 1, LENGTH - 1)[i] = d[i]
  BY <1>1, <1>6
<1> DEFINE u == <<first>> \o SubSeq(d, 1, LENGTH - 1)
<1>8. u \in Seq(Int) /\ Len(u) = LENGTH /\ u[1] = first
  BY <1>1, <1>4, <1>7
<1>9. \A i \in 2..LENGTH : u[i] = d[i - 1]
  BY <1>1, <1>4, <1>7
<1>10. u \in Deques
  <2> HIDE DEF u
  <2> QED
    BY <1>8 DEF Deques
<1> HIDE DEF u
<1> QED
  BY <1>3, <1>5, <1>8, <1>9, <1>10 DEF first, u

(* A lower baseline is as well exceeded.                                   *)
LEMMA DetectedBelow ==
  ASSUME NEW d \in Deques, NEW e \in Deques, NEW toe \in Int,
         \A i \in 1..LENGTH : d[i] <= e[i], detectStance(toe, e)
  PROVE  detectStance(toe, d)
<1> DEFINE dBack == SubSeq(d, IGNORED + 1, LENGTH)
           eBack == SubSeq(e, IGNORED + 1, LENGTH)
<1>1. /\ LENGTH \in Nat /\ IGNORED \in Nat /\ THRESHOLD \in Nat
      /\ LENGTH - IGNORED \in Nat \ {0}
  BY ToeNumbers
<1>2. d \in Seq(Int) /\ Len(d) = LENGTH /\ e \in Seq(Int) /\ Len(e) = LENGTH
  BY <1>1 DEF Deques
<1>3. /\ dBack \in Seq(Int) /\ Len(dBack) = LENGTH - IGNORED
      /\ \A i \in 1..LENGTH - IGNORED : dBack[i] = d[IGNORED + i]
  BY <1>1, <1>2
<1>4. /\ eBack \in Seq(Int) /\ Len(eBack) = LENGTH - IGNORED
      /\ \A i \in 1..LENGTH - IGNORED : eBack[i] = e[IGNORED + i]
  BY <1>1, <1>2
<1> HIDE DEF dBack, eBack
<1>5. \A i \in 1..Len(dBack) : dBack[i] <= eBack[i]
  BY <1>1, <1>3, <1>4
<1>6. Total(dBack) \in Int /\ Total(eBack) \in Int /\ Total(dBack) <= Total(eBack)
  BY <1>3, <1>4, <1>5, TotalMonotone
<1>7. Total(dBack) \div (LENGTH - IGNORED) <= Total(eBack) \div (LENGTH - IGNORED)
  BY <1>1, <1>6, Quotients
<1>8. /\ Total(dBack) \div (LENGTH - IGNORED) \in Int
      /\ Total(eBack) \div (LENGTH - IGNORED) \in Int
  BY <1>1, <1>6, Quotients
<1>9. toe > THRESHOLD + Total(eBack) \div (LENGTH - IGNORED)
  BY DEF detectStance, eBack
<1>10. toe > THRESHOLD + Total(dBack) \div (LENGTH - IGNORED)
  BY <1>1, <1>7, <1>8, <1>9
<1> QED
  BY <1>10 DEF detectStance, dBack

(* A reading that no average is more than the threshold below is not taken *)
(* for a touch down.                                                       *)
LEMMA NotDetected ==
  ASSUME NEW d \in Deques, NEW toe \in Int,
         \A i \in 1..LENGTH : toe - THRESHOLD <= d[i]
  PROVE  ~ detectStance(toe, d)
<1> DEFINE dBack == SubSeq(d, IGNORED + 1, LENGTH)
<1>1. /\ LENGTH \in Nat /\ IGNORED \in Nat /\ THRESHOLD \in Nat
      /\ LENGTH - IGNORED \in Nat \ {0}
  BY ToeNumbers
<1>2. d \in Seq(Int) /\ Len(d) = LENGTH
  BY <1>1 DEF Deques
<1>3. /\ dBack \in Seq(Int) /\ Len(dBack) = LENGTH - IGNORED
      /\ \A i \in 1..LENGTH - IGNORED : dBack[i] = d[IGNORED + i]
  BY <1>1, <1>2
<1> HIDE DEF dBack
<1>4. \A i \in 1..Len(dBack) : toe - THRESHOLD <= dBack[i]
  BY <1>1, <1>3
<1>5. /\ Total(dBack) \in Int
      /\ (toe - THRESHOLD) * (LENGTH - IGNORED) <= Total(dBack)
  <2>1. toe - THRESHOLD \in Int
    BY <1>1
  <2> QED
    BY <1>3, <1>4, <2>1, TotalAtLeast
<1>6. /\ toe - THRESHOLD <= Total(dBack) \div (LENGTH - IGNORED)
      /\ Total(dBack) \div (LENGTH - IGNORED) \in Int
  <2>1. toe - THRESHOLD \in Int
    BY <1>1
  <2>2. toe - THRESHOLD <= Total(dBack) \div (LENGTH - IGNORED)
    BY <1>1, <1>5, <2>1, QuotientAtLeast
  <2>3. Total(dBack) <= Total(dBack)
    BY <1>5
  <2> QED
    BY <1>1, <1>5, <2>2, <2>3, Quotients
<1>7. ~ (toe > THRESHOLD + Total(dBack) \div (LENGTH - IGNORED))
  BY <1>1, <1>6
<1> QED
  BY <1>7 DEF detectStance, dBack

----------------------------------------------------------------------------
(* The deque n cycles after the first good reading, while starting up.     *)
Fresh(d, n) ==
  /\ d \in Deques
  /\ \A i \in 1..LENGTH : IF i <= n THEN d[i] < START ELSE d[i] = START

(* A good reading moves a start-up on by one.                              *)
LEMMA FreshUpdated ==
  ASSUME NEW d, NEW n \in 0..LENGTH - 1, Fresh(d, n), NEW air \in Air
  PROVE  /\ Fresh(updateToeFilter(air, d), n + 1)
         /\ updateToeFilter(air, d)[1] = (d[1] + d[2] + air) \div 3
<1> DEFINE u == updateToeFilter(air, d)
<1>1. /\ LENGTH \in Nat /\ LENGTH > 2 /\ START \in Nat
      /\ air \in ToeReadings /\ air \in Nat /\ air < START
  BY ToeNumbers DEF ToeReadings
<1>2. BadData(air, d[1]) = air
  BY ToeAssumption DEF BadData
<1>3. d[LENGTH] = START
  BY <1>1 DEF Fresh
<1>4. ~ Jumps(air, d)
  BY <1>3 DEF Jumps, Back
<1>5. /\ u \in Deques /\ u[1] = (d[1] + d[2] + air) \div 3
      /\ \A i \in 2..LENGTH : u[i] = d[i - 1]
  BY <1>1, <1>2, <1>4, UpdatedDeque DEF Fresh
<1> HIDE DEF u
<1>6. u[1] < START
  <2>1. /\ d[1] \in Int /\ d[2] \in Int /\ d[1] <= START /\ d[2] <= START
    BY <1>1 DEF Fresh, Deques
  <2> QED
    BY <1>1, <1>5, <2>1
<1>7. ASSUME NEW i \in 1..LENGTH
      PROVE  IF i <= n + 1 THEN u[i] < START ELSE u[i] = START
  <2>1. CASE i = 1
    BY <1>6, <2>1
  <2>2. CASE i # 1
    <3>1. i \in 2..LENGTH /\ i - 1 \in 1..LENGTH /\ (i - 1 <= n <=> i <= n + 1)
      BY <1>1, <2>2
    <3> QED
      BY <1>5, <3>1 DEF Fresh
  <2> QED
    BY <2>1, <2>2
<1>8. Fresh(u, n + 1)
  BY <1>5, <1>7 DEF Fresh
<1> QED
  BY <1>5, <1>8 DEF u

(* The slowest start-up is one.                                            *)
LEMMA SlowestSteps ==
  /\ Slowest \in [0..LENGTH -> Deques] /\ Slowest[0] = Filled
  /\ \A n \in 1..LENGTH : Slowest[n] = updateToeFilter(HighestAir, Slowest[n - 1])
<1> DEFINE F(f) == [n \in 0..LENGTH |->
                      IF n = 0 THEN Filled ELSE updateToeFilter(HighestAir, f[n - 1])]
           step == [x \in Deques \X (1..LENGTH) |-> updateToeFilter(HighestAir, x[1])]
<1>1. /\ LENGTH \in Nat /\ HighestAir \in ToeReadings /\ Filled \in Deques
  BY ToeNumbers, FilledDeque DEF ToeReadings
<1>2. step \in [Deques \X (1..LENGTH) -> Deques]
  BY <1>1, UpdatedDeque
<1>3. PICK f \in [0..LENGTH -> Deques] : Stepwise(f, LENGTH, Filled, step)
  <2> HIDE DEF step
  <2> QED
    BY <1>1, <1>2, Recursion
<1>4. f[0] = Filled
  BY <1>3 DEF Stepwise
<1>5. ASSUME NEW n \in 1..LENGTH
      PROVE  f[n] = updateToeFilter(HighestAir, f[n - 1])
  <2>1. n - 1 \in 0..LENGTH
    BY <1>1
  <2>2. <<f[n - 1], n>> \in Deques \X (1..LENGTH)
    BY <1>3, <2>1
  <2> QED
    BY <1>3, <2>2 DEF Stepwise
<1>6. f = F(f)
  BY <1>1, <1>3, <1>4, <1>5
<1>7. Slowest = F(Slowest)
  <2>1. Slowest = CHOOSE g : g = F(g)
    BY DEF Slowest
  <2> HIDE DEF F
  <2> QED
    BY <1>6, <2>1, Zenon
<1>8. \A n \in 0..LENGTH : Slowest[n] =
        (IF n = 0 THEN Filled ELSE updateToeFilter(HighestAir, Slowest[n - 1]))
  BY <1>7
<1> DEFINE T == {n \in 0..LENGTH : Slowest[n] = f[n]}
<1>9. \A n \in 0..LENGTH : n \in T
  <2>1. 0 \in T
    BY <1>1, <1>4, <1>8
  <2>2. ASSUME NEW n \in 1..LENGTH, n - 1 \in T PROVE n \in T
    BY <1>1, <1>5, <1>8, <2>2
  <2> HIDE DEF T
  <2> QED
    BY <1>1, <2>1, <2>2, Induction
<1>10. Slowest = f
  <2>1. Slowest = [n \in 0..LENGTH |-> Slowest[n]]
    BY <1>7
  <2> QED
    BY <1>3, <1>9, <2>1
<1> QED
  BY <1>3, <1>4, <1>5, <1>10

(* Its deques start up as any other does.                                  *)
LEMMA SlowestFresh == \A n \in 0..LENGTH : Fresh(Slowest[n], n)
<1> DEFINE T == {n \in 0..LENGTH : Fresh(Slowest[n], n)}
<1>1. LENGTH \in Nat /\ HighestAir \in Air
  BY ToeNumbers
<1>2. 0 \in T
  BY <1>1, SlowestSteps, FilledDeque DEF Fresh
<1>3. ASSUME NEW n \in 1..LENGTH, n - 1 \in T PROVE n \in T
  <2>1. n - 1 \in 0..LENGTH - 1 /\ (n - 1) + 1 = n
    BY <1>1
  <2>2. Fresh(updateToeFilter(HighestAir, Slowest[n - 1]), n)
    BY <1>1, <1>3, <2>1, FreshUpdated
  <2> QED
    BY <1>1, <2>2, SlowestSteps
<1> HIDE DEF T
<1>4. \A n \in 0..LENGTH : n \in T
  BY <1>1, <1>2, <1>3, Induction
<1> QED
  BY <1>4 DEF T

(* What the averages do not exceed is one of those it is chosen from.      *)
LEMMA Rested ==
  /\ Rest \in Int /\ HighestAir <= Rest
  /\ Slowest[LENGTH][1] <= Rest /\ Slowest[LENGTH][2] <= Rest
<1> DEFINE a == Slowest[LENGTH][1]
           b == Slowest[LENGTH][2]
           settled == {HighestAir, a, b}
<1>1. HighestAir \in Int /\ a \in Int /\ b \in Int
  <2>1. HighestAir \in Int
    BY ToeNumbers DEF ToeReadings
  <2>2. Slowest[LENGTH] \in Deques /\ 1 \in 1..LENGTH /\ 2 \in 1..LENGTH
    BY ToeNumbers, SlowestSteps
  <2> QED
    BY <2>1, <2>2 DEF Deques
<1>2. Rest = CHOOSE r \in settled : \A x \in settled : x <= r
  BY DEF Rest
<1> HIDE DEF a, b
<1>3. \E r \in settled : \A x \in settled : x <= r
  BY <1>1
<1>4. Rest \in settled /\ \A x \in settled : x <= Rest
  <2> HIDE DEF settled
  <2> QED
    BY <1>2, <1>3, Zenon
<1> QED
  BY <1>1, <1>4 DEF a, b

(* Starting up, and the deque of a settled toe n cycles later.             *)
Starting(d, n) ==
  /\ Fresh(d, n)
  /\ \A i \in 1..LENGTH : d[i] <= Slowest[n][i]

Settled(d, n) ==
  /\ d \in Deques
  /\ \A i \in 1..LENGTH : d[i] < START /\ d[i] <= Worst(n)[i]

(* The invariant: the averages are no more than the threshold below the    *)
(* free toe's readings, and after a clean start-up under the worst deque.  *)
ToeInv ==
  /\ filteredToe \in Deques
  /\ toeSwitch \in ToeReadings /\ clean \in BOOLEAN
  /\ \A air \in Air, i \in 1..LENGTH : air - THRESHOLD <= filteredToe[i]
  /\ clean => \/ \E n \in 0..LENGTH - 1 : Starting(filteredToe, n)
              \/ \E n \in 0..LENGTH : Settled(filteredToe, n)

(* The entries of the worst deque.                                         *)
LEMMA WorstDeque ==
  ASSUME NEW n \in 0..LENGTH
  PROVE  /\ Worst(n) \in Deques
         /\ \A i \in 1..LENGTH :
              Worst(n)[i] = IF i <= n THEN Rest ELSE Slowest[LENGTH][i - n]
         /\ Worst(n)[1] <= Rest /\ Worst(n)[2] <= Rest
<1>1. LENGTH \in Nat /\ LENGTH > 2 /\ n \in Nat
  BY ToeNumbers
<1>2. \A i \in 1..LENGTH : Slowest[LENGTH][i] \in Int
  BY <1>1, SlowestSteps DEF Deques
<1>3. \A i \in 1..LENGTH :
        Worst(n)[i] = IF i <= n THEN Rest ELSE Slowest[LENGTH][i - n]
  BY DEF Worst
<1>4. Worst(n) \in Deques
  <2>1. \A i \in 1..LENGTH : ~ (i <= n) => i - n \in 1..LENGTH
    BY <1>1
  <2> QED
    BY <1>2, <2>1, Rested DEF Worst, Deques
<1>5. Worst(n)[1] <= Rest /\ Worst(n)[2] <= Rest
  <2>1. 1 \in 1..LENGTH /\ 2 \in 1..LENGTH
    BY <1>1
  <2>2. CASE n = 0
    BY <1>3, <2>1, <2>2, Rested
  <2>3. CASE n = 1
    BY <1>3, <2>1, <2>3, Rested
  <2>4. CASE n > 1
    BY <1>1, <1>3, <2>1, <2>4, Rested
  <2> QED
    BY <1>1, <2>2, <2>3, <2>4
<1> QED
  BY <1>3, <1>4, <1>5

(* A good reading during start-up.                                         *)
LEMMA StartingStep ==
  ASSUME NEW d, NEW n \in 0..LENGTH - 1, Starting(d, n), NEW air \in Air
  PROVE  \/ /\ n + 1 \in 0..LENGTH - 1
            /\ Starting(updateToeFilter(air, d), n + 1)
         \/ Settled(updateToeFilter(air, d), 0)
<1> DEFINE u == updateToeFilter(air, d)
           w == Slowest[n + 1]
<1>1. /\ LENGTH \in Nat /\ LENGTH > 2 /\ HighestAir \in Air /\ air \in ToeReadings
      /\ air \in Int /\ HighestAir \in Int /\ air <= HighestAir
      /\ 1 \in 1..LENGTH /\ 2 \in 1..LENGTH
  BY ToeNumbers DEF ToeReadings
<1>2. Fresh(u, n + 1) /\ u[1] = (d[1] + d[2] + air) \div 3
  BY FreshUpdated DEF Starting
<1>3. w = updateToeFilter(HighestAir, Slowest[n])
  <2>1. n + 1 \in 1..LENGTH /\ (n + 1) - 1 = n
    BY <1>1
  <2> QED
    BY <2>1, SlowestSteps
<1>4. Fresh(Slowest[n], n)
  BY <1>1, SlowestFresh
<1>5. w[1] = (Slowest[n][1] + Slowest[n][2] + HighestAir) \div 3
  BY <1>1, <1>3, <1>4, FreshUpdated
<1>6. /\ \A i \in 2..LENGTH : u[i] = d[i - 1]
      /\ \A i \in 2..LENGTH : w[i] = Slowest[n][i - 1]
  <2>1. HighestAir \in ToeReadings /\ d \in Deques /\ Slowest[n] \in Deques
    BY <1>1, <1>4 DEF ToeReadings, Fresh, Starting
  <2> QED
    BY <1>1, <1>3, <2>1, UpdatedDeque
<1> HIDE DEF u, w
<1>7. u[1] <= w[1]
  <2>1. /\ d[1] \in Int /\ d[2] \in Int
        /\ Slowest[n][1] \in Int /\ Slowest[n][2] \in Int
    BY <1>1, <1>4 DEF Starting, Fresh, Deques
  <2>2. d[1] <= Slowest[n][1] /\ d[2] <= Slowest[n][2]
    BY <1>1 DEF Starting
  <2> QED
    BY <1>1, <1>2, <1>5, <2>1, <2>2
<1>8. ASSUME NEW i \in 1..LENGTH PROVE u[i] <= w[i]
  <2>1. CASE i = 1
    BY <1>7, <2>1
  <2>2. CASE i # 1
    <3>1. i \in 2..LENGTH /\ i - 1 \in 1..LENGTH
      BY <1>1, <2>2
    <3> QED
      BY <1>6, <3>1 DEF Starting
  <2> QED
    BY <2>1, <2>2
<1>9. CASE n + 1 < LENGTH
  <2>1. n + 1 \in 0..LENGTH - 1
    BY <1>1, <1>9
  <2> QED
    BY <1>2, <1>8, <2>1 DEF Starting, u, w
<1>10. CASE n + 1 = LENGTH
  <2>1. 0 \in 0..LENGTH
    BY <1>1
  <2>2. ASSUME NEW i \in 1..LENGTH PROVE u[i] < START /\ u[i] <= Worst(0)[i]
    <3>1. Worst(0)[i] = Slowest[LENGTH][i]
      BY <1>1, <2>1, WorstDeque
    <3>2. u[i] < START
      BY <1>1, <1>2, <1>10 DEF Fresh
    <3> QED
      BY <1>8, <1>10, <3>1, <3>2 DEF w
  <2> QED
    BY <1>2, <2>2 DEF Settled, Fresh, u
<1> QED
  BY <1>1, <1>9, <1>10

(* Bad data before the first good reading leaves the deque as it is.       *)
LEMMA FilledStays ==
  ASSUME NEW bad \in Glitch
  PROVE  updateToeFilter(bad, Filled) = Filled
<1> DEFINE u == updateToeFilter(bad, Filled)
<1>1. /\ Filled \in Deques /\ \A i \in 1..LENGTH : Filled[i] = START
      /\ START \in Nat /\ LENGTH \in Nat /\ LENGTH > 2
      /\ 1 \in 1..LENGTH /\ 2 \in 1..LENGTH
  BY ToeNumbers, FilledDeque
<1>2. BadData(bad, Filled[1]) = START
  BY <1>1 DEF BadData
<1>3. (IF Jumps(START, Filled) THEN Filled[1] ELSE START) = START
  BY <1>1
<1>4. /\ u \in Deques /\ u[1] = (START + START + START) \div 3
      /\ \A i \in 2..LENGTH : u[i] = Filled[i - 1]
  BY <1>1, <1>2, <1>3, UpdatedDeque DEF ToeReadings
<1> HIDE DEF u
<1>5. u[1] = START
  BY <1>1, <1>4
<1>6. \A i \in 1..LENGTH : u[i] = Filled[i]
  BY <1>1, <1>4, <1>5
<1>7. u = Filled
  BY <1>4, <1>6, <1>1 DEF Deques
<1> QED
  BY <1>7 DEF u

(* A load, or bad data, adds nothing to the baseline of a settled toe.     *)
LEMMA SettledStep ==
  ASSUME NEW d, NEW n \in 0..LENGTH, Settled(d, n),
         NEW new \in Air \cup Load \cup Glitch
  PROVE  \E k \in 0..LENGTH : Settled(updateToeFilter(new, d), k)
<1> DEFINE u == updateToeFilter(new, d)
           good == BadData(new, d[1])
           toe  == IF Jumps(good, d) THEN d[1] ELSE good
<1>1. /\ LENGTH \in Nat /\ LENGTH > 2 /\ START \in Nat /\ JUMP \in Nat
      /\ new \in ToeReadings /\ new \in Int /\ new < START
      /\ 1 \in 1..LENGTH /\ 2 \in 1..LENGTH /\ LENGTH \in 1..LENGTH
      /\ HighestAir \in Int /\ \A air \in Air : air <= HighestAir
  BY ToeNumbers DEF ToeReadings
<1>2. /\ Worst(n) \in Deques /\ Worst(n)[1] <= Rest /\ Worst(n)[2] <= Rest
  BY WorstDeque
<1>3. Rest \in Int /\ HighestAir <= Rest
  BY Rested
<1>4. /\ d \in Deques /\ d[1] \in Int /\ d[2] \in Int
      /\ d[1] <= Rest /\ d[2] <= Rest /\ d[1] < START /\ d[2] < START
  <2>1. /\ d \in Deques /\ d[1] \in Int /\ d[2] \in Int
        /\ Worst(n)[1] \in Int /\ Worst(n)[2] \in Int
    BY <1>1, <1>2 DEF Settled, Deques
  <2>2. d[1] <= Worst(n)[1] /\ d[2] <= Worst(n)[2] /\ d[1] < START /\ d[2] < START
    BY <1>1 DEF Settled
  <2> QED
    BY <1>2, <1>3, <2>1, <2>2
<1>5. d[LENGTH] # START
  <2>1. d[LENGTH] < START /\ d[LENGTH] \in Int
    BY <1>1 DEF Settled, Deques
  <2> QED
    BY <1>1, <2>1
<1>6. toe \in Int /\ toe <= Rest /\ toe < START
  <2>1. CASE new \in Glitch
    BY <1>4, <2>1 DEF BadData
  <2>2. CASE new \notin Glitch /\ new \in Air
    BY <1>1, <1>3, <1>4, <2>2 DEF BadData
  <2>3. CASE new \notin Glitch /\ new \in Load
    <3>1. new > Rest + JUMP
      BY <2>3, LoadAssumption
    <3>2. new > d[1] + JUMP
      BY <1>1, <1>3, <1>4, <3>1
    <3>3. good = new /\ Jumps(good, d)
      BY <1>5, <2>3, <3>2 DEF BadData, Jumps, Back
    <3> QED
      BY <1>4, <3>3
  <2> QED
    BY <2>1, <2>2, <2>3
<1>7. /\ u \in Deques /\ u[1] = (d[1] + d[2] + toe) \div 3
      /\ \A i \in 2..LENGTH : u[i] = d[i - 1]
  BY <1>1, <1>4, UpdatedDeque
<1> HIDE DEF u, toe, good
<1>8. u[1] < START /\ u[1] <= Rest
  BY <1>1, <1>3, <1>4, <1>6, <1>7
<1> DEFINE k == IF n = LENGTH THEN n ELSE n + 1
<1>9. k \in 0..LENGTH /\ k >= 1
  BY <1>1
<1>10. ASSUME NEW i \in 1..LENGTH PROVE u[i] < START /\ u[i] <= Worst(k)[i]
  <2>1. Worst(k)[i] = IF i <= k THEN Rest ELSE Slowest[LENGTH][i - k]
    <3> HIDE DEF k
    <3> QED
      BY <1>9, WorstDeque
  <2>2. CASE i = 1
    BY <1>8, <1>9, <2>1, <2>2
  <2>3. CASE i # 1
    <3>1. i \in 2..LENGTH /\ i - 1 \in 1..LENGTH
      BY <1>1, <2>3
    <3>2. d[i - 1] < START /\ d[i - 1] <= Worst(n)[i - 1]
      BY <3>1 DEF Settled
    <3>3. Worst(n)[i - 1] = IF i - 1 <= n THEN Rest ELSE Slowest[LENGTH][i - 1 - n]
      BY <3>1, WorstDeque
    <3>4. (i <= k <=> i - 1 <= n) /\ (~ (i <= k) => i - k = i - 1 - n)
      BY <1>1, <3>1
    <3>5. Worst(k)[i] = Worst(n)[i - 1]
      BY <2>1, <3>3, <3>4
    <3> QED
      BY <1>7, <3>1, <3>2, <3>5
  <2> QED
    BY <2>2, <2>3
<1> HIDE DEF k
<1>11. Settled(u, k)
  BY <1>7, <1>10 DEF Settled
<1> QED
  BY <1>9, <1>11 DEF u

(* No average sinks below the lowest good reading.                         *)
LEMMA AirStep ==
  ASSUME NEW d \in Deques, NEW new \in ToeReadings, NEW air \in Air,
         \A i \in 1..LENGTH : air - THRESHOLD <= d[i]
  PROVE  \A i \in 1..LENGTH : air - THRESHOLD <= updateToeFilter(new, d)[i]
<1> DEFINE u == updateToeFilter(new, d)
           good == BadData(new, d[1])
           toe  == IF Jumps(good, d) THEN d[1] ELSE good
<1>1. /\ LENGTH \in Nat /\ LENGTH > 2 /\ THRESHOLD \in Nat
      /\ new \in Int /\ air \in Int /\ 1 \in 1..LENGTH /\ 2 \in 1..LENGTH
  BY ToeNumbers DEF ToeReadings
<1>2. d[1] \in Int /\ d[2] \in Int /\ air - THRESHOLD <= d[1] /\ air - THRESHOLD <= d[2]
  BY <1>1 DEF Deques
<1>3. toe \in Int /\ air - THRESHOLD <= toe
  <2>1. CASE new \in Glitch
    BY <1>2, <2>1 DEF BadData
  <2>2. CASE new \notin Glitch
    <3>1. air <= THRESHOLD + new
      BY <2>2, AirAssumption
    <3>2. air - THRESHOLD <= new
      BY <1>1, <3>1
    <3> QED
      BY <1>1, <1>2, <2>2, <3>2 DEF BadData
  <2> QED
    BY <2>1, <2>2
<1>4. /\ u[1] = (d[1] + d[2] + toe) \div 3
      /\ \A i \in 2..LENGTH : u[i] = d[i - 1]
  BY UpdatedDeque
<1> HIDE DEF u, toe, good
<1>5. air - THRESHOLD <= u[1]
  BY <1>1, <1>2, <1>3, <1>4
<1>6. ASSUME NEW i \in 1..LENGTH PROVE air - THRESHOLD <= u[i]
  <2>1. CASE i = 1
    BY <1>5, <2>1
  <2>2. CASE i # 1
    <3>1. i \in 2..LENGTH /\ i - 1 \in 1..LENGTH
      BY <1>1, <2>2
    <3> QED
      BY <1>4, <3>1
  <2> QED
    BY <2>1, <2>2
<1> QED
  BY <1>6 DEF u

(* The invariant holds at first.                                           *)
LEMMA ToeStarts == ToeInit => ToeInv
<1> SUFFICES ASSUME ToeInit PROVE ToeInv
  OBVIOUS
<1>1. /\ filteredToe = Filled /\ toeSwitch \in Air /\ clean = TRUE
      /\ Filled \in Deques /\ \A i \in 1..LENGTH : Filled[i] = START
  BY FilledDeque DEF ToeInit
<1>2. \A air \in Air : air \in Int /\ air < START
  BY ToeNumbers DEF ToeReadings
<1>3. \A air \in Air, i \in 1..LENGTH : air - THRESHOLD <= filteredToe[i]
  BY <1>1, <1>2, ToeNumbers
<1>4. 0 \in 0..LENGTH - 1 /\ Starting(Filled, 0)
  <2>1. 0 \in 0..LENGTH - 1 /\ Slowest[0] = Filled /\ START \in Nat /\ LENGTH \in Nat
    BY ToeNumbers, SlowestSteps
  <2> QED
    BY <1>1, <2>1 DEF Starting, Fresh
<1> QED
  BY <1>1, <1>3, <1>4 DEF ToeInv, ToeReadings

(* A cycle keeps it.                                                       *)
LEMMA ToeStep == ToeInv /\ [ToeNext]_tvars => ToeInv'
<1> SUFFICES ASSUME ToeInv, [ToeNext]_tvars PROVE ToeInv'
  OBVIOUS
<1>1. CASE UNCHANGED tvars
  BY <1>1 DEF tvars, ToeInv, Starting, Settled, Fresh
<1>2. CASE ToeNext
  <2> DEFINE d == filteredToe
  <2>1. PICK new \in ToeReadings :
          /\ filteredToe' = updateToeFilter(new, d)
          /\ toeSwitch' = new
          /\ clean' = (clean /\ ~ Spoils(new, d))
    BY <1>2 DEF ToeNext
  <2>2. d \in Deques /\ clean \in BOOLEAN
        /\ \A air \in Air, i \in 1..LENGTH : air - THRESHOLD <= d[i]
    BY DEF ToeInv
  <2>3. filteredToe' \in Deques
    BY <2>1, <2>2, UpdatedDeque
  <2>4. \A air \in Air, i \in 1..LENGTH : air - THRESHOLD <= filteredToe'[i]
    BY <2>1, <2>2, AirStep
  <2>5. ASSUME clean'
        PROVE  \/ \E n \in 0..LENGTH - 1 : Starting(filteredToe', n)
               \/ \E n \in 0..LENGTH : Settled(filteredToe', n)
    <3>1. clean /\ ~ Spoils(new, d)
      BY <2>1, <2>5
    <3>2. CASE \E n \in 0..LENGTH - 1 : Starting(d, n)
      <4>1. PICK n \in 0..LENGTH - 1 : Starting(d, n)
        BY <3>2
      <4>2. Back(d) = START
        BY <4>1, ToeNumbers DEF Starting, Fresh, Back
      <4>3. CASE new \in Air
        <5>1. 0 \in 0..LENGTH
          BY ToeNumbers
        <5> QED
          BY <2>1, <4>1, <4>3, <5>1, StartingStep
      <4>4. CASE new \notin Air
        <5>1. new \in Glitch /\ d = Filled
          BY <3>1, <4>2, <4>4 DEF Spoils
        <5>2. filteredToe' = d
          BY <2>1, <5>1, FilledStays
        <5> QED
          BY <4>1, <5>2
      <4> QED
        BY <4>3, <4>4
    <3>3. CASE \E n \in 0..LENGTH : Settled(d, n)
      <4>1. new \in Air \cup Load \cup Glitch
        BY <3>1 DEF Spoils, ToeReadings
      <4> QED
        BY <2>1, <3>3, <4>1, SettledStep
    <3> QED
      BY <3>1, <3>2, <3>3 DEF ToeInv
  <2>6. clean' \in BOOLEAN /\ toeSwitch' \in ToeReadings
    BY <2>1, <2>2
  <2> QED
    BY <2>3, <2>4, <2>5, <2>6 DEF ToeInv, Starting, Settled, Fresh
<1> QED
  BY <1>1, <1>2

(* It has what is to be seen.                                              *)
LEMMA ToeSeen == ToeInv => ToeFollowed
<1> SUFFICES ASSUME ToeInv PROVE ToeFollowed
  OBVIOUS
<1> DEFINE d == filteredToe
<1>1. d \in Deques /\ toeSwitch \in Int
  BY ToeNumbers DEF ToeInv
<1>2. ASSUME clean, Back(d) # START, toeSwitch \in Load
      PROVE  detectStance(toeSwitch, d)
  <2>1. ~ \E n \in 0..LENGTH - 1 : Starting(d, n)
    BY <1>2, ToeNumbers DEF Starting, Fresh, Back
  <2>2. PICK n \in 0..LENGTH : Settled(d, n)
    BY <1>2, <2>1 DEF ToeInv
  <2>3. Worst(n) \in Deques
    BY WorstDeque
  <2>4. detectStance(toeSwitch, Worst(n))
    BY <1>2, LoadAssumption
  <2>5. \A i \in 1..LENGTH : d[i] <= Worst(n)[i]
    BY <2>2 DEF Settled
  <2> QED
    BY <1>1, <2>3, <2>4, <2>5, DetectedBelow
<1>3. ASSUME toeSwitch \in Air PROVE ~ detectStance(toeSwitch, d)
  <2>1. \A i \in 1..LENGTH : toeSwitch - THRESHOLD <= d[i]
    BY <1>3 DEF ToeInv
  <2> QED
    BY <1>1, <2>1, NotDetected
<1> QED
  BY <1>2, <1>3 DEF ToeFollowed, LoadSeen, AirNotTaken

(* A loaded toe is seen in its first cycle and a free one never taken for  *)
(* a touch down, for any deque, filter bounds and readings, any number of  *)
(* stances and any bad data.                                               *)
THEOREM ToeIsFollowed == ToeSpec => []ToeFollowed
<1>1. ToeInit => ToeInv
  BY ToeStarts
<1>2. ToeInv /\ [ToeNext]_tvars => ToeInv'
  BY ToeStep
<1>3. ToeInv => ToeFollowed
  BY ToeSeen
<1> QED
  BY <1>1, <1>2, <1>3, PTL DEF ToeSpec
=============================================================================
