--------------------------- MODULE MedullaBoards ---------------------------
(***************************************************************************)
(* The parts of the Medulla firmware that differ between the boards:       *)
(* medulla_leg.c, medulla_hip.c, medulla_boom.c and medulla_imu.c, with    *)
(* amplifier.c under them.  medulla.c, whose state machine is module       *)
(* Medulla, calls them in a fixed order: update_inputs, then the frame to  *)
(* the master, then what the state asks for.                               *)
(*                                                                         *)
(* A reading is good or bad.  One aspect of a board is looked at at a      *)
(* time: its faults or the leg's thermistors.  check_halt is FALSE on      *)
(* every board: the leg's is only compiled where MEDULLA_USE_HALT is       *)
(* defined, which medulla_leg.h leaves out.  The interrupts are module     *)
(* Medulla's.                                                              *)
(***************************************************************************)
EXTENDS Integers

CONSTANTS
  Aspects,      \* which of "faults", "thermistors" to look at
  CheckSets,    \* the ERROR_CHECK_ macros that may be defined
  SwitchLimit,  \* samples a limit switch has to be pressed
  ThermLimit,   \* bad thermistor readings of a hip that are an error
  VoltLimit,    \* bad voltage readings that are an error
  EncLimit,     \* bad encoder readings that are an error
  DampLimit,    \* cycles of run_halt
  ByteModulus,  \* uint8_t counters wrap here
  Channels,     \* thermistors of a leg
  MaxLevel,     \* the comparator's greatest level
  Reading       \* what a level of the comparator is reported as

ASSUME BoardConstants ==
  /\ Aspects \subseteq {"faults", "thermistors"}
  /\ {SwitchLimit, ThermLimit, VoltLimit, EncLimit, DampLimit, ByteModulus} \subseteq Nat
  /\ \A limit \in {SwitchLimit, ThermLimit, EncLimit, DampLimit} : limit < ByteModulus - 1
  /\ DampLimit > 0 /\ Channels \in Nat \ {0} /\ MaxLevel \in Nat \ {0}
  /\ Reading \in [0 .. MaxLevel -> Nat]

Variants == {"leg", "hip", "boom", "imu"}

VARIABLES
  variant,   \* the board
  aspect,    \* what of it is looked at
  sources,   \* the sensors that may give bad readings
  checks,    \* the ERROR_CHECK_ macros
  mode,      \* current_state
  cnt,       \* the filters' counters
  flags,     \* error_flags_pdo
  power,     \* whether the amplifier, and whether its PWM, is enabled
  pdo,       \* the hip's limit switch as it is reported
  imu,       \* the IMU's packet: its number, the CRC's and the data's
  therm,     \* the leg's thermistors
  frame,     \* what the last frame told the master
  watched    \* what has really happened, for the properties to refer to

bvars == <<variant, aspect, sources, checks, mode, cnt, flags, power, pdo, imu, therm,
          frame, watched>>

Counters == {"switch", "therm", "motorV", "logicV", "motorEnc", "legEnc", "damp"}
NoCounts == [c \in Counters |-> 0]

(* The readings that can be bad, two of a board's at a time.               *)
Faults ==
  IF aspect # "faults" THEN {{}}
  ELSE CASE variant = "leg"  -> {{"switch", "motorV"}, {"motorV", "logicV"},
                              {"logicV", "motorEnc"}, {"motorEnc", "legEnc"}}
         [] variant = "hip"  -> {{"switch", "therm"}, {"therm", "motorV"},
                              {"motorV", "logicV"}, {"logicV", "amp"}}
         [] variant = "boom" -> {{"logicV"}}
         [] variant = "imu"  -> {{"size", "header", "crc"}}

(* leg_initialize, hip_initialize, boom_initialize, imu_initialize.        *)
BoardInit ==
  /\ variant \in Variants
  /\ aspect \in Aspects /\ (aspect # "faults" => variant = "leg")
  /\ sources \in Faults
  /\ checks \in CheckSets
  /\ mode = "idle"
  /\ cnt = NoCounts
  /\ flags = {}
  /\ power = [amp |-> FALSE, pwm |-> FALSE]
  /\ pdo = FALSE
  /\ imu = [now |-> 0, crc |-> 0, data |-> 0]
  /\ \E real \in [0 .. Channels - 1 -> 0 .. MaxLevel] :
       /\ aspect # "thermistors" => real = [c \in 0 .. Channels - 1 |-> 0]
       /\ therm = [real |-> real, num |-> 0,
                   values |-> [c \in 0 .. Channels - 1 |-> MaxLevel],
                   pdo |-> [c \in 0 .. Channels - 1 |-> 0]]
  /\ frame = [mode |-> "idle", flags |-> {}]
  /\ watched = [bad |-> NoCounts, streak |-> NoCounts, twice |-> 0, held |-> 0,
             wrapped |-> FALSE, halted |-> 0, rest |-> 0, sampled |-> 0]

----------------------------------------------------------------------------
(* Filters.                                                                *)

Up(n, modulus) == (n + 1) % modulus
Down(n) == IF n > 0 THEN n - 1 ELSE 0

(* A filter's counter goes up on a bad reading and down on a good one.     *)
Filter(n, bad) == IF bad THEN n + 1 ELSE Down(n)

(* A stage of check_error: its place, its flag, the counters it looks at,  *)
(* their limit, whether it moves them itself and whether it is an error.   *)
Stage(order, flag, counters, limit, filters, trips) ==
  [order |-> order, flag |-> flag, counters |-> counters, limit |-> limit,
   filters |-> filters, trips |-> trips]

(* The legs' thermistor counters are never moved, and neither that check   *)
(* nor the amplifier's ends the run.                                       *)
LegStages ==
  { Stage(1, "switch", {"switch"}, SwitchLimit, FALSE, TRUE),
    Stage(2, "therm", {"therm"}, ThermLimit, FALSE, FALSE),
    Stage(3, "motorV", {"motorV"}, VoltLimit, TRUE, TRUE),
    Stage(4, "logicV", {"logicV"}, VoltLimit, TRUE, TRUE),
    Stage(5, "encoder", {"motorEnc", "legEnc"}, EncLimit, FALSE, TRUE),
    Stage(6, "amp", {}, 0, FALSE, FALSE) }

(* The hips' limit switch is an error at once.                             *)
HipStages ==
  { Stage(1, "switch", {}, 0, FALSE, TRUE),
    Stage(2, "therm", {"therm"}, ThermLimit, TRUE, TRUE),
    Stage(3, "motorV", {"motorV"}, VoltLimit, TRUE, TRUE),
    Stage(4, "logicV", {"logicV"}, VoltLimit, TRUE, TRUE),
    Stage(6, "amp", {}, 0, FALSE, FALSE) }

BoomStages == {Stage(4, "logicV", {"logicV"}, VoltLimit, TRUE, TRUE)}

Stages == [leg |-> LegStages, hip |-> HipStages, boom |-> BoomStages, imu |-> {}]

(* check_error on the readings bad.  No two stages share a counter, so     *)
(* what a stage finds depends on the others only in whether it is reached: *)
(* not after one that is an error.                                         *)
check_error(count, flag, bad) ==
  LET enabled  == {stage \in Stages[variant] : stage.flag \in checks}
      Moved(stage, c) == IF stage.filters THEN Filter(count[c], stage.flag \in bad)
                         ELSE count[c]
      Over(stage) == IF stage.counters = {} THEN stage.flag \in bad
                     ELSE \E c \in stage.counters : Moved(stage, c) > stage.limit
      errors   == {stage \in enabled : stage.trips /\ Over(stage)}
      reached  == {stage \in enabled : \A e \in errors : stage.order <= e.order}
  IN [cnt |-> [c \in Counters |->
                 IF \E stage \in reached : c \in stage.counters
                 THEN Moved(CHOOSE stage \in reached : c \in stage.counters, c)
                 ELSE count[c]],
      flags |-> flag \cup {stage.flag : stage \in {t \in reached : Over(t)}},
      error |-> errors # {}]

reset_error_Kept(count) == count
reset_error_Damped(count) == [NoCounts EXCEPT !.switch = count["switch"], !.damp = count["damp"]]

(* leg_reset_error, hip_reset_error, boom_reset_error, imu_reset_error:    *)
(* all but the limit switches' counter.  The leg's also clears the         *)
(* thermistors' readings.                                                  *)
reset_error(count) == [NoCounts EXCEPT !.switch = count["switch"]]

----------------------------------------------------------------------------
(* update_inputs.                                                          *)

(* The limit switches' counter, which the leg's and the hip's boards       *)
(* filter here.                                                            *)
SwitchFilter(n, pressed) == IF pressed THEN Up(n, ByteModulus) ELSE Down(n)

InputCounts(bad) ==
  [cnt EXCEPT
     !.switch = IF variant \in {"leg", "hip"} THEN SwitchFilter(@, "switch" \in bad) ELSE @,
     !.motorEnc = IF "motorEnc" \in bad THEN Up(@, ByteModulus) ELSE @,
     !.legEnc = IF "legEnc" \in bad THEN Up(@, ByteModulus) ELSE @]

(* leg_update_inputs raises the encoder's flag at once, imu_update_inputs  *)
(* begins anew every cycle.                                                *)
InputFlags(bad) ==
  IF variant = "imu" THEN bad
  ELSE IF bad \cap {"motorEnc", "legEnc"} # {} THEN flags \cup {"encoder"}
  ELSE flags

(* hip_update_inputs reports the switch only while the counter is high.    *)
SwitchReport(count, bad) ==
  IF variant = "hip" /\ count["switch"] > SwitchLimit THEN "switch" \in bad ELSE pdo

(* imu_process_data: the CRC is taken from a packet before it is checked,  *)
(* the data after.                                                         *)
imu_process_data(bad) ==
  LET new == 1 - imu.now
  IN [now |-> new,
      crc |-> IF bad \cap {"size", "header"} = {} THEN new ELSE imu.crc,
      data |-> IF bad = {} THEN new ELSE imu.data]

(* The thermistors of a leg, one channel a cycle: the comparator's level   *)
(* creeps to the thermistor's voltage, and is reported, through a          *)
(* polynomial, when it is not below.                                       *)
ThermistorStep ==
  LET num  == therm.num
      high == therm.values[num] >= therm.real[num]
  IN [therm EXCEPT
        !.num = (num + 1) % Channels,
        !.pdo[num] = IF high THEN Reading[therm.values[num]] ELSE @,
        !.values[num] = IF high THEN Down(@) ELSE IF @ < MaxLevel THEN @ + 1 ELSE @]

Cleared(t) == [t EXCEPT !.pdo = [c \in 0 .. Channels - 1 |-> 0]]

----------------------------------------------------------------------------
(* Whether run_halt goes on, where the counter of damped cycles has gone   *)
(* up: a leg that moves is damped however long.                            *)
run_halt(count, moving) ==
  CASE variant = "imu" -> TRUE
    [] variant = "leg" -> moving \/ count["damp"] <= DampLimit
    [] OTHER -> count["damp"] <= DampLimit

(* The outputs: the amplifier and its PWM of the legs and hips, the sync   *)
(* pin of the boom (pwm); the IMU has none.  estop takes away the PWM or   *)
(* the pin and leaves the amplifier enabled.                               *)
enable_outputs == [amp |-> variant # "imu", pwm |-> variant # "imu"]
disable_outputs == [amp |-> FALSE, pwm |-> FALSE]

estop(p) == [p EXCEPT !.pwm = FALSE]

(* The parts of a cycle after the frame, by state: r is what check_error   *)
(* says.  Going to error, the cycle runs into the error state's part:      *)
(* main_estop.                                                             *)
ToError(r, p) ==
  /\ mode' = "error" /\ cnt' = r.cnt /\ flags' = r.flags \cup {"estop"}
  /\ power' = estop(p)

HandleIdle(count, flag) ==
  /\ mode' \in {"idle", "init"}
  /\ cnt' = count /\ flags' = flag /\ power' = power

(* With the E-stop pressed nothing is checked.                             *)
HandleInit(count, bad) ==
  LET r == check_error(reset_error(count), {}, bad)
  IN \/ ToError([cnt |-> reset_error(count), flags |-> {}], power)
     \/ r.error /\ ToError(r, power)
     \/ /\ ~ r.error /\ mode' = "run" /\ cnt' = r.cnt /\ flags' = r.flags
        /\ power' = enable_outputs

(* The halt state's part, which run comes to as well in the cycle it is    *)
(* left for halt; estopped: the E-stop has been pressed for long.  A halt  *)
(* that run_halt ends does not come to main_estop in this cycle.           *)
Halting(count, flag, bad, moving, estopped) ==
  LET r      == check_error(count, flag, bad)
      damped == IF variant = "imu" THEN r.cnt
                ELSE [r.cnt EXCEPT !["damp"] = Up(@, ByteModulus)]
  IN IF r.error \/ estopped THEN ToError(r, IF r.error THEN disable_outputs ELSE power)
     ELSE /\ cnt' = damped /\ flags' = r.flags
          /\ IF run_halt(damped, moving) THEN mode' = "halt" /\ power' = power
             ELSE mode' = "error" /\ power' = disable_outputs

HandleHalt(count, flag, bad, moving) ==
  \E estopped \in BOOLEAN : Halting(count, flag, bad, moving, estopped)

(* The master may stop the robot, ask for a halt or an error, or fall      *)
(* silent, or the E-stop is pressed.                                       *)
HandleRun(count, flag, bad, moving) ==
  LET r == check_error(count, flag, bad)
  IN \/ ToError(r, IF r.error THEN disable_outputs ELSE power)
     \/ ~ r.error /\ Halting(r.cnt, r.flags, bad, moving, FALSE)
     \/ /\ ~ r.error /\ cnt' = r.cnt /\ flags' = r.flags
        /\ \/ mode' = "run" /\ power' = power
           \/ mode' = "idle" /\ power' = disable_outputs

HandleError(count, flag) ==
  /\ mode' \in {"error", "reset"}
  /\ cnt' = count /\ flags' = flag \cup {"estop"} /\ power' = estop(power)

HandleReset(count) ==
  /\ mode' = "idle"
  /\ cnt' = reset_error(count) /\ flags' = {} /\ power' = power

Resetting == mode \in {"init", "reset"}

----------------------------------------------------------------------------
(* A count, as far as the properties tell counts apart.                    *)
Cap(n) ==
  IF \E limit \in {SwitchLimit, ThermLimit, VoltLimit, EncLimit} : n <= limit
  THEN n + 1 ELSE n

(* Samples of the thermistors until each level has crept from one end to   *)
(* the other.                                                              *)
SettleTime == Channels * (MaxLevel + 2)

(* Bad readings since the last reset, those in a row while running,        *)
(* whether the run has gone on to a halt, a cycle that checks twice, for   *)
(* how long a switch has been pressed and whether its counter came round,  *)
(* for how many cycles the board was damped, and damped at rest, and how   *)
(* often the thermistors were sampled since the last reset.                *)
See(bad, moving) ==
  LET Hit(c) == c \in bad /\ (c = "switch" => variant = "hip")
      damped == mode \in {"run", "halt"} /\ cnt'["damp"] # cnt["damp"]
      halts  == mode = "run" /\ mode' \in {"halt", "error"}
                /\ ~ check_error(InputCounts(bad), InputFlags(bad), bad).error
  IN watched' = [bad |-> [c \in Counters |->
                         IF mode = "init" THEN IF Hit(c) THEN 1 ELSE 0
                         ELSE IF Hit(c) THEN Cap(watched.bad[c]) ELSE watched.bad[c]],
              streak |-> [c \in Counters |->
                            IF Hit(c) /\ mode = "run" THEN Cap(watched.streak[c]) ELSE 0],
              twice |-> IF mode = "init" THEN 0 ELSE IF halts THEN 1 ELSE watched.twice,
              held |-> IF "switch" \in bad THEN Cap(watched.held) ELSE 0,
              wrapped |-> "switch" \in bad /\ (watched.wrapped \/ InputCounts(bad).switch = 0),
              halted |-> IF ~ damped THEN 0
                         ELSE IF watched.halted <= DampLimit THEN watched.halted + 1
                         ELSE watched.halted,
              rest |-> IF damped /\ ~ moving THEN watched.rest + 1 ELSE 0,
              sampled |-> IF Resetting THEN 0
                          ELSE IF aspect = "thermistors" /\ watched.sampled < SettleTime
                          THEN watched.sampled + 1 ELSE watched.sampled]

(* A cycle: update_inputs, the frame, the state's part.                    *)
Cycle(bad, moving) ==
  LET count == InputCounts(bad)
      flag  == InputFlags(bad)
  IN /\ pdo' = SwitchReport(count, bad)
     /\ imu' = IF variant = "imu" THEN imu_process_data(bad) ELSE imu
     /\ therm' = IF aspect # "thermistors" THEN therm
                 ELSE IF Resetting THEN Cleared(ThermistorStep) ELSE ThermistorStep
     /\ frame' = [mode |-> mode, flags |-> flag]
     /\ \/ mode = "idle" /\ HandleIdle(count, flag)
        \/ mode = "init" /\ HandleInit(count, bad)
        \/ mode = "run" /\ HandleRun(count, flag, bad, moving)
        \/ mode = "halt" /\ HandleHalt(count, flag, bad, moving)
        \/ mode = "error" /\ HandleError(count, flag)
        \/ mode = "reset" /\ HandleReset(count)
     /\ See(bad, moving)
     /\ UNCHANGED <<variant, aspect, sources, checks>>

BoardNext ==
  \E bad \in SUBSET sources, moving \in BOOLEAN :
    (moving => variant = "leg") /\ Cycle(bad, moving)

BoardSpec == BoardInit /\ [][BoardNext]_bvars

----------------------------------------------------------------------------
(* The limit of a counter on this board, where its check is an error.      *)
Limit(c) == CASE c = "therm" -> ThermLimit [] c \in {"motorV", "logicV"} -> VoltLimit
              [] c \in {"motorEnc", "legEnc"} -> EncLimit [] c = "switch" -> SwitchLimit

(* A filtered fault is only reported on more than its limit of bad         *)
(* readings since the last reset: nothing that was counted before, in      *)
(* another state or another run, helps to bring it about.  The readings    *)
(* of a cycle from run to halt are checked, and counted, twice.            *)
FaultsAreFresh ==
  \A c \in {"therm", "motorV", "logicV"} :
    c \in flags => watched.bad[c] + watched.twice > Limit(c)

(* A fault that lasts stops the board: no run goes on over more bad        *)
(* readings in a row than the filter allows, whichever other filter is     *)
(* counting at the same time.                                              *)
TripsInTime ==
  mode = "run" =>
    /\ \A c \in {"therm", "motorV", "logicV"} :
         c \in checks => watched.streak[c] <= Limit(c)
    /\ "encoder" \in checks =>
         \A c \in {"motorEnc", "legEnc"} : watched.streak[c] <= Limit(c)
    /\ "switch" \in checks /\ variant = "hip" => watched.streak["switch"] = 0

(* A leg with a limit switch that has been pressed for long does not run,  *)
(* whether it was pressed before the run began or in it, unless the        *)
(* counter, 8 bits wide, has come round.                                   *)
HeldSwitchRefused ==
  variant = "leg" /\ "switch" \in checks /\ watched.held > SwitchLimit /\ ~ watched.wrapped
    => mode # "run"

(* Every frame that says a board is in error says why, but for the IMU's   *)
(* board, which clears its flags before each frame, and the first frame    *)
(* after a halt that came to its end.                                      *)
ErrorFlagged ==
  [][frame'.mode = "error" /\ variant # "imu" =>
       \/ frame'.flags # {}
       \/ frame.mode = "halt" /\ cnt["damp"] > DampLimit]_bvars

(* Each thermistor's reading settles on its own voltage after power-on and *)
(* after every reset, which clears it, though the channels share one       *)
(* comparator, and stays there.                                            *)
ThermistorsSettle ==
  watched.sampled = SettleTime =>
    \A c \in 0 .. Channels - 1 : therm.pdo[c] = Reading[therm.real[c]]

(* The data in the IMU's frame are this cycle's unless a flag says so, and *)
(* a packet that is short, misaligned or corrupt changes none of them.     *)
ImuDataGood ==
  [][variant = "imu" => IF frame'.flags = {} THEN imu'.data = imu'.now
                        ELSE imu'.data = imu.data]_bvars

(* A fault stops the board when it has lasted and never before, says so    *)
(* and is not run over by a reset; a bad reading of a sensor is not taken  *)
(* for a good one.                                                         *)
FaultsHandled ==
  /\ [](FaultsAreFresh /\ TripsInTime /\ HeldSwitchRefused)
  /\ []ThermistorsSettle
  /\ ErrorFlagged
  /\ ImuDataGood

(* A halt ends: a board is not kept in halt for long with its motor at     *)
(* rest, however long the leg was damped before, though the counter that   *)
(* ends it is 8 bits wide and has come round by then.  (The IMU's board    *)
(* stays until it is told otherwise.)                                      *)
HaltEnds == mode = "halt" => watched.rest <= DampLimit + 1

(* A halt that no fault and no E-stop ends was damped for its time, in     *)
(* every run anew, and has brought the leg to rest.                        *)
NotLetGo ==
  [][mode' = "error" /\ mode \in {"run", "halt"} /\ "estop" \notin flags' =>
       watched'.rest > 0 /\ watched'.halted > DampLimit]_bvars

(* A halt damps for its time and until the leg is at rest, and ends.       *)
HaltsInTime == []HaltEnds /\ NotLetGo
=============================================================================
