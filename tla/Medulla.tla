------------------------------- MODULE Medulla -------------------------------
(***************************************************************************)
(* A Medulla, one of the microcontrollers that drive the robot's motors    *)
(* (firmware/atrias2.1).  On every DC clock of the EtherCAT network it     *)
(* reads its sensors, exchanges data with the master (RT Ops, through the  *)
(* connector) and runs one step of the state machine of medulla.c.  All    *)
(* Medullas share one E-stop line, which each of them reads and may        *)
(* assert.  Two interrupts come between the clocks: the E-stop driver's    *)
(* callback and the watchdog timer.                                        *)
(*                                                                         *)
(* The kinds of Medulla differ in what their checks look at; here a cycle  *)
(* is given the checks' results.                                           *)
(***************************************************************************)
EXTENDS Integers

CONSTANTS
  ESTOP_DEBOUNCE_LIMIT,  \* E-stop cycles to tolerate
  ESTOP_TIMEOUT_LENGTH,  \* cycles to stay in error
  WatchdogLimit,         \* stale cycles that make a master watchdog error
  DampingLimit,          \* cycles of run_halt before it may give up
  IntMax,                \* the largest int: estop_debounce
  TimeoutModulus,        \* estop_timeout_counter wraps here (uint16_t)
  DampingModulus,        \* the damping counter wraps here (uint8_t)
  WatchdogValues,        \* the values of the master's watchdog counter
  Commands,              \* the states the master may command
  Moving                 \* whether a cycle may find the motor moving

MedullaState == {"idle", "init", "run", "stop", "halt", "error", "reset"}

ASSUME MedullaConstants ==
  /\ ESTOP_DEBOUNCE_LIMIT \in Nat
  /\ ESTOP_TIMEOUT_LENGTH \in Nat \ {0}
  /\ WatchdogLimit \in Nat \ {0}
  /\ DampingLimit \in Nat
  /\ IntMax \in Nat \ {0}
  /\ TimeoutModulus \in Nat /\ TimeoutModulus > ESTOP_TIMEOUT_LENGTH + 1
  /\ DampingModulus \in Nat /\ DampingModulus > DampingLimit + 1
  /\ Commands \subseteq MedullaState
  /\ Moving \subseteq BOOLEAN

VARIABLES
  current_state, commanded_state,
  estop_debounce, estop_timeout_counter,
  master_watchdog_counter, previous_master_watchdog, master_watchdog_errors,
  damping_cnt,   \* leg_damping_cnt, hip_damping_cnt or boom_damping_cnt
  outputs,       \* the amplifier's PWM output is enabled
  asserted,      \* this Medulla asserts the E-stop line
  line,          \* what estop_is_estopped said last
  moving,        \* run_halt finds the motor moving in this cycle
  hung           \* the watchdog interrupt has been taken; it never returns

timers   == <<estop_debounce, estop_timeout_counter>>
watchdog == <<previous_master_watchdog, master_watchdog_errors>>
inputs   == <<commanded_state, master_watchdog_counter, line, moving>>
vars == <<current_state, inputs, timers, watchdog, damping_cnt, outputs,
          asserted, hung>>

Init ==
  /\ current_state = "idle" /\ commanded_state = "idle"
  /\ estop_debounce = 0 /\ estop_timeout_counter = 0
  /\ master_watchdog_counter \in WatchdogValues
  /\ previous_master_watchdog = master_watchdog_counter
  /\ master_watchdog_errors = 0
  /\ damping_cnt = 0
  /\ outputs = FALSE /\ asserted = FALSE /\ line = FALSE /\ hung = FALSE
  /\ moving = FALSE

----------------------------------------------------------------------------
(* The start of a cycle: what the master has sent, which counts its        *)
(* commands, and the E-stop line, which is down when another Medulla or    *)
(* the button pulls it or when this Medulla asserts it.                    *)
ReadInputs ==
  /\ ~hung
  /\ \/ UNCHANGED <<commanded_state, master_watchdog_counter>>
     \/ /\ master_watchdog_counter' \in WatchdogValues \ {master_watchdog_counter}
        /\ commanded_state' \in Commands
  /\ line' \in {asserted, TRUE}
  /\ moving' \in Moving
  /\ UNCHANGED hung

(* estop_debounce after this cycle's count, an int that nothing stops from *)
(* running over.                                                           *)
Debounced ==
  IF line' THEN (IF estop_debounce = IntMax THEN -IntMax - 1
                 ELSE estop_debounce + 1)
  ELSE IF estop_debounce > 0 THEN estop_debounce - 1 ELSE estop_debounce

(* Each definition named X_... before a definition X is X with a mistake   *)
(* put into it, which the properties must notice.                          *)
EStopCalled_OffByOne == Debounced > ESTOP_DEBOUNCE_LIMIT + 1

EStopCalled == Debounced > ESTOP_DEBOUNCE_LIMIT

(* The error state's part of a cycle, with the timeout counter at t: call  *)
(* main_estop, count, and accept a reset once the timeout has passed.      *)
HandleError(t) ==
  LET count == (t + 1) % TimeoutModulus IN
  /\ outputs' = FALSE /\ asserted' = TRUE
  /\ estop_timeout_counter' = count
  /\ current_state' = IF commanded_state' = "reset" /\ count > ESTOP_TIMEOUT_LENGTH
                      THEN "reset" ELSE "error"

(* What the checks of a kind of Medulla may say: check_error looks at      *)
(* limit switches, thermistors, voltages, encoders and the amplifier,      *)
(* check_halt at whether the motor can still stop before its end.  Their   *)
(* filters are left out: either may say anything in any cycle.             *)
(* Every board of this repository answers FALSE to check_halt, the leg     *)
(* because MEDULLA_USE_HALT is not defined; the state machine is written,  *)
(* and checked here, for any answer; MedullaBoards leaves it out.         *)
check_error == BOOLEAN
check_halt  == BOOLEAN

(* run_halt gives up once the motor rests and has been damped for a while. *)
RunHaltGivesUp == ~moving' /\ damping_cnt' > DampingLimit

HandleHalt_StaysPowered(fault, t) ==
  \/ /\ EStopCalled \/ fault
     /\ HandleError(0)
     /\ UNCHANGED damping_cnt
  \/ /\ ~EStopCalled /\ ~fault
     /\ damping_cnt' = (damping_cnt + 1) % DampingModulus
     /\ IF RunHaltGivesUp
        THEN current_state' = "error" /\ estop_timeout_counter' = 0
        ELSE current_state' = "halt" /\ estop_timeout_counter' = t
     /\ UNCHANGED <<asserted, outputs>>

HandleHalt_NeverGivesUp(fault, t) ==
  \/ /\ EStopCalled \/ fault
     /\ HandleError(0)
     /\ UNCHANGED damping_cnt
  \/ /\ ~EStopCalled /\ ~fault
     /\ damping_cnt' = IF damping_cnt < DampingLimit THEN damping_cnt + 1
                       ELSE damping_cnt
     /\ current_state' = "halt" /\ estop_timeout_counter' = t
     /\ UNCHANGED <<asserted, outputs>>

(* The halt state's part: an error ends it; otherwise run_halt damps the   *)
(* motor and gives up, some time after the motor has come to rest.  fault  *)
(* is the result of check_error.                                           *)
HandleHalt(fault, t) ==
  \/ /\ EStopCalled \/ fault
     /\ HandleError(0)
     /\ UNCHANGED damping_cnt
  \/ /\ ~EStopCalled /\ ~fault
     /\ damping_cnt' = (damping_cnt + 1) % DampingModulus
     /\ IF RunHaltGivesUp
        THEN current_state' = "error" /\ outputs' = FALSE
             /\ estop_timeout_counter' = 0
        ELSE current_state' = "halt" /\ estop_timeout_counter' = t
             /\ UNCHANGED outputs
     /\ UNCHANGED asserted

----------------------------------------------------------------------------
(* One cycle, by the state it starts in.                                   *)

IdleCycle ==
  /\ current_state = "idle"
  /\ ReadInputs
  /\ asserted' = FALSE
  /\ current_state' = IF commanded_state' = "run" THEN "init" ELSE "idle"
  /\ estop_debounce' = Debounced
  /\ UNCHANGED <<estop_timeout_counter, watchdog, damping_cnt, outputs>>

(* unfit: check_error or check_halt objects.  The line is read twice, at   *)
(* the start of the cycle and for the test; the readings are taken to      *)
(* agree.                                                                  *)
InitCycle ==
  /\ current_state = "init"
  /\ ReadInputs
  /\ damping_cnt' = 0 /\ master_watchdog_errors' = 0
  /\ \E unfit \in check_error \cup check_halt :
       IF line' \/ unfit
       THEN HandleError(0)
       ELSE /\ outputs' = TRUE /\ current_state' = "run"
            /\ UNCHANGED <<asserted, estop_timeout_counter>>
  /\ estop_debounce' = Debounced
  /\ UNCHANGED previous_master_watchdog

(* The master's command, in the run state.                                 *)
Commanded == CASE commanded_state' \in {"stop", "idle"} -> "stop"
               [] commanded_state' \in {"halt", "error"} -> commanded_state'
               [] OTHER -> "run"

WatchdogExpired_OffByOne == master_watchdog_errors' > WatchdogLimit

WatchdogExpired == master_watchdog_errors' >= WatchdogLimit

(* check_error is called again when the cycle goes on into halt.  The      *)
(* watchdog error, alone of all errors, leaves the timeout counter as it   *)
(* is.                                                                     *)
RunCycle ==
  /\ current_state = "run"
  /\ ReadInputs
  /\ master_watchdog_errors' =
       IF master_watchdog_counter' = previous_master_watchdog
       THEN master_watchdog_errors + 1 ELSE 0
  /\ previous_master_watchdog' = master_watchdog_counter'
  /\ \E limit \in check_halt, fault, again \in check_error :
       LET next  == IF EStopCalled \/ fault THEN "error"
                    ELSE IF limit THEN "halt"
                    ELSE IF WatchdogExpired THEN "error"
                    ELSE Commanded
           timer == IF Commanded = "error" \/ EStopCalled \/ fault THEN 0
                    ELSE estop_timeout_counter
       IN \/ /\ next = "run"
             /\ current_state' = "run" /\ estop_timeout_counter' = timer
             /\ UNCHANGED <<outputs, asserted, damping_cnt>>
          \/ /\ next = "stop"
             /\ outputs' = FALSE /\ current_state' = "idle"
             /\ estop_timeout_counter' = timer
             /\ UNCHANGED <<asserted, damping_cnt>>
          \/ next = "halt" /\ HandleHalt(again, timer)
          \/ next = "error" /\ HandleError(timer) /\ UNCHANGED damping_cnt
  /\ estop_debounce' = Debounced

HaltCycle ==
  /\ current_state = "halt"
  /\ ReadInputs
  /\ \E fault \in check_error : HandleHalt(fault, estop_timeout_counter)
  /\ estop_debounce' = Debounced
  /\ UNCHANGED watchdog

ResetCycle ==
  /\ current_state = "reset"
  /\ ReadInputs
  /\ asserted' = FALSE
  /\ damping_cnt' = 0 /\ master_watchdog_errors' = 0 /\ estop_debounce' = 0
  /\ current_state' = "idle"
  /\ UNCHANGED <<previous_master_watchdog, estop_timeout_counter, outputs>>

ErrorCycle ==
  /\ current_state = "error"
  /\ ReadInputs
  /\ HandleError(estop_timeout_counter)
  /\ estop_debounce' = Debounced
  /\ UNCHANGED <<watchdog, damping_cnt>>

Cycle == \/ IdleCycle \/ InitCycle \/ RunCycle \/ HaltCycle \/ ResetCycle
         \/ ErrorCycle

----------------------------------------------------------------------------
(* The E-stop driver calls main_estop when the line goes down.             *)
EStopInterrupt ==
  /\ ~hung
  /\ outputs' = FALSE /\ asserted' = TRUE
  /\ UNCHANGED <<current_state, inputs, timers, watchdog, damping_cnt, hung>>

(* The watchdog timer overflows when the DC clock has stopped; it is fed   *)
(* without the clock in the idle state only.                               *)
WatchdogOverflow ==
  /\ ~hung /\ current_state # "idle"
  /\ hung' = TRUE
  /\ outputs' = FALSE
  /\ UNCHANGED <<current_state, inputs, timers, watchdog, damping_cnt, asserted>>

Interrupt == EStopInterrupt \/ WatchdogOverflow

Next == Cycle \/ Interrupt

Spec == Init /\ [][Next]_vars

(* Outside the idle state either the clock comes or the watchdog does.     *)
FairSpec == Spec /\ WF_vars(Cycle \/ WatchdogOverflow)

----------------------------------------------------------------------------
(* The variables keep their types; the watchdog errors never run over      *)
(* their limit, for the state machine leaves run there.                    *)
TypeOK ==
  /\ current_state \in MedullaState \ {"stop"}
  /\ commanded_state \in MedullaState
  /\ estop_debounce \in -IntMax - 1 .. IntMax
  /\ estop_timeout_counter \in 0 .. TimeoutModulus - 1
  /\ master_watchdog_counter \in WatchdogValues
  /\ previous_master_watchdog \in WatchdogValues
  /\ master_watchdog_errors \in 0 .. WatchdogLimit
  /\ current_state = "run" => master_watchdog_errors < WatchdogLimit
  /\ damping_cnt \in 0 .. DampingModulus - 1
  /\ outputs \in BOOLEAN /\ asserted \in BOOLEAN
  /\ line \in BOOLEAN /\ moving \in BOOLEAN /\ hung \in BOOLEAN

(* The motor is never powered outside run and halt, nor by a Medulla that  *)
(* hangs: each of the many ways out of those two states (the master's      *)
(* command, master watchdog, E-stop line, failed checks, the end of the    *)
(* halt, the hardware watchdog) disables the outputs within its cycle.     *)
PoweredOnlyArmed == outputs => current_state \in {"run", "halt"} /\ ~hung

(* Halting ends: a motor that comes to rest is let go, wherever the        *)
(* wrapping damping counter stands by then (leg_run_halt, hip_run_halt).   *)
HaltEnds ==
  <>[]~moving => (current_state = "halt" ~> current_state # "halt" \/ hung)
=============================================================================
