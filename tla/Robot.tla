-------------------------------- MODULE Robot --------------------------------
(***************************************************************************)
(* Two Medullas on one E-stop line under RT Ops.  In a cycle of the DC     *)
(* clock both run one step of their state machine, on the command RT Ops   *)
(* has sent last; their frames, written before that step, bring RT Ops the *)
(* states they had, on which it computes the next command.  A frame may be *)
(* lost, the E-stop button pressed, and a Medulla's interrupt may come     *)
(* between the cycles.                                                     *)
(*                                                                         *)
(* Each board is an instance of Medulla.  RT Ops is reduced to its state   *)
(* machine and runs in one step per cycle; its threads are RtOps's         *)
(* subject.  The motors rest when they are not driven, and the DC clock    *)
(* does not stop.                                                          *)
(***************************************************************************)
EXTENDS Integers

CONSTANTS
  ESTOP_DEBOUNCE_LIMIT, ESTOP_TIMEOUT_LENGTH, WatchdogLimit, DampingLimit,
  IntMax, TimeoutModulus, DampingModulus,  \* see Medulla
  MEDULLA_RESET_TIME_MS,   \* cycles of reset before RT Ops acknowledges it
  CMCommands,              \* what the Controller Manager may command
  MaxCommands, MaxLost     \* bounds on its commands and on the frames lost

RtOpsStates == {"NO_CONTROLLER_LOADED", "DISABLED", "ENABLED", "E_STOP", "RESET", "HALT"}

(* The reset is held for two cycles at least (MEDULLA_RESET_TIME_MS is 5), so *)
(* that it reaches the boards.                                             *)
ASSUME RobotConstants ==
  /\ ESTOP_DEBOUNCE_LIMIT \in Nat
  /\ ESTOP_TIMEOUT_LENGTH \in Nat \ {0}
  /\ WatchdogLimit \in Nat \ {0}
  /\ DampingLimit \in Nat
  /\ IntMax \in Nat \ {0}
  /\ TimeoutModulus \in Nat /\ TimeoutModulus > ESTOP_TIMEOUT_LENGTH + 1
  /\ DampingModulus \in Nat /\ DampingModulus > DampingLimit + 1
  /\ MEDULLA_RESET_TIME_MS \in Nat /\ MEDULLA_RESET_TIME_MS >= 2
  /\ CMCommands \subseteq RtOpsStates
  /\ MaxCommands \in Nat /\ MaxLost \in Nat

VARIABLES
  stateL, debounceL, timeoutL, previousL, errorsL, dampingL, outputsL,
  assertedL, lineL,        \* the left board
  stateR, debounceR, timeoutR, previousR, errorsR, dampingR, outputsR,
  assertedR, lineR,        \* the right board
  command, counter,        \* what the boards have received last
  moving, hung,            \* FALSE: see Medulla
  rtOpsState, resetCounter, sending,  \* RT Ops, and the command it sends next
  past                     \* what has happened, for the properties

boardL == <<stateL, debounceL, timeoutL, previousL, errorsL, dampingL, outputsL,
            assertedL, lineL>>
boardR == <<stateR, debounceR, timeoutR, previousR, errorsR, dampingR, outputsR,
            assertedR, lineR>>
rtOps == <<rtOpsState, resetCounter, sending>>
vars == <<boardL, boardR, command, counter, moving, hung, rtOps, past>>

Commands == {"idle", "run", "halt", "error", "reset"}

L == INSTANCE Medulla WITH
  current_state <- stateL, commanded_state <- command,
  estop_debounce <- debounceL, estop_timeout_counter <- timeoutL,
  master_watchdog_counter <- counter, previous_master_watchdog <- previousL,
  master_watchdog_errors <- errorsL, damping_cnt <- dampingL,
  outputs <- outputsL, asserted <- assertedL, line <- lineL,
  WatchdogValues <- {0, 1}, Moving <- {FALSE}

R == INSTANCE Medulla WITH
  current_state <- stateR, commanded_state <- command,
  estop_debounce <- debounceR, estop_timeout_counter <- timeoutR,
  master_watchdog_counter <- counter, previous_master_watchdog <- previousR,
  master_watchdog_errors <- errorsR, damping_cnt <- dampingR,
  outputs <- outputsR, asserted <- assertedR, line <- lineR,
  WatchdogValues <- {0, 1}, Moving <- {FALSE}

(* past: for how many cycles a board has pulled the line without a break;  *)
(* how many frames in a row said run while a board was in error, and how   *)
(* many neither run nor reset; whether an E-stop counter has run over;     *)
(* whether every board in error when the reset began had been so for as    *)
(* long as the timeout and its counter was not about to wrap, none was     *)
(* about to run, and no frame was lost since; and whether the last step    *)
(* acknowledged the reset.                                                 *)
Init ==
  /\ L!Init /\ R!Init
  /\ rtOpsState = "NO_CONTROLLER_LOADED" /\ resetCounter = 0 /\ sending = "idle"
  /\ past = [pulled |-> 0, driven |-> 0, unpowered |-> 0, overflowed |-> FALSE,
             ripe |-> FALSE, acked |-> FALSE, commands |-> 0, lost |-> 0]

----------------------------------------------------------------------------
(* RT Ops.                                                                 *)

setState(old, new) == IF old = "E_STOP" /\ new # "RESET" THEN old ELSE new

Ripe(state, timeout) ==
  state \notin {"init", "run", "halt"}
    /\ (state = "error" => timeout \in ESTOP_TIMEOUT_LENGTH .. TimeoutModulus - 3)

(* newCMState.  ENABLED is refused while a board reports halt.             *)
newCMState ==
  /\ past.commands < MaxCommands
  /\ \E new \in CMCommands :
       rtOpsState' = setState(rtOpsState,
         IF new = "ENABLED" /\ "halt" \in {stateL, stateR} THEN "DISABLED" ELSE new)
  /\ past' = [past EXCEPT !.acked = FALSE, !.commands = @ + 1,
       !.ripe = IF rtOpsState = "RESET" \/ rtOpsState' # "RESET" THEN @
                ELSE /\ resetCounter = 0 /\ sending # "run"
                     /\ Ripe(stateL, timeoutL) /\ Ripe(stateR, timeoutR)]
  /\ UNCHANGED <<boardL, boardR, command, counter, moving, hung, resetCounter, sending>>

checkForNewErrors_All(reported) ==
  IF rtOpsState \notin {"E_STOP", "RESET"} /\ reported = {"error"}
  THEN "E_STOP" ELSE rtOpsState

(* The state RT Ops is in once it has looked at the boards' frames.        *)
checkForNewErrors(reported) ==
  IF rtOpsState \notin {"E_STOP", "RESET"} /\ "error" \in reported
  THEN "E_STOP" ELSE rtOpsState

ResetOver_Early == resetCounter + 1 >= MEDULLA_RESET_TIME_MS - 3

ResetOver == resetCounter + 1 > MEDULLA_RESET_TIME_MS

(* calcState: the command for the next cycle, and RT Ops's state after it. *)
(* An enabled controller commands run; one that commands an error is an    *)
(* E_STOP among the CMCommands.                                            *)
calcState(state, reported) ==
  CASE state = "E_STOP" -> <<"error", state>>
    [] state = "RESET"  -> <<"reset", IF ResetOver THEN "NO_CONTROLLER_LOADED" ELSE state>>
    [] state = "HALT"   -> <<"halt", state>>
    [] state = "ENABLED" -> IF "halt" \in reported THEN <<"halt", "HALT">>
                            ELSE <<"run", state>>
    [] OTHER            -> <<"idle", state>>

RtOpsCycle(reported) ==
  LET checked == checkForNewErrors(reported)
      next    == calcState(checked, reported)
  IN /\ sending' = next[1]
     /\ rtOpsState' = next[2]
     /\ resetCounter' = IF checked # "RESET" THEN resetCounter
                        ELSE IF ResetOver THEN 0 ELSE resetCounter + 1

----------------------------------------------------------------------------
(* The E-stop line is down for a board when the button is pressed, or when *)
(* it or the other one pulls it; one that begins or ceases to in this      *)
(* cycle may do so before or after the line is read.                       *)
LineRead(button) ==
  /\ lineL' \in {button \/ assertedL \/ assertedR, button \/ assertedL \/ assertedR'}
  /\ lineR' \in {button \/ assertedL \/ assertedR, button \/ assertedL' \/ assertedR}

(* The counters of past stop one above what they are compared with.        *)
Up(n, limit) == IF n <= limit THEN n + 1 ELSE n

Observe(arrived) ==
  past' = [past EXCEPT
    !.pulled = IF (assertedL /\ assertedL') \/ (assertedR /\ assertedR')
               THEN Up(@, ESTOP_DEBOUNCE_LIMIT) ELSE 0,
    !.driven = IF "error" \notin {stateL, stateR} \/ command' # "run" THEN 0
               ELSE IF arrived THEN Up(@, 1) ELSE @,
    !.unpowered = IF command' \in {"run", "reset"} THEN 0
                  ELSE IF arrived THEN Up(@, DampingLimit + 1) ELSE @,
    !.overflowed = @ \/ (debounceL' < debounceL - 1 /\ stateL # "reset")
                     \/ (debounceR' < debounceR - 1 /\ stateR # "reset"),
    !.ripe = @ /\ arrived,
    !.lost = IF arrived THEN @ ELSE @ + 1,
    !.acked = rtOpsState = "RESET" /\ rtOpsState' = "NO_CONTROLLER_LOADED"]

(* A cycle.  The frame arrives with a new watchdog count, or is lost.      *)
Cycle ==
  /\ \/ command' = sending /\ counter' = 1 - counter
     \/ past.lost < MaxLost /\ UNCHANGED <<command, counter>>
  /\ L!Cycle /\ R!Cycle
  /\ \E button \in BOOLEAN : LineRead(button)
  /\ RtOpsCycle({stateL, stateR})
  /\ Observe(counter' # counter)

(* The E-stop driver's interrupt, on a board that sees the line go down.   *)
InterruptL ==
  /\ assertedR /\ ~assertedL
  /\ L!EStopInterrupt
  /\ UNCHANGED <<boardR, rtOps, past>>

InterruptR ==
  /\ assertedL /\ ~assertedR
  /\ R!EStopInterrupt
  /\ UNCHANGED <<boardL, rtOps, past>>

Next == Cycle \/ newCMState \/ InterruptL \/ InterruptR

Spec == Init /\ [][Next]_vars

----------------------------------------------------------------------------
(* A board's error stops the other one, over the line they share and       *)
(* whether or not RT Ops's frames arrive and in whichever order the boards *)
(* read it: none is powered when one has pulled the line for more cycles   *)
(* than the debounce allows, unless the int that counts has run over.      *)
OneStopsAll ==
  past.pulled > ESTOP_DEBOUNCE_LIMIT /\ ~past.overflowed
    => ~outputsL /\ ~outputsR

(* RT Ops does not run the robot on a board's error, also when it has      *)
(* acknowledged a reset that the board has not taken, or a user displaces  *)
(* a reset: one frame says run before it has heard of the error.           *)
NoRunIntoError == past.driven <= 1

(* When RT Ops stops running the boards, for whatever reason, they let go  *)
(* of their resting motors, though init does not look at the command and   *)
(* halt only at its own counter: within the cycles of the damping and one  *)
(* more.  A reset is no such reason: a running Medulla does not obey it.   *)
PowerEnds ==
  past.unpowered > DampingLimit + 1 => ~outputsL /\ ~outputsR

(* A reset that begins when the boards are not armed and have been in      *)
(* error for as long as their timeout finds them idle when RT Ops          *)
(* acknowledges it, if no frame is lost.                                   *)
RipeResetEndsIdle == past.acked /\ past.ripe => stateL = "idle" /\ stateR = "idle"
=============================================================================
