------------------------------ MODULE Robot_proofs ------------------------------
(***************************************************************************)
(* Proofs about two Medullas on one E-stop line under RT Ops, for every    *)
(* value of the limits, the counters' widths and the reset time.  What one *)
(* board does in a cycle comes from the proofs about the Medulla, as Moves *)
(* over a board's values, so that each argument is made once for both.  It *)
(* takes none of what is proved there of the history counters, for which   *)
(* any value does.                                                         *)
(***************************************************************************)
EXTENDS Robot, TLAPS

LP == INSTANCE Medulla_proofs WITH
  current_state <- stateL, commanded_state <- command,
  estop_debounce <- debounceL, estop_timeout_counter <- timeoutL,
  master_watchdog_counter <- counter, previous_master_watchdog <- previousL,
  master_watchdog_errors <- errorsL, damping_cnt <- dampingL,
  outputs <- outputsL, asserted <- assertedL, line <- lineL,
  WatchdogValues <- {0, 1}, Moving <- {FALSE},
  pressedFor <- 0, staleFor <- 0, errorFor <- 0, overflowed <- FALSE, orphaned <- FALSE

RP == INSTANCE Medulla_proofs WITH
  current_state <- stateR, commanded_state <- command,
  estop_debounce <- debounceR, estop_timeout_counter <- timeoutR,
  master_watchdog_counter <- counter, previous_master_watchdog <- previousR,
  master_watchdog_errors <- errorsR, damping_cnt <- dampingR,
  outputs <- outputsR, asserted <- assertedR, line <- lineR,
  WatchdogValues <- {0, 1}, Moving <- {FALSE},
  pressedFor <- 0, staleFor <- 0, errorFor <- 0, overflowed <- FALSE, orphaned <- FALSE

(* The constants of the robot are fit for its boards.                      *)
LEMMA BoardConstants == LP!MedullaConstants /\ RP!MedullaConstants
BY RobotConstants
DEF LP!MedullaConstants, RP!MedullaConstants, LP!MedullaState, RP!MedullaState, Commands

(* estop_debounce after a cycle.                                           *)
Count(debounce, line) ==
  IF line THEN (IF debounce = IntMax THEN -IntMax - 1 ELSE debounce + 1)
  ELSE IF debounce > 0 THEN debounce - 1 ELSE debounce

(* A cycle of a board on the command cmd: its state, debounce, timeout and *)
(* damping before and after it, and the line as read in it.                *)
Moves(cmd, line, s, t, debounce, debounced, timeout, timedout, damping, damped) ==
  /\ debounced = IF s = "reset" THEN 0 ELSE Count(debounce, line)
  /\ t \in {"run", "halt"} =>
       \/ s = "init" /\ ~line
       \/ s \in {"run", "halt"} /\ Count(debounce, line) <= ESTOP_DEBOUNCE_LIMIT
  /\ t = "init" => s = "idle" /\ cmd = "run"
  /\ t = "run" =>
       \/ s = "init" /\ damped = 0
       \/ s = "run" /\ damped = damping /\ cmd \notin {"stop", "idle", "halt", "error"}
  /\ t = "halt" => /\ s \in {"run", "halt"}
                   /\ damped = (damping + 1) % DampingModulus
                   /\ damped <= DampingLimit
  /\ cmd # "run" /\ s \in {"idle", "reset", "error"} =>
       \/ s \in {"idle", "reset"} /\ t = "idle"
       \/ /\ s = "error" /\ timedout = (timeout + 1) % TimeoutModulus
          /\ t = IF cmd = "reset" /\ timedout > ESTOP_TIMEOUT_LENGTH
                 THEN "reset" ELSE "error"

LeftMoves == Moves(command', lineL', stateL, stateL', debounceL, debounceL',
                   timeoutL, timeoutL', dampingL, dampingL')

RightMoves == Moves(command', lineR', stateR, stateR', debounceR, debounceR',
                    timeoutR, timeoutR', dampingR, dampingR')

(* The left board's cycle moves it so, and keeps its own invariant.    *)
LEMMA LeftCycle == ASSUME LP!Inv, L!Cycle PROVE LeftMoves /\ LP!Inv'
<1>1. LP!Cycle
  BY DEF L!Cycle, L!IdleCycle, L!InitCycle, L!RunCycle, L!HaltCycle, L!ResetCycle,
         L!ErrorCycle, L!ReadInputs, L!HandleError, L!HandleHalt, L!Debounced,
         L!EStopCalled, L!RunHaltGivesUp, L!Commanded, L!WatchdogExpired,
         L!check_error, L!check_halt, L!watchdog,
         LP!Cycle, LP!IdleCycle, LP!InitCycle, LP!RunCycle, LP!HaltCycle,
         LP!ResetCycle, LP!ErrorCycle, LP!ReadInputs, LP!HandleError,
         LP!HandleHalt, LP!Debounced, LP!EStopCalled, LP!RunHaltGivesUp,
         LP!Commanded, LP!WatchdogExpired, LP!check_error, LP!check_halt, LP!watchdog
<1>2. LP!Inv'
  BY <1>1, BoardConstants, LP!CycleStep
<1>3. lineL' \in BOOLEAN
  BY <1>2 DEF LP!Inv, LP!TypeOK
<1>4. moving' = FALSE
  BY <1>1 DEF LP!Cycle, LP!IdleCycle, LP!InitCycle, LP!RunCycle,
     LP!HaltCycle, LP!ResetCycle, LP!ErrorCycle, LP!ReadInputs
<1>5. LP!Debounced = Count(debounceL, lineL')
  BY DEF LP!Debounced, Count
<1>6. dampingL' \in Nat
  BY <1>2, BoardConstants DEF LP!Inv, LP!TypeOK, LP!MedullaConstants
<1>7. debounceL' = IF stateL = "reset" THEN 0 ELSE Count(debounceL, lineL')
  BY <1>1, <1>5, BoardConstants, LP!CountsLine
<1>8. stateL' \in {"run", "halt"} =>
        \/ stateL = "init" /\ ~lineL'
        \/ /\ stateL \in {"run", "halt"}
           /\ ~(Count(debounceL, lineL') > ESTOP_DEBOUNCE_LIMIT)
  BY <1>1, <1>3, <1>5, BoardConstants, LP!ArmedWithLineUp DEF LP!EStopCalled
<1>9. Count(debounceL, lineL') \in Int
  BY RobotConstants DEF Count, LP!Inv, LP!TypeOK
<1>10. stateL' = "halt" => dampingL' <= DampingLimit
  BY <1>1, <1>4, <1>6, BoardConstants, RobotConstants, LP!HaltDamps DEF LP!RunHaltGivesUp
<1>11. stateL' = "halt" => /\ stateL \in {"run", "halt"}
                          /\ dampingL' = (dampingL + 1) % DampingModulus
  BY <1>1, BoardConstants, LP!HaltDamps
<1>12. LeftMoves
  BY <1>1, <1>7, <1>8, <1>9, <1>10, <1>11, BoardConstants, RobotConstants,
     LP!InitOnRun, LP!RunOnCommand, LP!DisarmedMoves
  DEF LeftMoves, Moves
<1> QED
  BY <1>2, <1>12

(* The right board's cycle moves it so, and keeps its own invariant.   *)
LEMMA RightCycle == ASSUME RP!Inv, R!Cycle PROVE RightMoves /\ RP!Inv'
<1>1. RP!Cycle
  BY DEF R!Cycle, R!IdleCycle, R!InitCycle, R!RunCycle, R!HaltCycle, R!ResetCycle,
         R!ErrorCycle, R!ReadInputs, R!HandleError, R!HandleHalt, R!Debounced,
         R!EStopCalled, R!RunHaltGivesUp, R!Commanded, R!WatchdogExpired,
         R!check_error, R!check_halt, R!watchdog,
         RP!Cycle, RP!IdleCycle, RP!InitCycle, RP!RunCycle, RP!HaltCycle,
         RP!ResetCycle, RP!ErrorCycle, RP!ReadInputs, RP!HandleError,
         RP!HandleHalt, RP!Debounced, RP!EStopCalled, RP!RunHaltGivesUp,
         RP!Commanded, RP!WatchdogExpired, RP!check_error, RP!check_halt, RP!watchdog
<1>2. RP!Inv'
  BY <1>1, BoardConstants, RP!CycleStep
<1>3. lineR' \in BOOLEAN
  BY <1>2 DEF RP!Inv, RP!TypeOK
<1>4. moving' = FALSE
  BY <1>1 DEF RP!Cycle, RP!IdleCycle, RP!InitCycle, RP!RunCycle,
     RP!HaltCycle, RP!ResetCycle, RP!ErrorCycle, RP!ReadInputs
<1>5. RP!Debounced = Count(debounceR, lineR')
  BY DEF RP!Debounced, Count
<1>6. dampingR' \in Nat
  BY <1>2, BoardConstants DEF RP!Inv, RP!TypeOK, RP!MedullaConstants
<1>7. debounceR' = IF stateR = "reset" THEN 0 ELSE Count(debounceR, lineR')
  BY <1>1, <1>5, BoardConstants, RP!CountsLine
<1>8. stateR' \in {"run", "halt"} =>
        \/ stateR = "init" /\ ~lineR'
        \/ /\ stateR \in {"run", "halt"}
           /\ ~(Count(debounceR, lineR') > ESTOP_DEBOUNCE_LIMIT)
  BY <1>1, <1>3, <1>5, BoardConstants, RP!ArmedWithLineUp DEF RP!EStopCalled
<1>9. Count(debounceR, lineR') \in Int
  BY RobotConstants DEF Count, RP!Inv, RP!TypeOK
<1>10. stateR' = "halt" => dampingR' <= DampingLimit
  BY <1>1, <1>4, <1>6, BoardConstants, RobotConstants, RP!HaltDamps DEF RP!RunHaltGivesUp
<1>11. stateR' = "halt" => /\ stateR \in {"run", "halt"}
                          /\ dampingR' = (dampingR + 1) % DampingModulus
  BY <1>1, BoardConstants, RP!HaltDamps
<1>12. RightMoves
  BY <1>1, <1>7, <1>8, <1>9, <1>10, <1>11, BoardConstants, RobotConstants,
     RP!InitOnRun, RP!RunOnCommand, RP!DisarmedMoves
  DEF RightMoves, Moves
<1> QED
  BY <1>2, <1>12

----------------------------------------------------------------------------
(* The types of RT Ops's state and of what the properties remember.        *)

PastType == [pulled : Nat, driven : Nat, unpowered : Nat, overflowed : BOOLEAN,
             ripe : BOOLEAN, acked : BOOLEAN, commands : Nat, lost : Nat]

RobotType ==
  /\ LP!Inv /\ RP!Inv
  /\ rtOpsState \in RtOpsStates /\ resetCounter \in Nat
  /\ sending \in Commands /\ command \in Commands
  /\ past \in PastType

(* The parts of a cycle: a frame that arrives brings what RT Ops has       *)
(* computed; both boards move; RT Ops looks at the states they had.        *)
LEMMA CycleParts ==
  ASSUME RobotType, Cycle
  PROVE  /\ LeftMoves /\ RightMoves /\ LP!Inv' /\ RP!Inv'
         /\ \/ counter' # counter /\ command' = sending
            \/ counter' = counter /\ command' = command
         /\ RtOpsCycle({stateL, stateR})
         /\ Observe(counter' # counter)
<1>1. counter \in {0, 1}
  BY DEF RobotType, LP!Inv, LP!TypeOK
<1>2. \/ counter' # counter /\ command' = sending
      \/ counter' = counter /\ command' = command
  BY <1>1 DEF Cycle
<1> QED
  BY <1>2, LeftCycle, RightCycle DEF Cycle, RobotType

(* What an interrupt changes: a board's outputs go off and it asserts.     *)
LEMMA InterruptParts ==
  ASSUME RobotType, InterruptL \/ InterruptR
  PROVE  /\ LP!Inv' /\ RP!Inv'
         /\ UNCHANGED <<rtOps, past, command, stateL, debounceL, timeoutL, dampingL,
                        stateR, debounceR, timeoutR, dampingR>>
<1>1. CASE InterruptL
  <2>1. LP!Interrupt
    BY <1>1 DEF InterruptL, L!EStopInterrupt, LP!EStopInterrupt, LP!Interrupt,
       L!inputs, L!timers, L!watchdog, LP!inputs, LP!timers, LP!watchdog
  <2>2. LP!Inv'
    BY <2>1, BoardConstants, LP!InterruptStep DEF RobotType
  <2>3. RP!Inv'
    BY <1>1 DEF InterruptL, RobotType, RP!Inv, RP!TypeOK, RP!PoweredOnlyArmed, boardR,
       L!EStopInterrupt, L!inputs
  <2> QED
    BY <1>1, <2>2, <2>3 DEF InterruptL, L!EStopInterrupt, L!inputs, L!timers, boardR
<1>2. CASE InterruptR
  <2>1. RP!Interrupt
    BY <1>2 DEF InterruptR, R!EStopInterrupt, RP!EStopInterrupt, RP!Interrupt,
       R!inputs, R!timers, R!watchdog, RP!inputs, RP!timers, RP!watchdog
  <2>2. RP!Inv'
    BY <2>1, BoardConstants, RP!InterruptStep DEF RobotType
  <2>3. LP!Inv'
    BY <1>2 DEF InterruptR, RobotType, LP!Inv, LP!TypeOK, LP!PoweredOnlyArmed, boardL,
       R!EStopInterrupt, R!inputs
  <2> QED
    BY <1>2, <2>2, <2>3 DEF InterruptR, R!EStopInterrupt, R!inputs, R!timers, boardL
<1> QED
  BY <1>1, <1>2

(* What the properties remember after a cycle.                             *)
LEMMA Observed ==
  ASSUME RobotType, NEW arrived \in BOOLEAN, Observe(arrived)
  PROVE  /\ past'.pulled = IF (assertedL /\ assertedL') \/ (assertedR /\ assertedR')
                           THEN Up(past.pulled, ESTOP_DEBOUNCE_LIMIT) ELSE 0
         /\ past'.driven = IF "error" \notin {stateL, stateR} \/ command' # "run" THEN 0
                           ELSE IF arrived THEN Up(past.driven, 1) ELSE past.driven
         /\ past'.unpowered = IF command' \in {"run", "reset"} THEN 0
                              ELSE IF arrived THEN Up(past.unpowered, DampingLimit + 1)
                              ELSE past.unpowered
         /\ past'.overflowed = \/ past.overflowed
                               \/ debounceL' < debounceL - 1 /\ stateL # "reset"
                               \/ debounceR' < debounceR - 1 /\ stateR # "reset"
         /\ past'.ripe = (past.ripe /\ arrived)
         /\ past'.acked = (rtOpsState = "RESET" /\ rtOpsState' = "NO_CONTROLLER_LOADED")
         /\ past' \in PastType
<1>1. past \in PastType
  BY DEF RobotType
<1>2. past'.pulled = IF (assertedL /\ assertedL') \/ (assertedR /\ assertedR')
                     THEN Up(past.pulled, ESTOP_DEBOUNCE_LIMIT) ELSE 0
  BY <1>1 DEF Observe, PastType
<1>3. past'.driven = IF "error" \notin {stateL, stateR} \/ command' # "run" THEN 0
                     ELSE IF arrived THEN Up(past.driven, 1) ELSE past.driven
  BY <1>1 DEF Observe, PastType
<1>4. past'.unpowered = IF command' \in {"run", "reset"} THEN 0
                        ELSE IF arrived THEN Up(past.unpowered, DampingLimit + 1)
                        ELSE past.unpowered
  BY <1>1 DEF Observe, PastType
<1>5. past'.overflowed = \/ past.overflowed
                         \/ debounceL' < debounceL - 1 /\ stateL # "reset"
                         \/ debounceR' < debounceR - 1 /\ stateR # "reset"
  BY <1>1 DEF Observe, PastType
<1>6. past'.ripe = (past.ripe /\ arrived)
  BY <1>1 DEF Observe, PastType
<1>7. past'.acked = (rtOpsState = "RESET" /\ rtOpsState' = "NO_CONTROLLER_LOADED")
  BY <1>1 DEF Observe, PastType
<1>8. past' \in PastType
  <2>1. /\ Up(past.pulled, ESTOP_DEBOUNCE_LIMIT) \in Nat /\ Up(past.driven, 1) \in Nat
        /\ Up(past.unpowered, DampingLimit + 1) \in Nat
        /\ past.driven \in Nat /\ past.unpowered \in Nat
    BY <1>1 DEF Up, PastType
  <2>2. past'.pulled \in Nat /\ past'.driven \in Nat /\ past'.unpowered \in Nat
    BY <1>2, <1>3, <1>4, <2>1
  <2>3. past'.commands \in Nat /\ past'.lost \in Nat
    BY <1>1 DEF Observe, PastType
  <2>4. /\ past'.overflowed \in BOOLEAN /\ past'.ripe \in BOOLEAN
        /\ past'.acked \in BOOLEAN
    BY <1>1, <1>5, <1>6, <1>7, Zenon DEF PastType
  <2>5. past' = [pulled |-> past'.pulled, driven |-> past'.driven,
                 unpowered |-> past'.unpowered, overflowed |-> past'.overflowed,
                 ripe |-> past'.ripe, acked |-> past'.acked,
                 commands |-> past'.commands, lost |-> past'.lost]
    BY <1>1 DEF Observe, PastType
  <2> QED
    BY <2>2, <2>3, <2>4, <2>5 DEF PastType
<1> QED
  BY <1>2, <1>3, <1>4, <1>5, <1>6, <1>7, <1>8
----------------------------------------------------------------------------
(* Each step keeps the types.                                              *)

(* RT Ops keeps its types.                                                 *)
LEMMA RtOpsType ==
  ASSUME RobotType, RtOpsCycle({stateL, stateR})
  PROVE  /\ rtOpsState' \in RtOpsStates /\ resetCounter' \in Nat
         /\ sending' \in Commands
<1>1. checkForNewErrors({stateL, stateR}) \in RtOpsStates
  BY DEF RobotType, checkForNewErrors, RtOpsStates
<1>2. \A state \in RtOpsStates :
        /\ calcState(state, {stateL, stateR})[1] \in Commands
        /\ calcState(state, {stateL, stateR})[2] \in RtOpsStates
  BY DEF calcState, RtOpsStates, Commands
<1>3. resetCounter' \in Nat
  BY DEF RtOpsCycle, RobotType
<1> QED
  BY <1>1, <1>2, <1>3 DEF RtOpsCycle

(* A command of the Controller Manager leaves the boards and RT Ops's      *)
(* output as they are; a RESET remembers whether the boards are ripe.      *)
LEMMA CommandParts ==
  ASSUME RobotType, newCMState
  PROVE  /\ RobotType'
         /\ UNCHANGED <<boardL, boardR, command, counter, moving, hung,
                        resetCounter, sending>>
         /\ past'.pulled = past.pulled /\ past'.driven = past.driven
         /\ past'.unpowered = past.unpowered /\ past'.overflowed = past.overflowed
         /\ ~past'.acked
         /\ past'.ripe /\ rtOpsState' = "RESET" =>
              \/ past.ripe /\ rtOpsState = "RESET"
              \/ /\ resetCounter = 0 /\ sending # "run"
                 /\ Ripe(stateL, timeoutL) /\ Ripe(stateR, timeoutR)
<1> DEFINE ripe == /\ resetCounter = 0 /\ sending # "run"
                   /\ Ripe(stateL, timeoutL) /\ Ripe(stateR, timeoutR)
           kept == rtOpsState = "RESET" \/ rtOpsState' # "RESET"
<1>1. past \in PastType
  BY DEF RobotType
<1>2. past' = [past EXCEPT !.acked = FALSE, !.commands = @ + 1,
                           !.ripe = IF kept THEN @ ELSE ripe]
  BY DEF newCMState
<1>3. ripe \in BOOLEAN
  BY Zenon DEF Ripe
<1> HIDE DEF ripe, kept
<1>4. /\ past'.pulled = past.pulled /\ past'.driven = past.driven
      /\ past'.unpowered = past.unpowered /\ past'.overflowed = past.overflowed
      /\ past'.acked = FALSE /\ past'.ripe = IF kept THEN past.ripe ELSE ripe
  BY <1>1, <1>2 DEF PastType
<1>5. past' \in PastType
  <2>1. past'.commands \in Nat /\ past'.lost \in Nat
    BY <1>1, <1>2 DEF PastType
  <2>2. /\ past'.overflowed \in BOOLEAN /\ past'.ripe \in BOOLEAN
        /\ past'.acked \in BOOLEAN
    BY <1>1, <1>3, <1>4, Zenon DEF PastType
  <2>3. past' = [pulled |-> past'.pulled, driven |-> past'.driven,
                 unpowered |-> past'.unpowered, overflowed |-> past'.overflowed,
                 ripe |-> past'.ripe, acked |-> past'.acked,
                 commands |-> past'.commands, lost |-> past'.lost]
    BY <1>1, <1>2 DEF PastType
  <2>4. past'.pulled \in Nat /\ past'.driven \in Nat /\ past'.unpowered \in Nat
    BY <1>1, <1>4 DEF PastType
  <2> QED
    BY <2>1, <2>2, <2>3, <2>4 DEF PastType
<1>6. UNCHANGED <<boardL, boardR, command, counter, moving, hung, resetCounter, sending>>
  BY DEF newCMState
<1>7. rtOpsState' \in RtOpsStates
  BY RobotConstants DEF newCMState, setState, RobotType, RtOpsStates
<1>8. LP!Inv' /\ RP!Inv'
  BY <1>6 DEF RobotType, LP!Inv, LP!TypeOK, LP!PoweredOnlyArmed,
     RP!Inv, RP!TypeOK, RP!PoweredOnlyArmed, boardL, boardR
<1>9. RobotType'
  BY <1>5, <1>6, <1>7, <1>8 DEF RobotType
<1> QED
  BY <1>4, <1>6, <1>9 DEF kept, ripe

(* Every variable keeps its type.                                          *)
LEMMA TypeStep == ASSUME RobotType, [Next]_vars PROVE RobotType'
<1>1. CASE Cycle
  BY <1>1, CycleParts, RtOpsType, Observed DEF RobotType
<1>2. CASE newCMState
  BY <1>2, CommandParts
<1>3. CASE InterruptL \/ InterruptR
  BY <1>3, InterruptParts DEF RobotType, rtOps
<1>4. CASE UNCHANGED vars
  BY <1>4 DEF vars, boardL, boardR, rtOps, RobotType, LP!Inv, LP!TypeOK,
     LP!PoweredOnlyArmed, RP!Inv, RP!TypeOK, RP!PoweredOnlyArmed
<1> QED
  BY <1>1, <1>2, <1>3, <1>4 DEF Next

(* Every variable has its type at first.                                   *)
LEMMA TypeInit == ASSUME Init PROVE RobotType
<1>0. /\ 0 \in -IntMax - 1 .. IntMax /\ 0 \in 0 .. TimeoutModulus - 1
      /\ 0 \in 0 .. WatchdogLimit /\ 0 < WatchdogLimit /\ 0 \in 0 .. DampingModulus - 1
  BY RobotConstants
<1>1. LP!Inv
  BY <1>0 DEF Init, L!Init, LP!Inv, LP!TypeOK, LP!PoweredOnlyArmed,
     LP!MedullaState
<1>2. RP!Inv
  BY <1>0 DEF Init, R!Init, RP!Inv, RP!TypeOK, RP!PoweredOnlyArmed,
     RP!MedullaState
<1>3. past \in PastType
  BY DEF Init, PastType
<1> QED
  BY <1>1, <1>2, <1>3 DEF RobotType, Init, L!Init, RtOpsStates, Commands

(* The state of RT Ops, of both boards and of the past is well typed.      *)
LEMMA Typed == Spec => []RobotType
BY TypeInit, TypeStep, PTL DEF Spec
----------------------------------------------------------------------------
(* One board stops all.  An armed board has counted every cycle in which   *)
(* the line was pulled, for one that is pulled throughout a cycle is seen  *)
(* down by both boards whenever they read it.                              *)

Stopping(s, debounce, pulled) ==
  /\ debounce >= 0
  /\ s \in {"run", "halt"} => pulled <= debounce /\ pulled <= ESTOP_DEBOUNCE_LIMIT

StopInv == ~past.overflowed => /\ Stopping(stateL, debounceL, past.pulled)
                               /\ Stopping(stateR, debounceR, past.pulled)

(* A board keeps count of the pulls, unless its counter runs over.         *)
LEMMA StoppingStep ==
  ASSUME NEW cmd, NEW line \in BOOLEAN, NEW s, NEW t, NEW debounce \in Int,
         debounce <= IntMax, NEW debounced, NEW timeout, NEW timedout,
         NEW damping, NEW damped, NEW pulled \in Nat, NEW pulls,
         Moves(cmd, line, s, t, debounce, debounced, timeout, timedout, damping, damped),
         Stopping(s, debounce, pulled),
         pulls = 0 \/ (line /\ pulls = Up(pulled, ESTOP_DEBOUNCE_LIMIT)),
         ~(debounced < debounce - 1 /\ s # "reset")
  PROVE  Stopping(t, debounced, pulls)
<1>1. debounced \in Int /\ debounced >= 0
  BY RobotConstants DEF Moves, Count, Stopping
<1>2. ASSUME t \in {"run", "halt"}
      PROVE  pulls <= debounced /\ pulls <= ESTOP_DEBOUNCE_LIMIT
  <2>1. CASE pulls = 0
    BY <1>1, <2>1, RobotConstants
  <2>2. CASE line /\ pulls = Up(pulled, ESTOP_DEBOUNCE_LIMIT)
    <3>1. /\ s \in {"run", "halt"} /\ Count(debounce, line) <= ESTOP_DEBOUNCE_LIMIT
          /\ debounced = Count(debounce, line)
      BY <1>2, <2>2 DEF Moves
    <3>2. debounced = debounce + 1
      BY <1>1, <2>2, <3>1, RobotConstants DEF Count
    <3>3. pulls = pulled + 1
      BY <2>2, <3>1, RobotConstants DEF Up, Stopping
    <3> QED
      BY <3>1, <3>2, <3>3, RobotConstants DEF Stopping
  <2> QED
    BY <2>1, <2>2
<1> QED
  BY <1>1, <1>2 DEF Stopping

(* Every step preserves what the E-stop line has done.                     *)
LEMMA StopStep == ASSUME RobotType, StopInv, [Next]_vars PROVE StopInv'
<1>1. CASE Cycle
  <2>1. /\ past.pulled \in Nat /\ past'.pulled \in Nat
        /\ debounceL \in Int /\ debounceL <= IntMax /\ lineL' \in BOOLEAN
        /\ debounceR \in Int /\ debounceR <= IntMax /\ lineR' \in BOOLEAN
    BY <1>1, TypeStep, RobotConstants DEF Next, RobotType, PastType, LP!Inv, LP!TypeOK,
       RP!Inv, RP!TypeOK
  <2>2. /\ assertedL \in BOOLEAN /\ assertedR \in BOOLEAN
        /\ assertedL' \in BOOLEAN /\ assertedR' \in BOOLEAN
    BY <1>1, CycleParts DEF RobotType, LP!Inv, LP!TypeOK, RP!Inv, RP!TypeOK
  <2>3. PICK button \in BOOLEAN : LineRead(button)
    BY <1>1 DEF Cycle
  <2>4. (assertedL /\ assertedL') \/ (assertedR /\ assertedR') => lineL' /\ lineR'
    BY <2>2, <2>3 DEF LineRead
  <2>5. \/ past'.pulled = 0
        \/ lineL' /\ lineR' /\ past'.pulled = Up(past.pulled, ESTOP_DEBOUNCE_LIMIT)
    BY <1>1, <2>4, CycleParts, Observed
  <2>6. ASSUME ~past'.overflowed
        PROVE  /\ ~past.overflowed
               /\ ~(debounceL' < debounceL - 1 /\ stateL # "reset")
               /\ ~(debounceR' < debounceR - 1 /\ stateR # "reset")
    BY <1>1, <2>6, CycleParts, Observed
  <2>7. ASSUME ~past'.overflowed
        PROVE  Stopping(stateL', debounceL', past'.pulled)
    BY <1>1, <2>1, <2>5, <2>6, <2>7, CycleParts, StoppingStep DEF LeftMoves, StopInv
  <2>8. ASSUME ~past'.overflowed
        PROVE  Stopping(stateR', debounceR', past'.pulled)
    BY <1>1, <2>1, <2>5, <2>6, <2>8, CycleParts, StoppingStep DEF RightMoves, StopInv
  <2> QED
    BY <2>7, <2>8 DEF StopInv
<1>2. CASE newCMState
  BY <1>2, CommandParts DEF StopInv, boardL, boardR
<1>3. CASE InterruptL \/ InterruptR
  BY <1>3, InterruptParts DEF StopInv
<1>4. CASE UNCHANGED vars
  BY <1>4 DEF StopInv, vars, boardL, boardR
<1> QED
  BY <1>1, <1>2, <1>3, <1>4 DEF Next

(* A board's error, or the button's, over the line they share: when one    *)
(* board has pulled it for longer than the debounce, no board is powered.  *)
THEOREM LineStopsAll == Spec => []OneStopsAll
<1>1. Init => StopInv
  BY RobotConstants DEF Init, L!Init, R!Init, StopInv, Stopping
<1>2. RobotType /\ StopInv => OneStopsAll
  BY RobotConstants DEF RobotType, LP!Inv, LP!PoweredOnlyArmed, RP!Inv,
     RP!PoweredOnlyArmed, StopInv, Stopping, OneStopsAll, PastType
<1> QED
  BY <1>1, <1>2, StopStep, Typed, PTL DEF Spec
----------------------------------------------------------------------------
(* No run into an error.  RT Ops, once it has seen a board in error, does  *)
(* not send run; only the frame under way may still say it.                *)

DrivenInv == past.driven <= 1 /\ (past.driven = 1 => sending # "run")

(* What RT Ops sends after a cycle in which a board was in error.          *)
LEMMA ErrorSeen ==
  ASSUME RobotType, "error" \in {stateL, stateR}, RtOpsCycle({stateL, stateR})
  PROVE  sending' # "run"
<1>1. checkForNewErrors({stateL, stateR}) \in {"E_STOP", "RESET"}
  BY DEF checkForNewErrors
<1>2. \A state \in {"E_STOP", "RESET"} : calcState(state, {stateL, stateR})[1] # "run"
  BY DEF calcState
<1> QED
  BY <1>1, <1>2 DEF RtOpsCycle

(* Every step preserves what errors do to the frames.                      *)
LEMMA DrivenStep == ASSUME RobotType, DrivenInv, [Next]_vars PROVE DrivenInv'
<1>1. CASE Cycle
  <2>1. past.driven \in Nat
    BY DEF RobotType, PastType
  <2>2. past'.driven = IF "error" \notin {stateL, stateR} \/ command' # "run" THEN 0
                       ELSE IF counter' # counter THEN Up(past.driven, 1) ELSE past.driven
    BY <1>1, CycleParts, Observed
  <2>3. counter' # counter => command' = sending
    BY <1>1, CycleParts
  <2>4. "error" \in {stateL, stateR} => sending' # "run"
    BY <1>1, CycleParts, ErrorSeen
  <2> QED
    BY <2>1, <2>2, <2>3, <2>4 DEF DrivenInv, Up
<1>2. CASE newCMState
  BY <1>2, CommandParts DEF DrivenInv
<1>3. CASE InterruptL \/ InterruptR
  BY <1>3, InterruptParts DEF DrivenInv, rtOps
<1>4. CASE UNCHANGED vars
  BY <1>4 DEF DrivenInv, vars, rtOps
<1> QED
  BY <1>1, <1>2, <1>3, <1>4 DEF Next

(* On a board's error one frame at most still says run, whichever          *)
(* commands, resets and lost frames come between.                          *)
THEOREM ErrorEndsRun == Spec => []NoRunIntoError
<1>1. Init => DrivenInv
  BY DEF Init, DrivenInv
<1>2. DrivenInv => NoRunIntoError
  BY DEF DrivenInv, NoRunIntoError
<1> QED
  BY <1>1, <1>2, DrivenStep, Typed, PTL DEF Spec

----------------------------------------------------------------------------
(* The end of the power.  A board that halts was told so at most one frame *)
(* before its damping counter began to count.                              *)

Releasing(s, damping, unpowered) ==
  /\ s = "init" => unpowered = 0
  /\ s = "run"  => unpowered <= 1 /\ damping = 0
  /\ s = "halt" => damping \in 1 .. DampingLimit /\ unpowered <= damping + 1

ReleaseInv == /\ Releasing(stateL, dampingL, past.unpowered)
              /\ Releasing(stateR, dampingR, past.unpowered)

(* One board lets go of its motor, cycle by cycle.                         *)
LEMMA ReleasingStep ==
  ASSUME NEW cmd \in Commands, NEW line, NEW s, NEW t, NEW debounce, NEW debounced,
         NEW timeout, NEW timedout, NEW damping \in Nat, NEW damped \in Nat,
         NEW before \in Nat, NEW after \in Nat,
         Moves(cmd, line, s, t, debounce, debounced, timeout, timedout, damping, damped),
         Releasing(s, damping, before),
         after <= before + 1, cmd \in {"run", "reset"} => after = 0
  PROVE  Releasing(t, damped, after)
<1>1. t = "init" => after = 0
  BY DEF Moves
<1>2. t = "run" => after <= 1 /\ damped = 0
  BY DEF Moves, Releasing, Commands
<1>3. ASSUME t = "halt"
      PROVE  damped \in 1 .. DampingLimit /\ after <= damped + 1
  <2>1. /\ s \in {"run", "halt"} /\ damped = (damping + 1) % DampingModulus
        /\ damped <= DampingLimit
    BY <1>3 DEF Moves
  <2>2. damping + 1 < DampingModulus /\ before <= damping + 1
    BY <2>1, RobotConstants DEF Releasing
  <2>3. damped = damping + 1
    BY <2>1, <2>2, RobotConstants
  <2> QED
    BY <2>1, <2>2, <2>3, RobotConstants
<1> QED
  BY <1>1, <1>2, <1>3 DEF Releasing

(* Both do.                                                                *)
LEMMA ReleaseStep == ASSUME RobotType, ReleaseInv, [Next]_vars PROVE ReleaseInv'
<1>1. CASE Cycle
  <2>1. past.unpowered \in Nat /\ past'.unpowered \in Nat
    BY <1>1, TypeStep DEF Next, RobotType, PastType
  <2>2. /\ dampingL \in Nat /\ dampingL' \in Nat /\ dampingR \in Nat /\ dampingR' \in Nat
    BY <1>1, CycleParts, RobotConstants DEF RobotType, LP!Inv, LP!TypeOK, RP!Inv, RP!TypeOK
  <2>3. command' \in Commands
    BY <1>1 DEF Cycle, RobotType
  <2>4. past'.unpowered = IF command' \in {"run", "reset"} THEN 0
                          ELSE IF counter' # counter
                          THEN Up(past.unpowered, DampingLimit + 1) ELSE past.unpowered
    BY <1>1, CycleParts, Observed
  <2>5. past'.unpowered <= past.unpowered + 1
    BY <2>1, <2>4 DEF Up
  <2>6. Releasing(stateL', dampingL', past'.unpowered)
    BY <1>1, <2>1, <2>2, <2>3, <2>4, <2>5, CycleParts, ReleasingStep
    DEF LeftMoves, ReleaseInv
  <2>7. Releasing(stateR', dampingR', past'.unpowered)
    BY <1>1, <2>1, <2>2, <2>3, <2>4, <2>5, CycleParts, ReleasingStep
    DEF RightMoves, ReleaseInv
  <2> QED
    BY <2>6, <2>7 DEF ReleaseInv
<1>2. CASE newCMState
  BY <1>2, CommandParts DEF ReleaseInv, boardL, boardR
<1>3. CASE InterruptL \/ InterruptR
  BY <1>3, InterruptParts DEF ReleaseInv
<1>4. CASE UNCHANGED vars
  BY <1>4 DEF ReleaseInv, vars, boardL, boardR
<1> QED
  BY <1>1, <1>2, <1>3, <1>4 DEF Next

(* When RT Ops stops running the boards for any reason but a reset, their  *)
(* motors are let go within the cycles of the damping and one more.        *)
THEOREM MotorsLetGo == Spec => []PowerEnds
<1>1. Init => ReleaseInv
  BY DEF Init, L!Init, R!Init, ReleaseInv, Releasing
<1>2. RobotType /\ ReleaseInv => PowerEnds
  BY RobotConstants DEF RobotType, LP!Inv, LP!PoweredOnlyArmed, RP!Inv,
     RP!PoweredOnlyArmed, ReleaseInv, Releasing, PowerEnds, PastType
<1> QED
  BY <1>1, <1>2, ReleaseStep, Typed, PTL DEF Spec
----------------------------------------------------------------------------
(* A ripe reset.  In its first cycle the boards obey the command before    *)
(* it; the second cycle takes those in error to reset, the third to idle.  *)

Resetting(s, timeout, k) ==
  /\ s \in {"idle", "reset", "error"}
  /\ k <= 1 /\ s = "error" =>
       timeout \in ESTOP_TIMEOUT_LENGTH + k .. TimeoutModulus - 3 + k
  /\ k >= 2 => s # "error"
  /\ k >= 3 => s = "idle"

ResetInv ==
  /\ past.ripe /\ rtOpsState = "RESET" =>
       /\ Resetting(stateL, timeoutL, resetCounter)
       /\ Resetting(stateR, timeoutR, resetCounter)
       /\ sending # "run"
       /\ resetCounter >= 1 => sending = "reset"
  /\ RipeResetEndsIdle

(* One board follows a reset, cycle by cycle.                              *)
LEMMA ResettingStep ==
  ASSUME NEW cmd, NEW line, NEW s, NEW t, NEW debounce, NEW debounced,
         NEW timeout \in Nat, NEW timedout, NEW damping, NEW damped, NEW k \in Nat,
         Moves(cmd, line, s, t, debounce, debounced, timeout, timedout, damping, damped),
         Resetting(s, timeout, k), cmd # "run", k >= 1 => cmd = "reset"
  PROVE  Resetting(t, timedout, k + 1)
<1>1. CASE s \in {"idle", "reset"}
  BY <1>1 DEF Moves, Resetting
<1>2. CASE s = "error"
  <2>1. k <= 1
    BY <1>2 DEF Resetting
  <2>2. timeout \in ESTOP_TIMEOUT_LENGTH + k .. TimeoutModulus - 3 + k
    BY <1>2, <2>1 DEF Resetting
  <2>3. timedout = (timeout + 1) % TimeoutModulus
    BY <1>2 DEF Moves
  <2>4. timeout + 1 < TimeoutModulus
    BY <2>1, <2>2, RobotConstants
  <2>5. timedout = timeout + 1
    BY <2>3, <2>4, RobotConstants
  <2>6. timedout > ESTOP_TIMEOUT_LENGTH
    BY <2>2, <2>5, RobotConstants
  <2>7. t = IF cmd = "reset" THEN "reset" ELSE "error"
    BY <1>2, <2>6 DEF Moves
  <2> QED
    BY <2>1, <2>2, <2>5, <2>7, RobotConstants DEF Resetting
<1> QED
  BY <1>1, <1>2 DEF Resetting

(* RT Ops keeps the reset and counts its cycles until it is over.          *)
LEMMA ResetCycles ==
  ASSUME RobotType, RtOpsCycle({stateL, stateR}), rtOpsState = "RESET"
  PROVE  /\ sending' = "reset"
         /\ \/ ResetOver /\ rtOpsState' = "NO_CONTROLLER_LOADED" /\ resetCounter' = 0
            \/ ~ResetOver /\ rtOpsState' = "RESET" /\ resetCounter' = resetCounter + 1
BY DEF RtOpsCycle, checkForNewErrors, calcState

(* A cycle of RT Ops does not begin a reset.                               *)
LEMMA ResetNotBegun ==
  ASSUME RtOpsCycle({stateL, stateR}), rtOpsState # "RESET"
  PROVE  rtOpsState' # "RESET"
<1>1. checkForNewErrors({stateL, stateR}) # "RESET"
  BY DEF checkForNewErrors
<1>2. \A state : state # "RESET" => calcState(state, {stateL, stateR})[2] # "RESET"
  BY DEF calcState
<1> QED
  BY <1>1, <1>2 DEF RtOpsCycle

(* Both do.                                                                *)
LEMMA ResetStep == ASSUME RobotType, ResetInv, [Next]_vars PROVE ResetInv'
<1>1. CASE Cycle
  <2>1. past'.ripe = (past.ripe /\ counter' # counter)
    BY <1>1, CycleParts, Observed
  <2>2. past'.acked = (rtOpsState = "RESET" /\ rtOpsState' = "NO_CONTROLLER_LOADED")
    BY <1>1, CycleParts, Observed
  <2>3. CASE past.ripe /\ counter' # counter /\ rtOpsState = "RESET"
    <3>1. /\ Resetting(stateL, timeoutL, resetCounter)
          /\ Resetting(stateR, timeoutR, resetCounter)
          /\ command' # "run"
          /\ resetCounter >= 1 => command' = "reset"
      BY <1>1, <2>3, CycleParts DEF ResetInv
    <3>2. timeoutL \in Nat /\ timeoutR \in Nat /\ resetCounter \in Nat
      BY DEF RobotType, LP!Inv, LP!TypeOK, RP!Inv, RP!TypeOK
    <3>3. /\ Resetting(stateL', timeoutL', resetCounter + 1)
          /\ Resetting(stateR', timeoutR', resetCounter + 1)
      BY <1>1, <3>1, <3>2, CycleParts, ResettingStep DEF LeftMoves, RightMoves
    <3>4. CASE ResetOver
      <4>1. stateL' = "idle" /\ stateR' = "idle"
        BY <3>2, <3>3, <3>4, RobotConstants DEF ResetOver, Resetting
      <4> QED
        BY <1>1, <2>3, <3>4, <4>1, CycleParts, ResetCycles DEF ResetInv, RipeResetEndsIdle
    <3>5. CASE ~ResetOver
      BY <1>1, <2>2, <2>3, <3>3, <3>5, CycleParts, ResetCycles
      DEF ResetInv, RipeResetEndsIdle
    <3> QED
      BY <3>4, <3>5
  <2>4. CASE ~(past.ripe /\ counter' # counter)
    BY <2>1, <2>4 DEF ResetInv, RipeResetEndsIdle
  <2>5. CASE rtOpsState # "RESET"
    BY <1>1, <2>2, <2>5, CycleParts, ResetNotBegun DEF ResetInv, RipeResetEndsIdle
  <2> QED
    BY <2>3, <2>4, <2>5
<1>2. CASE newCMState
  <2>1. UNCHANGED <<stateL, timeoutL, stateR, timeoutR, resetCounter, sending>>
    BY <1>2 DEF newCMState, boardL, boardR
  <2>2. ~past'.acked
    BY <1>2, CommandParts
  <2>3. ASSUME past'.ripe, rtOpsState' = "RESET"
        PROVE  /\ Resetting(stateL, timeoutL, resetCounter)
               /\ Resetting(stateR, timeoutR, resetCounter)
               /\ sending # "run"
               /\ resetCounter >= 1 => sending = "reset"
    <3>1. CASE past.ripe /\ rtOpsState = "RESET"
      BY <3>1 DEF ResetInv
    <3>2. CASE /\ resetCounter = 0 /\ sending # "run"
               /\ Ripe(stateL, timeoutL) /\ Ripe(stateR, timeoutR)
      <4>1. /\ stateL \in {"idle", "init", "run", "halt", "error", "reset"}
            /\ stateR \in {"idle", "init", "run", "halt", "error", "reset"}
        BY DEF RobotType, LP!Inv, LP!TypeOK, LP!MedullaState, RP!Inv, RP!TypeOK,
           RP!MedullaState
      <4> QED
        BY <3>2, <4>1, RobotConstants DEF Ripe, Resetting
    <3> QED
      BY <1>2, <2>3, <3>1, <3>2, CommandParts
  <2> QED
    BY <2>1, <2>2, <2>3 DEF ResetInv, RipeResetEndsIdle
<1>3. CASE InterruptL \/ InterruptR
  BY <1>3, InterruptParts DEF ResetInv, RipeResetEndsIdle, rtOps
<1>4. CASE UNCHANGED vars
  BY <1>4 DEF ResetInv, RipeResetEndsIdle, vars, boardL, boardR, rtOps
<1> QED
  BY <1>1, <1>2, <1>3, <1>4 DEF Next

(* A ripe reset has taken the boards to idle when RT Ops acknowledges it,  *)
(* for any reset time of two cycles or more.                               *)
THEOREM RipeResetTakesHold == Spec => []RipeResetEndsIdle
<1>1. Init => ResetInv
  BY DEF Init, ResetInv, RipeResetEndsIdle
<1>2. ResetInv => RipeResetEndsIdle
  BY DEF ResetInv
<1> QED
  BY <1>1, <1>2, ResetStep, Typed, PTL DEF Spec
=============================================================================
