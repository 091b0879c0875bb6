-------------------------------- MODULE RtOps --------------------------------
(***************************************************************************)
(* RT Ops, the real-time half of the ATRIAS control system                 *)
(* (software/atrias_rt_ops).  Three threads run in it:                     *)
(*                                                                         *)
(*   ecat  the connector's EtherCAT thread, in RTOps::newStateCallback:    *)
(*         it checks each new robot state for Medulla errors, stores it    *)
(*         and wakes the controller loop;                                  *)
(*   loop  ControllerLoop::loop: run the controller, compute the Medulla   *)
(*         command with StateMachine::calcState, send the output;          *)
(*   cm    the component thread, in RTOps::updateHook: it carries out the  *)
(*         Controller Manager's commands with StateMachine::newCMState.    *)
(*                                                                         *)
(* They share currentState, the stored robot state, the controllerLoaded   *)
(* flag and the event port.  Each action is one critical section of the    *)
(* code (or one access to a volatile flag), so that a value read under a   *)
(* lock and used after the lock is released may be stale, as it is in the  *)
(* code.  The event port is an RTT data connection: it holds the last      *)
(* event only.                                                             *)
(***************************************************************************)
EXTENDS Integers

CONSTANTS
  Medullas,              \* the Medullas whose state the robot state reports
  HipMedullas,           \* the two hip Medullas among them
  Motors,                \* the motors the controller output has a current for
  MaxCurrent,            \* MAX_MTR_CURRENT_CMD, MAX_HIP_MTR_CURRENT_CMD
  NaN,                   \* a motor current that std::isfinite refuses
  MEDULLA_RESET_TIME_MS, \* how many loop cycles a reset lasts
  RobotStates,           \* the robot states the connector may deliver
  ControllerOutputs,     \* the outputs a controller may return
  CMCommands             \* the commands the Controller Manager may send

RtOpsState == {"NO_CONTROLLER_LOADED", "DISABLED", "ENABLED", "RESET",
               "E_STOP", "HALT"}

MedullaState == {"idle", "init", "run", "stop", "halt", "error", "reset"}

RtOpsEvent == {"NO_EVENT", "INVALID_CM_COMMAND", "MISSED_DEADLINE",
               "CM_COMMAND_ESTOP", "ACK_NO_CONTROLLER_LOADED", "ACK_DISABLE",
               "ACK_ENABLE", "ACK_RESET", "ACK_E_STOP", "ACK_HALT",
               "CONTROLLER_ESTOP", "MEDULLA_ESTOP", "SAFETY"}

(***************************************************************************)
(* What RT Ops looks at in a robot state: the state each Medulla reports,  *)
(* and whether the position checks of Safety::shouldHalt find a collision  *)
(* (FALSE when the safeties are disabled).                                 *)
(***************************************************************************)
RobotState == [medullaState : [Medullas -> MedullaState], collision : BOOLEAN]

ControllerOutput == [command : MedullaState,
                     current : [Motors -> Int \cup {NaN}]]

ASSUME RtOpsConstants ==
  /\ HipMedullas \subseteq Medullas
  /\ MaxCurrent \in Nat
  /\ NaN \notin Int
  /\ MEDULLA_RESET_TIME_MS \in Nat
  /\ RobotStates \subseteq RobotState
  /\ ControllerOutputs \subseteq ControllerOutput
  /\ CMCommands \subseteq RtOpsState \cup {"INVALID"}

VARIABLES
  currentState,      \* StateMachine::currentState
  resetCounter,      \* StateMachine::resetCounter
  robotState,        \* RobotStateHandler::robotState
  signal,            \* the semaphore ControllerLoop::signal
  done,              \* ControllerLoop::done
  controllerLoaded,  \* ControllerLoop::controllerLoaded
  controllerLock,    \* the holder of ControllerLoop::controllerLock
  connection,        \* the state of the OperationCaller runController
  eventOut,          \* the last event on rt_ops_event_out, if still unread
  ecatPc, newState,  \* the ecat thread and the robot state it handles
  loopPc, output,    \* the loop thread and its controllerOutput
  cmPc, command,     \* the component thread and the command it carries out
  sent               \* the output last handed to sendControllerOutput

smVars   == <<currentState, resetCounter>>
ctrlVars == <<controllerLoaded, controllerLock, connection>>
ecatVars == <<ecatPc, newState, robotState>>
loopVars == <<loopPc, output, sent>>
cmVars   == <<cmPc, command>>
wakeVars == <<signal, done>>
vars     == <<smVars, ctrlVars, ecatVars, loopVars, cmVars, wakeVars, eventOut>>

ZeroCurrent   == [m \in Motors |-> 0]
NoOutput      == [command |-> "idle", current |-> ZeroCurrent]
NoRobotState  == [medullaState |-> [m \in Medullas |-> "idle"],
                  collision |-> FALSE]

NoCommand     == "NO_CONTROLLER_LOADED"

(***************************************************************************)
(* The constructors.  StateMachine's calls setState while currentState is  *)
(* still uninitialised memory: when that memory happens to read as E_STOP  *)
(* the assignment is refused.                                              *)
(***************************************************************************)
Init ==
  /\ currentState \in {"NO_CONTROLLER_LOADED", "E_STOP"}
  /\ resetCounter = 0
  /\ robotState = NoRobotState
  /\ signal = 0
  /\ done = FALSE
  /\ controllerLoaded = FALSE
  /\ controllerLock = "free"
  /\ connection = "none"
  /\ eventOut = "NO_EVENT"
  /\ ecatPc = "idle" /\ newState = NoRobotState
  /\ loopPc = "start" /\ output = NoOutput /\ sent = NoOutput
  /\ cmPc = "idle" /\ command = NoCommand

----------------------------------------------------------------------------
(* Each definition named X_... before a definition X is X with a mistake   *)
(* put into it, which the properties must notice.                          *)

setState_NotLatched(new) == currentState' = new

(* StateMachine::setState: leaves E_STOP for RESET only.                   *)
setState(new) ==
  currentState' = IF currentState = "E_STOP" /\ new # "RESET"
                  THEN currentState ELSE new

(* OpsLogger::sendEvent.                                                   *)
sendEvent(e) == eventOut' = e

(* Safety::shouldHalt.  The hip Medullas are looked up in hipMedullaState, *)
(* a field nothing ever writes, so that their reports are not seen.        *)
shouldHalt ==
  \/ \E m \in Medullas \ HipMedullas : robotState.medullaState[m] = "halt"
  \/ robotState.collision

(* The condition of RobotStateHandler::checkForNewErrors.                  *)
reportsError(rs) == \E m \in Medullas : rs.medullaState[m] = "error"

isfinite_NotTested(out) == TRUE

isfinite(out) == \A m \in Motors : out.current[m] # NaN

(* The macro CLAMP.  Its comparisons are false of a NaN.                   *)
Clamp(x) == IF x = NaN THEN x
            ELSE IF x < -MaxCurrent THEN -MaxCurrent
            ELSE IF x > MaxCurrent THEN MaxCurrent ELSE x

(* clampControllerOutput, then no current at all unless the robot runs.    *)
outputToSend(out) ==
  [out EXCEPT !.current =
    IF out.command = "run" THEN [m \in Motors |-> Clamp(@[m])] ELSE ZeroCurrent]

----------------------------------------------------------------------------
(* The ecat thread: RTOps::newStateCallback.                               *)

(* A new robot state arrives; checkForNewErrors reads the RT Ops state and *)
(* decides whether to stop.                                                *)
CheckForNewErrors(rs) ==
  /\ ecatPc = "idle"
  /\ newState' = rs
  /\ ecatPc' = IF currentState \notin {"E_STOP", "RESET"} /\ reportsError(rs)
               THEN "eStop" ELSE "store"
  /\ UNCHANGED <<smVars, ctrlVars, robotState, loopVars, cmVars, wakeVars,
                 eventOut>>

MedullaEStop_OnlyReports ==
  /\ ecatPc = "eStop"
  /\ ecatPc' = "event"
  /\ UNCHANGED <<smVars, ctrlVars, newState, robotState, loopVars, cmVars,
                 wakeVars, eventOut>>

MedullaEStop ==
  /\ ecatPc = "eStop"
  /\ setState("E_STOP")
  /\ ecatPc' = "event"
  /\ UNCHANGED <<resetCounter, ctrlVars, newState, robotState, loopVars,
                 cmVars, wakeVars, eventOut>>

MedullaEStopEvent ==
  /\ ecatPc = "event"
  /\ sendEvent("MEDULLA_ESTOP")
  /\ ecatPc' = "store"
  /\ UNCHANGED <<smVars, ctrlVars, newState, robotState, loopVars, cmVars,
                 wakeVars>>

StoreRobotState ==
  /\ ecatPc = "store"
  /\ robotState' = newState
  /\ ecatPc' = "cycle"
  /\ UNCHANGED <<smVars, ctrlVars, newState, loopVars, cmVars, wakeVars,
                 eventOut>>

CycleLoop_NoSignal ==
  /\ ecatPc = "cycle"
  /\ ecatPc' = "idle" /\ newState' = NoRobotState
  /\ UNCHANGED <<smVars, ctrlVars, robotState, loopVars, cmVars, wakeVars,
                 eventOut>>

(* ControllerLoop::cycleLoop.                                              *)
CycleLoop ==
  /\ ecatPc = "cycle"
  /\ signal' = IF signal = 0 THEN 1 ELSE signal
  /\ ecatPc' = "idle" /\ newState' = NoRobotState
  /\ UNCHANGED <<smVars, ctrlVars, robotState, loopVars, cmVars, done,
                 eventOut>>

(* The connector's EtherCAT loop reports a missed deadline through         *)
(* RTOps::sendEvent, between two callbacks.                                *)
MissedDeadline ==
  /\ ecatPc = "idle"
  /\ sendEvent("MISSED_DEADLINE")
  /\ UNCHANGED <<smVars, ctrlVars, ecatVars, loopVars, cmVars, wakeVars>>

NewStateCallback ==
  \/ \E rs \in RobotStates : CheckForNewErrors(rs)
  \/ MedullaEStop \/ MedullaEStopEvent \/ StoreRobotState \/ CycleLoop

ECat == NewStateCallback \/ MissedDeadline

----------------------------------------------------------------------------
(* The loop thread: ControllerLoop::loop.                                  *)

(* The head of the while loop, then controllerLock and the test of         *)
(* controllerLoaded under it.  Without a controller the output is the      *)
(* message's default.                                                      *)
LoopBegin ==
  /\ loopPc = "start" /\ ~done
  /\ controllerLock = "free"
  /\ IF controllerLoaded
     THEN loopPc' = "controller" /\ controllerLock' = "loop"
     ELSE loopPc' = "calcState" /\ UNCHANGED controllerLock
  /\ output' = NoOutput
  /\ UNCHANGED <<smVars, controllerLoaded, connection, ecatVars, sent, cmVars,
                 wakeVars, eventOut>>

RunController_KeepsLock ==
  /\ loopPc = "controller"
  /\ output' \in IF connection = "ready" THEN ControllerOutputs ELSE {NoOutput}
  /\ loopPc' = "calcState"
  /\ UNCHANGED <<smVars, ctrlVars, ecatVars, sent, cmVars, wakeVars, eventOut>>

(* The controller runs, with controllerLock held; an OperationCaller that  *)
(* connected to nothing yields the default output.                         *)
RunController ==
  /\ loopPc = "controller"
  /\ output' \in IF connection = "ready" THEN ControllerOutputs ELSE {NoOutput}
  /\ controllerLock' = "free"
  /\ loopPc' = "calcState"
  /\ UNCHANGED <<smVars, controllerLoaded, connection, ecatVars, sent, cmVars,
                 wakeVars, eventOut>>

calcCommand_RunsDisabled(s) == CASE s = "E_STOP"   -> "error"
                                 [] s = "HALT"     -> "halt"
                                 [] s = "DISABLED" -> output.command
                                 [] OTHER          -> "idle"

(* The command in the states whose arm of calcState just returns one.      *)
calcCommand(s) == CASE s = "E_STOP" -> "error"
                    [] s = "HALT"   -> "halt"
                    [] OTHER        -> "idle"

(* Counting this cycle, the reset has lasted long enough.                  *)
ResetOver == resetCounter + 1 > MEDULLA_RESET_TIME_MS

(* StateMachine::calcState, up to the end of the switch arms that read the *)
(* state once; RESET and ENABLED go on in the actions below.               *)
CalcState ==
  /\ loopPc = "calcState"
  /\ \/ /\ currentState \in {"E_STOP", "NO_CONTROLLER_LOADED", "DISABLED", "HALT"}
        /\ output' = [output EXCEPT !.command = calcCommand(currentState)]
        /\ loopPc' = "send"
        /\ UNCHANGED resetCounter
     \/ /\ currentState = "RESET"
        /\ output' = [output EXCEPT !.command = "reset"]
        /\ IF ResetOver
           THEN resetCounter' = 0 /\ loopPc' = "resetDone"
           ELSE resetCounter' = resetCounter + 1 /\ loopPc' = "send"
     \/ /\ currentState = "ENABLED"
        /\ loopPc' = IF output.command = "error" THEN "controllerEStop"
                     ELSE "shouldEStop"
        /\ UNCHANGED <<output, resetCounter>>
  /\ UNCHANGED <<currentState, ctrlVars, ecatVars, sent, cmVars, wakeVars,
                 eventOut>>

ResetDone ==
  /\ loopPc = "resetDone"
  /\ setState("NO_CONTROLLER_LOADED")
  /\ loopPc' = "ackReset"
  /\ UNCHANGED <<resetCounter, ctrlVars, ecatVars, output, sent, cmVars,
                 wakeVars, eventOut>>

AckReset ==
  /\ loopPc = "ackReset"
  /\ sendEvent("ACK_RESET")
  /\ loopPc' = "send"
  /\ UNCHANGED <<smVars, ctrlVars, ecatVars, output, sent, cmVars, wakeVars>>

ControllerEStop ==
  /\ loopPc = "controllerEStop"
  /\ setState("E_STOP")
  /\ loopPc' = "controllerEStopEvent"
  /\ UNCHANGED <<resetCounter, ctrlVars, ecatVars, output, sent, cmVars,
                 wakeVars, eventOut>>

ControllerEStopEvent ==
  /\ loopPc = "controllerEStopEvent"
  /\ sendEvent("CONTROLLER_ESTOP")
  /\ loopPc' = "shouldEStop"
  /\ UNCHANGED <<smVars, ctrlVars, ecatVars, output, sent, cmVars, wakeVars>>

(* Safety::shouldEStop, which reads the state again.                       *)
ShouldEStop ==
  /\ loopPc = "shouldEStop"
  /\ loopPc' = IF ~isfinite(output) \/ currentState = "HALT"
               THEN "safetyEStop" ELSE "shouldHalt"
  /\ UNCHANGED <<smVars, ctrlVars, ecatVars, output, sent, cmVars, wakeVars,
                 eventOut>>

SafetyEStop ==
  /\ loopPc = "safetyEStop"
  /\ setState("E_STOP")
  /\ loopPc' = "safetyEStopEvent"
  /\ output' = [output EXCEPT !.command = "error"]
  /\ UNCHANGED <<resetCounter, ctrlVars, ecatVars, sent, cmVars, wakeVars,
                 eventOut>>

SafetyEStopEvent ==
  /\ loopPc = "safetyEStopEvent"
  /\ sendEvent("MEDULLA_ESTOP")
  /\ loopPc' = "send"
  /\ UNCHANGED <<smVars, ctrlVars, ecatVars, output, sent, cmVars, wakeVars>>

(* Safety::shouldHalt and its event.  The controller's own command goes    *)
(* out when there is no reason to halt.                                    *)
ShouldHalt ==
  /\ loopPc = "shouldHalt"
  /\ IF shouldHalt
     THEN loopPc' = "setHalt" /\ sendEvent("SAFETY")
     ELSE loopPc' = "send" /\ UNCHANGED eventOut
  /\ UNCHANGED <<smVars, ctrlVars, ecatVars, output, sent, cmVars, wakeVars>>

SetHalt ==
  /\ loopPc = "setHalt"
  /\ setState("HALT")
  /\ output' = [output EXCEPT !.command = "halt"]
  /\ loopPc' = "send"
  /\ UNCHANGED <<resetCounter, ctrlVars, ecatVars, sent, cmVars, wakeVars,
                 eventOut>>

SendOutput ==
  /\ loopPc = "send"
  /\ sent' = outputToSend(output)
  /\ output' = NoOutput
  /\ loopPc' = "wait"
  /\ UNCHANGED <<smVars, ctrlVars, ecatVars, cmVars, wakeVars, eventOut>>

(* signal.wait() at the end of the loop's body.                            *)
LoopWait ==
  /\ loopPc = "wait" /\ signal > 0
  /\ signal' = signal - 1
  /\ loopPc' = "start"
  /\ UNCHANGED <<smVars, ctrlVars, ecatVars, output, sent, cmVars, done,
                 eventOut>>

LoopExit ==
  /\ loopPc = "start" /\ done
  /\ loopPc' = "stopped"
  /\ UNCHANGED <<smVars, ctrlVars, ecatVars, output, sent, cmVars, wakeVars,
                 eventOut>>

Loop == \/ LoopBegin \/ RunController \/ CalcState \/ ResetDone \/ AckReset
        \/ ControllerEStop \/ ControllerEStopEvent \/ ShouldEStop
        \/ SafetyEStop \/ SafetyEStopEvent \/ ShouldHalt \/ SetHalt
        \/ SendOutput \/ LoopWait \/ LoopExit

----------------------------------------------------------------------------
(* The component thread: RTOps::updateHook and StateMachine::newCMState.   *)

(* A command is read from the port and the switch is entered.              *)
NewCMState(c) ==
  /\ cmPc = "idle" /\ ~done
  /\ command' = c
  /\ cmPc' = CASE c \in {"NO_CONTROLLER_LOADED", "RESET"} -> "unload"
               [] c = "DISABLED"                          -> "load"
               [] c = "ENABLED"                           -> "safety"
               [] c \in {"E_STOP", "INVALID"}             -> "eStop"
               [] c = "HALT"                              -> "set"
  /\ UNCHANGED <<smVars, ctrlVars, ecatVars, loopVars, wakeVars, eventOut>>

(* setControllerLoaded: connect, and only then raise the flag.  A failed   *)
(* connection is logged and otherwise ignored.                             *)
ConnectToController ==
  /\ cmPc = "load"
  /\ IF controllerLoaded
     THEN cmPc' = "set" /\ UNCHANGED connection
     ELSE cmPc' = "loaded" /\ connection' \in {"ready", "notReady"}
  /\ UNCHANGED <<smVars, controllerLoaded, controllerLock, ecatVars, loopVars,
                 command, wakeVars, eventOut>>

SetControllerLoaded ==
  /\ cmPc = "loaded"
  /\ controllerLoaded' = TRUE
  /\ cmPc' = "set"
  /\ UNCHANGED <<smVars, controllerLock, connection, ecatVars, loopVars,
                 command, wakeVars, eventOut>>

(* newCMState returns; its local variables are dead.                       *)
Return == cmPc' = "idle" /\ command' = NoCommand

(* An invalid command neither sets a state nor is acknowledged.            *)
AfterUnload == IF command = "INVALID" THEN Return
               ELSE cmPc' = "set" /\ UNCHANGED command

(* setControllerUnloaded: lower the flag, then wait for the lock.          *)
SetControllerUnloaded ==
  /\ cmPc = "unload"
  /\ controllerLoaded' = FALSE
  /\ IF controllerLoaded THEN cmPc' = "disconnect" /\ UNCHANGED command
     ELSE AfterUnload
  /\ UNCHANGED <<smVars, controllerLock, connection, ecatVars, loopVars,
                 wakeVars, eventOut>>

DisconnectController_NoWait ==
  /\ cmPc = "disconnect"
  /\ connection' = "none"
  /\ AfterUnload
  /\ UNCHANGED <<smVars, controllerLoaded, controllerLock, ecatVars, loopVars,
                 wakeVars, eventOut>>

DisconnectController ==
  /\ cmPc = "disconnect"
  /\ controllerLock = "free"
  /\ connection' = "none"
  /\ AfterUnload
  /\ UNCHANGED <<smVars, controllerLoaded, controllerLock, ecatVars, loopVars,
                 wakeVars, eventOut>>

(* ENABLED: refused, in favour of DISABLED, when the robot should halt.    *)
CheckSafety ==
  /\ cmPc = "safety"
  /\ IF shouldHalt
     THEN command' = "DISABLED" /\ sendEvent("SAFETY")
     ELSE UNCHANGED <<command, eventOut>>
  /\ cmPc' = "set"
  /\ UNCHANGED <<smVars, ctrlVars, ecatVars, loopVars, wakeVars>>

CommandEStop ==
  /\ cmPc = "eStop"
  /\ setState("E_STOP")
  /\ cmPc' = "eStopEvent"
  /\ UNCHANGED <<resetCounter, ctrlVars, ecatVars, loopVars, command, wakeVars,
                 eventOut>>

CommandEStopEvent ==
  /\ cmPc = "eStopEvent"
  /\ IF command = "INVALID"
     THEN sendEvent("INVALID_CM_COMMAND") /\ cmPc' = "unload"
     ELSE sendEvent("CM_COMMAND_ESTOP") /\ cmPc' = "set"
  /\ UNCHANGED <<smVars, ctrlVars, ecatVars, loopVars, command, wakeVars>>

SetCommandedState ==
  /\ cmPc = "set"
  /\ setState(command)
  /\ IF command = "RESET" THEN Return
     ELSE cmPc' = "ack" /\ UNCHANGED command
  /\ UNCHANGED <<resetCounter, ctrlVars, ecatVars, loopVars, wakeVars,
                 eventOut>>

(* StateMachine::ackCMState: the command is acknowledged whether or not    *)
(* setState accepted it.                                                   *)
ackCMState(s) == CASE s = "NO_CONTROLLER_LOADED" -> "ACK_NO_CONTROLLER_LOADED"
                   [] s = "DISABLED"             -> "ACK_DISABLE"
                   [] s = "ENABLED"              -> "ACK_ENABLE"
                   [] s = "E_STOP"               -> "ACK_E_STOP"
                   [] s = "HALT"                 -> "ACK_HALT"

AckCMState ==
  /\ cmPc = "ack"
  /\ sendEvent(ackCMState(command))
  /\ Return
  /\ UNCHANGED <<smVars, ctrlVars, ecatVars, loopVars, wakeVars>>

(* stopHook stops the loop: breakLoop sets done and signals.  It runs in   *)
(* the component thread, hence never inside newCMState.                    *)
StopHook ==
  /\ cmPc = "idle" /\ ~done
  /\ done' = TRUE
  /\ signal' = IF signal = 0 THEN 1 ELSE signal
  /\ UNCHANGED <<smVars, ctrlVars, ecatVars, loopVars, cmVars, eventOut>>

(* startHook starts it again: initialize clears done.                      *)
StartHook ==
  /\ done /\ loopPc = "stopped"
  /\ done' = FALSE
  /\ loopPc' = "start"
  /\ UNCHANGED <<smVars, ctrlVars, ecatVars, output, sent, cmVars, signal,
                 eventOut>>

CMSteps == \/ ConnectToController \/ SetControllerLoaded
           \/ SetControllerUnloaded \/ DisconnectController \/ CheckSafety
           \/ CommandEStop \/ CommandEStopEvent \/ SetCommandedState
           \/ AckCMState

Component == \/ \E c \in CMCommands : NewCMState(c)
             \/ CMSteps \/ StopHook \/ StartHook

----------------------------------------------------------------------------
(* The Controller Manager takes the pending event off the port.            *)
ReadEvent ==
  /\ eventOut # "NO_EVENT"
  /\ eventOut' = "NO_EVENT"
  /\ UNCHANGED <<smVars, ctrlVars, ecatVars, loopVars, cmVars, wakeVars>>

Next == ECat \/ Loop \/ Component \/ ReadEvent

Spec == Init /\ [][Next]_vars

----------------------------------------------------------------------------
(* Fairness: the connector's thread keeps running its loop, the controller *)
(* returns, and the component thread finishes the command it has started.  *)
(* Nothing obliges the Controller Manager to send a command.               *)
Fairness == /\ WF_vars(NewStateCallback)
            /\ WF_vars(Loop)
            /\ WF_vars(CMSteps)

FairSpec == Spec /\ Fairness

----------------------------------------------------------------------------
(* The variables keep their types; in particular the semaphore that paces  *)
(* the loop stays binary (cycleLoop) and resetCounter stays within the     *)
(* reset time (calcState).                                                 *)
TypeOK ==
  /\ currentState \in RtOpsState
  /\ resetCounter \in 0..MEDULLA_RESET_TIME_MS
  /\ robotState \in RobotState
  /\ signal \in {0, 1}
  /\ done \in BOOLEAN
  /\ controllerLoaded \in BOOLEAN
  /\ controllerLock \in {"free", "loop"}
  /\ connection \in {"none", "ready", "notReady"}
  /\ eventOut \in RtOpsEvent
  /\ ecatPc \in {"idle", "eStop", "event", "store", "cycle"}
  /\ newState \in RobotState
  /\ loopPc \in {"start", "controller", "calcState", "resetDone", "ackReset",
                 "controllerEStop", "controllerEStopEvent", "shouldEStop",
                 "safetyEStop", "safetyEStopEvent", "shouldHalt", "setHalt",
                 "send", "wait", "stopped"}
  /\ output \in ControllerOutput
  /\ cmPc \in {"idle", "load", "loaded", "unload", "disconnect", "safety",
               "eStop", "eStopEvent", "set", "ack"}
  /\ command \in RtOpsState \cup {"INVALID"}
  /\ sent \in ControllerOutput

(* The loop never calls into a controller that has been disconnected from  *)
(* RT Ops: setControllerUnloaded waits "until it is safe to unload the     *)
(* controller", although the loop tests controllerLoaded and calls the     *)
(* controller while the component thread may be unloading it.              *)
NoCallAfterDisconnect == loopPc = "controller" => connection # "none"

(* A run command never carries a current that is not finite or that        *)
(* exceeds the limit, and any other command carries no current: the test   *)
(* for NaN in shouldEStop, the clamp (which lets a NaN through) and the    *)
(* zeroing at the end of ControllerLoop::loop together leave no way out.   *)
SentCurrentsSafe ==
  \A m \in Motors :
     /\ sent.current[m] \in -MaxCurrent..MaxCurrent
     /\ sent.command # "run" => sent.current[m] = 0

(* E_STOP is left only when the component thread carries out the           *)
(* Controller Manager's RESET: setState refuses every other transition,    *)
(* "a potential race condition between an ESTOP and a controller manager   *)
(* command".                                                               *)
EStopLatched ==
  [][currentState = "E_STOP" /\ currentState' # "E_STOP"
       => cmPc = "set" /\ command = "RESET" /\ currentState' = "RESET"]_vars

----------------------------------------------------------------------------
(* A reset ends: RT Ops does not stay in RESET while its loop runs, since  *)
(* the connector keeps waking the loop (calcState, cycleLoop).             *)
ResetEnds == currentState = "RESET" ~> currentState # "RESET" \/ done

(* setControllerUnloaded gets past controllerLock: the flag it has lowered *)
(* keeps the loop from taking the lock for yet another controller run.     *)
UnloadCompletes == cmPc = "unload" ~> cmPc \in {"set", "idle"}

(* A Medulla error that checkForNewErrors acts on stops the robot: unless  *)
(* the loop is shut down or the Controller Manager resets, the error       *)
(* command reaches the connector.                                          *)
MedullaErrorStops ==
  ecatPc = "eStop" ~> sent.command = "error" \/ done
                      \/ (cmPc = "set" /\ command = "RESET")
                      \/ currentState = "RESET"

----------------------------------------------------------------------------
(* RT Ops implements the protocol the Controller Manager relies on.  Each  *)
(* thread's place is mapped to what it still owes the protocol.            *)
ProtocolLoop ==
  CASE loopPc \in {"resetDone", "ackReset"} -> loopPc
    [] loopPc \in {"controllerEStop", "shouldEStop", "safetyEStop",
                   "shouldHalt"}            -> "enabled"
    [] loopPc = "controllerEStopEvent"      -> "controllerEvent"
    [] loopPc = "safetyEStopEvent"          -> "safetyEvent"
    [] loopPc = "setHalt"                   -> "halt"
    [] OTHER                                -> "idle"

ProtocolCm ==
  CASE cmPc = "eStopEvent"                   -> "event"
    [] cmPc \in {"idle", "set", "ack"}       -> cmPc
    [] cmPc \in {"unload", "disconnect"} /\ command = "INVALID" -> "unload"
    [] OTHER                                 -> "busy"

Protocol == INSTANCE RtOpsProtocol WITH
  loaded   <- controllerLoaded,
  medullas <- (IF ecatPc \in {"eStop", "event"} THEN ecatPc ELSE "idle"),
  loop     <- ProtocolLoop,
  cm       <- ProtocolCm

(* The states RT Ops goes through and the events it sends, by whichever    *)
(* threads and in whatever interleaving, are those of RtOpsProtocol.       *)
ImplementsProtocol == Protocol!Spec
=============================================================================
