---------------------------- MODULE RtOps_proofs ----------------------------
(***************************************************************************)
(* Proofs about RT Ops: its type invariant, that no controller is called   *)
(* after it was disconnected, that only safe currents are sent, that       *)
(* E_STOP is left for RESET only, that it stops running in time, and that  *)
(* it implements RtOpsProtocol.  They hold for any number of Medullas and  *)
(* motors, any robot states, controller outputs and commands.              *)
(***************************************************************************)
EXTENDS RtOpsHistory, TLAPS

(***************************************************************************)
(* The inductive invariant.  CommandInv: what the component thread carries *)
(* out is a state once it is past the point where an invalid command turns *)
(* off, and RESET is not acknowledged there.  ConnectionInv: the lock is   *)
(* held exactly while the controller runs, and a controller that is        *)
(* loaded, about to be, or running is connected.  OutputInv: an output     *)
(* that is on its way out is finite or no run command.                     *)
(***************************************************************************)
CommandInv ==
  /\ cmPc \in {"load", "loaded", "safety", "set", "ack"} => command \in RtOpsState
  /\ cmPc = "ack" => command # "RESET"

ConnectionInv ==
  /\ loopPc = "controller" <=> controllerLock = "loop"
  /\ loopPc = "controller" => connection # "none"
  /\ controllerLoaded => connection # "none"
  /\ cmPc = "loaded" => connection # "none"
  /\ cmPc = "disconnect" => ~controllerLoaded

OutputInv ==
  /\ loopPc = "shouldHalt" => isfinite(output)
  /\ loopPc \in {"resetDone", "ackReset", "safetyEStopEvent"} => output.command # "run"
  /\ loopPc = "send" /\ output.command = "run" => isfinite(output)

Inv == TypeOK /\ CommandInv /\ ConnectionInv /\ OutputInv /\ SentCurrentsSafe

----------------------------------------------------------------------------
(* The messages' default values are values of their types.                 *)
LEMMA Defaults ==
  /\ NoOutput \in ControllerOutput
  /\ NoRobotState \in RobotState
  /\ NoCommand \in RtOpsState
BY DEF NoOutput, ControllerOutput, ZeroCurrent, NoRobotState, RobotState,
       MedullaState, NoCommand, RtOpsState

(* setState keeps currentState within its type.                            *)
LEMMA SetStateType ==
  ASSUME NEW new \in RtOpsState, currentState \in RtOpsState, setState(new)
  PROVE  currentState' \in RtOpsState
BY DEF setState

(* What is sent has the type of a controller output, once the currents of  *)
(* a run command are known to be finite or are cut off by the clamp.       *)
LEMMA OutputToSendType ==
  ASSUME NEW out \in ControllerOutput
  PROVE  outputToSend(out) \in ControllerOutput
<1>1. \A x \in Int \cup {NaN} : Clamp(x) \in Int \cup {NaN}
  BY RtOpsConstants DEF Clamp
<1>2. ZeroCurrent \in [Motors -> Int \cup {NaN}]
  BY DEF ZeroCurrent
<1>3. [m \in Motors |-> Clamp(out.current[m])] \in [Motors -> Int \cup {NaN}]
  BY <1>1 DEF ControllerOutput
<1> QED
  BY <1>2, <1>3 DEF outputToSend, ControllerOutput

----------------------------------------------------------------------------
(* Each thread's steps preserve the type invariant.                        *)
LEMMA ECatType == ASSUME TypeOK, ECat PROVE TypeOK'
<1>1. ASSUME NEW rs \in RobotStates, CheckForNewErrors(rs) PROVE TypeOK'
  BY <1>1, RtOpsConstants
  DEF TypeOK, CheckForNewErrors, smVars, ctrlVars, loopVars, cmVars, wakeVars
<1>2. CASE MedullaEStop
  BY <1>2, SetStateType
  DEF TypeOK, MedullaEStop, RtOpsState, ctrlVars, loopVars, cmVars, wakeVars
<1>3. CASE MedullaEStopEvent
  BY <1>3 DEF TypeOK, MedullaEStopEvent, sendEvent, RtOpsEvent, smVars,
              ctrlVars, loopVars, cmVars, wakeVars
<1>4. CASE StoreRobotState
  BY <1>4 DEF TypeOK, StoreRobotState, smVars, ctrlVars, loopVars, cmVars,
              wakeVars
<1>5. CASE CycleLoop
  BY <1>5, Defaults DEF TypeOK, CycleLoop, smVars, ctrlVars, loopVars, cmVars
<1>6. CASE MissedDeadline
  BY <1>6 DEF TypeOK, MissedDeadline, sendEvent, RtOpsEvent, smVars, ctrlVars,
              ecatVars, loopVars, cmVars, wakeVars
<1> QED
  BY <1>1, <1>2, <1>3, <1>4, <1>5, <1>6 DEF ECat, NewStateCallback

(* The steps of ControllerLoop::loop keep the types; calcState's counter   *)
(* stays within the reset time.                                            *)
LEMMA LoopType == ASSUME TypeOK, Loop PROVE TypeOK'
<1> USE DEF TypeOK, ctrlVars, ecatVars, cmVars
<1>1. CASE LoopBegin
  BY <1>1, Defaults DEF LoopBegin, smVars, wakeVars
<1>2. CASE RunController
  BY <1>2, Defaults, RtOpsConstants DEF RunController, smVars, wakeVars
<1>3. CASE CalcState
  <2>1. output' \in ControllerOutput
    BY <1>3 DEF CalcState, ResetOver, calcCommand, ControllerOutput, MedullaState
  <2>2. resetCounter' \in 0..MEDULLA_RESET_TIME_MS
    BY <1>3, RtOpsConstants DEF CalcState, ResetOver
  <2> QED
    BY <1>3, <2>1, <2>2 DEF CalcState, ResetOver, wakeVars
<1>4. CASE ResetDone
  BY <1>4, SetStateType DEF ResetDone, RtOpsState, wakeVars
<1>5. CASE AckReset
  BY <1>5 DEF AckReset, sendEvent, RtOpsEvent, smVars, wakeVars
<1>6. CASE ControllerEStop
  BY <1>6, SetStateType DEF ControllerEStop, RtOpsState, wakeVars
<1>7. CASE ControllerEStopEvent
  BY <1>7 DEF ControllerEStopEvent, sendEvent, RtOpsEvent, smVars, wakeVars
<1>8. CASE ShouldEStop
  BY <1>8 DEF ShouldEStop, smVars, wakeVars
<1>9. CASE SafetyEStop
  <2>1. output' \in ControllerOutput
    BY <1>9 DEF SafetyEStop, ControllerOutput, MedullaState
  <2> QED
    BY <1>9, <2>1, SetStateType DEF SafetyEStop, RtOpsState, wakeVars
<1>10. CASE SafetyEStopEvent
  BY <1>10 DEF SafetyEStopEvent, sendEvent, RtOpsEvent, smVars, wakeVars
<1>11. CASE ShouldHalt
  BY <1>11 DEF ShouldHalt, sendEvent, RtOpsEvent, smVars, wakeVars
<1>12. CASE SetHalt
  <2>1. output' \in ControllerOutput
    BY <1>12 DEF SetHalt, ControllerOutput, MedullaState
  <2> QED
    BY <1>12, <2>1, SetStateType DEF SetHalt, RtOpsState, wakeVars
<1>13. CASE SendOutput
  BY <1>13, Defaults, OutputToSendType DEF SendOutput, smVars, wakeVars
<1>14. CASE LoopWait
  BY <1>14 DEF LoopWait, smVars
<1>15. CASE LoopExit
  BY <1>15 DEF LoopExit, smVars, wakeVars
<1> QED
  BY <1>1, <1>2, <1>3, <1>4, <1>5, <1>6, <1>7, <1>8, <1>9, <1>10, <1>11,
     <1>12, <1>13, <1>14, <1>15 DEF Loop

(* So do the steps of RTOps::updateHook, stopHook and startHook.           *)
LEMMA ComponentType == ASSUME TypeOK, CommandInv, Component PROVE TypeOK'
<1> USE DEF TypeOK, ctrlVars, ecatVars, loopVars
<1>1. ASSUME NEW c \in CMCommands, NewCMState(c) PROVE TypeOK'
  BY <1>1, RtOpsConstants DEF NewCMState, RtOpsState, smVars, wakeVars
<1>2. CASE ConnectToController
  BY <1>2 DEF ConnectToController, smVars, wakeVars
<1>3. CASE SetControllerLoaded
  BY <1>3 DEF SetControllerLoaded, smVars, wakeVars
<1>4. CASE SetControllerUnloaded
  <2>1. /\ cmPc' \in {"disconnect", "idle", "set"}
        /\ command' \in {command, NoCommand}
    BY <1>4 DEF SetControllerUnloaded, AfterUnload, Return
  <2>2. /\ controllerLoaded' \in BOOLEAN
        /\ UNCHANGED <<smVars, controllerLock, connection, ecatVars, loopVars,
                       wakeVars, eventOut>>
    BY <1>4 DEF SetControllerUnloaded
  <2> QED
    BY <2>1, <2>2, Defaults DEF smVars, wakeVars
<1>5. CASE DisconnectController
  BY <1>5, Defaults DEF DisconnectController, AfterUnload, Return, smVars, wakeVars
<1>6. CASE CheckSafety
  BY <1>6 DEF CheckSafety, sendEvent, RtOpsEvent, RtOpsState, smVars, wakeVars
<1>7. CASE CommandEStop
  BY <1>7, SetStateType DEF CommandEStop, RtOpsState, wakeVars
<1>8. CASE CommandEStopEvent
  BY <1>8 DEF CommandEStopEvent, sendEvent, RtOpsEvent, smVars, wakeVars
<1>9. CASE SetCommandedState
  BY <1>9, Defaults, SetStateType
  DEF CommandInv, SetCommandedState, Return, wakeVars
<1>10. CASE AckCMState
  <2>1. ackCMState(command) \in RtOpsEvent
    BY <1>10 DEF CommandInv, AckCMState, ackCMState, RtOpsState, RtOpsEvent
  <2> QED
    BY <1>10, <2>1, Defaults DEF AckCMState, sendEvent, Return, smVars, wakeVars
<1>11. CASE StopHook
  BY <1>11 DEF StopHook, smVars, cmVars
<1>12. CASE StartHook
  BY <1>12, ZenonT(30) DEF StartHook, smVars, cmVars
<1> QED
  BY <1>1, <1>2, <1>3, <1>4, <1>5, <1>6, <1>7, <1>8, <1>9, <1>10, <1>11, <1>12
  DEF Component, CMSteps

(* Every step of RT Ops preserves the type invariant.                      *)
LEMMA TypeStep == ASSUME Inv, [Next]_vars PROVE TypeOK'
<1>1. CASE ReadEvent
  BY <1>1 DEF Inv, TypeOK, ReadEvent, RtOpsEvent, smVars, ctrlVars, ecatVars,
              loopVars, cmVars, wakeVars
<1>2. CASE UNCHANGED vars
  BY <1>2 DEF Inv, TypeOK, vars, smVars, ctrlVars, ecatVars, loopVars, cmVars,
              wakeVars
<1> QED
  BY <1>1, <1>2, ECatType, LoopType, ComponentType DEF Inv, Next

----------------------------------------------------------------------------
(* The steps that touch none of the variables an invariant is about.       *)
LEMMA CommandStep == ASSUME Inv, [Next]_vars PROVE CommandInv'
<1> USE DEF Inv, CommandInv
<1>1. CASE ECat \/ Loop \/ ReadEvent \/ UNCHANGED vars
  <2>1. UNCHANGED cmVars
    BY <1>1 DEF ECat, NewStateCallback, CheckForNewErrors, MedullaEStop,
      MedullaEStopEvent, StoreRobotState, CycleLoop, MissedDeadline, Loop,
      LoopBegin, RunController, CalcState, ResetOver, ResetDone, AckReset,
      ControllerEStop, ControllerEStopEvent, ShouldEStop, SafetyEStop,
      SafetyEStopEvent, ShouldHalt, SetHalt, SendOutput, LoopWait, LoopExit,
      ReadEvent, vars
  <2> QED
    BY <2>1 DEF cmVars
<1>2. CASE Component
  <2>1. ASSUME NEW c \in CMCommands, NewCMState(c) PROVE CommandInv'
    BY <2>1, RtOpsConstants DEF NewCMState, RtOpsState
  <2>2. CASE ConnectToController \/ SetControllerLoaded
    BY <2>2 DEF ConnectToController, SetControllerLoaded
  <2>3. CASE SetControllerUnloaded \/ DisconnectController
    BY <2>3 DEF SetControllerUnloaded, DisconnectController, AfterUnload,
                Return, TypeOK
  <2>4. CASE CheckSafety
    BY <2>4 DEF CheckSafety, RtOpsState
  <2>5. CASE CommandEStop \/ CommandEStopEvent
    BY <2>5 DEF CommandEStop, CommandEStopEvent, TypeOK
  <2>6. CASE SetCommandedState \/ AckCMState
    BY <2>6 DEF SetCommandedState, AckCMState, Return
  <2>7. CASE StopHook \/ StartHook
    BY <2>7 DEF StopHook, StartHook, cmVars
  <2> QED
    BY <1>2, <2>1, <2>2, <2>3, <2>4, <2>5, <2>6, <2>7 DEF Component, CMSteps
<1> QED
  BY <1>1, <1>2 DEF Next

(* controllerLock keeps disconnectController out while the controller      *)
(* runs, and the flag is raised only after connectToController.            *)
LEMMA ConnectionStep == ASSUME Inv, [Next]_vars PROVE ConnectionInv'
<1> USE DEF Inv, ConnectionInv
<1>1. CASE ECat \/ ReadEvent \/ UNCHANGED vars
  <2>1. UNCHANGED <<ctrlVars, loopPc, cmPc>>
    BY <1>1 DEF ECat, NewStateCallback, CheckForNewErrors, MedullaEStop,
      MedullaEStopEvent, StoreRobotState, CycleLoop, MissedDeadline,
      ReadEvent, vars, loopVars, cmVars
  <2> QED
    BY <2>1 DEF ctrlVars
<1>2. CASE Loop
  <2>1. CASE LoopBegin
    BY <2>1 DEF LoopBegin, cmVars, TypeOK
  <2>2. CASE RunController
    BY <2>2 DEF RunController, cmVars
  <2>3. CASE Loop /\ ~LoopBegin /\ ~RunController
    <3>1. /\ UNCHANGED <<ctrlVars, cmPc>>
          /\ loopPc # "controller" /\ loopPc' # "controller"
      BY <2>3 DEF Loop, CalcState, ResetOver, ResetDone, AckReset, ControllerEStop,
        ControllerEStopEvent, ShouldEStop, SafetyEStop, SafetyEStopEvent,
        ShouldHalt, SetHalt, SendOutput, LoopWait, LoopExit, cmVars
    <3> QED
      BY <3>1 DEF ctrlVars
  <2> QED
    BY <1>2, <2>1, <2>2, <2>3
<1>3. CASE Component
  <2>1. ASSUME NEW c \in CMCommands, NewCMState(c) PROVE ConnectionInv'
    BY <2>1, RtOpsConstants DEF NewCMState, ctrlVars, loopVars, RtOpsState
  <2>2. CASE ConnectToController
    BY <2>2 DEF ConnectToController, loopVars, TypeOK
  <2>3. CASE SetControllerLoaded
    BY <2>3 DEF SetControllerLoaded, loopVars
  <2>4. CASE SetControllerUnloaded
    <3>1. cmPc' \in {"disconnect", "idle", "set"}
      BY <2>4 DEF SetControllerUnloaded, AfterUnload, Return
    <3>2. ~controllerLoaded' /\ UNCHANGED <<controllerLock, connection, loopPc>>
      BY <2>4 DEF SetControllerUnloaded, loopVars
    <3> QED
      BY <3>1, <3>2
  <2>5. CASE DisconnectController
    BY <2>5 DEF DisconnectController, AfterUnload, Return, loopVars
  <2>6. CASE CheckSafety \/ CommandEStop \/ CommandEStopEvent
             \/ SetCommandedState \/ AckCMState \/ StopHook
    <3>1. UNCHANGED <<ctrlVars, loopPc>> /\ cmPc' \notin {"loaded", "disconnect"}
      BY <2>6 DEF CheckSafety, CommandEStop, CommandEStopEvent,
        SetCommandedState, AckCMState, StopHook, Return, loopVars, cmVars
    <3> QED
      BY <3>1 DEF ctrlVars
  <2>7. CASE StartHook
    BY <2>7 DEF StartHook, ctrlVars, cmVars
  <2> QED
    BY <1>3, <2>1, <2>2, <2>3, <2>4, <2>5, <2>6, <2>7 DEF Component, CMSteps
<1> QED
  BY <1>1, <1>2, <1>3 DEF Next

----------------------------------------------------------------------------
(* Outside its loop nothing touches the output; within it, a run command   *)
(* comes to be sent only by way of ShouldHalt, after the test for NaN.     *)
LEMMA OutputStep == ASSUME Inv, [Next]_vars PROVE OutputInv'
<1> USE DEF Inv, OutputInv
<1>1. CASE ECat \/ (Component /\ ~StartHook) \/ ReadEvent \/ UNCHANGED vars
  <2>1. UNCHANGED <<loopPc, output>>
    BY <1>1 DEF ECat, NewStateCallback, CheckForNewErrors, MedullaEStop,
      MedullaEStopEvent, StoreRobotState, CycleLoop, MissedDeadline,
      ReadEvent, vars, loopVars, Component, NewCMState, CMSteps,
      ConnectToController, SetControllerLoaded, SetControllerUnloaded,
      DisconnectController, CheckSafety, CommandEStop, CommandEStopEvent,
      SetCommandedState, AckCMState, StopHook
  <2> QED
    BY <2>1 DEF isfinite
<1>2. CASE StartHook
  BY <1>2 DEF StartHook
<1>3. CASE Loop
  <2>1. CASE LoopBegin \/ RunController \/ SendOutput \/ LoopWait \/ LoopExit
             \/ ControllerEStop \/ ControllerEStopEvent
    BY <2>1 DEF LoopBegin, RunController, SendOutput, LoopWait, LoopExit,
                ControllerEStop, ControllerEStopEvent
  <2>2. CASE CalcState
    BY <2>2 DEF CalcState, ResetOver, calcCommand, TypeOK, ControllerOutput
  <2>3. CASE ResetDone \/ AckReset \/ SafetyEStopEvent
    BY <2>3 DEF ResetDone, AckReset, SafetyEStopEvent
  <2>4. CASE ShouldEStop
    BY <2>4 DEF ShouldEStop, isfinite
  <2>5. CASE SafetyEStop \/ SetHalt
    BY <2>5 DEF SafetyEStop, SetHalt, TypeOK, ControllerOutput
  <2>6. CASE ShouldHalt
    BY <2>6 DEF ShouldHalt, isfinite
  <2> QED
    BY <1>3, <2>1, <2>2, <2>3, <2>4, <2>5, <2>6 DEF Loop
<1> QED
  BY <1>1, <1>2, <1>3 DEF Next

(* What SendOutput hands over is safe.                                     *)
LEMMA OutputToSendSafe ==
  ASSUME NEW out \in ControllerOutput, out.command = "run" => isfinite(out),
         NEW m \in Motors
  PROVE  /\ outputToSend(out).current[m] \in -MaxCurrent..MaxCurrent
         /\ outputToSend(out).command # "run" => outputToSend(out).current[m] = 0
<1>1. \A x \in Int : Clamp(x) \in -MaxCurrent..MaxCurrent
  BY RtOpsConstants DEF Clamp
<1>2. out.command = "run" => out.current[m] \in Int
  BY DEF isfinite, ControllerOutput
<1>3. outputToSend(out).command = out.command
  BY DEF outputToSend, ControllerOutput
<1>4. outputToSend(out).current[m] =
        IF out.command = "run" THEN Clamp(out.current[m]) ELSE 0
  BY DEF outputToSend, ControllerOutput, ZeroCurrent
<1> QED
  BY <1>1, <1>2, <1>3, <1>4, RtOpsConstants

(* What was handed to sendControllerOutput stays safe from step to step.   *)
LEMMA SentStep == ASSUME Inv, [Next]_vars PROVE SentCurrentsSafe'
<1> USE DEF Inv
<1>1. CASE SendOutput
  BY <1>1, OutputToSendSafe DEF SendOutput, SentCurrentsSafe, OutputInv, TypeOK
<1>2. CASE ~SendOutput
  <2>1. sent' = sent
    BY <1>2 DEF Next, ECat, NewStateCallback, CheckForNewErrors, MedullaEStop,
      MedullaEStopEvent, StoreRobotState, CycleLoop, MissedDeadline, Loop,
      LoopBegin, RunController, CalcState, ResetOver, ResetDone, AckReset,
      ControllerEStop, ControllerEStopEvent, ShouldEStop, SafetyEStop,
      SafetyEStopEvent, ShouldHalt, SetHalt, LoopWait, LoopExit,
      Component, NewCMState, CMSteps, ConnectToController,
      SetControllerLoaded, SetControllerUnloaded, DisconnectController,
      CheckSafety, CommandEStop, CommandEStopEvent, SetCommandedState,
      AckCMState, StopHook, StartHook, ReadEvent, vars, loopVars
  <2> QED
    BY <2>1 DEF SentCurrentsSafe
<1> QED
  BY <1>1, <1>2

----------------------------------------------------------------------------
(* The constructors establish the inductive invariant.                     *)
LEMMA InitInv == ASSUME Init PROVE Inv
<1>1. TypeOK
  <2>1. resetCounter \in 0..MEDULLA_RESET_TIME_MS
    BY RtOpsConstants DEF Init
  <2>2. /\ robotState \in RobotState /\ newState \in RobotState
        /\ output \in ControllerOutput /\ sent \in ControllerOutput
        /\ command \in RtOpsState
    BY Defaults DEF Init
  <2>3. currentState \in RtOpsState /\ eventOut \in RtOpsEvent
    BY DEF Init, RtOpsState, RtOpsEvent
  <2> QED
    BY <2>1, <2>2, <2>3 DEF Init, TypeOK
<1>2. CommandInv /\ ConnectionInv /\ OutputInv
  BY DEF Init, CommandInv, ConnectionInv, OutputInv
<1>3. SentCurrentsSafe
  BY RtOpsConstants DEF Init, SentCurrentsSafe, NoOutput, ZeroCurrent
<1> QED
  BY <1>1, <1>2, <1>3 DEF Inv

(* The inductive invariant of RT Ops' three threads, from which the        *)
(* theorems below follow.                                                  *)
THEOREM Invariance == Spec => []Inv
<1>1. Init => Inv
  BY InitInv
<1>2. Inv /\ [Next]_vars => Inv'
  BY TypeStep, CommandStep, ConnectionStep, OutputStep, SentStep DEF Inv
<1> QED
  BY <1>1, <1>2, PTL DEF Spec

(* The type invariant of RT Ops, with its binary semaphore and its bounded *)
(* reset counter.                                                          *)
THEOREM TypeCorrect == Spec => []TypeOK
<1>1. Inv => TypeOK
  BY DEF Inv
<1> QED
  BY <1>1, Invariance, PTL

(* The controller loop never calls a controller that setControllerUnloaded *)
(* has disconnected, although it holds no reference to the connection.     *)
THEOREM DisconnectSafe == Spec => []NoCallAfterDisconnect
<1>1. Inv => NoCallAfterDisconnect
  BY DEF Inv, ConnectionInv, NoCallAfterDisconnect
<1> QED
  BY <1>1, Invariance, PTL

(* Whatever a controller returns, ControllerLoop::loop sends only finite   *)
(* currents within the limit, and none unless the command is run.          *)
THEOREM CurrentsSafe == Spec => []SentCurrentsSafe
<1>1. Inv => SentCurrentsSafe
  BY DEF Inv
<1> QED
  BY <1>1, Invariance, PTL

(* Only the component thread, carrying out RESET, takes RT Ops out of      *)
(* E_STOP.                                                                 *)
THEOREM EStopLatches == Spec => EStopLatched
<1> DEFINE Latched == currentState = "E_STOP" /\ currentState' # "E_STOP"
              => cmPc = "set" /\ command = "RESET" /\ currentState' = "RESET"
<1>1. ASSUME [Next]_vars PROVE Latched
  <2>1. CASE SetCommandedState
    BY <2>1 DEF SetCommandedState, setState
  <2>2. CASE MedullaEStop \/ ResetDone \/ ControllerEStop \/ SafetyEStop
             \/ SetHalt \/ CommandEStop
    BY <2>2 DEF MedullaEStop, ResetDone, ControllerEStop, SafetyEStop, SetHalt,
                CommandEStop, setState
  <2>3. CASE ~SetCommandedState /\ ~(MedullaEStop \/ ResetDone
             \/ ControllerEStop \/ SafetyEStop \/ SetHalt \/ CommandEStop)
    <3>1. currentState' = currentState
      BY <1>1, <2>3 DEF Next, ECat, NewStateCallback, CheckForNewErrors,
        MedullaEStopEvent, StoreRobotState, CycleLoop, MissedDeadline, Loop,
        LoopBegin, RunController, CalcState, ResetOver, AckReset, ControllerEStopEvent,
        ShouldEStop, SafetyEStopEvent, ShouldHalt, SendOutput, LoopWait,
        LoopExit, Component, NewCMState, CMSteps, ConnectToController,
        SetControllerLoaded, SetControllerUnloaded, DisconnectController,
        CheckSafety, CommandEStopEvent, AckCMState, StopHook, StartHook,
        ReadEvent, vars, smVars
    <3> QED
      BY <3>1
  <2> QED
    BY <2>1, <2>2, <2>3
<1>2. [Next]_vars => [Latched]_vars
  BY <1>1
<1> QED
  BY <1>2, PTL DEF Spec, EStopLatched

-----------------------------------------------------------------------------
(***************************************************************************)
(* At most one run command after RT Ops has left ENABLED or was told to    *)
(* halt, for any number of Medullas and motors, any robot states, outputs  *)
(* and commands.                                                           *)
(***************************************************************************)

(* A run command is on its way out: it only has to be sent.                *)
RunReady == loopPc = "send" /\ output.command = "run"

(* The loop has seen ENABLED in this cycle and may still send run.         *)
MayRun == \/ loopPc \in {"controllerEStop", "controllerEStopEvent",
                         "shouldEStop", "shouldHalt"}
          \/ RunReady

(***************************************************************************)
(* The inductive invariant: once RT Ops is not ENABLED, the run commands   *)
(* sent and the one the loop may still send are one at most; and likewise  *)
(* for a stored robot state to halt on, which lets no new run command      *)
(* through shouldHalt.                                                     *)
(***************************************************************************)
HistInv ==
  /\ runsSinceStop \in 0..2 /\ runsOnHalt \in 0..1
  /\ currentState # "ENABLED" =>
       runsSinceStop <= 1 /\ (MayRun => runsSinceStop = 0)
  /\ shouldHalt /\ RunReady => runsOnHalt = 0

----------------------------------------------------------------------------
(* A cycle comes to send run only out of ENABLED, and only past a          *)
(* shouldHalt that had no objection; sending it ends the cycle.            *)
LEMMA RunOrigin ==
  ASSUME Inv, [Next]_vars
  PROVE  /\ currentState # "ENABLED" /\ MayRun' => MayRun /\ ~SendsRun
         /\ shouldHalt /\ RunReady' => RunReady /\ ~SendsRun
<1> USE DEF Inv, MayRun, RunReady, SendsRun
<1>1. CASE ECat \/ (Component /\ ~StartHook) \/ ReadEvent \/ UNCHANGED vars
  <2>1. UNCHANGED <<loopPc, output>>
    BY <1>1 DEF ECat, NewStateCallback, CheckForNewErrors, MedullaEStop,
      MedullaEStopEvent, StoreRobotState, CycleLoop, MissedDeadline,
      ReadEvent, vars, loopVars, Component, NewCMState, CMSteps,
      ConnectToController, SetControllerLoaded, SetControllerUnloaded,
      DisconnectController, CheckSafety, CommandEStop, CommandEStopEvent,
      SetCommandedState, AckCMState, StopHook
  <2> QED
    BY <2>1
<1>2. CASE StartHook
  BY <1>2 DEF StartHook
<1>3. CASE Loop
  <2>1. CASE LoopBegin \/ RunController \/ SendOutput \/ LoopWait \/ LoopExit
    BY <2>1 DEF LoopBegin, RunController, SendOutput, LoopWait, LoopExit
  <2>2. CASE CalcState
    BY <2>2 DEF CalcState, calcCommand, TypeOK, ControllerOutput
  <2>3. CASE ResetDone \/ AckReset \/ SafetyEStopEvent
    BY <2>3 DEF ResetDone, AckReset, SafetyEStopEvent, OutputInv
  <2>4. CASE ControllerEStop \/ ControllerEStopEvent \/ ShouldEStop
    BY <2>4 DEF ControllerEStop, ControllerEStopEvent, ShouldEStop
  <2>5. CASE SafetyEStop \/ SetHalt
    BY <2>5 DEF SafetyEStop, SetHalt, TypeOK, ControllerOutput
  <2>6. CASE ShouldHalt
    BY <2>6 DEF ShouldHalt
  <2> QED
    BY <1>3, <2>1, <2>2, <2>3, <2>4, <2>5, <2>6 DEF Loop
<1> QED
  BY <1>1, <1>2, <1>3 DEF Next

(* The counters follow: a step preserves the invariant.                    *)
LEMMA HistStep == ASSUME Inv, HistInv, [NextH]_varsH PROVE HistInv'
<1>1. CASE NextH
  <2>1. [Next]_vars
    BY <1>1 DEF NextH
  <2>2. /\ currentState # "ENABLED" /\ MayRun' => MayRun /\ ~SendsRun
        /\ shouldHalt /\ RunReady' => RunReady /\ ~SendsRun
    BY <2>1, RunOrigin
  <2>3. SendsRun => MayRun /\ RunReady
    BY DEF SendsRun, MayRun, RunReady
  <2>4. \A n \in 0..2 : /\ Count(n) \in 0..2
                        /\ ~SendsRun => Count(n) = n
                        /\ n = 0 => Count(n) <= 1
    BY DEF Count
  <2>5. /\ runsSinceStop' = IF currentState = "ENABLED" THEN 0
                            ELSE Count(runsSinceStop)
        /\ runsOnHalt' = IF shouldHalt THEN Count(runsOnHalt) ELSE 0
    BY <1>1 DEF NextH
  <2>6. runsSinceStop' \in 0..2
    BY <2>4, <2>5 DEF HistInv
  <2>7. \/ runsSinceStop' <= 1 /\ (MayRun' => runsSinceStop' = 0)
        \/ currentState' = "ENABLED"
    BY <2>2, <2>3, <2>4, <2>5 DEF HistInv
  <2>8. CASE ~shouldHalt
    BY <2>5, <2>6, <2>7, <2>8 DEF HistInv
  <2>9. CASE shouldHalt
    <3>1. CASE SendsRun
      BY <2>2, <2>3, <2>4, <2>5, <2>6, <2>7, <2>9, <3>1 DEF HistInv
    <3>2. CASE ~SendsRun
      BY <2>2, <2>4, <2>5, <2>6, <2>7, <2>9, <3>2 DEF HistInv
    <3> QED
      BY <3>1, <3>2
  <2> QED
    BY <2>8, <2>9
<1>2. CASE UNCHANGED varsH
  BY <1>2 DEF varsH, histVars, HistInv, MayRun, RunReady, shouldHalt, vars,
    smVars, loopVars, ecatVars
<1> QED
  BY <1>1, <1>2

(* ControllerLoop::loop and calcState: however the three threads           *)
(* interleave, at most one run command goes out after RT Ops has left      *)
(* ENABLED, and at most one while the stored robot state calls for a halt. *)
THEOREM RunsBounded == SpecH => []AtMostOneRun
<1>1. ASSUME InitH PROVE Inv /\ HistInv
  <2>1. Inv
    BY <1>1, InitInv DEF InitH
  <2> QED
    BY <1>1, <2>1 DEF InitH, Init, HistInv, MayRun, RunReady
<1>2. Inv /\ [NextH]_varsH => Inv'
  <2>1. [NextH]_varsH => [Next]_vars
    BY DEF NextH, varsH
  <2> QED
    BY <2>1, TypeStep, CommandStep, ConnectionStep, OutputStep, SentStep DEF Inv
<1>3. Inv /\ HistInv /\ [NextH]_varsH => HistInv'
  BY HistStep
<1>4. HistInv => AtMostOneRun
  BY DEF HistInv, AtMostOneRun
<1> QED
  BY <1>1, <1>2, <1>3, <1>4, PTL DEF SpecH

-----------------------------------------------------------------------------
(***************************************************************************)
(* The refinement: RT Ops, with its three threads, implements              *)
(* RtOpsProtocol.  Each of its steps is a step of the protocol or leaves   *)
(* the protocol's state as it is.                                          *)
(***************************************************************************)

(* Which command the component thread can be carrying out, by its place in *)
(* newCMState.                                                             *)
CommandAt ==
  /\ cmPc \in {"load", "loaded"} => command = "DISABLED"
  /\ cmPc = "safety" => command = "ENABLED"
  /\ cmPc \in {"unload", "disconnect"}
       => command \in {"NO_CONTROLLER_LOADED", "RESET", "INVALID"}
  /\ cmPc \in {"eStop", "eStopEvent"} => command \in {"E_STOP", "INVALID"}

----------------------------------------------------------------------------
(* The switch of newCMState keeps command and place together.              *)
LEMMA CommandAtStep == ASSUME Inv, CommandAt, [Next]_vars PROVE CommandAt'
<1> USE DEF CommandAt
<1>1. CASE ECat \/ Loop \/ ReadEvent \/ UNCHANGED vars
  <2>1. UNCHANGED cmVars
    BY <1>1 DEF ECat, NewStateCallback, CheckForNewErrors, MedullaEStop,
      MedullaEStopEvent, StoreRobotState, CycleLoop, MissedDeadline, Loop,
      LoopBegin, RunController, CalcState, ResetDone, AckReset,
      ControllerEStop, ControllerEStopEvent, ShouldEStop, SafetyEStop,
      SafetyEStopEvent, ShouldHalt, SetHalt, SendOutput, LoopWait, LoopExit,
      ReadEvent, vars
  <2> QED
    BY <2>1 DEF cmVars
<1>2. CASE Component
  <2>1. ASSUME NEW c \in CMCommands, NewCMState(c) PROVE CommandAt'
    BY <2>1, RtOpsConstants DEF NewCMState, RtOpsState
  <2>2. CASE ConnectToController \/ SetControllerLoaded \/ CheckSafety
             \/ CommandEStop \/ SetCommandedState \/ AckCMState
    BY <2>2 DEF ConnectToController, SetControllerLoaded, CheckSafety,
                CommandEStop, SetCommandedState, AckCMState, Return
  <2>3. CASE SetControllerUnloaded \/ DisconnectController
    BY <2>3 DEF SetControllerUnloaded, DisconnectController, AfterUnload, Return
  <2>4. CASE CommandEStopEvent
    BY <2>4 DEF CommandEStopEvent
  <2>5. CASE StopHook \/ StartHook
    BY <2>5 DEF StopHook, StartHook, cmVars
  <2> QED
    BY <1>2, <2>1, <2>2, <2>3, <2>4, <2>5 DEF Component, CMSteps
<1> QED
  BY <1>1, <1>2 DEF Next

----------------------------------------------------------------------------
(* newStateCallback and the missed deadlines, as the protocol sees them.   *)
LEMMA ECatSimulates ==
  ASSUME Inv, ECat PROVE [Protocol!Next]_(Protocol!vars)
<1> USE DEF Protocol!vars, Protocol!Next, Protocol!Silent, Protocol!Sending
<1>1. ASSUME NEW rs \in RobotStates, CheckForNewErrors(rs)
      PROVE  Protocol!MedullaFails \/ UNCHANGED Protocol!vars
  BY <1>1 DEF CheckForNewErrors, Protocol!MedullaFails, smVars, ctrlVars,
    loopVars, cmVars, ProtocolLoop, ProtocolCm
<1>2. CASE MedullaEStop
  <2>1. Protocol!MedullaEStop
    BY <1>2 DEF MedullaEStop, Protocol!MedullaEStop, setState,
      Protocol!setState, ctrlVars, loopVars, cmVars, ProtocolLoop, ProtocolCm
  <2> QED
    BY <2>1
<1>3. CASE MedullaEStopEvent
  <2>1. Protocol!MedullaEvent
    BY <1>3 DEF MedullaEStopEvent, sendEvent, Protocol!MedullaEvent, smVars,
      ctrlVars, loopVars, cmVars, ProtocolLoop, ProtocolCm
  <2> QED
    BY <2>1
<1>4. CASE StoreRobotState \/ CycleLoop
  BY <1>4 DEF StoreRobotState, CycleLoop, smVars, ctrlVars, loopVars, cmVars,
    ProtocolLoop, ProtocolCm
<1>5. CASE MissedDeadline
  <2>1. Protocol!MissedDeadline
    BY <1>5 DEF MissedDeadline, sendEvent, Protocol!MissedDeadline, smVars,
      ctrlVars, ecatVars, loopVars, cmVars, ProtocolLoop, ProtocolCm
  <2> QED
    BY <2>1
<1> QED
  BY <1>1, <1>2, <1>3, <1>4, <1>5 DEF ECat, NewStateCallback

(* A cycle of ControllerLoop::loop: only what it sees of RESET and ENABLED *)
(* matters to the protocol.                                                *)
LEMMA LoopSimulates ==
  ASSUME Inv, Loop PROVE [Protocol!Next]_(Protocol!vars)
<1> USE DEF Protocol!vars, Protocol!Next, Protocol!Silent, Protocol!Sending,
            smVars, ctrlVars, ecatVars, cmVars, ProtocolLoop, ProtocolCm
<1>1. CASE LoopBegin \/ RunController \/ ShouldEStop \/ SendOutput \/ LoopWait
           \/ LoopExit
  BY <1>1 DEF LoopBegin, RunController, ShouldEStop, SendOutput, LoopWait,
              LoopExit
<1>2. CASE CalcState
  <2>1. CASE currentState \in {"E_STOP", "NO_CONTROLLER_LOADED", "DISABLED", "HALT"}
    BY <1>2, <2>1 DEF CalcState
  <2>2. CASE currentState = "RESET"
    <3>1. Protocol!ResetOver \/ UNCHANGED Protocol!vars
      BY <1>2, <2>2 DEF CalcState, Protocol!ResetOver
    <3> QED
      BY <3>1
  <2>3. CASE currentState = "ENABLED"
    <3>1. Protocol!LoopEnabled
      BY <1>2, <2>3 DEF CalcState, Protocol!LoopEnabled
    <3> QED
      BY <3>1
  <2> QED
    BY <1>2, <2>1, <2>2, <2>3 DEF CalcState
<1>3. CASE ResetDone
  <2>1. Protocol!ResetDone
    BY <1>3 DEF ResetDone, Protocol!ResetDone, setState, Protocol!setState
  <2> QED
    BY <2>1
<1>4. CASE AckReset
  <2>1. Protocol!AckReset
    BY <1>4 DEF AckReset, sendEvent, Protocol!AckReset
  <2> QED
    BY <2>1
<1>5. CASE ControllerEStop
  <2>1. Protocol!LoopEStop("controllerEvent")
    BY <1>5 DEF ControllerEStop, Protocol!LoopEStop, setState, Protocol!setState
  <2> QED
    BY <2>1
<1>6. CASE ControllerEStopEvent
  <2>1. Protocol!ControllerEvent
    BY <1>6 DEF ControllerEStopEvent, sendEvent, Protocol!ControllerEvent
  <2> QED
    BY <2>1
<1>7. CASE SafetyEStop
  <2>1. Protocol!LoopEStop("safetyEvent")
    BY <1>7 DEF SafetyEStop, Protocol!LoopEStop, setState, Protocol!setState
  <2> QED
    BY <2>1
<1>8. CASE SafetyEStopEvent
  <2>1. Protocol!SafetyEvent
    BY <1>8 DEF SafetyEStopEvent, sendEvent, Protocol!SafetyEvent
  <2> QED
    BY <2>1
<1>9. CASE ShouldHalt
  <2>1. Protocol!LoopMustHalt \/ Protocol!LoopContinues
    BY <1>9 DEF ShouldHalt, sendEvent, Protocol!LoopMustHalt,
                Protocol!LoopContinues
  <2> QED
    BY <2>1
<1>10. CASE SetHalt
  <2>1. Protocol!LoopHalt
    BY <1>10 DEF SetHalt, Protocol!LoopHalt, setState, Protocol!setState
  <2> QED
    BY <2>1
<1> QED
  BY <1>1, <1>2, <1>3, <1>4, <1>5, <1>6, <1>7, <1>8, <1>9, <1>10 DEF Loop

(* updateHook and newCMState: a command is received, prepared for, carried *)
(* out and acknowledged.                                                   *)
LEMMA ComponentSimulates ==
  ASSUME Inv, CommandAt, Component PROVE [Protocol!Next]_(Protocol!vars)
<1> USE DEF Protocol!vars, Protocol!Next, Protocol!Silent, Protocol!Sending,
            CommandAt, smVars, ecatVars, loopVars, ProtocolLoop, ProtocolCm
<1>1. ASSUME NEW c \in CMCommands, NewCMState(c) PROVE Protocol!Receive(c)
  BY <1>1, RtOpsConstants DEF NewCMState, Protocol!Receive, ctrlVars, RtOpsState
<1>2. CASE ConnectToController
  <2>1. Protocol!Proceed \/ UNCHANGED Protocol!vars
    BY <1>2 DEF ConnectToController, Protocol!Proceed, Inv, TypeOK
  <2> QED
    BY <2>1
<1>3. CASE SetControllerLoaded
  <2>1. Protocol!ChangeLoaded
    BY <1>3 DEF SetControllerLoaded, Protocol!ChangeLoaded
  <2> QED
    BY <2>1
<1>4. CASE SetControllerUnloaded
  <2>1. Protocol!ChangeLoaded \/ Protocol!Abandon
    BY <1>4 DEF SetControllerUnloaded, AfterUnload, Return, NoCommand,
      Protocol!ChangeLoaded, Protocol!Abandon, Protocol!NoCommand
  <2> QED
    BY <2>1
<1>5. CASE DisconnectController
  <2>1. ~controllerLoaded
    BY <1>5 DEF DisconnectController, Inv, ConnectionInv
  <2>2. Protocol!Proceed \/ Protocol!Abandon
    BY <1>5, <2>1 DEF DisconnectController, AfterUnload, Return, NoCommand,
      Protocol!Proceed, Protocol!Abandon, Protocol!NoCommand, Inv, TypeOK
  <2> QED
    BY <2>2
<1>6. CASE CheckSafety
  <2>1. Protocol!Refuse \/ Protocol!Proceed
    BY <1>6 DEF CheckSafety, sendEvent, Protocol!Refuse, Protocol!Proceed, ctrlVars
  <2> QED
    BY <2>1
<1>7. CASE CommandEStop
  <2>1. Protocol!CommandEStop
    BY <1>7 DEF CommandEStop, Protocol!CommandEStop, setState,
      Protocol!setState, ctrlVars
  <2> QED
    BY <2>1
<1>8. CASE CommandEStopEvent
  <2>1. Protocol!CommandEvent
    BY <1>8 DEF CommandEStopEvent, sendEvent, Protocol!CommandEvent, ctrlVars
  <2> QED
    BY <2>1
<1>9. CASE SetCommandedState
  <2>1. Protocol!SetCommandedState
    BY <1>9 DEF SetCommandedState, Return, NoCommand, setState, ctrlVars,
      Protocol!SetCommandedState, Protocol!setState, Protocol!NoCommand
  <2> QED
    BY <2>1
<1>10. CASE AckCMState
  <2>1. Protocol!Acknowledge
    BY <1>10 DEF AckCMState, sendEvent, Return, NoCommand, ackCMState,
      ctrlVars, Protocol!Acknowledge, Protocol!ackOf, Protocol!NoCommand
  <2> QED
    BY <2>1
<1>11. CASE StopHook \/ StartHook
  BY <1>11 DEF StopHook, StartHook, ctrlVars, cmVars
<1> QED
  BY <1>1, <1>2, <1>3, <1>4, <1>5, <1>6, <1>7, <1>8, <1>9, <1>10, <1>11
  DEF Component, CMSteps

----------------------------------------------------------------------------
(* RT Ops keeps to the protocol the Controller Manager relies on: what its *)
(* newStateCallback, ControllerLoop::loop and newCMState do to the state   *)
(* and the event port, interleaved in any way, RtOpsProtocol allows.       *)
THEOREM KeepsProtocol == Spec => ImplementsProtocol
<1>1. Init => Protocol!Init
  BY DEF Init, NoCommand, Protocol!Init, Protocol!NoCommand, ProtocolLoop,
         ProtocolCm
<1>2. Init => CommandAt
  BY DEF Init, CommandAt
<1>3. Inv /\ CommandAt /\ [Next]_vars => CommandAt'
  BY CommandAtStep
<1>4. Inv /\ CommandAt /\ [Next]_vars => [Protocol!Next]_(Protocol!vars)
  <2>1. ASSUME ReadEvent PROVE Protocol!EventRead
    BY <2>1 DEF ReadEvent, Protocol!EventRead, smVars, ctrlVars, ecatVars,
      loopVars, cmVars, ProtocolLoop, ProtocolCm
  <2>2. ASSUME UNCHANGED vars PROVE UNCHANGED Protocol!vars
    BY <2>2 DEF vars, smVars, ctrlVars, ecatVars, loopVars, cmVars,
      Protocol!vars, ProtocolLoop, ProtocolCm
  <2> QED
    BY <2>1, <2>2, ECatSimulates, LoopSimulates, ComponentSimulates
    DEF Next, Protocol!Next
<1> QED
  BY <1>1, <1>2, <1>3, <1>4, Invariance, PTL
  DEF Spec, ImplementsProtocol, Protocol!Spec
=============================================================================
