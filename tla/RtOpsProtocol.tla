---------------------------- MODULE RtOpsProtocol ----------------------------
(***************************************************************************)
(* What RT Ops promises the Controller Manager: which states it goes       *)
(* through and which events it sends, without robot states, outputs or     *)
(* wake-ups.  RtOps implements this specification; ControlSystem composes  *)
(* it with the Controller Manager.                                         *)
(*                                                                         *)
(* Three parties move it: the thread that hears from the Medullas, the     *)
(* controller loop, and the thread that carries out a command.  A party    *)
(* that has looked at currentState may act on it later.                    *)
(***************************************************************************)
CONSTANT CMCommands

VARIABLES
  currentState,   \* the RT Ops state
  loaded,         \* a controller is loaded
  eventOut,       \* the unread event on rt_ops_event_out, or "NO_EVENT"
  medullas,       \* the thread that hears from the Medullas
  loop,           \* the controller loop
  cm, command     \* the thread that carries out the command

vars == <<currentState, loaded, eventOut, medullas, loop, cm, command>>

NoCommand == "NO_CONTROLLER_LOADED"

Init ==
  /\ currentState \in {"NO_CONTROLLER_LOADED", "E_STOP"}
  /\ loaded = FALSE
  /\ eventOut = "NO_EVENT"
  /\ medullas = "idle" /\ loop = "idle"
  /\ cm = "idle" /\ command = NoCommand

setState(new) ==
  currentState' = IF currentState = "E_STOP" /\ new # "RESET"
                  THEN currentState ELSE new

----------------------------------------------------------------------------
(* A Medulla in error stops RT Ops, unless it is stopped or resetting.     *)
MedullaFails ==
  /\ medullas = "idle"
  /\ currentState \notin {"E_STOP", "RESET"}
  /\ medullas' = "eStop"
  /\ UNCHANGED <<currentState, loaded, eventOut, loop, cm, command>>

MedullaEStop ==
  /\ medullas = "eStop"
  /\ setState("E_STOP")
  /\ medullas' = "event"
  /\ UNCHANGED <<loaded, eventOut, loop, cm, command>>

MedullaEvent ==
  /\ medullas = "event"
  /\ eventOut' = "MEDULLA_ESTOP"
  /\ medullas' = "idle"
  /\ UNCHANGED <<currentState, loaded, loop, cm, command>>

MissedDeadline ==
  /\ eventOut' = "MISSED_DEADLINE"
  /\ UNCHANGED <<currentState, loaded, medullas, loop, cm, command>>

----------------------------------------------------------------------------
(* The controller loop finds RT Ops enabled, and may then stop it, halt it *)
(* or leave it as it is.                                                   *)
LoopEnabled ==
  /\ loop = "idle" /\ currentState = "ENABLED"
  /\ loop' = "enabled"
  /\ UNCHANGED <<currentState, loaded, eventOut, medullas, cm, command>>

LoopContinues ==
  /\ loop = "enabled"
  /\ loop' = "idle"
  /\ UNCHANGED <<currentState, loaded, eventOut, medullas, cm, command>>

LoopEStop(next) ==
  /\ loop = "enabled"
  /\ setState("E_STOP")
  /\ loop' = next
  /\ UNCHANGED <<loaded, eventOut, medullas, cm, command>>

ControllerEvent ==
  /\ loop = "controllerEvent"
  /\ eventOut' = "CONTROLLER_ESTOP"
  /\ loop' = "enabled"
  /\ UNCHANGED <<currentState, loaded, medullas, cm, command>>

SafetyEvent ==
  /\ loop = "safetyEvent"
  /\ eventOut' = "MEDULLA_ESTOP"
  /\ loop' = "idle"
  /\ UNCHANGED <<currentState, loaded, medullas, cm, command>>

LoopMustHalt ==
  /\ loop = "enabled"
  /\ eventOut' = "SAFETY"
  /\ loop' = "halt"
  /\ UNCHANGED <<currentState, loaded, medullas, cm, command>>

LoopHalt ==
  /\ loop = "halt"
  /\ setState("HALT")
  /\ loop' = "idle"
  /\ UNCHANGED <<loaded, eventOut, medullas, cm, command>>

(* The loop has counted out a reset.                                       *)
ResetOver ==
  /\ loop = "idle" /\ currentState = "RESET"
  /\ loop' = "resetDone"
  /\ UNCHANGED <<currentState, loaded, eventOut, medullas, cm, command>>

ResetDone ==
  /\ loop = "resetDone"
  /\ setState("NO_CONTROLLER_LOADED")
  /\ loop' = "ackReset"
  /\ UNCHANGED <<loaded, eventOut, medullas, cm, command>>

(* Each definition named X_... before a definition X is X with a mistake   *)
(* put into it, which the properties must notice.                          *)
AckReset_NotSent ==
  /\ loop = "ackReset"
  /\ loop' = "idle"
  /\ UNCHANGED <<currentState, loaded, eventOut, medullas, cm, command>>

AckReset ==
  /\ loop = "ackReset"
  /\ eventOut' = "ACK_RESET"
  /\ loop' = "idle"
  /\ UNCHANGED <<currentState, loaded, medullas, cm, command>>

----------------------------------------------------------------------------
(* A command: (un)load the controller, refuse ENABLED or announce E_STOP,  *)
(* or, for HALT, nothing; then set the state; then acknowledge.            *)
Receive(c) ==
  /\ cm = "idle"
  /\ cm' = IF c = "HALT" THEN "set" ELSE "busy"
  /\ command' = c
  /\ UNCHANGED <<currentState, loaded, eventOut, medullas, loop>>

(* The flag controllerLoaded, which may change a moment before the command *)
(* is through with loading or unloading.                                   *)
ChangeLoaded ==
  /\ cm = "busy"
  /\ loaded' = (command = "DISABLED")
  /\ command \in {"DISABLED", "NO_CONTROLLER_LOADED", "RESET"}
  /\ cm' \in {"busy", "set"}
  /\ UNCHANGED <<currentState, eventOut, medullas, loop, command>>

Proceed ==
  /\ cm = "busy"
  /\ command = "ENABLED" \/ loaded = (command = "DISABLED")
  /\ command \notin {"E_STOP", "INVALID"}
  /\ cm' = "set"
  /\ UNCHANGED <<currentState, loaded, eventOut, medullas, loop, command>>

Refuse ==
  /\ cm = "busy" /\ command = "ENABLED"
  /\ command' = "DISABLED" /\ cm' = "set"
  /\ eventOut' = "SAFETY"
  /\ UNCHANGED <<currentState, loaded, medullas, loop>>

CommandEStop ==
  /\ cm = "busy" /\ command \in {"E_STOP", "INVALID"}
  /\ setState("E_STOP")
  /\ cm' = "event"
  /\ UNCHANGED <<loaded, eventOut, medullas, loop, command>>

CommandEvent ==
  /\ cm = "event"
  /\ IF command = "INVALID"
     THEN eventOut' = "INVALID_CM_COMMAND" /\ cm' = "unload"
     ELSE eventOut' = "CM_COMMAND_ESTOP" /\ cm' = "set"
  /\ UNCHANGED <<currentState, loaded, medullas, loop, command>>

(* After an invalid command the controller is unloaded, and no more.       *)
Abandon ==
  /\ cm = "unload"
  /\ loaded' = FALSE
  /\ \/ cm' = "unload" /\ UNCHANGED command
     \/ cm' = "idle" /\ command' = NoCommand
  /\ UNCHANGED <<currentState, eventOut, medullas, loop>>

SetCommandedState ==
  /\ cm = "set"
  /\ setState(command)
  /\ IF command = "RESET" THEN cm' = "idle" /\ command' = NoCommand
     ELSE cm' = "ack" /\ UNCHANGED command
  /\ UNCHANGED <<loaded, eventOut, medullas, loop>>

ackOf(s) == CASE s = "NO_CONTROLLER_LOADED" -> "ACK_NO_CONTROLLER_LOADED"
              [] s = "DISABLED"             -> "ACK_DISABLE"
              [] s = "ENABLED"              -> "ACK_ENABLE"
              [] s = "E_STOP"               -> "ACK_E_STOP"
              [] s = "HALT"                 -> "ACK_HALT"

Acknowledge ==
  /\ cm = "ack"
  /\ eventOut' = ackOf(command)
  /\ cm' = "idle" /\ command' = NoCommand
  /\ UNCHANGED <<currentState, loaded, medullas, loop>>

----------------------------------------------------------------------------
EventRead ==
  /\ eventOut # "NO_EVENT"
  /\ eventOut' = "NO_EVENT"
  /\ UNCHANGED <<currentState, loaded, medullas, loop, cm, command>>

(* The steps that write to the event port, and those that do not.          *)
Sending == \/ MedullaEvent \/ ControllerEvent \/ SafetyEvent \/ LoopMustHalt
           \/ AckReset \/ Refuse \/ CommandEvent \/ Acknowledge

Silent == \/ MedullaFails \/ MedullaEStop
          \/ LoopEnabled \/ LoopContinues \/ LoopHalt
          \/ LoopEStop("controllerEvent") \/ LoopEStop("safetyEvent")
          \/ ResetOver \/ ResetDone
          \/ ChangeLoaded \/ Proceed \/ CommandEStop \/ Abandon
          \/ SetCommandedState

Next == \/ Sending \/ Silent \/ MissedDeadline
        \/ \E c \in CMCommands : Receive(c)
        \/ EventRead

Spec == Init /\ [][Next]_vars
=============================================================================
