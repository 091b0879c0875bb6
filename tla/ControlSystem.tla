---------------------------- MODULE ControlSystem ----------------------------
(***************************************************************************)
(* The Controller Manager and RT Ops, joined by the two data connections   *)
(* of software/atrias/control_system.ops: rt_ops_event_out to              *)
(* rt_ops_data_in, and rt_ops_data_out to controller_manager_data_in.      *)
(* Both connections have RTT's default policy, which keeps the last sample *)
(* only.  RT Ops is represented by its protocol, which RtOps implements.   *)
(***************************************************************************)
EXTENDS Integers, Sequences

CONSTANTS
  UserCommands, Garbage, MaxEvents, MaxCommands,  \* of the Controller Manager
  MaxGuiCommands(_), \* bound on the commands the user gives in all, by
                   \* what goes wrong meanwhile
  MaxMisses,       \* bound on the deadlines the EtherCAT loop misses in all
  FaultSets  \* what may go wrong together: a Medulla reports an error
             \* ("medulla"), the EtherCAT loop misses a deadline
             \* ("deadline"), the controller or the safeties stop or halt
             \* the robot ("controller")

VARIABLES
  (* the Controller Manager *)
  state, controllerLoaded, commandPending, commandBuffer, commandRunMutex,
  eventBeingWaitedOn, incomingEvents, eventsWaitingSignal, guiStatus,
  guiDataIn, trigger, pc, todo, event,
  (* the two connections *)
  rtOpsDataOut, eventOut,
  (* RT Ops *)
  currentState, loaded, medullas, loop, cm, command,
  (* history: an acknowledgement was overwritten before it was read; a     *)
  (* reset was displaced by another state before it was over; the event    *)
  (* manager ended a wait on an acknowledgement that was not the awaited   *)
  (* one                                                                   *)
  ackLost, resetDisplaced, waitCutShort,
  guiCommands,    \* how many commands the user has given
  misses,         \* and how many deadlines were missed
  faults          \* what goes wrong in this behaviour

RtOpsEvents == {"MISSED_DEADLINE", "CM_COMMAND_ESTOP", "ACK_DISABLE",
                "ACK_ENABLE", "ACK_RESET", "ACK_E_STOP", "CONTROLLER_ESTOP",
                "MEDULLA_ESTOP", "SAFETY"}
Acks == {"ACK_DISABLE", "ACK_ENABLE", "ACK_RESET", "ACK_E_STOP"}

CM == INSTANCE ControllerManager WITH Events <- RtOpsEvents,
                                      rtOpsDataIn <- eventOut

ASSUME ControlSystemConstants ==
  /\ CM!CMConstants
  /\ \A f \in FaultSets : MaxGuiCommands(f) \in Nat
  /\ MaxMisses \in Nat
  /\ FaultSets \subseteq SUBSET {"medulla", "deadline", "controller"}

RT == INSTANCE RtOpsProtocol WITH
        CMCommands <- {"DISABLED", "ENABLED", "RESET", "E_STOP"}

(* The Controller Manager's variables that RT Ops's steps leave alone, and *)
(* conversely.                                                             *)
cmOnly == <<state, controllerLoaded, commandPending, commandBuffer,
            commandRunMutex, eventBeingWaitedOn, incomingEvents,
            eventsWaitingSignal, guiStatus, guiDataIn, pc, todo, event>>
rtOnly == <<currentState, loaded, medullas, loop, cm, command>>
history == <<ackLost, resetDisplaced, waitCutShort, guiCommands, misses, faults>>
vars == <<cmOnly, trigger, rtOpsDataOut, eventOut, rtOnly, history>>

Init ==
  /\ CM!Init /\ RT!Init
  /\ ackLost = FALSE /\ resetDisplaced = FALSE /\ waitCutShort = FALSE
  /\ guiCommands = 0 /\ misses = 0
  /\ faults \in FaultSets

(* Which acknowledgements and resets a step of RT Ops has cost.            *)
Observe ==
  /\ ackLost' = (ackLost \/ (eventOut \in Acks /\ eventOut' # eventOut))
  /\ resetDisplaced' = (resetDisplaced \/
        (currentState = "RESET" /\ currentState' # "RESET" /\ loop # "resetDone"))
  /\ UNCHANGED <<waitCutShort, guiCommands, faults>>

RtOpsSends ==
  /\ RT!Sending
  /\ "controller" \in faults \/ ~(RT!LoopMustHalt \/ RT!Refuse)
  /\ trigger' = TRUE
  /\ Observe
  /\ UNCHANGED <<cmOnly, rtOpsDataOut, misses>>

RtOpsSilent ==
  /\ RT!Silent
  /\ "medulla" \in faults \/ ~RT!MedullaFails
  /\ "controller" \in faults \/ loop' \notin {"controllerEvent", "safetyEvent"}
  /\ Observe
  /\ UNCHANGED <<cmOnly, trigger, rtOpsDataOut, misses>>

(* RTOps::updateHook reads the command port.                               *)
RtOpsReceives ==
  /\ rtOpsDataOut # "none"
  /\ RT!Receive(rtOpsDataOut)
  /\ rtOpsDataOut' = "none"
  /\ UNCHANGED <<cmOnly, trigger, history>>

DeadlineMissed ==
  /\ "deadline" \in faults
  /\ misses < MaxMisses /\ misses' = misses + 1
  /\ RT!MissedDeadline
  /\ trigger' = TRUE
  /\ Observe
  /\ UNCHANGED <<cmOnly, rtOpsDataOut>>

RtOps == RtOpsSends \/ RtOpsSilent \/ RtOpsReceives

UpdateHook == CM!CMThread /\ UNCHANGED <<rtOnly, history>>

(* The event manager decides that an event is the awaited one before it    *)
(* ends the wait; updateHook may begin another wait in between.            *)
EventManager ==
  /\ CM!EMThread
  /\ waitCutShort' = (waitCutShort \/
        (commandPending /\ ~commandPending' /\ event # eventBeingWaitedOn))
  /\ UNCHANGED <<rtOnly, ackLost, resetDisplaced, guiCommands, misses, faults>>

Gui == /\ guiCommands < MaxGuiCommands(faults)
       /\ guiCommands' = guiCommands + 1
       /\ \E c \in UserCommands : CM!GuiCommand(c)
       /\ UNCHANGED <<rtOnly, ackLost, resetDisplaced, waitCutShort, misses, faults>>

Next == RtOps \/ DeadlineMissed \/ UpdateHook \/ EventManager \/ Gui

Spec == Init /\ [][Next]_vars

(* Every thread is scheduled; Medullas need not fail, deadlines need not   *)
(* be missed and the user need not command anything.                       *)
Fairness ==
  /\ WF_vars(UpdateHook) /\ WF_vars(EventManager)
  /\ WF_vars(RtOpsReceives)
  /\ WF_vars((RtOpsSends \/ RtOpsSilent) /\ UNCHANGED <<medullas, loop>>)
  /\ WF_vars((RtOpsSends \/ RtOpsSilent) /\ UNCHANGED <<medullas, cm>>)
  /\ WF_vars((RtOpsSends \/ RtOpsSilent) /\ medullas # "idle"
               /\ UNCHANGED <<loop, cm>>)

FairSpec == Spec /\ Fairness

----------------------------------------------------------------------------
(* The Controller Manager waits forever for an acknowledgement only if one *)
(* was overwritten on the event port or a reset was displaced in RT Ops:   *)
(* nothing else in setEventWait, EventManager::loop, newCMState and        *)
(* calcState can leave it waiting.                                         *)
PendingResolved ==
  commandPending ~> ~commandPending \/ ackLost \/ resetDisplaced

(* The GUI is not left with an old state: commands that the event manager  *)
(* works off (EventManager::loop, tryProcessCommand) change state without  *)
(* a call of updateGui, but the acknowledgement RT Ops sends for them      *)
(* triggers updateHook, which makes one.                                   *)
GuiInformed == guiStatus # state ~> guiStatus = state

(* Nothing is under way: no sample is unread, no event queued, no command  *)
(* awaited, no reset counted out, and the threads are between two pieces   *)
(* of work.                                                                *)
AtRest ==
  /\ pc["cm"] = "idle" /\ ~trigger
  /\ pc["em"] \in {"take", "check", "wait"} /\ incomingEvents = <<>>
  /\ ~commandPending /\ rtOpsDataOut = "none" /\ eventOut = "NO_EVENT"
  /\ cm = "idle" /\ loop = "idle" /\ medullas = "idle"
  /\ currentState # "RESET"

(* At rest the two components agree on whether a controller is loaded,     *)
(* whatever commands, failures and missed deadlines came before            *)
(* (ControllerManager::setState and the event manager on one side,         *)
(* newCMState and ControllerLoop on the other), unless a stale             *)
(* acknowledgement has ended the wait for another: that is the one gap     *)
(* between EventManager::loop's test and its clearing of commandPending.   *)
LoadAgreed == AtRest /\ ~waitCutShort => controllerLoaded = loaded
=============================================================================
