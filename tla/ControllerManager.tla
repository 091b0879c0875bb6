-------------------------- MODULE ControllerManager --------------------------
(***************************************************************************)
(* The Controller Manager (software/atrias_controller_manager), which      *)
(* turns the GUI's commands into commands for RT Ops and follows RT Ops by *)
(* the events it sends back.  Two threads run in it:                       *)
(*                                                                         *)
(*   cm  ControllerManager::updateHook: queue the RT Ops event and the GUI *)
(*       command that arrived, then work off the command queue;            *)
(*   em  EventManager::loop: act on the queued events, and work off the    *)
(*       command queue when an awaited acknowledgement has come.           *)
(*                                                                         *)
(* Both run tryProcessCommand, whose steps below take the thread as a      *)
(* parameter.  commandRunMutex is held across several steps; the other     *)
(* locks protect a single step each.  state and controllerLoaded are       *)
(* shared without a lock, so that reading and writing them are separate    *)
(* steps.  All ports are RTT data connections: an unread sample is         *)
(* overwritten by the next.                                                *)
(***************************************************************************)
EXTENDS Integers, Sequences

CONSTANTS
  Events,        \* the events RT Ops may send
  UserCommands,  \* the commands the GUI may send
  Garbage,       \* what uninitialised memory may hold, as an RtOpsEvent
  MaxEvents,     \* bound on the events queued in the event manager
  MaxCommands    \* bound: the GUI sends while fewer are queued in commandBuffer

ControllerManagerState == {"NO_CONTROLLER_LOADED", "CONTROLLER_STOPPED",
                           "CONTROLLER_RUNNING", "CONTROLLER_ESTOPPED"}

UserCommand == {"STOP", "RUN", "E_STOP", "UNLOAD_CONTROLLER"}

RtOpsEvent == {"NO_EVENT", "INVALID_CM_COMMAND", "MISSED_DEADLINE",
               "CM_COMMAND_ESTOP", "ACK_NO_CONTROLLER_LOADED", "ACK_DISABLE",
               "ACK_ENABLE", "ACK_RESET", "ACK_E_STOP", "ACK_HALT",
               "CONTROLLER_ESTOP", "MEDULLA_ESTOP", "SAFETY"}

ASSUME CMConstants ==
  /\ Events \subseteq RtOpsEvent \ {"NO_EVENT"}
  /\ UserCommands \subseteq UserCommand
  /\ Garbage \subseteq RtOpsEvent
  /\ MaxEvents \in Nat \ {0}
  /\ MaxCommands \in Nat \ {0}

Threads == {"cm", "em"}

VARIABLES
  state,                \* ControllerManager::state
  controllerLoaded,     \* ControllerManager::controllerLoaded
  commandPending,       \* ControllerManager::commandPending
  commandBuffer,        \* ControllerManager::commandBuffer
  commandRunMutex,      \* the thread that holds it, or "free"
  eventBeingWaitedOn,   \* EventManager::eventBeingWaitedOn
  incomingEvents,       \* EventManager::incomingEvents
  eventsWaitingSignal,  \* the semaphore of that name
  guiStatus,            \* the state last reported to the GUI
  rtOpsDataIn,          \* the unread event on that port, or "NO_EVENT"
  guiDataIn,            \* the unread command on that port, or "none"
  rtOpsDataOut,         \* the command RT Ops has not read yet, or "none"
  trigger,              \* a sample has arrived since updateHook last began
  pc,                   \* where each thread is
  todo,                 \* what handleUserCommand has left to do in a thread
  event                 \* the event the event manager is handling

cmShared  == <<state, controllerLoaded>>
cmdVars   == <<commandPending, commandBuffer, commandRunMutex>>
eventVars == <<eventBeingWaitedOn, incomingEvents, eventsWaitingSignal>>
portVars  == <<rtOpsDataIn, guiDataIn, rtOpsDataOut, trigger>>
threads   == <<pc, todo, event>>
vars == <<cmShared, cmdVars, eventVars, portVars, threads, guiStatus>>

(***************************************************************************)
(* What handleUserCommand does: assign a new state, have the event manager *)
(* wait for an acknowledgement, command RT Ops.  "none" leaves one out.    *)
(***************************************************************************)
Task(to, wait, out) == [to |-> to, wait |-> wait, out |-> out]
NoTask == Task("none", "none", "none")

(***************************************************************************)
(* The constructors.  eventBeingWaitedOn is not initialised; it is only    *)
(* compared with events received, so that NO_EVENT stands for every value  *)
(* that is no event.                                                       *)
(***************************************************************************)
Init ==
  /\ state = "NO_CONTROLLER_LOADED"
  /\ controllerLoaded = FALSE
  /\ commandPending = FALSE /\ commandBuffer = <<>> /\ commandRunMutex = "free"
  /\ eventBeingWaitedOn \in Garbage
  /\ incomingEvents = <<>> /\ eventsWaitingSignal = 0
  /\ guiStatus = "NO_CONTROLLER_LOADED"
  /\ rtOpsDataIn = "NO_EVENT" /\ guiDataIn = "none" /\ rtOpsDataOut = "none"
  /\ trigger = TRUE
  /\ pc = [t \in Threads |-> IF t = "cm" THEN "idle" ELSE "take"]
  /\ todo = [t \in Threads |-> NoTask]
  /\ event = "NO_EVENT"

Goto(t, l) == pc' = [pc EXCEPT ![t] = l]

(* Each definition named X_... before a definition X is X with a mistake   *)
(* put into it, which the properties must notice.                          *)
Signal_Missing == UNCHANGED eventsWaitingSignal

(* The semaphore is only ever compared with 0, and decremented only by a   *)
(* thread that has seen it 0: values above SignalCap behave as SignalCap.  *)
SignalCap == 2
Signal == eventsWaitingSignal' =
            IF eventsWaitingSignal < SignalCap THEN eventsWaitingSignal + 1
            ELSE eventsWaitingSignal

----------------------------------------------------------------------------
(* ControllerManager::tryProcessCommand, by either thread.                 *)

(* What the callers do when it has returned false.                         *)
AfterCommands(t) == IF t = "cm" THEN "updateGui" ELSE "check"

TryLock_Ignored(t) ==
  /\ pc[t] = "try"
  /\ commandRunMutex' = t /\ Goto(t, "pending")
  /\ UNCHANGED <<cmShared, commandPending, commandBuffer, eventVars, portVars,
                 todo, event, guiStatus>>

TryLock(t) ==
  /\ pc[t] = "try"
  /\ IF commandRunMutex = "free"
     THEN commandRunMutex' = t /\ Goto(t, "pending")
     ELSE Goto(t, AfterCommands(t)) /\ UNCHANGED commandRunMutex
  /\ UNCHANGED <<cmShared, commandPending, commandBuffer, eventVars, portVars,
                 todo, event, guiStatus>>

ReadPending(t) ==
  /\ pc[t] = "pending"
  /\ IF ~commandPending /\ commandBuffer # <<>>
     THEN Goto(t, "handle") ELSE Goto(t, "unlock")
  /\ UNCHANGED <<cmShared, cmdVars, eventVars, portVars, todo, event, guiStatus>>

Unlock_Forgotten(t) ==
  /\ pc[t] = "unlock"
  /\ Goto(t, AfterCommands(t))
  /\ UNCHANGED <<cmShared, cmdVars, eventVars, portVars, todo, event, guiStatus>>

(* Nothing to handle: the try lock is released on return.                  *)
Unlock(t) ==
  /\ pc[t] = "unlock"
  /\ commandRunMutex' = "free"
  /\ Goto(t, AfterCommands(t))
  /\ UNCHANGED <<cmShared, commandPending, commandBuffer, eventVars, portVars,
                 todo, event, guiStatus>>

(* handleUserCommand.  Loading may fail: no controller named, or its start *)
(* script does not run.                                                    *)
Load   == Task("CONTROLLER_STOPPED", "ACK_DISABLE", "DISABLED")
Start  == Task("CONTROLLER_RUNNING", "none", "ENABLED")
Stop   == Task("CONTROLLER_STOPPED", "none", "DISABLED")
Unload == Task("none", "ACK_RESET", "RESET")
EStop  == Task("CONTROLLER_ESTOPPED", "ACK_E_STOP", "E_STOP")

handleUserCommand(s, c) ==
  CASE s = "NO_CONTROLLER_LOADED" /\ c = "STOP" -> {Load, NoTask}
    [] s = "CONTROLLER_STOPPED" /\ c = "RUN"    -> {Start}
    [] s = "CONTROLLER_RUNNING" /\ c = "STOP"   -> {Stop}
    [] s = "CONTROLLER_RUNNING" /\ c = "E_STOP" -> {EStop}
    [] s # "NO_CONTROLLER_LOADED" /\ c = "UNLOAD_CONTROLLER" -> {Unload}
    [] OTHER -> {NoTask}

HandleUserCommand(t) ==
  /\ pc[t] = "handle"
  /\ \E task \in handleUserCommand(state, Head(commandBuffer)) :
        /\ todo' = [todo EXCEPT ![t] = task]
        /\ Goto(t, "assign")
  /\ UNCHANGED <<cmShared, cmdVars, eventVars, portVars, event, guiStatus>>

AssignState_NoWait(t) ==
  /\ pc[t] = "assign"
  /\ state' = IF todo[t].to = "none" THEN state ELSE todo[t].to
  /\ Goto(t, "write")
  /\ UNCHANGED <<controllerLoaded, cmdVars, eventVars, portVars, todo, event,
                 guiStatus>>

AssignState(t) ==
  /\ pc[t] = "assign"
  /\ state' = IF todo[t].to = "none" THEN state ELSE todo[t].to
  /\ Goto(t, IF todo[t].wait # "none" THEN "setEventWait" ELSE "write")
  /\ UNCHANGED <<controllerLoaded, cmdVars, eventVars, portVars, todo, event,
                 guiStatus>>

(* EventManager::setEventWait: two critical sections.                      *)
SetEventWait(t) ==
  /\ pc[t] = "setEventWait"
  /\ eventBeingWaitedOn' = todo[t].wait
  /\ Signal
  /\ Goto(t, "setPending")
  /\ UNCHANGED <<cmShared, cmdVars, incomingEvents, portVars, todo, event,
                 guiStatus>>

SetPending(t) ==
  /\ pc[t] = "setPending"
  /\ commandPending' = TRUE
  /\ Goto(t, "write")
  /\ UNCHANGED <<cmShared, commandBuffer, commandRunMutex, eventVars, portVars,
                 todo, event, guiStatus>>

(* The write to rt_ops_data_out; throwEstop updates the GUI after it.      *)
WriteCommand(t) ==
  /\ pc[t] = "write"
  /\ rtOpsDataOut' = IF todo[t].out = "none" THEN rtOpsDataOut ELSE todo[t].out
  /\ guiStatus' = IF todo[t] = EStop THEN state ELSE guiStatus
  /\ Goto(t, "pop")
  /\ UNCHANGED <<cmShared, cmdVars, eventVars, rtOpsDataIn, guiDataIn, trigger,
                 todo, event>>

(* The command is dropped, the mutex released, and the caller tries again. *)
PopCommand(t) ==
  /\ pc[t] = "pop"
  /\ commandBuffer' = Tail(commandBuffer)
  /\ commandRunMutex' = "free"
  /\ todo' = [todo EXCEPT ![t] = NoTask]
  /\ Goto(t, "try")
  /\ UNCHANGED <<cmShared, commandPending, eventVars, portVars, event,
                 guiStatus>>

TryProcessCommand(t) ==
  \/ TryLock(t) \/ ReadPending(t) \/ Unlock(t) \/ HandleUserCommand(t)
  \/ AssignState(t) \/ SetEventWait(t) \/ SetPending(t) \/ WriteCommand(t) \/ PopCommand(t)

----------------------------------------------------------------------------
(* The cm thread: ControllerManager::updateHook.                           *)

UpdateHook ==
  /\ pc["cm"] = "idle" /\ trigger
  /\ trigger' = FALSE
  /\ Goto("cm", "events")
  /\ UNCHANGED <<cmShared, cmdVars, eventVars, rtOpsDataIn, guiDataIn,
                 rtOpsDataOut, todo, event, guiStatus>>

(* processRtOpsEvent and EventManager::eventCallback.                      *)
ProcessRtOpsEvent ==
  /\ pc["cm"] = "events"
  /\ IF rtOpsDataIn # "NO_EVENT"
     THEN /\ Len(incomingEvents) < MaxEvents
          /\ incomingEvents' = Append(incomingEvents, rtOpsDataIn)
          /\ Signal
          /\ rtOpsDataIn' = "NO_EVENT"
          /\ UNCHANGED pc
     ELSE Goto("cm", "gui")
          /\ UNCHANGED <<incomingEvents, eventsWaitingSignal, rtOpsDataIn>>
  /\ UNCHANGED <<cmShared, cmdVars, eventBeingWaitedOn, guiDataIn,
                 rtOpsDataOut, trigger, todo, event, guiStatus>>

(* Queue the GUI's command, once commandRunMutex is free.                  *)
QueueCommand ==
  /\ pc["cm"] = "gui"
  /\ IF guiDataIn # "none"
     THEN /\ commandRunMutex = "free"
          /\ commandBuffer' = Append(commandBuffer, guiDataIn)
          /\ guiDataIn' = "none"
          /\ UNCHANGED pc
     ELSE Goto("cm", "try") /\ UNCHANGED <<commandBuffer, guiDataIn>>
  /\ UNCHANGED <<cmShared, commandPending, commandRunMutex, eventVars,
                 rtOpsDataIn, rtOpsDataOut, trigger, todo, event, guiStatus>>

UpdateGui_Skipped ==
  /\ pc["cm"] = "updateGui"
  /\ Goto("cm", "idle")
  /\ UNCHANGED <<cmShared, cmdVars, eventVars, portVars, todo, event, guiStatus>>

UpdateGui ==
  /\ pc["cm"] = "updateGui"
  /\ guiStatus' = state
  /\ Goto("cm", "idle")
  /\ UNCHANGED <<cmShared, cmdVars, eventVars, portVars, todo, event>>

CMThread == UpdateHook \/ ProcessRtOpsEvent \/ QueueCommand \/ UpdateGui
            \/ TryProcessCommand("cm")

----------------------------------------------------------------------------
(* The em thread: EventManager::loop.                                      *)

TakeEvent ==
  /\ pc["em"] = "take"
  /\ IF incomingEvents # <<>>
     THEN /\ event' = Head(incomingEvents)
          /\ incomingEvents' = Tail(incomingEvents)
          /\ Goto("em", "dispatch")
     ELSE Goto("em", "check") /\ UNCHANGED <<event, incomingEvents>>
  /\ UNCHANGED <<cmShared, cmdVars, eventBeingWaitedOn, eventsWaitingSignal,
                 portVars, todo, guiStatus>>

EStopEvents == {"CM_COMMAND_ESTOP", "CONTROLLER_ESTOP", "MEDULLA_ESTOP"}

Dispatch ==
  /\ pc["em"] = "dispatch"
  /\ Goto("em", CASE event = "MISSED_DEADLINE"  -> "check"
                  [] event # "MISSED_DEADLINE" /\ event = eventBeingWaitedOn -> "ack"
                  [] event # eventBeingWaitedOn /\ event \in EStopEvents -> "throwEstop"
                  [] OTHER -> "check")
  /\ UNCHANGED <<cmShared, cmdVars, eventVars, portVars, todo, event,
                 guiStatus>>

ThrowEstop ==
  /\ pc["em"] = "throwEstop"
  /\ state' = "CONTROLLER_ESTOPPED"
  /\ guiStatus' = state'
  /\ event' = "NO_EVENT"
  /\ Goto("em", "check")
  /\ UNCHANGED <<controllerLoaded, cmdVars, eventVars, portVars, todo>>

ackedState_NoReset(e) == CASE e = "ACK_DISABLE" -> "CONTROLLER_STOPPED"
                           [] e = "ACK_ENABLE"  -> "CONTROLLER_RUNNING"
                           [] e = "ACK_E_STOP"  -> "CONTROLLER_ESTOPPED"
                           [] e = "ACK_NO_CONTROLLER_LOADED" ->
                                "NO_CONTROLLER_LOADED"
                           [] OTHER -> "none"

(* The state an acknowledgement stands for.                                *)
ackedState(e) == CASE e = "ACK_DISABLE" -> "CONTROLLER_STOPPED"
                   [] e = "ACK_ENABLE"  -> "CONTROLLER_RUNNING"
                   [] e = "ACK_E_STOP"  -> "CONTROLLER_ESTOPPED"
                   [] e \in {"ACK_NO_CONTROLLER_LOADED", "ACK_RESET"} ->
                        "NO_CONTROLLER_LOADED"
                   [] OTHER -> "none"

(* setState, up to its test of state: a controller that is loaded is       *)
(* unloaded by its stop script.  The GUI is updated in either case.        *)
SetStateTest ==
  /\ pc["em"] = "ack"
  /\ controllerLoaded' = CASE ackedState(event) = "CONTROLLER_STOPPED" -> TRUE
                           [] ackedState(event) = "NO_CONTROLLER_LOADED" -> FALSE
                           [] OTHER -> controllerLoaded
  /\ Goto("em", IF ackedState(event) # "none" /\
                   (state # "CONTROLLER_ESTOPPED" \/ event = "ACK_RESET")
                THEN "setState" ELSE "clear")
  /\ guiStatus' = IF pc'["em"] = "clear" /\ ackedState(event) # "none"
                  THEN state ELSE guiStatus
  /\ UNCHANGED <<state, cmdVars, eventVars, portVars, todo, event>>

SetState ==
  /\ pc["em"] = "setState"
  /\ state' = ackedState(event)
  /\ guiStatus' = state'
  /\ Goto("em", "clear")
  /\ UNCHANGED <<controllerLoaded, cmdVars, eventVars, portVars, todo, event>>

ClearPending ==
  /\ pc["em"] = "clear"
  /\ commandPending' = FALSE
  /\ event' = "NO_EVENT"
  /\ Goto("em", "try")
  /\ UNCHANGED <<cmShared, commandBuffer, commandRunMutex, eventVars, portVars,
                 todo, guiStatus>>

(* Sleep only when the semaphore is 0 and no event is queued.              *)
CheckWait ==
  /\ pc["em"] = "check"
  /\ Goto("em", IF eventsWaitingSignal = 0 /\ incomingEvents = <<>>
                THEN "wait" ELSE "take")
  /\ event' = "NO_EVENT"
  /\ UNCHANGED <<cmShared, cmdVars, eventVars, portVars, todo, guiStatus>>

WaitSignal ==
  /\ pc["em"] = "wait"
  /\ eventsWaitingSignal > 0
  /\ eventsWaitingSignal' = eventsWaitingSignal - 1
  /\ Goto("em", "take")
  /\ UNCHANGED <<cmShared, cmdVars, eventBeingWaitedOn, incomingEvents,
                 portVars, todo, event, guiStatus>>

EMThread == TakeEvent \/ Dispatch \/ ThrowEstop \/ SetStateTest \/ SetState
            \/ ClearPending \/ CheckWait \/ WaitSignal
            \/ TryProcessCommand("em")

----------------------------------------------------------------------------
(* The environment: the GUI and RT Ops write to the input ports, and RT    *)
(* Ops reads its command.                                                  *)
GuiCommand(c) ==
  /\ Len(commandBuffer) < MaxCommands
  /\ guiDataIn' = c
  /\ trigger' = TRUE
  /\ UNCHANGED <<cmShared, cmdVars, eventVars, rtOpsDataIn, rtOpsDataOut,
                 threads, guiStatus>>

EventArrives(e) ==
  /\ rtOpsDataIn' = e
  /\ trigger' = TRUE
  /\ UNCHANGED <<cmShared, cmdVars, eventVars, guiDataIn, rtOpsDataOut,
                 threads, guiStatus>>

CommandRead ==
  /\ rtOpsDataOut # "none"
  /\ rtOpsDataOut' = "none"
  /\ UNCHANGED <<cmShared, cmdVars, eventVars, rtOpsDataIn, guiDataIn, trigger,
                 threads, guiStatus>>

Next == \/ CMThread \/ EMThread
        \/ \E c \in UserCommands : GuiCommand(c)
        \/ \E e \in Events : EventArrives(e)
        \/ CommandRead

Spec == Init /\ [][Next]_vars

(* Both threads are scheduled, and RT Ops reads its commands.              *)
FairSpec == Spec /\ WF_vars(CMThread) /\ WF_vars(EMThread) /\ WF_vars(CommandRead)

----------------------------------------------------------------------------
(* The variables keep their types, and a task is only ever half done by    *)
(* the thread that holds commandRunMutex.                                  *)
TypeOK ==
  /\ state \in ControllerManagerState
  /\ controllerLoaded \in BOOLEAN
  /\ commandPending \in BOOLEAN
  /\ commandBuffer \in Seq(UserCommand)
  /\ commandRunMutex \in Threads \cup {"free"}
  /\ eventBeingWaitedOn \in RtOpsEvent
  /\ incomingEvents \in Seq(RtOpsEvent)
  /\ eventsWaitingSignal \in 0..SignalCap
  /\ guiStatus \in ControllerManagerState
  /\ rtOpsDataIn \in RtOpsEvent
  /\ guiDataIn \in UserCommand \cup {"none"}
  /\ rtOpsDataOut \in {"none", "DISABLED", "ENABLED", "RESET", "E_STOP"}
  /\ trigger \in BOOLEAN
  /\ pc \in [Threads -> {"idle", "events", "gui", "updateGui", "try",
                         "pending", "unlock", "handle", "assign",
                         "setEventWait", "setPending", "write", "pop", "take", "dispatch",
                         "throwEstop", "ack", "setState", "clear", "check",
                         "wait"}]
  /\ todo \in [Threads -> {Load, Start, Stop, Unload, EStop, NoTask}]
  /\ event \in RtOpsEvent

(* The steps of tryProcessCommand under commandRunMutex.                   *)
Handling(t) == pc[t] \in {"pending", "unlock", "handle", "assign",
                          "setEventWait", "setPending", "write", "pop"}

(* One command at a time: the two threads never handle commands at once,   *)
(* and the command a thread is in the middle of is still at the head of    *)
(* the queue when it is popped (tryProcessCommand, the push in             *)
(* updateHook).                                                            *)
OneCommandAtATime ==
  /\ ~(Handling("cm") /\ Handling("em"))
  /\ \A t \in Threads :
       Handling(t) /\ pc[t] \notin {"pending", "unlock"}
         => commandBuffer # <<>>

(* No lost wake-up: the event manager never sleeps on a queued event.  The *)
(* test before eventsWaitingSignal.wait() takes no lock, so an event may   *)
(* arrive between the test and the wait; its signal must then be there.    *)
NoLostWakeup ==
  pc["em"] = "wait" /\ incomingEvents # <<>> => eventsWaitingSignal > 0

(* An acknowledgement is waited for before its command is out: whenever    *)
(* RT Ops can read a RESET, the event manager already expects ACK_RESET,   *)
(* until it has seen it (unloadController, setEventWait).                  *)
ResetAwaited ==
  [][rtOpsDataOut' = "RESET" /\ rtOpsDataOut # "RESET"
       => eventBeingWaitedOn = "ACK_RESET"]_vars

(* A GUI command that updateHook has come to queue is queued: the event    *)
(* manager, which works off the command queue under the same               *)
(* commandRunMutex, does not keep the lock from it forever.                *)
GuiCommandQueued ==
  pc["cm"] = "gui" /\ guiDataIn # "none" ~> guiDataIn = "none"

(* handleUserCommand, of CONTROLLER_ESTOPPED: "We'll only respond to a     *)
(* restart command".  CONTROLLER_ESTOPPED is left only when the reset that *)
(* follows a restart is acknowledged.                                      *)
EStoppedUntilReset ==
  [][state = "CONTROLLER_ESTOPPED" /\ state' # "CONTROLLER_ESTOPPED"
       => pc["em"] = "setState" /\ event = "ACK_RESET"]_vars
=============================================================================
