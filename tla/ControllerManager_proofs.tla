----------------------- MODULE ControllerManager_proofs -----------------------
(***************************************************************************)
(* Proofs about the Controller Manager's two threads: commands are handled *)
(* one at a time, no event sleeps in the queue, and a reset is awaited     *)
(* before it is sent.  They hold for any events, GUI commands and garbage  *)
(* and for queues of any length.                                           *)
(***************************************************************************)
EXTENDS ControllerManager, TLAPS

(***************************************************************************)
(* The inductive invariant.  MutexInv: a thread in tryProcessCommand past  *)
(* the try lock holds commandRunMutex.  QueueInv: the command it handles   *)
(* is still queued.  AwaitInv: between setEventWait and the write to RT    *)
(* Ops, nobody else replaces the event being waited on.  AckInv: the event *)
(* manager assigns a state only for an acknowledgement that has one.       *)
(***************************************************************************)
MutexInv == \A t \in Threads : Handling(t) => commandRunMutex = t

QueueInv == \A t \in Threads : Handling(t) /\ pc[t] \notin {"pending", "unlock"}
                                 => commandBuffer # <<>>

AwaitInv == \A t \in Threads :
  /\ pc[t] = "setEventWait" => todo[t].wait # "none"
  /\ pc[t] \in {"setPending", "write"} /\ todo[t].wait # "none"
       => eventBeingWaitedOn = todo[t].wait

AckInv == pc["em"] = "setState" => ackedState(event) # "none"

Inv == TypeOK /\ MutexInv /\ QueueInv /\ AwaitInv /\ AckInv /\ NoLostWakeup

Labels == {"idle", "events", "gui", "updateGui", "try", "pending", "unlock",
           "handle", "assign", "setEventWait", "setPending", "write", "pop",
           "take", "dispatch", "throwEstop", "ack", "setState", "clear",
           "check", "wait"}

Tasks == {Load, Start, Stop, Unload, EStop, NoTask}

----------------------------------------------------------------------------
(* What a task of handleUserCommand may hold in its fields.                *)
LEMMA TaskFields ==
  ASSUME NEW k \in Tasks
  PROVE  /\ k.to \in ControllerManagerState \cup {"none"}
         /\ k.wait \in RtOpsEvent \cup {"none"}
         /\ k.out \in {"none", "DISABLED", "ENABLED", "RESET", "E_STOP"}
         /\ k.out = "RESET" => k.wait = "ACK_RESET"
BY DEF Tasks, Load, Start, Stop, Unload, EStop, NoTask, Task,
       ControllerManagerState, RtOpsEvent

(* handleUserCommand yields tasks.                                         *)
LEMMA HandleTasks ==
  ASSUME NEW s, NEW c, NEW k \in handleUserCommand(s, c)
  PROVE  k \in Tasks
BY DEF handleUserCommand, Tasks

(* The semaphore stays within its cap, and a signal leaves it above 0.     *)
LEMMA SignalType ==
  ASSUME eventsWaitingSignal \in 0..SignalCap, Signal
  PROVE  eventsWaitingSignal' \in 0..SignalCap /\ eventsWaitingSignal' > 0
BY DEF Signal, SignalCap

(* The state of an acknowledgement, where there is one, is a state.        *)
LEMMA AckedType ==
  ASSUME NEW e \in RtOpsEvent
  PROVE  ackedState(e) \in ControllerManagerState \cup {"none"}
BY DEF ackedState, ControllerManagerState

(* What is taken from a queue, and what is left, has the queue's type.     *)
LEMMA HeadTail ==
  ASSUME NEW S, NEW q \in Seq(S), q # <<>>
  PROVE  Head(q) \in S /\ Tail(q) \in Seq(S)
OBVIOUS

(* Goto moves one thread and leaves the other where it is.                 *)
LEMMA GotoFacts ==
  ASSUME TypeOK, NEW t \in Threads, NEW l \in Labels, Goto(t, l)
  PROVE  /\ pc' \in [Threads -> Labels]
         /\ pc'[t] = l
         /\ \A u \in Threads : u # t => pc'[u] = pc[u]
BY DEF TypeOK, Goto, Labels

----------------------------------------------------------------------------
(* The steps of tryProcessCommand, by either thread, preserve the          *)
(* invariant: only the holder of commandRunMutex takes them.               *)
LEMMA TryStep == ASSUME Inv, NEW t \in Threads, TryProcessCommand(t) PROVE Inv'
<1> USE DEF Inv, cmShared, cmdVars, eventVars, portVars, TypeOK, MutexInv,
            QueueInv, AwaitInv, AckInv, NoLostWakeup, Handling, Labels, Threads
<1>1. CASE TryLock(t)
  <2>1. PICK l \in {"pending", "updateGui", "check"} :
          /\ Goto(t, l)
          /\ commandRunMutex' = IF l = "pending" THEN t ELSE commandRunMutex
          /\ l = "pending" => commandRunMutex = "free"
    BY <1>1 DEF TryLock, AfterCommands
  <2> QED
    BY <1>1, <2>1, GotoFacts DEF TryLock
<1>2. CASE ReadPending(t)
  <2>1. PICK l \in {"handle", "unlock"} :
          Goto(t, l) /\ (l = "handle" => commandBuffer # <<>>)
    BY <1>2 DEF ReadPending
  <2> QED
    BY <1>2, <2>1, GotoFacts DEF ReadPending
<1>3. CASE Unlock(t)
  <2>1. PICK l \in {"updateGui", "check"} : Goto(t, l)
    BY <1>3 DEF Unlock, AfterCommands
  <2> QED
    BY <1>3, <2>1, GotoFacts DEF Unlock
<1>4. CASE HandleUserCommand(t)
  <2>1. PICK k \in handleUserCommand(state, Head(commandBuffer)) :
          todo' = [todo EXCEPT ![t] = k] /\ Goto(t, "assign")
    BY <1>4 DEF HandleUserCommand
  <2>2. todo' \in [Threads -> Tasks] /\ \A u \in Threads : u # t => todo'[u] = todo[u]
    BY <2>1, HandleTasks DEF Tasks
  <2> QED
    BY <1>4, <2>1, <2>2, GotoFacts DEF HandleUserCommand, Tasks
<1>5. CASE AssignState(t)
  <2>1. state' \in ControllerManagerState
    BY <1>5, TaskFields DEF AssignState, Tasks
  <2>2. PICK l \in {"setEventWait", "write"} :
          Goto(t, l) /\ (l = "write" => todo[t].wait = "none")
    BY <1>5 DEF AssignState
  <2> QED
    BY <1>5, <2>1, <2>2, GotoFacts DEF AssignState
<1>6. CASE SetEventWait(t)
  <2>1. todo[t].wait \in RtOpsEvent \cup {"none"}
    BY TaskFields DEF Tasks
  <2> QED
    BY <1>6, <2>1, GotoFacts, SignalType DEF SetEventWait
<1>7. CASE SetPending(t)
  BY <1>7, GotoFacts DEF SetPending
<1>8. CASE WriteCommand(t)
  <2>1. rtOpsDataOut' \in {"none", "DISABLED", "ENABLED", "RESET", "E_STOP"}
    BY <1>8, TaskFields DEF WriteCommand, Tasks
  <2> QED
    BY <1>8, <2>1, GotoFacts DEF WriteCommand
<1>9. CASE PopCommand(t)
  <2>1. commandBuffer' \in Seq(UserCommand)
    BY <1>9 DEF PopCommand
  <2>2. todo' \in [Threads -> Tasks] /\ \A u \in Threads : u # t => todo'[u] = todo[u]
    BY <1>9 DEF PopCommand, Tasks
  <2>3. \A u \in Threads : u # t => ~Handling(u)
    BY <1>9 DEF PopCommand
  <2> QED
    BY <1>9, <2>1, <2>2, <2>3, GotoFacts DEF PopCommand, Tasks
<1> QED
  BY <1>1, <1>2, <1>3, <1>4, <1>5, <1>6, <1>7, <1>8, <1>9 DEF TryProcessCommand

(* The steps of updateHook preserve it.  An event is queued together with  *)
(* its signal.                                                             *)
LEMMA UpdateHookStep ==
  ASSUME Inv, UpdateHook \/ ProcessRtOpsEvent \/ QueueCommand \/ UpdateGui
  PROVE  Inv'
<1> USE DEF Inv, cmShared, cmdVars, eventVars, portVars, TypeOK, MutexInv,
            QueueInv, AwaitInv, AckInv, NoLostWakeup, Handling, Labels, Threads
<1>1. CASE UpdateHook
  <2>1. Goto("cm", "events") /\ trigger' \in BOOLEAN
    BY <1>1 DEF UpdateHook
  <2> QED
    BY <1>1, <2>1, GotoFacts DEF UpdateHook
<1>2. CASE ProcessRtOpsEvent
  <2>1. CASE rtOpsDataIn # "NO_EVENT"
    <3>1. incomingEvents' \in Seq(RtOpsEvent)
      BY <1>2, <2>1 DEF ProcessRtOpsEvent
    <3> QED
      BY <1>2, <2>1, <3>1, SignalType DEF ProcessRtOpsEvent, RtOpsEvent
  <2>2. CASE rtOpsDataIn = "NO_EVENT"
    BY <1>2, <2>2, GotoFacts DEF ProcessRtOpsEvent
  <2> QED
    BY <2>1, <2>2
<1>3. CASE QueueCommand
  <2>1. CASE guiDataIn # "none"
    <3>1. commandBuffer' \in Seq(UserCommand) /\ commandBuffer' # <<>>
      BY <1>3, <2>1 DEF QueueCommand
    <3> QED
      BY <1>3, <2>1, <3>1 DEF QueueCommand
  <2>2. CASE guiDataIn = "none"
    BY <1>3, <2>2, GotoFacts DEF QueueCommand
  <2> QED
    BY <2>1, <2>2
<1>4. CASE UpdateGui
  BY <1>4, GotoFacts DEF UpdateGui
<1> QED
  BY <1>1, <1>2, <1>3, <1>4

(* The steps of the event manager preserve it.  It goes to sleep only      *)
(* after it has seen the queue empty.                                      *)
LEMMA EventManagerStep ==
  ASSUME Inv, \/ TakeEvent \/ Dispatch \/ ThrowEstop \/ SetStateTest
              \/ SetState \/ ClearPending \/ CheckWait \/ WaitSignal
  PROVE  Inv'
<1> USE DEF Inv, cmShared, cmdVars, eventVars, portVars, TypeOK, MutexInv,
            QueueInv, AwaitInv, AckInv, NoLostWakeup, Handling, Labels, Threads
<1>1. CASE TakeEvent
  <2>1. CASE incomingEvents # <<>>
    <3>1. Head(incomingEvents) \in RtOpsEvent /\ Tail(incomingEvents) \in Seq(RtOpsEvent)
      BY <2>1, HeadTail
    <3> QED
      BY <1>1, <2>1, <3>1, GotoFacts, ZenonT(30) DEF TakeEvent
  <2>2. CASE incomingEvents = <<>>
    BY <1>1, <2>2, GotoFacts DEF TakeEvent
  <2> QED
    BY <2>1, <2>2
<1>2. CASE Dispatch
  <2>1. PICK l \in {"check", "ack", "throwEstop"} : Goto("em", l)
    BY <1>2 DEF Dispatch
  <2> QED
    BY <1>2, <2>1, GotoFacts DEF Dispatch
<1>3. CASE ThrowEstop
  BY <1>3, GotoFacts DEF ThrowEstop, ControllerManagerState, RtOpsEvent
<1>4. CASE SetStateTest
  <2>1. PICK l \in {"setState", "clear"} :
          Goto("em", l) /\ (l = "setState" => ackedState(event) # "none")
    BY <1>4 DEF SetStateTest
  <2>2. controllerLoaded' \in BOOLEAN /\ guiStatus' \in ControllerManagerState
    BY <1>4 DEF SetStateTest
  <2> QED
    BY <1>4, <2>1, <2>2, GotoFacts, ZenonT(30) DEF SetStateTest
<1>5. CASE SetState
  <2>1. state' \in ControllerManagerState
    BY <1>5, AckedType DEF SetState
  <2> QED
    BY <1>5, <2>1, GotoFacts DEF SetState
<1>6. CASE ClearPending
  <2>1. Goto("em", "try") /\ commandPending' \in BOOLEAN /\ event' \in RtOpsEvent
    BY <1>6 DEF ClearPending, RtOpsEvent
  <2> QED
    BY <1>6, <2>1, GotoFacts DEF ClearPending
<1>7. CASE CheckWait
  <2>1. PICK l \in {"wait", "take"} :
          Goto("em", l) /\ (l = "wait" => incomingEvents = <<>>)
    BY <1>7 DEF CheckWait
  <2> QED
    BY <1>7, <2>1, GotoFacts DEF CheckWait, RtOpsEvent
<1>8. CASE WaitSignal
  <2>1. eventsWaitingSignal' \in 0..SignalCap
    BY <1>8 DEF WaitSignal, SignalCap
  <2> QED
    BY <1>8, <2>1, GotoFacts DEF WaitSignal
<1> QED
  BY <1>1, <1>2, <1>3, <1>4, <1>5, <1>6, <1>7, <1>8

(* The GUI and RT Ops only write to the ports.                             *)
LEMMA EnvironmentStep ==
  ASSUME Inv, \/ \E c \in UserCommands : GuiCommand(c)
              \/ \E e \in Events : EventArrives(e)
              \/ CommandRead
  PROVE  Inv'
<1> USE CMConstants DEF Inv, cmShared, cmdVars, eventVars, threads, TypeOK,
        MutexInv, QueueInv, AwaitInv, AckInv, NoLostWakeup, Handling
<1>1. ASSUME NEW c \in UserCommands, GuiCommand(c) PROVE Inv'
  BY <1>1 DEF GuiCommand
<1>2. ASSUME NEW e \in Events, EventArrives(e) PROVE Inv'
  BY <1>2 DEF EventArrives
<1>3. CASE CommandRead
  BY <1>3 DEF CommandRead
<1> QED
  BY <1>1, <1>2, <1>3

----------------------------------------------------------------------------
(* It holds at the start and is kept by every step of the two threads.     *)
LEMMA InvStarts == ASSUME Init PROVE Inv
<1>1. pc["cm"] = "idle" /\ pc["em"] = "take"
  BY DEF Init, Threads
<1>2. TypeOK
  <2>1. pc \in [Threads -> Labels]
    BY DEF Init, Threads, Labels
  <2>2. todo \in [Threads -> Tasks]
    BY DEF Init, Tasks
  <2>3. /\ commandBuffer \in Seq(UserCommand) /\ incomingEvents \in Seq(RtOpsEvent)
        /\ eventsWaitingSignal \in 0..SignalCap
    BY DEF Init, SignalCap
  <2> QED
    BY <2>1, <2>2, <2>3, CMConstants
    DEF Init, TypeOK, Labels, Tasks, ControllerManagerState, RtOpsEvent
<1> QED
  BY <1>1, <1>2 DEF Inv, MutexInv, QueueInv, AwaitInv, AckInv, NoLostWakeup,
    Handling, Threads

(* Every step preserves the invariant.                                     *)
LEMMA InvKept == ASSUME Inv, [Next]_vars PROVE Inv'
<1>1. CASE UNCHANGED vars
  BY <1>1 DEF Inv, vars, cmShared, cmdVars, eventVars, portVars, threads,
    TypeOK, MutexInv, QueueInv, AwaitInv, AckInv, NoLostWakeup, Handling
<1> QED
  BY <1>1, TryStep, UpdateHookStep, EventManagerStep, EnvironmentStep
  DEF Next, CMThread, EMThread, Threads

(* The inductive invariant of the two threads.                             *)
THEOREM Invariance == Spec => []Inv
BY InvStarts, InvKept, PTL DEF Spec

(* The type invariant, for queues of any length.                           *)
THEOREM TypeCorrect == Spec => []TypeOK
<1>1. Inv => TypeOK
  BY DEF Inv
<1> QED
  BY <1>1, Invariance, PTL

(* updateHook and the event manager never handle commands at once, and     *)
(* neither pops a command that the other has popped already                *)
(* (tryProcessCommand).                                                    *)
THEOREM CommandsExclusive == Spec => []OneCommandAtATime
<1>1. Inv => OneCommandAtATime
  BY DEF Inv, MutexInv, QueueInv, OneCommandAtATime, Threads
<1> QED
  BY <1>1, Invariance, PTL

(* EventManager::loop never sleeps while an event is queued, although it   *)
(* tests the queue without the lock eventCallback takes.                   *)
THEOREM WakeupsKept == Spec => []NoLostWakeup
<1>1. Inv => NoLostWakeup
  BY DEF Inv
<1> QED
  BY <1>1, Invariance, PTL

(* unloadController and setEventWait: the event manager expects ACK_RESET  *)
(* before RT Ops can read the RESET that it acknowledges.                  *)
THEOREM ResetsAwaited == Spec => ResetAwaited
<1> DEFINE Awaited == rtOpsDataOut' = "RESET" /\ rtOpsDataOut # "RESET"
                        => eventBeingWaitedOn = "ACK_RESET"
<1>1. ASSUME Inv, [Next]_vars PROVE Awaited
  <2>1. ASSUME NEW t \in Threads, WriteCommand(t) PROVE Awaited
    <3>1. todo[t] \in Tasks
      BY <1>1 DEF Inv, TypeOK, Tasks
    <3> QED
      BY <1>1, <2>1, <3>1, TaskFields DEF WriteCommand, Inv, AwaitInv
  <2>2. CASE CommandRead
    BY <2>2 DEF CommandRead
  <2>3. CASE ~CommandRead /\ ~(\E t \in Threads : WriteCommand(t))
    <3>1. UNCHANGED rtOpsDataOut
      BY <1>1, <2>3 DEF Next, CMThread, EMThread, Threads, TryProcessCommand,
        TryLock, ReadPending, Unlock, HandleUserCommand, AssignState,
        SetEventWait, SetPending, PopCommand, UpdateHook, ProcessRtOpsEvent,
        QueueCommand, UpdateGui, TakeEvent, Dispatch, ThrowEstop,
        SetStateTest, SetState, ClearPending, CheckWait, WaitSignal,
        GuiCommand, EventArrives, vars, portVars
    <3> QED
      BY <3>1
  <2> QED
    BY <2>1, <2>2, <2>3
<1>2. Inv /\ [Next]_vars => [Awaited]_vars
  BY <1>1
<1> QED
  BY <1>2, Invariance, PTL DEF Spec, ResetAwaited
===============================================================================
