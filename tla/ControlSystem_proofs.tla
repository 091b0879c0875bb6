-------------------------- MODULE ControlSystem_proofs --------------------------
(***************************************************************************)
(* Proofs about the Controller Manager and RT Ops together: at rest they   *)
(* agree on whether a controller is loaded, for any number of commands,    *)
(* failures and missed deadlines and for queues of any length.             *)
(***************************************************************************)
EXTENDS ControlSystem, TLAPS

CMP == INSTANCE ControllerManager_proofs WITH Events <- RtOpsEvents,
                                              rtOpsDataIn <- eventOut

(* The events on their way: in the event manager's queue, in its hand, or  *)
(* anywhere from RT Ops on.                                                *)
Waiting == {incomingEvents[i] : i \in 1 .. Len(incomingEvents)}
Hand == IF pc["em"] \in {"dispatch", "ack", "setState", "clear"} THEN event ELSE "NO_EVENT"
Sent == Waiting \cup {Hand, eventOut}

(* The acknowledgements by which a controller counts as loaded.            *)
LoadAcks == {"ACK_DISABLE", "ACK_ENABLE"}
Turns == LoadAcks \cup {"ACK_RESET"}

Awaiting(e) == commandPending /\ eventBeingWaitedOn = e

(* The thread that handles a command has begun to load a controller, or    *)
(* is about to send the reset that goes with unloading it.                 *)
Loading == \E t \in CMP!Threads :
             todo[t] = CMP!Load /\ pc[t] \in {"setEventWait", "setPending"}
Unloading == \E t \in CMP!Threads : todo[t] = CMP!Unload /\ pc[t] = "write"

(***************************************************************************)
(* The inductive invariant.  RtInv: the types of RT Ops.  IssueInv: a      *)
(* command is handled while none is awaited, and Start and Stop only with  *)
(* a controller.  LoadInv: the two sides agree but while a load or a reset *)
(* is awaited, and everything that may load a controller or has been       *)
(* acknowledged as loading one is true of RT Ops unless it is being reset. *)
(* ResetInv: a reset that is underway is awaited, and from the thread that *)
(* issues it to the event manager that hears of its end nothing that could *)
(* load a controller comes after it.                                       *)
(***************************************************************************)
RtInv ==
  /\ loaded \in BOOLEAN
  /\ cm \in {"idle", "busy", "event", "set", "ack"}
  /\ command \in {"DISABLED", "ENABLED", "RESET", "E_STOP", RT!NoCommand}
  /\ cm = "idle" <=> command = RT!NoCommand
  /\ cm = "event" => command = "E_STOP"
  /\ cm = "ack" => command # "RESET"
  /\ Sent \subseteq RtOpsEvents \cup {"NO_EVENT"}

IssueInv ==
  \A t \in CMP!Threads :
    /\ pc[t] \in {"handle", "assign", "setEventWait", "setPending"} => ~commandPending
    /\ pc[t] = "write" /\ todo[t].wait = "none" => ~commandPending
    /\ pc[t] = "setPending" => todo[t].wait # "none"
    /\ pc[t] = "write" /\ todo[t] = CMP!Load => commandPending \/ loaded
    /\ pc[t] = "write" /\ todo[t] = CMP!Unload => commandPending
    /\ pc[t] \in {"assign", "write"} /\ todo[t] \in {CMP!Start, CMP!Stop}
         => controllerLoaded

LoadInv ==
  /\ ~commandPending => (controllerLoaded <=> loaded)
  /\ commandPending => eventBeingWaitedOn \in {"ACK_DISABLE", "ACK_RESET", "ACK_E_STOP"}
  /\ Awaiting("ACK_E_STOP") => (controllerLoaded <=> loaded)
  /\ state \in {"CONTROLLER_STOPPED", "CONTROLLER_RUNNING"} =>
       controllerLoaded \/ Awaiting("ACK_DISABLE") \/ Awaiting("ACK_RESET") \/ Loading
  /\ rtOpsDataOut = "ENABLED" \/ command = "ENABLED" => loaded
  /\ rtOpsDataOut = "DISABLED" \/ command = "DISABLED" => loaded \/ Awaiting("ACK_DISABLE")
  /\ command = "DISABLED" /\ cm \in {"set", "ack"} => loaded
  /\ Sent \cap LoadAcks # {} => loaded \/ Awaiting("ACK_RESET")
  /\ Hand = "ACK_DISABLE" /\ pc["em"] \in {"setState", "clear"} => controllerLoaded

Resetting == currentState = "RESET" \/ loop \in {"resetDone", "ackReset"}
NoneToCome == ~Unloading /\ rtOpsDataOut = "none" /\ cm = "idle" /\ ~loaded

QueueInv ==
  \A i, j \in 1 .. Len(incomingEvents) :
    incomingEvents[i] = "ACK_RESET" /\ i < j => incomingEvents[j] \notin Turns

ResetInv ==
  /\ (Unloading \/ rtOpsDataOut = "RESET" \/ command = "RESET"
        \/ Resetting \/ "ACK_RESET" \in Sent)
       => Awaiting("ACK_RESET")
  /\ rtOpsDataOut = "RESET" => ~Unloading
  /\ command = "RESET" => ~Unloading /\ rtOpsDataOut = "none" /\ (cm = "set" => ~loaded)
  /\ Resetting => NoneToCome
  /\ loop = "ackReset" => currentState # "RESET"
  /\ "ACK_RESET" \in Sent => NoneToCome /\ ~Resetting
  /\ "ACK_RESET" \in Waiting \cup {Hand} => eventOut \notin Turns
  /\ Hand = "ACK_RESET" =>
       /\ Waiting \cap Turns = {}
       /\ pc["em"] \in {"setState", "clear"} => ~controllerLoaded
       /\ pc["em"] = "clear" => state = "NO_CONTROLLER_LOADED"

AgreeInv == IssueInv /\ LoadInv /\ ResetInv /\ QueueInv

Inv == CMP!Inv /\ RtInv /\ (~waitCutShort => AgreeInv)

----------------------------------------------------------------------------
(* Its constants are the Controller Manager's too.                         *)
LEMMA CMConstants == CMP!CMConstants
BY ControlSystemConstants
DEF CM!CMConstants, CMP!CMConstants, CM!RtOpsEvent, CMP!RtOpsEvent, CM!UserCommand,
    CMP!UserCommand

(* What RT Ops's steps leave alone.                                        *)
LEMMA Kept ==
  ASSUME UNCHANGED cmOnly
  PROVE  /\ UNCHANGED <<state, controllerLoaded, commandPending, eventBeingWaitedOn>>
         /\ UNCHANGED <<Waiting, Hand, Loading, Unloading, QueueInv>>
         /\ pc' = pc /\ todo' = todo
BY DEF cmOnly, Waiting, Hand, Loading, Unloading, QueueInv

(* A command that is being issued, seen from RT Ops: what is to be loaded  *)
(* is loaded or awaited.                                                   *)
LEMMA IssueKept ==
  ASSUME IssueInv, UNCHANGED cmOnly, loaded => loaded'
  PROVE  IssueInv'
BY Kept DEF IssueInv

(* A step of RT Ops that neither unloads a controller nor touches the      *)
(* command port, and sends no acknowledgement of a load or a reset.        *)
LEMMA RtQuiet ==
  ASSUME AgreeInv, RtInv, UNCHANGED <<cmOnly, rtOpsDataOut, loaded>>,
         eventOut' = eventOut \/ eventOut' \notin Turns,
         \/ UNCHANGED <<command, cm>>
         \/ cm # "idle" /\ cm' # "idle" /\ command' = command
            /\ (command = "RESET" /\ cm' = "set" => ~loaded)
            /\ (command = "DISABLED" /\ cm' \in {"set", "ack"} => loaded)
         \/ command' = "DISABLED" /\ command = "ENABLED" 
         \/ cm # "idle" /\ cm' = "idle" /\ command # "RESET"
            /\ command' = RT!NoCommand,
         \/ UNCHANGED <<currentState, loop>>
         \/ currentState' # "RESET" /\ loop' = loop
         \/ currentState' = currentState /\ loop' \notin {"resetDone", "ackReset"}
         \/ ~Resetting'
  PROVE  AgreeInv'
<1> USE DEF AgreeInv, RtInv, RT!NoCommand
<1>1. IssueInv' /\ QueueInv'
  BY IssueKept, Kept
<1>2. LoadInv'
  BY Kept DEF LoadInv, Awaiting, Sent, Turns, LoadAcks
<1>3. ResetInv'
  BY Kept DEF ResetInv, Awaiting, Sent, Turns, LoadAcks, NoneToCome, Resetting
<1> QED
  BY <1>1, <1>2, <1>3

(* The types of RT Ops's side.                                             *)
LEMMA RtTypes ==
  ASSUME RtInv, UNCHANGED cmOnly,
         eventOut' \in RtOpsEvents \cup {"NO_EVENT"},
         loaded' \in BOOLEAN,
         \/ UNCHANGED <<command, cm>>
         \/ command' = command /\ cm \notin {"idle", "event"} /\ cm' \in {"busy", "set"}
         \/ command' = command /\ cm' \in {"event", "set"} /\ command = "E_STOP"
         \/ command' = "DISABLED" /\ cm' = "set"
         \/ command' = command /\ cm = "set" /\ cm' = "ack" /\ command # "RESET"
         \/ command' = RT!NoCommand /\ cm' = "idle"
         \/ /\ command' \in {"DISABLED", "ENABLED", "RESET", "E_STOP"}
            /\ cm' = "busy"
  PROVE  RtInv'
BY Kept DEF RtInv, Sent, RT!NoCommand

(* RT Ops keeps its types and writes events of its own only.               *)
LEMMA RtTypeStep ==
  ASSUME RtInv, UNCHANGED cmOnly,
         \/ RT!Sending \/ RT!Silent \/ RT!MissedDeadline
         \/ \E c \in {"DISABLED", "ENABLED", "RESET", "E_STOP"} : RT!Receive(c)
  PROVE  RtInv' /\ eventOut' \in RtOpsEvents \cup {eventOut}
<1>1. CASE RT!MedullaFails \/ RT!MedullaEStop \/ RT!LoopEnabled \/ RT!LoopContinues
           \/ RT!LoopHalt \/ RT!LoopEStop("controllerEvent") \/ RT!LoopEStop("safetyEvent")
           \/ RT!ResetOver \/ RT!ResetDone
  <2>1. UNCHANGED <<loaded, eventOut, cm, command>>
    BY <1>1 DEF RT!MedullaFails, RT!MedullaEStop, RT!LoopEnabled, RT!LoopContinues,
       RT!LoopHalt, RT!LoopEStop, RT!ResetOver, RT!ResetDone
  <2> QED
    BY <2>1, RtTypes DEF RtInv, Sent
<1>2. CASE RT!MedullaEvent \/ RT!ControllerEvent \/ RT!SafetyEvent \/ RT!LoopMustHalt
           \/ RT!AckReset \/ RT!MissedDeadline
  <2>1. UNCHANGED <<loaded, cm, command>> /\ eventOut' \in RtOpsEvents
    BY <1>2 DEF RT!MedullaEvent, RT!ControllerEvent, RT!SafetyEvent, RT!LoopMustHalt,
       RT!AckReset, RT!MissedDeadline, RtOpsEvents
  <2> QED
    BY <2>1, RtTypes DEF RtInv
<1>3. CASE RT!ChangeLoaded \/ RT!Proceed \/ RT!CommandEStop \/ RT!SetCommandedState
           \/ \E c \in {"DISABLED", "ENABLED", "RESET", "E_STOP"} : RT!Receive(c)
  <2>1. eventOut' = eventOut /\ loaded' \in BOOLEAN
    BY <1>3 DEF RT!ChangeLoaded, RT!Proceed, RT!CommandEStop, RT!SetCommandedState,
       RT!Receive, RtInv
  <2>2. \/ command' = command /\ cm = "busy" /\ cm' \in {"busy", "set"}
        \/ command' = command /\ cm' = "event" /\ command = "E_STOP"
        \/ command' = command /\ cm = "set" /\ cm' = "ack" /\ command # "RESET"
        \/ command' = RT!NoCommand /\ cm' = "idle"
        \/ command' \in {"DISABLED", "ENABLED", "RESET", "E_STOP"} /\ cm' = "busy"
    BY <1>3 DEF RT!ChangeLoaded, RT!Proceed, RT!CommandEStop, RT!SetCommandedState,
       RT!Receive, RtInv, RT!NoCommand
  <2> QED
    BY <2>1, <2>2, RtTypes DEF RtInv, Sent
<1>4. CASE RT!Refuse \/ RT!CommandEvent \/ RT!Acknowledge
  <2>1. loaded' = loaded /\ eventOut' \in RtOpsEvents
    BY <1>4 DEF RT!Refuse, RT!CommandEvent, RT!Acknowledge, RtInv, RtOpsEvents,
       RT!NoCommand, RT!ackOf
  <2>2. \/ command' = command /\ cm' \in {"event", "set"} /\ command = "E_STOP"
        \/ command' = "DISABLED" /\ cm' = "set"
        \/ command' = RT!NoCommand /\ cm' = "idle"
    BY <1>4 DEF RT!Refuse, RT!CommandEvent, RT!Acknowledge, RtInv
  <2> QED
    BY <2>1, <2>2, RtTypes DEF RtInv
<1>5. ~RT!Abandon
  BY DEF RT!Abandon, RtInv
<1> QED
  BY <1>1, <1>2, <1>3, <1>4, <1>5 DEF RT!Sending, RT!Silent

(* RT Ops's steps, those that matter for loading first.                    *)
LEMMA ResetSteps ==
  ASSUME RtInv, AgreeInv, UNCHANGED <<cmOnly, rtOpsDataOut>>,
         RT!ResetOver \/ RT!ResetDone \/ RT!AckReset
  PROVE  AgreeInv'
<1> USE DEF AgreeInv
<1>1. /\ loaded' = loaded /\ command' = command /\ cm' = cm
      /\ eventOut' \in {eventOut, "ACK_RESET"}
  BY DEF RT!ResetOver, RT!ResetDone, RT!AckReset
<1>3. IssueInv' /\ QueueInv'
  BY <1>1, IssueKept, Kept
<1>4. Resetting /\ (Resetting' \/ eventOut' = "ACK_RESET")
  BY DEF RT!ResetOver, RT!ResetDone, RT!AckReset, Resetting
<1>5. LoadInv'
  BY <1>1, <1>4, Kept DEF LoadInv, Awaiting, Sent, LoadAcks
<1>6. ResetInv'
  <2>1. CASE RT!ResetOver \/ RT!ResetDone
    <3>1. eventOut' = eventOut /\ Resetting' /\ (loop' = "ackReset" => currentState' # "RESET")
      BY <2>1 DEF RT!ResetOver, RT!ResetDone, Resetting, RT!setState
    <3> QED
      BY <1>1, <1>4, <3>1, Kept DEF ResetInv, NoneToCome, Awaiting, Sent, Turns, LoadAcks
  <2>2. CASE RT!AckReset
    <3>1. /\ eventOut' = "ACK_RESET" /\ loop = "ackReset" /\ loop' = "idle"
          /\ currentState' = currentState
      BY <2>2 DEF RT!AckReset
    <3> QED
      BY <1>1, <1>4, <3>1, Kept
      DEF ResetInv, NoneToCome, Awaiting, Sent, Turns, LoadAcks, Resetting
  <2> QED
    BY <2>1, <2>2
<1> QED
  BY <1>3, <1>5, <1>6

(* RT Ops loads, changes its state or acknowledges.                        *)
LEMMA LoadSteps ==
  ASSUME RtInv, AgreeInv, CMP!Inv, UNCHANGED <<cmOnly, rtOpsDataOut>>,
         RT!ChangeLoaded \/ RT!SetCommandedState \/ RT!Acknowledge
  PROVE  AgreeInv'
<1> USE DEF AgreeInv, RT!NoCommand
<1>1. CASE RT!ChangeLoaded
  <2>1. /\ cm = "busy" /\ cm' \in {"busy", "set"} /\ command' = command
        /\ command \in {"DISABLED", "RESET"}
        /\ loaded' \in BOOLEAN /\ (loaded' <=> command = "DISABLED")
        /\ UNCHANGED <<currentState, eventOut, loop>>
    BY <1>1 DEF RT!ChangeLoaded, RtInv
  <2>3. CASE command = "DISABLED"
    <3>0. loaded'
      BY <2>1, <2>3
    <3>1. IssueInv' /\ QueueInv'
      BY <2>1, <2>3, IssueKept, Kept
    <3>2. LoadInv'
      BY <2>1, <2>3, <3>0, Kept DEF LoadInv, Awaiting, Sent, LoadAcks
    <3>3. ResetInv'
      BY <2>1, <2>3, Kept
      DEF ResetInv, NoneToCome, Awaiting, Sent, Turns, LoadAcks, Resetting
    <3> QED
      BY <3>1, <3>2, <3>3
  <2>4. CASE command = "RESET"
    <3>1. Awaiting("ACK_RESET") /\ ~loaded' /\ rtOpsDataOut = "none"
      BY <2>1, <2>4 DEF ResetInv
    <3>2. IssueInv'
      BY <3>1, Kept DEF IssueInv, Awaiting
    <3>3. LoadInv'
      BY <2>1, <2>4, <3>1, Kept DEF LoadInv, Awaiting, Sent, LoadAcks
    <3>4. ResetInv'
      BY <2>1, <2>4, <3>1, Kept
      DEF ResetInv, NoneToCome, Awaiting, Sent, Turns, LoadAcks, Resetting
    <3> QED
      BY <3>2, <3>3, <3>4, Kept
  <2> QED
    BY <2>1, <2>3, <2>4
<1>2. CASE RT!SetCommandedState
  <2>1. /\ cm = "set" /\ UNCHANGED <<loaded, eventOut, loop>>
        /\ currentState' \in {command, currentState}
        /\ currentState' = "RESET" => command = "RESET"
        /\ IF command = "RESET" THEN cm' = "idle" /\ command' = RT!NoCommand
           ELSE cm' = "ack" /\ command' = command
    <3>1. currentState' = "RESET" => command = "RESET" \/ currentState = "E_STOP"
      BY <1>2 DEF RT!SetCommandedState, RT!setState
    <3> QED
      BY <1>2, <3>1 DEF RT!SetCommandedState, RT!setState
  <2>3. CASE command = "RESET"
    <3>1. IssueInv' /\ QueueInv'
      BY <2>1, IssueKept, Kept
    <3>2. LoadInv'
      BY <2>1, <2>3, Kept DEF LoadInv, Awaiting, Sent, LoadAcks
    <3>3. ResetInv'
      BY <2>1, <2>3, Kept
      DEF ResetInv, NoneToCome, Awaiting, Sent, Turns, LoadAcks, Resetting, RtInv
    <3> QED
      BY <3>1, <3>2, <3>3
  <2>4. CASE command # "RESET"
    <3>1. eventOut' \notin Turns \/ eventOut' = eventOut
      BY <2>1
    <3>2. IssueInv' /\ QueueInv'
      BY <2>1, IssueKept, Kept
    <3>3. LoadInv'
      BY <2>1, <2>4, Kept DEF LoadInv, Awaiting, Sent, LoadAcks
    <3>4. ResetInv'
      BY <2>1, <2>4, Kept
      DEF ResetInv, NoneToCome, Awaiting, Sent, Turns, LoadAcks, Resetting, RtInv
    <3> QED
      BY <3>2, <3>3, <3>4
  <2> QED
    BY <2>3, <2>4
<1>3. CASE RT!Acknowledge
  <2>1. /\ cm = "ack" /\ cm' = "idle" /\ command' = RT!NoCommand
        /\ UNCHANGED <<currentState, loaded, loop>>
        /\ command \in {"DISABLED", "ENABLED", "E_STOP"}
        /\ eventOut' = CASE command = "DISABLED" -> "ACK_DISABLE"
                         [] command = "ENABLED" -> "ACK_ENABLE"
                         [] OTHER -> "ACK_E_STOP"
    BY <1>3 DEF RT!Acknowledge, RT!ackOf, RtInv
  <2>3. eventOut' \in LoadAcks => loaded
    BY <2>1 DEF LoadAcks, LoadInv
  <2>4. IssueInv' /\ QueueInv'
    BY <2>1, IssueKept, Kept
  <2>5. LoadInv'
    BY <2>1, <2>3, Kept DEF LoadInv, Awaiting, Sent, LoadAcks
  <2>6. ResetInv'
    BY <2>1, Kept
    DEF ResetInv, NoneToCome, Awaiting, Sent, Turns, LoadAcks, Resetting
  <2> QED
    BY <2>4, <2>5, <2>6
<1> QED
  BY <1>1, <1>2, <1>3

(* Every step of RT Ops keeps the agreement.                               *)
LEMMA RtStep ==
  ASSUME RtInv, CMP!Inv, AgreeInv, UNCHANGED <<cmOnly, rtOpsDataOut>>,
         RT!Sending \/ RT!Silent \/ RT!MissedDeadline
  PROVE  AgreeInv'
<1>1. CASE RT!ResetOver \/ RT!ResetDone \/ RT!AckReset
  BY <1>1, ResetSteps
<1>2. CASE RT!ChangeLoaded \/ RT!SetCommandedState \/ RT!Acknowledge
  BY <1>2, LoadSteps
<1>3. CASE RT!Proceed \/ RT!Refuse \/ RT!CommandEStop \/ RT!CommandEvent
  <2>1. /\ UNCHANGED <<loaded, loop>> /\ currentState' \in {currentState, "E_STOP"}
        /\ eventOut' \in {eventOut, "SAFETY", "CM_COMMAND_ESTOP"}
    BY <1>3 DEF RT!Proceed, RT!Refuse, RT!CommandEStop, RT!CommandEvent, RT!setState, RtInv
  <2>2. \/ /\ cm # "idle" /\ cm' # "idle" /\ command' = command
           /\ command = "RESET" /\ cm' = "set" => ~loaded
           /\ command = "DISABLED" /\ cm' \in {"set", "ack"} => loaded
        \/ command' = "DISABLED" /\ command = "ENABLED" /\ cm # "idle" /\ cm' # "idle"
    BY <1>3 DEF RT!Proceed, RT!Refuse, RT!CommandEStop, RT!CommandEvent, RtInv
  <2> QED
    BY <2>1, <2>2, RtQuiet DEF Turns, LoadAcks
<1>4. CASE RT!MedullaFails \/ RT!MedullaEStop \/ RT!LoopEnabled \/ RT!LoopContinues
           \/ RT!LoopHalt \/ RT!LoopEStop("controllerEvent") \/ RT!LoopEStop("safetyEvent")
  <2>1. UNCHANGED <<loaded, eventOut, cm, command>>
    BY <1>4 DEF RT!MedullaFails, RT!MedullaEStop, RT!LoopEnabled, RT!LoopContinues,
       RT!LoopHalt, RT!LoopEStop
  <2>2. \/ UNCHANGED <<currentState, loop>>
        \/ currentState' = "E_STOP" /\ loop' = loop
        \/ currentState' = currentState /\ loop' \in {"enabled", "idle"}
        \/ currentState' # "RESET" /\ loop' \in {"controllerEvent", "safetyEvent", "idle"}
    BY <1>4 DEF RT!MedullaFails, RT!MedullaEStop, RT!LoopEnabled, RT!LoopContinues,
       RT!LoopHalt, RT!LoopEStop, RT!setState
  <2> QED
    BY <2>1, <2>2, RtQuiet DEF Resetting
<1>5. CASE RT!MedullaEvent \/ RT!ControllerEvent \/ RT!SafetyEvent \/ RT!LoopMustHalt
           \/ RT!MissedDeadline
  <2>1. /\ UNCHANGED <<loaded, cm, command, currentState>>
        /\ eventOut' \in {"MEDULLA_ESTOP", "CONTROLLER_ESTOP", "SAFETY", "MISSED_DEADLINE"}
        /\ loop' = loop \/ loop' \in {"enabled", "idle", "halt"}
    BY <1>5 DEF RT!MedullaEvent, RT!ControllerEvent, RT!SafetyEvent, RT!LoopMustHalt,
       RT!MissedDeadline
  <2> QED
    BY <2>1, RtQuiet DEF Turns, LoadAcks
<1>6. ~RT!Abandon
  BY DEF RT!Abandon, RtInv
<1> QED
  BY <1>1, <1>2, <1>3, <1>4, <1>5, <1>6 DEF RT!Sending, RT!Silent

(* RTOps::updateHook reads the command port.                               *)
LEMMA ReceiveStep ==
  ASSUME RtInv, CMP!Inv, AgreeInv, RtOpsReceives
  PROVE  AgreeInv'
<1> USE DEF AgreeInv, RT!NoCommand
<1>1. /\ UNCHANGED cmOnly /\ UNCHANGED <<currentState, loaded, eventOut, loop>>
      /\ rtOpsDataOut' = "none" /\ command' = rtOpsDataOut /\ cm = "idle" /\ cm' # "idle"
      /\ rtOpsDataOut # "none"
  BY DEF RtOpsReceives, RT!Receive
<1>2. cm' = "busy" /\ rtOpsDataOut \in {"DISABLED", "ENABLED", "RESET", "E_STOP"}
  BY <1>1 DEF CMP!Inv, CMP!TypeOK, RtOpsReceives, RT!Receive
<1>3. IssueInv' /\ QueueInv'
  BY <1>1, IssueKept, Kept
<1>4. LoadInv'
  BY <1>1, <1>2, Kept DEF LoadInv, Awaiting, Sent, LoadAcks
<1>5. ResetInv'
  BY <1>1, <1>2, Kept
  DEF ResetInv, NoneToCome, Awaiting, Sent, Turns, LoadAcks, Resetting
<1> QED
  BY <1>3, <1>4, <1>5

----------------------------------------------------------------------------
(* The Controller Manager's steps.  A thread that handles a command:       *)
Holding(t) == pc[t] \in {"handle", "assign", "setEventWait", "setPending", "write"}

(* One thread holds the command at a time.                                 *)
LEMMA OneHolder ==
  ASSUME CMP!Inv, NEW t \in CMP!Threads, NEW u \in CMP!Threads, t # u,
         Holding(t) \/ pc[t] \in {"pending", "pop"}
  PROVE  ~Holding(u)
BY DEF CMP!Inv, CMP!MutexInv, CMP!Handling, Holding

(* A thread that moves between places where it handles no command leaves   *)
(* everything as it is.                                                    *)
LEMMA QuietMove ==
  ASSUME AgreeInv, NEW t \in CMP!Threads,
         ~Holding(t), pc'[t] \notin {"handle", "assign", "setEventWait", "setPending", "write"},
         \A u \in CMP!Threads \ {t} : pc'[u] = pc[u] /\ todo'[u] = todo[u],
         UNCHANGED <<state, controllerLoaded, commandPending, eventBeingWaitedOn,
                     incomingEvents, eventOut, rtOpsDataOut, rtOnly>>,
         Hand' \in {Hand, "NO_EVENT"},
         Hand' # "NO_EVENT" => pc'["em"] \in {pc["em"], "ack"}
  PROVE  AgreeInv'
<1> USE DEF AgreeInv
<1>1. UNCHANGED <<Loading, Unloading, Waiting, QueueInv>>
  BY DEF Loading, Unloading, Waiting, QueueInv, Holding
<1>2. UNCHANGED <<currentState, loaded, loop, cm, command>>
  BY DEF rtOnly
<1>3. IssueInv'
  BY <1>2 DEF IssueInv, Holding
<1>4. LoadInv'
  BY <1>1, <1>2 DEF LoadInv, Awaiting, Sent, LoadAcks
<1>5. ResetInv'
  BY <1>1, <1>2 DEF ResetInv, NoneToCome, Awaiting, Sent, Turns, LoadAcks, Resetting
<1> QED
  BY <1>1, <1>3, <1>4, <1>5

(* tryProcessCommand, by either thread, from its lock to its return.       *)
LEMMA TryMoves ==
  ASSUME AgreeInv, CMP!Inv, NEW t \in CMP!Threads, UNCHANGED rtOnly,
         CMP!TryLock(t) \/ CMP!Unlock(t) \/ CMP!PopCommand(t)
  PROVE  AgreeInv'
<1>1. PICK l \in {"pending", "updateGui", "check", "try"} : CMP!Goto(t, l)
  BY DEF CMP!TryLock, CMP!Unlock, CMP!PopCommand, CMP!AfterCommands
<1>2. /\ UNCHANGED <<state, controllerLoaded, commandPending, eventBeingWaitedOn,
                     incomingEvents, eventOut, rtOpsDataOut, event>>
      /\ \A u \in CMP!Threads \ {t} : todo'[u] = todo[u]
      /\ pc[t] \in {"try", "unlock", "pop"}
  BY DEF CMP!TryLock, CMP!Unlock, CMP!PopCommand, CMP!cmShared, CMP!cmdVars,
     CMP!eventVars, CMP!portVars, CMP!Inv, CMP!TypeOK
<1>3. pc'[t] = l /\ \A u \in CMP!Threads : u # t => pc'[u] = pc[u]
  BY <1>1, CMP!GotoFacts, CMConstants DEF CMP!Inv, CMP!Labels
<1>4. Hand' = Hand /\ (Hand # "NO_EVENT" => t # "em")
  BY <1>2, <1>3 DEF Hand, CMP!Threads
<1> QED
  BY <1>2, <1>3, <1>4, QuietMove DEF Holding, CMP!Threads

(* A thread looks whether a command is pending.                            *)
LEMMA ReadStep ==
  ASSUME AgreeInv, CMP!Inv, NEW t \in CMP!Threads, UNCHANGED rtOnly, CMP!ReadPending(t)
  PROVE  AgreeInv'
<1>1. PICK l \in {"handle", "unlock"} :
        CMP!Goto(t, l) /\ (l = "handle" => ~commandPending)
  BY DEF CMP!ReadPending
<1>2. /\ UNCHANGED <<state, controllerLoaded, commandPending, eventBeingWaitedOn,
                     incomingEvents, eventOut, rtOpsDataOut, event, todo>>
      /\ pc[t] = "pending"
  BY DEF CMP!ReadPending, CMP!cmShared, CMP!cmdVars, CMP!eventVars, CMP!portVars
<1>3. pc'[t] = l /\ \A u \in CMP!Threads : u # t => pc'[u] = pc[u]
  BY <1>1, CMP!GotoFacts, CMConstants DEF CMP!Inv, CMP!Labels
<1>4. Hand' = Hand /\ (Hand # "NO_EVENT" => pc'["em"] = pc["em"])
  BY <1>2, <1>3 DEF Hand, CMP!Threads
<1>5. UNCHANGED <<Loading, Unloading, Waiting, QueueInv>>
  BY <1>2, <1>3 DEF Loading, Unloading, Waiting, QueueInv
<1>6. UNCHANGED <<currentState, loaded, loop, cm, command>>
  BY DEF rtOnly
<1> USE DEF AgreeInv
<1>7. IssueInv'
  BY <1>1, <1>2, <1>3, <1>6 DEF IssueInv
<1>8. LoadInv'
  BY <1>2, <1>4, <1>5, <1>6 DEF LoadInv, Awaiting, Sent, LoadAcks
<1>9. ResetInv'
  BY <1>2, <1>4, <1>5, <1>6
  DEF ResetInv, NoneToCome, Awaiting, Sent, Turns, LoadAcks, Resetting
<1> QED
  BY <1>5, <1>7, <1>8, <1>9

(* A step of the thread that holds commandRunMutex, from handle on: no     *)
(* command is awaited before SetPending, and the other thread issues none. *)
LEMMA HolderFacts ==
  ASSUME AgreeInv, CMP!Inv, NEW t \in CMP!Threads, Holding(t)
  PROVE  /\ \A u \in CMP!Threads : u # t => ~Holding(u)
         /\ todo[t] \in CMP!Tasks
         /\ pc[t] # "write" => /\ ~commandPending /\ (controllerLoaded <=> loaded)
                               /\ ~Unloading /\ rtOpsDataOut # "RESET"
                               /\ command # "RESET" /\ ~Resetting /\ "ACK_RESET" \notin Sent
         /\ Loading => todo[t] = CMP!Load /\ pc[t] \in {"setEventWait", "setPending"}
         /\ Unloading => todo[t] = CMP!Unload /\ pc[t] = "write"
<1>1. \A u \in CMP!Threads : u # t => ~Holding(u)
  BY OneHolder
<1>2. todo[t] \in CMP!Tasks
  BY DEF CMP!Inv, CMP!TypeOK, CMP!Tasks
<1>3. pc[t] # "write" => ~commandPending
  BY DEF Holding, AgreeInv, IssueInv
<1> QED
  BY <1>1, <1>2, <1>3 DEF AgreeInv, LoadInv, ResetInv, Awaiting, Loading, Unloading, Holding

(* handleUserCommand decides on a task while no command is awaited: to     *)
(* start or to stop a controller there must be one.                        *)
LEMMA HandleStep ==
  ASSUME AgreeInv, CMP!Inv, NEW t \in CMP!Threads, UNCHANGED rtOnly,
         CMP!HandleUserCommand(t)
  PROVE  AgreeInv'
<1>1. PICK k \in CMP!handleUserCommand(state, Head(commandBuffer)) :
        todo' = [todo EXCEPT ![t] = k] /\ CMP!Goto(t, "assign")
  BY DEF CMP!HandleUserCommand
<1>2. /\ UNCHANGED <<state, controllerLoaded, commandPending, eventBeingWaitedOn,
                     incomingEvents, eventOut, rtOpsDataOut, event>>
      /\ UNCHANGED <<currentState, loaded, loop, cm, command>>
      /\ pc[t] = "handle" /\ Holding(t)
  BY DEF CMP!HandleUserCommand, CMP!cmShared, CMP!cmdVars, CMP!eventVars, CMP!portVars,
     rtOnly, Holding
<1>3. pc'[t] = "assign" /\ \A u \in CMP!Threads : u # t => pc'[u] = pc[u]
  BY <1>1, CMP!GotoFacts, CMConstants DEF CMP!Inv, CMP!Labels
<1>4. todo'[t] = k /\ \A u \in CMP!Threads : u # t => todo'[u] = todo[u]
  BY <1>1 DEF CMP!Inv, CMP!TypeOK
<1>5. /\ \A u \in CMP!Threads : u # t => ~Holding(u)
      /\ ~commandPending /\ ~Loading /\ ~Unloading
  BY <1>2, HolderFacts
<1>6. ~Loading' /\ ~Unloading'
  BY <1>3, <1>5 DEF Loading, Unloading, Holding
<1>7. Hand' = Hand /\ (Hand # "NO_EVENT" => pc'["em"] = pc["em"])
      /\ Waiting' = Waiting /\ (QueueInv' <=> QueueInv)
  BY <1>2, <1>3 DEF Hand, CMP!Threads, Waiting, QueueInv
<1>8. k \in {CMP!Start, CMP!Stop} => state \in {"CONTROLLER_STOPPED", "CONTROLLER_RUNNING"}
  <2>1. state \notin {"CONTROLLER_STOPPED", "CONTROLLER_RUNNING"} =>
          k \in {CMP!Load, CMP!Unload, CMP!NoTask}
    BY DEF CMP!handleUserCommand
  <2>2. {CMP!Start, CMP!Stop} \cap {CMP!Load, CMP!Unload, CMP!NoTask} = {}
    BY DEF CMP!Start, CMP!Stop, CMP!Load, CMP!Unload, CMP!NoTask, CMP!Task
  <2> QED
    BY <2>1, <2>2
<1> USE DEF AgreeInv
<1>9. IssueInv'
  BY <1>2, <1>3, <1>4, <1>5, <1>8 DEF IssueInv, Holding, LoadInv, Awaiting
<1>10. LoadInv'
  BY <1>2, <1>5, <1>6, <1>7 DEF LoadInv, Awaiting, Sent, LoadAcks
<1>11. ResetInv'
  BY <1>2, <1>5, <1>6, <1>7
  DEF ResetInv, NoneToCome, Awaiting, Sent, Turns, LoadAcks, Resetting
<1> QED
  BY <1>7, <1>9, <1>10, <1>11

(* The steps of a thread that has a task, up to the write: they change     *)
(* nothing RT Ops or the event manager can see but state and the awaited   *)
(* event.                                                                  *)
LEMMA TaskStep ==
  ASSUME AgreeInv, CMP!Inv, NEW t \in CMP!Threads, UNCHANGED rtOnly,
         CMP!AssignState(t) \/ CMP!SetEventWait(t) \/ CMP!SetPending(t)
  PROVE  AgreeInv'
<1>1. PICK l \in {"setEventWait", "setPending", "write"} : CMP!Goto(t, l)
  BY DEF CMP!AssignState, CMP!SetEventWait, CMP!SetPending
<1>2. /\ UNCHANGED <<controllerLoaded, incomingEvents, eventOut, rtOpsDataOut, event, todo>>
      /\ UNCHANGED <<currentState, loaded, loop, cm, command>>
      /\ pc[t] \in {"assign", "setEventWait", "setPending"} /\ Holding(t)
  BY DEF CMP!AssignState, CMP!SetEventWait, CMP!SetPending, CMP!cmShared, CMP!cmdVars,
     CMP!eventVars, CMP!portVars, rtOnly, Holding
<1>3. pc'[t] = l /\ \A u \in CMP!Threads : u # t => pc'[u] = pc[u]
  BY <1>1, CMP!GotoFacts, CMConstants DEF CMP!Inv, CMP!Labels
<1>4. /\ \A u \in CMP!Threads : u # t => ~Holding(u)
      /\ todo[t] \in CMP!Tasks
      /\ ~commandPending /\ (controllerLoaded <=> loaded)
      /\ ~Unloading /\ rtOpsDataOut # "RESET"
      /\ command # "RESET" /\ ~Resetting /\ "ACK_RESET" \notin Sent
      /\ Loading <=> todo[t] = CMP!Load /\ pc[t] \in {"setEventWait", "setPending"}
  BY <1>2, HolderFacts DEF Loading
<1>5. /\ Loading' <=> todo[t] = CMP!Load /\ l \in {"setEventWait", "setPending"}
      /\ Unloading' <=> todo[t] = CMP!Unload /\ l = "write"
  BY <1>2, <1>3, <1>4 DEF Loading, Unloading, Holding
<1>6. Hand' = Hand /\ (Hand # "NO_EVENT" => pc'["em"] = pc["em"])
      /\ Waiting' = Waiting /\ (QueueInv' <=> QueueInv) /\ Sent' = Sent
      /\ (Resetting' <=> Resetting)
  BY <1>2, <1>3 DEF Hand, CMP!Threads, Waiting, QueueInv, Sent, Resetting
<1>7. ResetInv'
  <2>1. CASE ~Unloading'
    BY <1>2, <1>4, <1>6, <2>1 DEF ResetInv, Sent, AgreeInv
  <2>2. CASE Unloading'
    <3>1. Awaiting("ACK_RESET")'
      <4>1. todo[t].wait = "ACK_RESET"
        BY <1>5, <2>2 DEF CMP!Unload, CMP!Task
      <4>2. CMP!SetPending(t) /\ pc[t] = "setPending"
        BY <1>3, <1>5, <2>2, <4>1
        DEF CMP!AssignState, CMP!SetEventWait, CMP!SetPending, CMP!Goto, CMP!Inv, CMP!TypeOK
      <4> QED
        BY <4>1, <4>2 DEF CMP!Inv, CMP!AwaitInv, CMP!SetPending, CMP!eventVars, Awaiting
    <3> QED
      BY <1>2, <1>4, <1>6, <3>1 DEF ResetInv, Sent, AgreeInv
  <2> QED
    BY <2>1, <2>2
<1> USE DEF AgreeInv
<1>8. CASE CMP!AssignState(t)
  <2>1. /\ UNCHANGED <<commandPending, eventBeingWaitedOn>> /\ pc[t] = "assign"
        /\ state' = IF todo[t].to = "none" THEN state ELSE todo[t].to
        /\ l = IF todo[t].wait # "none" THEN "setEventWait" ELSE "write"
    BY <1>3, <1>8 DEF CMP!AssignState, CMP!cmdVars, CMP!eventVars, CMP!Goto, CMP!Inv, CMP!TypeOK
  <2>2. IssueInv'
    BY <1>2, <1>3, <1>4, <2>1
    DEF IssueInv, Holding, CMP!Load, CMP!Unload, CMP!Start, CMP!Stop, CMP!Task
  <2>3. state' \in {"CONTROLLER_STOPPED", "CONTROLLER_RUNNING"}
          => controllerLoaded \/ Loading'
    <3>1. state' \in {"CONTROLLER_STOPPED", "CONTROLLER_RUNNING"} =>
            \/ state' = state
            \/ todo[t] \in {CMP!Load, CMP!Start, CMP!Stop}
      BY <1>4, <2>1 DEF CMP!Tasks, CMP!EStop, CMP!Unload, CMP!NoTask, CMP!Task
    <3>2. todo[t] = CMP!Load => l = "setEventWait"
      BY <2>1 DEF CMP!Load, CMP!Task
    <3> QED
      BY <1>4, <1>5, <2>1, <3>1, <3>2 DEF LoadInv, Awaiting, IssueInv
  <2>4. LoadInv'
    BY <1>2, <1>4, <1>6, <2>1, <2>3 DEF LoadInv, Awaiting, Sent, LoadAcks
  <2> QED
    BY <1>6, <1>7, <2>2, <2>4
<1>9. CASE CMP!SetEventWait(t)
  <2>1. /\ UNCHANGED <<state, commandPending>> /\ pc[t] = "setEventWait" /\ l = "setPending"
        /\ todo[t].wait # "none"
    BY <1>3, <1>9, CMP!GotoFacts, CMConstants
    DEF CMP!SetEventWait, CMP!cmShared, CMP!cmdVars, CMP!Goto, CMP!Inv, CMP!TypeOK, CMP!AwaitInv
  <2>2. IssueInv'
    BY <1>2, <1>3, <1>4, <2>1 DEF IssueInv, Holding
  <2>4. LoadInv'
    BY <1>2, <1>4, <1>5, <1>6, <2>1 DEF LoadInv, Awaiting, Sent, LoadAcks
  <2> QED
    BY <1>6, <1>7, <2>2, <2>4
<1>10. CASE CMP!SetPending(t)
  <2>1. /\ UNCHANGED <<state, eventBeingWaitedOn>> /\ pc[t] = "setPending" /\ l = "write"
        /\ commandPending' = TRUE
        /\ todo[t].wait # "none" /\ eventBeingWaitedOn = todo[t].wait
    BY <1>3, <1>10
    DEF CMP!SetPending, CMP!cmShared, CMP!eventVars, CMP!Goto, CMP!Inv, CMP!TypeOK,
        CMP!AwaitInv, IssueInv
  <2>2. todo[t] \in {CMP!Load, CMP!Unload, CMP!EStop}
    BY <1>4, <2>1 DEF CMP!Tasks, CMP!Start, CMP!Stop, CMP!NoTask, CMP!Task
  <2>3. eventBeingWaitedOn \in {"ACK_DISABLE", "ACK_RESET", "ACK_E_STOP"}
        /\ (todo[t] = CMP!Load => eventBeingWaitedOn = "ACK_DISABLE")
    BY <2>1, <2>2 DEF CMP!Load, CMP!Unload, CMP!EStop, CMP!Task
  <2>4. IssueInv'
    BY <1>2, <1>3, <1>4, <2>1, <2>2
    DEF IssueInv, Holding, CMP!Load, CMP!Unload, CMP!Start, CMP!Stop, CMP!EStop, CMP!Task
  <2>5. LoadInv'
    BY <1>2, <1>4, <1>5, <1>6, <2>1, <2>3 DEF LoadInv, Awaiting, Sent, LoadAcks
  <2> QED
    BY <1>6, <1>7, <2>4, <2>5
<1> QED
  BY <1>8, <1>9, <1>10

(* The write to rt_ops_data_out: a reset goes out only while it is awaited *)
(* and none is underway, anything else only while no reset is.             *)
LEMMA WriteStep ==
  ASSUME RtInv, AgreeInv, CMP!Inv, NEW t \in CMP!Threads, UNCHANGED rtOnly,
         CMP!WriteCommand(t)
  PROVE  AgreeInv'
<1>1. /\ UNCHANGED <<state, controllerLoaded, commandPending, eventBeingWaitedOn,
                     incomingEvents, eventOut, event, todo>>
      /\ UNCHANGED <<currentState, loaded, loop, cm, command>>
      /\ pc[t] = "write" /\ Holding(t) /\ CMP!Goto(t, "pop")
      /\ rtOpsDataOut' = IF todo[t].out = "none" THEN rtOpsDataOut ELSE todo[t].out
  BY DEF CMP!WriteCommand, CMP!cmShared, CMP!cmdVars, CMP!eventVars, rtOnly, Holding
<1>2. pc'[t] = "pop" /\ \A u \in CMP!Threads : u # t => pc'[u] = pc[u]
  BY <1>1, CMP!GotoFacts, CMConstants DEF CMP!Inv, CMP!Labels
<1>3. /\ \A u \in CMP!Threads : u # t => ~Holding(u)
      /\ todo[t] \in CMP!Tasks
      /\ ~Loading
      /\ Unloading <=> todo[t] = CMP!Unload
  BY <1>1, HolderFacts DEF Unloading
<1>4. ~Loading' /\ ~Unloading'
  BY <1>2, <1>3 DEF Loading, Unloading, Holding
<1>5. Hand' = Hand /\ (Hand # "NO_EVENT" => pc'["em"] = pc["em"])
      /\ Waiting' = Waiting /\ (QueueInv' <=> QueueInv) /\ Sent' = Sent
      /\ (Resetting' <=> Resetting)
  BY <1>1, <1>2 DEF Hand, CMP!Threads, Waiting, QueueInv, Sent, Resetting
<1>6. todo[t].wait # "none" => eventBeingWaitedOn = todo[t].wait
  BY <1>1 DEF CMP!Inv, CMP!AwaitInv
<1> USE DEF AgreeInv
<1>7. IssueInv'
  BY <1>1, <1>2, <1>3 DEF IssueInv, Holding
<1>8. /\ todo[t] = CMP!Load => loaded \/ Awaiting("ACK_DISABLE")
      /\ todo[t] \in {CMP!Start, CMP!Stop} => ~commandPending /\ loaded
      /\ todo[t] = CMP!Unload => Awaiting("ACK_RESET")
      /\ todo[t] # CMP!Unload /\ todo[t] # CMP!NoTask => ~Awaiting("ACK_RESET")
  BY <1>1, <1>3, <1>6 DEF IssueInv, LoadInv, Awaiting, CMP!Tasks, CMP!Load, CMP!Start,
     CMP!Stop, CMP!Unload, CMP!EStop, CMP!NoTask, CMP!Task
<1>9. /\ todo[t] = CMP!NoTask => rtOpsDataOut' = rtOpsDataOut
      /\ todo[t] \in {CMP!Load, CMP!Stop} => rtOpsDataOut' = "DISABLED"
      /\ todo[t] = CMP!Start => rtOpsDataOut' = "ENABLED"
      /\ todo[t] = CMP!EStop => rtOpsDataOut' = "E_STOP"
      /\ todo[t] = CMP!Unload => rtOpsDataOut' = "RESET"
  BY <1>1 DEF CMP!Load, CMP!Start, CMP!Stop, CMP!Unload, CMP!EStop, CMP!NoTask, CMP!Task
<1>10. LoadInv'
  BY <1>1, <1>3, <1>4, <1>5, <1>8, <1>9 DEF LoadInv, Awaiting, CMP!Tasks
<1>11. ResetInv'
  <2>1. CASE todo[t] = CMP!Unload
    BY <1>1, <1>3, <1>4, <1>5, <1>8, <1>9, <2>1
    DEF ResetInv, NoneToCome, Awaiting, Sent, Resetting
  <2>2. CASE todo[t] = CMP!NoTask
    BY <1>1, <1>3, <1>4, <1>5, <1>9, <2>2
    DEF ResetInv, NoneToCome, Awaiting, Sent, Resetting
  <2>3. CASE todo[t] # CMP!Unload /\ todo[t] # CMP!NoTask
    BY <1>1, <1>3, <1>4, <1>5, <1>8, <1>9, <2>3
    DEF ResetInv, Awaiting, Sent, CMP!Tasks
  <2> QED
    BY <2>1, <2>2, <2>3
<1> QED
  BY <1>5, <1>7, <1>10, <1>11

(* updateHook begins, queues a GUI command, informs the GUI; the event     *)
(* manager dispatches, looks whether to sleep, wakes up.                   *)
LEMMA HookStep ==
  ASSUME AgreeInv, CMP!Inv, UNCHANGED rtOnly,
         CMP!UpdateHook \/ CMP!QueueCommand \/ CMP!UpdateGui
  PROVE  AgreeInv'
<1>1. PICK l \in {"idle", "events", "gui", "try"} :
        (pc' = pc /\ l = "gui" /\ pc["cm"] = "gui") \/ CMP!Goto("cm", l)
  BY DEF CMP!UpdateHook, CMP!QueueCommand, CMP!UpdateGui
<1>2. /\ UNCHANGED <<state, controllerLoaded, commandPending, eventBeingWaitedOn,
                     incomingEvents, eventOut, rtOpsDataOut, event, todo>>
      /\ pc["cm"] \in {"idle", "gui", "updateGui"}
  BY DEF CMP!UpdateHook, CMP!QueueCommand, CMP!UpdateGui, CMP!cmShared, CMP!cmdVars,
     CMP!eventVars, CMP!portVars
<1>3. pc'["cm"] = l /\ \A u \in CMP!Threads : u # "cm" => pc'[u] = pc[u]
  BY <1>1, CMP!GotoFacts, CMConstants DEF CMP!Inv, CMP!Labels, CMP!Threads
<1>4. Hand' = Hand /\ pc'["em"] = pc["em"]
  BY <1>2, <1>3 DEF Hand, CMP!Threads
<1> QED
  BY <1>2, <1>3, <1>4, QuietMove DEF Holding, CMP!Threads

(* The event manager's thread takes up an event or waits.                  *)
LEMMA LoopStep ==
  ASSUME AgreeInv, CMP!Inv, UNCHANGED rtOnly,
         CMP!Dispatch \/ CMP!CheckWait \/ CMP!WaitSignal
  PROVE  AgreeInv'
<1>1. PICK l \in {"check", "ack", "throwEstop", "wait", "take"} :
        CMP!Goto("em", l) /\ (l = "ack" => event' = event /\ pc["em"] = "dispatch")
  BY DEF CMP!Dispatch, CMP!CheckWait, CMP!WaitSignal
<1>2. /\ UNCHANGED <<state, controllerLoaded, commandPending, eventBeingWaitedOn,
                     incomingEvents, eventOut, rtOpsDataOut, todo>>
      /\ pc["em"] \in {"dispatch", "check", "wait"}
  BY DEF CMP!Dispatch, CMP!CheckWait, CMP!WaitSignal, CMP!cmShared, CMP!cmdVars,
     CMP!eventVars, CMP!portVars
<1>3. pc'["em"] = l /\ \A u \in CMP!Threads : u # "em" => pc'[u] = pc[u]
  BY <1>1, CMP!GotoFacts, CMConstants DEF CMP!Inv, CMP!Labels, CMP!Threads
<1>4. Hand' \in {Hand, "NO_EVENT"} /\ (Hand' # "NO_EVENT" => l = "ack")
  BY <1>1, <1>2, <1>3 DEF Hand
<1> QED
  BY <1>2, <1>3, <1>4, QuietMove DEF Holding, CMP!Threads

(* An event is queued: it is behind every event that came before it.       *)
LEMMA ProcessStep ==
  ASSUME AgreeInv, CMP!Inv, UNCHANGED rtOnly, CMP!ProcessRtOpsEvent
  PROVE  AgreeInv'
<1>1. /\ UNCHANGED <<state, controllerLoaded, commandPending, eventBeingWaitedOn,
                     rtOpsDataOut, event, todo>>
      /\ UNCHANGED <<currentState, loaded, loop, cm, command>> /\ pc["cm"] = "events"
  BY DEF CMP!ProcessRtOpsEvent, CMP!cmShared, CMP!cmdVars, rtOnly
<1>2. CASE eventOut # "NO_EVENT"
  <2>1. /\ incomingEvents' = Append(incomingEvents, eventOut) /\ eventOut' = "NO_EVENT"
        /\ pc' = pc
    BY <1>2 DEF CMP!ProcessRtOpsEvent
  <2>2. incomingEvents \in Seq(CMP!RtOpsEvent) /\ eventOut \in CMP!RtOpsEvent
    BY DEF CMP!Inv, CMP!TypeOK
  <2>3. /\ Len(incomingEvents') = Len(incomingEvents) + 1
        /\ Len(incomingEvents) \in Nat
        /\ \A i \in 1 .. Len(incomingEvents) : incomingEvents'[i] = incomingEvents[i]
        /\ incomingEvents'[Len(incomingEvents) + 1] = eventOut
    BY <2>1, <2>2
  <2>4. Waiting' = Waiting \cup {eventOut}
    BY <2>3 DEF Waiting
  <2>5. UNCHANGED <<Hand, Loading, Unloading>>
    BY <1>1, <2>1 DEF Hand, Loading, Unloading
  <2> USE DEF AgreeInv
  <2>6. QueueInv'
    <3>1. "ACK_RESET" \in Waiting => eventOut \notin Turns
      BY DEF ResetInv
    <3>2. \A i \in 1 .. Len(incomingEvents) : incomingEvents[i] \in Waiting
      BY DEF Waiting
    <3> QED
      BY <2>3, <3>1, <3>2 DEF QueueInv
  <2>7. IssueInv'
    BY <1>1, <2>1 DEF IssueInv
  <2>8. LoadInv'
    BY <1>1, <2>1, <2>4, <2>5 DEF LoadInv, Awaiting, Sent, LoadAcks
  <2>9. ResetInv'
    BY <1>1, <2>1, <2>4, <2>5
    DEF ResetInv, NoneToCome, Awaiting, Sent, Turns, LoadAcks, Resetting
  <2> QED
    BY <2>6, <2>7, <2>8, <2>9
<1>3. CASE eventOut = "NO_EVENT"
  <2>1. CMP!Goto("cm", "gui") /\ UNCHANGED <<incomingEvents, eventOut>>
    BY <1>3 DEF CMP!ProcessRtOpsEvent
  <2>2. pc'["cm"] = "gui" /\ \A u \in CMP!Threads : u # "cm" => pc'[u] = pc[u]
    BY <2>1, CMP!GotoFacts, CMConstants DEF CMP!Inv, CMP!Labels, CMP!Threads
  <2>3. Hand' = Hand /\ pc'["em"] = pc["em"]
    BY <1>1, <2>2 DEF Hand, CMP!Threads
  <2> QED
    BY <1>1, <2>1, <2>2, <2>3, QuietMove DEF Holding, CMP!Threads
<1> QED
  BY <1>2, <1>3

(* The event manager takes the first event from its queue.                 *)
LEMMA TakeStep ==
  ASSUME AgreeInv, CMP!Inv, UNCHANGED rtOnly, CMP!TakeEvent
  PROVE  AgreeInv'
<1>1. /\ UNCHANGED <<state, controllerLoaded, commandPending, eventBeingWaitedOn,
                     rtOpsDataOut, eventOut, todo>>
      /\ UNCHANGED <<currentState, loaded, loop, cm, command>> /\ pc["em"] = "take"
  BY DEF CMP!TakeEvent, CMP!cmShared, CMP!cmdVars, CMP!portVars, rtOnly
<1>0. Hand = "NO_EVENT"
  BY <1>1 DEF Hand
<1>2. CASE incomingEvents # <<>>
  <2>1. /\ event' = Head(incomingEvents) /\ incomingEvents' = Tail(incomingEvents)
        /\ CMP!Goto("em", "dispatch")
    BY <1>2 DEF CMP!TakeEvent
  <2>2. incomingEvents \in Seq(CMP!RtOpsEvent)
    BY DEF CMP!Inv, CMP!TypeOK
  <2>3. /\ Len(incomingEvents) \in Nat /\ Len(incomingEvents) > 0
        /\ event' = incomingEvents[1]
        /\ Len(incomingEvents') = Len(incomingEvents) - 1
        /\ \A i \in 1 .. Len(incomingEvents') : incomingEvents'[i] = incomingEvents[i + 1]
    BY <1>2, <2>1, <2>2
  <2>4. pc'["em"] = "dispatch" /\ \A u \in CMP!Threads : u # "em" => pc'[u] = pc[u]
    BY <2>1, CMP!GotoFacts, CMConstants DEF CMP!Inv, CMP!Labels, CMP!Threads
  <2>5. Hand' = incomingEvents[1]
    BY <2>3, <2>4 DEF Hand
  <2>6. Waiting = Waiting' \cup {Hand'}
    <3>1. \A i \in 1 .. Len(incomingEvents) : incomingEvents[i] \in Waiting' \cup {Hand'}
      <4>1. TAKE i \in 1 .. Len(incomingEvents)
      <4>2. CASE i = 1
        BY <2>5, <4>2
      <4>3. CASE i # 1
        <5>1. i - 1 \in 1 .. Len(incomingEvents') /\ incomingEvents'[i - 1] = incomingEvents[i]
          BY <2>3, <4>3
        <5> QED
          BY <5>1 DEF Waiting
      <4> QED
        BY <4>2, <4>3
    <3>2. Hand' \in Waiting
      BY <2>3, <2>5 DEF Waiting
    <3>3. Waiting' \subseteq Waiting
      BY <2>3 DEF Waiting
    <3> QED
      BY <3>1, <3>2, <3>3 DEF Waiting
  <2>7. UNCHANGED <<Loading, Unloading>>
    BY <1>1, <2>4 DEF Loading, Unloading
  <2> USE DEF AgreeInv
  <2>8. QueueInv'
    BY <2>3 DEF QueueInv
  <2>9. Hand' = "ACK_RESET" => Waiting' \cap Turns = {}
    <3>1. SUFFICES ASSUME incomingEvents[1] = "ACK_RESET",
                          NEW i \in 1 .. Len(incomingEvents')
                   PROVE  incomingEvents'[i] \notin Turns
      BY <2>5 DEF Waiting
    <3>2. i + 1 \in 1 .. Len(incomingEvents) /\ 1 < i + 1 /\ 1 \in 1 .. Len(incomingEvents)
      BY <2>3
    <3> QED
      BY <2>3, <3>1, <3>2 DEF QueueInv
  <2>10. IssueInv'
    BY <1>1, <2>4 DEF IssueInv
  <2>11. Sent' = Sent \ {"NO_EVENT"} \/ Sent' = Sent
    BY <1>0, <1>1, <2>6 DEF Sent
  <2>12. LoadInv'
    BY <1>1, <2>4, <2>7, <2>11 DEF LoadInv, Awaiting, LoadAcks
  <2>13. ResetInv'
    BY <1>0, <1>1, <2>4, <2>6, <2>7, <2>9, <2>11
    DEF ResetInv, NoneToCome, Awaiting, Turns, LoadAcks, Resetting
  <2> QED
    BY <2>8, <2>10, <2>12, <2>13
<1>3. CASE incomingEvents = <<>>
  <2>1. CMP!Goto("em", "check") /\ UNCHANGED <<incomingEvents, event>>
    BY <1>3 DEF CMP!TakeEvent
  <2>2. pc'["em"] = "check" /\ \A u \in CMP!Threads : u # "em" => pc'[u] = pc[u]
    BY <2>1, CMP!GotoFacts, CMConstants DEF CMP!Inv, CMP!Labels, CMP!Threads
  <2>3. Hand' = "NO_EVENT"
    BY <2>2 DEF Hand
  <2> QED
    BY <1>1, <2>1, <2>2, <2>3, QuietMove DEF Holding, CMP!Threads
<1> QED
  BY <1>2, <1>3

(* The event manager throws an emergency stop.                             *)
LEMMA ThrowStep ==
  ASSUME AgreeInv, CMP!Inv, UNCHANGED rtOnly, CMP!ThrowEstop
  PROVE  AgreeInv'
<1>1. /\ UNCHANGED <<controllerLoaded, commandPending, eventBeingWaitedOn,
                     incomingEvents, rtOpsDataOut, eventOut, todo>>
      /\ UNCHANGED <<currentState, loaded, loop, cm, command>>
      /\ pc["em"] = "throwEstop" /\ state' = "CONTROLLER_ESTOPPED"
      /\ CMP!Goto("em", "check")
  BY DEF CMP!ThrowEstop, CMP!cmdVars, CMP!eventVars, CMP!portVars, rtOnly
<1>2. pc'["em"] = "check" /\ \A u \in CMP!Threads : u # "em" => pc'[u] = pc[u]
  BY <1>1, CMP!GotoFacts, CMConstants DEF CMP!Inv, CMP!Labels, CMP!Threads
<1>3. UNCHANGED <<Hand, Loading, Unloading, Waiting>> /\ (QueueInv' <=> QueueInv)
  BY <1>1, <1>2 DEF Hand, Loading, Unloading, Waiting, QueueInv
<1> USE DEF AgreeInv
<1>4. IssueInv'
  BY <1>1, <1>2 DEF IssueInv
<1>5. LoadInv'
  BY <1>1, <1>2, <1>3 DEF LoadInv, Awaiting, Sent, LoadAcks
<1>6. ResetInv'
  BY <1>1, <1>2, <1>3
  DEF ResetInv, NoneToCome, Awaiting, Sent, Turns, LoadAcks, Resetting
<1> QED
  BY <1>3, <1>4, <1>5, <1>6

(* What the event manager has in hand while it acts on it.                 *)
LEMMA AckedCases ==
  ASSUME RtInv, pc["em"] \in {"ack", "setState", "clear"}
  PROVE  /\ Hand = event /\ event \in Sent
         /\ event # "ACK_NO_CONTROLLER_LOADED"
         /\ CMP!ackedState(event) =
              IF event = "ACK_DISABLE" THEN "CONTROLLER_STOPPED"
              ELSE IF event = "ACK_ENABLE" THEN "CONTROLLER_RUNNING"
              ELSE IF event = "ACK_E_STOP" THEN "CONTROLLER_ESTOPPED"
              ELSE IF event = "ACK_RESET" THEN "NO_CONTROLLER_LOADED"
              ELSE "none"
<1>1. Hand = event /\ event \in Sent
  BY DEF Hand, Sent
<1>2. event # "ACK_NO_CONTROLLER_LOADED"
  BY <1>1 DEF RtInv, RtOpsEvents
<1> QED
  BY <1>1, <1>2 DEF CMP!ackedState

(* ControllerManager::setState, in its two steps.                          *)
LEMMA SetTestStep ==
  ASSUME RtInv, AgreeInv, CMP!Inv, UNCHANGED rtOnly, CMP!SetStateTest
  PROVE  AgreeInv'
<1>1. PICK l \in {"setState", "clear"} :
        CMP!Goto("em", l) /\ (event = "ACK_RESET" => l = "setState")
  BY AckedCases DEF CMP!SetStateTest
<1>2. /\ UNCHANGED <<state, commandPending, eventBeingWaitedOn,
                     incomingEvents, rtOpsDataOut, eventOut, todo, event>>
      /\ UNCHANGED <<currentState, loaded, loop, cm, command>> /\ pc["em"] = "ack"
  BY DEF CMP!SetStateTest, CMP!cmdVars, CMP!eventVars, CMP!portVars, rtOnly
<1>3. controllerLoaded' = IF event = "ACK_DISABLE" THEN TRUE
                          ELSE IF event = "ACK_RESET" THEN FALSE ELSE controllerLoaded
  BY <1>2, AckedCases DEF CMP!SetStateTest
<1>4. pc'["em"] = l /\ \A u \in CMP!Threads : u # "em" => pc'[u] = pc[u]
  BY <1>1, CMP!GotoFacts, CMConstants DEF CMP!Inv, CMP!Labels, CMP!Threads
<1>5. /\ UNCHANGED <<Hand, Loading, Unloading, Waiting, Sent>> /\ (QueueInv' <=> QueueInv)
      /\ Hand = event /\ event \in Sent
  BY <1>2, <1>4, AckedCases DEF Hand, Loading, Unloading, Waiting, QueueInv, Sent
<1> USE DEF AgreeInv
<1>6. event = "ACK_RESET" => Awaiting("ACK_RESET") /\ NoneToCome
  BY <1>5 DEF ResetInv
<1>7. event = "ACK_DISABLE" => loaded \/ Awaiting("ACK_RESET")
  BY <1>5 DEF LoadInv, LoadAcks
<1>8. IssueInv'
  <2>1. \A u \in CMP!Threads : todo[u] \in {CMP!Start, CMP!Stop} => todo[u].wait = "none"
    BY DEF CMP!Start, CMP!Stop, CMP!Task
  <2> QED
    BY <1>2, <1>3, <1>4, <1>6, <2>1 DEF IssueInv, Awaiting
<1>9. LoadInv'
  BY <1>2, <1>3, <1>4, <1>5, <1>6, <1>7 DEF LoadInv, Awaiting, NoneToCome, LoadAcks
<1>10. ResetInv'
  BY <1>1, <1>2, <1>3, <1>4, <1>5
  DEF ResetInv, NoneToCome, Awaiting, Turns, LoadAcks, Resetting
<1> QED
  BY <1>5, <1>8, <1>9, <1>10

(* The Controller Manager's state is set.                                  *)
LEMMA SetStep ==
  ASSUME RtInv, AgreeInv, CMP!Inv, UNCHANGED rtOnly, CMP!SetState
  PROVE  AgreeInv'
<1>2. /\ UNCHANGED <<controllerLoaded, commandPending, eventBeingWaitedOn,
                     incomingEvents, rtOpsDataOut, eventOut, todo, event>>
      /\ UNCHANGED <<currentState, loaded, loop, cm, command>> /\ pc["em"] = "setState"
      /\ CMP!Goto("em", "clear") /\ state' = CMP!ackedState(event)
  BY DEF CMP!SetState, CMP!cmdVars, CMP!eventVars, CMP!portVars, rtOnly
<1>3. /\ state' \in {"CONTROLLER_STOPPED", "CONTROLLER_RUNNING"} => event \in LoadAcks
      /\ event = "ACK_RESET" => state' = "NO_CONTROLLER_LOADED"
  BY <1>2, AckedCases DEF LoadAcks
<1>4. pc'["em"] = "clear" /\ \A u \in CMP!Threads : u # "em" => pc'[u] = pc[u]
  BY <1>2, CMP!GotoFacts, CMConstants DEF CMP!Inv, CMP!Labels, CMP!Threads
<1>5. /\ UNCHANGED <<Hand, Loading, Unloading, Waiting, Sent>> /\ (QueueInv' <=> QueueInv)
      /\ Hand = event /\ event \in Sent
  BY <1>2, <1>4, AckedCases DEF Hand, Loading, Unloading, Waiting, QueueInv, Sent
<1> USE DEF AgreeInv
<1>6. event \in LoadAcks =>
        controllerLoaded \/ Awaiting("ACK_DISABLE") \/ Awaiting("ACK_RESET")
  BY <1>5 DEF LoadInv, Awaiting
<1>8. IssueInv'
  BY <1>2, <1>4 DEF IssueInv
<1>9. LoadInv'
  BY <1>2, <1>3, <1>4, <1>5, <1>6 DEF LoadInv, Awaiting
<1>10. ResetInv'
  BY <1>2, <1>3, <1>4, <1>5
  DEF ResetInv, NoneToCome, Awaiting, Turns, LoadAcks, Resetting
<1> QED
  BY <1>5, <1>8, <1>9, <1>10

(* The wait is over.  If it was ended by the acknowledgement it waited     *)
(* for, the two sides agree.                                               *)
LEMMA ClearStep ==
  ASSUME RtInv, AgreeInv, CMP!Inv, UNCHANGED rtOnly, CMP!ClearPending,
         commandPending => event = eventBeingWaitedOn
  PROVE  AgreeInv'
<1>2. /\ UNCHANGED <<state, controllerLoaded, eventBeingWaitedOn,
                     incomingEvents, rtOpsDataOut, eventOut, todo>>
      /\ UNCHANGED <<currentState, loaded, loop, cm, command>> /\ pc["em"] = "clear"
      /\ CMP!Goto("em", "try") /\ ~commandPending'
  BY DEF CMP!ClearPending, CMP!cmShared, CMP!eventVars, CMP!portVars, rtOnly
<1>4. pc'["em"] = "try" /\ \A u \in CMP!Threads : u # "em" => pc'[u] = pc[u]
  BY <1>2, CMP!GotoFacts, CMConstants DEF CMP!Inv, CMP!Labels, CMP!Threads
<1>5. /\ UNCHANGED <<Loading, Unloading, Waiting>> /\ (QueueInv' <=> QueueInv)
      /\ Hand = event /\ event \in Sent /\ Hand' = "NO_EVENT"
      /\ Sent' \subseteq Waiting \cup {eventOut, "NO_EVENT"}
  BY <1>2, <1>4, AckedCases DEF Hand, Loading, Unloading, Waiting, QueueInv, Sent
<1> USE DEF AgreeInv
<1>6. CASE ~commandPending
  <2>1. IssueInv'
    BY <1>2, <1>4, <1>6 DEF IssueInv
  <2>2. LoadInv'
    BY <1>2, <1>4, <1>5, <1>6 DEF LoadInv, Awaiting, Sent, LoadAcks
  <2>3. ResetInv'
    BY <1>2, <1>4, <1>5, <1>6 DEF ResetInv, Awaiting, Sent, Resetting
  <2> QED
    BY <1>5, <2>1, <2>2, <2>3
<1>7. CASE commandPending
  <2>1. /\ event \in {"ACK_DISABLE", "ACK_RESET", "ACK_E_STOP"}
        /\ event = eventBeingWaitedOn
        /\ \A e \in CMP!RtOpsEvent : Awaiting(e) <=> e = event
    BY <1>7 DEF LoadInv, Awaiting
  <2>2. event = "ACK_DISABLE" => controllerLoaded /\ loaded
    BY <1>2, <1>5, <1>7, <2>1 DEF LoadInv, LoadAcks, Awaiting
  <2>3. event = "ACK_E_STOP" => (controllerLoaded <=> loaded)
    BY <1>7, <2>1 DEF LoadInv, Awaiting
  <2>4. event = "ACK_RESET" =>
          /\ ~controllerLoaded /\ NoneToCome /\ state = "NO_CONTROLLER_LOADED"
          /\ Sent' \cap Turns = {} /\ ~Resetting
    BY <1>2, <1>5 DEF ResetInv, Turns, LoadAcks
  <2>5. event # "ACK_RESET" =>
          /\ ~Unloading /\ rtOpsDataOut # "RESET" /\ command # "RESET" /\ ~Resetting
          /\ "ACK_RESET" \notin Sent
    BY <1>7, <2>1 DEF ResetInv, Awaiting
  <2>6. event = "ACK_RESET" => command = RT!NoCommand
    BY <2>4 DEF RtInv, NoneToCome
  <2>7. IssueInv'
    <3>1. ~Unloading
      BY <2>4, <2>5 DEF NoneToCome
    <3>2. \A u \in CMP!Threads : pc[u] = "write" /\ todo[u] = CMP!Load => loaded
      <4>1. \A u \in CMP!Threads : pc[u] = "write" /\ todo[u] = CMP!Load
              => eventBeingWaitedOn = "ACK_DISABLE"
        BY DEF CMP!Inv, CMP!AwaitInv, CMP!Load, CMP!Task
      <4> QED
        BY <2>1, <2>2, <4>1
    <3> QED
      BY <1>2, <1>4, <3>1, <3>2 DEF IssueInv, Unloading
  <2>8. LoadInv'
    <3>1. controllerLoaded <=> loaded
      BY <2>1, <2>2, <2>3, <2>4 DEF NoneToCome
    <3>2. state \in {"CONTROLLER_STOPPED", "CONTROLLER_RUNNING"} => controllerLoaded \/ Loading
      BY <2>1, <2>2, <2>4 DEF LoadInv, Awaiting
    <3>3. rtOpsDataOut = "DISABLED" \/ command = "DISABLED" => loaded
      BY <2>1, <2>2, <2>4, <2>6 DEF LoadInv, Awaiting, NoneToCome, RT!NoCommand
    <3>4. Sent' \cap LoadAcks # {} => loaded
      BY <1>5, <2>1, <2>2, <2>4 DEF LoadInv, Awaiting, Turns, LoadAcks, Sent
    <3> QED
      BY <1>2, <1>4, <1>5, <3>1, <3>2, <3>3, <3>4 DEF LoadInv, Awaiting, LoadAcks
  <2>9. ResetInv'
    <3>1. ~Unloading /\ rtOpsDataOut # "RESET" /\ command # "RESET" /\ ~Resetting
      BY <2>4, <2>5, <2>6 DEF NoneToCome, RT!NoCommand
    <3>2. "ACK_RESET" \notin Sent'
      BY <1>5, <2>4, <2>5 DEF Turns, Sent
    <3>3. ~Resetting' /\ ~Unloading' /\ Hand' # "ACK_RESET" /\ "ACK_RESET" \notin Waiting'
      BY <1>2, <1>5, <3>1, <3>2 DEF Resetting, Sent
    <3> QED
      BY <1>2, <1>5, <3>1, <3>2, <3>3 DEF ResetInv
  <2> QED
    BY <1>5, <2>7, <2>8, <2>9
<1> QED
  BY <1>6, <1>7

(* Every step of the Controller Manager keeps the agreement, unless it     *)
(* ends a wait with an event other than the awaited one.                   *)
LEMMA CmStep ==
  ASSUME RtInv, AgreeInv, CMP!Inv, UNCHANGED rtOnly, CMP!CMThread \/ CMP!EMThread,
         commandPending /\ ~commandPending' => event = eventBeingWaitedOn
  PROVE  AgreeInv'
<1>1. ASSUME NEW t \in CMP!Threads, CMP!TryProcessCommand(t)
      PROVE  AgreeInv'
  BY <1>1, TryMoves, ReadStep, HandleStep, TaskStep, WriteStep DEF CMP!TryProcessCommand
<1>2. CMP!ClearPending => ~commandPending'
  BY DEF CMP!ClearPending
<1> QED
  BY <1>1, <1>2, HookStep, ProcessStep, LoopStep, TakeStep, ThrowStep, SetTestStep,
     SetStep, ClearStep
  DEF CMP!CMThread, CMP!EMThread, CMP!Threads

(* The event manager lets go of what it has in hand, but takes nothing     *)
(* into it other than from its queue.                                      *)
Handled == {"dispatch", "ack", "setState", "clear"}

(* The event in hand changes only when another one is taken.               *)
LEMMA HandMoves ==
  ASSUME CMP!Inv, CMP!CMThread \/ CMP!EMThread, ~CMP!TakeEvent
  PROVE  Hand' \in {Hand, "NO_EVENT"}
<1>0. SUFFICES ASSUME pc'["em"] \in Handled, event' # "NO_EVENT"
               PROVE  event' = event /\ pc["em"] \in Handled
  BY DEF Hand, Handled
<1>1. ASSUME NEW t \in CMP!Threads, CMP!TryProcessCommand(t)
      PROVE  event' = event /\ pc["em"] \in Handled
  <2>1. event' = event
    BY <1>1 DEF CMP!TryProcessCommand, CMP!TryLock, CMP!ReadPending, CMP!Unlock,
       CMP!HandleUserCommand, CMP!AssignState, CMP!SetEventWait, CMP!SetPending,
       CMP!WriteCommand, CMP!PopCommand
  <2>2. PICK l \in CMP!Labels \ Handled : CMP!Goto(t, l)
    <3>1. CMP!AfterCommands(t) \in CMP!Labels \ Handled
      BY DEF CMP!AfterCommands, CMP!Labels, Handled
    <3> QED
      BY <1>1, <3>1
      DEF CMP!TryProcessCommand, CMP!TryLock, CMP!ReadPending, CMP!Unlock,
          CMP!HandleUserCommand, CMP!AssignState, CMP!SetEventWait, CMP!SetPending,
          CMP!WriteCommand, CMP!PopCommand, CMP!Labels, Handled
  <2>3. pc'[t] = l /\ \A u \in CMP!Threads : u # t => pc'[u] = pc[u]
    BY <2>2, CMP!GotoFacts, CMConstants DEF CMP!Inv
  <2> QED
    BY <1>0, <2>1, <2>3 DEF CMP!Threads
<1>2. ASSUME CMP!UpdateHook \/ CMP!ProcessRtOpsEvent \/ CMP!QueueCommand \/ CMP!UpdateGui
      PROVE  event' = event /\ pc["em"] \in Handled
  BY <1>0, <1>2 DEF CMP!UpdateHook, CMP!ProcessRtOpsEvent, CMP!QueueCommand,
     CMP!UpdateGui, CMP!Goto, CMP!Inv, CMP!TypeOK, CMP!Threads
<1>3. ASSUME CMP!Dispatch \/ CMP!ThrowEstop \/ CMP!SetStateTest \/ CMP!SetState
             \/ CMP!ClearPending \/ CMP!CheckWait \/ CMP!WaitSignal
      PROVE  event' = event /\ pc["em"] \in Handled
  <2>1. ~CMP!ThrowEstop /\ ~CMP!ClearPending /\ ~CMP!CheckWait
    BY <1>0 DEF CMP!ThrowEstop, CMP!ClearPending, CMP!CheckWait
  <2>2. ~CMP!WaitSignal
    BY <1>0 DEF CMP!WaitSignal, CMP!Goto, CMP!Inv, CMP!TypeOK, CMP!Threads, Handled
  <2> QED
    BY <1>3, <2>1, <2>2 DEF CMP!Dispatch, CMP!SetStateTest, CMP!SetState, Handled
<1> QED
  BY <1>1, <1>2, <1>3 DEF CMP!CMThread, CMP!EMThread, CMP!Threads

(* Its events stay RT Ops's.                                               *)
LEMMA CmTypes ==
  ASSUME RtInv, CMP!Inv, UNCHANGED rtOnly, CMP!CMThread \/ CMP!EMThread
  PROVE  RtInv'
<1>1. UNCHANGED <<loaded, cm, command>>
  BY DEF rtOnly
<1>2. Sent' \subseteq Sent \cup {"NO_EVENT"}
  <2>1. CASE CMP!ProcessRtOpsEvent
    <3>1. \/ incomingEvents' = Append(incomingEvents, eventOut) /\ eventOut' = "NO_EVENT"
          \/ UNCHANGED <<incomingEvents, eventOut>>
      BY <2>1 DEF CMP!ProcessRtOpsEvent
    <3>2. \A i \in 1 .. Len(incomingEvents') :
            \/ incomingEvents'[i] = eventOut
            \/ i \in 1 .. Len(incomingEvents) /\ incomingEvents'[i] = incomingEvents[i]
      BY <3>1, SMTT(30) DEF CMP!Inv, CMP!TypeOK
    <3>3. Waiting' \subseteq Waiting \cup {eventOut}
      BY <3>2 DEF Waiting
    <3>4. Hand' \in {Hand, "NO_EVENT"}
      BY <2>1 DEF CMP!ProcessRtOpsEvent, CMP!Goto, CMP!Inv, CMP!TypeOK, Hand, CMP!Threads
    <3>5. eventOut' \in {eventOut, "NO_EVENT"}
      BY <3>1
    <3> QED
      BY <3>3, <3>4, <3>5 DEF Sent
  <2>2. CASE CMP!TakeEvent /\ incomingEvents # <<>>
    <3>1. /\ event' = Head(incomingEvents) /\ incomingEvents' = Tail(incomingEvents)
          /\ eventOut' = eventOut
      BY <2>2 DEF CMP!TakeEvent, CMP!portVars
    <3>2. /\ \A i \in 1 .. Len(incomingEvents') :
               i + 1 \in 1 .. Len(incomingEvents) /\ incomingEvents'[i] = incomingEvents[i + 1]
          /\ 1 \in 1 .. Len(incomingEvents) /\ event' = incomingEvents[1]
      BY <2>2, <3>1 DEF CMP!Inv, CMP!TypeOK
    <3>3. Waiting' \subseteq Waiting /\ event' \in Waiting
      BY <3>2 DEF Waiting
    <3>4. Hand' \in {event', "NO_EVENT"}
      BY DEF Hand
    <3> QED
      BY <3>1, <3>3, <3>4 DEF Sent
  <2>3. CASE ~CMP!ProcessRtOpsEvent /\ ~(CMP!TakeEvent /\ incomingEvents # <<>>)
    <3>1. UNCHANGED <<incomingEvents, eventOut>>
      BY <2>3 DEF CMP!CMThread, CMP!EMThread, CMP!TryProcessCommand, CMP!UpdateHook,
         CMP!QueueCommand, CMP!UpdateGui, CMP!TakeEvent, CMP!Dispatch, CMP!ThrowEstop,
         CMP!SetStateTest, CMP!SetState, CMP!ClearPending, CMP!CheckWait, CMP!WaitSignal,
         CMP!TryLock, CMP!ReadPending, CMP!Unlock, CMP!HandleUserCommand, CMP!AssignState,
         CMP!SetEventWait, CMP!SetPending, CMP!WriteCommand, CMP!PopCommand,
         CMP!eventVars, CMP!portVars
    <3>2. Hand' \in {Hand, "NO_EVENT"}
      <4>1. CASE CMP!TakeEvent
        BY <2>3, <4>1
        DEF CMP!TakeEvent, CMP!Goto, CMP!Inv, CMP!TypeOK, CMP!Threads, Hand
      <4> QED
        BY <4>1, HandMoves
    <3> QED
      BY <3>1, <3>2 DEF Sent, Waiting
  <2> QED
    BY <2>1, <2>2, <2>3
<1> QED
  BY <1>1, <1>2 DEF RtInv, RT!NoCommand

----------------------------------------------------------------------------
(* ControlSystem's steps are steps of the Controller Manager, which keep   *)
(* its own invariant.                                                      *)
LEMMA SameThreads ==
  /\ CM!Init <=> CMP!Init
  /\ CM!CMThread <=> CMP!CMThread
  /\ CM!EMThread <=> CMP!EMThread
  /\ \A c : CM!GuiCommand(c) <=> CMP!GuiCommand(c)
<1> USE DEF CM!cmShared, CM!cmdVars, CM!eventVars, CM!portVars, CM!threads, CM!Goto,
            CM!Signal, CM!SignalCap,
            CMP!cmShared, CMP!cmdVars, CMP!eventVars, CMP!portVars, CMP!threads, CMP!Goto,
            CMP!Signal, CMP!SignalCap
<1>1. CM!Init <=> CMP!Init
  BY DEF CM!Init, CMP!Init, CM!Threads, CMP!Threads, CM!NoTask, CMP!NoTask, CM!Task,
     CMP!Task
<1>2. \A c : CM!GuiCommand(c) <=> CMP!GuiCommand(c)
  BY DEF CM!GuiCommand, CMP!GuiCommand
<1>3. \A t : CM!TryProcessCommand(t) <=> CMP!TryProcessCommand(t)
  <2>1. \A t : CM!TryLock(t) <=> CMP!TryLock(t)
    BY DEF CM!TryLock, CMP!TryLock, CM!AfterCommands, CMP!AfterCommands
  <2>2. \A t : CM!ReadPending(t) <=> CMP!ReadPending(t)
    BY DEF CM!ReadPending, CMP!ReadPending
  <2>3. \A t : CM!Unlock(t) <=> CMP!Unlock(t)
    BY DEF CM!Unlock, CMP!Unlock, CM!AfterCommands, CMP!AfterCommands
  <2>4. \A t : CM!HandleUserCommand(t) <=> CMP!HandleUserCommand(t)
    <3>1. \A s, c : CM!handleUserCommand(s, c) = CMP!handleUserCommand(s, c)
      <4>1. /\ CM!Load = CMP!Load /\ CM!Start = CMP!Start /\ CM!Stop = CMP!Stop
            /\ CM!Unload = CMP!Unload /\ CM!EStop = CMP!EStop /\ CM!NoTask = CMP!NoTask
        BY DEF CM!Load, CMP!Load, CM!Start, CMP!Start, CM!Stop, CMP!Stop, CM!Unload,
           CMP!Unload, CM!EStop, CMP!EStop, CM!NoTask, CMP!NoTask, CM!Task, CMP!Task
      <4> QED
        BY <4>1 DEF CM!handleUserCommand, CMP!handleUserCommand
    <3> QED
      BY <3>1 DEF CM!HandleUserCommand, CMP!HandleUserCommand
  <2>5. \A t : CM!AssignState(t) <=> CMP!AssignState(t)
    BY DEF CM!AssignState, CMP!AssignState
  <2>6. \A t : CM!SetEventWait(t) <=> CMP!SetEventWait(t)
    BY DEF CM!SetEventWait, CMP!SetEventWait
  <2>7. \A t : CM!SetPending(t) <=> CMP!SetPending(t)
    BY DEF CM!SetPending, CMP!SetPending
  <2>8. \A t : CM!WriteCommand(t) <=> CMP!WriteCommand(t)
    BY DEF CM!WriteCommand, CMP!WriteCommand, CM!EStop, CMP!EStop, CM!Task, CMP!Task
  <2>9. \A t : CM!PopCommand(t) <=> CMP!PopCommand(t)
    BY DEF CM!PopCommand, CMP!PopCommand, CM!NoTask, CMP!NoTask, CM!Task, CMP!Task
  <2> QED
    BY <2>1, <2>2, <2>3, <2>4, <2>5, <2>6, <2>7, <2>8, <2>9
    DEF CM!TryProcessCommand, CMP!TryProcessCommand
<1>4. /\ CM!UpdateHook <=> CMP!UpdateHook
      /\ CM!ProcessRtOpsEvent <=> CMP!ProcessRtOpsEvent
      /\ CM!QueueCommand <=> CMP!QueueCommand
      /\ CM!UpdateGui <=> CMP!UpdateGui
  BY DEF CM!UpdateHook, CMP!UpdateHook, CM!ProcessRtOpsEvent, CMP!ProcessRtOpsEvent,
     CM!QueueCommand, CMP!QueueCommand, CM!UpdateGui, CMP!UpdateGui
<1>5. /\ CM!TakeEvent <=> CMP!TakeEvent
      /\ CM!Dispatch <=> CMP!Dispatch
      /\ CM!ThrowEstop <=> CMP!ThrowEstop
      /\ CM!SetStateTest <=> CMP!SetStateTest
      /\ CM!SetState <=> CMP!SetState
      /\ CM!ClearPending <=> CMP!ClearPending
      /\ CM!CheckWait <=> CMP!CheckWait
      /\ CM!WaitSignal <=> CMP!WaitSignal
  BY DEF CM!TakeEvent, CMP!TakeEvent, CM!Dispatch, CMP!Dispatch, CM!ThrowEstop,
     CMP!ThrowEstop, CM!SetStateTest, CMP!SetStateTest, CM!SetState, CMP!SetState,
     CM!ClearPending, CMP!ClearPending, CM!CheckWait, CMP!CheckWait, CM!WaitSignal,
     CMP!WaitSignal, CM!ackedState, CMP!ackedState, CM!EStopEvents, CMP!EStopEvents
<1> QED
  BY <1>1, <1>2, <1>3, <1>4, <1>5
  DEF CM!CMThread, CMP!CMThread, CM!EMThread, CMP!EMThread

(* The Controller Manager's own invariant holds in the composition.        *)
LEMMA CmInvKept ==
  ASSUME Inv, [Next]_vars
  PROVE  CMP!Inv'
<1>1. [CMP!Next]_(CMP!vars)
  <2>1. ASSUME UNCHANGED <<cmOnly, rtOpsDataOut>>, trigger' = TRUE, eventOut' \in RtOpsEvents
        PROVE  CMP!Next
    BY <2>1 DEF cmOnly, CMP!Next, CMP!EventArrives, CMP!cmShared, CMP!cmdVars,
       CMP!eventVars, CMP!threads
  <2>2. CASE RtOpsSends
    <3>1. eventOut' \in RtOpsEvents
      BY <2>2 DEF RtOpsSends, RT!Sending, RT!MedullaEvent, RT!ControllerEvent,
         RT!SafetyEvent, RT!LoopMustHalt, RT!AckReset, RT!Refuse, RT!CommandEvent,
         RT!Acknowledge, RT!ackOf, RtOpsEvents, Inv, RtInv, RT!NoCommand
    <3> QED
      BY <2>1, <2>2, <3>1 DEF RtOpsSends
  <2>3. CASE DeadlineMissed
    BY <2>1, <2>3 DEF DeadlineMissed, RT!MissedDeadline, RtOpsEvents
  <2>4. CASE RtOpsSilent \/ UNCHANGED vars
    <3>1. UNCHANGED <<cmOnly, trigger, rtOpsDataOut, eventOut>>
      BY <2>4 DEF vars, RtOpsSilent, RT!Silent, RT!MedullaFails, RT!MedullaEStop,
         RT!LoopEnabled, RT!LoopContinues, RT!LoopHalt, RT!LoopEStop, RT!ResetOver,
         RT!ResetDone, RT!ChangeLoaded, RT!Proceed, RT!CommandEStop, RT!Abandon,
         RT!SetCommandedState
    <3> QED
      BY <3>1 DEF cmOnly, CMP!vars, CMP!cmShared, CMP!cmdVars, CMP!eventVars,
         CMP!portVars, CMP!threads
  <2>5. CASE RtOpsReceives
    BY <2>5 DEF RtOpsReceives, RT!Receive, cmOnly, CMP!Next, CMP!CommandRead,
       CMP!cmShared, CMP!cmdVars, CMP!eventVars, CMP!threads
  <2>6. CASE UpdateHook \/ EventManager \/ Gui
    BY <2>6, SameThreads DEF UpdateHook, EventManager, Gui, CMP!Next
  <2> QED
    BY <2>2, <2>3, <2>4, <2>5, <2>6 DEF Next, RtOps
<1> QED
  BY <1>1, CMP!InvKept, CMConstants DEF Inv

(* What the invariant does not look at may change.                         *)
LEMMA Same ==
  ASSUME UNCHANGED <<state, controllerLoaded, commandPending, eventBeingWaitedOn,
                     incomingEvents, pc, todo, event, rtOpsDataOut, eventOut, rtOnly>>
  PROVE  (RtInv' <=> RtInv) /\ (AgreeInv' <=> AgreeInv)
BY DEF rtOnly, RtInv, AgreeInv, IssueInv, LoadInv, ResetInv, QueueInv, NoneToCome,
   Awaiting, Sent, Waiting, Hand, Resetting, Loading, Unloading

----------------------------------------------------------------------------
(* The inductive invariant holds initially and is kept by every step.      *)
LEMMA Starts == ASSUME Init PROVE Inv
<1>1. CMP!Inv
  BY SameThreads, CMP!InvStarts, CMConstants DEF Init
<1>2. /\ ~commandPending /\ controllerLoaded = FALSE /\ loaded = FALSE
      /\ state = "NO_CONTROLLER_LOADED" /\ incomingEvents = <<>>
      /\ eventOut = "NO_EVENT" /\ rtOpsDataOut = "none"
      /\ \A t \in CMP!Threads : pc[t] \in {"idle", "take"}
      /\ cm = "idle" /\ command = RT!NoCommand /\ loop = "idle" /\ currentState # "RESET"
  BY DEF Init, CM!Init, RT!Init, CM!Threads, CMP!Threads
<1>3. Hand = "NO_EVENT" /\ Waiting = {} /\ ~Loading /\ ~Unloading /\ QueueInv
  BY <1>2 DEF Hand, Waiting, Loading, Unloading, QueueInv, CMP!Threads
<1>4. RtInv
  BY <1>2, <1>3 DEF RtInv, Sent, RT!NoCommand
<1>5. IssueInv
  BY <1>2 DEF IssueInv
<1>6. LoadInv /\ ResetInv
  BY <1>2, <1>3 DEF LoadInv, ResetInv, Awaiting, Sent, LoadAcks, Turns, Resetting,
     RT!NoCommand
<1> QED
  BY <1>1, <1>3, <1>4, <1>5, <1>6 DEF Inv, AgreeInv

(* Every step preserves the invariant.                                     *)
LEMMA Keeps == ASSUME Inv, [Next]_vars PROVE Inv'
<1>1. CMP!Inv'
  BY CmInvKept
<1> USE DEF Inv
<1>2. CASE RtOpsSends \/ RtOpsSilent \/ DeadlineMissed
  <2>1. /\ RT!Sending \/ RT!Silent \/ RT!MissedDeadline
        /\ UNCHANGED <<cmOnly, rtOpsDataOut, waitCutShort>>
    BY <1>2 DEF RtOpsSends, RtOpsSilent, DeadlineMissed, Observe
  <2> QED
    BY <1>1, <2>1, RtTypeStep, RtStep
<1>3. CASE RtOpsReceives
  <2>1. rtOpsDataOut \in {"DISABLED", "ENABLED", "RESET", "E_STOP"}
    BY <1>3 DEF RtOpsReceives, CMP!Inv, CMP!TypeOK
  <2>2. UNCHANGED <<cmOnly, waitCutShort>> /\ RT!Receive(rtOpsDataOut)
    BY <1>3 DEF RtOpsReceives, history
  <2> QED
    BY <1>1, <1>3, <2>1, <2>2, RtTypeStep, ReceiveStep
<1>4. CASE UpdateHook \/ EventManager
  <2>1. UNCHANGED rtOnly /\ (CMP!CMThread \/ CMP!EMThread)
    BY <1>4, SameThreads DEF UpdateHook, EventManager
  <2>2. ~waitCutShort' =>
          /\ ~waitCutShort
          /\ commandPending /\ ~commandPending' => event = eventBeingWaitedOn
    <3>1. CASE EventManager
      BY <3>1 DEF EventManager
    <3>2. CASE UpdateHook
      <4>1. CMP!CMThread /\ waitCutShort' = waitCutShort
        BY <3>2, SameThreads DEF UpdateHook, history
      <4>2. commandPending' = commandPending \/ commandPending'
        BY <4>1 DEF CMP!CMThread, CMP!TryProcessCommand, CMP!UpdateHook,
           CMP!ProcessRtOpsEvent, CMP!QueueCommand, CMP!UpdateGui, CMP!TryLock,
           CMP!ReadPending, CMP!Unlock, CMP!HandleUserCommand, CMP!AssignState,
           CMP!SetEventWait, CMP!SetPending, CMP!WriteCommand, CMP!PopCommand,
           CMP!cmdVars
      <4> QED
        BY <4>1, <4>2
    <3> QED
      BY <1>4, <3>1, <3>2
  <2> QED
    BY <1>1, <2>1, <2>2, CmTypes, CmStep
<1>5. CASE Gui \/ UNCHANGED vars
  <2>1. UNCHANGED <<state, controllerLoaded, commandPending, eventBeingWaitedOn,
                    incomingEvents, pc, todo, event, rtOpsDataOut, eventOut, rtOnly,
                    waitCutShort>>
    BY <1>5 DEF Gui, CM!GuiCommand, CM!cmShared, CM!cmdVars, CM!eventVars, CM!threads,
       vars, cmOnly, history
  <2> QED
    BY <1>1, <2>1, Same
<1> QED
  BY <1>2, <1>3, <1>4, <1>5 DEF Next, RtOps

(* Whenever nothing is under way, the Controller Manager and RT Ops agree  *)
(* on whether a controller is loaded, whatever was commanded and whatever  *)
(* failed before; only an acknowledgement that ended the wait for another  *)
(* can set them apart.                                                     *)
THEOREM AgreeOnLoading == Spec => []LoadAgreed
<1>1. Inv => LoadAgreed
  BY DEF Inv, AgreeInv, LoadInv, RtInv, LoadAgreed, AtRest, CMP!Inv, CMP!TypeOK
<1> QED
  BY <1>1, Starts, Keeps, PTL DEF Spec
=============================================================================
