--------------------------------- MODULE Gui ---------------------------------
(***************************************************************************)
(* The GUI (software/atrias_gui), with the Controller Manager at the other *)
(* end of its connection.  Page 0 of the notebook lists the controllers;   *)
(* ticking one gives it a tab, and showing the tab requests the controller *)
(* from the Controller Manager.  Every message is the whole of go, the     *)
(* GUI's only output; control_system.ops connects it as DATA, so that an   *)
(* unread message is overwritten by the next.                              *)
(*                                                                         *)
(* The Controller Manager is cut down to one thread; the module            *)
(* ControllerManager has both.  Pages, tabs and rows of the list count     *)
(* from 1 here: page 1 is CONTROLLER_LOAD_PAGE.                            *)
(***************************************************************************)
EXTENDS Integers, Sequences, FiniteSets

CONSTANTS
  Controllers,   \* the packages found by detect_controllers
  quality,       \* what is wrong with the plugin of each
  MaxCommands    \* bound on the commands queued in commandBuffer

(* noLib: dlopen fails; noTab: its GUI file cannot be read or has no tab,  *)
(* or guiInit reports an error; noFunctions: guiUpdate or guiTakedown is   *)
(* missing.                                                                *)
ASSUME GuiConstants ==
  /\ quality \in [Controllers -> {"good", "noLib", "noTab", "noFunctions"}]
  /\ "none" \notin Controllers
  /\ MaxCommands \in Nat \ {0}

VARIABLES
  go,                   \* the message: command and requestedController
  controller_loaded,
  controllerName,
  currentControllerID,  \* the page of the controller shown last
  page,                 \* the page shown
  tabs,                 \* controllerDetectedIDs: the controllers of the tabs
  ticked,               \* the rows of the list that are ticked
  dialog,               \* an error dialog is open; it is modal
  closed,
  guiDataIn,            \* the unread messages: none or one
  cm,                   \* the Controller Manager
  overwritten           \* a message has been overwritten

shell == <<controllerName, currentControllerID, page, tabs, ticked, dialog>>
gvars == <<go, controller_loaded, shell, closed, guiDataIn, cm, overwritten>>

Command(c, n) == [command |-> c, requestedController |-> n]

GuiInit ==
  /\ go = Command("STOP", "none") /\ controller_loaded = FALSE
  /\ controllerName = "none" /\ currentControllerID = 2
  /\ page = 1 /\ tabs = <<>> /\ ticked = {} /\ dialog = FALSE /\ closed = FALSE
  /\ guiDataIn = <<>> /\ overwritten = FALSE
  /\ cm = [state |-> "NO_CONTROLLER_LOADED", name |-> "none", requested |-> "none",
           commandBuffer |-> <<>>, waits |-> "none"]

(* The user acts; MaxCommands bounds how far ahead of the robot.           *)
Acts == ~dialog /\ ~closed /\ Len(cm.commandBuffer) < MaxCommands

(* A handler publishes one message, or two; the Controller Manager may     *)
(* have read the first of two before the second comes.                     *)
Publish(m) ==
  /\ guiDataIn' = <<m>> /\ overwritten' = (overwritten \/ guiDataIn # <<>>)
  /\ UNCHANGED cm

PublishBoth(m, n) ==
  \/ guiDataIn' = <<n>> /\ overwritten' = TRUE /\ UNCHANGED cm
  \/ /\ guiDataIn' = <<n>> /\ overwritten' = (overwritten \/ guiDataIn # <<>>)
     /\ cm' = [cm EXCEPT !.requested = m.requestedController,
                         !.commandBuffer = Append(@, m.command)]
-----------------------------------------------------------------------------
(* The list of controllers.  A row that could not be loaded is unticked,   *)
(* which calls unload_controller and finds no tab.                         *)

load_controller(c) ==
  /\ Acts /\ page = 1 /\ c \notin ticked /\ ~controller_loaded
  /\ IF quality[c] \in {"noLib", "noTab"}
     THEN dialog' = TRUE /\ UNCHANGED <<tabs, ticked>>
     ELSE tabs' = Append(tabs, c) /\ ticked' = ticked \cup {c} /\ UNCHANGED dialog
  /\ UNCHANGED <<go, controller_loaded, controllerName, currentControllerID, page, closed,
                 guiDataIn, cm, overwritten>>

(* The tabs without the first one of c.                                    *)
Removed(c) ==
  LET i == CHOOSE i \in DOMAIN tabs : tabs[i] = c /\ \A j \in 1 .. i - 1 : tabs[j] # c
  IN  SubSeq(tabs, 1, i - 1) \o SubSeq(tabs, i + 1, Len(tabs))

unload_controller(c) ==
  /\ Acts /\ page = 1 /\ c \in ticked /\ ~controller_loaded
  /\ tabs' = Removed(c) /\ ticked' = ticked \ {c}
  /\ UNCHANGED <<go, controller_loaded, controllerName, currentControllerID, page, dialog,
                 closed, guiDataIn, cm, overwritten>>

Dismiss ==
  /\ dialog /\ dialog' = FALSE
  /\ UNCHANGED <<go, controller_loaded, controllerName, currentControllerID, page, tabs, ticked,
                 closed, guiDataIn, cm, overwritten>>
-----------------------------------------------------------------------------
(* takedown_current_controller publishes this.                             *)
Takedown == Command("UNLOAD_CONTROLLER", "none")

(* Only a stopped robot changes its controller; otherwise the page that    *)
(* was left is shown again.                                                *)
MayLeave == go.command = "STOP"

switch_back(p) ==
  /\ Acts /\ p # page /\ ~MayLeave
  /\ page' = currentControllerID
  /\ UNCHANGED <<go, controller_loaded, controllerName, currentControllerID, tabs, ticked, dialog,
                 closed, guiDataIn, cm, overwritten>>

(* Back to the list.  The stop is not published.                           *)
switch_to_list ==
  /\ Acts /\ page # 1 /\ MayLeave
  /\ PublishBoth(Takedown, Takedown)
  /\ go' = Command("STOP", "none")
  /\ controller_loaded' = FALSE /\ page' = 1
  /\ UNCHANGED <<controllerName, currentControllerID, tabs, ticked, dialog, closed>>

ShownID_Stale(p) == currentControllerID

(* currentControllerID, counted from the list's page.                      *)
ShownID(p) == p

switch_controllers(p) ==
  LET c == tabs[p - 1]
  IN  /\ Acts /\ p # page /\ MayLeave
      /\ go' = Command("STOP", c)
      /\ PublishBoth(Takedown, go')
      /\ controllerName' = c
      /\ controller_loaded' = (quality[c] # "noFunctions")
      /\ dialog' = (quality[c] = "noFunctions")
      /\ currentControllerID' = ShownID(p) /\ page' = p
      /\ UNCHANGED <<tabs, ticked, closed>>
-----------------------------------------------------------------------------
(* The buttons.                                                            *)

enable_motors ==
  /\ Acts /\ controller_loaded
  /\ go' = [go EXCEPT !.command = "RUN"] /\ Publish(go')
  /\ UNCHANGED <<controller_loaded, shell, closed>>

disable_motors_Quiet ==
  /\ Acts
  /\ go' = [go EXCEPT !.command = "STOP"]
  /\ UNCHANGED <<controller_loaded, shell, closed, guiDataIn, cm, overwritten>>

disable_motors ==
  /\ Acts
  /\ go' = [go EXCEPT !.command = "STOP"] /\ Publish(go')
  /\ UNCHANGED <<controller_loaded, shell, closed>>

estop_button_clicked ==
  /\ Acts /\ controller_loaded /\ go.command = "RUN"
  /\ go' = [go EXCEPT !.command = "E_STOP"] /\ Publish(go')
  /\ UNCHANGED <<controller_loaded, shell, closed>>

(* main, after the window was closed: disable_motors, then takedown.       *)
close ==
  /\ Acts /\ closed' = TRUE
  /\ go' = Takedown /\ PublishBoth([go EXCEPT !.command = "STOP"], Takedown)
  /\ controller_loaded' = FALSE
  /\ UNCHANGED shell

(* The GUI is started again.                                               *)
main ==
  /\ closed /\ closed' = FALSE
  /\ go' = Command("STOP", "none") /\ controller_loaded' = FALSE
  /\ controllerName' = "none" /\ currentControllerID' = 2
  /\ page' = 1 /\ tabs' = <<>> /\ ticked' = {} /\ dialog' = FALSE
  /\ UNCHANGED <<guiDataIn, cm, overwritten>>
-----------------------------------------------------------------------------
(* The Controller Manager and RT Ops.                                      *)

gui == <<go, controller_loaded, shell, closed>>

(* updateHook reads the message: the command is queued, but the name of    *)
(* the controller is that of the last message read.                        *)
updateHook ==
  /\ guiDataIn # <<>> /\ guiDataIn' = <<>>
  /\ cm' = [cm EXCEPT !.requested = guiDataIn[1].requestedController,
                      !.commandBuffer = Append(@, guiDataIn[1].command)]
  /\ UNCHANGED <<gui, overwritten>>

(* What handleUserCommand makes of c; its start script may fail.           *)
handleUserCommand(c, runs) ==
  CASE cm.state = "NO_CONTROLLER_LOADED" /\ c = "STOP" /\ cm.requested # "none" /\ runs ->
         [cm EXCEPT !.state = "CONTROLLER_STOPPED", !.name = cm.requested, !.waits = "ACK_DISABLE"]
    [] cm.state = "CONTROLLER_STOPPED" /\ c = "RUN" -> [cm EXCEPT !.state = "CONTROLLER_RUNNING"]
    [] cm.state = "CONTROLLER_RUNNING" /\ c = "STOP" -> [cm EXCEPT !.state = "CONTROLLER_STOPPED"]
    [] cm.state = "CONTROLLER_RUNNING" /\ c = "E_STOP" ->
         [cm EXCEPT !.state = "CONTROLLER_ESTOPPED", !.waits = "ACK_E_STOP"]
    [] cm.state # "NO_CONTROLLER_LOADED" /\ c = "UNLOAD_CONTROLLER" ->
         [cm EXCEPT !.waits = "ACK_RESET"]
    [] OTHER -> cm

tryProcessCommand(runs) ==
  /\ cm.waits = "none" /\ cm.commandBuffer # <<>>
  /\ cm' = [handleUserCommand(Head(cm.commandBuffer), runs)
              EXCEPT !.commandBuffer = Tail(@)]
  /\ UNCHANGED <<gui, guiDataIn, overwritten>>

(* The event manager: RT Ops has answered what is waited for.              *)
setState(answer) ==
  IF answer = "ACK_RESET"
  THEN [cm EXCEPT !.state = "NO_CONTROLLER_LOADED", !.name = "none", !.waits = "none"]
  ELSE [cm EXCEPT !.waits = "none"]

Answer ==
  /\ cm.waits # "none"
  /\ cm' = setState(cm.waits)
  /\ UNCHANGED <<gui, guiDataIn, overwritten>>

(* An E-stop of a Medulla or a controller.                                 *)
throwEstop ==
  /\ cm.state # "CONTROLLER_ESTOPPED"
  /\ cm' = [cm EXCEPT !.state = "CONTROLLER_ESTOPPED"]
  /\ UNCHANGED <<gui, guiDataIn, overwritten>>

GuiNext ==
  \/ \E c \in Controllers : load_controller(c) \/ unload_controller(c)
  \/ \E p \in 1..Len(tabs) + 1 : switch_back(p)
  \/ \E p \in 2..Len(tabs) + 1 : switch_controllers(p)
  \/ switch_to_list
  \/ Dismiss
  \/ enable_motors \/ disable_motors \/ estop_button_clicked \/ close \/ main
  \/ updateHook
  \/ \E runs \in BOOLEAN : tryProcessCommand(runs)
  \/ Answer
  \/ throwEstop

GuiSpec == GuiInit /\ [][GuiNext]_gvars
-----------------------------------------------------------------------------
Range1(s) == {s[i] : i \in DOMAIN s}

(* Everything that was sent has been dealt with.                           *)
AtRest == guiDataIn = <<>> /\ cm.commandBuffer = <<>> /\ cm.waits = "none"

(***************************************************************************)
(* Whenever the Controller Manager runs a controller, either the GUI's     *)
(* E-stop button works (it is ignored unless a controller is loaded and    *)
(* the last command was RUN, and cannot be reached past a dialog), or a    *)
(* command that ends the run is already on its way.                        *)
(***************************************************************************)
RunningCanBeStopped ==
  cm.state = "CONTROLLER_RUNNING" =>
    \/ controller_loaded /\ go.command = "RUN" /\ ~dialog
    \/ cm.waits = "ACK_RESET"
    \/ {"STOP", "E_STOP", "UNLOAD_CONTROLLER"} \cap Range1(cm.commandBuffer) # {}
    \/ guiDataIn # <<>> /\ guiDataIn[1].command # "RUN"

(***************************************************************************)
(* The tabs are those of the ticked rows, each there once, though a row    *)
(* may be ticked and unticked in any order.                                *)
(***************************************************************************)
TabsAreTicked ==
  /\ Range1(tabs) = ticked /\ Len(tabs) = Cardinality(ticked)

(***************************************************************************)
(* The buttons work on the controller whose tab is shown: its plugin's     *)
(* functions are called and it is the controller that is requested, also   *)
(* after a change of page was refused.                                     *)
(***************************************************************************)
LoadedIsShown ==
  controller_loaded => /\ page # 1 /\ tabs[page - 1] = controllerName
                       /\ go.requestedController = controllerName

(***************************************************************************)
(* If no message was overwritten, the controller that is loaded when all   *)
(* messages have been dealt with is the one whose tab is shown.            *)
(***************************************************************************)
LoadedAsRequested ==
  ~overwritten /\ AtRest => cm.name \in {"none", go.requestedController}

(***************************************************************************)
(* Closing the GUI unloads the controller, whatever was overwritten.       *)
(***************************************************************************)
CloseUnloads == closed /\ AtRest => cm.name = "none"

(***************************************************************************)
(* What the GUI shows, what it requests and what the Controller Manager    *)
(* has loaded agree, and what the user ticked, turned to and closed is     *)
(* what they agree on.                                                     *)
(***************************************************************************)
GuiAgrees == TabsAreTicked /\ LoadedIsShown /\ LoadedAsRequested /\ CloseUnloads
==============================================================================
