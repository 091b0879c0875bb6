---------------------------- MODULE GuiParameters ----------------------------
(***************************************************************************)
(* The GUI's Save and Load buttons.  A controller's plugin keeps its       *)
(* parameters in widgets and, copied from them by guiUpdate every 20 ms,   *)
(* in the message it sends the controller (dataOut).  setParameters writes *)
(* the message to the parameter server, in the namespace /atrias_gui that  *)
(* all plugins share; getParameters reads it back into the widgets.        *)
(* Between server and file, rosparam carries them, in child processes the  *)
(* GUI forks and never waits for; taking a controller down deletes the     *)
(* namespace the same way.                                                 *)
(*                                                                         *)
(* A plugin is the record of what its functions do with each kind of       *)
(* parameter, one key standing for all that are treated alike; keys that   *)
(* several plugins use have one name.  A value is <<whose, version>>.      *)
(***************************************************************************)
EXTENDS Integers, Sequences, FiniteSets

CONSTANTS
  Mine, Others,     \* the two plugins are one of each
  EDITS,            \* edits, in all
  CHILDREN          \* children running at a time

VARIABLES
  pair,       \* the plugins with a tab
  open,       \* the one that is shown, or "none"
  widget,     \* what the widgets of each show
  dataOut,    \* controllerDataOut of each
  server,     \* /atrias_gui
  files,      \* guiConfigPath of each
  children,   \* rosparam processes: <<what, for whom>>
  user        \* what the properties remember of the user

pvars == <<pair, open, widget, dataOut, server, files, children, user>>

Junk   == <<"junk", 0>>
Status == <<"status", 0>>
-----------------------------------------------------------------------------
(***************************************************************************)
(* The plugins.  saved: written by setParameters; read: by getParameters;  *)
(* sent: copied by guiUpdate; raw: read through a local variable, left     *)
(* uninitialised if the server has no such key; status: a widget guiUpdate *)
(* fills from the controller's status, always or (held) if the user wants; *)
(* overwritten: read by setParameters where it should write.  onto k is    *)
(* the widget that a read of k sets.  init: whether guiInit looks if it    *)
(* has found its widgets, or what it returns otherwise.                    *)
(***************************************************************************)
Plugin(keys, raw) ==
  [init |-> "unchecked", has |-> TRUE, saved |-> keys, read |-> keys, sent |-> keys, raw |-> raw,
   status |-> {}, held |-> {}, overwritten |-> {}, onto |-> [k \in keys |-> k]]

Checked(p) == [p EXCEPT !.init = "checked"]

(* Parameters that are sent only.                                          *)
Sending(p, keys) == [p EXCEPT !.sent = @ \cup keys]

canonical_walking == Plugin({"leg_pos_kp", "main_controller"}, {"main_controller"})

deadbeat_control ==
  [Plugin({"leg_pos_kp", "main_controller", "walking_state"}, {"main_controller"})
     EXCEPT !.sent = @ \ {"walking_state"}, !.status = {"walking_state"}]

slip_walking ==
  [Plugin({"leg_pos_kp", "main_controller", "walking_state"}, {"main_controller"})
     EXCEPT !.sent = @ \ {"walking_state"}, !.status = {"walking_state"}]

demo == [Plugin({"leg_pos_kp", "main_controller"}, {"main_controller"})
           EXCEPT !.init = "fails"]

stabilized_standing == Plugin({"leg_pos_kp", "main_controller"}, {"main_controller"})

force_control_demo == Plugin({"leg_pos_kp", "left_controller"}, {"left_controller"})

slip_hopping == Plugin({"leg_pos_kp", "main_controller"}, {"main_controller"})

slip_running == Plugin({"leg_pos_kp", "main_controller"}, {"main_controller"})

demo_range_of_motion == Sending(Checked(Plugin({"leg_p_gain"}, {})), {"mode"})

fast_leg_swing == Sending(Checked(Plugin({"leg_p_gain"}, {})), {"mode"})

joint_position == Sending(Checked(Plugin({"p_ll", "max_leg_spd"}, {})), {"smoothLegMotion"})

leg_position == Checked(Plugin({"p_gain", "leg_ang"}, {}))

(* The abduction's times are read but never written.                       *)
eq_point ==
  [Checked(Plugin({"aea", "lfl", "lot", "thip"}, {}))
     EXCEPT !.saved = @ \ {"thip"}, !.onto["lot"] = "lfl"]

leg_sin_wave ==
  [Sending(Checked(Plugin({"leg_angle_amplitude", "p_gain"}, {})), {"hip_p_gain"})
     EXCEPT !.saved = {"leg_angle_amplitude"}, !.overwritten = {"p_gain"}]

motor_position ==
  [Checked(Plugin({"des_motor_ang", "leg_motor_p_gain"}, {})) EXCEPT !.held = {"des_motor_ang"}]

motor_position_hold_imu ==
  [Checked(Plugin({"des_motor_ang", "leg_motor_p_gain"}, {})) EXCEPT !.held = {"des_motor_ang"}]

motor_test   == Checked(Plugin({"torque_A"}, {}))

motor_torque == Checked(Plugin({"torque_left_A"}, {}))

(* These have no getParameters and setParameters, or empty ones.           *)
NoParameters(p) == [p EXCEPT !.has = FALSE]

velocity_tuning == Sending(Checked(Plugin({}, {})), {"Kp"})

motor_sin_wave == NoParameters(Sending(Checked(Plugin({}, {})), {"p_gain"}))

motor_torque_sin == NoParameters(Sending(Checked(Plugin({}, {})), {"amp"}))

programmable_motor_torque == NoParameters(Sending(Checked(Plugin({}, {})), {"torque_A"}))

plugin ==
  [canonical_walking |-> canonical_walking, deadbeat_control |-> deadbeat_control,
   slip_walking |-> slip_walking, demo |-> demo, stabilized_standing |-> stabilized_standing,
   force_control_demo |-> force_control_demo, slip_hopping |-> slip_hopping,
   slip_running |-> slip_running, demo_range_of_motion |-> demo_range_of_motion,
   fast_leg_swing |-> fast_leg_swing, joint_position |-> joint_position,
   leg_position |-> leg_position, eq_point |-> eq_point, leg_sin_wave |-> leg_sin_wave,
   motor_position |-> motor_position, motor_position_hold_imu |-> motor_position_hold_imu,
   motor_test |-> motor_test, motor_torque |-> motor_torque,
   velocity_tuning |-> velocity_tuning, motor_sin_wave |-> motor_sin_wave,
   motor_torque_sin |-> motor_torque_sin,
   programmable_motor_torque |-> programmable_motor_torque]

Names == {n \in DOMAIN plugin : plugin[n].init # "fails"}

ASSUME PairAssumption == Mine \cup Others \subseteq Names

Widgets(n) == plugin[n].read \cup plugin[n].sent
-----------------------------------------------------------------------------
Empty == [k \in {} |-> Junk]

(* f with the values of g where g has one.                                 *)
Over(f, g) == [k \in DOMAIN f \cup DOMAIN g |-> IF k \in DOMAIN g THEN g[k] ELSE f[k]]
On(f, keys) == [k \in keys \cap DOMAIN f |-> f[k]]

ParamInit ==
  /\ pair \in {{a, b} : a \in Mine, b \in Others}
  /\ open = "none"
  /\ widget = [n \in pair |-> [k \in Widgets(n) |-> <<n, 0>>]]
  /\ dataOut = widget
  /\ server = Empty
  /\ files = [n \in pair |-> Empty]
  /\ children = <<>>
  /\ user = [edits |-> 0, hasty |-> FALSE, ticked |-> FALSE,
             shown |-> [n \in pair |-> Empty], did |-> "none"]

(* The user presses a button; hasty if a child is still running.  shown is *)
(* what the widgets of each showed when Save was last pressed, if an       *)
(* update had come since they were set.  Once hasty, the user only turns   *)
(* the pages.                                                              *)
Presses(did) ==
  /\ ~user.hasty \/ did = "switch"
  /\ Len(children) < CHILDREN
  /\ user' = [user EXCEPT !.hasty = @ \/ children # <<>>, !.did = did,
                          !.ticked = did = "save" /\ @,
                          !.shown = IF did # "save" THEN @
                                    ELSE [@ EXCEPT ![open] = IF user.ticked THEN widget[open]
                                                             ELSE Empty]]

Edit(k) ==
  /\ open # "none" /\ ~user.hasty /\ user.edits < EDITS
  /\ k \in plugin[open].sent
  /\ widget' = [widget EXCEPT ![open][k] = <<open, user.edits + 1>>]
  /\ user' = [user EXCEPT !.edits = @ + 1, !.ticked = FALSE, !.did = "none"]
  /\ UNCHANGED <<pair, open, dataOut, server, files, children>>

(* held: the widgets of the motor positions follow the motors.             *)
guiUpdate(held) ==
  LET p == plugin[open]
      w == [k \in DOMAIN widget[open] |->
              IF k \in p.status \/ (held /\ k \in p.held) THEN Status ELSE widget[open][k]]
  IN  /\ open # "none"
      /\ widget' = [widget EXCEPT ![open] = w]
      /\ dataOut' = [dataOut EXCEPT ![open] = Over(@, On(w, p.sent))]
      /\ user' = [user EXCEPT !.ticked = TRUE, !.did = "none"]
      /\ UNCHANGED <<pair, open, server, files, children>>

setParameters(p, out) == On(out, p.saved)

(* setParameters, then a child that dumps the namespace.                   *)
save_parameters ==
  LET p == plugin[open]
  IN  /\ open # "none" /\ p.has
      /\ Presses("save")
      /\ server' = Over(server, setParameters(p, dataOut[open]))
      /\ dataOut' = [dataOut EXCEPT ![open] = Over(@, On(server, p.overwritten))]
      /\ children' = Append(children, <<"dump", open>>)
      /\ UNCHANGED <<pair, open, widget, files>>

(* What getParameters reads for k.                                         *)
getParam_Stale(p, k, out) ==
  IF k \in p.raw THEN Junk ELSE out[k]

getParam(p, k, out) ==
  IF k \in DOMAIN server THEN server[k] ELSE IF k \in p.raw THEN Junk ELSE out[k]

(* Widgets are set in the order of the keys: a key that is read onto       *)
(* another's widget is the last to set it.                                 *)
getParameters(p, out) ==
  LET from(w) == IF \E k \in p.read : k # w /\ p.onto[k] = w
                 THEN CHOOSE k \in p.read : k # w /\ p.onto[k] = w ELSE w
  IN  [w \in {p.onto[k] : k \in p.read} |-> getParam(p, from(w), out)]

(* A child that loads the file; getParameters does not wait for it.        *)
load_parameters ==
  LET p == plugin[open]
  IN  /\ open # "none" /\ p.has
      /\ Presses(IF On(server, DOMAIN files[open]) = files[open] THEN "again" ELSE "load")
      /\ children' = Append(children, <<"load", open>>)
      /\ widget' = [widget EXCEPT ![open] = Over(@, getParameters(p, dataOut[open]))]
      /\ dataOut' = [dataOut EXCEPT ![open] =
                       [k \in DOMAIN @ |-> IF k \in p.read \ p.raw
                                           THEN getParam(p, k, dataOut[open]) ELSE @[k]]]
      /\ UNCHANGED <<pair, open, server, files>>

(* A child that deletes the namespace, if there is one.                    *)
takedown_current_controller ==
  children' = IF server # Empty THEN Append(children, <<"delete", open>>) ELSE children

switch_tab(n) ==
  /\ n # open
  /\ Presses("switch")
  /\ takedown_current_controller
  /\ open' = n
  /\ UNCHANGED <<pair, widget, dataOut, server, files>>
-----------------------------------------------------------------------------
(***************************************************************************)
(* The children, in any order.  A namespace that does not exist cannot be  *)
(* dumped, nor a file that does not exist be loaded.                       *)
(***************************************************************************)
Finish(i) == children' = SubSeq(children, 1, i - 1) \o SubSeq(children, i + 1, Len(children))

Dump(i) ==
  /\ children[i][1] = "dump"
  /\ files' = IF server = Empty THEN files ELSE [files EXCEPT ![children[i][2]] = server]
  /\ UNCHANGED server

LoadFile(i) ==
  /\ children[i][1] = "load"
  /\ server' = Over(server, files[children[i][2]])
  /\ UNCHANGED files

Delete(i) ==
  /\ children[i][1] = "delete"
  /\ server' = Empty
  /\ UNCHANGED files

rosparam(i) ==
  /\ \/ Dump(i)
     \/ LoadFile(i)
     \/ Delete(i)
  /\ Finish(i)
  /\ user' = [user EXCEPT !.did = "none"]
  /\ UNCHANGED <<pair, open, widget, dataOut>>

ParamNext ==
  \/ \E k \in UNION {Widgets(n) : n \in pair} : Edit(k)
  \/ \E held \in BOOLEAN : guiUpdate(held)
  \/ save_parameters
  \/ load_parameters
  \/ \E n \in pair \cup {"none"} : switch_tab(n)
  \/ \E i \in 1..Len(children) : rosparam(i)

ParamSpec == ParamInit /\ [][ParamNext]_pvars
-----------------------------------------------------------------------------
(***************************************************************************)
(* What a user sets and Save followed by Load does not bring back: gains   *)
(* that leg_sin_wave reads from the server where it should write them, or  *)
(* never saves (controller_gui.cpp:74 has it set the parameters "according *)
(* to current GUI settings"), the thigh's and leg's angles of eq_point     *)
(* that are not written or are read onto another's widget, and what four   *)
(* plugins send but neither write nor read.                                *)
(***************************************************************************)
Lost ==
  {<<"leg_sin_wave", "p_gain">>, <<"leg_sin_wave", "hip_p_gain">>,
   <<"eq_point", "thip">>, <<"eq_point", "lfl">>, <<"eq_point", "lot">>,
   <<"demo_range_of_motion", "mode">>, <<"fast_leg_swing", "mode">>,
   <<"joint_position", "smoothLegMotion">>, <<"velocity_tuning", "Kp">>}

(***************************************************************************)
(* What a user set on a plugin's page and saved, the page shows again once *)
(* Load is pressed with the file on the server, whatever was edited, saved *)
(* or loaded on this page or the other in between: every parameter the     *)
(* plugin sends its controller but the ones named Lost.  The file is on    *)
(* the server after a Save on the same page and before it is left, and     *)
(* from the second press of Load on: getParameters does not wait for the   *)
(* child of the first.  It is assumed that the user waits for the child    *)
(* before pressing another button (~hasty) and that an update comes        *)
(* between an edit and Save.                                               *)
(***************************************************************************)
SavedComesBack ==
  user.did = "again" /\ ~user.hasty /\ user.shown[open] # Empty =>
    \A k \in plugin[open].sent :
      <<open, k>> \notin Lost => widget[open][k] = user.shown[open][k]

(***************************************************************************)
(* Though the plugins share one namespace and their keys, no widget shows  *)
(* and no file holds a parameter another plugin has set, as long as the    *)
(* user waits for the children before pressing another button.             *)
(***************************************************************************)
NoForeignParameters ==
  ~user.hasty =>
    \A n \in pair :
      /\ \A k \in DOMAIN widget[n] : widget[n][k][1] \in {n, "junk", "status"}
      /\ \A k \in DOMAIN files[n] : files[n][k][1] \in {n, "junk", "status"}

(***************************************************************************)
(* The parameters a user sets on one controller's tab and saves come back  *)
(* when they are loaded, with the exceptions SavedComesBack names, and are *)
(* nobody else's.                                                          *)
(***************************************************************************)
ParametersKept == SavedComesBack /\ NoForeignParameters
==============================================================================
