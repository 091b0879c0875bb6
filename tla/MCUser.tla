------------------------------- MODULE MCUser -------------------------------
(***************************************************************************)
(* What a user works with, checked one at a time: the GUI's pages, its     *)
(* parameter files and the loading of controllers.  part is the one that   *)
(* moves, the others keep one initial state.                               *)
(***************************************************************************)
EXTENDS Gui, GuiParameters, Loading

VARIABLE part

MCControllers == {"slip_walking", "eq_point", "halfBuilt", "demo"}

MCquality ==
  [c \in MCControllers |-> CASE c = "halfBuilt" -> "noFunctions"
                             [] c = "demo"      -> "noTab"
                             [] OTHER           -> "good"]

MCMine   == Names
MCOthers == {"leg_sin_wave"}

(* The controllers whose stop script addresses what the start script       *)
(* loaded.                                                                 *)
MatchingPackages ==
  {atc_canonical_walking, atc_deadbeat_control, atc_demo_range_of_motion,
   atc_eq_point, atc_fast_leg_swing, atc_force_control_demo,
   atc_joint_position, atc_leg_position, atc_leg_sin_wave,
   atc_motor_position, atc_motor_position_hold_imu, atc_motor_sin_wave,
   atc_motor_test, atc_motor_torque, atc_motor_torque_sin,
   atc_programmable_motor_torque, atc_slip_hopping, atc_slip_running,
   atc_slip_walking, atc_velocity_tuning}

MCInit ==
  /\ part \in {"pages", "parameters", "loading"}
  /\ GuiInit
  /\ ParamInit
  /\ LoadingInit
  /\ part # "parameters" => pair = {"slip_walking", "leg_sin_wave"}

MCNext ==
  \/ part = "pages" /\ GuiNext /\ UNCHANGED <<part, pvars, lvars>>
  \/ part = "parameters" /\ ParamNext /\ UNCHANGED <<part, gvars, lvars>>
  \/ part = "loading" /\ LoadingNext /\ UNCHANGED <<part, gvars, pvars>>

MCSpec == MCInit /\ [][MCNext]_<<part, gvars, pvars, lvars>>
=============================================================================
