--------------------------- MODULE MCControlSystem ---------------------------
(* The composed control system.  The user gives two commands, enough to    *)
(* load and run a controller and then stop, unload or E-stop it, or to     *)
(* reset the robot after a Medulla's error; one when the controller or the *)
(* safeties stop the robot or a deadline may be missed.                    *)
EXTENDS ControlSystem

NoGarbage   == {"NO_EVENT"}

AllCommands == {"STOP", "RUN", "E_STOP", "UNLOAD_CONTROLLER"}

TheFaults   == {{}, {"medulla"}, {"controller"}, {"deadline"}}

AsManyAs(f) ==
  IF f \in {{}, {"medulla"}} THEN 2 ELSE 1
=============================================================================
