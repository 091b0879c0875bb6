------------------------------ MODULE MCRobot ------------------------------
(* The robot with short counters and the commands a user can bring about.  *)
EXTENDS Robot

UserCommands == {"DISABLED", "ENABLED", "RESET"}
=============================================================================
