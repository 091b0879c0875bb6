------------------------------ MODULE MCRtOps ------------------------------
(***************************************************************************)
(* RT Ops on a robot with one leg Medulla, one hip Medulla and one motor.  *)
(* Each run picks the inputs its question is about: the robot states, the  *)
(* controller's outputs and the Controller Manager's commands.             *)
(***************************************************************************)
EXTENDS RtOps, TLC

CONSTANTS leg, hip, motor

MCMedullas    == {leg, hip}
MCHipMedullas == {hip}
MCMotors      == {motor}

Report(l, h, c) == [medullaState |-> leg :> l @@ hip :> h, collision |-> c]
Failing    == Report("run", "error", FALSE)
Colliding  == Report("run", "run", TRUE)

FailOnly      == {Failing}
FailOrCollide == {Failing, Colliding}

(* A current of 3 exceeds MaxCurrent.                                       *)
Out(c, i)     == [command |-> c, current |-> motor :> i]
Running       == {Out("run", 1)}
StopOutputs   == {Out("run", 1), Out("run", NaN), Out("error", 3)}

LoadCommands    == {"DISABLED", "RESET"}
StopCommands    == {"DISABLED", "ENABLED", "RESET", "INVALID"}
=============================================================================
