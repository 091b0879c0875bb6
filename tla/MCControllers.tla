--------------------------- MODULE MCControllers ---------------------------
(***************************************************************************)
(* The controllers' modules, checked one at a time: part is the one that   *)
(* moves, the others keep one initial state.                               *)
(***************************************************************************)
EXTENDS Gait, Motion, ToeFilter

VARIABLE part

MCAngles    == {2, 4}
MCPitches   == {0, 1}
MCLengths   == {0, 2}
MCPositions == 0..2
MCAir       == {2, 3}
MCCreep     == {7}
MCLoad      == {12}

MCInit ==
  /\ part \in {"gait", "motion", "toe"}
  /\ GaitInit
  /\ MotionInit
  /\ ToeInit
  /\ part # "gait" => ctl = "Hopping"
  /\ part # "motion" => con = "MP" /\ c.lim["leg"] = 0
  /\ part # "toe" => toeSwitch = 2

MCNext ==
  \/ part = "gait" /\ GaitNext /\ UNCHANGED <<part, mvars, tvars>>
  \/ part = "motion" /\ MotionNext /\ UNCHANGED <<part, gvars, tvars>>
  \/ part = "toe" /\ ToeNext /\ UNCHANGED <<part, gvars, mvars>>

MCSpec == MCInit /\ [][MCNext]_<<part, gvars, mvars, tvars>>
=============================================================================
