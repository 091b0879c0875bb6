----------------------------- MODULE MCHardware -----------------------------
(***************************************************************************)
(* The connectors, the Medulla drivers and the Medulla boards' own code,   *)
(* checked one at a time: part is the one that moves, the others keep one  *)
(* initial state.                                                          *)
(***************************************************************************)
EXTENDS Connectors, MedullaDrivers, MedullaBoards

VARIABLE part

Slave(product, id) == [vendor |-> "drl", product |-> product, id |-> id]

Leg(id) == Slave("leg", id)
Hip(id) == Slave("hip", id)
Foreign == [vendor |-> "other", product |-> "leg", id |-> "rLegA"]
LeftLeg == <<Leg("lLegA"), Leg("lLegB")>>
RightLeg == <<Leg("rLegB"), Leg("rLegA")>>

(* No slave, the slave card, a monopod, a biped with one hip, a whole      *)
(* robot with two Medullas of one id, a right half that is missing, ids    *)
(* and vendors nobody knows.                                               *)
Robots ==
  { << >>, <<Slave("KPA", "none")>>,
    LeftLeg \o <<Hip("lHip")>>,
    RightLeg \o <<Hip("lHip")>> \o LeftLeg,
    <<Hip("rHip")>> \o LeftLeg \o RightLeg \o
      <<Leg("lLegA"), Slave("boom", "none"), Slave("imu", "none"), Hip("lHip")>>,
    LeftLeg \o <<Leg("rLegB"), Foreign, Hip("rHip")>>,
    <<Slave("motor", "none"), Leg("seven"), Hip("nine")>> \o RightLeg }

Three == {-1, 0, 1}
LowStop == -6

(* The checks the firmware has, and those the boards' headers define.      *)
AllChecks == {"switch", "therm", "motorV", "logicV", "encoder", "amp"}
Defined == [leg |-> {"therm"}, hip |-> {}, boom |-> {"logicV"}, imu |-> {}]
Builds == {AllChecks} \cup {Defined[name] : name \in Variants}

(* The polynomial falls again towards the comparator's greatest levels.    *)
Polynomial == [level \in 0 .. 3 |-> level * (4 - level) + 1]

MCInit ==
  /\ part \in {"connector", "driver", "board"}
  /\ ConnInit /\ Deployed
  /\ DriverInit
  /\ BoardInit
  /\ part # "connector" => conn = "sim"
  /\ part # "driver" => kind = "hip"
  /\ checks \in {AllChecks, Defined[variant]}
  /\ part # "board" => variant = "boom" /\ checks = AllChecks

MCNext ==
  \/ part = "connector" /\ ConnNext /\ UNCHANGED <<part, dvars, bvars>>
  \/ part = "driver" /\ DriverNext /\ UNCHANGED <<part, cvars, bvars>>
  \/ part = "board" /\ BoardNext /\ UNCHANGED <<part, cvars, dvars>>

(* The connectors' threads run; nothing is asked of the other two.         *)
MCSpec ==
  /\ MCInit /\ [][MCNext]_<<part, cvars, dvars, bvars>>
  /\ WF_cvars(part = "connector" /\ ConnThread)
  /\ WF_cvars(part = "connector" /\ OutThread)
=============================================================================
