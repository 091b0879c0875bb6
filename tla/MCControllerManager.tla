------------------------ MODULE MCControllerManager ------------------------
(* The Controller Manager against an RT Ops that may send any event.       *)
EXTENDS ControllerManager

SomeEvents  == {"ACK_RESET", "MEDULLA_ESTOP"}
SomeGarbage == {"NO_EVENT", "ACK_RESET"}
OneOfEach   == {"ACK_DISABLE", "MEDULLA_ESTOP"}
NoGarbage   == {"NO_EVENT"}
NoEStop     == {"STOP", "RUN", "UNLOAD_CONTROLLER"}
=============================================================================
