---------------------------- MODULE RtOpsHistory ----------------------------
(***************************************************************************)
(* RT Ops with history variables that count what the controller loop sends *)
(* to the Medullas, and the properties stated with them.  The history      *)
(* variables only observe: every step of RtOps remains possible.           *)
(***************************************************************************)
EXTENDS RtOps

VARIABLES
  runsSinceStop,   \* run commands sent since currentState left ENABLED
  runsOnHalt       \* run commands sent since a robot state to halt on was stored

histVars == <<runsSinceStop, runsOnHalt>>

SendsRun == loopPc = "send" /\ loopPc' = "wait" /\ output.command = "run"

(* The counters stop at 2: the properties only ask whether a second run    *)
(* has been sent.                                                          *)
Count(n) == IF SendsRun /\ n < 2 THEN n + 1 ELSE n

InitH ==
  /\ Init
  /\ runsSinceStop = 0 /\ runsOnHalt = 0

NextH ==
  /\ Next
  /\ runsSinceStop' = IF currentState = "ENABLED" THEN 0
                      ELSE Count(runsSinceStop)
  /\ runsOnHalt' = IF shouldHalt THEN Count(runsOnHalt) ELSE 0

varsH == <<vars, histVars>>

SpecH == InitH /\ [][NextH]_varsH

FairSpecH == SpecH /\ Fairness

----------------------------------------------------------------------------
(* When RT Ops leaves ENABLED - for E_STOP, HALT, RESET or DISABLED, and   *)
(* by whichever thread - the controller loop may still be in a cycle that  *)
(* saw ENABLED, but it sends the Medullas at most one more run command     *)
(* before ENABLED is entered again (ControllerLoop::loop, calcState).  And *)
(* once a robot state that Safety::shouldHalt objects to has been stored,  *)
(* at most one run command still goes out for as long as the stored states *)
(* keep objecting, whatever the Controller Manager commands meanwhile.     *)
AtMostOneRun ==
  /\ currentState # "ENABLED" => runsSinceStop <= 1
  /\ runsOnHalt <= 1
=============================================================================
