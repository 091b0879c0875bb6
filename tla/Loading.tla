------------------------------- MODULE Loading -------------------------------
(***************************************************************************)
(* Loading and unloading controllers (software/atrias_controller_manager,  *)
(* software/atrias_controllers/*/start.ops and stop.ops,                   *)
(* software/atrias_asc_loader).                                            *)
(*                                                                         *)
(* A controller is a deployer component.  loadController runs its start    *)
(* script, statement by statement: load the component, ask the Controller  *)
(* Manager for names of its subcontrollers, load those, configure and      *)
(* start.  When RT Ops has acknowledged the reset, setState runs the stop  *)
(* script, which undoes all that.  The scripts find components by name     *)
(* only; many controllers share the name "controller".  A controller may   *)
(* also load subcontrollers from C++ with an ASCLoader, whose destructor   *)
(* unloads them.                                                           *)
(*                                                                         *)
(* The deployer is outside the repository.  It is taken to refuse a second *)
(* component of a name, and a statement about a component that is not      *)
(* there; a statement that is refused ends its script, which then reports  *)
(* failure.                                                                *)
(***************************************************************************)
EXTENDS Integers, Sequences, FiniteSets

CONSTANTS
  Packages,    \* the controllers the GUI may request, from Controllers
  ASCTypes,    \* the types of subcontrollers loaded through an ASCLoader
  CountMax,    \* 65536: controllerChildCounts holds a uint16_t
  MaxLoads,    \* bound on the controllers requested
  MaxASCs,     \* bound on the subcontrollers loaded through an ASCLoader
  MaxFaults    \* bound on the statements that fail for reasons outside
               \* the scripts (a missing library, a hook returning false)

(***************************************************************************)
(* What the packages' scripts have in common: a stop script addresses what *)
(* its start script has loaded, and a counter has a number for each        *)
(* subcontroller of its type that is there at once.  (atc_demo and         *)
(* atc_stabilized_standing are not such packages: their stop scripts       *)
(* fail.)                                                                  *)
(***************************************************************************)
ASSUME PackagesMatch ==
  /\ CountMax \in Nat \ {0} /\ MaxASCs \in Nat
  /\ ASCTypes \subseteq STRING
  /\ \A c \in Packages :
       /\ c.component \in STRING /\ c.subs \in Seq(STRING)
       /\ c.stops = c.component /\ c.unloads = c.component
       /\ {c.clears, c.resets, c.early} \subseteq BOOLEAN
       /\ \A type \in ASCTypes \cup {c.subs[i] : i \in 1..Len(c.subs)} :
            Cardinality({i \in 1..Len(c.subs) : c.subs[i] = type}) + MaxASCs <= CountMax

(***************************************************************************)
(* The controllers, by what their scripts do.  component: the name the     *)
(* start script loads; subs: the types of its subcontrollers; clears:      *)
(* whether the start script begins with resetControllerNames; stops: the   *)
(* name the stop script stops and cleans up; unloads: the name it unloads; *)
(* resets: whether it ends with resetControllerNames; early: whether the   *)
(* subcontrollers are unloaded before the controller's cleanup.            *)
(***************************************************************************)
Scripts(component, subs, clears, resets, early) ==
  [component |-> component, subs |-> subs, clears |-> clears,
   stops |-> component, unloads |-> component, resets |-> resets,
   early |-> early]

Six(type) == [i \in 1..6 |-> type]

atc_canonical_walking == Scripts("ATCCanonicalWalking", <<>>, FALSE, FALSE, FALSE)

atc_deadbeat_control == Scripts("ATCDeadbeatControl", <<>>, FALSE, TRUE, FALSE)

atc_demo ==
  [Scripts("ATCDemo", <<>>, FALSE, FALSE, FALSE)
     EXCEPT !.stops = "controller", !.unloads = "controller"]

atc_demo_range_of_motion ==
  Scripts("controller", Six("pd") \o Six("spg"), TRUE, TRUE, TRUE)

atc_eq_point == Scripts("ATCEqPoint", <<>>, FALSE, TRUE, FALSE)

atc_fast_leg_swing ==
  Scripts("controller",
          Six("smoothPathGenerator") \o Six("pathGenerator") \o Six("pd"),
          TRUE, TRUE, TRUE)

atc_force_control_demo == Scripts("ATCForceControlDemo", <<>>, FALSE, TRUE, FALSE)

atc_joint_position == Scripts("ATCJointPosition", <<>>, FALSE, FALSE, FALSE)

atc_leg_position == Scripts("controller", Six("pd"), FALSE, TRUE, FALSE)

atc_leg_sin_wave ==
  Scripts("controller", Six("pd") \o Six("sin"), FALSE, TRUE, FALSE)

atc_motor_position == Scripts("controller", <<>>, FALSE, TRUE, FALSE)

atc_motor_position_hold_imu == Scripts("controller", <<>>, FALSE, TRUE, FALSE)

atc_motor_sin_wave == Scripts("ATCMotorSinWave", <<>>, FALSE, TRUE, FALSE)

atc_motor_test == Scripts("controller", <<>>, TRUE, TRUE, FALSE)

atc_motor_torque == Scripts("ATCMotorTorque", <<>>, FALSE, FALSE, FALSE)

atc_motor_torque_sin == Scripts("controller", <<"sin">>, FALSE, TRUE, FALSE)

atc_programmable_motor_torque == Scripts("controller", <<>>, FALSE, FALSE, FALSE)

atc_slip_hopping == Scripts("ATCSlipHopping", <<>>, FALSE, TRUE, FALSE)

atc_slip_running == Scripts("controller", <<>>, FALSE, TRUE, FALSE)

atc_slip_walking == Scripts("ATCSlipWalking", <<>>, FALSE, TRUE, FALSE)

atc_stabilized_standing ==
  [Scripts("ATCStabilizedStanding", <<>>, FALSE, FALSE, FALSE)
     EXCEPT !.stops = "controller"]

atc_velocity_tuning == Scripts("controller", <<"pd">>, TRUE, TRUE, TRUE)

(***************************************************************************)
(* A component's name: <<name>> of a controller, <<parent, type, number>>  *)
(* of a subcontroller, as getUniqueName puts it together.                  *)
(***************************************************************************)
Statement(op, name, i) == [op |-> op, name |-> <<name>>, i |-> i]

\* One statement for every element of subs, in order.  Where a script loads
\* each subcontroller right after it has named it, the names are the same.
ForSubs(c, op) ==
  [i \in 1..Len(c.subs) |-> [op |-> op, name |-> <<c.component>>, i |-> i]]

If(condition, s) == IF condition THEN s ELSE <<>>

start_ops(c) ==
     If(c.clears, <<Statement("reset", "atrias_cm", 0)>>)
  \o <<Statement("load", c.component, 0),
       Statement("connect", c.component, 0)>>
  \o ForSubs(c, "name") \o ForSubs(c, "loadSub") \o ForSubs(c, "addPeer")
  \o <<Statement("configure", c.component, 0),
       Statement("start", c.component, 0)>>

stop_ops(c) ==
     <<Statement("stop", c.stops, 0)>>
  \o If(c.early, ForSubs(c, "unloadSub"))
  \o <<Statement("cleanup", c.stops, 0)>>
  \o If(~c.early, ForSubs(c, "unloadSub"))
  \o <<Statement("unload", c.unloads, 0)>>
  \o If(c.resets, <<Statement("reset", "atrias_cm", 0)>>)

VARIABLES
  state,        \* ControllerManager::state, of NO_CONTROLLER_LOADED and
                \* CONTROLLER_STOPPED; "aborted" once the assert has failed
  lastError,    \* ControllerManager::lastError
  metadata,     \* the scripts of the last controller requested
  running,      \* the script runScript is in: "start", "stop" or "none"
  script,       \* its statements still to come
  subNames,     \* the script's names of the subcontrollers, which it also
                \* passes to the controller as properties
  deployer,     \* the names of the components in the deployer
  counts,       \* controllerChildCounts, for the keys it holds
  ascs,         \* the names of the subcontrollers ASCLoaders hold
  leaked,       \* those a destructor has failed to unload
  loads, faults, \* controllers requested and outside failures so far
  misfit        \* some statement was refused because of the names alone

lvars == <<state, lastError, metadata, running, script, subNames, deployer,
           counts, ascs, leaked, loads, faults, misfit>>

LoadingInit ==
  /\ state = "NO_CONTROLLER_LOADED"
  /\ lastError = "NO_ERROR"
  /\ metadata = atc_motor_test  \* not read before the first load
  /\ running = "none"
  /\ script = <<>>
  /\ subNames = <<>>
  /\ deployer = {}
  /\ counts = <<>>
  /\ ascs = {}
  /\ leaked = {}
  /\ loads = 0
  /\ faults = 0
  /\ misfit = FALSE

-----------------------------------------------------------------------------
(***************************************************************************)
(* getUniqueName: the number of a base name that is new to the map is 0,   *)
(* else one more than the last.  Advance is what it leaves in the map.     *)
(***************************************************************************)
uniqueNumber_Zero(parent, type) == 0

uniqueNumber(parent, type) ==
  IF <<parent, type>> \in DOMAIN counts
    THEN (counts[<<parent, type>>] + 1) % CountMax
    ELSE 0

getUniqueName(parent, type) ==
  <<parent[1], type, uniqueNumber(parent, type)>>

Advance(parent, type) ==
  [k \in DOMAIN counts \cup {<<parent, type>>} |->
     IF k = <<parent, type>> THEN uniqueNumber(parent, type) ELSE counts[k]]

-----------------------------------------------------------------------------
(***************************************************************************)
(* loadController: in NO_CONTROLLER_LOADED, find the scripts of the        *)
(* package and run the start script.  In any other state it only sets      *)
(* lastError; handleUserCommand does not call it then, but the debugging   *)
(* operation of that name can be called at any time.                       *)
(***************************************************************************)
loadController(c) ==
  /\ running = "none"
  /\ loads < MaxLoads
  /\ loads' = loads + 1
  /\ \/ /\ state = "NO_CONTROLLER_LOADED"
        /\ metadata' = c
        /\ running' = "start"
        /\ script' = start_ops(c)
        /\ subNames' = <<>>
        /\ UNCHANGED lastError
     \/ /\ state = "CONTROLLER_STOPPED"
        /\ lastError' = "CONTROLLER_PACKAGE_NOT_FOUND"
        /\ UNCHANGED <<metadata, running, script, subNames>>
  /\ UNCHANGED <<state, deployer, counts, ascs, leaked, faults, misfit>>

(***************************************************************************)
(* setState(NO_CONTROLLER_LOADED), when the reset is acknowledged: run the *)
(* stop script of the loaded controller.                                   *)
(***************************************************************************)
runStopScript ==
  /\ running = "none"
  /\ state = "CONTROLLER_STOPPED"
  /\ running' = "stop"
  /\ script' = stop_ops(metadata)
  /\ UNCHANGED <<state, lastError, metadata, subNames, deployer, counts,
                 ascs, leaked, loads, faults, misfit>>

(***************************************************************************)
(* The end of runScript.  A start script that succeeds makes the           *)
(* controller the loaded one; one that fails leaves the state, and         *)
(* lastError, as they were, and whatever it has loaded in the deployer.  A *)
(* stop script is run inside an assert.                                    *)
(***************************************************************************)
RunScriptReturns(ok) ==
  /\ running' = "none"
  /\ script' = <<>>
  /\ state' = CASE running = "start" -> IF ok THEN "CONTROLLER_STOPPED" ELSE state
                [] running = "stop"  -> IF ok THEN "NO_CONTROLLER_LOADED"
                                              ELSE "aborted"

ScriptEnds ==
  /\ running # "none"
  /\ script = <<>>
  /\ RunScriptReturns(TRUE)
  /\ UNCHANGED <<lastError, metadata, subNames, deployer, counts, ascs, leaked,
                 loads, faults, misfit>>

\* Whether the deployer can carry out a statement, by the names alone.
Fits(s) ==
  CASE s.op \in {"reset", "name"} -> TRUE
    [] s.op = "load"              -> s.name \notin deployer
    [] s.op = "loadSub"           -> subNames[s.i] \notin deployer
    [] s.op \in {"addPeer", "unloadSub"} -> {s.name, subNames[s.i]} \subseteq deployer
    [] OTHER                      -> s.name \in deployer

\* A component's destruction takes with it what its ASCLoaders hold.
HeldBy(name) == {a \in ascs : a[1] = name[1]}

Unloaded(s) ==
  CASE s.op = "unload"    -> {s.name} \cup HeldBy(s.name)
    [] s.op = "unloadSub" -> {subNames[s.i]}
    [] OTHER              -> {}

Loaded(s) ==
  CASE s.op = "load"    -> {s.name}
    [] s.op = "loadSub" -> {subNames[s.i]}
    [] OTHER            -> {}

\* A statement that the deployer carries out.
Execute ==
  /\ script # <<>>
  /\ LET s == Head(script) IN
       /\ Fits(s)
       /\ deployer' = (deployer \cup Loaded(s)) \ Unloaded(s)
       /\ ascs' = ascs \ Unloaded(s)
       /\ counts' = CASE s.op = "reset" -> <<>>
                      [] s.op = "name"  -> Advance(s.name, metadata.subs[s.i])
                      [] OTHER          -> counts
       /\ subNames' = IF s.op = "name"
                        THEN Append(subNames, getUniqueName(s.name, metadata.subs[s.i]))
                        ELSE subNames
  /\ script' = Tail(script)
  /\ UNCHANGED <<state, lastError, metadata, running, leaked, loads, faults,
                 misfit>>

(***************************************************************************)
(* The same when ~ASCLoader cannot clean up or unload its subcontroller:   *)
(* it reports that and goes on, and the subcontroller stays.               *)
(***************************************************************************)
ExecuteLeaking ==
  /\ script # <<>>
  /\ faults < MaxFaults
  /\ LET s == Head(script) IN
       /\ s.op = "unload" /\ Fits(s)
       /\ HeldBy(s.name) # {}
       /\ deployer' = deployer \ {s.name}
       /\ ascs' = ascs \ HeldBy(s.name)
       /\ leaked' = leaked \cup HeldBy(s.name)
  /\ faults' = faults + 1
  /\ script' = Tail(script)
  /\ UNCHANGED <<state, lastError, metadata, running, subNames, counts, loads,
                 misfit>>

\* A statement that is refused because of the names.
Refuse ==
  /\ script # <<>>
  /\ ~Fits(Head(script))
  /\ RunScriptReturns(FALSE)
  /\ misfit' = TRUE
  /\ UNCHANGED <<lastError, metadata, subNames, deployer, counts, ascs, leaked,
                 loads, faults>>

\* A statement that fails for another reason.
Fault ==
  /\ script # <<>>
  /\ faults < MaxFaults
  /\ faults' = faults + 1
  /\ RunScriptReturns(FALSE)
  /\ UNCHANGED <<lastError, metadata, subNames, deployer, counts, ascs, leaked,
                 loads, misfit>>

-----------------------------------------------------------------------------
(***************************************************************************)
(* ASCLoader::load, called by a controller of the deployer: ask for a name *)
(* and load the subcontroller.  It may give up before the name is asked    *)
(* for, with no effect; or after, when loadComponent fails.  When          *)
(* configuring or starting fails it returns null, but the loader holds the *)
(* subcontroller and its destructor unloads it.                            *)
(***************************************************************************)
ASCLoad ==
  \E parent \in {n \in deployer : Len(n) = 1}, type \in ASCTypes :
    LET name == getUniqueName(parent, type) IN
      /\ state # "aborted"
      /\ Cardinality(ascs) < MaxASCs
      /\ counts' = Advance(parent, type)
      /\ \/ /\ name \notin deployer
            /\ deployer' = deployer \cup {name}
            /\ ascs' = ascs \cup {name}
            /\ UNCHANGED <<faults, misfit>>
         \/ /\ name \in deployer
            /\ misfit' = TRUE
            /\ UNCHANGED <<deployer, ascs, faults>>
         \/ /\ faults < MaxFaults
            /\ faults' = faults + 1
            /\ UNCHANGED <<deployer, ascs, misfit>>
      /\ UNCHANGED <<state, lastError, metadata, running, script, subNames,
                     leaked, loads>>

\* The program has aborted, or the user has loaded as many as MaxLoads.
Ended ==
  /\ running = "none"
  /\ state = "aborted" \/ loads = MaxLoads
  /\ UNCHANGED lvars

LoadingNext ==
  \/ \E c \in Packages : loadController(c)
  \/ runStopScript
  \/ Execute
  \/ ExecuteLeaking
  \/ Refuse
  \/ Fault
  \/ ScriptEnds
  \/ ASCLoad
  \/ Ended

LoadingSpec == LoadingInit /\ [][LoadingNext]_lvars

-----------------------------------------------------------------------------
(***************************************************************************)
(* Properties.                                                             *)
(***************************************************************************)
\* Unless something outside the scripts fails, no statement of a start or
\* stop script is refused: the names a script loads are free, and those it
\* stops, connects and unloads are there, in whatever order controllers are
\* loaded and unloaded, and whatever names were given out before.
ScriptsFit == faults = 0 => ~misfit

\* Unless something outside the scripts fails, an unload leaves nothing
\* behind: once the stop script has returned, well or not, the deployer
\* holds no component of the controller.
StopShutsDown ==
  (faults = 0 /\ running = "none" /\ state # "CONTROLLER_STOPPED")
    => deployer = {}

\* Even when scripts fail half way, a subcontroller is never left in the
\* deployer without the controller it was loaded for (and through whose
\* properties and loaders alone it can be found and unloaded), except where
\* a loader's destructor has reported that it could not unload it.
NoOrphan ==
  \A n \in deployer \ leaked : Len(n) = 3 => <<n[1]>> \in deployer

\* Loading and unloading controllers, in any order, is always possible and
\* leaves nothing behind.
UnloadsClean == ScriptsFit /\ StopShutsDown /\ NoOrphan
==============================================================================
