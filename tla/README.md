# ATRIAS control system: TLA+ models, checks and proofs

ATRIAS is a bipedal robot. This directory models its software from the user's
mouse click down to the firmware that switches the motors: which thread does
what in which order, what a lost, late or overwritten message does, and what is
left behind when something fails. Paths are relative to the repository, whose
root is `src/`.

## 1. The system

```
   GUI --UserCommand--> Controller Manager --RtOpsState--> RT Ops --runController--> controller
       <---status------ (cm, em threads)   <--RtOpsEvent-- (ecat, loop, cm threads)
    |                      | start.ops, stop.ops             |  ^
    | parameters           v                controller_output v  | robot_state
    v                   deployer                        connector, Medulla drivers
 rosparam, files                                              |  ^   EtherCAT, 1 kHz
                        logger (bag files)                    v  |
                                                Medullas (leg, hip, boom, IMU) -- E-stop line
```

| Component | State it keeps | Operations | Talks to | Correct when |
|---|---|---|---|---|
| RT Ops state machine, controller loop, safety (`atrias_rt_ops`) | `currentState`, `resetCounter`, `controllerLoaded`, a lock and a semaphore, the robot state | `setState`, `calcState`, `newCMState`, `loop`, `cycleLoop`, `setController(Un)loaded`, `setRobotState`, `shouldHalt` | controller, connector, Controller Manager; three threads | the motors are not run after a stop, only sane currents are sent, no controller is called that is gone, resets and unloads end |
| Controller Manager, event manager (`atrias_controller_manager`) | `state`, `commandPending`, two queues, a semaphore | `updateHook`, `handleUserCommand`, `tryProcessCommand`, `loop`, `eventCallback`, `setEventWait`, `loadController`, `unloadController` | GUI, RT Ops, deployer; two threads, no lock on `state` | commands are handled one at a time, none is waited for forever, both sides agree on what is loaded |
| Medulla firmware (`firmware/atrias2.1`) | `current_state`, 8 and 16 bit counters, outputs, filters | a state-machine step per DC clock, two interrupts, the boards' own checks | RT Ops by EtherCAT, other Medullas by the E-stop line | a motor is powered in run and halt only, E-stops and faults are seen in time and not earlier |
| Connectors (`atrias_ecat_conn`, `_noop_`, `_csim_`, `_sim_`) | `midCycle`, `eCatLock`, the bus clock's phase, the simulated joints | `configure`, `loop`, `sendControllerOutput`, search of the bus | RT Ops, drivers | frames are whole, misses are reported, the loop stays in phase |
| Medulla drivers (`atrias_medulla_drivers`) | packet counters, last readings | decode a frame, encode an output | connector | positions and velocities are those of the robot |
| Controllers (`atrias_controllers`) | step phase, rate limiters, ramps, filters | one `controller()` per cycle, `guiInCallback` in another thread | RT Ops, GUI | no leap, no stale start, a step made of its own events |
| Controller loading (`start.ops`, `stop.ops`, `atrias_asc_loader`) | components in the deployer, child counts | the scripts, `getUniqueName`, load, unload | Controller Manager | everything loaded is unloaded |
| GUI (`atrias_gui`, the controllers' plugins) | pages, tabs, `controllerOutput`, parameters | the buttons and page switches, Save, Load | Controller Manager, rosparam children | a running robot can be stopped, saved parameters come back |
| Logger (`atrias_rosbag`) | message queue, bag, counters | queue, write, split, snapshot, disk check | ROS | no message is lost, limits are kept, the writer ends |

What is hard. RT Ops's threads read the state under a lock and act after its
release. The Controller Manager's share `state` with no lock. Ports hold one
sample, so that events and commands overwrite each other; nothing times out.
The firmware counts in small integers and is interrupted between its steps.
Controllers remember things across being disabled. The GUI forks processes it
never waits for. `PROJECT.json` lists the hazards at their lines, with the
properties that would catch each.

## 2. The modules

| Module | Part of the code | State and actions |
|---|---|---|
| `RtOps` | the three threads of RT Ops | a thread's place is `ecatPc`, `loopPc`, `cmPc`; an action is one critical section, or one access to a volatile flag. `CheckForNewErrors` ... `CycleLoop` are `newStateCallback`, `LoopBegin` ... `LoopWait` a turn of `ControllerLoop::loop`, `NewCMState` ... `AckCMState` are `newCMState`. `Init` lets `currentState` start as E_STOP: the constructor calls `setState` on uninitialised memory |
| `RtOpsHistory` | - | counts the commands sent, for properties over several cycles |
| `RtOpsProtocol` | what RT Ops promises the Controller Manager | states and events only; `RtOps` implements it |
| `ControllerManager` | `updateHook` and `EventManager::loop` | one action per access to what the threads share; `tryProcessCommand` is run by both and takes the thread as parameter. RT Ops is any source of events |
| `ControlSystem` | both over `control_system.ops` | `ControllerManager` and `RtOpsProtocol` over one-sample connections, with faults to choose from |
| `Medulla` | the state machine of `medulla.c` | a cycle is one action per state it starts in, with the fall-through from state to state. The results of the checks are arbitrary |
| `MedullaHistory` | - | counts cycles |
| `Robot` | RT Ops over two Medullas on one E-stop line | two instances of `Medulla`, RT Ops's state machine in one step per cycle, lost frames, the button |
| `MedullaBoards` | the code of the leg, hip, boom and IMU boards, the amplifier | filters and counters of `check_error`, `update_inputs`, `run_halt`, `reset`; the flags in the frame. `check_halt` is left out, as the firmware leaves it out (`MEDULLA_USE_HALT` is not defined) |
| `MedullaDrivers` | the drivers in RT Ops, with the board's frame | unwrapping, skipped and repeated frames, erroneous readings, the hip's two encoders, toe and limit switches, the IMU's pitch. `LayoutsAgree` computes every offset of the frames on both sides |
| `Connectors` | the four connectors | the connector's thread and the controller loop around `eCatLock`, the phase-locked sleep, the search of the bus, csim's joints and stamps |
| `Gait` | the step machines of the walking, hopping and equilibrium-point controllers | an action is one cycle; a GUI message may come in the middle of it |
| `Motion` | the other controllers: rate limiters, startup ramp, software E-stop, programs and sines | as above |
| `ToeFilter` | `detectStance` and its filters | one reading per cycle |
| `Gui` | pages, tabs, buttons, plugins | one action per callback; the Controller Manager is cut down to one thread |
| `GuiParameters` | Save and Load with each plugin's `setParameters`, `getParameters` | a plugin is the record of what its functions do with each kind of parameter |
| `Loading` | the scripts of all 22 controllers, `getUniqueName`, `ASCLoader` | one statement of a script per step, which may fail |
| `Recorder` | `recorder.cpp` | subscribers, writer, snapshot trigger, disk check |

`..._proofs` modules hold the theorems, `MC...` modules the instances. A
definition named `X_Something` right before `X` is `X` with a mistake in it;
the `mutants` of `PROJECT.json` put it in place of `X` to see that the property
notices.

Data are abstracted to what the properties tell apart. A robot state in `RtOps`
is each Medulla's reported state and the outcome of the collision checks; an
output is its command and its currents, integers or NaN. The numerical control
laws do not appear: `RtOps` lets a controller return anything.

## 3. The runs

| Run | Properties | What it shows |
|---|---|---|
| `rtops_stop` | `NoCallAfterDisconnect`, `SentCurrentsSafe`, `AtMostOneRun`, `ImplementsProtocol` | RT Ops's threads against NaN currents and requests for an E-stop, Medulla errors, collisions, resets, unloads and an invalid command |
| `rtops_live` | `ResetEnds`, `UnloadCompletes`, `MedullaErrorStops` | a reset ends, an unload gets the controller lock, an error reaches the Medullas |
| `cm_threads` | `OneCommandAtATime`, `NoLostWakeup`, `ResetAwaited`, `GuiCommandQueued` | the Controller Manager's threads against events at any time |
| `system_answers` | `LoadAgreed`, `PendingResolved`, `GuiInformed` | two commands, also with failing Medullas, or one with a missed deadline or with a controller or safeties that stop the robot: an overwritten acknowledgement or a displaced reset are the only ways to wait forever |
| `medulla_cycles` | `PoweredOnlyArmed`, `StopsObeyed` | the firmware's state machine with its interrupts and wrapping counters |
| `robot_cycles` | `OneStopsAll`, `NoRunIntoError`, `PowerEnds`, `RipeResetEndsIdle` | one board's error stops the other, power ends when RT Ops stops running, a reset late enough ends idle |
| `hardware_cycles` | `NoTornFrame`, `DeadlinesReported`, `TimeKept`, `KeepsCycling`, `WholeRobotChecked` (connectors); `StateDecoded`, `VelocitiesSpan` (drivers); `FaultsHandled`, `HaltsInTime` (boards) | what goes over the bus is whole, in time and means what was measured; faults stop a board when they have lasted, a halt damps its motor for its time and to rest, and then ends |
| `controllers_cycles` | `StepsAreOwn` (gait); `CommandsSafe`, `StartsAfresh` (motion); `ToeFollowed` (toe) | the controllers under any sequence of enabling, GUI messages, contacts and bad data: no leap, no stale start, but for the ones listed below |
| `user_actions` | `RunningCanBeStopped`, `GuiAgrees` (pages); `ParametersKept` (parameters); `UnloadsClean` (loading) | a user at the GUI, with broken plugins, overlooked messages, late children and failing scripts |
| `recorder_bags` | `NothingLost`, `LimitsKept`, `WriterEnds` | nine command lines of the logger |
| `cm_estopped` (violated) | `EStoppedUntilReset` | an E-stop is overwritten by the other thread |
| `medulla_missed` (violated) | `EStopHeard` | the debounce counter overflows, and the E-stop is not heard |

`hardware_cycles`, `controllers_cycles` and `user_actions` each check three
modules one at a time: the variable `part` picks the one that moves. The
modules share no state, so no interleaving is lost.

Some passing properties carry an exception that the code forced into them:

* `StopsObeyed`: a master watchdog error enters error without clearing
  `estop_timeout_counter`, so a reset may be taken at once (`orphaned`); and
  the E-stop is heard only before the counter has run over.
* `PendingResolved`: an overwritten acknowledgement, or a reset that another
  state displaces, leaves the Controller Manager waiting.
* `LoadAgreed`: the event manager tests an acknowledgement and clears
  `commandPending` later; a wait begun in between is ended by an old
  acknowledgement (`waitCutShort`).
* `DeadlinesReported`: an output that arrives a cycle late clears the flag of
  the next cycle.
* `RipeResetEndsIdle`: only a reset that comes when the boards are not armed
  and have been in error for longer than their timeout.
* `NothingLost`, `WriterEnds`: snapshots that share a file name, and a shutdown
  between the snapshotter's look at `ok` and its wait.
* `UnloadsClean`: for the controllers whose stop script fits their start
  script.
* `GuiAgrees`: a request that another overwrites is lost (`LoadedAsRequested`).
* `CommandsSafe`: a limited command may leap when the mode is switched between
  its comparison and its assignment (`raced`), and when hopping takes off: in
  stance the legs' limiters are neither run nor reset, and stand where the last
  flight left them (`TakesOff`).
* `StartsAfresh`: three controllers go on from where they were (`GoesOn`): the
  torque sine, which starts over for a new motor only; the force demo, whose
  time runs while disabled and is reset by a switch of its program; the range
  of motion demo, which resumes in the middle of its path.
* `LimitsKept`: `subscribe` tells ROS of the subscription before it assigns
  `*sub` and counts the topic. A topic that reaches `--limit` before the
  assignment cannot shut its subscriber down (`unheld`); one that does before
  it is counted, or two threads at `num_subscribers_` at once, leave the
  counter wrong, and the recorder running (`raced`).
* `ParametersKept`: nine parameters are `Lost` by their plugins. The file is on
  the server at a Load that follows a Save on the same page, and else from the
  second press of Load on, since the first reads the server before its child
  has written it. The user must wait for the child before pressing the next
  button (`hasty`), and an update (20 ms) must come between an edit and the
  Save.
* `FaultsHandled`: the first frame after a halt that has run its time says
  error and no flag says why.
* `VelocitiesSpan`: the reading after one that was thrown away.
* `StateDecoded`: a hip's angle is set from its absolute encoder by the first
  frame and pulled towards it by 1/100000 of the difference by each later one,
  with no test for erroneous readings: it errs by what these add.

### Bounds

* `MCRtOps`: one leg Medulla, one hip Medulla, one motor. Medullas are only
  quantified over and the hip ones treated apart, so one of each shows every
  case. `MEDULLA_RESET_TIME_MS` is 0 in `rtops_stop` (a reset takes one cycle)
  and 1 in `rtops_live` (two, between which other threads can displace it)
  instead of 5. HALT, E_STOP and NO_CONTROLLER_LOADED as commands and the clamp
  of a current that is too large in a run command are left to the proofs: with
  all seven commands the run exceeds its time. A controller of `rtops_stop`
  returns a run command with a sane current, one with NaN, or an error command.
  E_STOP is entered by the controller's request, the collisions, the Medullas
  and the invalid command.
* `MCControllerManager`: `MaxEvents` = 1 event is queued while the next is on
  the port. `MaxCommands` is the length of the command queue at which the GUI
  stops sending: with 2 in `cm_threads` the event manager works off queued
  commands while `updateHook` waits for `commandRunMutex` to queue another. The
  events there are one that is awaited and one that is not. `Garbage` is what
  an uninitialised event variable may hold. The E_STOP command takes the path
  of the others through the queue and is in `cm_estopped` and `system_answers`.
* `MCControlSystem`: `AsManyAs` user commands, by what may fail: two with no
  fault or failing Medullas, one otherwise. One command is answered while an
  event of each kind arrives; the second displaces a reset or begins a wait
  that an old acknowledgement ends. `MaxMisses` = 1: missed deadlines without
  end would keep the event port occupied forever.
* `MCMedulla`, `MCRobot`: every limit is 0 to 2 and every counter wraps above
  it, in the same order as in the firmware, so that each comparison goes both
  ways.
* `MCRobot`: two commands, two lost frames; a reset comes at any time and is
  displaced once. A reset is held for 3 cycles instead of 5: it takes one to
  reach the boards and one for each of their two transitions.
* `MCHardware`: a period of 8 with work of 2 or 9 (a cycle that takes longer
  than its period); counters that wrap at 3, 6 and 20; both builds of the
  firmware, with all checks and with the one its makefile enables; seven buses,
  among them an empty one, a robot with a leg missing and one with two Medullas
  of one id. `Pull` is 3 instead of 100000 and `MaxStrayed` allows a hip's
  absolute readings an error in the first frame, or in two later ones.
  `Reading` is a polynomial that, like the firmware's (`medulla_leg.c:268`),
  falls again towards the greatest levels: above 37 of 63 two levels are
  reported alike, so what settles is the level, and the reading with it.
* `MCControllers`: two angles, three positions, programs of 2 cycles; the deque
  is 8 long instead of 120, with 2 instead of 20 ignored.
* `MCUser`: four plugins, two of them broken; two commands queued; each plugin
  next to `leg_sin_wave`, with one edit, which tells the value saved from the
  value shown, and two children, of which the second makes the user `hasty`;
  three loads, one failure; a counter of names has 7 numbers instead of 65536,
  which is what the largest package needs of one type at once, so that counters
  come round.
* `MCRecorder`: two topics, three messages, two snapshots, three seconds. With
  `--regex`, where topics are subscribed while others are recorded, one topic;
  two that race through `subscribe` are left to the proof (`LimitsHold`).

`system_answers` and the Medulla runs do not check for deadlock: a control
system that has used up its user commands rests, and a Medulla that has taken
the watchdog interrupt hangs on purpose.

### Fairness

Weak fairness of each thread only. RT Ops: the connector's loop is periodic,
the loop and component threads are scheduled, the controller returns; nobody is
obliged to send a command. Controller Manager: both threads are scheduled and
RT Ops reads its port. Control system: each party of RT Ops finishes what it
began; a Medulla need not fail, a user need not command. Medulla: outside idle
the DC clock comes or the watchdog does. Connectors: both threads run. Logger:
writer, callbacks, a `subscribe` that has begun and the end of the spinner.
`KeepsCycling` assumes that the connector's clock and the bus clock do not
drift apart: the phase changes by the correction and by late cycles only.

## 4. The proofs

For every number of Medullas, motors, controllers, topics, messages and queue
entries and for every limit, rate and counter width that the assumptions on the
constants admit, and with the exceptions section 3 lists:

| Module | Theorem | States |
|---|---|---|
| `RtOps_proofs` | `TypeCorrect`, `DisconnectSafe`, `CurrentsSafe`, `EStopLatches` | `TypeOK`; `NoCallAfterDisconnect`; `SentCurrentsSafe`; only a RESET leaves E_STOP |
| | `RunsBounded` | `AtMostOneRun` |
| | `KeepsProtocol` | `Spec => ImplementsProtocol`: RT Ops implements `RtOpsProtocol` |
| `ControllerManager_proofs` | `TypeCorrect`, `CommandsExclusive`, `WakeupsKept`, `ResetsAwaited` | `TypeOK`; `OneCommandAtATime`; `NoLostWakeup`; `ResetAwaited` |
| `ControlSystem_proofs` | `AgreeOnLoading` | `LoadAgreed` |
| `Medulla_proofs` | `TypeCorrect`, `OutputsOff` | `TypeOK`; `PoweredOnlyArmed` |
| | `EStopIsHeard`, `MasterIsAlive`, `ResetIsLate` | the three safety parts of `StopsObeyed` |
| `Robot_proofs` | `LineStopsAll`, `ErrorEndsRun`, `MotorsLetGo`, `RipeResetTakesHold` | `OneStopsAll`; `NoRunIntoError`; `PowerEnds`; `RipeResetEndsIdle` |
| `Hardware_proofs` | `FramesWhole`, `DeadlinesTrue`, `WholeRobotIsChecked` | `NoTornFrame`; `DeadlinesReported`; `WholeRobotChecked` |
| | `ClocksAdvance` | `TimeKept` (an action property) |
| | `HaltsStop`, `FaultsStop` | `HaltsInTime`; `FaultsHandled` |
| | `StateIsTrue`, `VelocitiesAreTrue` | `StateDecoded`; `VelocitiesSpan` |
| `Motion_proofs` | `SafeToFollow`, `RunsStartAfresh`, `StepsAreTheirOwn` | `CommandsSafe`; `StartsAfresh`; `StepsAreOwn` (with `SwingForward`, an action property) |
| | `ToeIsFollowed` | `ToeFollowed` |
| `User_proofs` | `RunIsStoppable`, `GuiAndRobotAgree` | `RunningCanBeStopped`; `GuiAgrees` |
| | `ParametersAreKept`, `LoadingIsClean` | `ParametersKept`; `UnloadsClean` |
| | `LimitsHold`, `NothingIsLost` | `LimitsKept`; `NothingLost` |

With these every invariant that a passing run checks is stated by a theorem,
and so is every action property; what is left to TLC is liveness.

The assumptions. Those of `RtOps`, `ControllerManager`, `Medulla` and
`Recorder` (`RecorderConstants`) give the constants their types; the firmware's
limits fit their counters, as the code's do. `ControlSystemConstants` adds the
types of its bounds to those of `ControllerManager`. `RobotConstants`: in
addition RT Ops holds a reset for two cycles or more (`MEDULLA_RESET_TIME_MS`
is 5); one that holds it for less acknowledges it before the boards have heard
of it. `StampRoom`: what is added to a stamp covers the filter's gain, and a
late sleep, the offset and the gain together are less than a period (300000,
some thousands and 100 of 1000000 ns); without it two cycles in phase could
have one stamp. `BoardConstants`: the limits of the filters and of the damping
are below what their 8-bit counters hold. `DriverConstants`: the encoders'
range is even and a hip's correction is divided by more than 0;
`GlitchesStandOut`: an erroneous reading is farther off than the axis may move
between two frames (less than half the encoder's range) and
`MAX_ACCEPTABLE_ENCODER_CHANGE` together, as a smaller error cannot be told
from motion. `MotionConstants`: positions, rates and times are natural numbers;
`GaitConstants`: angles, pitches and lengths are integers, the rate is a
natural number. `Gui` needs no more than that "none" is not the name of a
controller. `ToeAssumption` gives the filter's constants their types: the deque
is longer than its ignored part, and is filled with more than any reading.
`AirAssumption`: a free toe's reading exceeds no other by more than the
threshold. `LoadAssumption`: a load is told from air after the slowest
start-up, the one with the toe's highest reading in every cycle; that is a
computation on the constants and says nothing of stances, bad data or any other
start-up. `PackagesMatch`: a stop script stops and unloads the component its
start script has loaded, and the subcontrollers of one type that are there at
once are no more than the numbers of a `uint16_t` counter (65536).
`PairAssumption`: the two plugins are among the repository's. TLC evaluates all
of them on the runs' values.

The inductive invariants, and why they are needed:

* `RtOps`: `Inv` = `TypeOK` + `CommandInv` + `ConnectionInv` + `OutputInv` +
  `SentCurrentsSafe`. The lock is held exactly while the controller runs, a
  controller flagged loaded is connected, and the flag is down while
  `setControllerUnloaded` waits for the lock (`ConnectionInv`); an output on
  its way out is finite unless its command is not run (`OutputInv`: the clamp
  lets a NaN through).
* `RtOpsHistory`: a run command is underway only if the loop has seen ENABLED
  since (`MayRun`, `RunReady`); together with what has been sent that is at
  most one.
* Refinement: under the mapping of `RtOps`, each step of the three threads is a
  step of the protocol or stutters. It uses `Inv` and `CommandAt`, what the
  component thread is carrying out where.
* `ControllerManager`: who is inside `tryProcessCommand` holds
  `commandRunMutex` (`MutexInv`), so nobody else pops (`QueueInv`); what will
  be awaited is set before the write (`AwaitInv`, `AckInv`). `NoLostWakeup` is
  inductive with these.
* `ControlSystem`: the invariant of `ControllerManager_proofs`, whose steps the
  composition's are (`CmInvKept`), and, as long as no wait was cut short, four
  parts. While no acknowledgement is awaited the two sides agree; while a load
  or a reset is awaited, whatever may load a controller or has been
  acknowledged as loading one is true of RT Ops unless a reset is awaited
  (`LoadInv`). A reset that is underway is awaited from before its write until
  the event manager has handled its acknowledgement, and nothing that could
  load a controller comes after it on any port, in the queue or in the event
  manager's hand (`ResetInv`, `QueueInv`). A command is handled while none is
  awaited (`IssueInv`). That the agreement holds at rest only says nothing
  about the steps between; these parts do.
* `Medulla`: `TypeOK` and `PoweredOnlyArmed` are inductive together.
* `MedullaHistory`: until it runs over, `estop_debounce` is at least the cycles
  of E-stop an armed Medulla has seen in a row (`DebounceInv`: a run begins
  with the line up); `staleFor` exceeds the watchdog errors by one at most, the
  first comparison being with a value of an earlier run (`WatchdogInv`); the
  timeout counter is at most the time in error (`TimeoutInv`).
* `Robot`: both boards are instances of `Medulla`, so each keeps the invariant
  of `Medulla_proofs` (`RobotType`), and a cycle gives each a step of its state
  machine and RT Ops one (`CycleParts`). On top of that one invariant per
  property: an armed board's debounce counter is at least the cycles the line
  has been pulled (`StopInv`); after one frame of run into an error the next
  does not say run (`DrivenInv`); a halting board was told to stop at most one
  frame before its damping counter began (`ReleaseInv`); `k` cycles into a ripe
  reset a board in error is within its timeout for `k` = 0 and 1, in no error
  from 2 and idle from 3 (`ResetInv`).
* `Connectors`: frames are written and sent under `eCatLock` (`LockInv`);
  `midCycle` stands for a cycle without an answer (`CycleInv`). The
  configuration is what the list of slaves makes it (`BusInv`; `SlotsFound`
  reads the search of the bus slave by slave). Between a cycle's mark and its
  sleep the last stamp is that of the cycle, and before the next mark it is, in
  phase, an earlier one than any lateness gives (`StampInv`). That rests on
  lemmas about quotients and C's remainders (`RemFacts`, `PartOf`), on the
  correction going towards the tick and not past it (`CorrectionFacts`), on the
  sleep ending at the target (`SleepFacts`) and, from these, on the target
  lying in a later period of the stamps (`TargetIsLater`).
* `MedullaBoards`: the halt's counter is the number of damped cycles until it
  comes round, and of those at rest it has counted as many; in error it stands
  above its limit only until the error state's part has run (`HaltInv`). What a
  filter has counted, it has counted since the last reset, once a cycle but for
  the one from run to halt, which falls through and checks twice (`CountInv`);
  while the board runs no sensor has been bad for longer than its filter has
  counted (`RunInv`). Both follow from what `check_error` does to a counter,
  whichever stages an error before them keeps it from (`CheckCounts`,
  `CheckFinds`). The switches' counter, which no reset clears, does not lag
  behind a switch that is held until it comes round (`HeldInv`). A thermistor's
  level has come down a step with each of its samples until it has settled, and
  its reading, which a reset clears, is that of the level (`ThermInv`).
* `MedullaDrivers`: the packet counter is ahead of the driver's by the cycles
  passed until it comes round (`CounterInv`); the encoder's last value is the
  remainder of the position reported, which is the axis's in the last frame
  (`PositionInv`, with lemmas about remainders and C's `%`); an absolute
  reading that is off follows a true one (`AbsoluteInv`); a hip's angle, in
  parts of a tick, errs by no more than the readings have (`BodyInv`: a pull
  towards the axis never passes it); the toe switch's counter is one behind its
  samples (`ToeInv`); the pitch lacks the step in the frame to come
  (`PitchInv`).
* `Motion`: a limiter's state is what was commanded last or where the motor was
  when it was set, but for one that has to be reset, or take off, before it is
  used again (`LimitersInv`, `Idle`); the ramp counts down with the cycles
  since it was enabled (`RampInv`); a program's time is back at its start while
  the robot is disabled, one cycle late where the code adds before it looks
  (`ProgramInv`); the demo is between two of its poses (`DemoInv`); the sines
  rest while there is no swing (`SwingInv`).
* `Gait`: a leg swings exactly while the history says so, a controller that
  does not walk has both feet down (`walkingState` 3), the exit conditions are
  those of the last take-off and the gait parameter is 0 or more (`WalkerInv`);
  between the equilibrium point controller's switch and its phase there is no
  other assignment of `t` (`EqInv`).
* `ToeFilter`: no average is lower than a free toe's readings, but for the
  threshold; and as long as the start-up was clean the deque is place by place
  at most that of the slowest start-up in the same cycle or, from its end on,
  at most `Worst`, which a stance (passed over as a jump), bad data and the
  free toe preserve (`ToeInv`). The baseline is a sum over the deque: that it
  grows with the deque, and lies between the bounds of its entries, is shown by
  induction on its length. The library's induction theorems take an operator,
  so the induction is over sets: a nonempty set of counterexamples has a
  smallest one (`Induction`, from `WFMin`), and a function defined by recursion
  exists because its initial parts do (`Recursion`).
* `Gui`: each ticked row has one tab (`TabsInv`); a loaded controller is the
  one of the page shown, and the motors are enabled only with one loaded
  (`PageInv`); the last command and the last request the Controller Manager
  will have read are those the GUI means (`LastInv`); a controller the GUI does
  not mean has its unload under way (`MeantInv`).
* `GuiParameters`: as long as the user has waited for the children, there is at
  most one of them, and it deletes or is the open page's (`ChildInv`). All
  tables hold values of their own plugin or nobody's, and so does the server
  unless it is about to be cleared (`TablesInv`, `ServerInv`). An update makes
  the message say what the widgets show, until the next edit (`TickedInv`).
  What was shown when Save was pressed is on the server until the child is done
  and then in the plugin's own file, which only its own Saves write, whatever
  becomes of widgets and server (`SavedInv`); a Load that finds the file on the
  server reads it back onto the same widgets. That the plugins' functions agree
  on their parameters (`Plugins`) and that each writes and reads back all it
  sends but what is `Lost` (`AllReturn`) are lemmas about all of them.
* `Loading`: place `k` of a script determines how many names have been given
  out, which of them are loaded and whether the controller is there (`NamedAt`,
  `HeldAt`, `PresentAt`); the script still to come is the rest of the package's
  from that place (`Scripted`). A controller that is present has the deployer
  to itself (`Holding`, `Clean`). Names are never given twice because those of
  a type that are in use were among the last values of its counter, as many as
  are in use (`Given`), and the counter has more (`Numbered`); the distance to
  them is counted round, so this also holds where the counter wraps. A script
  resets it only while no controller is there.
* `Recorder`: `num_subscribers_` is the number of topics that are counted and
  short of their limit, until two threads change it at once or a topic reaches
  its limit uncounted (`TopicInv`, `EndInv`); the open bag has the last name
  and the finished ones smaller indices, so that none is overwritten
  (`NameInv`); a message that is owed is in the queue, in the writer's hands,
  in a bag or was dropped (`KeptInv`); one snapshot at most waits or is
  written, under the name computed last (`ShotInv`).

The proofs found two mistakes of the model: `SplitBounded` must not speak of
snapshots, which are never split (`NothingIsLost`), and the cases of `Faults`
overlapped, so that TLC's choice of the first was not what the definition said
(`FaultsStop`; the same was then put right in `InputFlags` and `Robot`).

Some parts are weaker than their names. Snapshots are told apart by their names
only, so that a second one of the same second replaces the first unnoticed
(`NothingLost`), and `record.cpp` has no option that switches snapshots on.
`Cut` leaves out that the next bag may fail to open, where the code shuts down
and aborts at the next write.

Only model-checked: liveness and what rests on fairness (`ResetEnds`,
`UnloadCompletes`, `MedullaErrorStops`, `GuiCommandQueued`, `PendingResolved`,
`GuiInformed`, the liveness part of `StopsObeyed`, `KeepsCycling`,
`WriterEnds`), which these provers cannot show.

## 5. Seen while modelling

The two violated runs have their findings in `PROJECT.json`. These were met as
well; where a comment of the code says otherwise it is quoted.

RT Ops and Controller Manager

* `Safety.cpp:91` looks for halting hip Medullas in fields that nothing writes
  ("Check for medullas in halt state."): a run command goes out while one
  halts.
* `control_system.ops:3`: the event connection is unbuffered. A MEDULLA_ESTOP
  written before an acknowledgement is read replaces it ("This sends out an
  event to inform the controller manager that RT Ops has finished processing
  its command.", `StateMachine.h:49`), and the Controller Manager waits
  forever: the timeout in the event manager is commented out.
* `StateMachine.cpp:125`: ENABLED does not need a controller ("Controller is
  both loaded and enabled", `globals.h:81`).
* `StateMachine.cpp:79`: a reset is acknowledged while Medullas are in error or
  running ("The amount of time RT Ops should wait for the Medullas to enter
  idle after a reset.", `robot_invariant_defs.h:198`). `resetCounter` survives
  a reset that is displaced, the next one is shorter.
* HALT never becomes the E-stop that `StateMachine.cpp:106` promises: the test
  is reached in ENABLED only.
* `ControllerManager-component.cpp:227`: a failing start script sets no error
  ("loadStateMachine will have already set the error flag") and leaves what it
  had loaded. The stop script runs inside an `assert`: NDEBUG would drop it.
* The latest requested controller is used for queued commands. Surplus signals
  keep the event manager spinning. `getUniqueName`'s comment describes
  `result.second` the wrong way round.

Connectors, drivers, firmware

* `ConnManager.cpp:118`: a late output hides the miss of the next cycle ("Used
  to detect missed deadlines.", `ConnManager.h:67`).
* `LegMedulla.cpp:352`: the reading after a thrown-away one is compared with
  the thrown-away one, over several steps ("keep it the same so the next
  velocity measurement occurs over multiple timesteps").
* `ImuMedulla.cpp:61` never looks at the sequence value ("This will be caught
  on the master because the sequence value will stay the same",
  `medulla_imu.c:96`). `imuPitchVelocity` is the pitch over the time.
* The firmware's timer runs at 16 MHz, `MEDULLA_TIMER_FREQ` says 32; boom and
  IMU drivers never initialise `timingCounterValue`; `HipMedulla` sends torque
  whatever the command.
* Leg limit switches are always reported as 0; the leg's counter wraps at 256;
  the hip's report sticks after exactly limit + 1 net samples. The leg's
  thermistor counters, which its check looks at, never move. Most
  `ERROR_CHECK_` macros are off, and `MEDULLA_USE_HALT` with them: no leg halts
  short of its stops.
* `medulla.c:431`: a halt that has run its time disables the outputs and enters
  error without `main_estop`: one frame says error and not why.
* `HipMedulla.cpp:109`: the first frame sets the hip's angle from the absolute
  encoder, and every frame pulls it there, whatever that encoder reads.
* A running Medulla ignores reset; init and halt ignore the master. The
  amplifier stays enabled after an E-stop. The IMU board's halt never ends.
* A biped with one right half missing is taken for a monopod. `disableSafeties`
  before the start is overwritten.

Controllers and scripts

* `atc_fast_leg_swing/src/controller_component.cpp:90` jumps when enabled with
  the demo on ("so the motors don't jump when the controller is enabled").
* `atc_demo/stop.ops` and `atc_stabilized_standing/stop.ops` address
  "controller", which their start scripts did not load: they fail.
* `guiIn` is read and written by two threads without a lock. `detectStance`
  compares the raw reading, so that one bad sample is a touch down; a filter
  started on a loaded toe locks it out. Spring-deflection E-stops are commented
  out.
* Not reset when disabled: Canonical's `isInitialized`, the EqPoint state,
  ForceControlDemo's time, TorqueSin; RangeOfMotion resumes mid-path. Hopping's
  leg limiters stand still in stance and leap at take-off. Hopping assigns its
  take-off twice and copies left data at a right touch down. JointPosition runs
  its hip limiter twice. VelocityTuning's error command reverts to halt.
  LegPosition never commands the right hip.
* Not built: `ATCSlipWalking_Demo*.cpp`, two `atc_motor_position*` components.
  ATCSlipRunning does not compile.

GUI and logger

* `atrias_gui.cpp:296`: a request for the next controller overwrites the unread
  UNLOAD ("Takes down the current controller and informs the controller
  manager"); `control_system.ops:10` is DATA. E_STOP, STOP and RUN within one
  unread sample lose the E-stop. After a crash the restarted GUI ignores its
  E-stop button while the robot runs on.
* `atc_leg_sin_wave/src/controller_gui.cpp:74` does not save its gains ("Set
  parameters on server according to current GUI settings."); others leave out
  flags, EqPoint `thip` and `tab`, and set `lfl` from `lot` (`Lost` in
  `GuiParameters`). Children that run rosparam race with the buttons.
* `recorder.cpp:434`: a callback begun before the shutdown still pushes ("thus
  it shouldn't be in contention"). `num_subscribers_--` is not atomic;
  snapshots snapshots in the same second overwrite each other; the snapshotter
  can miss the shutdown.
* `recorder.cpp:209`: messages come between the subscription, the assignment of
  `*sub` and `num_subscribers_++`: with `--limit` the callback may shut down an
  empty subscriber, or count below zero and never end; the snapshotter can
  miss the shutdown.

## 6. Not modelled

Positions, velocities and temperatures as real numbers, and the control laws on
them; `Safety`'s prediction of stops (its outcome is a Boolean); time other
than cycles; the cyclic logging of RT Ops; the naming and debugging operations
of the Controller Manager; the parsing of `controller.txt`; shutdown of the
event manager; hardware set-up, LEDs, the amplifier's serial dialogue and the
CRC table; the roll-over of a hip's absolute encoder; `leg_check_halt`, which
is compiled out; the stand-alone IMU firmware; Gazebo's plugin; compression and
command line of the logger. `PROJECT.json` lists every component with the
reason.

## 7. Plan

Done: all the modules above and the proofs of section 4. What is left needs
other means: proofs of liveness, a prover that knows `ENABLED`; and control
laws, a model of real numbers.
