--------------------------- MODULE Medulla_proofs ---------------------------
(***************************************************************************)
(* Proofs about the Medulla: its type invariant, that its outputs are      *)
(* powered in run and halt only, and, with the history counters, that it   *)
(* hears the E-stop line and a silent master in time and stays in error    *)
(* for its timeout, for every value of its limits, counter widths and      *)
(* commands.                                                               *)
(***************************************************************************)
EXTENDS MedullaHistory, TLAPS

(* A counter that wraps stays below the value it wraps at.                 *)
LEMMA WrapRange ==
  ASSUME NEW n \in Nat, NEW modulus \in Nat \ {0}
  PROVE  n % modulus \in 0 .. modulus - 1
OBVIOUS

(* estop_debounce keeps the width of an int.                               *)
LEMMA DebouncedType ==
  ASSUME TypeOK, ReadInputs
  PROVE  Debounced \in -IntMax - 1 .. IntMax
BY MedullaConstants DEF TypeOK, ReadInputs, Debounced

(* What every cycle reads has its type.                                    *)
LEMMA InputsType ==
  ASSUME TypeOK, ReadInputs
  PROVE  /\ commanded_state' \in MedullaState
         /\ master_watchdog_counter' \in WatchdogValues
         /\ line' \in BOOLEAN /\ moving' \in BOOLEAN
         /\ hung' = hung /\ ~hung
BY MedullaConstants DEF TypeOK, ReadInputs

(* The error state's part of a cycle keeps the types and powers nothing.   *)
LEMMA ErrorPart ==
  ASSUME NEW t \in 0 .. TimeoutModulus - 1, HandleError(t)
  PROVE  /\ current_state' \in {"error", "reset"}
         /\ outputs' = FALSE /\ asserted' = TRUE
         /\ estop_timeout_counter' \in 0 .. TimeoutModulus - 1
<1>1. (t + 1) % TimeoutModulus \in 0 .. TimeoutModulus - 1
  BY MedullaConstants, WrapRange
<1> QED
  BY <1>1 DEF HandleError

(* So does the halt state's part, which powers the motor in halt only.     *)
LEMMA HaltPart ==
  ASSUME NEW fault \in BOOLEAN, NEW t \in 0 .. TimeoutModulus - 1,
         TypeOK, HandleHalt(fault, t)
  PROVE  /\ current_state' \in {"halt", "error", "reset"}
         /\ outputs' \in BOOLEAN /\ asserted' \in BOOLEAN
         /\ outputs' => current_state' = "halt"
         /\ estop_timeout_counter' \in 0 .. TimeoutModulus - 1
         /\ damping_cnt' \in 0 .. DampingModulus - 1
<1>1. (damping_cnt + 1) % DampingModulus \in 0 .. DampingModulus - 1
  BY MedullaConstants, WrapRange DEF TypeOK
<1>2. 0 \in 0 .. TimeoutModulus - 1
  BY MedullaConstants
<1>3. CASE EStopCalled \/ fault
  BY <1>2, <1>3, ErrorPart DEF HandleHalt, TypeOK
<1>4. CASE ~EStopCalled /\ ~fault
  BY <1>1, <1>2, <1>4 DEF HandleHalt, RunHaltGivesUp, TypeOK
<1> QED
  BY <1>3, <1>4

Inv == TypeOK /\ PoweredOnlyArmed

(* Each cycle of the state machine preserves the invariant.                *)
LEMMA CycleStep == ASSUME Inv, Cycle PROVE Inv'
<1> USE DEF Inv
<1>1. /\ 0 \in 0 .. TimeoutModulus - 1 /\ 0 \in 0 .. DampingModulus - 1
      /\ 0 \in 0 .. WatchdogLimit /\ 0 < WatchdogLimit
      /\ 0 \in -IntMax - 1 .. IntMax
  BY MedullaConstants
<1>2. CASE IdleCycle
  BY <1>2, InputsType, DebouncedType
  DEF IdleCycle, TypeOK, PoweredOnlyArmed, MedullaState, watchdog
<1>3. CASE InitCycle
  <2>1. \/ HandleError(0)
        \/ outputs' = TRUE /\ current_state' = "run"
           /\ UNCHANGED <<asserted, estop_timeout_counter>>
    BY <1>3 DEF InitCycle, check_error, check_halt
  <2>2. /\ current_state' \in {"run", "error", "reset"}
        /\ outputs' \in BOOLEAN /\ asserted' \in BOOLEAN
        /\ outputs' => current_state' = "run"
        /\ estop_timeout_counter' \in 0 .. TimeoutModulus - 1
    BY <1>1, <2>1, ErrorPart DEF TypeOK
  <2> QED
    BY <1>1, <1>3, <2>2, InputsType, DebouncedType
    DEF InitCycle, check_error, check_halt, TypeOK, PoweredOnlyArmed, MedullaState
<1>4. CASE RunCycle
  <2> DEFINE Next4(limit, fault) ==
               IF EStopCalled \/ fault THEN "error"
               ELSE IF limit THEN "halt"
               ELSE IF WatchdogExpired THEN "error"
               ELSE Commanded
             Timer(fault) ==
               IF Commanded = "error" \/ EStopCalled \/ fault THEN 0
               ELSE estop_timeout_counter
  <2>1. PICK limit \in BOOLEAN, fault \in BOOLEAN, again \in BOOLEAN :
          \/ /\ Next4(limit, fault) = "run"
             /\ current_state' = "run" /\ estop_timeout_counter' = Timer(fault)
             /\ UNCHANGED <<outputs, asserted, damping_cnt>>
          \/ /\ Next4(limit, fault) = "stop"
             /\ outputs' = FALSE /\ current_state' = "idle"
             /\ estop_timeout_counter' = Timer(fault)
             /\ UNCHANGED <<asserted, damping_cnt>>
          \/ Next4(limit, fault) = "halt" /\ HandleHalt(again, Timer(fault))
          \/ Next4(limit, fault) = "error" /\ HandleError(Timer(fault))
             /\ UNCHANGED damping_cnt
    BY <1>4 DEF RunCycle, check_error, check_halt
  <2>2. Timer(fault) \in 0 .. TimeoutModulus - 1
    BY <1>1 DEF TypeOK
  <2>3. master_watchdog_errors' \in 0 .. WatchdogLimit
    BY <1>1, <1>4, MedullaConstants DEF RunCycle, check_error, check_halt, TypeOK
  <2>4. Next4(limit, fault) = "run" => master_watchdog_errors' < WatchdogLimit
    BY <2>3, MedullaConstants DEF Commanded, WatchdogExpired
  <2> HIDE DEF Next4, Timer
  <2>5. /\ current_state' \in {"run", "idle", "halt", "error", "reset"}
        /\ outputs' \in BOOLEAN /\ asserted' \in BOOLEAN
        /\ outputs' => current_state' \in {"run", "halt"}
        /\ estop_timeout_counter' \in 0 .. TimeoutModulus - 1
        /\ damping_cnt' \in 0 .. DampingModulus - 1
        /\ current_state' = "run" => master_watchdog_errors' < WatchdogLimit
    BY <2>1, <2>2, <2>4, ErrorPart, HaltPart DEF TypeOK
  <2>6. /\ ReadInputs /\ estop_debounce' = Debounced
        /\ previous_master_watchdog' = master_watchdog_counter'
    BY <1>4 DEF RunCycle, check_error, check_halt
  <2> QED
    BY <2>3, <2>5, <2>6, InputsType, DebouncedType
    DEF TypeOK, PoweredOnlyArmed, MedullaState
<1>5. CASE HaltCycle
  <2>1. PICK fault \in BOOLEAN : HandleHalt(fault, estop_timeout_counter)
    BY <1>5 DEF HaltCycle, check_error, check_halt
  <2>2. /\ current_state' \in {"halt", "error", "reset"}
        /\ outputs' \in BOOLEAN /\ asserted' \in BOOLEAN
        /\ outputs' => current_state' = "halt"
        /\ estop_timeout_counter' \in 0 .. TimeoutModulus - 1
        /\ damping_cnt' \in 0 .. DampingModulus - 1
    BY <2>1, HaltPart DEF TypeOK
  <2> QED
    BY <1>5, <2>2, InputsType, DebouncedType
    DEF HaltCycle, check_error, check_halt, TypeOK, PoweredOnlyArmed, MedullaState, watchdog
<1>6. CASE ResetCycle
  BY <1>1, <1>6, InputsType
  DEF ResetCycle, TypeOK, PoweredOnlyArmed, MedullaState
<1>7. CASE ErrorCycle
  <2>1. /\ current_state' \in {"error", "reset"}
        /\ outputs' = FALSE /\ asserted' = TRUE
        /\ estop_timeout_counter' \in 0 .. TimeoutModulus - 1
    BY <1>7, ErrorPart DEF ErrorCycle, TypeOK
  <2> QED
    BY <1>7, <2>1, InputsType, DebouncedType
    DEF ErrorCycle, TypeOK, PoweredOnlyArmed, MedullaState, watchdog
<1> QED
  BY <1>2, <1>3, <1>4, <1>5, <1>6, <1>7 DEF Cycle

(* So do main_estop and the watchdog interrupt.                            *)
LEMMA InterruptStep == ASSUME Inv, Interrupt PROVE Inv'
BY DEF Inv, TypeOK, PoweredOnlyArmed, Interrupt, EStopInterrupt,
       WatchdogOverflow, inputs, timers, watchdog

(* The types and PoweredOnlyArmed are together inductive.                  *)
LEMMA Invariance == Spec => []Inv
<1>1. Init => Inv
  <2>1. /\ 0 \in -IntMax - 1 .. IntMax /\ 0 \in 0 .. TimeoutModulus - 1
        /\ 0 \in 0 .. WatchdogLimit /\ 0 \in 0 .. DampingModulus - 1
    BY MedullaConstants
  <2> QED
    BY <2>1 DEF Init, Inv, TypeOK, PoweredOnlyArmed, MedullaState
<1>2. Inv /\ UNCHANGED vars => Inv'
  BY DEF Inv, TypeOK, PoweredOnlyArmed, vars, inputs, timers, watchdog
<1>3. Inv /\ [Next]_vars => Inv'
  BY <1>2, CycleStep, InterruptStep DEF Next
<1> QED
  BY <1>1, <1>3, PTL DEF Spec

(* The Medulla's counters keep their widths, and it leaves run before its  *)
(* master watchdog errors exceed their limit.                              *)
THEOREM TypeCorrect == Spec => []TypeOK
<1>1. Inv => TypeOK
  BY DEF Inv
<1> QED
  BY <1>1, Invariance, PTL

(* However a Medulla leaves run or halt, its outputs go off with it.       *)
THEOREM OutputsOff == Spec => []PoweredOnlyArmed
<1>1. Inv => PoweredOnlyArmed
  BY DEF Inv
<1> QED
  BY <1>1, Invariance, PTL

----------------------------------------------------------------------------
(* What one cycle does to the state machine, for the modules in which      *)
(* several Medullas run.                                                   *)

(* The E-stop line is counted in every cycle but that of reset, which      *)
(* starts the count afresh.                                                *)
LEMMA CountsLine ==
  ASSUME Cycle
  PROVE  estop_debounce' = IF current_state = "reset" THEN 0 ELSE Debounced
BY DEF Cycle, IdleCycle, InitCycle, RunCycle, HaltCycle, ResetCycle, ErrorCycle

(* A Medulla is armed from init with the line up, and stays so only while  *)
(* the line has not been down for too long.                                *)
LEMMA ArmedWithLineUp ==
  ASSUME Cycle, line' \in BOOLEAN, current_state' \in {"run", "halt"}
  PROVE  \/ current_state = "init" /\ ~line'
         \/ current_state \in {"run", "halt"} /\ ~EStopCalled
<1>1. CASE IdleCycle
  BY <1>1 DEF IdleCycle
<1>2. CASE InitCycle
  BY <1>2 DEF InitCycle, HandleError
<1>3. CASE RunCycle
  BY <1>3 DEF RunCycle, HandleError, HandleHalt, Commanded
<1>4. CASE HaltCycle
  BY <1>4 DEF HaltCycle, HandleError, HandleHalt
<1>5. CASE ResetCycle
  BY <1>5 DEF ResetCycle
<1>6. CASE ErrorCycle
  BY <1>6 DEF ErrorCycle, HandleError
<1> QED
  BY <1>1, <1>2, <1>3, <1>4, <1>5, <1>6 DEF Cycle

(* A Medulla prepares to run from idle, on the command to run.             *)
LEMMA InitOnRun ==
  ASSUME Cycle, current_state' = "init"
  PROVE  current_state = "idle" /\ commanded_state' = "run"
BY DEF Cycle, IdleCycle, InitCycle, RunCycle, HaltCycle, ResetCycle, ErrorCycle,
       HandleError, HandleHalt, Commanded

(* It runs from init, with its damping counter reset, or goes on running   *)
(* as long as the master does not command otherwise.                       *)
LEMMA RunOnCommand ==
  ASSUME Cycle, current_state' = "run"
  PROVE  \/ current_state = "init" /\ damping_cnt' = 0
         \/ /\ current_state = "run" /\ damping_cnt' = damping_cnt
            /\ commanded_state' \notin {"stop", "idle", "halt", "error"}
<1>1. CASE InitCycle
  BY <1>1 DEF InitCycle, HandleError
<1>2. CASE RunCycle
  BY <1>2 DEF RunCycle, HandleError, HandleHalt, Commanded
<1>3. CASE IdleCycle \/ HaltCycle \/ ResetCycle \/ ErrorCycle
  BY <1>3 DEF IdleCycle, HaltCycle, ResetCycle, ErrorCycle, HandleError, HandleHalt
<1> QED
  BY <1>1, <1>2, <1>3 DEF Cycle

(* A cycle that ends in halt has damped the motor, and not for long enough *)
(* to give up, unless the motor moves.                                     *)
LEMMA HaltDamps ==
  ASSUME Cycle, current_state' = "halt"
  PROVE  /\ current_state \in {"run", "halt"}
         /\ damping_cnt' = (damping_cnt + 1) % DampingModulus
         /\ ~RunHaltGivesUp
<1>1. CASE RunCycle
  BY <1>1 DEF RunCycle, HandleError, HandleHalt, Commanded
<1>2. CASE HaltCycle
  BY <1>2 DEF HaltCycle, HandleError, HandleHalt
<1>3. CASE IdleCycle \/ InitCycle \/ ResetCycle \/ ErrorCycle
  BY <1>3 DEF IdleCycle, InitCycle, ResetCycle, ErrorCycle, HandleError, HandleHalt
<1> QED
  BY <1>1, <1>2, <1>3 DEF Cycle

(* A Medulla that is not armed, and not told to run, stays in idle, error  *)
(* and reset; it leaves error on a reset after the timeout, and reset for  *)
(* idle.                                                                   *)
LEMMA DisarmedMoves ==
  ASSUME Cycle, commanded_state' # "run", current_state \in {"idle", "reset", "error"}
  PROVE  \/ current_state \in {"idle", "reset"} /\ current_state' = "idle"
         \/ /\ current_state = "error"
            /\ estop_timeout_counter' = (estop_timeout_counter + 1) % TimeoutModulus
            /\ current_state' =
                 IF /\ commanded_state' = "reset"
                    /\ estop_timeout_counter' > ESTOP_TIMEOUT_LENGTH
                 THEN "reset" ELSE "error"
BY DEF Cycle, IdleCycle, InitCycle, RunCycle, HaltCycle, ResetCycle, ErrorCycle,
       HandleError

----------------------------------------------------------------------------
(* The Medulla's counters over many cycles.                                *)

(* The history counters never fall short of a value the code compares.     *)
LEMMA UpFacts ==
  ASSUME NEW n \in 0 .. HistoryCap
  PROVE  /\ Up(n) \in 0 .. HistoryCap
         /\ Up(n) <= n + 1 /\ Up(n) >= n
         /\ Up(n) = n + 1 \/ Up(n) = HistoryCap
         /\ HistoryCap > ESTOP_TIMEOUT_LENGTH /\ HistoryCap \in Nat
BY MedullaConstants DEF Up, HistoryCap

HistoryType ==
  /\ pressedFor \in 0 .. HistoryCap
  /\ staleFor \in 0 .. HistoryCap
  /\ errorFor \in 0 .. HistoryCap
  /\ overflowed \in BOOLEAN

(* Until it runs over, estop_debounce counts at least the cycles of        *)
(* E-stop in a row that an armed Medulla has seen.                         *)
DebounceInv ==
  ~overflowed =>
    /\ estop_debounce >= 0
    /\ current_state \in {"run", "halt"} =>
         pressedFor <= estop_debounce /\ pressedFor <= ESTOP_DEBOUNCE_LIMIT

(* Once a run cycle has passed, the watchdog errors count what the master  *)
(* fails to send; the first one compares with a value of an earlier run.   *)
WatchdogInv ==
  current_state = "run" =>
    /\ staleFor <= master_watchdog_errors + 1
    /\ staleFor = 0 \/ previous_master_watchdog = master_watchdog_counter

(* The timeout counter counts cycles of this error state, unless the       *)
(* master watchdog has led there.                                          *)
TimeoutInv ==
  current_state = "error" /\ ~orphaned =>
    errorFor >= estop_timeout_counter \/ errorFor = HistoryCap

HistInv == HistoryType /\ DebounceInv /\ WatchdogInv /\ TimeoutInv

----------------------------------------------------------------------------
(* What a cycle does to the debounce counter.                              *)
LEMMA DebounceFacts ==
  ASSUME TypeOK, ReadInputs
  PROVE  /\ line' => \/ Debounced = estop_debounce + 1
                     \/ Debounced < estop_debounce - 1
         /\ ~line' /\ estop_debounce >= 0 => Debounced >= 0
BY MedullaConstants DEF TypeOK, ReadInputs, Debounced

(* A cycle that leaves the Medulla armed did not hear an E-stop, or began  *)
(* its run with the line up.                                               *)
LEMMA ArmedCycle ==
  ASSUME Inv, Cycle, current_state' \in {"run", "halt"}
  PROVE  /\ estop_debounce' = Debounced /\ ReadInputs
         /\ \/ ~line' /\ current_state = "init"
            \/ ~EStopCalled /\ current_state = "run"
            \/ ~EStopCalled /\ current_state = "halt" /\ current_state' = "halt"
<1>1. \A t : HandleError(t) => current_state' \in {"error", "reset"}
  BY DEF HandleError
<1>2. \A f, t : HandleHalt(f, t) =>
        \/ current_state' \in {"error", "reset"}
        \/ ~EStopCalled /\ current_state' = "halt"
  BY <1>1 DEF HandleHalt
<1>3. CASE IdleCycle
  BY <1>3 DEF IdleCycle
<1>4. CASE InitCycle
  BY <1>1, <1>4 DEF InitCycle
<1>5. CASE RunCycle
  BY <1>1, <1>2, <1>5 DEF RunCycle
<1>6. CASE HaltCycle
  BY <1>2, <1>6 DEF HaltCycle
<1>7. CASE ResetCycle
  BY <1>7 DEF ResetCycle
<1>8. CASE ErrorCycle
  BY <1>1, <1>8 DEF ErrorCycle
<1> QED
  BY <1>3, <1>4, <1>5, <1>6, <1>7, <1>8 DEF Cycle

(* Every cycle but a reset counts the debounce counter.                    *)
LEMMA DebounceCycle ==
  ASSUME Cycle
  PROVE  /\ ReadInputs
         /\ IF current_state = "reset" THEN estop_debounce' = 0
            ELSE estop_debounce' = Debounced
BY DEF Cycle, IdleCycle, InitCycle, RunCycle, HaltCycle, ResetCycle, ErrorCycle

(* The E-stop line's counter over a cycle.                                 *)
LEMMA DebounceStep ==
  ASSUME Inv, HistInv, Cycle, Observe
  PROVE  DebounceInv'
<1> USE DEF Inv, HistInv, HistoryType
<1>1. SUFFICES ASSUME ~overflowed'
      PROVE  /\ estop_debounce' >= 0
             /\ current_state' \in {"run", "halt"} =>
                  /\ pressedFor' <= estop_debounce'
                  /\ pressedFor' <= ESTOP_DEBOUNCE_LIMIT
  BY DEF DebounceInv
<1>2. /\ estop_debounce \in Int /\ Debounced \in Int
      /\ ESTOP_DEBOUNCE_LIMIT \in Nat /\ ReadInputs
  BY DebouncedType, DebounceCycle, MedullaConstants DEF TypeOK
<1>3. CASE current_state = "reset"
  BY <1>3, DebounceCycle, ArmedCycle
<1>4. CASE current_state # "reset"
  <2>1. /\ ~overflowed /\ estop_debounce' = Debounced
        /\ ~(Debounced < estop_debounce - 1) /\ estop_debounce >= 0
    BY <1>1, <1>4, DebounceCycle DEF Observe, DebounceInv
  <2>2. /\ Debounced >= 0
        /\ line' => Debounced = estop_debounce + 1
    BY <1>2, <2>1, DebounceFacts, InputsType
  <2>3. ASSUME current_state' \in {"run", "halt"}
        PROVE  pressedFor' <= Debounced /\ pressedFor' <= ESTOP_DEBOUNCE_LIMIT
    <3>1. CASE ~line'
      BY <1>2, <2>2, <3>1 DEF Observe
    <3>2. CASE line'
      <4>1. /\ pressedFor' = Up(pressedFor) /\ Debounced <= ESTOP_DEBOUNCE_LIMIT
            /\ pressedFor <= estop_debounce
        BY <1>2, <2>1, <2>3, <3>2, ArmedCycle
        DEF Observe, EStopCalled, DebounceInv
      <4> QED
        BY <1>2, <2>2, <3>2, <4>1, UpFacts, MedullaConstants DEF HistoryCap
    <3> QED BY <3>1, <3>2
  <2> QED BY <2>1, <2>2, <2>3
<1> QED BY <1>3, <1>4

(* The master watchdog over a cycle.                                       *)
LEMMA WatchdogStep ==
  ASSUME Inv, HistInv, Cycle, Observe
  PROVE  WatchdogInv'
<1> USE DEF Inv, HistInv, HistoryType
<1>1. SUFFICES ASSUME current_state' = "run" PROVE WatchdogInv'
  BY DEF WatchdogInv
<1>2. CASE current_state # "run"
  <2>1. staleFor' = 0
    BY <1>2 DEF Observe
  <2>2. current_state = "init"
    BY <1>1, <1>2, ArmedCycle
  <2>3. master_watchdog_errors' = 0
    BY <2>2 DEF Cycle, IdleCycle, InitCycle, RunCycle, HaltCycle, ResetCycle, ErrorCycle
  <2> QED BY <2>1, <2>3 DEF WatchdogInv
<1>3. CASE current_state = "run"
  <2>1. /\ master_watchdog_errors' =
             IF master_watchdog_counter' = previous_master_watchdog
             THEN master_watchdog_errors + 1 ELSE 0
        /\ previous_master_watchdog' = master_watchdog_counter'
    BY <1>3 DEF Cycle, IdleCycle, InitCycle, RunCycle, HaltCycle, ResetCycle, ErrorCycle
  <2>2. /\ master_watchdog_errors \in Nat
        /\ staleFor <= master_watchdog_errors + 1
        /\ staleFor = 0 \/ previous_master_watchdog = master_watchdog_counter
    BY <1>3, MedullaConstants DEF TypeOK, WatchdogInv
  <2>3. CASE master_watchdog_counter' = master_watchdog_counter
    <3>1. staleFor' = Up(staleFor) /\ staleFor' <= staleFor + 1 /\ staleFor' \in Int
      BY <1>1, <1>3, <2>3, UpFacts, MedullaConstants DEF Observe, HistoryCap
    <3> QED BY <2>1, <2>2, <2>3, <3>1 DEF WatchdogInv
  <2>4. CASE master_watchdog_counter' # master_watchdog_counter
    BY <2>1, <2>2, <2>4 DEF Observe, WatchdogInv
  <2> QED BY <2>3, <2>4
<1> QED BY <1>2, <1>3

(* A cycle that leads into error restarts the timeout counter, unless the  *)
(* master watchdog has expired; none leads from elsewhere into reset.      *)
LEMMA ErrorEntered ==
  ASSUME Inv, HistoryType, Cycle, Observe, current_state # "error", ~orphaned'
  PROVE  /\ current_state' = "error" => estop_timeout_counter' \in {0, 1}
         /\ current_state' # "reset"
<1>1. (0 + 1) % TimeoutModulus = 1 /\ ~(1 > ESTOP_TIMEOUT_LENGTH)
  BY MedullaConstants
<1>2. HandleError(0) => current_state' = "error" /\ estop_timeout_counter' = 1
  BY <1>1 DEF HandleError
<1>3. \A f, t : HandleHalt(f, t) =>
        /\ current_state' \in {"error", "halt"}
        /\ current_state' = "error" => estop_timeout_counter' \in {0, 1}
  BY <1>2 DEF HandleHalt
<1>4. CASE IdleCycle
  BY <1>4 DEF IdleCycle
<1>5. CASE InitCycle
  BY <1>2, <1>5 DEF InitCycle
<1>6. CASE RunCycle
  <2>1. ~WatchdogExpired
    BY <1>6 DEF RunCycle, Observe
  <2> QED
    BY <1>2, <1>3, <1>6, <2>1 DEF RunCycle, Commanded
<1>7. CASE HaltCycle
  BY <1>3, <1>7 DEF HaltCycle
<1>8. CASE ResetCycle
  BY <1>8 DEF ResetCycle
<1> QED
  BY <1>4, <1>5, <1>6, <1>7, <1>8 DEF Cycle, ErrorCycle

(* In error, each cycle advances the timeout counter by one at most.       *)
LEMMA ErrorContinued ==
  ASSUME Inv, HistInv, Cycle, Observe, current_state = "error", ~orphaned
  PROVE  /\ errorFor' >= estop_timeout_counter' \/ errorFor' = HistoryCap
         /\ current_state' = "reset" => errorFor' > ESTOP_TIMEOUT_LENGTH
<1> USE DEF Inv, HistInv, HistoryType
<1> DEFINE count == (estop_timeout_counter + 1) % TimeoutModulus
<1>1. /\ estop_timeout_counter' = count
      /\ current_state' = "reset" => count > ESTOP_TIMEOUT_LENGTH
      /\ errorFor' = Up(errorFor)
  BY DEF Cycle, IdleCycle, InitCycle, RunCycle, HaltCycle, ResetCycle,
         ErrorCycle, HandleError, Observe
<1>2. count \in Nat /\ count <= estop_timeout_counter + 1
  BY MedullaConstants DEF TypeOK
<1>3. errorFor >= estop_timeout_counter \/ errorFor = HistoryCap
  BY DEF TimeoutInv
<1>4. /\ estop_timeout_counter \in Nat /\ errorFor \in Nat
      /\ ESTOP_TIMEOUT_LENGTH \in Nat
  BY MedullaConstants, UpFacts DEF TypeOK
<1> HIDE DEF count
<1> QED
  BY <1>1, <1>2, <1>3, <1>4, UpFacts

(* The error state's timeout over a cycle.                                 *)
LEMMA TimeoutStep ==
  ASSUME Inv, HistInv, Cycle, Observe
  PROVE  TimeoutInv'
<1>1. SUFFICES ASSUME current_state' = "error", ~orphaned'
      PROVE  errorFor' >= estop_timeout_counter' \/ errorFor' = HistoryCap
  BY DEF TimeoutInv
<1>2. CASE current_state = "error"
  BY <1>1, <1>2, ErrorContinued DEF Observe
<1>3. CASE current_state # "error"
  <2>1. estop_timeout_counter' \in {0, 1} /\ errorFor' = Up(errorFor)
    BY <1>1, <1>3, ErrorEntered DEF Observe, HistInv
  <2>2. errorFor \in 0 .. HistoryCap
    BY DEF HistInv, HistoryType
  <2> QED
    BY <2>1, <2>2, UpFacts
<1> QED BY <1>2, <1>3

(* The history keeps its types.                                            *)
LEMMA HistoryTypeStep ==
  ASSUME HistoryType, Observe
  PROVE  HistoryType'
<1>1. 0 \in 0 .. HistoryCap
  BY MedullaConstants DEF HistoryCap
<1>2. pressedFor' \in 0 .. HistoryCap
  BY <1>1, UpFacts DEF HistoryType, Observe
<1>3. staleFor' \in 0 .. HistoryCap
  BY <1>1, UpFacts DEF HistoryType, Observe
<1>4. errorFor' \in 0 .. HistoryCap
  BY <1>1, UpFacts DEF HistoryType, Observe
<1>5. overflowed' \in BOOLEAN
  BY DEF HistoryType, Observe
<1> QED
  BY <1>2, <1>3, <1>4, <1>5 DEF HistoryType

----------------------------------------------------------------------------
(* The invariant of the history holds always.                              *)
LEMMA HistInvariance == SpecH => [](Inv /\ HistInv)
<1>1. InitH => Inv /\ HistInv
  <2>1. InitH => Inv
    <3>1. /\ 0 \in -IntMax - 1 .. IntMax /\ 0 \in 0 .. TimeoutModulus - 1
          /\ 0 \in 0 .. WatchdogLimit /\ 0 \in 0 .. DampingModulus - 1
      BY MedullaConstants
    <3> QED
      BY <3>1 DEF InitH, Init, Inv, TypeOK, PoweredOnlyArmed, MedullaState
  <2>2. 0 \in 0 .. HistoryCap
    BY MedullaConstants DEF HistoryCap
  <2>3. InitH => HistoryType
    BY <2>2 DEF InitH, HistoryType
  <2>4. InitH => DebounceInv /\ WatchdogInv /\ TimeoutInv
    BY DEF InitH, Init, DebounceInv, WatchdogInv, TimeoutInv
  <2> QED BY <2>1, <2>3, <2>4 DEF HistInv
<1>2. Inv /\ HistInv /\ [NextH]_varsH => (Inv /\ HistInv)'
  <2> SUFFICES ASSUME Inv, HistInv, [NextH]_varsH PROVE Inv' /\ HistInv'
    OBVIOUS
  <2>1. CASE Cycle /\ Observe
    BY <2>1, CycleStep, HistoryTypeStep, DebounceStep, WatchdogStep, TimeoutStep
    DEF HistInv
  <2>2. CASE Interrupt /\ UNCHANGED histVars
    <3>1. UNCHANGED <<current_state, timers, watchdog, inputs, histVars>>
      BY <2>2 DEF Interrupt, EStopInterrupt, WatchdogOverflow
    <3> QED
      BY <2>2, <3>1, InterruptStep
      DEF HistInv, HistoryType, DebounceInv, WatchdogInv, TimeoutInv,
          timers, watchdog, inputs, histVars
  <2>3. CASE UNCHANGED varsH
    BY <2>3
    DEF HistInv, HistoryType, DebounceInv, WatchdogInv, TimeoutInv, Inv, TypeOK,
        PoweredOnlyArmed, varsH, vars, timers, watchdog, inputs, histVars
  <2> QED BY <2>1, <2>2, <2>3 DEF NextH
<1> QED
  BY <1>1, <1>2, PTL DEF SpecH

(* An armed Medulla (medulla.c, run and halt states) has read the E-stop   *)
(* line down in at most ESTOP_DEBOUNCE_LIMIT cycles in a row, as long as   *)
(* estop_debounce has not run over since the last reset.                   *)
THEOREM EStopIsHeard == SpecH => []EStopHeardBeforeOverflow
<1>1. HistInv => EStopHeardBeforeOverflow
  BY DEF HistInv, DebounceInv, EStopHeardBeforeOverflow
<1> QED
  BY <1>1, HistInvariance, PTL

(* A Medulla in run (medulla.c, the master watchdog) has gone without a    *)
(* new watchdog counter from the master for at most WatchdogLimit cycles.  *)
THEOREM MasterIsAlive == SpecH => []MasterAlive
<1>1. Inv /\ HistInv => MasterAlive
  BY MedullaConstants DEF Inv, TypeOK, HistInv, HistoryType, WatchdogInv, MasterAlive
<1> QED
  BY <1>1, HistInvariance, PTL

(* A Medulla leaves its error state for a reset (medulla.c, error state)   *)
(* only after more than ESTOP_TIMEOUT_LENGTH cycles there, unless an       *)
(* expired master watchdog led it into error.                              *)
THEOREM ResetIsLate == SpecH => ResetAfterTimeout
<1>1. Inv /\ HistInv /\ [NextH]_varsH
        => [current_state # "reset" /\ current_state' = "reset"
              => errorFor' > ESTOP_TIMEOUT_LENGTH \/ orphaned']_varsH
  <2> SUFFICES ASSUME Inv, HistInv, NextH,
                      current_state # "reset", current_state' = "reset", ~orphaned'
               PROVE  errorFor' > ESTOP_TIMEOUT_LENGTH
    OBVIOUS
  <2>1. Cycle /\ Observe
    BY DEF NextH, Interrupt, EStopInterrupt, WatchdogOverflow
  <2>2. current_state = "error" /\ ~orphaned
    BY <2>1, ErrorEntered DEF HistInv, Observe
  <2> QED
    BY <2>1, <2>2, ErrorContinued
<1> QED
  BY <1>1, HistInvariance, PTL DEF SpecH, ResetAfterTimeout
=============================================================================
