---------------------------- MODULE MedullaHistory ----------------------------
(***************************************************************************)
(* A Medulla with history variables that count cycles, and the properties  *)
(* stated with them.  They only observe.                                   *)
(***************************************************************************)
EXTENDS Medulla

VARIABLES
  pressedFor,  \* consecutive cycles, up to now, that found the line down
  staleFor,    \* consecutive run cycles without news from the master
  errorFor,    \* cycles since current_state became error
  overflowed,  \* estop_debounce has run over since it was last reset
  orphaned     \* the error state was entered as the master watchdog expired

histVars == <<pressedFor, staleFor, errorFor, overflowed, orphaned>>
varsH == <<vars, histVars>>

(* The counters stop at HistoryCap, beyond every limit they are compared   *)
(* with.                                                                   *)
HistoryCap == ESTOP_DEBOUNCE_LIMIT + ESTOP_TIMEOUT_LENGTH + WatchdogLimit
Up(n) == IF n < HistoryCap THEN n + 1 ELSE n

InitH ==
  /\ Init
  /\ pressedFor = 0 /\ staleFor = 0 /\ errorFor = 0
  /\ overflowed = FALSE /\ orphaned = FALSE

Observe ==
  /\ pressedFor' = IF line' THEN Up(pressedFor) ELSE 0
  /\ staleFor' = IF current_state = "run" /\ current_state' = "run"
                    /\ master_watchdog_counter' = master_watchdog_counter
                 THEN Up(staleFor) ELSE 0
  /\ errorFor' = IF current_state' = "error" \/ current_state = "error"
                 THEN Up(errorFor) ELSE 0
  /\ overflowed' = IF current_state = "reset" THEN FALSE
                   ELSE overflowed \/ estop_debounce' < estop_debounce - 1
  /\ orphaned' = CASE current_state = "run"    -> WatchdogExpired
                   [] current_state = "error"  -> orphaned
                   [] OTHER                    -> FALSE

NextH == (Cycle /\ Observe) \/ (Interrupt /\ UNCHANGED histVars)

SpecH == InitH /\ [][NextH]_varsH

FairSpecH == SpecH /\ WF_varsH((Cycle /\ Observe) \/ (WatchdogOverflow /\ UNCHANGED histVars))

----------------------------------------------------------------------------
(* An E-stop is not missed: no armed Medulla has read more than            *)
(* ESTOP_DEBOUNCE_LIMIT cycles of E-stop in a row, as long as the int that *)
(* counts them has not run over since the last reset.                      *)
EStopHeardBeforeOverflow ==
  current_state \in {"run", "halt"} /\ ~overflowed
    => pressedFor <= ESTOP_DEBOUNCE_LIMIT

(* A master that has gone silent is noticed: a running Medulla has gone    *)
(* without a new watchdog counter for at most WatchdogLimit cycles, though *)
(* the value it first compares with is as old as its last run.             *)
MasterAlive == current_state = "run" => staleFor <= WatchdogLimit

(* medulla.c, run state: "Either there was an error worthy hardware        *)
(* problem or the estop was asserted.  Go into the error state" - an armed *)
(* Medulla goes into error before it has seen the E-stop line down for     *)
(* more than ESTOP_DEBOUNCE_LIMIT cycles in a row.                         *)
EStopHeard ==
  current_state \in {"run", "halt"} => pressedFor <= ESTOP_DEBOUNCE_LIMIT

(* medulla.c, error state: a reset is taken "If the commanded state is     *)
(* reset and the reset timeout has passed".  The Medulla stays in error    *)
(* for more than ESTOP_TIMEOUT_LENGTH cycles, whichever way it got there,  *)
(* with one exception: a master watchdog error does not restart the        *)
(* timeout counter.                                                        *)
ResetAfterTimeout ==
  [][current_state # "reset" /\ current_state' = "reset"
       => errorFor' > ESTOP_TIMEOUT_LENGTH \/ orphaned']_varsH

(* A Medulla that is armed obeys whatever is to stop it, the E-stop line   *)
(* or a silent master, comes to the end of its halt, and is not reset out  *)
(* of its error too soon.                                                  *)
StopsObeyed ==
  /\ [](EStopHeardBeforeOverflow /\ MasterAlive)
  /\ ResetAfterTimeout
  /\ HaltEnds
=============================================================================
