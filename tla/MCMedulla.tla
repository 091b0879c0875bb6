------------------------------ MODULE MCMedulla ------------------------------
(* A Medulla with short counters; each run picks the master's commands.    *)
EXTENDS MedullaHistory

MCWatchdogValues == {0, 1}
AnyCommand  == MedullaState
RunOrIdle   == {"run", "idle"}
Leg         == BOOLEAN
Hip         == {FALSE}
=============================================================================
