----------------------------- MODULE ToeFilter ------------------------------
(***************************************************************************)
(* How the walking controllers see a touch down: each toe's reading goes   *)
(* into a deque of rolling averages, whose older part is the baseline the  *)
(* raw reading is compared with.  Readings are counted in units of 250     *)
(* ADC steps, so the average of three is rounded down.                     *)
(***************************************************************************)
EXTENDS Integers, Sequences

CONSTANTS
  LENGTH,     \* of the deque: 120
  IGNORED,    \* its newest averages, not in the baseline: 20
  START,      \* what it is filled with, above any reading: 5000
  ADC_MAX,    \* 4095
  JUMP,       \* 1500
  THRESHOLD,  \* 600; 500 in the Deadbeat controller
  Air, Creep, Load   \* readings of a free toe, of a slow rise, of a loaded toe

VARIABLES
  filteredToe,  \* newest first
  toeSwitch,    \* the last reading
  clean         \* only air came during start-up, and no slow rise since

tvars == <<filteredToe, toeSwitch, clean>>

Glitch      == {0, ADC_MAX}
ToeReadings == Air \cup Creep \cup Load \cup Glitch

ASSUME ToeAssumption ==
  /\ {LENGTH, IGNORED, START, ADC_MAX, JUMP, THRESHOLD} \subseteq Nat
  /\ LENGTH > IGNORED + 1 /\ IGNORED > 1 /\ START > ADC_MAX
  /\ ToeReadings \subseteq 0..ADC_MAX
  /\ Air \cap Glitch = {}
  /\ \E a \in Air : \A b \in Air : b <= a

(* An accumulate over the deque.                                           *)
Total(s) ==
  LET sums[n \in 0..Len(s)] == IF n = 0 THEN 0 ELSE sums[n - 1] + s[n]
  IN  sums[Len(s)]

Back(d) == d[LENGTH]
Filled  == [i \in 1..LENGTH |-> START]

(* The data that is ignored is replaced by the last average.               *)
BadData(new, prev) == IF new \in Glitch THEN prev ELSE new

Jumps_Never(toe, d) == FALSE

Jumps(toe, d) ==
  /\ toe > d[1] + JUMP \/ toe < d[1] - JUMP
  /\ Back(d) # START

updateToeFilter(new, d) ==
  LET good == BadData(new, d[1])
      toe  == IF Jumps(good, d) THEN d[1] ELSE good
  IN  <<(d[1] + d[2] + toe) \div 3>> \o SubSeq(d, 1, LENGTH - 1)

detectStance(toe, d) ==
  toe > THRESHOLD + Total(SubSeq(d, IGNORED + 1, LENGTH)) \div (LENGTH - IGNORED)

(* While start-up lasts, anything but air spoils the baseline, except bad  *)
(* data before the first good reading.                                     *)
Spoils(new, d) ==
  \/ new \in Creep
  \/ Back(d) = START /\ new \notin Air /\ ~(new \in Glitch /\ d = Filled)
-----------------------------------------------------------------------------
(***************************************************************************)
(* What is assumed of the readings.  The free toe's differ by less than    *)
(* the threshold, and the others are higher.                               *)
(***************************************************************************)
ASSUME AirAssumption ==
  \A air \in Air, r \in ToeReadings \ Glitch : air <= THRESHOLD + r

HighestAir == CHOOSE a \in Air : \A b \in Air : b <= a

(* The start-up that leaves most of the initial values in the baseline.    *)
Slowest[n \in 0..LENGTH] ==
  IF n = 0 THEN Filled ELSE updateToeFilter(HighestAir, Slowest[n - 1])

(* What the averages do not exceed after it, and the deque n cycles later. *)
Rest ==
  LET settled == {HighestAir, Slowest[LENGTH][1], Slowest[LENGTH][2]}
  IN  CHOOSE r \in settled : \A x \in settled : x <= r

Worst(n) ==
  [i \in 1..LENGTH |-> IF i <= n THEN Rest ELSE Slowest[LENGTH][i - n]]

(* A load is far enough from the free toe to be told from it after this    *)
(* start-up alone.  (With the code's numbers, where the start-up leaves    *)
(* less than 150 in the baseline: 1500 above the free toe's readings.)     *)
ASSUME LoadAssumption ==
  \A load \in Load :
    /\ load > Rest + JUMP
    /\ \A n \in 0..LENGTH : detectStance(load, Worst(n))
-----------------------------------------------------------------------------
ToeInit ==
  /\ filteredToe = Filled
  /\ toeSwitch \in Air
  /\ clean = TRUE

(* A cycle updates the filter first; detectStance then takes the same      *)
(* reading.                                                                *)
ToeNext ==
  \E new \in ToeReadings :
    /\ filteredToe' = updateToeFilter(new, filteredToe)
    /\ toeSwitch' = new
    /\ clean' = (clean /\ ~Spoils(new, filteredToe))

ToeSpec == ToeInit /\ [][ToeNext]_tvars
-----------------------------------------------------------------------------
(***************************************************************************)
(* After a start-up with the foot in the air a loaded toe is seen in its   *)
(* first cycle, however often it was loaded before and for however long    *)
(* (the jump filter keeps a stance out of the baseline), and whatever bad  *)
(* data came.                                                              *)
(***************************************************************************)
LoadSeen ==
  clean /\ Back(filteredToe) # START /\ toeSwitch \in Load
    => detectStance(toeSwitch, filteredToe)

(***************************************************************************)
(* A reading of the free toe is never taken for a touch down, from the     *)
(* first cycle on and also after bad data (which reads as 0) or a load.    *)
(***************************************************************************)
AirNotTaken == toeSwitch \in Air => ~detectStance(toeSwitch, filteredToe)

(***************************************************************************)
(* The toe's state follows the foot, in both directions.                   *)
(***************************************************************************)
ToeFollowed == LoadSeen /\ AirNotTaken
=============================================================================
