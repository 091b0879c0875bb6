--------------------------- MODULE Hardware_proofs ---------------------------
(***************************************************************************)
(* Proofs about the robot's hardware side.  The connectors, where two      *)
(* threads meet: no frame mixes the outputs of two controller cycles, and  *)
(* missed deadlines are reported truly, for any slaves on the bus, any     *)
(* period, overshoot and duration of work.  The Medullas' halt: it damps   *)
(* the leg for its time and until it is at rest, and ends.  Their faults:  *)
(* reported when they have lasted and never before, whatever the limits    *)
(* and the widths of the counters.  The drivers: what they decode is the   *)
(* robot's state, for any widths of the encoders and packet counters,      *)
(* moves and frames lost.                                                  *)
(***************************************************************************)
EXTENDS Connectors, MedullaDrivers, MedullaBoards, TLAPS

(***************************************************************************)
(* The inductive invariant.  ConnTypes: of what the two threads share.     *)
(* LockInv: eCatLock is held exactly while outputs are written, and only   *)
(* then are some of them written and some not.  CycleInv: only the ECat    *)
(* and noop connectors have a midCycle, which is cleared by the answer and *)
(* set when a cycle begins; an answer that leaves the cycle unanswered was *)
(* late.                                                                   *)
(***************************************************************************)
ConnTypes ==
  /\ conn \in {"ecat", "noop", "csim", "sim"}
  /\ midCycle \in BOOLEAN
  /\ out \in [pc : {"send", "write", "wait"}, signal : BOOLEAN, age : 0 .. 2]
  /\ noted \in [state : 0 .. 2, begun : BOOLEAN, answered : BOOLEAN,
                late : BOOLEAN, torn : BOOLEAN, disabled : BOOLEAN]
  /\ eCatLock \in {"none", "out"}

LockInv ==
  /\ out.pc = "write" <=> eCatLock = "out"
  /\ image # {} => out.pc = "write"
  /\ NoTornFrame

HasDeadline == conn \in {"ecat", "noop"}

CycleInv ==
  /\ pc \in {"check", "frame", "mark", "start"} => HasDeadline
  /\ pc \in {"simulate", "read"} => ~ HasDeadline
  /\ pc \in {"configure", "start"} => ~ noted.begun
  /\ ~ HasDeadline => ~ midCycle
  /\ noted.answered => ~ midCycle
  /\ HasDeadline /\ noted.begun /\ ~ noted.answered => midCycle \/ noted.late

ConnInv == ConnTypes /\ LockInv /\ CycleInv

----------------------------------------------------------------------------
(* The age of a robot state stays within its bound.                        *)
LEMMA OlderType == ASSUME NEW age \in 0 .. 2 PROVE Older(age) \in 0 .. 2
BY DEF Older, Unknown

(* The beginning of a cycle, and the sending of an output, in the types.   *)
LEMMA NotedTypes ==
  ASSUME ConnTypes
  PROVE  /\ BeginCycle => /\ noted' = [noted EXCEPT !.begun = TRUE,
                                 !.answered = FALSE, !.late = FALSE, !.state = noted'.state]
                          /\ noted'.state \in 0 .. 2
                          /\ out' = [out EXCEPT !.age = out'.age] /\ out'.age \in 0 .. 2
         /\ Sent => /\ noted' = [noted EXCEPT !.answered = noted'.answered,
                                              !.late = noted'.late]
                    /\ noted'.answered \in BOOLEAN /\ noted'.late \in BOOLEAN
                    /\ noted'.answered \/ noted'.late
BY OlderType DEF ConnTypes, BeginCycle, Sent

(* The connector's own thread.                                             *)
LEMMA ConnThreadStep == ASSUME ConnInv, ConnThread PROVE ConnInv'
<1> USE DEF ConnInv, ConnTypes, LockInv, CycleInv, NoTornFrame, HasDeadline
<1>1. CASE Configure
  BY <1>1 DEF Configure
<1>2. CASE Failed
  BY <1>2 DEF Failed, cvars
<1>3. CASE Start
  BY <1>3 DEF Start
<1>4. CASE CheckDeadline
  BY <1>4 DEF CheckDeadline
<1>5. CASE ReceiveFrame
  BY <1>5 DEF ReceiveFrame, TornFrame
<1>6. CASE MarkCycle
  BY <1>6, NotedTypes DEF MarkCycle
<1>7. CASE NewStateCallback
  <2>1. /\ noted' = [noted EXCEPT !.state = 0] /\ out' = [out EXCEPT !.signal = TRUE]
        /\ pc' = "sleep" /\ UNCHANGED <<conn, midCycle, eCatLock, image>>
    BY <1>7 DEF NewStateCallback
  <2>2. out' \in [pc : {"send", "write", "wait"}, signal : BOOLEAN, age : 0 .. 2]
    BY <2>1
  <2>3. noted' \in [state : 0 .. 2, begun : BOOLEAN, answered : BOOLEAN,
                    late : BOOLEAN, torn : BOOLEAN, disabled : BOOLEAN]
    BY <2>1
  <2> QED
    BY <2>1, <2>2, <2>3
<1>8. CASE ECatSleep \/ UpdateHookReturns
  BY <1>8 DEF ECatSleep, UpdateHookReturns
<1>9. CASE Simulate
  BY <1>9, NotedTypes DEF Simulate
<1>10. CASE ReadSimulator
  BY <1>10, NotedTypes DEF ReadSimulator
<1> QED
  BY <1>1, <1>2, <1>3, <1>4, <1>5, <1>6, <1>7, <1>8, <1>9, <1>10 DEF ConnThread

(* RT Ops' loop, in sendControllerOutput and between two calls of it.      *)
LEMMA OutThreadStep == ASSUME ConnInv, OutThread PROVE ConnInv'
<1> USE DEF ConnInv, ConnTypes, LockInv, CycleInv, NoTornFrame, HasDeadline
<1>1. CASE LockOutput
  BY <1>1 DEF LockOutput
<1>2. CASE ProcessTransmitData
  BY <1>2 DEF ProcessTransmitData
<1>3. CASE SendFrame
  BY <1>3, NotedTypes DEF SendFrame
<1>4. CASE NoopOutput
  BY <1>4, NotedTypes DEF NoopOutput
<1>5. CASE SimOutput
  BY <1>5, NotedTypes DEF SimOutput
<1>6. CASE Wait
  <2>1. /\ out' = [out EXCEPT !.pc = "send", !.signal = FALSE, !.age = noted.state]
        /\ UNCHANGED <<conn, pc, midCycle, eCatLock, image, noted>>
        /\ out.pc = "wait"
    BY <1>6 DEF Wait
  <2>2. out' \in [pc : {"send", "write", "wait"}, signal : BOOLEAN, age : 0 .. 2]
    BY <2>1
  <2> QED
    BY <2>1, <2>2
<1> QED
  BY <1>1, <1>2, <1>3, <1>4, <1>5, <1>6 DEF OutThread

----------------------------------------------------------------------------
(* The inductive invariant of the two threads.                             *)
THEOREM ConnInvariance == ConnSpec => []ConnInv
<1>1. ASSUME ConnInit PROVE ConnInv
  <2>1. /\ conn \in {"ecat", "noop", "csim", "sim"} /\ pc = "configure"
        /\ midCycle = FALSE /\ eCatLock = "none" /\ image = {}
    BY <1>1, ConnectorConstants DEF ConnInit
  <2>2. /\ out = [pc |-> "send", signal |-> FALSE, age |-> 2]
        /\ noted = [state |-> 2, begun |-> FALSE, answered |-> FALSE,
                    late |-> FALSE, torn |-> FALSE, disabled |-> FALSE]
    BY <1>1 DEF ConnInit, Unknown
  <2>3. out \in [pc : {"send", "write", "wait"}, signal : BOOLEAN, age : 0 .. 2]
    BY <2>2
  <2>4. noted \in [state : 0 .. 2, begun : BOOLEAN, answered : BOOLEAN,
                   late : BOOLEAN, torn : BOOLEAN, disabled : BOOLEAN]
    BY <2>2
  <2>5. ConnTypes
    BY <2>1, <2>3, <2>4 DEF ConnTypes
  <2> QED
    BY <2>1, <2>2, <2>5 DEF ConnInv, LockInv, CycleInv, NoTornFrame, HasDeadline
<1>2. ConnInv /\ [ConnNext]_cvars => ConnInv'
  <2>1. ASSUME ConnInv, DisableSafeties PROVE ConnInv'
    <3>1. /\ noted' = [noted EXCEPT !.disabled = TRUE]
          /\ UNCHANGED <<conn, pc, midCycle, eCatLock, out, image>>
      BY <2>1 DEF DisableSafeties
    <3> QED
      BY <2>1, <3>1 DEF ConnInv, ConnTypes, LockInv, CycleInv, NoTornFrame, HasDeadline
  <2>2. ASSUME ConnInv, UNCHANGED cvars PROVE ConnInv'
    BY <2>2 DEF cvars, ConnInv, ConnTypes, LockInv, CycleInv, NoTornFrame, HasDeadline
  <2> QED
    BY <2>1, <2>2, ConnThreadStep, OutThreadStep DEF ConnNext
<1> QED
  BY <1>1, <1>2, PTL DEF ConnSpec

(* eCatLock keeps the frames whole: neither cycleECat nor                  *)
(* sendControllerOutput puts a frame on the bus that holds the outputs of  *)
(* a call for some Medullas only.                                          *)
THEOREM FramesWhole == ConnSpec => []NoTornFrame
<1>1. ConnInv => NoTornFrame
  BY DEF ConnInv, LockInv
<1> QED
  BY <1>1, ConnInvariance, PTL

(* MISSED_DEADLINE is sent for every cycle the controller has not answered *)
(* and for no other, but for cycles in which a late answer arrived.        *)
THEOREM DeadlinesTrue == ConnSpec => []DeadlinesReported
<1>1. ConnInv => DeadlinesReported
  BY DEF ConnInv, CycleInv, DeadlinesReported, NoFalseAlarm, MissReportedUnlessLate
<1> QED
  BY <1>1, ConnInvariance, PTL

----------------------------------------------------------------------------
(* Safety checks a whole robot: the configuration is what the slaves'      *)
(* drivers make it, from the start until the safeties are disabled.        *)
BusInv ==
  /\ DOMAIN bus = {"slaves", "slots", "configuration"}
  /\ pc \in {"configure", "start"} /\ ~noted.disabled => bus.configuration = "none"
  /\ ~noted.disabled =>
       bus.configuration \in {"none", CalcRobotConfiguration(MedullasInit(bus.slaves))}

(* Each place has a driver exactly if its Medulla answered on the bus.     *)
LEMMA SlotsFound ==
  \A id \in LegIDs \cup HipIDs : id \in MedullasInit(bus.slaves) <=> Found(id)
<1> DEFINE Place(slave) ==
             IF slave.vendor # "drl" THEN {}
             ELSE CASE slave.product = "leg"  -> InitLegMedulla(slave)
                    [] slave.product = "hip"  -> InitHipMedulla(slave)
                    [] slave.product = "boom" -> InitBoomMedulla(slave)
                    [] slave.product = "imu"  -> InitImuMedulla(slave)
                    [] OTHER -> {}
<1> SUFFICES ASSUME NEW id \in LegIDs \cup HipIDs
             PROVE  id \in MedullasInit(bus.slaves) <=> Found(id)
  OBVIOUS
<1>1. ASSUME NEW slave
      PROVE  id \in Place(slave) <=>
               /\ slave.vendor = "drl" /\ slave.id = id
               /\ slave.product = IF id \in LegIDs THEN "leg" ELSE "hip"
  <2>1. id \notin {"boom", "imu"} /\ (id \in LegIDs <=> id \notin HipIDs)
    BY DEF LegIDs, HipIDs
  <2>2. CASE slave.vendor # "drl"
    BY <2>2
  <2>3. CASE slave.vendor = "drl" /\ slave.product = "leg"
    BY <2>1, <2>3 DEF InitLegMedulla
  <2>4. CASE slave.vendor = "drl" /\ slave.product = "hip"
    BY <2>1, <2>4 DEF InitHipMedulla
  <2>5. CASE slave.vendor = "drl" /\ slave.product = "boom"
    BY <2>1, <2>5 DEF InitBoomMedulla
  <2>6. CASE slave.vendor = "drl" /\ slave.product = "imu"
    BY <2>1, <2>6 DEF InitImuMedulla
  <2>7. CASE slave.vendor = "drl" /\ slave.product \notin {"leg", "hip", "boom", "imu"}
    BY <2>1, <2>7
  <2> QED
    BY <2>2, <2>3, <2>4, <2>5, <2>6, <2>7
<1>2. MedullasInit(bus.slaves) = UNION {Place(bus.slaves[i]) : i \in DOMAIN bus.slaves}
  BY DEF MedullasInit
<1> HIDE DEF Place
<1> QED
  BY <1>1, <1>2 DEF Found

(* A robot with all its legs' and hips' Medullas is taken for one, whatever*)
(* else is on the bus and in whatever order (MedullaManager, Safety).      *)
THEOREM WholeRobotIsChecked == ConnSpec => []WholeRobotChecked
<1>1. ConnInit => BusInv
  BY DEF ConnInit, BusInv
<1>2. ConnInv /\ BusInv /\ [ConnNext]_cvars => BusInv'
  <2> SUFFICES ASSUME ConnInv, BusInv, [ConnNext]_cvars PROVE BusInv'
    OBVIOUS
  <2>1. CASE Start
    <3>1. \/ bus' = bus
          \/ bus' = [bus EXCEPT !.slots = MedullasInit(bus.slaves),
                       !.configuration = CalcRobotConfiguration(MedullasInit(bus.slaves))]
      BY <2>1 DEF Start
    <3>2. noted' = noted /\ pc' = "check"
      BY <2>1 DEF Start
    <3>3. /\ bus'.slaves = bus.slaves /\ DOMAIN bus' = DOMAIN bus
          /\ bus'.configuration \in {bus.configuration,
                                     CalcRobotConfiguration(MedullasInit(bus.slaves))}
      BY <3>1 DEF BusInv
    <3> QED
      BY <3>2, <3>3 DEF BusInv
  <2>2. CASE DisableSafeties
    <3>1. noted'.disabled /\ DOMAIN bus' = DOMAIN bus
      BY <2>2 DEF DisableSafeties, BusInv, ConnInv, ConnTypes
    <3> QED
      BY <3>1 DEF BusInv
  <2>3. ASSUME bus' = bus, noted'.disabled = noted.disabled,
               pc' \in {"configure", "start"} => pc \in {"configure", "start"}
        PROVE  BusInv'
    BY <2>3 DEF BusInv
  <2>4. (BeginCycle \/ Sent) => noted'.disabled = noted.disabled
    BY DEF BeginCycle, Sent, ConnInv, ConnTypes
  <2>5. CASE ConnThread /\ ~Start
    <3>1. bus' = bus /\ (pc' \in {"configure", "start"} => pc \in {"configure", "start"})
      <4>1. CASE UpdateHookReturns
        BY <4>1 DEF UpdateHookReturns, ConnInv, ConnTypes
      <4>2. CASE Configure \/ Failed
        BY <4>2 DEF Configure, Failed, cvars
      <4> QED
        BY <2>5, <4>1, <4>2 DEF ConnThread, CheckDeadline, ReceiveFrame, MarkCycle,
           NewStateCallback, ECatSleep, Simulate, ReadSimulator
    <3>2. noted'.disabled = noted.disabled
      BY <2>4, <2>5 DEF ConnThread, Configure, Failed, CheckDeadline, ReceiveFrame, MarkCycle,
         NewStateCallback, ECatSleep, UpdateHookReturns, Simulate, ReadSimulator, cvars,
         ConnInv, ConnTypes
    <3> QED
      BY <2>3, <3>1, <3>2
  <2>6. CASE OutThread
    BY <2>3, <2>4, <2>6 DEF OutThread, LockOutput, ProcessTransmitData, SendFrame, NoopOutput,
       SimOutput, Wait
  <2>7. CASE UNCHANGED cvars
    BY <2>3, <2>7 DEF cvars
  <2> QED
    BY <2>1, <2>2, <2>5, <2>6, <2>7 DEF ConnNext
<1>3. BusInv => WholeRobotChecked
  <2> SUFFICES ASSUME BusInv, bus.configuration # "none", ~noted.disabled,
                      \A id \in LegIDs : Found(id)
               PROVE  bus.configuration = IF \A id \in HipIDs : Found(id)
                                          THEN "BIPED_FULL" ELSE "BIPED_NOHIP"
    BY DEF WholeRobotChecked
  <2> DEFINE slots == MedullasInit(bus.slaves)
  <2>1. bus.configuration = CalcRobotConfiguration(slots)
    BY DEF BusInv
  <2>2. LegIDs \subseteq slots /\ (HipIDs \subseteq slots <=> \A id \in HipIDs : Found(id))
    BY SlotsFound
  <2> HIDE DEF slots
  <2>3. {"lLegA", "lLegB"} \subseteq slots /\ {"rLegA", "rLegB"} \subseteq slots
    BY <2>2 DEF LegIDs
  <2> QED
    BY <2>1, <2>2, <2>3 DEF CalcRobotConfiguration
<1> QED
  BY <1>1, <1>2, <1>3, ConnInvariance, PTL DEF ConnSpec

----------------------------------------------------------------------------
(* The connectors' clocks.  Quotients and remainders.                      *)
LEMMA QuotientIs ==
  ASSUME NEW R \in Nat \ {0}, NEW k \in Int, NEW x \in 0 .. R - 1, NEW n \in Int,
         n = R * k + x
  PROVE  n \div R = k /\ n % R = x
<1>1. /\ n % R \in 0 .. R - 1 /\ n \div R \in Int /\ n = R * (n \div R) + (n % R)
  OBVIOUS
<1> DEFINE q == n \div R
<1>2. R * (q - k) = x - (n % R)
  BY <1>1
<1>3. x - (n % R) < R /\ x - (n % R) > -R
  BY <1>1
<1>4. q - k \in Int
  BY <1>1
<1>5. ASSUME NEW m \in Int, R * m < R, R * m > -R PROVE m = 0
  BY <1>5
<1>6. q - k = 0
  BY <1>2, <1>3, <1>4, <1>5
<1> QED
  BY <1>1, <1>6

(* Quotients grow with what is divided.                                    *)
LEMMA QuotientGrows ==
  ASSUME NEW R \in Nat \ {0}, NEW m \in Int, NEW n \in Int, m <= n
  PROVE  m \div R \in Int /\ m \div R <= n \div R
<1>1. /\ m % R \in 0 .. R - 1 /\ m \div R \in Int /\ m = R * (m \div R) + (m % R)
      /\ n % R \in 0 .. R - 1 /\ n \div R \in Int /\ n = R * (n \div R) + (n % R)
  OBVIOUS
<1> DEFINE d == (m \div R) - (n \div R)
<1>2. d \in Int /\ R * d < R
  BY <1>1
<1>3. ASSUME NEW k \in Int, R * k < R PROVE k <= 0
  BY <1>3
<1>4. d <= 0
  BY <1>2, <1>3
<1> QED
  BY <1>1, <1>4

(* What the assumptions say of the clocks' constants.                      *)
LEMMA ClockConstants ==
  /\ Period \in Nat \ {0} /\ Period \div 2 \in Nat /\ Period = 2 * (Period \div 2)
  /\ Gain \in Nat /\ Gain > 1 /\ Offset \in Nat /\ MaxOvershoot \in Nat
  /\ Gain <= Offset /\ MaxOvershoot + Offset + Gain < Period
  /\ Second \in Nat /\ Second > Period /\ SecModulus \in Nat \ {0}
  /\ \A work \in Works : work \in Nat /\ work > 1
BY ConnectorConstants, StampRoom

(* C's remainder differs by whole turns, and is less than one.             *)
LEMMA RemFacts ==
  ASSUME NEW a \in Int
  PROVE  /\ Rem(a, Period) \in -(Period - 1) .. Period - 1
         /\ \E k \in Int : a = Rem(a, Period) + Period * k
         /\ a >= 0 => Rem(a, Period) = a % Period
<1>1. Period \in Nat \ {0}
  BY ClockConstants
<1>2. CASE a >= 0
  <2>1. /\ a % Period \in 0 .. Period - 1 /\ a \div Period \in Int
        /\ a = Period * (a \div Period) + (a % Period)
    BY <1>1
  <2>2. Rem(a, Period) = a % Period
    BY <1>2 DEF Rem
  <2> DEFINE r == a % Period
             k == a \div Period
  <2>3. r \in 0 .. Period - 1 /\ k \in Int /\ a = Period * k + r /\ Period * k \in Int
    BY <1>1, <2>1
  <2>4. Rem(a, Period) = r
    BY <2>2
  <2> HIDE DEF r, k
  <2>5. r \in -(Period - 1) .. Period - 1 /\ a = r + Period * k
    BY <1>1, <2>3
  <2> QED
    BY <2>2, <2>3, <2>4, <2>5
<1>3. CASE a < 0
  <2> DEFINE b == -a
  <2>1. /\ b % Period \in 0 .. Period - 1 /\ b \div Period \in Int
        /\ b = Period * (b \div Period) + (b % Period)
    BY <1>1
  <2>2. Rem(a, Period) = -(b % Period)
    BY <1>3 DEF Rem
  <2> DEFINE r == b % Period
             k == -(b \div Period)
  <2>3. /\ r \in 0 .. Period - 1 /\ k \in Int /\ a = Period * k + (-r)
        /\ Period * k \in Int
    BY <1>1, <2>1
  <2>4. Rem(a, Period) = -r
    BY <2>2
  <2> HIDE DEF r, k
  <2>5. -r \in -(Period - 1) .. Period - 1 /\ a = -r + Period * k
    BY <1>1, <2>3
  <2> QED
    BY <1>3, <2>3, <2>4, <2>5
<1> QED
  BY <1>2, <1>3

(* How far the target is from the clock's nearest tick, either way.        *)
Phase0 == ((clock.phase + Period \div 2) % Period) - Period \div 2

(* Phase0 is the phase either way, and what the correction is made of.     *)
LEMMA PhaseFacts ==
  ASSUME clock.phase \in 0 .. Period - 1
  PROVE  /\ Phase0 \in Int
         /\ clock.phase = IF Phase0 >= 0 THEN Phase0 ELSE Phase0 + Period
         /\ Rem(clock.phase + Period \div 2, Period) - Period \div 2 = Phase0
         /\ Phase0 >= -(Period \div 2) /\ Phase0 < Period \div 2
<1> DEFINE h == Period \div 2
           p == clock.phase
<1>1. h \in Nat /\ Period = 2 * h /\ Period \in Nat \ {0} /\ p \in 0 .. Period - 1
  BY ClockConstants
<1>2. Rem(p + h, Period) = (p + h) % Period
  <2>1. p + h \in Int /\ p + h >= 0
    BY <1>1
  <2> HIDE DEF p, h
  <2> QED
    BY <2>1, RemFacts
<1>3. (p + h) % Period = IF p < h THEN p + h ELSE p - h
  <2> HIDE DEF p, h
  <2>1. CASE p < h
    BY <1>1, <2>1
  <2>2. CASE p >= h
    BY <1>1, <2>2
  <2> QED
    BY <1>1, <2>1, <2>2
<1>4. Phase0 = IF p < h THEN p ELSE p - Period
  BY <1>1, <1>3 DEF Phase0
<1> HIDE DEF h, p
<1> QED
  BY <1>1, <1>2, <1>4 DEF h, p, Phase0

(* A part of a distance, and what is left of it.                           *)
LEMMA PartOf ==
  ASSUME NEW m \in Nat
  PROVE  /\ m \div Gain \in Nat /\ m \div Gain <= m
         /\ m - m \div Gain < Gain => m \div Gain <= 1 /\ m <= Gain
         /\ m > 0 => m \div Gain < m
<1> DEFINE q == m \div Gain
<1>1. Gain \in Nat /\ Gain > 1
  BY ClockConstants
<1>2. /\ m % Gain \in 0 .. Gain - 1 /\ q \in Int /\ m = Gain * q + (m % Gain)
  BY <1>1
<1>3. q >= 0
  BY <1>1, <1>2
<1>4. Gain * q >= 2 * q
  <2>1. (Gain - 2) * q >= 0
    BY <1>1, <1>2, <1>3
  <2> QED
    BY <1>1, <1>2, <2>1
<1>5. ASSUME q > 1 PROVE Gain * q - q >= Gain
  <2>1. (Gain - 1) * (q - 2) >= 0
    BY <1>1, <1>2, <1>5
  <2>2. (Gain - 1) * (q - 2) = Gain * q - q - 2 * Gain + 2
    BY <1>1, <1>2
  <2>3. Gain * q \in Int
    BY <1>1, <1>2
  <2> HIDE DEF q
  <2> QED
    BY <1>1, <1>2, <2>1, <2>2, <2>3
<1>6. Gain * q \in Int
  BY <1>1, <1>2
<1>7. q <= m
  <2> HIDE DEF q
  <2> QED
    BY <1>1, <1>2, <1>3, <1>4, <1>6
<1>8. m > 0 => q < m
  <2> HIDE DEF q
  <2> QED
    BY <1>1, <1>2, <1>3, <1>4, <1>6
<1>9. m - q < Gain => q <= 1
  <2> HIDE DEF q
  <2> QED
    BY <1>1, <1>2, <1>5, <1>6
<1>10. m - q < Gain => m <= Gain
  <2> HIDE DEF q
  <2> QED
    BY <1>1, <1>2, <1>9
<1> QED
  BY <1>2, <1>3, <1>7, <1>8, <1>9, <1>10

(* The correction goes towards the tick and not past it; what it brings    *)
(* into phase was in phase before, but for a step.                         *)
LEMMA CorrectionFacts ==
  ASSUME clock.phase \in 0 .. Period - 1
  PROVE  /\ dcCorrection \in Int
         /\ Phase0 >= 0 => /\ dcCorrection <= 0 /\ Phase0 + dcCorrection >= 0
                           /\ Phase0 + dcCorrection < Gain => Phase0 <= Gain
         /\ Phase0 < 0 => /\ dcCorrection >= 0 /\ Phase0 + dcCorrection < 0
                          /\ Phase0 + dcCorrection > -Gain =>
                               Phase0 >= -Gain /\ dcCorrection <= 1
<1>1. Phase0 \in Int /\ dcCorrection = Quot(-Phase0, Gain)
  BY PhaseFacts DEF dcCorrection
<1>2. Gain \in Nat /\ Gain > 1
  BY ClockConstants
<1>3. CASE Phase0 > 0
  <2>1. dcCorrection = -(Phase0 \div Gain)
    BY <1>1, <1>3 DEF Quot
  <2>2. Phase0 \in Nat
    BY <1>1, <1>3
  <2> QED
    BY <1>1, <1>2, <1>3, <2>1, <2>2, PartOf
<1>4. CASE Phase0 = 0
  <2>1. dcCorrection = 0 \div Gain /\ 0 \div Gain = 0
    BY <1>1, <1>2, <1>4, QuotientIs DEF Quot
  <2> QED
    BY <1>2, <1>4, <2>1
<1>5. CASE Phase0 < 0
  <2> DEFINE m == -Phase0
  <2>1. dcCorrection = m \div Gain /\ m \in Nat /\ m > 0
    BY <1>1, <1>5 DEF Quot
  <2>2. /\ m \div Gain \in Nat
        /\ m - m \div Gain < Gain => m \div Gain <= 1 /\ m <= Gain
        /\ m \div Gain < m
    BY <2>1, PartOf
  <2>3. Phase0 = -m
    BY <1>1
  <2> HIDE DEF m
  <2> QED
    BY <1>2, <1>5, <2>1, <2>2, <2>3
<1> QED
  BY <1>1, <1>3, <1>4, <1>5

(* The sleep is less than a period and ends at the target.                 *)
LEMMA SleepFacts ==
  ASSUME clock.phase \in 0 .. Period - 1, NEW t \in Int
  PROVE  /\ sleepTime(t) \in 0 .. Period - 1
         /\ \E k \in Int : t + sleepTime(t) = clock.phase + dcCorrection + Period * k
<1> DEFINE a == clock.phase + dcCorrection - t
           r == Rem(a, Period)
<1>1. Period \in Nat \ {0} /\ a \in Int /\ clock.phase + dcCorrection \in Int
  BY ClockConstants, CorrectionFacts
<1> HIDE DEF a
<1>2. PICK k \in Int : a = r + Period * k
  BY <1>1, RemFacts
<1>3. r \in -(Period - 1) .. Period - 1
  BY <1>1, RemFacts
<1> HIDE DEF r
<1>4. sleepTime(t) = Rem(r + Period, Period)
  BY DEF sleepTime, a, r
<1>5. r + Period >= 0 /\ r + Period \in Int
  BY <1>1, <1>3
<1>6. sleepTime(t) = (r + Period) % Period
  BY <1>4, <1>5, RemFacts
<1>7. (r + Period) % Period = IF r >= 0 THEN r ELSE r + Period
  <2>1. CASE r >= 0
    BY <1>1, <1>3, <2>1
  <2>2. CASE r < 0
    BY <1>1, <1>3, <2>2
  <2> QED
    BY <1>3, <2>1, <2>2
<1>8. clock.phase + dcCorrection = t + a
  BY <1>1, CorrectionFacts DEF a
<1> DEFINE s == sleepTime(t)
           c == clock.phase + dcCorrection
<1>9. /\ Period * (-k) = -(Period * k) /\ Period * (1 - k) = Period - Period * k
      /\ Period * k \in Int /\ -k \in Int /\ 1 - k \in Int
  BY <1>1
<1>10. s = (IF r >= 0 THEN r ELSE r + Period) /\ c = t + a /\ c \in Int
  BY <1>1, <1>6, <1>7, <1>8
<1> HIDE DEF s, c
<1>11. s \in 0 .. Period - 1
  BY <1>1, <1>3, <1>10
<1>12. t + s = IF r >= 0 THEN c + Period * (-k) ELSE c + Period * (1 - k)
  BY <1>1, <1>2, <1>3, <1>9, <1>10
<1>13. \E n \in Int : t + s = c + Period * n
  BY <1>9, <1>12
<1> QED
  BY <1>11, <1>13 DEF s, c


(* The arithmetic of the two cases, m being whole periods.                 *)
LEMMA TickBefore ==
  ASSUME NEW h \in Int, NEW f \in Int, NEW corr \in Int, NEW late \in Nat, NEW m \in Int,
         NEW work \in Int, f >= 0, f < h, corr <= 0, f + corr >= 0, work > 0,
         f + corr < Gain => f <= Gain, late + Gain < 2 * h, Gain \in Nat,
         f + corr + m >= f + work
  PROVE  /\ f + corr \in 0 .. 2 * h - 1 /\ f + corr + h \in 0 .. 2 * h - 1
         /\ f + corr < Gain => f + late \in 0 .. 2 * h - 1
         /\ m > 0
OBVIOUS

(* The same from before a tick.                                            *)
LEMMA TickAfter ==
  ASSUME NEW h \in Int, NEW f \in Int, NEW corr \in Int, NEW late \in Int, NEW m \in Int,
         NEW work \in Int, Offset \in Int, late >= Offset, f >= -h, f < 0, corr >= 0,
         f + corr < 0, work > 1, Gain \in Nat, Gain <= Offset,
         f + corr > -Gain => f >= -Gain /\ corr <= 1, late + Gain < 2 * h,
         f + 2 * h + corr + m >= f + 2 * h + work
  PROVE  /\ f + corr + 2 * h \in 0 .. 2 * h - 1 /\ f + corr + h \in 0 .. 2 * h - 1
         /\ f + corr > -Gain => f + late \in 0 .. 2 * h - 1 /\ m > 0
OBVIOUS

(* In phase, a target lies in a later period of the stamps than the cycle  *)
(* it ends, however late the sleep before it ended.                        *)
LEMMA TargetIsLater ==
  ASSUME clock.phase \in 0 .. Period - 1, NEW ov \in 0 .. MaxOvershoot, NEW work \in Works,
         NEW t, t = clock.phase + ov + work, NEW target, target = t + sleepTime(t),
         (((target % Period) + Period \div 2) % Period) - Period \div 2
           \in -Gain + 1 .. Gain - 1
  PROVE  (clock.phase + ov + Offset) \div Period - (target \div Period)
           < ((target % Period) + Offset) \div Period
<1> DEFINE h == Period \div 2
           f == Phase0
           corr == dcCorrection
           late == ov + Offset
           p == clock.phase
           s == f + corr
<1>1. /\ Period \in Nat \ {0} /\ h \in Nat /\ Period = 2 * h /\ work \in Nat /\ work > 1
      /\ ov \in Nat /\ Offset \in Nat /\ Gain \in Nat /\ Gain > 1 /\ Gain <= Offset
      /\ late \in Nat /\ late >= Offset /\ late + Gain < 2 * h
      /\ p \in 0 .. Period - 1 /\ t \in Int /\ t = p + ov + work
  BY ClockConstants
<1>2. /\ f \in Int /\ corr \in Int /\ f >= -h /\ f < h
      /\ p = IF f >= 0 THEN f ELSE f + Period
  BY PhaseFacts, CorrectionFacts
<1>3. PICK n \in Int : target = p + corr + Period * n
  BY <1>1, SleepFacts
<1>4. target \in Int /\ target >= t
  BY <1>1, SleepFacts
<1>5. /\ f >= 0 => /\ corr <= 0 /\ f + corr >= 0
                   /\ f + corr < Gain => f <= Gain
      /\ f < 0 => /\ corr >= 0 /\ f + corr < 0
                  /\ f + corr > -Gain => f >= -Gain /\ corr <= 1
  BY CorrectionFacts
<1>6. (((target % Period) + h) % Period) - h \in -Gain + 1 .. Gain - 1
  OBVIOUS
<1> SUFFICES (p + late) \div Period - (target \div Period)
               < ((target % Period) + Offset) \div Period
  BY <1>1
<1> DEFINE m == Period * n
<1>7. m \in Int
  BY <1>1
<1>8. m > 0 => n >= 1
  BY <1>1
<1>9. target >= p + work /\ target = p + corr + m
  BY <1>1, <1>3, <1>4
<1> HIDE DEF h, f, corr, late, p
<1>10. CASE f >= 0
  <2>1. /\ s \in 0 .. Period - 1 /\ s + h \in 0 .. Period - 1
        /\ s < Gain => f + late \in 0 .. Period - 1
        /\ m > 0 /\ p = f /\ target = m + s
    <3> HIDE DEF m
    <3>1. f + corr + m >= f + work /\ p = f /\ target = m + s
      BY <1>1, <1>2, <1>7, <1>9, <1>10
    <3>2. /\ f + corr \in 0 .. 2 * h - 1 /\ f + corr + h \in 0 .. 2 * h - 1
          /\ f + corr < Gain => f + late \in 0 .. 2 * h - 1
          /\ m > 0
      <4>1. /\ h \in Int /\ f \in Int /\ corr \in Int /\ late \in Nat /\ m \in Int
            /\ work \in Int /\ work > 0 /\ f < h /\ corr <= 0 /\ f + corr >= 0
            /\ f + corr < Gain => f <= Gain
            /\ late + Gain < 2 * h /\ Gain \in Nat
        BY <1>1, <1>2, <1>5, <1>7, <1>10
      <4> QED
        BY <1>10, <3>1, <4>1, TickBefore
    <3> QED
      BY <1>1, <3>1, <3>2
  <2> HIDE DEF s
  <2>2. target \div Period = n /\ target % Period = s
    <3>1. target = Period * n + s
      BY <2>1
    <3>2. Period \in Nat \ {0} /\ n \in Int /\ s \in 0 .. Period - 1 /\ target \in Int
      BY <1>1, <1>4, <2>1
    <3> HIDE DEF m
    <3> QED
      BY <3>1, <3>2, QuotientIs, ZenonT(30)
  <2>3. (s + h) % Period = s + h
    BY <1>1, <2>1
  <2>4. s < Gain
    BY <1>1, <1>6, <2>1, <2>2, <2>3
  <2>5. (p + late) \div Period = 0
    BY <1>1, <2>1, <2>4
  <2>6. (s + Offset) \div Period \in Int /\ (s + Offset) \div Period >= 0
    BY <1>1, <2>1
  <2>7. n >= 1
    BY <1>8, <2>1
  <2> QED
    BY <2>2, <2>5, <2>6, <2>7
<1>11. CASE f < 0
  <2> DEFINE u == s + Period
  <2>1. /\ u \in 0 .. Period - 1 /\ s + h \in 0 .. Period - 1
        /\ s > -Gain => f + late \in 0 .. Period - 1 /\ m > 0
        /\ p = f + Period /\ target = m + u /\ s \in Int
    <3> HIDE DEF m
    <3>1. /\ f + 2 * h + corr + m >= f + 2 * h + work /\ p = f + Period
          /\ target = m + u /\ s \in Int
      BY <1>1, <1>2, <1>7, <1>9, <1>11
    <3> QED
      BY <1>1, <1>2, <1>5, <1>7, <1>11, <3>1, TickAfter
  <2>2. u + h = Period * 1 + (s + h) /\ u + Offset = Period * 1 + (s + Offset)
    BY <1>1, <2>1
  <2> HIDE DEF s, u
  <2>3. target \div Period = n /\ target % Period = u
    <3>1. target = Period * n + u
      BY <2>1
    <3>2. Period \in Nat \ {0} /\ n \in Int /\ u \in 0 .. Period - 1 /\ target \in Int
      BY <1>1, <1>4, <2>1
    <3> HIDE DEF m
    <3> QED
      BY <3>1, <3>2, QuotientIs, ZenonT(30)
  <2>4. (u + h) % Period = s + h
    <3> DEFINE one == 1
               before == u + h
               after == s + h
    <3>1. /\ before \in Int /\ Period \in Nat \ {0} /\ after \in 0 .. Period - 1
          /\ before = Period * one + after /\ one \in Int
      BY <1>1, <2>1, <2>2
    <3> HIDE DEF one, before, after
    <3>2. before % Period = after
      BY <3>1, QuotientIs
    <3> QED
      BY <3>2 DEF before, after
  <2>5. s > -Gain
    BY <1>1, <1>6, <2>1, <2>3, <2>4
  <2>6. (p + late) \div Period = 1
    <3>1. p + late = Period * 1 + (f + late) /\ p + late \in Int
      BY <1>1, <1>2, <2>1
    <3> QED
      BY <1>1, <2>1, <2>5, <3>1, QuotientIs
  <2>7. (u + Offset) \div Period \in Int /\ (u + Offset) \div Period >= 1
    <3>1. u + Offset \in Int /\ u + Offset >= Period
      BY <1>1, <2>1, <2>2, <2>5
    <3>2. Period \div Period = 1
      BY <1>1, QuotientIs
    <3> QED
      BY <1>1, <3>1, <3>2, QuotientGrows
  <2>8. n >= 1
    BY <1>8, <2>1, <2>5
  <2> QED
    BY <2>3, <2>6, <2>7, <2>8
<1> QED
  BY <1>2, <1>10, <1>11

(* csim's two-part stamp, after a period.                                  *)
LEMMA StampSum ==
  ASSUME NEW sec \in 0 .. SecModulus - 1, NEW nsec \in 0 .. Second - 1
  PROVE  LET total == nsec + Period IN
         /\ total % Second \in 0 .. Second - 1
         /\ (sec + total \div Second) % SecModulus \in 0 .. SecModulus - 1
         /\ ((sec + total \div Second) % SecModulus) * Second + (total % Second) =
              (sec * Second + nsec + Period) % (SecModulus * Second)
<1> DEFINE total == nsec + Period
           q == total \div Second
           r == total % Second
           n == sec + q
           x == n % SecModulus
           k == n \div SecModulus
<1>1. /\ Period \in Nat /\ Second \in Nat \ {0} /\ SecModulus \in Nat \ {0}
      /\ total \in Nat /\ sec \in Int /\ nsec \in Int
  BY ClockConstants
<1>2. r \in 0 .. Second - 1 /\ q \in Int /\ total = Second * q + r
  BY <1>1
<1>3. n \in Int
  BY <1>1, <1>2
<1> HIDE DEF q, r, n
<1>4. x \in 0 .. SecModulus - 1 /\ k \in Int /\ n = SecModulus * k + x
  BY <1>1, <1>3
<1> HIDE DEF x, k
<1> DEFINE R == SecModulus * Second
           y == x * Second + r
<1>5. R \in Nat \ {0}
  BY <1>1
<1>6. y \in 0 .. R - 1
  <2>1. (SecModulus - 1 - x) * Second >= 0 /\ x * Second >= 0
    BY <1>1, <1>4
  <2>2. (SecModulus - 1 - x) * Second = R - Second - x * Second
    BY <1>1, <1>4
  <2>3. x * Second \in Int /\ R \in Int
    BY <1>1, <1>4
  <2> HIDE DEF R
  <2> QED
    BY <1>1, <1>2, <2>1, <2>2, <2>3
<1>7. sec * Second + nsec + Period = R * k + y
  <2>1. sec * Second + q * Second = n * Second
    BY <1>1, <1>2 DEF n
  <2>2. n * Second = (SecModulus * k) * Second + x * Second
    BY <1>1, <1>4
  <2>3. (SecModulus * k) * Second = R * k
    BY <1>1, <1>4
  <2>4. /\ sec * Second \in Int /\ q * Second \in Int /\ x * Second \in Int /\ R * k \in Int
        /\ Second * q = q * Second
    BY <1>1, <1>2, <1>4
  <2>5. nsec + Period = q * Second + r
    BY <1>2, <2>4
  <2> DEFINE a == sec * Second
             b == q * Second
             c == x * Second
             d == R * k
  <2>6. a \in Int /\ b \in Int /\ c \in Int /\ d \in Int /\ a + b = d + c
    BY <2>1, <2>2, <2>3, <2>4
  <2>7. nsec + Period = b + r /\ r \in Int
    BY <1>2, <2>5
  <2> HIDE DEF R, total, a, b, c, d
  <2>8. a + nsec + Period = d + (c + r)
    BY <1>1, <2>6, <2>7
  <2> QED
    BY <2>8 DEF a, c, d
<1>8. (R * k + y) % R = y
  <2>1. R * k + y \in Int
    BY <1>4, <1>5, <1>6
  <2> HIDE DEF R, y
  <2> QED
    BY <1>4, <1>5, <1>6, <2>1, QuotientIs
<1> QED
  BY <1>2, <1>4, <1>7, <1>8 DEF q, r, n, x

----------------------------------------------------------------------------
(* What the clocks hold, and the stamps: after a cycle is marked its stamp *)
(* is the last; before the next is, in phase, the last stamp is an earlier *)
(* one.                                                                    *)
ClockTypes ==
  /\ clock \in [phase : 0 .. Period - 1, overshoot : 0 .. MaxOvershoot,
                lastStamp : Int, sleepTime : 0 .. Period - 1]
  /\ DOMAIN sim = {"joint", "current", "pos", "vel", "sec", "nsec"}
  /\ sim.sec \in 0 .. SecModulus - 1 /\ sim.nsec \in 0 .. Second - 1

StampInv ==
  conn = "ecat" =>
    /\ pc \in {"callback", "sleep"} => clock.lastStamp = controllerTime
    /\ pc \in {"configure", "start", "check", "frame", "mark"} /\ Aligned =>
         clock.lastStamp < (clock.phase + Offset) \div Period

ClockInv == ClockTypes /\ StampInv

(* A stamp is later than the last, however late the sleep ended.           *)
LEMMA StampGrows ==
  ASSUME ClockTypes
  PROVE  /\ controllerTime \in Int
         /\ (clock.phase + Offset) \div Period <= controllerTime
<1> DEFINE m == clock.phase + Offset
           n == clock.phase + clock.overshoot + Offset
<1>1. m \in Int /\ n \in Int /\ m <= n /\ Period \in Nat \ {0}
  BY ClockConstants DEF ClockTypes
<1> HIDE DEF m, n
<1>2. m \div Period \in Int /\ n \div Period \in Int /\ m \div Period <= n \div Period
  BY <1>1, QuotientGrows
<1> QED
  BY <1>2 DEF controllerTime, m, n

(* The clocks' invariant holds at the start ...                            *)
LEMMA ClockStart == ConnInit => ClockInv
<1> SUFFICES ASSUME ConnInit PROVE ClockInv
  OBVIOUS
<1>1. /\ clock \in [phase : 0 .. Period - 1, overshoot : {0}, lastStamp : {-1}, sleepTime : {0}]
      /\ sim.sec = 0 /\ sim.nsec = 0 /\ pc = "configure"
      /\ DOMAIN sim = {"joint", "current", "pos", "vel", "sec", "nsec"}
  BY DEF ConnInit
<1>2. ClockTypes
  BY <1>1, ClockConstants DEF ClockTypes
<1>3. clock.lastStamp < (clock.phase + Offset) \div Period
  <2> DEFINE m == clock.phase + Offset
  <2>1. m \in Nat /\ Period \in Nat \ {0} /\ clock.lastStamp = -1
    BY <1>1, ClockConstants
  <2> HIDE DEF m
  <2>2. m \div Period \in Int /\ m \div Period >= 0
    BY <2>1
  <2> QED
    BY <2>1, <2>2 DEF m
<1> QED
  BY <1>1, <1>2, <1>3 DEF ClockInv, StampInv

(* The sleep keeps the clock within its bounds and its stamp ahead.        *)
LEMMA ECatSleepKeepsTime ==
  ASSUME ClockInv, ECatSleep
  PROVE  ClockInv'
<1>1. PICK work \in Works :
        LET curTime == clock.phase + clock.overshoot + work
            target  == curTime + sleepTime(curTime)
        IN clock' = [phase |-> target % Period, overshoot |-> 0,
                     lastStamp |-> clock.lastStamp - (target \div Period),
                     sleepTime |-> sleepTime(curTime)]
  BY DEF ECatSleep
<1> DEFINE t == clock.phase + clock.overshoot + work
           target == t + sleepTime(t)
<1>2. /\ clock'.phase = target % Period /\ clock'.overshoot = 0
      /\ clock'.lastStamp = clock.lastStamp - (target \div Period)
      /\ clock' = [phase |-> clock'.phase, overshoot |-> clock'.overshoot,
                   lastStamp |-> clock'.lastStamp, sleepTime |-> sleepTime(t)]
  BY <1>1
<1>3. /\ clock.phase \in 0 .. Period - 1 /\ clock.overshoot \in 0 .. MaxOvershoot
      /\ clock.lastStamp \in Int /\ t \in Int /\ Period \in Nat \ {0} /\ MaxOvershoot \in Nat
  BY ClockConstants DEF ClockInv, ClockTypes
<1>4. sleepTime(t) \in 0 .. Period - 1 /\ target \in Int
  BY <1>3, SleepFacts
<1>5. /\ pc = "sleep" /\ conn = "ecat" /\ pc' = "check" /\ conn' = conn /\ sim' = sim
      /\ clock.lastStamp = (clock.phase + clock.overshoot + Offset) \div Period
  BY DEF ECatSleep, ClockInv, StampInv, controllerTime
<1>6. /\ clock.overshoot \in 0 .. MaxOvershoot /\ t = clock.phase + clock.overshoot + work
      /\ target = t + sleepTime(t)
  BY <1>3
<1> HIDE DEF t, target
<1>7. ClockTypes'
  <2>1. target % Period \in 0 .. Period - 1 /\ target \div Period \in Int
    BY <1>3, <1>4
  <2>2. clock.lastStamp - (target \div Period) \in Int /\ 0 \in 0 .. MaxOvershoot
    BY <1>3, <2>1
  <2> QED
    BY <1>2, <1>4, <1>5, <2>1, <2>2 DEF ClockInv, ClockTypes
<1>8. ASSUME Aligned' PROVE clock'.lastStamp < (clock'.phase + Offset) \div Period
  <2>1. (((target % Period) + Period \div 2) % Period) - Period \div 2
          \in -Gain + 1 .. Gain - 1
    BY <1>2, <1>8 DEF Aligned
  <2>2. (clock.phase + clock.overshoot + Offset) \div Period - (target \div Period)
          < ((target % Period) + Offset) \div Period
    BY <1>3, <1>6, <2>1, TargetIsLater
  <2> QED
    BY <1>2, <1>5, <2>2
<1> QED
  BY <1>5, <1>7, <1>8 DEF ClockInv, StampInv

(* csim's stamp.                                                           *)
LEMMA SimulateKeepsTime ==
  ASSUME ClockTypes, Simulate
  PROVE  /\ DOMAIN sim' = DOMAIN sim
         /\ sim'.sec \in 0 .. SecModulus - 1 /\ sim'.nsec \in 0 .. Second - 1
         /\ sim'.sec * Second + sim'.nsec =
              (sim.sec * Second + sim.nsec + Period) % (SecModulus * Second)
<1> DEFINE total == sim.nsec + Period
<1>1. /\ sim'.sec = (sim.sec + total \div Second) % SecModulus
      /\ sim'.nsec = total % Second /\ DOMAIN sim' = DOMAIN sim
  BY DEF Simulate, AdvanceStamp, ClockTypes
<1>2. sim.sec \in 0 .. SecModulus - 1 /\ sim.nsec \in 0 .. Second - 1
  BY DEF ClockTypes
<1> QED
  BY <1>1, <1>2, StampSum

(* ... and every step of either thread keeps it.                           *)
LEMMA ClockStep == ASSUME ConnInv, ClockInv, [ConnNext]_cvars PROVE ClockInv'
<1>1. ASSUME clock' = clock, UNCHANGED sim, conn' = conn,
             pc' # pc => \/ pc' \notin {"check", "frame", "mark", "start"}
                         \/ pc \in {"configure", "start", "check", "frame"}
                         \/ conn # "ecat",
             pc' \in {"callback", "sleep"} => pc \in {"callback", "sleep"} \/ conn # "ecat",
             pc' = "configure" => pc = "configure"
      PROVE  ClockInv'
  BY <1>1 DEF ClockInv, ClockTypes, StampInv, Aligned, controllerTime
<1>2. CASE Configure \/ Failed \/ Start \/ CheckDeadline \/ NewStateCallback \/ UpdateHookReturns
           \/ ReadSimulator
  <2>1. CASE Configure
    BY <1>1, <2>1 DEF Configure
  <2>2. CASE Failed
    BY <1>1, <2>2 DEF Failed, cvars
  <2>3. CASE Start \/ CheckDeadline \/ NewStateCallback
    BY <1>1, <2>3 DEF Start, CheckDeadline, NewStateCallback
  <2>4. CASE UpdateHookReturns
    BY <1>1, <2>4 DEF UpdateHookReturns, ConnInv, ConnTypes
  <2>5. CASE ReadSimulator
    BY <1>1, <2>5 DEF ReadSimulator, ConnInv, CycleInv, HasDeadline
  <2> QED
    BY <1>2, <2>1, <2>2, <2>3, <2>4, <2>5
<1>3. CASE ReceiveFrame
  <2>1. PICK overshoot \in 0 .. MaxOvershoot :
          clock' = [clock EXCEPT !.overshoot = overshoot]
    BY <1>3 DEF ReceiveFrame
  <2>2. pc = "frame" /\ pc' = "mark" /\ conn' = conn /\ sim' = sim
    BY <1>3 DEF ReceiveFrame
  <2>3. ClockTypes' /\ clock'.phase = clock.phase /\ clock'.lastStamp = clock.lastStamp
    BY <2>1, <2>2 DEF ClockInv, ClockTypes
  <2> QED
    BY <2>2, <2>3 DEF ClockInv, StampInv, Aligned
<1>4. CASE MarkCycle
  <2>1. /\ clock' = IF conn = "ecat" THEN [clock EXCEPT !.lastStamp = controllerTime]
                    ELSE clock
        /\ pc' = "callback" /\ conn' = conn /\ sim' = sim
    BY <1>4 DEF MarkCycle
  <2>2. ClockTypes' /\ clock'.phase = clock.phase /\ clock'.overshoot = clock.overshoot
    BY <2>1, StampGrows DEF ClockInv, ClockTypes
  <2>3. conn = "ecat" => clock'.lastStamp = controllerTime
    BY <2>1 DEF ClockInv, ClockTypes
  <2>4. controllerTime' = controllerTime
    BY <2>2 DEF controllerTime
  <2> QED
    BY <2>1, <2>2, <2>3, <2>4 DEF ClockInv, StampInv
<1>5. CASE ECatSleep
  BY <1>5, ECatSleepKeepsTime
<1>6. CASE Simulate
  <2>1. conn' = conn /\ clock' = clock /\ conn # "ecat"
    BY <1>6 DEF Simulate, ConnInv, CycleInv, HasDeadline
  <2> QED
    BY <1>6, <2>1, SimulateKeepsTime DEF ClockInv, ClockTypes, StampInv
<1>7. CASE OutThread
  <2>1. clock' = clock /\ conn' = conn /\ pc' = pc
    BY <1>7 DEF OutThread, LockOutput, ProcessTransmitData, SendFrame, NoopOutput, SimOutput, Wait
  <2>2. DOMAIN sim' = DOMAIN sim /\ sim'.sec = sim.sec /\ sim'.nsec = sim.nsec
    BY <1>7 DEF OutThread, LockOutput, ProcessTransmitData, SendFrame, NoopOutput, SimOutput,
       Wait, ClockInv, ClockTypes
  <2> QED
    BY <2>1, <2>2 DEF ClockInv, ClockTypes, StampInv, Aligned, controllerTime
<1>8. CASE DisableSafeties
  BY <1>1, <1>8 DEF DisableSafeties
<1>9. CASE UNCHANGED cvars
  BY <1>1, <1>9 DEF cvars
<1> QED
  BY <1>2, <1>3, <1>4, <1>5, <1>6, <1>7, <1>8, <1>9 DEF ConnNext, ConnThread

(* So it always holds.                                                     *)
LEMMA ClockInvariance == ConnSpec => []ClockInv
BY ClockStart, ClockStep, ConnInvariance, PTL DEF ConnSpec

(* The connectors' clocks only go forward: the sleep is never negative and *)
(* never as long as a second, in phase every cycle's stamp is later than   *)
(* the last however late the sleep before it ended, and csim's stamp       *)
(* counts the periods across the carry into seconds (ConnManager::loop,    *)
(* CSimConn::updateHook), for any period.                                  *)
THEOREM ClocksAdvance == ConnSpec => TimeKept
<1>1. ClockInv /\ ConnNext => StampsAdvance
  <2> SUFFICES ASSUME ClockInv, ConnNext, conn = "ecat", pc = "mark", pc' # pc, Aligned
               PROVE  clock'.lastStamp > clock.lastStamp
    BY DEF StampsAdvance
  <2>1. MarkCycle
    BY DEF ConnNext, ConnThread, OutThread, Configure, Failed, Start, CheckDeadline, ReceiveFrame,
       NewStateCallback, ECatSleep, UpdateHookReturns, Simulate, ReadSimulator, LockOutput,
       ProcessTransmitData, SendFrame, NoopOutput, SimOutput, Wait, DisableSafeties, cvars
  <2>2. clock'.lastStamp = controllerTime
    BY <2>1 DEF MarkCycle, ClockInv, ClockTypes
  <2>3. clock.lastStamp < (clock.phase + Offset) \div Period /\ clock.lastStamp \in Int
    BY DEF ClockInv, ClockTypes, StampInv
  <2>4. (clock.phase + Offset) \div Period \in Int
    <3>1. clock.phase + Offset \in Int /\ Period \in Nat \ {0}
      BY ClockConstants DEF ClockInv, ClockTypes
    <3> QED
      BY <3>1
  <2> QED
    BY <2>2, <2>3, <2>4, StampGrows DEF ClockInv
<1>2. ClockInv /\ ConnNext => SimStampExact
  <2> SUFFICES ASSUME ClockInv, ConnNext, pc = "simulate", pc' # pc
               PROVE  sim'.sec * Second + sim'.nsec =
                        (sim.sec * Second + sim.nsec + Period) % (SecModulus * Second)
    BY DEF SimStampExact
  <2>1. Simulate
    BY DEF ConnNext, ConnThread, OutThread, Configure, Failed, Start, CheckDeadline, ReceiveFrame,
       NewStateCallback, ECatSleep, UpdateHookReturns, MarkCycle, ReadSimulator, LockOutput,
       ProcessTransmitData, SendFrame, NoopOutput, SimOutput, Wait, DisableSafeties, cvars
  <2> QED
    BY <2>1, SimulateKeepsTime DEF ClockInv
<1>3. ClockInv /\ ClockInv' /\ [ConnNext]_cvars =>
        [SleepBounded' /\ StampsAdvance /\ SimStampExact]_cvars
  <2>1. ClockInv' => SleepBounded'
    BY ClockConstants DEF ClockInv, ClockTypes, SleepBounded
  <2> QED
    BY <1>1, <1>2, <2>1
<1> QED
  BY <1>3, ClockInvariance, PTL DEF ConnSpec, TimeKept

----------------------------------------------------------------------------
(* The boards' halt.  The counter of damped cycles.                        *)
Modes == {"idle", "init", "run", "halt", "error", "reset"}

(* The damped cycles are counted, up to the halt's limit, until the        *)
(* counter comes round; of those in which the motor rested the counter     *)
(* knows as many.  A halt that has ended shows its counter above its limit *)
(* until the error state's part has run.                                   *)
HaltInv ==
  /\ variant \in Variants /\ DOMAIN cnt = Counters
  /\ watched.halted \in 0 .. DampLimit + 1 /\ watched.rest \in Nat
  /\ mode = "run" => cnt["damp"] = 0 /\ watched.halted = 0 /\ watched.rest = 0
  /\ mode = "halt" /\ variant = "imu" => watched.rest = 0
  /\ mode = "halt" /\ variant # "imu" =>
       /\ cnt["damp"] \in 0 .. ByteModulus - 1
       /\ watched.halted <= DampLimit => cnt["damp"] = watched.halted
       /\ watched.rest > 0 => cnt["damp"] <= DampLimit /\ watched.rest <= cnt["damp"] + 1
  /\ mode = "error" =>
       "estop" \in flags \/ (frame.mode = "halt" /\ cnt["damp"] > DampLimit)

(* The halt's constants, and the counter, which is never the same again    *)
(* when it has gone up.                                                    *)
LEMMA DampConstants ==
  /\ DampLimit \in Nat /\ DampLimit > 0 /\ ByteModulus \in Nat /\ DampLimit < ByteModulus - 1
  /\ \A d \in 0 .. ByteModulus - 1 :
       /\ Up(d, ByteModulus) \in 0 .. ByteModulus - 1 /\ Up(d, ByteModulus) # d
       /\ d <= DampLimit => Up(d, ByteModulus) = d + 1
<1>1. DampLimit \in Nat /\ DampLimit > 0 /\ ByteModulus \in Nat /\ DampLimit < ByteModulus - 1
  BY BoardConstants
<1>2. ASSUME NEW d \in 0 .. ByteModulus - 1
      PROVE  /\ Up(d, ByteModulus) \in 0 .. ByteModulus - 1 /\ Up(d, ByteModulus) # d
             /\ d <= DampLimit => Up(d, ByteModulus) = d + 1
  <2>1. CASE d < ByteModulus - 1
    BY <1>1, <2>1 DEF Up
  <2>2. CASE d = ByteModulus - 1
    <3>1. Up(d, ByteModulus) = 0
      BY <1>1, <2>2 DEF Up
    <3> QED
      BY <1>1, <2>2, <3>1
  <2> QED
    BY <1>1, <2>1, <2>2
<1> QED
  BY <1>1, <1>2

(* No check looks at the halt's counter.                                   *)
LEMMA DampFree ==
  ASSUME variant \in Variants, NEW count, NEW flag, NEW bad
  PROVE  /\ check_error(count, flag, bad).cnt["damp"] = count["damp"]
         /\ DOMAIN check_error(count, flag, bad).cnt = Counters
<1>1. \A stage \in Stages[variant] : "damp" \notin stage.counters
  BY DEF Stages, Variants, LegStages, HipStages, BoomStages, Stage
<1>2. "damp" \in Counters
  BY DEF Counters
<1> QED
  BY <1>1, <1>2 DEF check_error

(* What check_error makes of the counters is a function of them.           *)
LEMMA CheckIsFunction ==
  ASSUME NEW count, NEW flag, NEW bad, NEW n, n = check_error(count, flag, bad).cnt
  PROVE  n = [c \in Counters |-> n[c]]
BY DEF check_error

(* Reading the sensors does not touch the damping.                         *)
LEMMA InputDamp ==
  ASSUME HaltInv, NEW bad
  PROVE  InputCounts(bad)["damp"] = cnt["damp"] /\ DOMAIN InputCounts(bad) = Counters
BY DEF HaltInv, InputCounts, Counters

(* The halt state's part of a cycle.                                       *)
LEMMA HaltingActs ==
  ASSUME variant \in Variants, NEW n, NEW f, NEW bad,
         NEW moving \in BOOLEAN, moving => variant = "leg",
         NEW estopped \in BOOLEAN, Halting(n, f, bad, moving, estopped)
  PROVE  LET r == check_error(n, f, bad)
         IN  /\ DOMAIN cnt' = Counters
             /\ \/ mode' = "error" /\ cnt' = r.cnt /\ flags' = r.flags \cup {"estop"}
                \/ /\ flags' = r.flags /\ mode' \in {"halt", "error"}
                   /\ variant = "imu" => mode' = "halt" /\ cnt'["damp"] = n["damp"]
                   /\ variant # "imu" =>
                        /\ cnt'["damp"] = Up(n["damp"], ByteModulus)
                        /\ mode' = "halt" => moving \/ cnt'["damp"] <= DampLimit
                        /\ mode' = "error" => ~moving /\ ~(cnt'["damp"] <= DampLimit)
<1> DEFINE r      == check_error(n, f, bad)
           damped == IF variant = "imu" THEN r.cnt
                     ELSE [r.cnt EXCEPT !["damp"] = Up(@, ByteModulus)]
<1>1. /\ \/ mode' = "error" /\ cnt' = r.cnt /\ flags' = r.flags \cup {"estop"}
         \/ /\ cnt' = damped /\ flags' = r.flags
            /\ mode' = IF run_halt(damped, moving) THEN "halt" ELSE "error"
  BY DEF Halting, ToError
<1>2. /\ r.cnt["damp"] = n["damp"] /\ DOMAIN r.cnt = Counters
  BY DampFree
<1>3. "damp" \in Counters
  BY DEF Counters
<1> HIDE DEF r
<1>4. /\ DOMAIN damped = Counters
      /\ variant = "imu" => damped["damp"] = n["damp"]
      /\ variant # "imu" => damped["damp"] = Up(n["damp"], ByteModulus)
  <2>1. CASE variant = "imu"
    BY <1>2, <2>1
  <2>2. CASE variant # "imu"
    <3>1. damped = [r.cnt EXCEPT !["damp"] = Up(r.cnt["damp"], ByteModulus)]
      BY <2>2
    <3> HIDE DEF damped
    <3> QED
      BY <1>2, <1>3, <2>2, <3>1
  <2> QED
    BY <2>1, <2>2
<1> HIDE DEF damped
<1>5. /\ variant = "imu" => run_halt(damped, moving)
      /\ variant # "imu" =>
           /\ run_halt(damped, moving) => moving \/ damped["damp"] <= DampLimit
           /\ ~run_halt(damped, moving) => ~moving /\ ~(damped["damp"] <= DampLimit)
  BY DEF run_halt
<1>6. CASE mode' = "error" /\ cnt' = r.cnt /\ flags' = r.flags \cup {"estop"}
  BY <1>2, <1>6 DEF r
<1>7. CASE /\ cnt' = damped /\ flags' = r.flags
           /\ mode' = IF run_halt(damped, moving) THEN "halt" ELSE "error"
  BY <1>4, <1>5, <1>7 DEF r
<1> QED
  BY <1>1, <1>6, <1>7

(* It counts in the halt's counter only, but for what check_error does.    *)
LEMMA HaltingCounts ==
  ASSUME NEW n, NEW f, NEW bad, NEW moving, NEW estopped,
         Halting(n, f, bad, moving, estopped)
  PROVE  /\ cnt' = [c \in Counters |-> cnt'[c]]
         /\ \A c \in Counters \ {"damp"} : cnt'[c] = check_error(n, f, bad).cnt[c]
<1> DEFINE r == check_error(n, f, bad)
<1>1. \/ cnt' = r.cnt
      \/ cnt' = [r.cnt EXCEPT !["damp"] = Up(r.cnt["damp"], ByteModulus)]
  BY DEF Halting, ToError
<1>2. r.cnt = [c \in Counters |-> r.cnt[c]] /\ "damp" \in Counters
  BY CheckIsFunction DEF Counters
<1> HIDE DEF r
<1>3. /\ cnt' = [c \in Counters |-> cnt'[c]]
      /\ \A c \in Counters \ {"damp"} : cnt'[c] = r.cnt[c]
  BY <1>1, <1>2
<1> QED
  BY <1>3 DEF r

(* The state's part of the cycle, and the halt's counter.                  *)
LEMMA DampStep ==
  ASSUME HaltInv, NEW bad, NEW moving \in BOOLEAN, moving => variant = "leg",
         Cycle(bad, moving)
  PROVE  /\ DOMAIN cnt' = Counters
         /\ mode' = "run" => mode \in {"init", "run"} /\ cnt'["damp"] = 0
         /\ mode' = "halt" => mode \in {"run", "halt"}
         /\ mode' = "halt" /\ variant = "imu" => cnt'["damp"] = cnt["damp"]
         /\ mode' = "halt" /\ variant # "imu" =>
              /\ cnt'["damp"] = Up(cnt["damp"], ByteModulus)
              /\ moving \/ cnt'["damp"] <= DampLimit
         /\ mode' = "error" /\ "estop" \notin flags' =>
              /\ mode = "halt" /\ variant # "imu" /\ ~moving
              /\ cnt'["damp"] = Up(cnt["damp"], ByteModulus)
              /\ cnt'["damp"] > DampLimit
<1> DEFINE count == InputCounts(bad)
           flag  == InputFlags(bad)
<1>1. count["damp"] = cnt["damp"] /\ DOMAIN count = Counters /\ variant \in Variants
  BY InputDamp DEF HaltInv
<1>2. reset_error(count)["damp"] = 0 /\ DOMAIN reset_error(count) = Counters
  BY DEF reset_error, NoCounts, Counters
<1>3. ASSUME NEW n, NEW f
      PROVE  /\ check_error(n, f, bad).cnt["damp"] = n["damp"]
             /\ DOMAIN check_error(n, f, bad).cnt = Counters
  BY <1>1, DampFree
<1>4. CASE mode = "idle" /\ HandleIdle(count, flag)
  BY <1>1, <1>4 DEF HandleIdle
<1>5. CASE mode = "init" /\ HandleInit(count, bad)
  <2> DEFINE r == check_error(reset_error(count), {}, bad)
  <2>1. r.cnt["damp"] = 0 /\ DOMAIN r.cnt = Counters
    BY <1>2, <1>3
  <2>2. \/ cnt' = reset_error(count) /\ mode' = "error" /\ "estop" \in flags'
        \/ cnt' = r.cnt /\ mode' = "error" /\ "estop" \in flags'
        \/ cnt' = r.cnt /\ mode' = "run"
    BY <1>5 DEF HandleInit, ToError
  <2> HIDE DEF r
  <2> QED
    BY <1>2, <1>5, <2>1, <2>2
<1>6. CASE mode = "run" /\ HandleRun(count, flag, bad, moving)
  <2> DEFINE r == check_error(count, flag, bad)
  <2>1. r.cnt["damp"] = 0 /\ cnt["damp"] = 0 /\ DOMAIN r.cnt = Counters
    BY <1>1, <1>3, <1>6 DEF HaltInv
  <2>2. \/ cnt' = r.cnt /\ mode' = "error" /\ "estop" \in flags'
        \/ cnt' = r.cnt /\ mode' \in {"run", "idle"}
        \/ Halting(r.cnt, r.flags, bad, moving, FALSE)
    BY <1>6 DEF HandleRun, ToError
  <2> HIDE DEF r
  <2>3. CASE Halting(r.cnt, r.flags, bad, moving, FALSE)
    <3>1. DOMAIN cnt' = Counters /\ mode' \in {"halt", "error"}
      BY <1>1, <2>3, HaltingActs
    <3> DEFINE e == check_error(r.cnt, r.flags, bad)
    <3>0. \/ mode' = "error" /\ cnt' = e.cnt /\ flags' = e.flags \cup {"estop"}
          \/ /\ flags' = e.flags /\ mode' \in {"halt", "error"}
             /\ variant = "imu" => mode' = "halt" /\ cnt'["damp"] = r.cnt["damp"]
             /\ variant # "imu" =>
                  /\ cnt'["damp"] = Up(r.cnt["damp"], ByteModulus)
                  /\ mode' = "halt" => moving \/ cnt'["damp"] <= DampLimit
                  /\ mode' = "error" => ~moving /\ ~(cnt'["damp"] <= DampLimit)
      BY <1>1, <2>3, HaltingActs
    <3> HIDE DEF e
    <3>2. \/ mode' = "error" /\ "estop" \in flags'
          \/ /\ variant = "imu" => mode' = "halt" /\ cnt'["damp"] = 0
             /\ variant # "imu" => /\ cnt'["damp"] = Up(0, ByteModulus)
                                   /\ mode' = "halt" => moving \/ cnt'["damp"] <= DampLimit
                                   /\ mode' = "error" => ~(cnt'["damp"] <= DampLimit)
      BY <2>1, <3>0
    <3>3. Up(0, ByteModulus) = 1 /\ 1 <= DampLimit
      <4>1. 0 \in 0 .. ByteModulus - 1 /\ 0 <= DampLimit /\ 1 <= DampLimit
        BY DampConstants
      <4> QED
        BY <4>1, DampConstants
    <3>4. Up(cnt["damp"], ByteModulus) = 1
      BY <2>1, <3>3
    <3>5. mode' = "error" => "estop" \in flags'
      BY <3>2, <3>3
    <3>6. mode' = "halt" /\ variant = "imu" => cnt'["damp"] = cnt["damp"]
      BY <2>1, <3>2
    <3>7. mode' = "halt" /\ variant # "imu" =>
            /\ cnt'["damp"] = Up(cnt["damp"], ByteModulus)
            /\ moving \/ cnt'["damp"] <= DampLimit
      BY <3>2, <3>3, <3>4
    <3> QED
      BY <1>6, <3>1, <3>5, <3>6, <3>7
  <2> QED
    BY <1>6, <2>1, <2>2, <2>3
<1>7. CASE mode = "halt" /\ HandleHalt(count, flag, bad, moving)
  <2>1. PICK estopped \in BOOLEAN : Halting(count, flag, bad, moving, estopped)
    BY <1>7 DEF HandleHalt
  <2>2. DOMAIN cnt' = Counters /\ mode' \in {"halt", "error"}
    BY <1>1, <2>1, HaltingActs
  <2>3. \/ mode' = "error" /\ "estop" \in flags'
        \/ /\ variant = "imu" => mode' = "halt" /\ cnt'["damp"] = cnt["damp"]
           /\ variant # "imu" =>
                /\ cnt'["damp"] = Up(cnt["damp"], ByteModulus)
                /\ mode' = "halt" => moving \/ cnt'["damp"] <= DampLimit
                /\ mode' = "error" => ~moving /\ ~(cnt'["damp"] <= DampLimit)
    BY <1>1, <2>1, HaltingActs
  <2>4. variant # "imu" =>
          Up(cnt["damp"], ByteModulus) \in 0 .. ByteModulus - 1 /\ DampLimit \in Nat
    BY <1>7, DampConstants DEF HaltInv
  <2> QED
    BY <1>7, <2>2, <2>3, <2>4
<1>8. CASE mode = "error" /\ HandleError(count, flag)
  BY <1>1, <1>8 DEF HandleError
<1>9. CASE mode = "reset" /\ HandleReset(count)
  BY <1>2, <1>9 DEF HandleReset
<1> QED
  BY <1>4, <1>5, <1>6, <1>7, <1>8, <1>9 DEF Cycle

(* The halt's counters over a cycle.                                       *)
LEMMA HaltStep ==
  ASSUME HaltInv, NEW bad, NEW moving \in BOOLEAN, moving => variant = "leg",
         Cycle(bad, moving)
  PROVE  /\ HaltInv'
         /\ mode' = "error" /\ mode \in {"run", "halt"} /\ "estop" \notin flags' =>
              watched'.rest > 0 /\ watched'.halted > DampLimit
<1> DEFINE h == watched.halted
           q == watched.rest
           d == cnt["damp"]
           d2 == cnt'["damp"]
           damped == mode \in {"run", "halt"} /\ d2 # d
<1>1. /\ watched'.halted = IF ~damped THEN 0 ELSE IF h <= DampLimit THEN h + 1 ELSE h
      /\ watched'.rest = IF damped /\ ~moving THEN q + 1 ELSE 0
      /\ variant' = variant /\ frame'.mode = mode
  BY DEF Cycle, See
<1>2. /\ DampLimit \in Nat /\ DampLimit > 0 /\ ByteModulus \in Nat
      /\ DampLimit < ByteModulus - 1
      /\ \A k \in 0 .. ByteModulus - 1 :
           /\ Up(k, ByteModulus) \in 0 .. ByteModulus - 1 /\ Up(k, ByteModulus) # k
           /\ k <= DampLimit => Up(k, ByteModulus) = k + 1
  BY DampConstants
<1>3. /\ DOMAIN cnt' = Counters
      /\ mode' = "run" => mode \in {"init", "run"} /\ d2 = 0
      /\ mode' = "halt" => mode \in {"run", "halt"}
      /\ mode' = "halt" /\ variant = "imu" => d2 = d
      /\ mode' = "halt" /\ variant # "imu" =>
           d2 = Up(d, ByteModulus) /\ (moving \/ d2 <= DampLimit)
      /\ mode' = "error" /\ "estop" \notin flags' =>
           /\ mode = "halt" /\ variant # "imu" /\ ~moving
           /\ d2 = Up(d, ByteModulus) /\ d2 > DampLimit
  BY DampStep
<1>4. h \in 0 .. DampLimit + 1 /\ q \in Nat /\ variant \in Variants
  BY DEF HaltInv
<1>5. mode = "run" => d = 0 /\ h = 0 /\ q = 0
  BY DEF HaltInv
<1>6. mode = "halt" /\ variant # "imu" =>
        /\ d \in 0 .. ByteModulus - 1
        /\ h <= DampLimit => d = h
        /\ q > 0 => d <= DampLimit /\ q <= d + 1
  BY DEF HaltInv
<1> HIDE DEF h, q, d, d2
<1>7. watched'.halted \in 0 .. DampLimit + 1 /\ watched'.rest \in Nat
  BY <1>1, <1>2, <1>4
<1>8. mode' = "run" => d2 = 0 /\ watched'.halted = 0 /\ watched'.rest = 0
  BY <1>1, <1>3, <1>5
<1>9. mode' = "halt" /\ variant = "imu" => watched'.rest = 0
  BY <1>1, <1>3
<1>10. ASSUME mode' = "halt", variant # "imu"
       PROVE  /\ d2 \in 0 .. ByteModulus - 1
              /\ watched'.halted <= DampLimit => d2 = watched'.halted
              /\ watched'.rest > 0 => d2 <= DampLimit /\ watched'.rest <= d2 + 1
  <2>1. /\ d \in 0 .. ByteModulus - 1
        /\ h <= DampLimit => d = h
        /\ q > 0 => d <= DampLimit /\ q <= d + 1
    BY <1>2, <1>3, <1>5, <1>6, <1>10
  <2>2. /\ d2 = Up(d, ByteModulus) /\ d2 \in 0 .. ByteModulus - 1 /\ d2 # d
        /\ d <= DampLimit => d2 = d + 1
        /\ moving \/ d2 <= DampLimit
    BY <1>2, <1>3, <1>10, <2>1
  <2>3. damped
    BY <1>3, <1>10, <2>2
  <2> HIDE DEF damped
  <2> QED
    BY <1>1, <1>2, <1>4, <2>1, <2>2, <2>3
<1>11. ASSUME mode' = "error", "estop" \notin flags'
       PROVE  /\ frame'.mode = "halt" /\ d2 > DampLimit
              /\ watched'.rest > 0 /\ watched'.halted > DampLimit
  <2>1. /\ mode = "halt" /\ variant # "imu" /\ ~moving
        /\ d2 = Up(d, ByteModulus) /\ d2 > DampLimit
    BY <1>3, <1>11
  <2>2. d \in 0 .. ByteModulus - 1 /\ (h <= DampLimit => d = h)
    BY <1>6, <2>1
  <2>3. damped
    BY <1>2, <2>1, <2>2
  <2>4. h <= DampLimit => h + 1 > DampLimit
    BY <1>2, <1>4, <2>1, <2>2
  <2> HIDE DEF damped
  <2> QED
    BY <1>1, <1>2, <1>4, <2>1, <2>3, <2>4
<1> QED
  BY <1>1, <1>3, <1>4, <1>7, <1>8, <1>9, <1>10, <1>11 DEF HaltInv, d2

(* The halt's invariant holds.                                             *)
LEMMA HaltInvariance == BoardSpec => []HaltInv
<1>1. BoardInit => HaltInv
  <2> SUFFICES ASSUME BoardInit PROVE HaltInv
    OBVIOUS
  <2>1. /\ DOMAIN cnt = Counters /\ watched.halted = 0 /\ watched.rest = 0
        /\ mode = "idle" /\ variant \in Variants
    BY DEF BoardInit, NoCounts
  <2> QED
    BY <2>1, DampConstants DEF HaltInv
<1>2. HaltInv /\ [BoardNext]_bvars => HaltInv'
  <2> SUFFICES ASSUME HaltInv, [BoardNext]_bvars PROVE HaltInv'
    OBVIOUS
  <2>1. CASE BoardNext
    BY <2>1, HaltStep DEF BoardNext
  <2>2. CASE UNCHANGED bvars
    BY <2>2 DEF bvars, HaltInv
  <2> QED
    BY <2>1, <2>2
<1> QED
  BY <1>1, <1>2, PTL DEF BoardSpec

(***************************************************************************)
(* A halt ends when its motor has rested for its time (HaltEnds), also     *)
(* when its counter has come round while the leg was damped, and is not    *)
(* given up before (NotLetGo), for any limit and width of the counter.     *)
(***************************************************************************)
THEOREM HaltsStop == BoardSpec => HaltsInTime
<1>1. HaltInv => HaltEnds
  BY DampConstants DEF HaltInv, HaltEnds
<1>2. HaltInv /\ [BoardNext]_bvars =>
        [mode' = "error" /\ mode \in {"run", "halt"} /\ "estop" \notin flags' =>
           watched'.rest > 0 /\ watched'.halted > DampLimit]_bvars
  BY HaltStep DEF BoardNext
<1> QED
  BY <1>1, <1>2, HaltInvariance, PTL DEF BoardSpec, HaltsInTime, NotLetGo

----------------------------------------------------------------------------
(* The boards' faults.  The counters that check_error itself moves, and    *)
(* those update_inputs moves for it.                                       *)
Filtered == {"therm", "motorV", "logicV"}
Encoders == {"motorEnc", "legEnc"}

(* Whether check_error filters the counter c, and its limit is an error:   *)
(* all but the legs' thermistors.                                          *)
Checked(c) == ~(variant = "leg" /\ c = "therm")

(* Whether a bad reading counted in c ends a run.                          *)
Trips(c) ==
  \/ variant = "hip"
  \/ variant = "leg" /\ c # "therm"
  \/ variant = "boom" /\ c = "logicV"

(* The filters' limits and the counters' width.                            *)
LEMMA LimitTypes ==
  /\ {SwitchLimit, ThermLimit, VoltLimit, EncLimit} \subseteq Nat
  /\ ByteModulus \in Nat /\ ByteModulus > 1
  /\ SwitchLimit < ByteModulus - 1 /\ EncLimit < ByteModulus - 1
  /\ Channels \in Nat \ {0} /\ MaxLevel \in Nat
BY BoardConstants

(* The stages of every board: a filtered counter has a stage of its own,   *)
(* which has its name, and no stage moves another counter.                 *)
LEMMA StageFacts ==
  ASSUME variant \in Variants, NEW stage \in Stages[variant]
  PROVE  /\ \A c \in Filtered : c \in stage.counters <=> stage.flag = c
         /\ stage.flag \in Filtered =>
              /\ stage.counters = {stage.flag} /\ stage.limit = Limit(stage.flag)
              /\ stage.filters <=> Checked(stage.flag)
         /\ stage.filters => stage.flag \in Filtered /\ stage.counters = {stage.flag}
<1>1. CASE variant = "leg"
  BY <1>1 DEF Stages, LegStages, Stage, Filtered, Limit, Checked
<1>2. CASE variant = "hip"
  BY <1>2 DEF Stages, HipStages, Stage, Filtered, Limit, Checked
<1>3. CASE variant = "boom"
  BY <1>3 DEF Stages, BoomStages, Stage, Filtered, Limit, Checked
<1>4. CASE variant = "imu"
  BY <1>4 DEF Stages
<1> QED
  BY <1>1, <1>2, <1>3, <1>4 DEF Variants

(* The stages that matter, which end a run.                                *)
LEMMA StagesThere ==
  /\ variant = "hip" => \A c \in Filtered :
       \E stage \in Stages[variant] : stage.flag = c /\ stage.trips
  /\ variant = "leg" => \A c \in {"motorV", "logicV"} :
       \E stage \in Stages[variant] : stage.flag = c /\ stage.trips
  /\ variant = "boom" =>
       \E stage \in Stages[variant] : stage.flag = "logicV" /\ stage.trips
  /\ variant = "leg" =>
       /\ \E stage \in Stages[variant] :
            /\ stage.flag = "encoder" /\ stage.trips /\ ~stage.filters
            /\ stage.counters = Encoders /\ stage.limit = EncLimit
       /\ \E stage \in Stages[variant] :
            /\ stage.flag = "switch" /\ stage.trips /\ ~stage.filters
            /\ stage.counters = {"switch"} /\ stage.limit = SwitchLimit
  /\ variant = "hip" => \E stage \in Stages[variant] :
       stage.flag = "switch" /\ stage.trips /\ stage.counters = {}
<1>1. CASE variant = "hip"
  <2>1. Stage(2, "therm", {"therm"}, ThermLimit, TRUE, TRUE) \in Stages[variant]
        /\ Stage(3, "motorV", {"motorV"}, VoltLimit, TRUE, TRUE) \in Stages[variant]
        /\ Stage(4, "logicV", {"logicV"}, VoltLimit, TRUE, TRUE) \in Stages[variant]
        /\ Stage(1, "switch", {}, 0, FALSE, TRUE) \in Stages[variant]
    BY <1>1 DEF Stages, HipStages
  <2> QED
    BY <1>1, <2>1 DEF Stage, Filtered
<1>2. CASE variant = "leg"
  <2>1. Stage(1, "switch", {"switch"}, SwitchLimit, FALSE, TRUE) \in Stages[variant]
        /\ Stage(3, "motorV", {"motorV"}, VoltLimit, TRUE, TRUE) \in Stages[variant]
        /\ Stage(4, "logicV", {"logicV"}, VoltLimit, TRUE, TRUE) \in Stages[variant]
        /\ Stage(5, "encoder", {"motorEnc", "legEnc"}, EncLimit, FALSE, TRUE)
             \in Stages[variant]
    BY <1>2 DEF Stages, LegStages
  <2> QED
    BY <1>2, <2>1 DEF Stage, Encoders
<1>3. CASE variant = "boom"
  BY <1>3 DEF Stages, BoomStages, Stage
<1> QED
  BY <1>1, <1>2, <1>3

(* What check_error makes of a counter it filters, and which counters it   *)
(* does not touch.                                                         *)
LEMMA CheckCounts ==
  ASSUME variant \in Variants, NEW n \in [Counters -> Nat], NEW f, NEW bad
  PROVE  LET r == check_error(n, f, bad)
         IN  /\ r.cnt \in [Counters -> Nat]
             /\ \A c \in Filtered :
                  /\ r.cnt[c] \in {n[c], Filter(n[c], c \in bad)}
                  /\ r.cnt[c] # n[c] => Checked(c)
             /\ \A c \in Counters \ Filtered : r.cnt[c] = n[c]
<1> DEFINE Moved0(stage, c) == IF stage.filters THEN Filter(n[c], stage.flag \in bad) ELSE n[c]
           enabled  == {stage \in Stages[variant] : stage.flag \in checks}
           Over(stage) == IF stage.counters = {} THEN stage.flag \in bad
                          ELSE \E c \in stage.counters : Moved0(stage, c) > stage.limit
           errors   == {stage \in enabled : stage.trips /\ Over(stage)}
           reached  == {stage \in enabled : \A e \in errors : stage.order <= e.order}
           r == check_error(n, f, bad)
<1>1. r.cnt = [c \in Counters |->
                 IF \E stage \in reached : c \in stage.counters
                 THEN Moved0(CHOOSE stage \in reached : c \in stage.counters, c)
                 ELSE n[c]]
  BY DEF check_error
<1>2. ASSUME NEW c \in Counters
      PROVE  \/ r.cnt[c] = n[c]
             \/ \E stage \in Stages[variant] : c \in stage.counters /\ r.cnt[c] = Moved0(stage, c)
  <2>1. CASE \E stage \in reached : c \in stage.counters
    <3> DEFINE stage0 == CHOOSE stage \in reached : c \in stage.counters
    <3>1. stage0 \in reached /\ c \in stage0.counters
      BY <2>1
    <3>2. stage0 \in Stages[variant]
      BY <3>1
    <3>3. r.cnt[c] = Moved0(stage0, c)
      <4> HIDE DEF Moved0, reached, r
      <4> QED
        BY <1>1, <2>1
    <3> HIDE DEF stage0
    <3> QED
      BY <3>1, <3>2, <3>3
  <2>2. CASE ~(\E stage \in reached : c \in stage.counters)
    BY <1>1, <2>2
  <2> QED
    BY <2>1, <2>2
<1>3. \A c \in Filtered : /\ r.cnt[c] \in {n[c], Filter(n[c], c \in bad)}
                          /\ r.cnt[c] # n[c] => Checked(c)
  <2> SUFFICES ASSUME NEW c \in Filtered
               PROVE  /\ r.cnt[c] \in {n[c], Filter(n[c], c \in bad)}
                      /\ r.cnt[c] # n[c] => Checked(c)
    OBVIOUS
  <2>1. c \in Counters
    BY DEF Filtered, Counters
  <2>2. \A stage \in Stages[variant] : c \in stage.counters =>
          stage.flag = c /\ (stage.filters <=> Checked(c))
    BY StageFacts
  <2> HIDE DEF r
  <2> QED
    BY <1>2, <2>1, <2>2
<1>4. \A c \in Counters \ Filtered : r.cnt[c] = n[c]
  <2> SUFFICES ASSUME NEW c \in Counters \ Filtered PROVE r.cnt[c] = n[c]
    OBVIOUS
  <2>1. \A stage \in Stages[variant] : c \in stage.counters => ~stage.filters
    BY StageFacts
  <2> HIDE DEF r
  <2> QED
    BY <1>2, <2>1
<1>5. r.cnt \in [Counters -> Nat]
  <2>1. DOMAIN r.cnt = Counters /\ r.cnt = [c \in Counters |-> r.cnt[c]]
    BY <1>1
  <2>3. \A c \in Counters : r.cnt[c] \in Nat
    <3> SUFFICES ASSUME NEW c \in Counters PROVE r.cnt[c] \in Nat
      OBVIOUS
    <3> HIDE DEF r
    <3>1. CASE c \in Filtered
      <4>1. n[c] \in Nat
        OBVIOUS
      <4>2. Filter(n[c], c \in bad) \in Nat
        BY <4>1 DEF Filter, Down
      <4> QED
        BY <1>3, <3>1, <4>1, <4>2
    <3>2. CASE c \notin Filtered
      BY <1>4, <3>2
    <3> QED
      BY <3>1, <3>2
  <2> HIDE DEF r
  <2> QED
    BY <2>1, <2>3
<1> HIDE DEF r
<1>6. r = check_error(n, f, bad)
  BY DEF r
<1> QED
  BY <1>3, <1>4, <1>5, <1>6

(* What check_error finds: its flags are counters above their limits, and  *)
(* without an error every counter that is checked is within its limit.     *)
LEMMA CheckFinds ==
  ASSUME variant \in Variants, NEW n \in [Counters -> Nat], NEW f, NEW bad
  PROVE  LET r == check_error(n, f, bad)
         IN  /\ \A c \in Filtered : c \in r.flags => c \in f \/ r.cnt[c] > Limit(c)
             /\ ~r.error =>
                  /\ variant = "leg" /\ "encoder" \in checks =>
                       \A c \in Encoders : n[c] <= EncLimit
                  /\ variant = "leg" /\ "switch" \in checks => n["switch"] <= SwitchLimit
                  /\ variant = "hip" /\ "switch" \in checks => "switch" \notin bad
                  /\ \A c \in Filtered \cap checks :
                       Trips(c) => r.cnt[c] = Filter(n[c], c \in bad) /\ r.cnt[c] <= Limit(c)
<1> DEFINE Moved0(stage, c) == IF stage.filters THEN Filter(n[c], stage.flag \in bad) ELSE n[c]
           enabled  == {stage \in Stages[variant] : stage.flag \in checks}
           Over(stage) == IF stage.counters = {} THEN stage.flag \in bad
                          ELSE \E c \in stage.counters : Moved0(stage, c) > stage.limit
           errors   == {stage \in enabled : stage.trips /\ Over(stage)}
           reached  == {stage \in enabled : \A e \in errors : stage.order <= e.order}
           r == check_error(n, f, bad)
<1>1. /\ r.cnt = [c \in Counters |->
                    IF \E stage \in reached : c \in stage.counters
                    THEN Moved0(CHOOSE stage \in reached : c \in stage.counters, c)
                    ELSE n[c]]
      /\ r.flags = f \cup {stage.flag : stage \in {t \in reached : Over(t)}}
      /\ r.error <=> errors # {}
  BY DEF check_error
<1> HIDE DEF r
<1>2. ASSUME NEW c \in Filtered, NEW stage \in reached, stage.flag = c
      PROVE  /\ r.cnt[c] = IF Checked(c) THEN Filter(n[c], c \in bad) ELSE n[c]
             /\ Over(stage) <=> r.cnt[c] > Limit(c)
  <2>1. c \in Counters
    BY DEF Filtered, Counters
  <2>2. \A s \in Stages[variant] : c \in s.counters <=> s.flag = c
    BY StageFacts
  <2>3. \A s \in Stages[variant] : s.flag = c =>
          /\ s.counters = {c} /\ s.limit = Limit(c) /\ (s.filters <=> Checked(c))
    BY StageFacts
  <2> DEFINE stage0 == CHOOSE s \in reached : c \in s.counters
  <2>4. stage0 \in reached /\ c \in stage0.counters
    BY <1>2, <2>2
  <2>5. r.cnt[c] = Moved0(stage0, c)
    <3>1. \E s \in reached : c \in s.counters
      BY <2>4
    <3> HIDE DEF Moved0, reached
    <3> QED
      BY <1>1, <2>1, <3>1
  <2> HIDE DEF stage0
  <2>6. r.cnt[c] = IF Checked(c) THEN Filter(n[c], c \in bad) ELSE n[c]
    BY <2>2, <2>3, <2>4, <2>5
  <2>7. Over(stage) <=> Moved0(stage, c) > Limit(c)
    BY <1>2, <2>3
  <2>8. Moved0(stage, c) = r.cnt[c]
    BY <1>2, <2>3, <2>6
  <2> QED
    BY <2>6, <2>7, <2>8
<1>3. \A c \in Filtered : c \in r.flags => c \in f \/ r.cnt[c] > Limit(c)
  BY <1>1, <1>2
<1>4. ASSUME ~r.error
      PROVE  \A stage \in enabled : stage \in reached /\ (stage.trips => ~Over(stage))
  BY <1>1, <1>4
<1>5. ASSUME ~r.error, variant = "leg"
      PROVE  /\ "encoder" \in checks => \A c \in Encoders : n[c] <= EncLimit
             /\ "switch" \in checks => n["switch"] <= SwitchLimit
  <2>1. \A c \in Encoders \cup {"switch"} : n[c] \in Nat
    BY DEF Encoders, Counters
  <2>2. "encoder" \in checks => \A c \in Encoders : n[c] <= EncLimit
    <3>1. PICK stage \in Stages[variant] :
            /\ stage.flag = "encoder" /\ stage.trips /\ ~stage.filters
            /\ stage.counters = Encoders /\ stage.limit = EncLimit
      BY <1>5, StagesThere
    <3>2. Encoders # {} /\ EncLimit \in Nat
      BY LimitTypes DEF Encoders
    <3> QED
      BY <1>4, <1>5, <2>1, <3>1, <3>2
  <2>3. "switch" \in checks => n["switch"] <= SwitchLimit
    <3>1. PICK stage \in Stages[variant] :
            /\ stage.flag = "switch" /\ stage.trips /\ ~stage.filters
            /\ stage.counters = {"switch"} /\ stage.limit = SwitchLimit
      BY <1>5, StagesThere
    <3> QED
      BY <1>4, <1>5, <2>1, <3>1, LimitTypes
  <2> QED
    BY <2>2, <2>3
<1>6. ASSUME ~r.error, variant = "hip", "switch" \in checks
      PROVE  "switch" \notin bad
  BY <1>4, <1>6, StagesThere
<1>7. ASSUME ~r.error, NEW c \in Filtered \cap checks, Trips(c)
      PROVE  r.cnt[c] = Filter(n[c], c \in bad) /\ r.cnt[c] <= Limit(c)
  <2>1. PICK stage \in Stages[variant] : stage.flag = c /\ stage.trips
    BY <1>7, StagesThere DEF Filtered, Trips
  <2>2. stage \in reached /\ ~Over(stage)
    BY <1>4, <1>7, <2>1
  <2>3. Checked(c)
    BY <1>7 DEF Checked, Trips
  <2>4. r.cnt[c] = Filter(n[c], c \in bad) /\ ~(r.cnt[c] > Limit(c))
    BY <1>2, <1>7, <2>1, <2>2, <2>3
  <2>5. n[c] \in Nat
    BY DEF Filtered, Counters
  <2>6. Filter(n[c], c \in bad) \in Nat
    BY <2>5 DEF Filter, Down
  <2>7. Limit(c) \in Nat
    BY LimitTypes DEF Limit, Filtered
  <2> QED
    BY <2>4, <2>6, <2>7
<1>8. r = check_error(n, f, bad)
  BY DEF r
<1> QED
  BY <1>3, <1>5, <1>6, <1>7, <1>8

----------------------------------------------------------------------------
(* The invariant of the faults.  What a filter has counted, it has counted *)
(* since the last reset, once a cycle but for the one that goes from run   *)
(* to halt (CountInv); while the board runs, what goes on has been counted *)
(* and is within the limit (RunInv); the switches' counter does not lag    *)
(* behind a switch that is held (HeldInv).                                 *)
FaultTypes ==
  /\ variant \in Variants /\ sources \in Faults /\ mode \in Modes
  /\ cnt \in [Counters -> Nat] /\ cnt["switch"] \in 0 .. ByteModulus - 1
  /\ watched.bad \in [Counters -> Nat] /\ watched.streak \in [Counters -> Nat]
  /\ watched.held \in Nat /\ watched.twice \in 0 .. 1

(* A count of bad readings that is no longer kept: above every limit.      *)
Full(n) == \A limit \in {SwitchLimit, ThermLimit, VoltLimit, EncLimit} : n > limit

CountInv ==
  /\ \A c \in Filtered : cnt[c] <= watched.bad[c] + watched.twice \/ Full(watched.bad[c])
  /\ mode = "run" => watched.twice = 0
  /\ FaultsAreFresh

RunInv ==
  mode = "run" =>
    /\ \A c \in Filtered \cap checks :
         watched.streak[c] <= Limit(c) /\ (Trips(c) => watched.streak[c] <= cnt[c])
    /\ "encoder" \in checks =>
         \A c \in Encoders : /\ watched.streak[c] <= EncLimit
                             /\ variant = "leg" => watched.streak[c] <= cnt[c] /\ cnt[c] <= EncLimit
    /\ "switch" \in checks /\ variant = "hip" => watched.streak["switch"] = 0

HeldInv ==
  variant = "leg" =>
    /\ ~watched.wrapped => watched.held <= cnt["switch"]
    /\ mode = "run" /\ "switch" \in checks => cnt["switch"] <= SwitchLimit

FaultInv == FaultTypes /\ CountInv /\ RunInv /\ HeldInv

(* A capped counter counts, until it is full.                              *)
LEMMA CapFacts ==
  ASSUME NEW n \in Nat
  PROVE  /\ Cap(n) \in Nat /\ n <= Cap(n) /\ Cap(n) <= n + 1
         /\ Cap(n) = n + 1 \/ Full(n)
BY LimitTypes DEF Cap, Full

(* The sensors that give bad readings are on the board, and but for the    *)
(* IMU's count in a filter that ends a run.                                *)
LEMMA BadReadings ==
  ASSUME FaultTypes, NEW bad \in SUBSET sources
  PROVE  /\ \A c \in Filtered : c \in bad => Trips(c)
         /\ \A c \in Encoders : c \in bad => variant = "leg"
         /\ variant = "imu" => bad \cap Filtered = {}
<1>1. CASE aspect # "faults"
  BY <1>1 DEF FaultTypes, Faults
<1>2. CASE aspect = "faults" /\ variant = "leg"
  BY <1>2 DEF FaultTypes, Faults, Filtered, Encoders, Trips
<1>3. CASE aspect = "faults" /\ variant = "hip"
  BY <1>3 DEF FaultTypes, Faults, Filtered, Encoders, Trips
<1>4. CASE aspect = "faults" /\ variant = "boom"
  BY <1>4 DEF FaultTypes, Faults, Filtered, Encoders, Trips
<1>5. CASE aspect = "faults" /\ variant = "imu"
  BY <1>5 DEF FaultTypes, Faults, Filtered, Encoders, Trips
<1> QED
  BY <1>1, <1>2, <1>3, <1>4, <1>5 DEF FaultTypes, Variants

(* What update_inputs makes of the counters.                               *)
LEMMA InputFacts ==
  ASSUME FaultTypes, NEW bad \in SUBSET sources
  PROVE  LET n == InputCounts(bad)
         IN  /\ n \in [Counters -> Nat] /\ n["switch"] \in 0 .. ByteModulus - 1
             /\ \A c \in Filtered : n[c] = cnt[c]
             /\ \A c \in Encoders :
                  n[c] = IF c \in bad THEN Up(cnt[c], ByteModulus) ELSE cnt[c]
             /\ variant = "leg" =>
                  n["switch"] = SwitchFilter(cnt["switch"], "switch" \in bad)
             /\ \A c \in Filtered : c \in InputFlags(bad) => c \in flags \/ (c \in bad /\ variant = "imu")
             /\ variant # "imu" => flags \subseteq InputFlags(bad)
             /\ variant = "imu" => InputFlags(bad) = bad
<1> DEFINE n == InputCounts(bad)
<1>1. n = [cnt EXCEPT
             !["switch"] = IF variant \in {"leg", "hip"}
                           THEN SwitchFilter(cnt["switch"], "switch" \in bad) ELSE cnt["switch"],
             !["motorEnc"] = IF "motorEnc" \in bad THEN Up(cnt["motorEnc"], ByteModulus)
                             ELSE cnt["motorEnc"],
             !["legEnc"] = IF "legEnc" \in bad THEN Up(cnt["legEnc"], ByteModulus)
                           ELSE cnt["legEnc"]]
  BY DEF InputCounts
<1> HIDE DEF n
<1>2. \A k \in Nat : Up(k, ByteModulus) \in 0 .. ByteModulus - 1
  BY LimitTypes DEF Up
<1>3. \A k \in 0 .. ByteModulus - 1 : Down(k) \in 0 .. ByteModulus - 1
  BY LimitTypes DEF Down
<1>4. SwitchFilter(cnt["switch"], "switch" \in bad) \in 0 .. ByteModulus - 1
  BY <1>2, <1>3, LimitTypes DEF SwitchFilter, FaultTypes
<1>5. /\ \A c \in Filtered : n[c] = cnt[c]
      /\ \A c \in Encoders : n[c] = IF c \in bad THEN Up(cnt[c], ByteModulus) ELSE cnt[c]
      /\ n["damp"] = cnt["damp"]
      /\ n["switch"] = IF variant \in {"leg", "hip"}
                       THEN SwitchFilter(cnt["switch"], "switch" \in bad) ELSE cnt["switch"]
      /\ n = [c \in Counters |-> n[c]]
  BY <1>1 DEF FaultTypes, Filtered, Encoders, Counters
<1>6. n["switch"] \in 0 .. ByteModulus - 1
  BY <1>4, <1>5 DEF FaultTypes
<1>7. n \in [Counters -> Nat]
  <2> SUFFICES ASSUME NEW c \in Counters PROVE n[c] \in Nat
    BY <1>5
  <2>1. cnt[c] \in Nat /\ ByteModulus \in Nat
    BY LimitTypes DEF FaultTypes
  <2>2. Up(cnt[c], ByteModulus) \in Nat
    BY <1>2, <2>1
  <2>3. c \in Filtered \cup Encoders \cup {"damp", "switch"}
    BY DEF Counters, Filtered, Encoders
  <2>4. CASE c \in Encoders
    <3>1. n[c] = Up(cnt[c], ByteModulus) \/ n[c] = cnt[c]
      BY <1>5, <2>4
    <3> QED
      BY <2>1, <2>2, <3>1
  <2>5. CASE c \notin Encoders
    BY <1>5, <1>6, <2>1, <2>3, <2>5
  <2> QED
    BY <2>4, <2>5
<1>8. /\ \A c \in Filtered : c \in InputFlags(bad) => c \in flags \/ (c \in bad /\ variant = "imu")
      /\ variant # "imu" => flags \subseteq InputFlags(bad)
      /\ variant = "imu" => InputFlags(bad) = bad
  <2>1. variant = "imu" => bad \cap {"motorEnc", "legEnc"} = {}
    BY BadReadings DEF Encoders
  <2>2. variant = "imu" => InputFlags(bad) = bad
    BY <2>1 DEF InputFlags
  <2>3. variant # "imu" => InputFlags(bad) = flags \/ InputFlags(bad) = flags \cup {"encoder"}
    <3>1. CASE bad \cap {"motorEnc", "legEnc"} = {}
      BY <3>1 DEF InputFlags
    <3>2. CASE bad \cap {"motorEnc", "legEnc"} # {}
      BY <3>2 DEF InputFlags
    <3> QED
      BY <3>1, <3>2
  <2> QED
    BY <2>2, <2>3 DEF Filtered
<1>9. n = InputCounts(bad)
  BY DEF n
<1> QED
  BY <1>5, <1>6, <1>7, <1>8, <1>9

(* The state's part of a cycle: n and f are the counters and flags that    *)
(* check_error is given.                                                   *)
Given(bad) == IF mode = "init" THEN reset_error(InputCounts(bad)) ELSE InputCounts(bad)
Shown(bad) == IF mode = "init" THEN {} ELSE InputFlags(bad)
Checkup(bad) == check_error(Given(bad), Shown(bad), bad)

(* The halt state's check in the cycle that comes from run.                *)
Again(bad) == check_error(Checkup(bad).cnt, Checkup(bad).flags, bad)
Halts(bad) == mode = "run" /\ mode' \in {"halt", "error"} /\ ~Checkup(bad).error

(* What the sensors' counters are when the checks begin.                   *)
LEMMA GivenFacts ==
  ASSUME FaultTypes, NEW bad \in SUBSET sources
  PROVE  /\ Given(bad) \in [Counters -> Nat]
         /\ Given(bad)["switch"] = InputCounts(bad)["switch"]
         /\ mode = "init" => \A c \in Filtered \cup Encoders : Given(bad)[c] = 0
         /\ mode # "init" => Given(bad) = InputCounts(bad)
         /\ \A c \in Filtered : Given(bad)[c] <= cnt[c]
<1>1. /\ InputCounts(bad) \in [Counters -> Nat]
      /\ \A c \in Filtered : InputCounts(bad)[c] = cnt[c] /\ cnt[c] \in Nat
  BY InputFacts DEF FaultTypes, Filtered, Counters
<1>2. /\ reset_error(InputCounts(bad)) \in [Counters -> Nat]
      /\ reset_error(InputCounts(bad))["switch"] = InputCounts(bad)["switch"]
      /\ \A c \in Filtered \cup Encoders : reset_error(InputCounts(bad))[c] = 0
  BY <1>1 DEF reset_error, NoCounts, Counters, Filtered, Encoders
<1> QED
  BY <1>1, <1>2 DEF Given

(* What a cycle does to the mode and the counters.                         *)
LEMMA BoardCycleFacts ==
  ASSUME FaultTypes, NEW bad \in SUBSET sources,
         NEW moving \in BOOLEAN, moving => variant = "leg", Cycle(bad, moving)
  PROVE  /\ mode' \in Modes /\ cnt' \in [Counters -> Nat]
         /\ cnt'["switch"] = InputCounts(bad)["switch"]
         /\ \A c \in Filtered :
              \/ cnt'[c] \in {Given(bad)[c], Checkup(bad).cnt[c], 0}
              \/ Halts(bad) /\ cnt'[c] = Again(bad).cnt[c]
         /\ \A c \in Filtered : c \in flags' =>
              \/ c \in Shown(bad) /\ mode # "init"
              \/ c \in Checkup(bad).flags /\ cnt'[c] = Checkup(bad).cnt[c]
              \/ Halts(bad) /\ c \in Again(bad).flags /\ cnt'[c] = Again(bad).cnt[c]
         /\ mode' = "run" => mode \in {"init", "run"} /\ ~Checkup(bad).error /\ cnt' = Checkup(bad).cnt
<1> DEFINE count == InputCounts(bad)
           flag  == InputFlags(bad)
           r     == Checkup(bad)
<1>1. /\ count \in [Counters -> Nat] /\ Given(bad) \in [Counters -> Nat]
      /\ Given(bad)["switch"] = count["switch"]
      /\ mode # "init" => Given(bad) = count /\ Shown(bad) = flag
      /\ variant \in Variants
  BY InputFacts, GivenFacts DEF Shown, FaultTypes
<1>2. /\ r.cnt \in [Counters -> Nat] /\ r.cnt["switch"] = count["switch"]
  BY <1>1, CheckCounts DEF Counters, Filtered, Checkup
<1>3. "estop" \notin Filtered /\ "damp" \notin Filtered
      /\ "damp" \in Counters /\ "switch" \in Counters /\ Filtered \subseteq Counters
  BY DEF Filtered, Counters
<1>4. /\ reset_error(count) \in [Counters -> Nat]
      /\ reset_error(count)["switch"] = count["switch"]
      /\ \A c \in Filtered : reset_error(count)[c] = 0
  BY <1>1 DEF reset_error, NoCounts, Counters, Filtered
<1>5. ASSUME NEW n \in [Counters -> Nat], NEW f, NEW estopped \in BOOLEAN,
             n["switch"] = count["switch"], n["damp"] \in Nat,
             Halting(n, f, bad, moving, estopped)
      PROVE  /\ mode' \in {"halt", "error"} /\ cnt' \in [Counters -> Nat]
             /\ cnt'["switch"] = count["switch"]
             /\ \A c \in Filtered : /\ cnt'[c] = check_error(n, f, bad).cnt[c]
                                    /\ c \in flags' => c \in check_error(n, f, bad).flags
  <2> DEFINE e == check_error(n, f, bad)
  <2>1. /\ e.cnt \in [Counters -> Nat] /\ e.cnt["switch"] = n["switch"]
    BY <1>1, <1>5, CheckCounts DEF Counters, Filtered
  <2>2. /\ cnt' = [c \in Counters |-> cnt'[c]]
        /\ \A c \in Counters \ {"damp"} : cnt'[c] = e.cnt[c]
    BY <1>5, HaltingCounts
  <2>3. \/ mode' = "error" /\ cnt' = e.cnt /\ flags' = e.flags \cup {"estop"}
        \/ /\ flags' = e.flags /\ mode' \in {"halt", "error"}
           /\ variant = "imu" => cnt'["damp"] = n["damp"]
           /\ variant # "imu" => cnt'["damp"] = Up(n["damp"], ByteModulus)
    BY <1>1, <1>5, HaltingActs
  <2> HIDE DEF e
  <2>4. Up(n["damp"], ByteModulus) \in Nat
    BY <1>5, LimitTypes DEF Up
  <2>5. cnt'["damp"] \in Nat
    BY <1>3, <1>5, <2>1, <2>3, <2>4
  <2>6. cnt' \in [Counters -> Nat]
    <3>1. \A c \in Counters : cnt'[c] \in Nat
      BY <2>1, <2>2, <2>5
    <3> QED
      BY <2>2, <3>1
  <2>7. \A c \in Filtered : /\ cnt'[c] = e.cnt[c]
                            /\ c \in flags' => c \in e.flags
    BY <1>3, <2>2, <2>3
  <2>8. cnt'["switch"] = count["switch"]
    BY <1>3, <1>5, <2>1, <2>2
  <2> QED
    BY <2>3, <2>6, <2>7, <2>8 DEF e
<1>6. CASE mode = "idle" /\ HandleIdle(count, flag)
  BY <1>1, <1>6 DEF HandleIdle, Modes
<1>7. CASE mode = "init" /\ HandleInit(count, bad)
  <2>1. r = check_error(reset_error(count), {}, bad)
    BY <1>7 DEF Checkup, Given, Shown
  <2>2. \/ cnt' = reset_error(count) /\ flags' = {"estop"} /\ mode' = "error"
        \/ /\ cnt' = r.cnt /\ flags' \in {r.flags, r.flags \cup {"estop"}}
           /\ mode' = "error" \/ (mode' = "run" /\ ~r.error)
    BY <1>7, <2>1 DEF HandleInit, ToError
  <2> HIDE DEF r, count
  <2>3. CASE cnt' = reset_error(count) /\ flags' = {"estop"} /\ mode' = "error"
    BY <1>3, <1>4, <1>7, <2>3 DEF Modes, count
  <2>4. CASE /\ cnt' = r.cnt /\ flags' \in {r.flags, r.flags \cup {"estop"}}
             /\ mode' = "error" \/ (mode' = "run" /\ ~r.error)
    BY <1>2, <1>3, <1>7, <2>4 DEF Modes, r, count
  <2> QED
    BY <2>2, <2>3, <2>4
<1>8. CASE mode = "run" /\ HandleRun(count, flag, bad, moving)
  <2>1. r = check_error(count, flag, bad)
    BY <1>1, <1>8 DEF Checkup
  <2>2. \/ /\ cnt' = r.cnt /\ flags' \in {r.flags, r.flags \cup {"estop"}}
           /\ mode' = "error" \/ (mode' \in {"run", "idle"} /\ ~r.error)
        \/ ~r.error /\ Halting(r.cnt, r.flags, bad, moving, FALSE)
    BY <1>8, <2>1 DEF HandleRun, ToError
  <2> HIDE DEF r, count
  <2>3. CASE /\ cnt' = r.cnt /\ flags' \in {r.flags, r.flags \cup {"estop"}}
             /\ mode' = "error" \/ (mode' \in {"run", "idle"} /\ ~r.error)
    BY <1>2, <1>3, <1>8, <2>3 DEF Modes, r, count
  <2>4. CASE ~r.error /\ Halting(r.cnt, r.flags, bad, moving, FALSE)
    <3> DEFINE e == check_error(r.cnt, r.flags, bad)
    <3>1. r.cnt["damp"] \in Nat /\ r.cnt["switch"] = count["switch"]
      BY <1>2, <1>3
    <3>2. /\ mode' \in {"halt", "error"} /\ cnt' \in [Counters -> Nat]
          /\ cnt'["switch"] = count["switch"]
          /\ \A c \in Filtered : cnt'[c] = e.cnt[c] /\ (c \in flags' => c \in e.flags)
      BY <1>2, <1>5, <2>4, <3>1
    <3>3. e = Again(bad)
      BY DEF Again, r
    <3> HIDE DEF e
    <3>4. Halts(bad)
      BY <1>8, <2>4, <3>2 DEF Halts, r
    <3> QED
      BY <1>8, <3>2, <3>3, <3>4 DEF Modes, count
  <2> QED
    BY <2>2, <2>3, <2>4
<1>9. CASE mode = "halt" /\ HandleHalt(count, flag, bad, moving)
  <2>1. r = check_error(count, flag, bad)
    BY <1>1, <1>9 DEF Checkup
  <2>2. PICK estopped \in BOOLEAN : Halting(count, flag, bad, moving, estopped)
    BY <1>9 DEF HandleHalt
  <2>3. count["damp"] \in Nat
    BY <1>1, <1>3
  <2>4. /\ mode' \in {"halt", "error"} /\ cnt' \in [Counters -> Nat]
        /\ cnt'["switch"] = count["switch"]
        /\ \A c \in Filtered : cnt'[c] = r.cnt[c] /\ (c \in flags' => c \in r.flags)
    BY <1>1, <1>5, <2>1, <2>2, <2>3
  <2> HIDE DEF r, count
  <2> QED
    BY <1>9, <2>4 DEF Modes, r, count
<1>10. CASE mode = "error" /\ HandleError(count, flag)
  <2> HIDE DEF count, flag
  <2>1. mode' \in {"error", "reset"} /\ cnt' = count /\ flags' = flag \cup {"estop"}
    BY <1>10 DEF HandleError
  <2> QED
    BY <1>1, <1>3, <1>10, <2>1 DEF Modes, count, flag
<1>11. CASE mode = "reset" /\ HandleReset(count)
  <2> HIDE DEF count, flag
  <2>1. mode' = "idle" /\ cnt' = reset_error(count) /\ flags' = {}
    BY <1>11 DEF HandleReset
  <2> QED
    BY <1>3, <1>4, <1>11, <2>1 DEF Modes, count
<1> QED
  BY <1>6, <1>7, <1>8, <1>9, <1>10, <1>11 DEF Cycle

(* What the properties' own counters make of a cycle.                      *)
Hits(c, bad) == c \in bad /\ (c = "switch" => variant = "hip")

(* What the history counts.                                                *)
LEMMA SeeFacts ==
  ASSUME FaultTypes, NEW bad, NEW moving, See(bad, moving)
  PROVE  /\ watched'.bad \in [Counters -> Nat] /\ watched'.streak \in [Counters -> Nat]
         /\ watched'.held \in Nat /\ watched'.twice \in 0 .. 1
         /\ watched'.twice = IF mode = "init" THEN 0 ELSE IF Halts(bad) THEN 1 ELSE watched.twice
         /\ \A c \in Filtered :
              /\ mode # "init" => /\ watched.bad[c] <= watched'.bad[c]
                                  /\ Full(watched.bad[c]) => Full(watched'.bad[c])
              /\ c \in bad =>
                   IF mode = "init" THEN watched'.bad[c] = 1
                   ELSE watched'.bad[c] = watched.bad[c] + 1 \/ Full(watched'.bad[c])
         /\ \A c \in Counters :
              /\ watched'.streak[c] <= watched.streak[c] + 1
              /\ ~(Hits(c, bad) /\ mode = "run") => watched'.streak[c] = 0
         /\ watched'.held = IF "switch" \in bad THEN Cap(watched.held) ELSE 0
         /\ watched'.wrapped = ("switch" \in bad
                                /\ (watched.wrapped \/ InputCounts(bad).switch = 0))
<1> DEFINE hit(c) == c \in bad /\ (c = "switch" => variant = "hip")
           bad2 == [c \in Counters |-> IF mode = "init" THEN IF hit(c) THEN 1 ELSE 0
                                       ELSE IF hit(c) THEN Cap(watched.bad[c]) ELSE watched.bad[c]]
           streak2 == [c \in Counters |-> IF hit(c) /\ mode = "run" THEN Cap(watched.streak[c]) ELSE 0]
<1>1. /\ watched'.bad = bad2 /\ watched'.streak = streak2
      /\ watched'.held = IF "switch" \in bad THEN Cap(watched.held) ELSE 0
      /\ watched'.wrapped = ("switch" \in bad
                             /\ (watched.wrapped \/ InputCounts(bad).switch = 0))
      /\ watched'.twice = IF mode = "init" THEN 0 ELSE IF Halts(bad) THEN 1 ELSE watched.twice
  BY DEF See, Halts, Checkup, Given, Shown
<1>2. \A c \in Counters : /\ watched.bad[c] \in Nat /\ Cap(watched.bad[c]) \in Nat
                          /\ watched.bad[c] <= Cap(watched.bad[c])
                          /\ Cap(watched.bad[c]) = watched.bad[c] + 1 \/ Full(watched.bad[c])
                          /\ watched.streak[c] \in Nat /\ Cap(watched.streak[c]) \in Nat
                          /\ Cap(watched.streak[c]) <= watched.streak[c] + 1
  BY CapFacts DEF FaultTypes
<1>3. /\ bad2 \in [Counters -> Nat] /\ streak2 \in [Counters -> Nat]
      /\ watched'.held \in Nat /\ watched'.twice \in 0 .. 1
  <2>1. Cap(watched.held) \in Nat /\ watched.twice \in 0 .. 1
    BY CapFacts DEF FaultTypes
  <2> QED
    BY <1>1, <1>2, <2>1
<1>4. ASSUME NEW c \in Filtered
      PROVE  /\ mode # "init" => /\ watched.bad[c] <= bad2[c]
                                 /\ Full(watched.bad[c]) => Full(bad2[c])
             /\ c \in bad => IF mode = "init" THEN bad2[c] = 1
                             ELSE bad2[c] = watched.bad[c] + 1 \/ Full(bad2[c])
  <2>1. c \in Counters /\ c # "switch"
    BY DEF Filtered, Counters
  <2>2. bad2[c] = IF mode = "init" THEN IF c \in bad THEN 1 ELSE 0
                  ELSE IF c \in bad THEN Cap(watched.bad[c]) ELSE watched.bad[c]
    BY <2>1
  <2>3. ASSUME NEW m \in Nat, NEW k \in Nat, k <= m, Full(k) PROVE Full(m)
    BY <2>3, LimitTypes DEF Full
  <2> HIDE DEF bad2
  <2>4. mode # "init" => watched.bad[c] <= bad2[c] /\ bad2[c] \in Nat
    BY <1>2, <2>1, <2>2
  <2>5. mode # "init" => (Full(watched.bad[c]) => Full(bad2[c]))
    BY <1>2, <2>1, <2>3, <2>4
  <2> QED
    BY <1>2, <2>1, <2>2, <2>4, <2>5
<1>5. ASSUME NEW c \in Counters
      PROVE  /\ streak2[c] <= watched.streak[c] + 1
             /\ ~(Hits(c, bad) /\ mode = "run") => streak2[c] = 0
  <2>1. streak2[c] = IF Hits(c, bad) /\ mode = "run" THEN Cap(watched.streak[c]) ELSE 0
    BY DEF Hits
  <2> HIDE DEF streak2
  <2> QED
    BY <1>2, <2>1
<1> HIDE DEF bad2, streak2
<1> QED
  BY <1>1, <1>3, <1>4, <1>5

(* Every cycle preserves the invariant of the filters.                     *)
LEMMA FaultStep ==
  ASSUME FaultInv, NEW bad \in SUBSET sources,
         NEW moving \in BOOLEAN, moving => variant = "leg", Cycle(bad, moving)
  PROVE  FaultInv'
<1> DEFINE n == Given(bad)
           r == Checkup(bad)
           e == Again(bad)
           total == watched'.bad
<1> USE DEF FaultInv
<1>0. See(bad, moving) /\ UNCHANGED <<variant, aspect, sources, checks>>
      /\ frame' = [mode |-> mode, flags |-> InputFlags(bad)]
  BY DEF Cycle
<1>1. FaultTypes'
  <2>1. cnt'["switch"] = InputCounts(bad)["switch"] /\ cnt' \in [Counters -> Nat]
        /\ mode' \in Modes
    BY BoardCycleFacts
  <2>3. InputCounts(bad)["switch"] \in 0 .. ByteModulus - 1
    BY InputFacts
  <2>2. sources' \in Faults'
    BY <1>0 DEF FaultTypes, Faults
  <2> QED
    BY <1>0, <2>1, <2>2, <2>3, SeeFacts DEF FaultTypes
<1>2. /\ variant \in Variants /\ n \in [Counters -> Nat]
      /\ r = check_error(n, Shown(bad), bad)
  BY GivenFacts DEF FaultTypes, Checkup
<1>3. /\ r.cnt \in [Counters -> Nat]
      /\ \A c \in Filtered : r.cnt[c] \in {n[c], Filter(n[c], c \in bad)}
      /\ \A c \in Counters \ Filtered : r.cnt[c] = n[c]
  BY <1>2, CheckCounts
<1>4. /\ \A c \in Filtered : c \in r.flags => c \in Shown(bad) \/ r.cnt[c] > Limit(c)
      /\ ~r.error =>
           /\ variant = "leg" /\ "encoder" \in checks => \A c \in Encoders : n[c] <= EncLimit
           /\ variant = "leg" /\ "switch" \in checks => n["switch"] <= SwitchLimit
           /\ variant = "hip" /\ "switch" \in checks => "switch" \notin bad
           /\ \A c \in Filtered \cap checks : Trips(c) =>
                r.cnt[c] = Filter(n[c], c \in bad) /\ r.cnt[c] <= Limit(c)
  BY <1>2, CheckFinds
<1>11. /\ \A c \in Filtered : e.cnt[c] \in {r.cnt[c], Filter(r.cnt[c], c \in bad)}
       /\ \A c \in Filtered : c \in e.flags => c \in r.flags \/ e.cnt[c] > Limit(c)
  <2>1. e = check_error(r.cnt, r.flags, bad)
    BY DEF Again
  <2> HIDE DEF e, r
  <2> QED
    BY <1>2, <1>3, <2>1, CheckCounts, CheckFinds
<1> HIDE DEF n, r, e
<1>12. /\ watched'.twice = IF mode = "init" THEN 0 ELSE IF Halts(bad) THEN 1 ELSE watched.twice
       /\ watched.twice \in 0 .. 1 /\ watched'.twice \in 0 .. 1
       /\ Halts(bad) => mode = "run" /\ watched.twice = 0
  BY <1>0, SeeFacts DEF FaultTypes, CountInv, Halts
<1>5. ASSUME NEW c \in Filtered
      PROVE  /\ cnt'[c] <= total[c] + watched'.twice \/ Full(total[c])
             /\ r.cnt[c] <= total[c] + watched'.twice \/ Full(total[c])
  <2>1. c \in Counters /\ Limit(c) \in Nat
    BY LimitTypes DEF Filtered, Counters, Limit
  <2>2. /\ n[c] \in Nat /\ n[c] <= cnt[c] /\ cnt[c] \in Nat /\ watched.bad[c] \in Nat
        /\ total[c] \in Nat /\ r.cnt[c] \in Nat
        /\ mode = "init" => n[c] = 0
    BY <1>1, <1>2, <1>3, <2>1, GivenFacts DEF FaultTypes, n
  <2>3. \A k \in Nat : Down(k) \in Nat /\ Down(k) <= k
    BY DEF Down
  <2>4. r.cnt[c] <= n[c] \/ (r.cnt[c] = n[c] + 1 /\ c \in bad)
    BY <1>3, <2>2, <2>3 DEF Filter
  <2>5. /\ e.cnt[c] \in Nat
        /\ e.cnt[c] <= r.cnt[c] \/ (e.cnt[c] = r.cnt[c] + 1 /\ c \in bad)
    BY <1>11, <2>2, <2>3 DEF Filter
  <2>6. /\ mode # "init" => /\ watched.bad[c] <= total[c]
                            /\ Full(watched.bad[c]) => Full(total[c])
        /\ c \in bad => IF mode = "init" THEN total[c] = 1
                        ELSE total[c] = watched.bad[c] + 1 \/ Full(total[c])
    BY <1>0, SeeFacts
  <2>7. cnt[c] <= watched.bad[c] + watched.twice \/ Full(watched.bad[c])
    BY DEF CountInv
  <2>8. \/ cnt'[c] \in {n[c], r.cnt[c], 0}
        \/ Halts(bad) /\ cnt'[c] = e.cnt[c]
    BY BoardCycleFacts DEF n, r, e
  <2> HIDE DEF total
  <2>9. CASE mode = "init"
    <3>1. r.cnt[c] <= total[c] /\ n[c] <= total[c] /\ watched'.twice = 0 /\ ~Halts(bad)
      BY <1>12, <2>2, <2>4, <2>6, <2>9 DEF Halts
    <3> QED
      BY <2>2, <2>8, <3>1
  <2>10. CASE mode # "init"
    <3>1. CASE Full(total[c])
      BY <3>1
    <3>2. CASE ~Full(total[c])
      <4>1. n[c] <= watched.bad[c] + watched.twice /\ watched.bad[c] <= total[c]
        BY <1>12, <2>2, <2>6, <2>7, <2>10, <3>2
      <4>2. c \in bad => total[c] = watched.bad[c] + 1
        BY <2>6, <2>10, <3>2
      <4>3. r.cnt[c] <= total[c] + watched.twice /\ n[c] <= total[c] + watched.twice
        BY <1>12, <2>2, <2>4, <4>1, <4>2
      <4>4. Halts(bad) => e.cnt[c] <= total[c] + 1 /\ watched'.twice = 1
        BY <1>12, <2>2, <2>4, <2>5, <2>10, <4>1, <4>2
      <4>5. watched.twice <= watched'.twice
        BY <1>12, <2>10
      <4> QED
        BY <1>12, <2>2, <2>5, <2>8, <4>3, <4>4, <4>5
    <3> QED
      BY <3>1, <3>2
  <2> QED
    BY <2>9, <2>10
<1>6. ASSUME NEW c \in Filtered, c \in flags'
      PROVE  total[c] + watched'.twice > Limit(c)
  <2>1. c \in Counters /\ Limit(c) \in {ThermLimit, VoltLimit} /\ Limit(c) \in Nat
    BY LimitTypes DEF Filtered, Counters, Limit
  <2>2. total[c] \in Nat /\ cnt'[c] \in Nat /\ watched.bad[c] \in Nat /\ r.cnt[c] \in Nat
    BY <1>1, <1>3, <2>1 DEF FaultTypes
  <2>3. Full(total[c]) => total[c] > Limit(c)
    BY <2>1 DEF Full
  <2>4. CASE c \in Shown(bad)
    <3>1. mode # "init" /\ c \in flags
      BY <2>4, InputFacts, BadReadings DEF Shown
    <3>2. watched.bad[c] + watched.twice > Limit(c)
      BY <3>1 DEF CountInv, FaultsAreFresh, Filtered
    <3>3. watched.bad[c] <= total[c] /\ watched.twice <= watched'.twice
      BY <1>0, <1>12, <3>1, SeeFacts
    <3> HIDE DEF total
    <3> QED
      BY <1>12, <2>1, <2>2, <3>2, <3>3
  <2>5. CASE c \notin Shown(bad)
    <3>1. \/ c \in r.flags
          \/ c \in e.flags /\ cnt'[c] = e.cnt[c]
      BY <1>6, <2>5, BoardCycleFacts DEF r, e
    <3>2. r.cnt[c] > Limit(c) \/ cnt'[c] > Limit(c)
      BY <1>4, <1>11, <2>5, <3>1
    <3>3. /\ cnt'[c] <= total[c] + watched'.twice \/ Full(total[c])
          /\ r.cnt[c] <= total[c] + watched'.twice \/ Full(total[c])
      BY <1>5
    <3> HIDE DEF total
    <3> QED
      BY <1>12, <2>1, <2>2, <2>3, <3>2, <3>3
  <2> QED
    BY <2>4, <2>5
<1>7. CountInv'
  <2>1. mode' = "run" => watched'.twice = 0
    BY <1>12, BoardCycleFacts DEF CountInv, Halts
  <2> QED
    BY <1>5, <1>6, <2>1 DEF CountInv, FaultsAreFresh, Filtered
<1>8. RunInv'
  <2> SUFFICES ASSUME mode' = "run" PROVE RunInv'
    BY DEF RunInv
  <2>1. mode \in {"init", "run"} /\ ~r.error /\ cnt' = r.cnt
    BY BoardCycleFacts DEF r
  <2>2. ASSUME NEW c \in Filtered \cap checks
        PROVE  /\ watched'.streak[c] <= Limit(c)
               /\ Trips(c) => watched'.streak[c] <= cnt'[c]
    <3>1. c \in Counters /\ Limit(c) \in Nat /\ c # "switch"
      BY LimitTypes DEF Filtered, Counters, Limit
    <3>2. /\ watched.streak[c] \in Nat /\ watched'.streak[c] \in Nat
          /\ n[c] \in Nat /\ cnt'[c] \in Nat
      BY <1>1, <1>2, <3>1 DEF FaultTypes
    <3>3. CASE c \in bad /\ mode = "run"
      <4>1. Trips(c)
        BY <3>3, BadReadings
      <4>2. n[c] = cnt[c] /\ watched.streak[c] <= cnt[c]
        BY <3>3, <4>1, GivenFacts, InputFacts DEF RunInv, n
      <4>3. cnt'[c] = n[c] + 1 /\ cnt'[c] <= Limit(c)
        BY <1>4, <2>1, <3>3, <4>1 DEF Filter
      <4>4. watched'.streak[c] <= watched.streak[c] + 1
        BY <1>0, <3>1, SeeFacts
      <4> QED
        BY <3>1, <3>2, <4>2, <4>3, <4>4
    <3>4. CASE ~(c \in bad /\ mode = "run")
      <4>1. watched'.streak[c] = 0
        BY <1>0, <3>1, <3>4, SeeFacts DEF Hits
      <4> QED
        BY <3>1, <3>2, <4>1
    <3> QED
      BY <3>3, <3>4
  <2>3. ASSUME NEW c \in Encoders, "encoder" \in checks
        PROVE  /\ watched'.streak[c] <= EncLimit
               /\ variant = "leg" => watched'.streak[c] <= cnt'[c] /\ cnt'[c] <= EncLimit
    <3>1. c \in Counters \ Filtered /\ c # "switch" /\ EncLimit \in Nat
          /\ ByteModulus \in Nat /\ EncLimit < ByteModulus - 1
      BY LimitTypes DEF Encoders, Filtered, Counters
    <3>2. /\ watched.streak[c] \in Nat /\ watched'.streak[c] \in Nat
          /\ n[c] \in Nat /\ cnt'[c] \in Nat /\ cnt[c] \in Nat
      BY <1>1, <1>2, <3>1 DEF FaultTypes
    <3>3. cnt'[c] = n[c] /\ (variant = "leg" => n[c] <= EncLimit)
      BY <1>3, <1>4, <2>1, <2>3, <3>1
    <3>4. CASE c \in bad /\ mode = "run"
      <4>1. variant = "leg"
        BY <3>4, BadReadings
      <4>2. watched.streak[c] <= cnt[c] /\ cnt[c] <= EncLimit
        BY <2>3, <3>4, <4>1 DEF RunInv
      <4>3. n[c] = Up(cnt[c], ByteModulus)
        BY <3>4, GivenFacts, InputFacts DEF n
      <4>4. n[c] = cnt[c] + 1
        BY <3>1, <3>2, <4>2, <4>3 DEF Up
      <4>5. watched'.streak[c] <= watched.streak[c] + 1
        BY <1>0, <3>1, SeeFacts
      <4> QED
        BY <3>1, <3>2, <3>3, <4>1, <4>2, <4>4, <4>5
    <3>5. CASE ~(c \in bad /\ mode = "run")
      <4>1. watched'.streak[c] = 0
        BY <1>0, <3>1, <3>5, SeeFacts DEF Hits
      <4> QED
        BY <3>1, <3>2, <3>3, <4>1
    <3> QED
      BY <3>4, <3>5
  <2>4. "switch" \in checks /\ variant = "hip" => watched'.streak["switch"] = 0
    <3>1. "switch" \in Counters
      BY DEF Counters
    <3> QED
      BY <1>0, <1>4, <2>1, <3>1, SeeFacts DEF Hits
  <2> QED
    BY <1>0, <2>2, <2>3, <2>4 DEF RunInv, Trips, Limit
<1>9. HeldInv'
  <2> SUFFICES ASSUME variant = "leg"
               PROVE  /\ ~watched'.wrapped => watched'.held <= cnt'["switch"]
                      /\ mode' = "run" /\ "switch" \in checks => cnt'["switch"] <= SwitchLimit
    BY <1>0 DEF HeldInv
  <2> DEFINE k  == cnt["switch"]
             k2 == InputCounts(bad)["switch"]
  <2>1. /\ cnt'["switch"] = k2 /\ k2 = SwitchFilter(k, "switch" \in bad) /\ k2 = n["switch"]
        /\ k \in 0 .. ByteModulus - 1 /\ ByteModulus \in Nat
    BY BoardCycleFacts, InputFacts, GivenFacts, LimitTypes DEF FaultTypes, n
  <2>2. mode' = "run" /\ "switch" \in checks => k2 <= SwitchLimit
    BY <1>4, <2>1, BoardCycleFacts DEF r
  <2>3. /\ watched'.held = IF "switch" \in bad THEN Cap(watched.held) ELSE 0
        /\ watched'.wrapped = ("switch" \in bad /\ (watched.wrapped \/ k2 = 0))
    BY <1>0, SeeFacts
  <2>4. Cap(watched.held) \in Nat /\ Cap(watched.held) <= watched.held + 1 /\ watched.held \in Nat
    BY CapFacts DEF FaultTypes
  <2>5. ~watched.wrapped => watched.held <= k
    BY DEF HeldInv
  <2> HIDE DEF k, k2
  <2>6. CASE "switch" \in bad /\ ~watched'.wrapped
    <3>1. k2 = Up(k, ByteModulus) /\ k2 # 0 /\ ~watched.wrapped
      BY <2>1, <2>3, <2>6 DEF SwitchFilter
    <3>2. k2 = k + 1
      BY <2>1, <3>1 DEF Up
    <3> QED
      BY <2>1, <2>2, <2>3, <2>4, <2>5, <2>6, <3>1, <3>2
  <2>7. CASE "switch" \notin bad
    <3>1. k2 >= 0
      BY <2>1, <2>7 DEF SwitchFilter, Down
    <3> QED
      BY <2>1, <2>2, <2>3, <2>7, <3>1
  <2> QED
    BY <2>1, <2>2, <2>6, <2>7
<1> QED
  BY <1>1, <1>7, <1>8, <1>9

----------------------------------------------------------------------------
(* The thermistors.  A channel's level never falls further than a step     *)
(* below its voltage.  The samples it still needs are known: so many after *)
(* a reset it has settled on its voltage, and stays there.                 *)
Here(c) == IF c < therm.num THEN 1 ELSE 0

Need(c) == IF therm.values[c] >= therm.real[c]
           THEN therm.values[c] - therm.real[c] + 1 ELSE 2

Settled(c) ==
  /\ therm.pdo[c] = Reading[therm.real[c]]
  /\ therm.values[c] \in {therm.real[c], Down(therm.real[c])}

Creeping(c) ==
  watched.sampled <= (MaxLevel + 2 - Need(c) - Here(c)) * Channels + therm.num

ThermTypes ==
  /\ DOMAIN therm = {"real", "num", "values", "pdo"}
  /\ therm.num \in 0 .. Channels - 1
  /\ therm.real \in [0 .. Channels - 1 -> 0 .. MaxLevel]
  /\ therm.values \in [0 .. Channels - 1 -> 0 .. MaxLevel]
  /\ therm.pdo \in [0 .. Channels - 1 -> Nat]
  /\ watched.sampled \in 0 .. SettleTime

ThermInv ==
  /\ ThermTypes
  /\ aspect # "thermistors" => watched.sampled = 0
  /\ aspect = "thermistors" =>
       \A c \in 0 .. Channels - 1 :
         therm.values[c] >= Down(therm.real[c]) /\ (Settled(c) \/ Creeping(c))

(* The channels' turns, counted.                                           *)
LEMMA Times ==
  /\ SettleTime \in Nat
  /\ \A x \in Int : x * Channels \in Int /\ (x + 1) * Channels = x * Channels + Channels
  /\ \A x \in Int : x <= MaxLevel => x * Channels <= MaxLevel * Channels
  /\ SettleTime = MaxLevel * Channels + 2 * Channels
<1>1. Channels \in Nat \ {0} /\ MaxLevel \in Nat
  BY LimitTypes
<1>2. \A x \in Int : x * Channels \in Int /\ (x + 1) * Channels = x * Channels + Channels
  BY <1>1
<1>3. SettleTime = MaxLevel * Channels + 2 * Channels /\ SettleTime \in Nat
  <2>1. Channels * (MaxLevel + 2) = MaxLevel * Channels + 2 * Channels
    BY <1>1
  <2>2. MaxLevel * Channels \in Nat
    BY <1>1
  <2> QED
    BY <1>1, <2>1, <2>2 DEF SettleTime
<1>4. ASSUME NEW x \in Int, x <= MaxLevel PROVE x * Channels <= MaxLevel * Channels
  <2>1. (MaxLevel - x) * Channels >= 0
    BY <1>1, <1>4
  <2>2. (MaxLevel - x) * Channels = MaxLevel * Channels - x * Channels
    BY <1>1
  <2>3. MaxLevel * Channels \in Int /\ x * Channels \in Int
    BY <1>1
  <2> QED
    BY <2>1, <2>2, <2>3
<1> QED
  BY <1>2, <1>3, <1>4

(* The next channel.                                                       *)
LEMMA Turns ==
  ASSUME NEW k \in 0 .. Channels - 1
  PROVE  (k + 1) % Channels = IF k < Channels - 1 THEN k + 1 ELSE 0
<1>1. Channels \in Nat \ {0}
  BY LimitTypes
<1>2. CASE k < Channels - 1
  BY <1>1, <1>2
<1>3. CASE k = Channels - 1
  BY <1>1, <1>3
<1> QED
  BY <1>1, <1>2, <1>3

(* The samples before a channel settles, whatever it still needs.          *)
LEMMA Room ==
  ASSUME NEW need \in 1 .. MaxLevel + 1, NEW here \in 0 .. 1, NEW num \in 0 .. Channels - 1
  PROVE  /\ (MaxLevel + 2 - need - here) * Channels + num \in Nat
         /\ (MaxLevel + 2 - need - here) * Channels + num < SettleTime
<1> DEFINE x == MaxLevel + 2 - need - here
<1>1. Channels \in Nat \ {0} /\ MaxLevel \in Nat \ {0}
  BY BoardConstants
<1>2. x \in Int /\ x <= MaxLevel + 1 /\ x >= 0
  BY <1>1
<1> HIDE DEF x
<1>3. (x - 1) * Channels <= MaxLevel * Channels /\ (x - 1) * Channels \in Int
  BY <1>1, <1>2, Times
<1>4. ((x - 1) + 1) * Channels = (x - 1) * Channels + Channels /\ (x - 1) + 1 = x
  BY <1>2, Times
<1>5. MaxLevel * Channels \in Int /\ x * Channels \in Int
  BY <1>1, <1>2
<1>6. x * Channels >= 0
  BY <1>1, <1>2
<1>7. x * Channels + num \in Nat /\ x * Channels + num < SettleTime
  BY <1>1, <1>3, <1>4, <1>5, <1>6, Times
<1> QED
  BY <1>7 DEF x

(* A channel that still creeps has not been sampled for long, and one that *)
(* begins to has been given the time it needs.                             *)
LEMMA CreepsShort ==
  ASSUME ThermTypes, NEW c \in 0 .. Channels - 1
  PROVE  /\ Creeping(c) => watched.sampled < SettleTime
         /\ watched.sampled = 0 => Creeping(c)
<1>0. SettleTime \in Nat
  BY Times
<1>1. /\ therm.values[c] \in 0 .. MaxLevel /\ therm.real[c] \in 0 .. MaxLevel
      /\ therm.num \in 0 .. Channels - 1 /\ watched.sampled \in Nat
  <2>1. watched.sampled \in 0 .. SettleTime
    BY DEF ThermTypes
  <2>2. watched.sampled \in Nat
    BY <1>0, <2>1
  <2>3. /\ therm.num \in 0 .. Channels - 1
        /\ therm.real \in [0 .. Channels - 1 -> 0 .. MaxLevel]
        /\ therm.values \in [0 .. Channels - 1 -> 0 .. MaxLevel]
    BY DEF ThermTypes
  <2> QED
    BY <2>2, <2>3
<1>2. Need(c) \in 1 .. MaxLevel + 1 /\ Here(c) \in 0 .. 1
  <2>1. MaxLevel \in Nat \ {0} /\ Channels \in Nat
    BY BoardConstants
  <2> QED
    BY <1>1, <2>1 DEF Here, Need
<1>3. /\ (MaxLevel + 2 - Need(c) - Here(c)) * Channels + therm.num \in Nat
      /\ (MaxLevel + 2 - Need(c) - Here(c)) * Channels + therm.num < SettleTime
  BY <1>1, <1>2, Room
<1> DEFINE y == (MaxLevel + 2 - Need(c) - Here(c)) * Channels + therm.num
<1>4. Creeping(c) <=> watched.sampled <= y
  BY DEF Creeping
<1>5. y \in Nat /\ y < SettleTime /\ SettleTime \in Nat
  BY <1>3, Times
<1> HIDE DEF y
<1> QED
  BY <1>1, <1>4, <1>5

(* One entry of a function changed.                                        *)
LEMMA OneChanged ==
  ASSUME NEW T, NEW f \in [0 .. Channels - 1 -> T], NEW i \in 0 .. Channels - 1,
         NEW x \in T, NEW g, g = [f EXCEPT ![i] = x]
  PROVE  /\ g \in [0 .. Channels - 1 -> T] /\ g[i] = x
         /\ \A c \in 0 .. Channels - 1 : c # i => g[c] = f[c]
OBVIOUS

(* A sample: of the channel whose turn it is.                              *)
LEMMA SampleFacts ==
  ASSUME ThermTypes, NEW t, t = ThermistorStep
  PROVE  /\ DOMAIN t = {"real", "num", "values", "pdo"}
         /\ t.num = (therm.num + 1) % Channels /\ t.real = therm.real
         /\ t.values \in [0 .. Channels - 1 -> 0 .. MaxLevel]
         /\ t.pdo \in [0 .. Channels - 1 -> Nat]
         /\ \A c \in 0 .. Channels - 1 : c # therm.num =>
              t.values[c] = therm.values[c] /\ t.pdo[c] = therm.pdo[c]
         /\ LET v == therm.values[therm.num]
                p == therm.real[therm.num]
            IN  IF v >= p
                THEN t.pdo[therm.num] = Reading[v] /\ t.values[therm.num] = Down(v)
                ELSE /\ t.pdo[therm.num] = therm.pdo[therm.num]
                     /\ t.values[therm.num] = IF v < MaxLevel THEN v + 1 ELSE v
<1> DEFINE num == therm.num
           high == therm.values[num] >= therm.real[num]
           v2 == IF high THEN Down(therm.values[num])
                 ELSE IF therm.values[num] < MaxLevel THEN therm.values[num] + 1
                 ELSE therm.values[num]
           p2 == IF high THEN Reading[therm.values[num]] ELSE therm.pdo[num]
<1>1. t = [therm EXCEPT !.num = (num + 1) % Channels,
                        !.pdo = [therm.pdo EXCEPT ![num] = p2],
                        !.values = [therm.values EXCEPT ![num] = v2]]
  BY DEF ThermistorStep, ThermTypes
<1> HIDE DEF v2, p2
<1>2. /\ DOMAIN t = {"real", "num", "values", "pdo"}
      /\ t.num = (num + 1) % Channels /\ t.real = therm.real
      /\ t.pdo = [therm.pdo EXCEPT ![num] = p2]
      /\ t.values = [therm.values EXCEPT ![num] = v2]
  BY <1>1 DEF ThermTypes
<1>3. /\ num \in 0 .. Channels - 1
      /\ therm.values \in [0 .. Channels - 1 -> 0 .. MaxLevel]
      /\ therm.pdo \in [0 .. Channels - 1 -> Nat]
      /\ v2 \in 0 .. MaxLevel /\ p2 \in Nat
  <2>1. therm.values[num] \in 0 .. MaxLevel /\ therm.pdo[num] \in Nat /\ MaxLevel \in Nat
    BY LimitTypes DEF ThermTypes
  <2>2. Reading[therm.values[num]] \in Nat
    BY <2>1, BoardConstants
  <2> QED
    BY <2>1, <2>2 DEF ThermTypes, v2, p2, Down
<1>4. /\ t.values \in [0 .. Channels - 1 -> 0 .. MaxLevel]
      /\ t.pdo \in [0 .. Channels - 1 -> Nat]
      /\ \A c \in 0 .. Channels - 1 : c # num =>
           t.values[c] = therm.values[c] /\ t.pdo[c] = therm.pdo[c]
      /\ t.values[num] = v2 /\ t.pdo[num] = p2
  <2> HIDE DEF num
  <2>1. /\ t.values \in [0 .. Channels - 1 -> 0 .. MaxLevel] /\ t.values[num] = v2
        /\ \A c \in 0 .. Channels - 1 : c # num => t.values[c] = therm.values[c]
    <3> DEFINE f == therm.values
               g == t.values
               T == 0 .. MaxLevel
    <3>1. /\ f \in [0 .. Channels - 1 -> T] /\ num \in 0 .. Channels - 1
          /\ v2 \in T /\ g = [f EXCEPT ![num] = v2]
      BY <1>2, <1>3
    <3> HIDE DEF f, g, T
    <3>2. /\ g \in [0 .. Channels - 1 -> T] /\ g[num] = v2
          /\ \A c \in 0 .. Channels - 1 : c # num => g[c] = f[c]
      BY <3>1, OneChanged, ZenonT(30)
    <3> QED
      BY <3>2 DEF f, g, T
  <2>2. /\ t.pdo \in [0 .. Channels - 1 -> Nat] /\ t.pdo[num] = p2
        /\ \A c \in 0 .. Channels - 1 : c # num => t.pdo[c] = therm.pdo[c]
    <3> DEFINE f == therm.pdo
               g == t.pdo
    <3>1. /\ f \in [0 .. Channels - 1 -> Nat] /\ num \in 0 .. Channels - 1
          /\ p2 \in Nat /\ g = [f EXCEPT ![num] = p2]
      BY <1>2, <1>3
    <3> HIDE DEF f, g
    <3>2. /\ g \in [0 .. Channels - 1 -> Nat] /\ g[num] = p2
          /\ \A c \in 0 .. Channels - 1 : c # num => g[c] = f[c]
      BY <3>1, OneChanged, ZenonT(30)
    <3> QED
      BY <3>2 DEF f, g
  <2> QED
    BY <2>1, <2>2
<1> QED
  BY <1>2, <1>4 DEF v2, p2

(* A sample brings a channel no further than a step below its voltage,     *)
(* keeps one that has settled, and leaves one that creeps a sample less.   *)
LEMMA SampleCreeps ==
  ASSUME ThermTypes, NEW t, t = ThermistorStep, NEW c \in 0 .. Channels - 1,
         therm.values[c] >= Down(therm.real[c])
  PROVE  /\ t.values[c] >= Down(therm.real[c])
         /\ c # therm.num => t.values[c] = therm.values[c] /\ t.pdo[c] = therm.pdo[c]
         /\ Settled(c) => /\ t.pdo[c] = Reading[therm.real[c]]
                          /\ t.values[c] \in {therm.real[c], Down(therm.real[c])}
         /\ c = therm.num =>
              \/ /\ t.pdo[c] = Reading[therm.real[c]]
                 /\ t.values[c] \in {therm.real[c], Down(therm.real[c])}
              \/ (IF t.values[c] >= therm.real[c] THEN t.values[c] - therm.real[c] + 1 ELSE 2)
                   = Need(c) - 1
<1> DEFINE v == therm.values[c]
           p == therm.real[c]
<1>1. /\ c # therm.num => t.values[c] = v /\ t.pdo[c] = therm.pdo[c]
      /\ c = therm.num =>
           IF v >= p THEN t.pdo[c] = Reading[v] /\ t.values[c] = Down(v)
           ELSE t.pdo[c] = therm.pdo[c] /\ t.values[c] = IF v < MaxLevel THEN v + 1 ELSE v
  BY SampleFacts
<1>2. v \in 0 .. MaxLevel /\ p \in 0 .. MaxLevel /\ v >= Down(p) /\ MaxLevel \in Nat
  BY LimitTypes DEF ThermTypes
<1>3. /\ Need(c) = IF v >= p THEN v - p + 1 ELSE 2
      /\ Settled(c) <=> therm.pdo[c] = Reading[p] /\ v \in {p, Down(p)}
  BY DEF Need, Settled
<1> HIDE DEF v, p
<1>4. CASE c # therm.num
  BY <1>1, <1>2, <1>3, <1>4 DEF v, p
<1>5. CASE c = therm.num /\ v = p
  <2>1. t.pdo[c] = Reading[p] /\ t.values[c] = Down(p)
    BY <1>1, <1>2, <1>5
  <2>2. Down(p) \in Nat
    BY <1>2 DEF Down
  <2> QED
    BY <1>5, <2>1, <2>2 DEF p
<1>6. CASE c = therm.num /\ v > p
  <2>1. t.pdo[c] = Reading[v] /\ t.values[c] = v - 1 /\ ~(v \in {p, Down(p)})
    BY <1>1, <1>2, <1>6 DEF Down
  <2>2. v - 1 >= p /\ v - 1 >= Down(p)
    BY <1>2, <1>6 DEF Down
  <2> QED
    BY <1>2, <1>3, <1>6, <2>1, <2>2 DEF p
<1>7. CASE c = therm.num /\ v < p
  <2>1. v = p - 1 /\ v < MaxLevel /\ ~(v >= p) /\ Down(p) = p - 1
    BY <1>2, <1>7 DEF Down
  <2>2. t.pdo[c] = therm.pdo[c] /\ t.values[c] = p
    BY <1>1, <1>2, <1>7, <2>1
  <2> QED
    BY <1>2, <1>3, <1>7, <2>1, <2>2 DEF p
<1> QED
  BY <1>2, <1>4, <1>5, <1>6, <1>7

(* A channel that has settled stays settled until a reset, one that creeps *)
(* may settle.                                                             *)
LEMMA ThermStep ==
  ASSUME ThermInv, NEW bad, NEW moving, Cycle(bad, moving)
  PROVE  ThermInv'
<1>1. /\ aspect' = aspect
      /\ therm' = IF aspect # "thermistors" THEN therm
                  ELSE IF Resetting THEN Cleared(ThermistorStep) ELSE ThermistorStep
      /\ watched'.sampled = IF Resetting THEN 0
                            ELSE IF aspect = "thermistors" /\ watched.sampled < SettleTime
                            THEN watched.sampled + 1 ELSE watched.sampled
  BY DEF Cycle, See
<1>2. Channels \in Nat \ {0} /\ MaxLevel \in Nat /\ SettleTime \in Nat
  BY LimitTypes, Times
<1>3. CASE aspect # "thermistors"
  <2>1. watched.sampled = 0 /\ watched'.sampled = 0
    BY <1>1, <1>3, <1>2 DEF ThermInv
  <2> QED
    BY <1>1, <1>2, <1>3, <2>1 DEF ThermInv, ThermTypes
<1>4. CASE aspect = "thermistors"
  <2> DEFINE num == therm.num
             s   == watched.sampled
             t   == ThermistorStep
  <2>1. ThermTypes
    BY DEF ThermInv
  <2>2. /\ DOMAIN t = {"real", "num", "values", "pdo"}
        /\ t.num = (num + 1) % Channels /\ t.real = therm.real
        /\ t.values \in [0 .. Channels - 1 -> 0 .. MaxLevel]
        /\ t.pdo \in [0 .. Channels - 1 -> Nat]
    BY <2>1, SampleFacts
  <2>3. \A c \in 0 .. Channels - 1 : therm.values[c] >= Down(therm.real[c])
    BY <1>4 DEF ThermInv
  <2>4. ASSUME NEW c \in 0 .. Channels - 1
        PROVE  /\ t.values[c] >= Down(therm.real[c])
               /\ c # num => t.values[c] = therm.values[c] /\ t.pdo[c] = therm.pdo[c]
               /\ Settled(c) => /\ t.pdo[c] = Reading[therm.real[c]]
                                /\ t.values[c] \in {therm.real[c], Down(therm.real[c])}
               /\ c = num =>
                    \/ /\ t.pdo[c] = Reading[therm.real[c]]
                       /\ t.values[c] \in {therm.real[c], Down(therm.real[c])}
                    \/ (IF t.values[c] >= therm.real[c]
                        THEN t.values[c] - therm.real[c] + 1 ELSE 2) = Need(c) - 1
    BY <2>1, <2>3, SampleCreeps
  <2>5. /\ DOMAIN therm' = {"real", "num", "values", "pdo"}
        /\ therm'.num = t.num /\ therm'.real = therm.real /\ therm'.values = t.values
        /\ therm'.pdo \in [0 .. Channels - 1 -> Nat]
        /\ ~Resetting => therm' = t
    <3> HIDE DEF t
    <3>1. CASE Resetting
      <4>1. therm' = [t EXCEPT !.pdo = [c \in 0 .. Channels - 1 |-> 0]]
        BY <1>1, <1>4, <3>1 DEF Cleared, t
      <4> QED
        BY <2>2, <3>1, <4>1
    <3>2. CASE ~Resetting
      BY <1>1, <1>4, <2>2, <3>2 DEF t
    <3> QED
      BY <3>1, <3>2
  <2> HIDE DEF t
  <2>6. num \in 0 .. Channels - 1 /\ s \in 0 .. SettleTime
    BY <2>1 DEF ThermTypes
  <2>7. \/ num < Channels - 1 /\ therm'.num = num + 1
        \/ num = Channels - 1 /\ therm'.num = 0
    <3>1. therm'.num = IF num < Channels - 1 THEN num + 1 ELSE 0
      BY <2>2, <2>5, <2>6, Turns
    <3> QED
      BY <1>2, <2>6, <3>1
  <2>8. ThermTypes'
    <3>1. watched'.sampled \in 0 .. SettleTime
      BY <1>1, <1>2, <2>6
    <3>2. therm'.num \in 0 .. Channels - 1
      BY <1>2, <2>6, <2>7
    <3> QED
      BY <2>1, <2>2, <2>5, <3>1, <3>2 DEF ThermTypes
  <2>9. CASE Resetting
    <3>1. watched'.sampled = 0
      BY <1>1, <2>9
    <3>2. \A c \in 0 .. Channels - 1 : Creeping(c)'
      <4> SUFFICES ASSUME NEW c \in 0 .. Channels - 1 PROVE Creeping(c)'
        OBVIOUS
      <4>1. /\ therm'.values[c] \in 0 .. MaxLevel /\ therm'.real[c] \in 0 .. MaxLevel
            /\ therm'.num \in 0 .. Channels - 1
        BY <2>8 DEF ThermTypes
      <4>2. Need(c)' \in 1 .. MaxLevel + 1 /\ Here(c)' \in 0 .. 1
        <5>1. MaxLevel \in Nat \ {0}
          BY BoardConstants
        <5> QED
          BY <1>2, <4>1, <5>1 DEF Here, Need
      <4> DEFINE y == (MaxLevel + 2 - Need(c)' - Here(c)') * Channels + therm'.num
      <4>3. y \in Nat
        BY <4>1, <4>2, Room
      <4>4. Creeping(c)' <=> 0 <= y
        BY <3>1 DEF Creeping
      <4> HIDE DEF y
      <4> QED
        BY <4>3, <4>4
    <3> QED
      BY <1>1, <1>4, <2>4, <2>5, <2>8, <3>2 DEF ThermInv
  <2>10. CASE ~Resetting
    <3>1. ASSUME NEW c \in 0 .. Channels - 1, Settled(c)
          PROVE  Settled(c)'
      BY <2>4, <2>5, <2>10, <3>1 DEF Settled
    <3>2. ASSUME NEW c \in 0 .. Channels - 1, Creeping(c)
          PROVE  Settled(c)' \/ Creeping(c)'
      <4>1. s < SettleTime /\ watched'.sampled = s + 1
        BY <1>1, <1>4, <2>1, <2>10, <3>2, CreepsShort
      <4> DEFINE x  == MaxLevel + 2 - Need(c) - Here(c)
                 x2 == MaxLevel + 2 - Need(c)' - Here(c)'
      <4>2. /\ s <= x * Channels + num
            /\ Creeping(c)' <=> s + 1 <= x2 * Channels + therm'.num
        BY <3>2, <4>1 DEF Creeping
      <4>3. /\ therm.values[c] \in 0 .. MaxLevel /\ therm.real[c] \in 0 .. MaxLevel
            /\ therm'.values[c] \in 0 .. MaxLevel /\ therm'.real[c] = therm.real[c]
        BY <2>1, <2>5, <2>8 DEF ThermTypes
      <4>4. /\ Need(c) \in Int /\ Need(c)' \in Int
            /\ c # num => Need(c)' = Need(c)
            /\ c = num => Settled(c)' \/ Need(c)' = Need(c) - 1
        <5>1. Need(c) \in Int /\ Need(c)' \in Int
          BY <1>2, <4>3 DEF Need
        <5>2. c # num => Need(c)' = Need(c)
          BY <2>4, <2>5 DEF Need
        <5>3. Need(c)' = IF t.values[c] >= therm.real[c]
                         THEN t.values[c] - therm.real[c] + 1 ELSE 2
          BY <2>5 DEF Need
        <5>4. c = num => Settled(c)' \/ Need(c)' = Need(c) - 1
          BY <2>4, <2>5, <2>10, <5>3 DEF Settled
        <5> QED
          BY <5>1, <5>2, <5>4
      <4>5. Here(c) = (IF c < num THEN 1 ELSE 0) /\ Here(c)' = (IF c < therm'.num THEN 1 ELSE 0)
        BY DEF Here
      <4> HIDE DEF num, s
      <4>6. \/ Settled(c)'
            \/ x2 = x /\ therm'.num = num + 1
            \/ x2 = x + 1 /\ num = Channels - 1 /\ therm'.num = 0
        BY <1>2, <2>6, <2>7, <4>4, <4>5
      <4>7. x \in Int
        BY <1>2, <4>4, <4>5
      <4>8. x * Channels \in Int /\ (x + 1) * Channels = x * Channels + Channels
        BY <4>7, Times
      <4> HIDE DEF x, x2
      <4> QED
        BY <1>2, <2>6, <4>2, <4>6, <4>8
    <3>3. \A c \in 0 .. Channels - 1 : Settled(c) \/ Creeping(c)
      BY <1>4 DEF ThermInv
    <3> QED
      BY <1>1, <1>4, <2>4, <2>5, <2>8, <3>1, <3>2, <3>3 DEF ThermInv
  <2> QED
    BY <2>9, <2>10
<1> QED
  BY <1>3, <1>4

(***************************************************************************)
(* The boards' faults (FaultsHandled), for any limits, widths of the       *)
(* counters and thermistors, and any of a board's checks switched on: a    *)
(* filtered fault is reported only on more bad readings than its limit     *)
(* since the last reset, no run goes on over more in a row, a leg does not *)
(* run on a switch that is held, an error says why, the thermistors'       *)
(* readings settle, and the IMU's data are this cycle's or flagged.        *)
(***************************************************************************)
THEOREM FaultsStop == BoardSpec => FaultsHandled
<1>1. BoardInit => FaultInv
  <2> SUFFICES ASSUME BoardInit PROVE FaultInv
    OBVIOUS
  <2>1. /\ variant \in Variants /\ sources \in Faults /\ mode = "idle" /\ cnt = NoCounts
        /\ flags = {} /\ watched.twice = 0
        /\ watched.bad = NoCounts /\ watched.streak = NoCounts /\ watched.held = 0
    BY DEF BoardInit
  <2>2. NoCounts \in [Counters -> Nat] /\ \A c \in Counters : NoCounts[c] = 0
    BY DEF NoCounts
  <2>3. "switch" \in Counters /\ Filtered \subseteq Counters
    BY DEF Counters, Filtered
  <2>4. FaultTypes
    BY <2>1, <2>2, <2>3, LimitTypes DEF FaultTypes, Modes
  <2>5. CountInv
    BY <2>1, <2>2, <2>3 DEF CountInv, FaultsAreFresh
  <2>6. RunInv /\ HeldInv
    BY <2>1, <2>2, <2>3 DEF RunInv, HeldInv
  <2> QED
    BY <2>4, <2>5, <2>6 DEF FaultInv
<1>2. FaultInv /\ [BoardNext]_bvars => FaultInv'
  <2> SUFFICES ASSUME FaultInv, [BoardNext]_bvars PROVE FaultInv'
    OBVIOUS
  <2>1. CASE BoardNext
    BY <2>1, FaultStep DEF BoardNext
  <2>2. CASE UNCHANGED bvars
    BY <2>2 DEF bvars, FaultInv, FaultTypes, CountInv, FaultsAreFresh, RunInv, HeldInv,
       Faults, Trips
  <2> QED
    BY <2>1, <2>2
<1>3. BoardInit => ThermInv
  <2> SUFFICES ASSUME BoardInit PROVE ThermInv
    OBVIOUS
  <2>1. PICK real \in [0 .. Channels - 1 -> 0 .. MaxLevel] :
          therm = [real |-> real, num |-> 0,
                   values |-> [c \in 0 .. Channels - 1 |-> MaxLevel],
                   pdo |-> [c \in 0 .. Channels - 1 |-> 0]]
    BY DEF BoardInit
  <2>2. watched.sampled = 0 /\ Channels \in Nat \ {0} /\ MaxLevel \in Nat
    BY LimitTypes DEF BoardInit
  <2>3. ThermTypes
    <3>1. /\ DOMAIN therm = {"real", "num", "values", "pdo"}
          /\ therm.real = real /\ therm.num = 0
          /\ therm.values = [c \in 0 .. Channels - 1 |-> MaxLevel]
          /\ therm.pdo = [c \in 0 .. Channels - 1 |-> 0]
      BY <2>1
    <3>2. 0 \in 0 .. MaxLevel /\ MaxLevel \in 0 .. MaxLevel /\ 0 \in 0 .. Channels - 1
          /\ 0 \in 0 .. SettleTime
      BY <2>2, Times
    <3> QED
      BY <2>2, <3>1, <3>2 DEF ThermTypes
  <2>4. ASSUME NEW c \in 0 .. Channels - 1
        PROVE  therm.values[c] >= Down(therm.real[c]) /\ Creeping(c)
    <3>1. therm.values[c] = MaxLevel /\ therm.real[c] \in 0 .. MaxLevel
      BY <2>1
    <3> QED
      BY <2>2, <2>3, <3>1, CreepsShort DEF Down
  <2> QED
    BY <2>2, <2>3, <2>4 DEF ThermInv
<1>4. ThermInv /\ [BoardNext]_bvars => ThermInv'
  <2> SUFFICES ASSUME ThermInv, [BoardNext]_bvars PROVE ThermInv'
    OBVIOUS
  <2>1. CASE BoardNext
    BY <2>1, ThermStep DEF BoardNext
  <2>2. CASE UNCHANGED bvars
    BY <2>2 DEF bvars, ThermInv, ThermTypes, Settled, Creeping, Here, Need
  <2> QED
    BY <2>1, <2>2
<1>5. FaultInv => FaultsAreFresh /\ TripsInTime /\ HeldSwitchRefused
  <2> SUFFICES ASSUME FaultInv
               PROVE  FaultsAreFresh /\ TripsInTime /\ HeldSwitchRefused
    OBVIOUS
  <2>1. FaultsAreFresh
    BY DEF FaultInv, CountInv
  <2>2. TripsInTime
    BY DEF FaultInv, RunInv, TripsInTime, Filtered, Encoders, Limit
  <2>3. HeldSwitchRefused
    <3>1. cnt["switch"] \in Nat /\ watched.held \in Nat /\ SwitchLimit \in Nat
      BY LimitTypes DEF FaultInv, FaultTypes
    <3> QED
      BY <3>1 DEF FaultInv, HeldInv, HeldSwitchRefused
  <2> QED
    BY <2>1, <2>2, <2>3
<1>6. ThermInv => ThermistorsSettle
  <2> SUFFICES ASSUME ThermInv, watched.sampled = SettleTime,
                      NEW c \in 0 .. Channels - 1
               PROVE  therm.pdo[c] = Reading[therm.real[c]]
    BY DEF ThermistorsSettle
  <2>1. ThermTypes /\ SettleTime \in Nat /\ SettleTime # 0
    BY Times, LimitTypes DEF ThermInv
  <2>2. Settled(c) \/ Creeping(c)
    BY <2>1 DEF ThermInv
  <2>3. ~Creeping(c)
    BY <2>1, CreepsShort
  <2> QED
    BY <2>2, <2>3 DEF Settled
<1>7. FaultInv /\ [BoardNext]_bvars =>
        [variant = "imu" => IF frame'.flags = {} THEN imu'.data = imu'.now
                            ELSE imu'.data = imu.data]_bvars
  <2> SUFFICES ASSUME FaultInv, BoardNext, variant = "imu"
               PROVE  IF frame'.flags = {} THEN imu'.data = imu'.now ELSE imu'.data = imu.data
    OBVIOUS
  <2>1. PICK bad \in SUBSET sources : /\ imu' = imu_process_data(bad)
                                     /\ frame'.flags = InputFlags(bad)
    BY DEF BoardNext, Cycle
  <2>2. InputFlags(bad) = bad
    BY InputFacts DEF FaultInv
  <2> QED
    BY <2>1, <2>2 DEF imu_process_data
<1>8. FaultInv /\ HaltInv /\ [BoardNext]_bvars =>
        [frame'.mode = "error" /\ variant # "imu" =>
           \/ frame'.flags # {}
           \/ frame.mode = "halt" /\ cnt["damp"] > DampLimit]_bvars
  <2> SUFFICES ASSUME FaultInv, HaltInv, BoardNext, frame'.mode = "error", variant # "imu"
               PROVE  frame'.flags # {} \/ (frame.mode = "halt" /\ cnt["damp"] > DampLimit)
    OBVIOUS
  <2>1. PICK bad \in SUBSET sources : frame' = [mode |-> mode, flags |-> InputFlags(bad)]
    BY DEF BoardNext, Cycle
  <2>2. flags \subseteq InputFlags(bad)
    BY InputFacts DEF FaultInv
  <2> QED
    BY <2>1, <2>2 DEF HaltInv
<1> QED
  BY <1>1, <1>2, <1>3, <1>4, <1>5, <1>6, <1>7, <1>8, HaltInvariance, PTL
     DEF BoardSpec, FaultsHandled, ImuDataGood, ErrorFlagged

----------------------------------------------------------------------------
(* The drivers.  Remainders: the arithmetic of counters and encoders that  *)
(* wrap.                                                                   *)

(* The remainder is the one number of its range a whole number of turns    *)
(* away.                                                                   *)
LEMMA RemainderIs ==
  ASSUME NEW R \in Nat \ {0}, NEW x \in 0 .. R - 1, NEW n \in Int,
         n \in {x - R, x, x + R, x + 2 * R}
  PROVE  n % R = x
<1>1. /\ n % R \in 0 .. R - 1 /\ n \div R \in Int /\ n = R * (n \div R) + (n % R)
  OBVIOUS
<1> DEFINE q == n \div R
<1>2. PICK k \in {-1, 0, 1, 2} : n = x + R * k
  OBVIOUS
<1>3. R * (q - k) = x - (n % R)
  BY <1>1, <1>2
<1>4. x - (n % R) < R /\ x - (n % R) > -R
  BY <1>1
<1>5. q - k \in Int
  BY <1>1
<1>6. ASSUME NEW m \in Int, R * m < R, R * m > -R PROVE m = 0
  BY <1>6
<1>7. q - k = 0
  BY <1>3, <1>4, <1>5, <1>6
<1> QED
  BY <1>1, <1>2, <1>7

(* The range of a remainder.                                               *)
LEMMA RemainderRange ==
  ASSUME NEW R \in Nat \ {0}, NEW n \in Int
  PROVE  n % R \in 0 .. R - 1
OBVIOUS

(* A sum's remainder is the remainder's sum, less a turn or plus one.      *)
LEMMA RemainderOfSum ==
  ASSUME NEW R \in Nat \ {0}, NEW a \in Int, NEW d \in Int, -R < d, d < R
  PROVE  /\ a % R \in 0 .. R - 1 /\ (a + d) % R \in 0 .. R - 1
         /\ (a + d) % R \in {(a % R) + d - R, (a % R) + d, (a % R) + d + R}
<1>1. /\ a % R \in 0 .. R - 1 /\ a \div R \in Int /\ a = R * (a \div R) + (a % R)
      /\ (a + d) % R \in 0 .. R - 1 /\ (a + d) \div R \in Int
      /\ a + d = R * ((a + d) \div R) + ((a + d) % R)
  OBVIOUS
<1> DEFINE q == ((a + d) \div R) - (a \div R)
<1>2. q \in Int /\ R * q = (a % R) + d - ((a + d) % R)
  BY <1>1
<1>3. R * q < 2 * R /\ R * q > -(2 * R)
  BY <1>1, <1>2
<1>4. ASSUME NEW m \in Int, R * m < 2 * R, R * m > -(2 * R) PROVE m \in {-1, 0, 1}
  BY <1>4
<1>5. q \in {-1, 0, 1}
  BY <1>2, <1>3, <1>4
<1>6. R * q \in {-R, 0, R}
  BY <1>5
<1> QED
  BY <1>1, <1>2, <1>6

----------------------------------------------------------------------------
(* The decoders.  A reading is the last value plus the distance moved,     *)
(* give or take a turn.                                                    *)
Reads(reading, value, d) ==
  /\ reading \in 0 .. EncRange - 1 /\ value \in 0 .. EncRange - 1
  /\ d \in 1 - Half .. Half - 1
  /\ reading \in {value + d - EncRange, value + d, value + d + EncRange}

(* Half an encoder's range.                                                *)
LEMMA EncoderHalves == EncRange \in Nat \ {0} /\ Half \in Nat \ {0} /\ EncRange = 2 * Half
BY DriverConstants DEF Half

(* C's remainder of a number within a turn of its range.                   *)
LEMMA CRemIs ==
  ASSUME NEW R \in Nat \ {0}, NEW x \in 1 .. R - 1, NEW n \in Int,
         n \in {x - R, x, x + R, x + 2 * R}
  PROVE  CRem(n, R) = IF n = x - R THEN x - R ELSE x
<1>1. CASE n = x - R
  <2>1. -n \in 1 .. R - 1 /\ ~(n >= 0)
    BY <1>1
  <2>2. (-n) % R = -n
    BY <2>1, RemainderIs
  <2> QED
    BY <1>1, <2>1, <2>2 DEF CRem
<1>2. CASE n # x - R
  <2>1. n >= 0
    BY <1>2
  <2>2. n % R = x
    BY RemainderIs
  <2> QED
    BY <1>2, <2>1, <2>2 DEF CRem
<1> QED
  BY <1>1, <1>2

(* Each of the three finds the distance.                                   *)
LEMMA DecodedLeg ==
  ASSUME NEW reading, NEW value, NEW d, Reads(reading, value, d)
  PROVE  IncrementalDelta(reading, value) = d
<1> DEFINE x == d + Half
           n == reading + Half - value
<1>1. /\ x \in 1 .. EncRange - 1 /\ n \in Int /\ d \in Int
      /\ n \in {x - EncRange, x, x + EncRange, x + 2 * EncRange}
  BY EncoderHalves DEF Reads
<1>2. CRem(n, EncRange) \in {x - EncRange, x}
  <2> HIDE DEF x, n
  <2> QED
    BY <1>1, CRemIs, EncoderHalves
<1> DEFINE y == CRem(n, EncRange) - Half
<1>3. y + Half \in Int /\ x \in 0 .. EncRange - 1
      /\ y + Half \in {x - EncRange, x, x + EncRange, x + 2 * EncRange}
  BY <1>1, <1>2, EncoderHalves
<1>4. (y + Half) % EncRange = x
  <2> HIDE DEF x, y
  <2> QED
    BY <1>3, RemainderIs, EncoderHalves
<1> QED
  BY <1>1, <1>4, EncoderHalves DEF IncrementalDelta, Signed

(* The boom's difference of two readings is the move between them.         *)
LEMMA DecodedBoom ==
  ASSUME NEW reading, NEW value, NEW d, Reads(reading, value, d)
  PROVE  BoomDelta(reading, value) = d
<1> DEFINE x == d + Half
           n == reading - value + EncRange + Half
<1>1. /\ x \in 1 .. EncRange - 1 /\ n \in Int /\ d \in Int
      /\ n \in {x - EncRange, x, x + EncRange, x + 2 * EncRange} /\ n # x - EncRange
  BY EncoderHalves DEF Reads
<1>2. CRem(n, EncRange) = x
  <2> HIDE DEF x, n
  <2> QED
    BY <1>1, CRemIs, EncoderHalves
<1> QED
  BY <1>1, <1>2, EncoderHalves DEF BoomDelta

(* C's remainder, of which the sign is put right.                          *)
LEMMA ModIs ==
  ASSUME NEW x \in 1 .. EncRange - 1, NEW n \in Int,
         n \in {x - EncRange, x, x + EncRange}
  PROVE  mod(n, EncRange) = x
<1> DEFINE r == CRem(n, EncRange)
<1>1. r \in {x - EncRange, x}
  BY CRemIs, EncoderHalves
<1>2. /\ r + EncRange \in Int /\ r + EncRange # x - EncRange
      /\ r + EncRange \in {x - EncRange, x, x + EncRange, x + 2 * EncRange}
  BY <1>1, EncoderHalves
<1>3. CRem(r + EncRange, EncRange) = x
  <2> HIDE DEF r
  <2> QED
    BY <1>2, CRemIs, EncoderHalves
<1> QED
  BY <1>3 DEF mod

(* The legs' and hips' difference likewise, once calibrated.               *)
LEMMA DecodedEncoder ==
  ASSUME NEW reading, NEW d, Reads(reading, drv.inc, d), drv.encPos \in Int,
         drv.calibrated \/ (drv.calibValue = drv.inc /\ drv.encPos = 0)
  PROVE  EncoderUpdate(reading).pos = drv.encPos + d
<1> DEFINE x == d + Half
           n == reading - drv.inc + Half
<1>1. /\ x \in 1 .. EncRange - 1 /\ n \in Int /\ d \in Int
      /\ n \in {x - EncRange, x, x + EncRange}
  BY EncoderHalves DEF Reads
<1>2. mod(n, EncRange) = x
  <2> HIDE DEF x, n
  <2> QED
    BY <1>1, ModIs
<1>3. mod(reading - reading + Half, EncRange) = Half
  <2>1. Half \in 1 .. EncRange - 1 /\ reading - reading + Half = Half /\ Half \in Int
    BY EncoderHalves DEF Reads
  <2> QED
    BY <2>1, ModIs
<1>4. CASE drv.calibrated
  BY <1>1, <1>2, <1>4, EncoderHalves DEF EncoderUpdate
<1>5. CASE ~drv.calibrated
  BY <1>1, <1>2, <1>3, <1>5, EncoderHalves DEF EncoderUpdate
<1> QED
  BY <1>4, <1>5

----------------------------------------------------------------------------
(* The inductive invariant.  DriverType: the types.                        *)
PacketCounts == 0 .. CounterModulus - 1
Readings == 0 .. EncRange - 1

BoardType ==
  [inc : Readings, abs : Int, toe : BOOLEAN, pressed : SUBSET Switches,
   idle : BOOLEAN, gyro : Int, counter : PacketCounts]
DrvType ==
  [timingCounterValue : PacketCounts, inc : Readings, incPos : Int, abs : Int,
   absDt : Int, oldToe : BOOLEAN, toeCounter : 0 .. ToeDebounce,
   calibrated : BOOLEAN, calibValue : Readings, encPos : Int]
RsType ==
  [pos : Int, angle : Int, onGround : BOOLEAN, limitSwitches : SUBSET Switches,
   pitch : Int, body : Int]
SeenType ==
  [synced : BOOLEAN, elapsed : Nat, unused : Nat, pos : Int, used : Int,
   jumped : BOOLEAN, toe : BOOLEAN, toes : 0 .. ToeDebounce + 1, turned : Int,
   lossless : BOOLEAN, good : BOOLEAN, strayed : Int]

DriverType ==
  /\ kind \in {"leg", "hip", "boom", "imu"} /\ axis \in Int
  /\ board \in BoardType /\ drv \in DrvType /\ rs \in RsType /\ seen \in SeenType

(* The packet counter runs ahead of the driver's by the cycles passed.     *)
CounterInv ==
  /\ kind \in {"leg", "hip"} => seen.synced
  /\ seen.synced /\ ~LostCount =>
       board.counter \in {drv.timingCounterValue + seen.elapsed,
                          drv.timingCounterValue + seen.elapsed - CounterModulus}

(* The wrapping encoder's last value is that of the axis in the last       *)
(* frame, and the axis is where the decoded position says.                 *)
PositionInv ==
  /\ board.inc = axis % EncRange /\ axis - seen.pos \in 1 - Half .. Half - 1
  /\ kind # "imu" => drv.inc = seen.pos % EncRange
  /\ kind \in {"leg", "boom"} => drv.incPos = seen.pos
  /\ kind = "boom" => drv.encPos = seen.pos
  /\ kind = "boom" /\ ~drv.calibrated => drv.calibValue = drv.inc /\ drv.encPos = 0
  /\ PositionTracksAxis

(* An absolute reading is the axis's or a glitch, and a glitch follows a   *)
(* true one; the time since the reading last used runs on while readings   *)
(* do not change.                                                          *)
AbsoluteInv ==
  kind = "leg" =>
    /\ drv.abs \in {seen.pos, seen.pos + Glitch}
    /\ board.abs \in {axis, axis + Glitch}
    /\ board.abs # axis => drv.abs = seen.pos \/ board.counter = drv.timingCounterValue
    /\ rs.angle = seen.used
    /\ ~seen.jumped => drv.abs = seen.used /\ drv.absDt = seen.unused - seen.elapsed

(* A hip's absolute reading errs by a glitch, if it errs.                  *)
BodyInv ==
  kind = "hip" => board.abs \in {axis, axis + Glitch} /\ AngleKept

(* The toe switch's counter is one behind the samples, but for the first   *)
(* run of them, which needs no debouncing.                                 *)
ToeInv ==
  /\ kind # "leg" => ~board.toe /\ ~seen.toe /\ ~rs.onGround
  /\ kind = "leg" =>
       /\ drv.oldToe = seen.toe /\ drv.toeCounter >= seen.toes - 1
       /\ drv.toeCounter <= seen.toes - 1 \/ rs.onGround = seen.toe
  /\ seen.toes > ToeDebounce => rs.onGround = seen.toe

(* The pitch lacks the step that is in the frame to come, if any.          *)
PitchInv ==
  kind = "imu" /\ seen.lossless /\ seen.good =>
    /\ seen.elapsed \in {0, 1}
    /\ seen.elapsed = 0 => /\ rs.pitch = seen.turned
                           /\ board.counter = drv.timingCounterValue \/ board.gyro = 0
    /\ seen.elapsed = 1 => seen.turned = rs.pitch - board.gyro

DriverInv ==
  /\ DriverType /\ CounterInv /\ PositionInv /\ AbsoluteInv /\ BodyInv /\ ToeInv
  /\ PitchInv

----------------------------------------------------------------------------
(* The names of the types stand for the types throughout.                  *)
USE DEF BoardType, DrvType, RsType, SeenType

(* The packet counter's next value.                                        *)
LEMMA NextCount ==
  ASSUME NEW c \in PacketCounts
  PROVE  (c + 1) % CounterModulus = IF c + 1 = CounterModulus THEN 0 ELSE c + 1
<1>1. CounterModulus \in Nat \ {0}
  BY DriverConstants
<1>2. CASE c + 1 = CounterModulus
  <2>1. 0 \in 0 .. CounterModulus - 1 /\ c + 1 \in Int /\ c + 1 = 0 + CounterModulus
    BY <1>1, <1>2 DEF PacketCounts
  <2> QED
    BY <1>1, <1>2, <2>1, RemainderIs
<1>3. CASE c + 1 # CounterModulus
  <2>1. c + 1 \in 0 .. CounterModulus - 1
    BY <1>1, <1>3 DEF PacketCounts
  <2> QED
    BY <1>1, <1>3, <2>1, RemainderIs
<1> QED
  BY <1>2, <1>3

(* The time since the last frame.                                          *)
LEMMA ElapsedTime ==
  ASSUME DriverType, CounterInv, seen.synced, ~LostCount
  PROVE  deltaTime = seen.elapsed
<1> DEFINE n == board.counter + CounterModulus - drv.timingCounterValue
<1>1. /\ CounterModulus \in Nat \ {0} /\ seen.elapsed \in 0 .. CounterModulus - 1
      /\ n \in Int /\ n \in {seen.elapsed, seen.elapsed + CounterModulus}
  BY DriverConstants DEF DriverType, CounterInv, LostCount, PacketCounts
<1>2. n % CounterModulus = seen.elapsed
  <2> HIDE DEF n
  <2> QED
    BY <1>1, RemainderIs
<1> QED
  BY <1>2 DEF deltaTime

----------------------------------------------------------------------------
(* A cycle of the Medulla: what it leaves and what it samples.             *)
LEMMA CycleFacts ==
  ASSUME DriverType, BoardCycle
  PROVE  \E move \in Int, ok \in BOOLEAN :
           /\ kind' = kind /\ drv' = drv /\ rs' = rs /\ axis' = axis + move
           /\ axis' - seen.pos \in 1 - Half .. Half - 1
           /\ board' \in [inc : {axis' % EncRange}, abs : {axis', axis' + Glitch},
                          toe : BOOLEAN, pressed : SUBSET Switches, idle : BOOLEAN,
                          gyro : {IF ok THEN move ELSE board.gyro},
                          counter : {(board.counter + 1) % CounterModulus}]
           /\ kind = "leg" /\ board'.abs # axis' => drv.abs = seen.pos
           /\ kind # "leg" => ~board'.toe
           /\ seen' = [seen EXCEPT !.elapsed = @ + 1,
                         !.unused = IF kind = "leg" THEN @ + 1 ELSE 0,
                         !.turned = IF ok THEN @ - move ELSE @,
                         !.lossless = @ /\ seen.elapsed = 0, !.good = @ /\ ok]
<1>1. PICK move \in Moves, in \in Inputs :
       /\ axis' = axis + move
       /\ axis' - seen.pos \in 1 - Half .. Half - 1
       /\ board' = Sample(axis', in.err, in.toe, in.pressed, in.idle,
                          IF in.good THEN move ELSE board.gyro,
                          (board.counter + 1) % CounterModulus)
       /\ seen' = [seen EXCEPT !.elapsed = @ + 1,
                     !.unused = IF kind = "leg" THEN @ + 1 ELSE 0,
                     !.turned = IF in.good THEN @ - move ELSE @,
                     !.lossless = @ /\ seen.elapsed = 0,
                     !.good = @ /\ in.good]
  BY DEF BoardCycle
<1>2. move \in Int /\ Glitch \in Nat /\ axis' \in Int
  BY <1>1, DriverConstants DEF DriverType
<1>3. /\ in.err \in {0, Glitch} /\ (kind = "leg" /\ in.err # 0 => drv.abs = seen.pos)
      /\ in.toe \in BOOLEAN /\ (kind # "leg" => ~in.toe)
      /\ in.pressed \in SUBSET Switches /\ in.idle \in BOOLEAN /\ in.good \in BOOLEAN
  BY DEF Inputs
<1>4. /\ board' \in [inc : {axis' % EncRange}, abs : {axis', axis' + Glitch},
                     toe : BOOLEAN, pressed : SUBSET Switches, idle : BOOLEAN,
                     gyro : {IF in.good THEN move ELSE board.gyro},
                     counter : {(board.counter + 1) % CounterModulus}]
      /\ kind = "leg" /\ board'.abs # axis' => drv.abs = seen.pos
      /\ kind # "leg" => ~board'.toe
  BY <1>1, <1>2, <1>3 DEF Sample
<1> QED
  BY <1>1, <1>2, <1>3, <1>4 DEF BoardCycle

(* A cycle of the board preserves the invariant.                           *)
LEMMA CycleKeeps == ASSUME DriverInv, BoardCycle PROVE DriverInv'
<1> USE DEF DriverInv
<1>1. PICK move \in Int, ok \in BOOLEAN :
           /\ kind' = kind /\ drv' = drv /\ rs' = rs /\ axis' = axis + move
           /\ axis' - seen.pos \in 1 - Half .. Half - 1
           /\ board' \in [inc : {axis' % EncRange}, abs : {axis', axis' + Glitch},
                          toe : BOOLEAN, pressed : SUBSET Switches, idle : BOOLEAN,
                          gyro : {IF ok THEN move ELSE board.gyro},
                          counter : {(board.counter + 1) % CounterModulus}]
           /\ kind = "leg" /\ board'.abs # axis' => drv.abs = seen.pos
           /\ kind # "leg" => ~board'.toe
           /\ seen' = [seen EXCEPT !.elapsed = @ + 1,
                         !.unused = IF kind = "leg" THEN @ + 1 ELSE 0,
                         !.turned = IF ok THEN @ - move ELSE @,
                         !.lossless = @ /\ seen.elapsed = 0, !.good = @ /\ ok]
  BY CycleFacts
<1>2. axis' \in Int /\ axis' % EncRange \in Readings
      /\ (board.counter + 1) % CounterModulus \in PacketCounts
  <2>1. axis' \in Int /\ board.counter + 1 \in Int
    BY <1>1 DEF DriverType, PacketCounts
  <2>2. EncRange \in Nat \ {0} /\ CounterModulus \in Nat \ {0}
    BY EncoderHalves, DriverConstants
  <2>3. /\ axis' % EncRange \in 0 .. EncRange - 1
        /\ (board.counter + 1) % CounterModulus \in 0 .. CounterModulus - 1
    <3> HIDE DEF DriverInv
    <3> QED
      BY <2>1, <2>2, RemainderRange
  <2> QED
    BY <2>1, <2>3 DEF Readings, PacketCounts
<1>3. /\ seen'.synced = seen.synced /\ seen'.elapsed = seen.elapsed + 1
      /\ (kind = "leg" => seen'.unused = seen.unused + 1)
      /\ seen'.pos = seen.pos /\ seen'.used = seen.used /\ seen'.jumped = seen.jumped
      /\ seen'.toe = seen.toe /\ seen'.toes = seen.toes
      /\ seen'.turned = (IF ok THEN seen.turned - move ELSE seen.turned)
      /\ seen'.lossless = (seen.lossless /\ seen.elapsed = 0)
      /\ seen'.good = (seen.good /\ ok) /\ seen'.strayed = seen.strayed
  <2>1. seen \in SeenType
    BY DEF DriverType
  <2> QED
    BY <1>1, <2>1
<1>3a. seen' \in SeenType
  <2>1. seen \in SeenType
    BY DEF DriverType
  <2> DEFINE u == IF kind = "leg" THEN seen.unused + 1 ELSE 0
             t == IF ok THEN seen.turned - move ELSE seen.turned
             l == seen.lossless /\ seen.elapsed = 0
             g == seen.good /\ ok
  <2>2. u \in Nat /\ t \in Int /\ l \in BOOLEAN /\ g \in BOOLEAN /\ seen.elapsed + 1 \in Nat
    BY <2>1
  <2>3. seen' = [seen EXCEPT !.elapsed = seen.elapsed + 1, !.unused = u, !.turned = t,
                   !.lossless = l, !.good = g]
    BY <1>1
  <2> HIDE DEF u, t, l, g
  <2> QED
    BY <2>1, <2>2, <2>3
<1>4. /\ board'.inc = axis' % EncRange /\ board'.abs \in {axis', axis' + Glitch}
      /\ board'.gyro = (IF ok THEN move ELSE board.gyro)
      /\ board'.counter = (board.counter + 1) % CounterModulus
  BY <1>1
<1>5. DriverType'
  <2>1. board' \in BoardType
    BY <1>1, <1>2, DriverConstants DEF DriverType
  <2> QED
    BY <1>1, <1>2, <1>3a, <2>1 DEF DriverType
<1>6. CounterInv'
  <2>1. board.counter \in PacketCounts
    BY DEF DriverType
  <2>2. board'.counter = IF board.counter + 1 = CounterModulus THEN 0
                         ELSE board.counter + 1
    BY <1>4, <2>1, NextCount
  <2>3. LostCount' \/ ~LostCount
    BY <1>3, DriverConstants DEF LostCount, DriverType
  <2>4. /\ CounterModulus \in Nat \ {0} /\ seen.elapsed \in Nat
        /\ board.counter \in 0 .. CounterModulus - 1
        /\ drv.timingCounterValue \in 0 .. CounterModulus - 1
    BY DriverConstants DEF DriverType, PacketCounts
  <2>5. ~LostCount' => seen.elapsed + 1 < CounterModulus
    BY <1>3, <2>4 DEF LostCount
  <2> QED
    BY <1>1, <1>3, <2>2, <2>3, <2>4, <2>5 DEF CounterInv
<1>7. PositionInv'
  BY <1>1, <1>3, <1>4 DEF PositionInv, PositionTracksAxis
<1>8. AbsoluteInv'
  BY <1>1, <1>3, <1>4 DEF AbsoluteInv, DriverType
<1>8a. BodyInv'
  BY <1>1, <1>3, <1>4 DEF BodyInv, AngleKept
<1>9. ToeInv'
  BY <1>1, <1>3 DEF ToeInv
<1>10. PitchInv'
  BY <1>1, <1>3, <1>4 DEF PitchInv, DriverType
<1> QED
  BY <1>5, <1>6, <1>7, <1>8, <1>8a, <1>9, <1>10

----------------------------------------------------------------------------
(* A frame that is looked at.  Its reading is a distance from the last.    *)
LEMMA AxisRead ==
  ASSUME DriverType, PositionInv, kind # "imu"
  PROVE  /\ Reads(board.inc, drv.inc, axis - seen.pos)
         /\ (drv.inc + (axis - seen.pos)) % EncRange = board.inc
<1> DEFINE d == axis - seen.pos
<1>1. /\ axis \in Int /\ seen.pos \in Int /\ d \in 1 - Half .. Half - 1
      /\ board.inc = axis % EncRange /\ drv.inc = seen.pos % EncRange
  BY DEF DriverType, PositionInv
<1>2. d \in Int /\ -EncRange < d /\ d < EncRange /\ axis = seen.pos + d
  BY <1>1, EncoderHalves
<1>3. /\ drv.inc \in 0 .. EncRange - 1 /\ board.inc \in 0 .. EncRange - 1
      /\ board.inc \in {drv.inc + d - EncRange, drv.inc + d, drv.inc + d + EncRange}
  <2> HIDE DEF d
  <2>1. EncRange \in Nat \ {0} /\ seen.pos \in Int
    BY <1>1, EncoderHalves
  <2>2. /\ seen.pos % EncRange \in 0 .. EncRange - 1
        /\ (seen.pos + d) % EncRange \in 0 .. EncRange - 1
        /\ (seen.pos + d) % EncRange \in {(seen.pos % EncRange) + d - EncRange,
               (seen.pos % EncRange) + d, (seen.pos % EncRange) + d + EncRange}
    BY <1>2, <2>1, RemainderOfSum
  <2> QED
    BY <1>1, <1>2, <2>2
<1>4. /\ drv.inc + d \in Int
      /\ drv.inc + d \in {board.inc - EncRange, board.inc, board.inc + EncRange}
  BY <1>2, <1>3, EncoderHalves
<1>5. (drv.inc + d) % EncRange = board.inc
  <2> DEFINE n == drv.inc + d
  <2>1. EncRange \in Nat \ {0}
    BY EncoderHalves
  <2>2. /\ n \in Int /\ board.inc \in 0 .. EncRange - 1
        /\ n \in {board.inc - EncRange, board.inc, board.inc + EncRange}
    BY <1>3, <1>4
  <2> HIDE DEF n
  <2>3. n % EncRange = board.inc
    BY <2>1, <2>2, RemainderIs
  <2> QED
    BY <2>3 DEF n
<1> QED
  BY <1>1, <1>3, <1>5 DEF Reads

(* What is computed of a frame has its type.                               *)
LEMMA FrameTypes ==
  ASSUME DriverType
  PROVE  /\ deltaTime \in Int /\ AbsoluteVelocity.dt = drv.absDt + deltaTime
         /\ ToeDetect.toe \in BOOLEAN /\ ToeDetect.count \in 0 .. ToeDebounce
         /\ LimitSwitches \in SUBSET Switches
         /\ drv.inc \in Readings /\ board.inc \in Readings
<1>1. deltaTime \in Int
  <2>1. /\ board.counter + CounterModulus - drv.timingCounterValue \in Int
        /\ CounterModulus \in Nat \ {0}
    BY DriverConstants DEF DriverType, PacketCounts
  <2>2. deltaTime \in 0 .. CounterModulus - 1
    BY <2>1, RemainderRange DEF deltaTime
  <2> QED
    BY <2>1, <2>2
<1>2. ToeDetect.toe \in BOOLEAN /\ ToeDetect.count \in 0 .. ToeDebounce
  BY DriverConstants DEF DriverType, ToeDetect, toeCounter
<1>3. LimitSwitches \in SUBSET Switches
  BY DEF DriverType, LimitSwitches
<1> QED
  BY <1>1, <1>2, <1>3 DEF DriverType, AbsoluteVelocity

(* What LegMedulla makes of a frame.                                       *)
LEMMA LegFacts ==
  ASSUME DriverType, PositionInv, kind = "leg", LegReceive
  PROVE  /\ drv' \in DrvType /\ rs' \in RsType
         /\ drv'.timingCounterValue = board.counter /\ drv'.inc = axis % EncRange
         /\ drv'.incPos = axis /\ drv'.abs = board.abs
         /\ drv'.absDt = (IF skipMotorEncoder THEN drv.absDt + deltaTime ELSE 0)
         /\ drv'.oldToe = board.toe /\ drv'.toeCounter = ToeDetect.count
         /\ rs'.pos = axis /\ rs'.onGround = ToeDetect.toe
         /\ rs'.angle = (IF skipMotorEncoder THEN rs.angle ELSE board.abs)
         /\ rs'.limitSwitches = LimitSwitches /\ rs'.pitch = rs.pitch
<1> DEFINE d == axis - seen.pos
           dt == IF skipMotorEncoder THEN drv.absDt + deltaTime ELSE 0
           an == IF skipMotorEncoder THEN rs.angle ELSE board.abs
<1>1. IncrementalDelta(board.inc, drv.inc) = d
  BY AxisRead, DecodedLeg
<1>2. /\ (drv.inc + d) % EncRange = board.inc /\ board.inc = axis % EncRange
      /\ d \in Int /\ drv.incPos + d = axis
  BY AxisRead DEF PositionInv, DriverType
<1>3. /\ drv \in DrvType /\ rs \in RsType
      /\ board.abs \in Int /\ board.counter \in PacketCounts /\ board.toe \in BOOLEAN
  BY DEF DriverType
<1>4. dt \in Int /\ an \in Int
  BY <1>3, FrameTypes
<1>5. /\ drv' = [drv EXCEPT !.timingCounterValue = board.counter,
                  !.inc = (drv.inc + d) % EncRange, !.incPos = drv.incPos + d,
                  !.abs = board.abs, !.absDt = dt,
                  !.oldToe = board.toe, !.toeCounter = ToeDetect.count]
      /\ rs' = [rs EXCEPT !.pos = drv.incPos + d,
                 !.angle = an,
                 !.onGround = ToeDetect.toe, !.limitSwitches = LimitSwitches]
  BY <1>1, FrameTypes DEF LegReceive
<1> HIDE DEF d, dt, an
<1>6. /\ drv' = [drv EXCEPT !.timingCounterValue = board.counter,
                  !.inc = board.inc, !.incPos = axis, !.abs = board.abs, !.absDt = dt,
                  !.oldToe = board.toe, !.toeCounter = ToeDetect.count]
      /\ rs' = [rs EXCEPT !.pos = axis, !.angle = an,
                 !.onGround = ToeDetect.toe, !.limitSwitches = LimitSwitches]
  BY <1>2, <1>5
<1>7. drv' \in DrvType /\ rs' \in RsType
  BY <1>3, <1>4, <1>6, FrameTypes DEF DriverType
<1>8. /\ drv'.timingCounterValue = board.counter /\ drv'.inc = board.inc
      /\ drv'.incPos = axis /\ drv'.abs = board.abs /\ drv'.absDt = dt
      /\ drv'.oldToe = board.toe /\ drv'.toeCounter = ToeDetect.count
      /\ rs'.pos = axis /\ rs'.onGround = ToeDetect.toe /\ rs'.angle = an
      /\ rs'.limitSwitches = LimitSwitches /\ rs'.pitch = rs.pitch
  BY <1>3, <1>6
<1> QED
  BY <1>2, <1>7, <1>8 DEF dt, an

(* A part of what an angle is off is less than it, and no more than the    *)
(* error of the reading that pulls it.                                     *)
LEMMA PulledLess ==
  ASSUME NEW a \in Nat, NEW g \in Nat, a <= Pull * g
  PROVE  a \div Pull \in 0 .. g /\ a \div Pull <= a
<1>1. Pull \in Nat \ {0}
  BY DriverConstants
<1>2. /\ a % Pull \in 0 .. Pull - 1 /\ a \div Pull \in Int
      /\ a = Pull * (a \div Pull) + (a % Pull)
  BY <1>1
<1> DEFINE q == a \div Pull
<1>3. q >= 0
  <2>1. ASSUME NEW k \in Int, Pull * k > -Pull PROVE k >= 0
    BY <1>1, <2>1
  <2> QED
    BY <1>1, <1>2, <2>1
<1>4. q <= g
  <2>1. ASSUME NEW k \in Int, Pull * k <= 0 PROVE k <= 0
    BY <1>1, <2>1
  <2>2. Pull * (q - g) = Pull * q - Pull * g
    BY <1>1, <1>2
  <2>3. Pull * (q - g) <= 0
    BY <1>1, <1>2, <2>2
  <2> QED
    BY <1>2, <2>1, <2>3
<1>5. q <= a
  <2>1. Pull * q >= q
    BY <1>1, <1>2, <1>3
  <2> QED
    BY <1>1, <1>2, <2>1
<1> QED
  BY <1>2, <1>3, <1>4, <1>5

(* A hip's angle that is off by e, pulled by a reading that errs by g.     *)
LEMMA PulledStays ==
  ASSUME NEW e \in Nat, NEW g \in Nat, NEW x \in Int,
         board.abs = x + g, board.abs \in Int
  PROVE  /\ Pulled(Pull * x + e) \in Int
         /\ Pulled(Pull * x + e) - Pull * x \in 0 .. e + g
<1>1. Pull \in Nat \ {0} /\ Pull * x \in Int /\ Pull * g \in Nat
  BY DriverConstants
<1>2. Pull * board.abs - (Pull * x + e) = Pull * g - e
  <2>1. Pull * (x + g) = Pull * x + Pull * g
    BY <1>1
  <2> QED
    BY <1>1, <2>1
<1> DEFINE off == Pull * g - e
<1>3. Pulled(Pull * x + e) = Pull * x + e +
        (IF off >= 0 THEN off \div Pull ELSE -((-off) \div Pull))
  BY <1>2 DEF Pulled
<1>4. CASE off >= 0
  <2>1. off \in Nat /\ off <= Pull * g
    BY <1>1, <1>4
  <2> HIDE DEF off
  <2>2. off \div Pull \in 0 .. g
    BY <2>1, PulledLess
  <2> QED
    BY <1>1, <1>3, <1>4, <2>2
<1>5. CASE off < 0
  <2> DEFINE a == -off
  <2>1. a \in Nat /\ a <= e /\ e <= Pull * e
    BY <1>1, <1>5
  <2>2. a <= Pull * e /\ Pull * e \in Nat
    BY <1>1, <2>1
  <2> HIDE DEF a
  <2>3. a \div Pull \in 0 .. e
    BY <2>1, <2>2, PulledLess
  <2>4. Pulled(Pull * x + e) = Pull * x + e - (a \div Pull)
    <3>1. ~(off >= 0)
      BY <1>1, <1>5
    <3>2. Pulled(Pull * x + e) = Pull * x + e + (-((-off) \div Pull))
      BY <1>3, <3>1
    <3> QED
      BY <1>1, <2>3, <3>2 DEF a
  <2> QED
    BY <1>1, <2>3, <2>4
<1>6. off \in Int
  BY <1>1
<1> HIDE DEF off
<1> QED
  BY <1>4, <1>5, <1>6

(* What HipMedulla makes of a frame.                                       *)
LEMMA HipFacts ==
  ASSUME DriverType, PositionInv, BodyInv, kind = "hip", HipReceive
  PROVE  /\ drv' \in DrvType /\ rs' \in RsType
         /\ drv'.timingCounterValue = board.counter /\ drv'.inc = axis % EncRange
         /\ drv'.calibrated /\ rs'.onGround = rs.onGround
         /\ rs'.body - Pull * axis \in
              0 .. (IF drv.calibrated THEN seen.strayed + (board.abs - axis)
                    ELSE Pull * (board.abs - axis))
         /\ rs'.limitSwitches = LimitSwitches
<1> DEFINE d == axis - seen.pos
           b == IF drv.calibrated THEN Pulled(rs.body + Pull * d) ELSE Pull * board.abs
           g == board.abs - axis
<1>1. IncrementalDelta(board.inc, drv.inc) = d
  BY AxisRead, DecodedLeg
<1>2. /\ (drv.inc + d) % EncRange = board.inc /\ board.inc = axis % EncRange
      /\ d \in Int
  BY AxisRead DEF PositionInv, DriverType
<1>3. /\ drv \in DrvType /\ rs \in RsType /\ board.counter \in PacketCounts /\ axis \in Int
      /\ seen.strayed \in Int /\ seen.pos \in Int /\ rs.body \in Int /\ board.abs \in Int
      /\ drv.calibrated \in BOOLEAN
  BY DEF DriverType
<1>4. /\ drv' = [drv EXCEPT !.timingCounterValue = board.counter,
                  !.inc = (drv.inc + d) % EncRange, !.calibrated = TRUE]
      /\ rs' = [rs EXCEPT !.body = b, !.limitSwitches = LimitSwitches]
  BY <1>1 DEF HipReceive
<1>5. Pull \in Nat \ {0} /\ g \in Nat /\ board.abs = axis + g
  BY <1>3, DriverConstants DEF BodyInv
<1>6. /\ b \in Int
      /\ b - Pull * axis \in 0 .. (IF drv.calibrated THEN seen.strayed + g ELSE Pull * g)
  <2>1. CASE drv.calibrated
    <3> DEFINE e == rs.body - Pull * seen.pos
    <3>1. e \in 0 .. seen.strayed /\ e \in Nat
      BY <1>3, <1>5, <2>1 DEF BodyInv, AngleKept
    <3>2. rs.body + Pull * d = Pull * axis + e
      <4>1. Pull * (axis - seen.pos) = Pull * axis - Pull * seen.pos
        BY <1>3, <1>5
      <4>2. Pull * axis \in Int /\ Pull * seen.pos \in Int
        BY <1>3, <1>5
      <4> QED
        BY <1>3, <4>1, <4>2
    <3> HIDE DEF e, g, d
    <3>3. /\ Pulled(Pull * axis + e) \in Int
          /\ Pulled(Pull * axis + e) - Pull * axis \in 0 .. e + g
      BY <1>3, <1>5, <3>1, PulledStays
    <3>4. b = Pulled(Pull * axis + e)
      BY <2>1, <3>2
    <3> HIDE DEF b
    <3> QED
      BY <1>3, <1>5, <2>1, <3>1, <3>3, <3>4
  <2>2. CASE ~drv.calibrated
    <3>1. Pull * (axis + g) = Pull * axis + Pull * g /\ Pull * g \in Nat /\ Pull * axis \in Int
      BY <1>3, <1>5
    <3>2. b = Pull * (axis + g)
      BY <1>5, <2>2
    <3> HIDE DEF b, g
    <3> QED
      BY <2>2, <3>1, <3>2
  <2> QED
    BY <1>3, <2>1, <2>2
<1> HIDE DEF d, b
<1> QED
  BY <1>2, <1>3, <1>4, <1>6, FrameTypes

(* What BoomMedulla makes of a frame.                                      *)
LEMMA BoomFacts ==
  ASSUME DriverType, PositionInv, kind = "boom", BoomReceive
  PROVE  /\ drv' \in DrvType /\ rs' \in RsType
         /\ drv'.timingCounterValue = board.counter /\ drv'.inc = axis % EncRange
         /\ drv'.calibrated /\ drv'.encPos = axis /\ drv'.incPos = axis
         /\ rs'.pos = axis /\ rs'.angle = axis /\ rs'.onGround = rs.onGround
         /\ rs'.limitSwitches = rs.limitSwitches
<1> DEFINE d == axis - seen.pos
<1>1. BoomDelta(board.inc, drv.inc) = d
  BY AxisRead, DecodedBoom
<1>2. /\ board.inc = axis % EncRange /\ d \in Int /\ drv.incPos + d = axis
      /\ drv.encPos + d = axis /\ drv.encPos \in Int
      /\ drv.calibrated \/ (drv.calibValue = drv.inc /\ drv.encPos = 0)
  BY DEF PositionInv, PositionTracksAxis, DriverType
<1>3. EncoderUpdate(board.inc).pos = axis
  BY <1>2, AxisRead, DecodedEncoder
<1>4. /\ drv \in DrvType /\ rs \in RsType /\ board.counter \in PacketCounts /\ axis \in Int
  BY DEF DriverType
<1>5. /\ drv' = [drv EXCEPT !.timingCounterValue = board.counter,
                  !.calibrated = TRUE, !.encPos = axis,
                  !.incPos = drv.incPos + d, !.inc = board.inc]
      /\ rs' = [rs EXCEPT !.pos = axis, !.angle = drv.incPos + d]
  BY <1>1, <1>3 DEF BoomReceive
<1> HIDE DEF d
<1> QED
  BY <1>2, <1>4, <1>5, FrameTypes

(* What ImuMedulla makes of a frame.                                       *)
LEMMA ImuFacts ==
  ASSUME DriverType, kind = "imu", ImuReceive
  PROVE  /\ drv' \in DrvType /\ rs' \in RsType
         /\ drv'.timingCounterValue = board.counter
         /\ rs'.pitch = rs.pitch - board.gyro /\ rs'.onGround = rs.onGround
         /\ rs'.limitSwitches = rs.limitSwitches
BY DEF DriverType, ImuReceive

(* What a frame changes in any of the drivers.                             *)
LEMMA FrameFacts ==
  ASSUME DriverType, PositionInv, BodyInv, NewFrame
  PROVE  /\ UNCHANGED <<kind, axis, board>>
         /\ drv' \in DrvType /\ rs' \in RsType
         /\ drv'.timingCounterValue = board.counter
         /\ seen'.synced /\ seen'.elapsed = 0 /\ seen'.pos = axis
         /\ seen'.toe = board.toe
         /\ seen'.toes = (IF board.toe # seen.toe THEN 1
                          ELSE IF seen.toes > ToeDebounce THEN seen.toes
                          ELSE seen.toes + 1)
         /\ seen'.turned = seen.turned /\ seen'.lossless = seen.lossless
         /\ seen'.good = seen.good
         /\ kind = "hip" => seen'.strayed = IF drv.calibrated
                                           THEN seen.strayed + (board.abs - axis)
                                           ELSE Pull * (board.abs - axis)
         /\ seen' \in SeenType
<1> DEFINE used == kind = "leg" /\ ~skipMotorEncoder
           u == IF used THEN axis ELSE seen.used
           n == IF used THEN 0 ELSE seen.unused
           j == kind = "leg" /\ ~used /\ (seen.jumped \/ board.abs # drv.abs \/ LostCount)
           t == IF board.toe # seen.toe THEN 1
                ELSE IF seen.toes > ToeDebounce THEN seen.toes ELSE seen.toes + 1
           y == IF kind # "hip" THEN seen.strayed
                ELSE IF drv.calibrated THEN seen.strayed + (board.abs - axis)
                ELSE Pull * (board.abs - axis)
<1>1. /\ seen' = [seen EXCEPT !.synced = TRUE, !.elapsed = 0, !.pos = axis,
                    !.used = u, !.unused = n, !.jumped = j, !.toe = board.toe, !.toes = t,
                    !.strayed = y]
      /\ UNCHANGED <<kind, axis, board>> /\ Receive
  BY DEF NewFrame
<1>2. /\ seen \in SeenType
      /\ axis \in Int /\ board.toe \in BOOLEAN
  BY DEF DriverType
<1>3. u \in Int /\ n \in Nat /\ j \in BOOLEAN /\ t \in 0 .. ToeDebounce + 1
  BY <1>2, DriverConstants
<1>3a. y \in Int
  BY <1>2, DriverConstants DEF DriverType
<1>4. drv' \in DrvType /\ rs' \in RsType /\ drv'.timingCounterValue = board.counter
  BY <1>1, LegFacts, HipFacts, BoomFacts, ImuFacts DEF DriverType, Receive
<1> HIDE DEF u, n, j, t, y
<1>5. seen' \in SeenType
  BY <1>1, <1>2, <1>3, <1>3a
<1>6. /\ seen'.synced /\ seen'.elapsed = 0 /\ seen'.pos = axis
      /\ seen'.toe = board.toe /\ seen'.toes = t
      /\ seen'.turned = seen.turned /\ seen'.lossless = seen.lossless
      /\ seen'.good = seen.good /\ seen'.strayed = y
  BY <1>1, <1>2
<1> QED
  BY <1>1, <1>4, <1>5, <1>6 DEF t, y

(* What a frame changes in what is known of the leg's absolute encoder.    *)
LEMMA SeenFacts ==
  ASSUME DriverType, NewFrame, kind = "leg"
  PROVE  /\ ~skipMotorEncoder => seen'.used = axis /\ seen'.unused = 0 /\ ~seen'.jumped
         /\ skipMotorEncoder => /\ seen'.used = seen.used /\ seen'.unused = seen.unused
                                /\ ~seen'.jumped => /\ ~seen.jumped /\ ~LostCount
                                                    /\ board.abs = drv.abs
<1> DEFINE u == IF ~skipMotorEncoder THEN axis ELSE seen.used
           n == IF ~skipMotorEncoder THEN 0 ELSE seen.unused
           j == skipMotorEncoder /\ (seen.jumped \/ board.abs # drv.abs \/ LostCount)
<1>1. \E toes, strayed :
        seen' = [seen EXCEPT !.synced = TRUE, !.elapsed = 0, !.pos = axis,
                    !.used = u, !.unused = n, !.jumped = j, !.toe = board.toe, !.toes = toes,
                    !.strayed = strayed]
  BY DEF NewFrame
<1>2. seen \in SeenType
  BY DEF DriverType
<1> HIDE DEF u, n, j
<1>3. seen'.used = u /\ seen'.unused = n /\ seen'.jumped = j
  BY <1>1, <1>2
<1> QED
  BY <1>3 DEF u, n, j

(* A reading that is used is the axis's.                                   *)
LEMMA UsedIsTrue ==
  ASSUME DriverType, PositionInv, AbsoluteInv, kind = "leg", ~skipMotorEncoder,
         board.counter # drv.timingCounterValue
  PROVE  board.abs = axis
<1>1. /\ Glitch \in Nat /\ MaxChange \in Nat /\ Glitch > MaxChange + Half /\ Half \in Nat
      /\ axis \in Int /\ seen.pos \in Int /\ drv.abs \in Int /\ board.abs \in Int
      /\ axis - seen.pos \in 1 - Half .. Half - 1
  BY DriverConstants, GlitchesStandOut, EncoderHalves DEF DriverType, PositionInv
<1>2. /\ board.abs \in {axis, axis + Glitch}
      /\ board.abs # axis => drv.abs = seen.pos
  BY DEF AbsoluteInv
<1>3. ~(board.abs - drv.abs > MaxChange)
  BY DEF skipMotorEncoder
<1> QED
  BY <1>1, <1>2, <1>3

(* A frame, whichever board it is from, preserves the invariant.           *)
LEMMA FrameKeeps == ASSUME DriverInv, NewFrame PROVE DriverInv'
<1>1. /\ DriverType /\ CounterInv /\ PositionInv /\ AbsoluteInv /\ BodyInv /\ ToeInv
      /\ PitchInv
  BY DEF DriverInv
<1>2. /\ kind' = kind /\ axis' = axis /\ board' = board
      /\ board.counter # drv.timingCounterValue /\ Receive
  BY DEF NewFrame
<1>3. DriverType'
  BY <1>1, <1>2, FrameFacts DEF DriverType
<1>4. CounterInv'
  BY <1>1, <1>2, FrameFacts DEF CounterInv, DriverType, PacketCounts
<1>5. PositionInv'
  <2>1. axis' - seen'.pos = 0 /\ 0 \in 1 - Half .. Half - 1
    BY <1>1, <1>2, FrameFacts, EncoderHalves DEF DriverType
  <2>2. CASE kind = "leg"
    BY <1>1, <1>2, <2>1, <2>2, FrameFacts, LegFacts DEF PositionInv, PositionTracksAxis, Receive
  <2>3. CASE kind = "hip"
    BY <1>1, <1>2, <2>1, <2>3, FrameFacts, HipFacts DEF PositionInv, PositionTracksAxis, Receive
  <2>4. CASE kind = "boom"
    BY <1>1, <1>2, <2>1, <2>4, FrameFacts, BoomFacts DEF PositionInv, PositionTracksAxis, Receive
  <2>5. CASE kind = "imu"
    BY <1>1, <1>2, <2>1, <2>5, FrameFacts DEF PositionInv, PositionTracksAxis
  <2> QED
    BY <1>1, <2>2, <2>3, <2>4, <2>5 DEF DriverType
<1>6. AbsoluteInv'
  <2> SUFFICES ASSUME kind = "leg" PROVE AbsoluteInv'
    BY <1>2 DEF AbsoluteInv
  <2>1. /\ drv'.timingCounterValue = board.counter /\ drv'.abs = board.abs
        /\ drv'.absDt = (IF skipMotorEncoder THEN drv.absDt + deltaTime ELSE 0)
        /\ rs'.angle = (IF skipMotorEncoder THEN rs.angle ELSE board.abs)
    BY <1>1, <1>2, LegFacts DEF Receive
  <2>2. seen'.elapsed = 0 /\ seen'.pos = axis
    BY <1>1, FrameFacts
  <2>3. CASE ~skipMotorEncoder
    <3>1. board.abs = axis
      BY <1>1, <1>2, <2>3, UsedIsTrue
    <3>2. seen'.used = axis /\ seen'.unused = 0
      BY <1>1, <2>3, SeenFacts
    <3> QED
      BY <1>2, <2>1, <2>2, <2>3, <3>1, <3>2 DEF AbsoluteInv
  <2>4. CASE skipMotorEncoder
    <3>1. seen'.used = seen.used /\ seen'.unused = seen.unused
      BY <1>1, <2>4, SeenFacts
    <3>2. ~seen'.jumped => drv'.abs = seen.used /\ drv'.absDt = seen.unused
      <4> SUFFICES ASSUME ~seen'.jumped PROVE drv'.abs = seen.used /\ drv'.absDt = seen.unused
        OBVIOUS
      <4>1. ~seen.jumped /\ ~LostCount /\ board.abs = drv.abs
        BY <1>1, <2>4, SeenFacts
      <4>2. deltaTime = seen.elapsed
        BY <1>1, <4>1, ElapsedTime DEF CounterInv
      <4>3. drv.abs = seen.used /\ drv.absDt = seen.unused - seen.elapsed
        BY <1>1, <4>1 DEF AbsoluteInv
      <4> QED
        BY <1>1, <2>1, <2>4, <4>1, <4>2, <4>3 DEF DriverType
    <3>3. rs'.angle = seen.used /\ board.abs \in {axis, axis + Glitch}
      BY <1>1, <2>1, <2>4 DEF AbsoluteInv
    <3> QED
      BY <1>1, <1>2, <2>1, <2>2, <3>1, <3>2, <3>3 DEF AbsoluteInv, DriverType
  <2> QED
    BY <2>3, <2>4
<1>6a. BodyInv'
  <2> SUFFICES ASSUME kind = "hip" PROVE BodyInv'
    BY <1>2 DEF BodyInv
  <2>1. /\ drv'.calibrated
        /\ rs'.body - Pull * axis \in
              0 .. (IF drv.calibrated THEN seen.strayed + (board.abs - axis)
                    ELSE Pull * (board.abs - axis))
    BY <1>1, <1>2, HipFacts DEF Receive
  <2>2. seen'.pos = axis /\ seen'.strayed = IF drv.calibrated
                                             THEN seen.strayed + (board.abs - axis)
                                             ELSE Pull * (board.abs - axis)
    BY <1>1, FrameFacts
  <2>3. board.abs \in {axis, axis + Glitch}
    BY <1>1 DEF BodyInv
  <2> QED
    BY <1>2, <2>1, <2>2, <2>3 DEF BodyInv, AngleKept
<1>7. ToeInv'
  <2>1. /\ seen'.toe = board.toe
        /\ seen'.toes = (IF board.toe # seen.toe THEN 1
                         ELSE IF seen.toes > ToeDebounce THEN seen.toes
                         ELSE seen.toes + 1)
    BY <1>1, FrameFacts
  <2>2. CASE kind # "leg"
    <3>1. rs'.onGround = rs.onGround
      BY <1>1, <1>2, <2>2, HipFacts, BoomFacts, ImuFacts DEF Receive, DriverType
    <3>2. board.toe = FALSE /\ rs.onGround = FALSE
      BY <1>1, <2>2 DEF ToeInv, DriverType
    <3> QED
      BY <1>2, <2>1, <2>2, <3>1, <3>2 DEF ToeInv
  <2>3. CASE kind = "leg"
    <3>1. /\ drv'.oldToe = board.toe /\ drv'.toeCounter = ToeDetect.count
          /\ rs'.onGround = ToeDetect.toe
      BY <1>1, <1>2, <2>3, LegFacts DEF Receive
    <3>2. /\ ToeDebounce \in Nat \ {0} /\ seen.toes \in 0 .. ToeDebounce + 1
          /\ drv.toeCounter \in 0 .. ToeDebounce
          /\ board.toe \in BOOLEAN /\ seen.toe \in BOOLEAN /\ rs.onGround \in BOOLEAN
      BY <1>1, DriverConstants DEF DriverType
    <3>3. /\ drv.oldToe = seen.toe /\ drv.toeCounter >= seen.toes - 1
          /\ drv.toeCounter <= seen.toes - 1 \/ rs.onGround = seen.toe
          /\ seen.toes > ToeDebounce => rs.onGround = seen.toe
      BY <1>1, <2>3 DEF ToeInv
    <3>4. /\ drv'.oldToe = seen'.toe /\ drv'.toeCounter >= seen'.toes - 1
          /\ drv'.toeCounter <= seen'.toes - 1 \/ rs'.onGround = seen'.toe
          /\ seen'.toes > ToeDebounce => rs'.onGround = seen'.toe
      <4>1. CASE board.toe # seen.toe
        BY <2>1, <3>1, <3>2, <3>3, <4>1 DEF ToeDetect, toeCounter
      <4>2. CASE board.toe = seen.toe
        BY <2>1, <3>1, <3>2, <3>3, <4>2 DEF ToeDetect, toeCounter
      <4> QED
        BY <4>1, <4>2
    <3> QED
      BY <1>2, <2>3, <3>4 DEF ToeInv
  <2> QED
    BY <2>2, <2>3
<1>8. PitchInv'
  <2> SUFFICES ASSUME kind = "imu", seen.lossless, seen.good PROVE PitchInv'
    BY <1>1, <1>2, FrameFacts DEF PitchInv
  <2>1. rs'.pitch = rs.pitch - board.gyro /\ drv'.timingCounterValue = board.counter
    BY <1>1, <1>2, ImuFacts DEF Receive
  <2> QED
    BY <1>1, <1>2, <2>1, FrameFacts DEF PitchInv, DriverType
<1> QED
  BY <1>3, <1>4, <1>5, <1>6, <1>6a, <1>7, <1>8 DEF DriverInv

(* What a frame does not change unless it has reason to.                   *)
LEMMA FrameActs ==
  ASSUME DriverInv, NewFrame
  PROVE  /\ rs'.onGround # rs.onGround =>
              seen'.toes > ToeDebounce /\ seen'.toe = rs'.onGround
         /\ \A switch \in rs.limitSwitches \ rs'.limitSwitches : board.idle
<1>1. DriverType /\ PositionInv /\ BodyInv /\ ToeInv /\ Receive
  BY DEF DriverInv, NewFrame
<1>2. /\ seen'.toe = board.toe
      /\ seen'.toes = (IF board.toe # seen.toe THEN 1
                       ELSE IF seen.toes > ToeDebounce THEN seen.toes
                       ELSE seen.toes + 1)
  BY <1>1, FrameFacts
<1>3. CASE kind = "leg"
  <2>1. rs'.onGround = ToeDetect.toe /\ rs'.limitSwitches = LimitSwitches
    BY <1>1, <1>3, LegFacts DEF Receive
  <2>2. /\ ToeDebounce \in Nat \ {0} /\ seen.toes \in 0 .. ToeDebounce + 1
        /\ drv.toeCounter \in 0 .. ToeDebounce
        /\ board.toe \in BOOLEAN /\ seen.toe \in BOOLEAN /\ rs.onGround \in BOOLEAN
    BY <1>1, DriverConstants DEF DriverType
  <2>3. rs'.onGround # rs.onGround =>
          seen'.toes > ToeDebounce /\ seen'.toe = rs'.onGround
    BY <1>1, <1>2, <1>3, <2>1, <2>2 DEF ToeInv, ToeDetect, toeCounter
  <2> QED
    BY <2>1, <2>3 DEF LimitSwitches
<1>4. CASE kind # "leg"
  <2>1. /\ rs'.onGround = rs.onGround
        /\ rs'.limitSwitches \in {rs.limitSwitches, LimitSwitches}
    BY <1>1, <1>4, HipFacts, BoomFacts, ImuFacts DEF Receive, DriverType
  <2> QED
    BY <2>1 DEF LimitSwitches
<1> QED
  BY <1>3, <1>4

----------------------------------------------------------------------------
(* The invariant holds in every state.                                     *)
LEMMA DriverStarts == DriverInit => DriverInv
<1> SUFFICES ASSUME DriverInit PROVE DriverInv
  OBVIOUS
<1>1. PICK garbage \in 0 .. CounterModulus - 1 : drv = postOpInit(kind, board, garbage)
  BY DEF DriverInit
<1>2. /\ kind \in {"leg", "hip", "boom", "imu"} /\ axis = 0
      /\ seen = [synced |-> kind \in {"leg", "hip"}, elapsed |-> 0, unused |-> 0,
             pos |-> 0, used |-> 0, jumped |-> FALSE,
             toe |-> FALSE, toes |-> 0, turned |-> 0, lossless |-> TRUE, good |-> TRUE,
             strayed |-> 0]
      /\ rs = [pos |-> 0, angle |-> 0, onGround |-> FALSE, limitSwitches |-> {},
           pitch |-> 0, body |-> 0]
  BY DriverConstants DEF DriverInit
<1>3. 0 % EncRange = 0 /\ 0 \in 0 .. EncRange - 1 /\ 0 \in 1 - Half .. Half - 1
      /\ 0 \in 0 .. CounterModulus - 1
  <2>1. EncRange \in Nat \ {0} /\ 0 \in 0 .. EncRange - 1 /\ 0 \in Int
    BY EncoderHalves
  <2>2. 0 % EncRange = 0
    BY <2>1, RemainderIs
  <2>3. 0 \in 1 - Half .. Half - 1
    BY EncoderHalves
  <2>4. 0 \in 0 .. CounterModulus - 1
    BY DriverConstants
  <2> QED
    BY <2>1, <2>2, <2>3, <2>4
<1>4. board = [inc |-> 0, abs |-> 0, toe |-> FALSE, pressed |-> {}, idle |-> TRUE,
               gyro |-> 0, counter |-> 0]
  <2>1. board = Sample(0, 0, FALSE, {}, TRUE, 0, 0)
    BY DEF DriverInit
  <2>2. 0 + 0 = 0
    OBVIOUS
  <2> QED
    BY <1>3, <2>1, <2>2, Zenon DEF Sample
<1>5. drv = [timingCounterValue |-> IF kind \in {"boom", "imu"} THEN garbage ELSE 0,
             inc |-> 0, incPos |-> 0, abs |-> 0, absDt |-> 0,
             oldToe |-> FALSE, toeCounter |-> 0,
             calibrated |-> FALSE, calibValue |-> 0, encPos |-> 0]
  BY <1>1, <1>4 DEF postOpInit
<1>6. DriverType
  <2>1. board \in BoardType
    BY <1>3, <1>4 DEF Readings, PacketCounts
  <2>2. drv \in DrvType
    <3>1. (IF kind \in {"boom", "imu"} THEN garbage ELSE 0) \in PacketCounts
      BY <1>1, <1>3 DEF PacketCounts
    <3> QED
      BY <1>3, <1>5, <3>1, DriverConstants DEF Readings
  <2>3. rs \in RsType
    BY <1>2
  <2>4. seen \in SeenType
    BY <1>2, DriverConstants
  <2> QED
    BY <1>2, <2>1, <2>2, <2>3, <2>4 DEF DriverType
<1>7. CounterInv
  <2>1. seen.synced <=> kind \in {"leg", "hip"}
    BY <1>2
  <2>2. seen.elapsed = 0 /\ board.counter = 0
    BY <1>2, <1>4
  <2>3. kind \in {"leg", "hip"} => drv.timingCounterValue = 0
    BY <1>5
  <2> QED
    BY <2>1, <2>2, <2>3 DEF CounterInv
<1>8. PositionInv
  BY <1>2, <1>3, <1>4, <1>5 DEF PositionInv, PositionTracksAxis
<1>9. AbsoluteInv
  BY <1>2, <1>4, <1>5 DEF AbsoluteInv
<1>9a. BodyInv
  BY <1>2, <1>4, <1>5 DEF BodyInv, AngleKept
<1>10. ToeInv
  BY <1>2, <1>4, <1>5, DriverConstants DEF ToeInv
<1>11. PitchInv
  BY <1>2, <1>4, <1>5 DEF PitchInv
<1> QED
  BY <1>6, <1>7, <1>8, <1>9, <1>9a, <1>10, <1>11 DEF DriverInv

(* Every step preserves it.                                                *)
LEMMA DriverStep == ASSUME DriverInv, [DriverNext]_dvars PROVE DriverInv'
<1>1. CASE BoardCycle
  BY <1>1, CycleKeeps
<1>2. CASE NewFrame
  BY <1>2, FrameKeeps
<1>3. CASE UNCHANGED dvars
  BY <1>3 DEF dvars, DriverInv, DriverType, CounterInv, LostCount, PositionInv,
              PositionTracksAxis, AbsoluteInv, BodyInv, AngleKept, ToeInv, PitchInv
<1> QED
  BY <1>1, <1>2, <1>3 DEF DriverNext, OldFrame

(* It holds always.                                                        *)
LEMMA DriverAlways == DriverSpec => []DriverInv
BY DriverStarts, DriverStep, PTL DEF DriverSpec

(***************************************************************************)
(* Whatever wraps, is lost, bounces or is misread on the way, the drivers' *)
(* positions, angle, toe switch, limit switches and pitch are the robot's, *)
(* a hip's angle but for what its erroneous absolute readings add to it.   *)
(***************************************************************************)
THEOREM StateIsTrue == DriverSpec => StateDecoded
<1>1. DriverInv => /\ PositionTracksAxis /\ AngleKept /\ NoGlitchReported
                   /\ PitchOfWholeStream
  BY DEF DriverInv, PositionInv, AbsoluteInv, BodyInv, AngleKept, PitchInv,
         NoGlitchReported, PitchOfWholeStream
<1>2. DriverInv => (seen.toes > ToeDebounce => rs.onGround = seen.toe)
  BY DEF DriverInv, ToeInv
<1>3. ASSUME DriverInv, [DriverNext]_dvars
      PROVE  /\ [rs'.onGround # rs.onGround =>
                   seen'.toes > ToeDebounce /\ seen'.toe = rs'.onGround]_dvars
             /\ [\A switch \in rs.limitSwitches \ rs'.limitSwitches : board.idle]_dvars
  <2>1. CASE BoardCycle
    BY <2>1 DEF BoardCycle
  <2>2. CASE NewFrame
    BY <1>3, <2>2, FrameActs
  <2>3. CASE UNCHANGED dvars
    BY <2>3
  <2> QED
    BY <1>3, <2>1, <2>2, <2>3 DEF DriverNext, OldFrame
<1> QED
  BY <1>1, <1>2, <1>3, DriverAlways, PTL
  DEF DriverSpec, StateDecoded, GroundDebounced, SwitchLatched

(***************************************************************************)
(* A velocity is a distance between two readings over the time between the *)
(* same two, across the wraps of the packet counter and the readings that  *)
(* are passed over.                                                        *)
(***************************************************************************)
THEOREM VelocitiesAreTrue == DriverSpec => []VelocitiesSpan
<1>1. ASSUME DriverInv PROVE VelocitiesSpan
  <2>1. DriverType /\ CounterInv /\ PositionInv /\ AbsoluteInv
    BY <1>1 DEF DriverInv
  <2>2. ElapsedTimeCounted
    BY <2>1, ElapsedTime DEF ElapsedTimeCounted
  <2>3. ASSUME Used, ~seen.jumped, ~LostCount
        PROVE  AbsoluteVelocity = [d |-> axis - seen.used, dt |-> seen.unused]
    <3>1. kind = "leg" /\ ~skipMotorEncoder /\ seen.elapsed > 0 /\ seen.synced
      BY <2>1, <2>3 DEF Used, CounterInv
    <3>2. board.counter # drv.timingCounterValue
      BY <2>1, <2>3, <3>1, DriverConstants DEF CounterInv, LostCount, DriverType, PacketCounts
    <3>3. board.abs = axis
      BY <2>1, <3>1, <3>2, UsedIsTrue
    <3>4. deltaTime = seen.elapsed
      BY <2>1, <2>3, <3>1, ElapsedTime
    <3>5. drv.abs = seen.used /\ drv.absDt = seen.unused - seen.elapsed
      BY <2>1, <2>3, <3>1 DEF AbsoluteInv
    <3>6. board.abs - drv.abs = axis - seen.used /\ drv.absDt + deltaTime = seen.unused
      BY <2>1, <3>3, <3>4, <3>5 DEF DriverType
    <3> QED
      BY <3>6 DEF AbsoluteVelocity
  <2> QED
    BY <2>2, <2>3 DEF VelocitiesSpan, VelocitySpansUnchanged
<1> QED
  BY <1>1, DriverAlways, PTL
=============================================================================
